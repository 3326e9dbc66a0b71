----------------------------- MODULE CodexBridge ------------------------------
(***************************************************************************)
(* The translation of a chat/completions stream into Responses events      *)
(* (codex_responses_bridge/stream.py), beside the translation of the whole *)
(* completion (response.py).                                               *)
(*                                                                         *)
(* Texts are counted in fragments.  st is _StreamState; what was emitted   *)
(* is not kept as a sequence but run through the grammar a client parses   *)
(* it with (seen): every item is added once, gets its deltas, is done      *)
(* once, and the terminal event repeats the done items in index order.     *)
(*                                                                         *)
(* The two request translators to Chat Completions: a Responses request    *)
(* (codex_responses_bridge/request.py, system_norm.py, reasoning_effort.py)*)
(* and an Anthropic one (sanitizer/openai_bridge.py).  A request is grown  *)
(* item by item; what it translates to is a function of it.  What cannot   *)
(* be represented is refused.                                              *)
(*                                                                         *)
(* Text is a count of fragments, a call is named by its call_id; a         *)
(* malformed item is one whose id, shape or type the translator rejects.   *)
(***************************************************************************)
EXTENDS Sequences, SequencesExt, Integers, FiniteSets

CONSTANTS
    MaxChunk,           \* chunks of a stream
    LengthCompletes,     \* length_as_completed
    MaxItem, MaxTool

VARIABLES
    st,         \* _StreamState
    seen,       \* the client's view of the events
    sent,       \* what the upstream sent: [reason, text, args]
    count,      \* chunks so far
    over,        \* how the stream ended; "open" while it runs
    body,       \* the Responses request
    turns       \* the Anthropic messages

stream == <<st, seen, sent, count, over>>
request == <<body, turns>>
vars == <<stream, request>>

Indexes == {0, 1}
Ids     == {"", "A", "B"}           \* "" is an absent id or name
Finishes == {"", "stop", "length"}
NoTool  == [index |-> 9, id |-> "", name |-> "", args |-> 0]
Chunks  == [reason : {0, 1}, text : {0, 1}, finish : Finishes,
            tool : {NoTool} \cup [index : Indexes, id : Ids, name : {"", "f"}, args : {0, 1}]]

NoItem == [open |-> FALSE, kind |-> "", oi |-> 0, id |-> "", name |-> "", buf |-> 0]

StreamInit ==
    /\ st = [reason |-> NoItem, text |-> NoItem, tools |-> [i \in Indexes |-> NoItem],
             order |-> <<>>, output |-> <<>>, next |-> 0, terminal |-> FALSE, finish |-> "",
             events |-> <<>>, raised |-> FALSE]
    /\ seen = [items |-> <<>>, terminal |-> "", bad |-> FALSE]
    /\ sent = [reason |-> 0, text |-> 0, args |-> 0] /\ count = 0 /\ over = "open"

-----------------------------------------------------------------------------
(* _StreamState, as functions from state to state that add events.         *)

Emit(s, e) == [s EXCEPT !.events = Append(@, e)]
Raise(s)   == [s EXCEPT !.raised = TRUE]

Added(s, kind, id, name) ==
    LET item == [open |-> TRUE, kind |-> kind, oi |-> s.next, id |-> id, name |-> name, buf |-> 0]
    IN  <<item, Emit([s EXCEPT !.next = @ + 1], [e |-> "added", oi |-> s.next, n |-> 0])>>

Delta(s, oi) == Emit(s, [e |-> "delta", oi |-> oi, n |-> 1])

Finished(s, item, status) ==
    Emit([s EXCEPT !.output = Append(@, [oi |-> item.oi, kind |-> item.kind, id |-> item.id,
                                         buf |-> item.buf, status |-> status])],
         [e |-> "done", oi |-> item.oi, n |-> item.buf])

CloseReasoning(s) ==
    IF s.raised \/ ~s.reason.open THEN s
    ELSE [Finished(s, s.reason, "completed") EXCEPT !.reason = NoItem]

CloseText(s, status) ==
    IF s.raised \/ ~s.text.open THEN s
    ELSE [Finished(s, s.text, status) EXCEPT !.text = NoItem]

\* A call that never got a name is refused.
CloseTool(s, i, status) ==
    LET t == s.tools[i]
        popped == [s EXCEPT !.tools[i] = NoItem, !.order = SelectSeq(@, LAMBDA j : j # i)]
    IN  IF s.raised \/ ~t.open THEN s
        ELSE IF t.name = "" THEN Raise(popped) ELSE Finished(popped, t, status)

CloseAllTools(s, status) == FoldLeft(LAMBDA acc, i : CloseTool(acc, i, status), s, s.order)

\* Reasoning after output has begun is refused, not dropped.
HandleReasoning(s) ==
    IF s.text.open \/ s.order # <<>> THEN Raise(s)
    ELSE LET made == IF s.reason.open THEN <<s.reason, s>> ELSE Added(s, "reasoning", "", "")
         IN  Delta([made[2] EXCEPT !.reason = [made[1] EXCEPT !.buf = @ + 1]], made[1].oi)

HandleText(s) ==
    LET before == IF s.text.open THEN s ELSE CloseAllTools(CloseReasoning(s), "completed")
        made == IF before.text.open THEN <<before.text, before>> ELSE Added(before, "message", "", "")
    IN  IF before.raised THEN before
        ELSE Delta([made[2] EXCEPT !.text = [made[1] EXCEPT !.buf = @ + 1]], made[1].oi)

\* Mutant: a slot is reused without closing the call that has it.
OpenToolOver(s, d, isNew) ==
    LET ready == CloseText(CloseReasoning(s), "completed")
        made  == Added(ready, "function_call", d.id, d.name)
    IN  IF ready.raised THEN ready
        ELSE [made[2] EXCEPT !.tools[d.index] = made[1], !.order = Append(@, d.index)]

\* A different id on a slot in use is a new call.
OpenTool(s, d, isNew) ==
    LET freed == IF isNew THEN CloseTool(s, d.index, "completed") ELSE s
        ready == CloseText(CloseReasoning(freed), "completed")
        made  == Added(ready, "function_call", d.id, d.name)
    IN  IF ready.raised THEN ready
        ELSE [made[2] EXCEPT !.tools[d.index] = made[1], !.order = Append(@, d.index)]

\* Id and name may come with a later fragment.
HandleTool(s, d) ==
    LET t == s.tools[d.index]
        isNew == t.open /\ d.id # "" /\ t.id # "" /\ d.id # t.id
        s1 == IF ~t.open \/ isNew THEN OpenTool(s, d, isNew)
              ELSE [s EXCEPT !.tools[d.index].id = IF @ = "" THEN d.id ELSE @,
                             !.tools[d.index].name = IF @ = "" THEN d.name ELSE @]
    IN  IF s1.raised \/ d.args = 0 THEN s1
        ELSE Delta([s1 EXCEPT !.tools[d.index].buf = @ + 1], s1.tools[d.index].oi)

\* feed: a recognised finish is final; reasoning, then text, then tools.
Feed(s, c) ==
    LET s0 == IF c.finish = "" THEN s ELSE [s EXCEPT !.terminal = TRUE, !.finish = c.finish]
        s1 == IF c.reason = 1 THEN HandleReasoning(s0) ELSE s0
        s2 == IF c.text = 1 /\ ~s1.raised THEN HandleText(s1) ELSE s1
    IN  IF s.terminal THEN Raise(s)
        ELSE IF c.tool = NoTool \/ s2.raised THEN s2 ELSE HandleTool(s2, c.tool)

\* _finish_to_status, with the status of an item that was cut
Status(finish) == IF finish = "length" /\ ~LengthCompletes THEN "incomplete" ELSE "completed"

\* finalize, and the response object of the terminal event
Finalize(s) ==
    LET closed == CloseAllTools(CloseText(CloseReasoning(s), Status(s.finish)), Status(s.finish))
    IN  IF closed.raised THEN closed ELSE Emit(closed, [e |-> Status(s.finish), oi |-> 0, n |-> 0])

\* An error chunk, and a stream that ends without a finish.
Fail(s) == Emit(s, [e |-> "failed", oi |-> 0, n |-> 0])

-----------------------------------------------------------------------------
(* The client.                                                             *)

Item(v, oi) == v.items[oi + 1]

\* One event through the grammar of the Responses stream.
Read(v, e) ==
    LET known == e.oi < Len(v.items)
    IN  CASE v.terminal # "" -> [v EXCEPT !.bad = TRUE]
          [] e.e = "added" -> IF e.oi = Len(v.items)
                              THEN [v EXCEPT !.items = Append(@, [n |-> 0, done |-> FALSE])]
                              ELSE [v EXCEPT !.bad = TRUE]
          [] e.e = "delta" -> IF known /\ ~Item(v, e.oi).done
                              THEN [v EXCEPT !.items[e.oi + 1].n = @ + 1]
                              ELSE [v EXCEPT !.bad = TRUE]
          [] e.e = "done"  -> IF known /\ ~Item(v, e.oi).done /\ Item(v, e.oi).n = e.n
                              THEN [v EXCEPT !.items[e.oi + 1].done = TRUE]
                              ELSE [v EXCEPT !.bad = TRUE]
          [] OTHER -> [v EXCEPT !.terminal = e.e]

\* The route sends what the translator yields; a raise ends the response.
Step(new, how) ==
    /\ st' = [new EXCEPT !.events = <<>>]
    /\ seen' = IF new.raised THEN seen ELSE FoldLeft(Read, seen, new.events)
    /\ over' = IF new.raised THEN "refused" ELSE how

Chunk(c) ==
    /\ over = "open" /\ count < MaxChunk
    /\ count' = count + 1
    /\ sent' = [reason |-> sent.reason + c.reason, text |-> sent.text + c.text,
                args |-> sent.args + c.tool.args]
    /\ Step(Feed(st, c), "open")

\* Error chunks, several choices and refusals.
BadChunk(kind) ==
    /\ over = "open"
    /\ IF kind = "error" THEN Step(Fail(st), "failed") ELSE Step(Raise(st), "refused")
    /\ UNCHANGED <<sent, count>>

EndOfStream ==
    /\ over = "open"
    /\ IF st.terminal THEN Step(Finalize(st), "finished") ELSE Step(Fail(st), "failed")
    /\ UNCHANGED <<sent, count>>

StreamStep == (\E c \in Chunks : Chunk(c)) \/ (\E k \in {"error", "unrepresentable"} : BadChunk(k)) \/ EndOfStream

-----------------------------------------------------------------------------
Total(kind) == FoldLeft(LAMBDA n, item : IF item.kind = kind THEN n + item.buf ELSE n, 0, st.output)

\* Whatever the upstream interleaves: the events parse, a response that ends
\* in completed or incomplete had a finish and is whole (every item done, and
\* its output holds every fragment that was sent, as the translation of the
\* whole completion would), and any other end is failed or refused.
StreamParses ==
    /\ ~seen.bad
    /\ seen.terminal \in {"completed", "incomplete"} =>
        /\ st.terminal /\ \A i \in DOMAIN seen.items : seen.items[i].done
        /\ Total("reasoning") = sent.reason /\ Total("message") = sent.text
        /\ Total("function_call") = sent.args
        /\ Len(st.output) = Len(seen.items)
    /\ over = "failed" => seen.terminal = "failed"

-----------------------------------------------------------------------------
CallIdSet     == {"A", "B"}
Auto    == [kind |-> "auto", name |-> ""]
ToolChoices == {Auto, [kind |-> "required", name |-> ""], [kind |-> "function", name |-> "f"],
            [kind |-> "odd", name |-> ""]}
Ladder  == <<"none", "low", "high", "max">>
Items == [t : {"message"}, role : {"user", "assistant", "developer"}, id : {""}]
    \cup [t : {"function_call", "function_call_output"}, role : {""}, id : CallIdSet]
    \cup [t : {"malformed"}, role : {""}, id : {""}]
Tools == [t : {"function", "namespace", "unsupported"}, names : {{"f"}, {"f", "g"}, {"g"}}]

\* Policy "asis" is also what a model that the pattern does not match gets.
RequestInit ==
    /\ body \in [items : {<<>>}, tools : {<<>>}, prior : {<<>>, <<"A">>}, instructions : BOOLEAN,
                 policy : {"asis", "hoist", "user", "reject"},
                 flatten : {TRUE}, choice : {Auto}, effort : {"none"}, levels : {{"low", "high"}},
                 tooled : {FALSE}]
    /\ turns = <<>>

-----------------------------------------------------------------------------
(* _input_to_messages                                                      *)

Msg(role, calls, id) == [role |-> role, calls |-> calls, id |-> id]

Role(role) == IF role = "developer" THEN "system" ELSE role     \* _map_role

\* Mutant: a block of its own for every call.
OneEach(acc, id) == [acc EXCEPT !.out = Append(@, Msg("assistant", <<id>>, "")), !.pending = TRUE]

\* acc.pending: the last message is gathering calls.  Consecutive calls, and a message of the assistant before them, make one block.
Coalesce(acc, id) ==
    IF acc.pending \/ (acc.out # <<>> /\ Last(acc.out).role = "assistant" /\ Last(acc.out).calls = <<>>)
    THEN [acc EXCEPT !.out[Len(acc.out)].calls = Append(@, id), !.pending = TRUE]
    ELSE [acc EXCEPT !.out = Append(@, Msg("assistant", <<id>>, "")), !.pending = TRUE]

\* No id, name or role that a chat message can have, an image or a reasoning
\* state that it cannot carry, a shape or type that is not known.
Malformed(item) == item.t = "malformed"

Translate(acc, item) ==
    CASE item.t = "message" -> [out |-> Append(acc.out, Msg(Role(item.role), <<>>, "")), pending |-> FALSE]
      [] item.t = "function_call" -> Coalesce(acc, item.id)
      [] OTHER -> [out |-> Append(acc.out, Msg("tool", <<>>, item.id)), pending |-> FALSE]

InputToMessages(items) == FoldLeft(Translate, [out |-> <<>>, pending |-> FALSE], items).out

-----------------------------------------------------------------------------
(* normalize_system_messages                                               *)

IsSystem(m) == m.role = "system"

Hoist(ms) == IF \E i \in DOMAIN ms : IsSystem(ms[i])
             THEN <<Msg("system", <<>>, "")>> \o SelectSeq(ms, LAMBDA m : ~IsSystem(m)) ELSE ms

\* The leading run becomes one message, every later one the user's.
DemoteToUser(ms) ==
    LET head == CHOOSE n \in 0..Len(ms) : /\ \A i \in 1..n : IsSystem(ms[i])
                                          /\ n < Len(ms) => ~IsSystem(ms[n + 1])
        tail == SubSeq(ms, head + 1, Len(ms))
    IN  (IF head = 0 THEN <<>> ELSE <<ms[1]>>)
            \o [i \in DOMAIN tail |-> IF IsSystem(tail[i]) THEN [tail[i] EXCEPT !.role = "user"] ELSE tail[i]]

NeedsRewrite(ms) == \E i \in 2..Len(ms) : IsSystem(ms[i])

RewriteRefused(ms, b) == b.policy = "reject" /\ NeedsRewrite(ms)

Normalize(ms, b) ==
    CASE b.policy = "asis" -> ms
      [] b.policy = "hoist" -> Hoist(ms)
      [] b.policy = "user" -> DemoteToUser(ms)
      [] OTHER -> ms

-----------------------------------------------------------------------------
(* Tools, their choice and the reasoning effort.                           *)

\* Mutant: of two tools of one name the last wins.
EmitLastWins(acc, t) ==
    [ok |-> acc.ok /\ t.t # "unsupported" /\ (t.t = "namespace" => body.flatten),
     names |-> acc.names \cup t.names]

\* _emit, for a function or for every function of a namespace.
EmitTool(acc, t) ==
    [ok |-> /\ acc.ok /\ t.t # "unsupported" /\ (t.t = "namespace" => body.flatten)
            /\ t.names \cap acc.names = {},
     names |-> acc.names \cup t.names]

TranslateTools(tools) == FoldLeft(EmitTool, [ok |-> TRUE, names |-> {}], tools)

ChoiceFits(choice, names) ==
    CASE choice.kind = "auto" -> TRUE
      [] choice.kind = "required" -> names # {}
      [] choice.kind = "function" -> choice.name \in names
      [] OTHER -> FALSE

\* clamp_reasoning_effort: the nearest allowed level, the cheaper one of two.
Place(level) == CHOOSE i \in DOMAIN Ladder : Ladder[i] = level
Gap(a, b) == IF Place(a) > Place(b) THEN Place(a) - Place(b) ELSE Place(b) - Place(a)

Clamp(level, levels) ==
    IF level \in levels THEN level
    ELSE CHOOSE l \in levels : \A k \in levels : \/ Gap(l, level) < Gap(k, level)
                                                 \/ Gap(l, level) = Gap(k, level) /\ Place(l) <= Place(k)

-----------------------------------------------------------------------------
\* responses_request_to_chat_body: the history, this turn's instructions, the input.
Joined(b) ==
    [i \in DOMAIN b.prior |-> Msg("assistant", <<b.prior[i]>>, "")]
    \o (IF b.instructions THEN <<Msg("system", <<>>, "")>> ELSE <<>>)
    \o InputToMessages(b.items)

Accepted(b) ==
    /\ \A i \in DOMAIN b.items : ~Malformed(b.items[i])
    /\ ~RewriteRefused(Joined(b), b)
    /\ TranslateTools(b.tools).ok /\ ChoiceFits(b.choice, TranslateTools(b.tools).names)
    /\ b.levels # {}

Chat(b) == [messages |-> Normalize(Joined(b), b), tools |-> TranslateTools(b.tools),
            effort |-> Clamp(b.effort, b.levels)]

-----------------------------------------------------------------------------
(* anthropic_request_to_openai_body: a turn is [role, text, calls, results].*)

ConvertTurn(t) ==
    IF t.role = "assistant" THEN <<Msg("assistant", t.ids, "")>>
    ELSE (IF t.text THEN <<Msg("user", <<>>, "")>> ELSE <<>>)
         \o [i \in DOMAIN t.ids |-> Msg("tool", <<>>, t.ids[i])]

OpenAI(ts) == FlattenSeq([i \in DOMAIN ts |-> ConvertTurn(ts[i])])

-----------------------------------------------------------------------------
AddItem(item) == /\ Len(body.items) < MaxItem /\ turns = <<>> /\ ~body.tooled
                 /\ body' = [body EXCEPT !.items = Append(@, item)]
                 /\ UNCHANGED turns

Configure(choice, effort, flatten, levels) ==
    /\ body.items = <<>> /\ turns = <<>> /\ ~body.tooled
    /\ body.prior = <<>> /\ ~body.instructions /\ body.policy = "asis"
    /\ body' = [body EXCEPT !.choice = choice, !.effort = effort, !.flatten = flatten,
                            !.levels = levels, !.tooled = TRUE]
    /\ UNCHANGED turns

AddTool(tool) ==
    /\ Len(body.tools) < MaxTool /\ body.tooled
    /\ body' = [body EXCEPT !.tools = Append(@, tool)]
    /\ UNCHANGED turns

\* The SDK's history: calls of the assistant, then a turn with their results.
AddTurn(role, text, ids) ==
    /\ Len(turns) < MaxItem /\ body.items = <<>> /\ ~body.tooled
    /\ turns # <<>> => Last(turns).role # role
    /\ IF turns # <<>> /\ role = "user" THEN ids = Last(turns).ids ELSE role = "user" => ids = <<>>
    /\ turns' = Append(turns, [role |-> role, text |-> text, ids |-> ids])
    /\ UNCHANGED body

RequestStep ==
    \/ \E item \in Items : AddItem(item)
    \/ \E choice \in ToolChoices, effort \in ToSet(Ladder), flatten \in BOOLEAN,
          levels \in SUBSET {"low", "high"} : Configure(choice, effort, flatten, levels)
    \/ \E tool \in Tools : AddTool(tool)
    \/ \E role \in {"user", "assistant"}, text \in BOOLEAN, ids \in {<<>>, <<"A">>, <<"A", "B">>} :
           AddTurn(role, text, ids)

-----------------------------------------------------------------------------
CallIds(ms) == FlattenSeq([i \in DOMAIN ms |-> ms[i].calls])
Results(ms) == LET tools == SelectSeq(ms, LAMBDA m : m.role = "tool")
               IN  [i \in DOMAIN tools |-> tools[i].id]
ItemIds(items, type) == LET of == SelectSeq(items, LAMBDA i : i.t = type)
                        IN  [i \in DOMAIN of |-> of[i].id]

\* The block a tool result answers: the nearest message before it that is not one.
Answers(ms, i) ==
    \E j \in 1..(i - 1) : /\ \A k \in (j + 1)..(i - 1) : ms[k].role = "tool"
                          /\ ms[i].id \in ToSet(ms[j].calls)

\* Calls and their results come as an SDK sends them: a run of calls, then
\* the results of that run.
InRuns(items) ==
    \A i \in DOMAIN items : items[i].t = "function_call_output" =>
        \E j \in 1..(i - 1) : /\ items[j].t = "function_call" /\ items[j].id = items[i].id
                              /\ \A k \in j..(i - 1) : items[k].t # "message"
                              /\ \A k \in j..(i - 1) : items[k].t = "function_call_output" =>
                                     \A l \in k..i : items[l].t # "function_call"

\* What is translated is all there: every call and every result in order,
\* each result next to the block that asked for it, every tool callable under
\* one name, a choice that can be met, and an effort the backend knows; and a
\* model that takes no later system message is sent none.  Of the Anthropic
\* translator, which puts a turn's text before its results: no other assistant
\* message comes between a call and its result.
RequestIsFaithful ==
    /\ LET ms == OpenAI(turns) IN
       \A i \in DOMAIN ms : ms[i].role = "tool" =>
           \E j \in 1..(i - 1) : /\ ms[i].id \in ToSet(ms[j].calls)
                                 /\ \A k \in (j + 1)..(i - 1) : ms[k].role # "assistant"
    /\ Accepted(body) =>
        LET c == Chat(body) IN
        /\ CallIds(c.messages) = body.prior \o ItemIds(body.items, "function_call")
        /\ Results(c.messages) = ItemIds(body.items, "function_call_output")
        /\ InRuns(body.items) =>
               \A i \in DOMAIN c.messages : c.messages[i].role = "tool" => Answers(c.messages, i)
        /\ body.policy # "asis" => ~NeedsRewrite(c.messages)
        /\ Cardinality(c.tools.names) = FoldLeft(LAMBDA n, t : n + Cardinality(t.names), 0, body.tools)
        /\ body.choice.kind = "function" => body.choice.name \in c.tools.names
        /\ c.effort \in body.levels

-----------------------------------------------------------------------------
\* The two have no state in common.
Init == StreamInit /\ RequestInit
StreamNext == StreamStep /\ UNCHANGED request
RequestNext == RequestStep /\ UNCHANGED stream
Next == StreamNext \/ RequestNext

Spec == Init /\ [][Next]_vars
=============================================================================

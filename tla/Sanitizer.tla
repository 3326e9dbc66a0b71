------------------------------ MODULE Sanitizer -------------------------------
(***************************************************************************)
(* POST /v1/messages (sanitizer/): an Anthropic event stream, or an OpenAI *)
(* chunk stream converted to one (openai_bridge.py), is put in order by    *)
(* sanitize_events (stream_sanitizer.py) before the SDK reads it.          *)
(*                                                                         *)
(* An event is [e, t, call, n]: its kind, the block or delta type, the     *)
(* tool call it belongs to and whether it carries anything.                *)
(***************************************************************************)
EXTENDS Integers, Sequences, SequencesExt

CONSTANT MaxEvent   \* events, or chunks, of the upstream

VARIABLES
    bridged,        \* SANITIZER_OPENAI_BRIDGE
    br,             \* _StreamState of the bridge
    san,            \* sanitize_events: seen_message_start, index, block type
    out,            \* what the SDK read, through the grammar it expects
    sent,           \* fragments sent: text, thinking, arguments by call
    count,
    over            \* the upstream's stream ended

vars == <<bridged, br, san, out, sent, count, over>>

Calls  == {0, 1}
Deltas == {"text_delta", "thinking_delta", "input_json_delta", "citations_delta"}
Blocks == {"text", "thinking", "tool_use", "server_tool_use"}
Ev(e, t, call) == [e |-> e, t |-> t, call |-> call, n |-> 1]

NoCall == [there |-> FALSE, parts |-> 0]

Init ==
    /\ bridged \in BOOLEAN
    /\ br = [open |-> "none", pending |-> [i \in Calls |-> NoCall], started |-> FALSE, events |-> <<>>]
    /\ san = [started |-> FALSE, index |-> -1, type |-> "none", events |-> <<>>]
    /\ out = [started |-> FALSE, index |-> -1, open |-> "none", stopped |-> FALSE, bad |-> FALSE,
              got |-> [text |-> 0, thinking |-> 0, args |-> [i \in Calls |-> 0]]]
    /\ sent = [text |-> 0, thinking |-> 0, args |-> [i \in Calls |-> 0]]
    /\ count = 0 /\ over = FALSE

-----------------------------------------------------------------------------
(* The bridge: chunks to events.                                           *)

Add(b, e) == [b EXCEPT !.events = Append(@, e)]

CloseBlock(b) == IF b.open = "none" THEN b
                 ELSE [Add(b, Ev("content_block_stop", b.open, 0)) EXCEPT !.open = "none"]

OpenBlock(b, type, call) == [Add(CloseBlock(b), Ev("content_block_start", type, call)) EXCEPT !.open = type]

\* One buffered call as a contiguous block.
FlushCall(b, i) ==
    LET p == b.pending[i]
        opened == OpenBlock(b, "tool_use", i)
        filled == [opened EXCEPT !.events =
                      @ \o [k \in 1..p.parts |-> Ev("content_block_delta", "input_json_delta", i)]]
    IN  IF p.there THEN [CloseBlock(filled) EXCEPT !.pending[i] = NoCall] ELSE b

FlushToolCalls(b) == FoldLeft(FlushCall, b, <<0, 1>>)

\* Reasoning and text share the rule: the calls before them go out first.
Say(b, type) ==
    LET f == FlushToolCalls(b)
        opened == IF f.open = type THEN f ELSE OpenBlock(f, type, 0)
    IN  Add(opened, Ev("content_block_delta", IF type = "text" THEN "text_delta" ELSE "thinking_delta", 0))

\* _record_tool_call_delta
Record(b, i, args) ==
    [b EXCEPT !.pending[i] = [there |-> TRUE, parts |-> @.parts + args]]

Convert(b, c) ==
    LET b0 == IF b.started THEN b ELSE [Add(b, Ev("message_start", "", 0)) EXCEPT !.started = TRUE]
        b1 == IF c.thinking = 1 THEN Say(b0, "thinking") ELSE b0
        b2 == IF c.text = 1 THEN Say(b1, "text") ELSE b1
    IN  IF c.call \in Calls THEN Record(b2, c.call, c.args) ELSE b2

\* After the last chunk, however the stream ended.
Conclude(b) ==
    LET b0 == IF b.started THEN b ELSE [Add(b, Ev("message_start", "", 0)) EXCEPT !.started = TRUE]
        b1 == CloseBlock(FlushToolCalls(b0))
    IN  Add(Add(b1, Ev("message_delta", "", 0)), Ev("message_stop", "", 0))

-----------------------------------------------------------------------------
(* sanitize_events.                                                        *)

Holds(type) ==
    CASE type = "text_delta" -> {"text"}
      [] type = "thinking_delta" -> {"thinking"}
      [] type = "input_json_delta" -> {"tool_use", "server_tool_use"}
      [] OTHER -> {}

Primary(type) == CASE type = "text_delta" -> "text" [] type = "thinking_delta" -> "thinking"
                   [] OTHER -> "tool_use"

Pass(s, e, i) == [s EXCEPT !.events = Append(@, [e EXCEPT !.n = i])]
Close(s) == IF s.type = "none" THEN s
            ELSE [Pass(s, Ev("content_block_stop", s.type, 0), s.index) EXCEPT !.type = "none"]
Start(s, e) == LET c == Close(s) IN [Pass(c, e, c.index + 1) EXCEPT !.index = @ + 1, !.type = e.t]

\* Mutant: a delta that does not fit is sent in the block that is open.
DeltaAnywhere(s, e) == Pass(s, e, s.index)

\* A delta of a known type that does not fit the open block gets a block of its own.
DeltaIn(s, e) ==
    IF Holds(e.t) # {} /\ s.type \notin Holds(e.t)
    THEN LET c == Start(s, Ev("content_block_start", Primary(e.t), e.call)) IN Pass(c, e, c.index)
    ELSE Pass(s, e, s.index)

Sanitize(s, e) ==
    CASE e.e = "message_start" -> IF s.started THEN s ELSE [Pass(s, e, 0) EXCEPT !.started = TRUE]
      [] e.e = "content_block_start" -> Start(s, e)
      [] e.e = "content_block_delta" -> IF e.n = 0 /\ Holds(e.t) # {} THEN s ELSE DeltaIn(s, e)
      [] e.e = "content_block_stop" -> Close(s)
      [] e.e \in {"message_delta", "message_stop"} -> Pass(Close(s), e, 0)
      [] OTHER -> Pass(s, e, 0)

-----------------------------------------------------------------------------
(* The SDK's reader.                                                       *)

Got(g, e) ==
    CASE e.t = "text_delta" -> [g EXCEPT !.text = @ + 1]
      [] e.t = "thinking_delta" -> [g EXCEPT !.thinking = @ + 1]
      [] e.t = "input_json_delta" -> [g EXCEPT !.args[e.call] = @ + 1]
      [] OTHER -> g

Accept(o, e) ==
    CASE e.e = "message_start" -> [o EXCEPT !.started = TRUE, !.bad = @ \/ o.started]
      [] e.e = "content_block_start" ->
            [o EXCEPT !.open = e.t, !.index = e.n, !.bad = @ \/ o.open # "none" \/ e.n # o.index + 1]
      [] e.e = "content_block_delta" ->
            [o EXCEPT !.got = Got(@, e),
                      !.bad = @ \/ (Holds(e.t) # {} /\ (o.open \notin Holds(e.t) \/ e.n # o.index))]
      [] e.e = "content_block_stop" -> [o EXCEPT !.open = "none", !.bad = @ \/ o.open = "none" \/ e.n # o.index]
      [] e.e = "ping" -> o
      [] OTHER -> [o EXCEPT !.stopped = @ \/ e.e = "message_stop", !.bad = @ \/ o.open # "none"]

Deliver(events) ==
    LET s == FoldLeft(Sanitize, san, events)
    IN  /\ san' = [s EXCEPT !.events = <<>>]
        /\ out' = FoldLeft(Accept, out, s.events)

Room == ~over /\ count < MaxEvent /\ count' = count + 1

\* Bridged: a chunk, of a call or of none (9).
Chunk(thinking, text, call, args) ==
    /\ bridged /\ Room
    /\ call \notin Calls => args = 0
    /\ LET b == Convert(br, [thinking |-> thinking, text |-> text, call |-> call, args |-> args])
       IN  br' = [b EXCEPT !.events = <<>>] /\ Deliver(b.events)
    /\ sent' = [text |-> sent.text + text, thinking |-> sent.thinking + thinking,
                args |-> [i \in Calls |-> sent.args[i] + IF i = call THEN args ELSE 0]]
    /\ UNCHANGED <<bridged, over>>

\* The chunk stream ends, with or without a finish.
ChunksEnd ==
    /\ bridged /\ ~over /\ over' = TRUE
    /\ br' = [Conclude(br) EXCEPT !.events = <<>>] /\ Deliver(Conclude(br).events)
    /\ UNCHANGED <<bridged, sent, count>>

\* Direct: any event, as some upstreams mix them up; n = 0 is an empty delta.
Event(e, t, n) ==
    /\ ~bridged /\ Room
    /\ Deliver(<<[e |-> e, t |-> t, call |-> 0, n |-> n]>>)
    /\ sent' = IF e = "content_block_delta" /\ n = 1 THEN Got(sent, [t |-> t, call |-> 0]) ELSE sent
    /\ UNCHANGED <<bridged, br, over>>

EventsEnd == ~bridged /\ ~over /\ over' = TRUE /\ UNCHANGED <<bridged, br, san, out, sent, count>>

Next ==
    \/ \E thinking, text, args \in {0, 1}, call \in Calls \cup {9} : Chunk(thinking, text, call, args)
    \/ ChunksEnd
    \/ \E t \in Deltas, n \in {0, 1} : Event("content_block_delta", t, n)
    \/ \E t \in Blocks : Event("content_block_start", t, 1)
    \/ \E e \in {"message_start", "content_block_stop", "message_delta", "message_stop", "ping"} : Event(e, "", 1)
    \/ EventsEnd

Spec == Init /\ [][Next]_vars

-----------------------------------------------------------------------------
\* Whatever mixture comes in, blocks come out one at a time, numbered from 0,
\* each delta of a known type in an open block that can hold it, and no
\* fragment is lost, doubled or given to another call.
OutputConforms ==
    /\ ~out.bad
    /\ (over \/ ~bridged) => out.got = sent
    /\ over /\ bridged => out.stopped

=============================================================================

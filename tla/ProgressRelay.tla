--------------------------- MODULE ProgressRelay ----------------------------
(***************************************************************************)
(* The progress relay (mcp_progress_relay.py): the CLI's calls to HTTP MCP *)
(* servers pass through the gateway, which reads the progress of a tool    *)
(* off the wire for the turn that is being read, and adds the operator's   *)
(* read-only hint to the reply of a tools/list wherever it is delivered.   *)
(* Every client of a session has a handle of its own.  Bodies are events   *)
(* in two halves, so that a chunk may end inside one; texts, headers and   *)
(* the caller check are left out.                                          *)
(***************************************************************************)
EXTENDS Naturals, Sequences, SequencesExt

CONSTANTS Calls, Tokens, None,
          MaxClient, MaxTurn, MaxPart, MaxStream,  \* bounds of the instance
          MaxTokens, QueueSize, MaxPending         \* _MAX_TOKENS, _QUEUE_SIZE, _MAX_PENDING_LISTS

VARIABLES
    client,    \* the session's client, counted; its handle has the same number
    probed,    \* _probe_ok: the relay has answered the self-probe
    registry,  \* the handles that requests are served for
    tokens,    \* RelayHandle.tokens, oldest first
    queue,     \* RelayHandle.queue
    call,      \* the tools/call requests of the CLIs
    turn,      \* the turn's reading loop: its number, whether it reads, its handle
    shown,     \* the progress it yielded last
    list,      \* the tools/list requests: new, owed (to come on a GET) or over
    owed,      \* RelayHandle.pending_lists of the server with read-only tools
    known,     \* the handles whose pending_lists has that server
    stream     \* the GET stream of that server (due: owed since it was opened, a history variable)

vars == <<client, probed, registry, tokens, queue, call, turn, shown, list, owed, known, stream>>

Clients == 1..MaxClient
Lists == {1, 2}
Other == 0     \* an event that answers no tools/list
Closed == [of |-> 0, seen |-> 0, tracks |-> FALSE, due |-> {}, in |-> <<>>, out |-> <<>>, held |-> <<>>]

Init ==
    /\ client = 0 /\ probed = FALSE /\ registry = {}
    /\ tokens = [h \in Clients |-> <<>>] /\ queue = [h \in Clients |-> <<>>]
    /\ call = [c \in Calls |-> [stage |-> "new", of |-> 0, token |-> None, half |-> FALSE]]
    /\ turn = [no |-> 0, reads |-> FALSE, of |-> 0] /\ shown = <<>>
    /\ list = [i \in Lists |-> "new"]
    /\ owed = [h \in Clients |-> {}] /\ known = {} /\ stream = Closed

-----------------------------------------------------------------------------
\* A probe that was answered once is not repeated.
Reachable(answer) == probed \/ answer

\* A new client: the handle of the one before is dropped; the servers stay
\* direct if the relay cannot be reached.
CreateClient ==
    /\ client < MaxClient /\ ~turn.reads
    /\ client' = client + 1
    /\ \E answer \in BOOLEAN :
          /\ probed' = Reachable(answer)
          /\ registry' = (registry \ {client}) \cup (IF Reachable(answer) THEN {client + 1} ELSE {})
    /\ UNCHANGED <<tokens, queue, call, turn, shown, list, owed, known, stream>>

\* Mutant: a token that is known keeps the call it was first used for.
RememberFirst(ts, t, c) ==
    IF \E k \in DOMAIN ts : ts[k].token = t THEN ts
    ELSE LET all == Append(ts, [token |-> t, tool |-> c])
         IN  IF Len(all) > MaxTokens THEN Tail(all) ELSE all

\* The newest token last; the oldest goes when there are too many.
Remember(ts, t, c) ==
    LET all == Append(SelectSeq(ts, LAMBDA e : e.token # t), [token |-> t, tool |-> c])
    IN  IF Len(all) > MaxTokens THEN Tail(all) ELSE all

Active(d) == call[d].stage \in {"sending", "streaming"}

\* A tools/call of the current CLI: the token is recorded before the request
\* goes on to the server.  A CLI's tokens are different while their calls run.
Post(c, t) ==
    /\ call[c].stage = "new" /\ client \in registry
    /\ \A d \in Calls : Active(d) /\ call[d].of = client => call[d].token # t
    /\ call' = [call EXCEPT ![c] = [stage |-> "sending", of |-> client, token |-> t, half |-> FALSE]]
    /\ tokens' = [tokens EXCEPT ![client] = Remember(@, t, c)]
    /\ UNCHANGED <<client, probed, registry, queue, turn, shown, list, owed, known, stream>>

\* The server answers with an event stream, or cannot be reached (502).
Answer(c) ==
    /\ call[c].stage = "sending"
    /\ \E s \in {"streaming", "over"} : call' = [call EXCEPT ![c].stage = s]
    /\ UNCHANGED <<client, probed, registry, tokens, queue, turn, shown, list, owed, known, stream>>

\* Progress whose token no call has is not shown, and none that would make
\* the queue too long.  (from and turn record what the event is about.)
Publish(h, t, c) ==
    LET seen == SelectSeq(tokens[h], LAMBDA e : e.token = t)
    IN  IF seen = <<>> \/ Len(queue[h]) = QueueSize THEN queue
        ELSE [queue EXCEPT ![h] = Append(@, [tool |-> seen[1].tool, from |-> c, turn |-> turn.no])]

\* A chunk ends inside a progress event: the tail is kept.  The next one
\* completes the event, which is published once.
Scan(c) ==
    /\ call[c].stage = "streaming"
    /\ call' = [call EXCEPT ![c].half = ~@]
    /\ queue' = IF call[c].half THEN Publish(call[c].of, call[c].token, c) ELSE queue
    /\ UNCHANGED <<client, probed, registry, tokens, turn, shown, list, owed, known, stream>>

\* The stream of a call ends: with its result, or because its CLI is gone.
EndCall(c) ==
    /\ call[c].stage = "streaming"
    /\ call' = [call EXCEPT ![c].stage = "over"]
    /\ UNCHANGED <<client, probed, registry, tokens, queue, turn, shown, list, owed, known, stream>>

-----------------------------------------------------------------------------
\* Mutant: what the turn before left stays in the queue.
DrainNothing(h) == queue

\* A turn starts with an empty queue.
Drain(h) == IF h \in registry THEN [queue EXCEPT ![h] = <<>>] ELSE queue

BeginTurn ==
    /\ client > 0 /\ ~turn.reads /\ turn.no < MaxTurn
    /\ turn' = [no |-> turn.no + 1, reads |-> TRUE, of |-> IF client \in registry THEN client ELSE 0]
    /\ queue' = Drain(client) /\ shown' = <<>>
    /\ UNCHANGED <<client, probed, registry, tokens, call, list, owed, known, stream>>

ReadProgress ==
    /\ turn.reads /\ turn.of # 0 /\ queue[turn.of] # <<>>
    /\ shown' = <<Head(queue[turn.of])>>
    /\ queue' = [queue EXCEPT ![turn.of] = Tail(@)]
    /\ UNCHANGED <<client, probed, registry, tokens, call, turn, list, owed, known, stream>>

\* The loop ends; the pending read of the queue is cancelled with it.
EndTurn ==
    /\ turn.reads
    /\ turn' = [turn EXCEPT !.reads = FALSE] /\ shown' = <<>>
    /\ UNCHANGED <<client, probed, registry, tokens, queue, call, list, owed, known, stream>>

-----------------------------------------------------------------------------
\* More replies than the bound: some are forgotten, and come without a hint.
RememberPending(h, i) ==
    {o \in SUBSET (owed[h] \cup {i}) : Cardinality(o) = Min({MaxPending, Cardinality(owed[h] \cup {i})})}

\* A tools/list: the reply is read whole and hinted, or the server closes the
\* stream first and owes it.
PostList(i) ==
    /\ list[i] = "new" /\ client \in registry
    /\ \/ list' = [list EXCEPT ![i] = "over"] /\ UNCHANGED <<owed, known, stream>>
       \/ /\ list' = [list EXCEPT ![i] = "owed"]
          /\ \E o \in RememberPending(client, i) :
                /\ owed' = [owed EXCEPT ![client] = o]
                /\ stream' = [stream EXCEPT !.due = @ \ (owed[client] \ o)]
          /\ known' = known \cup {client}
    /\ UNCHANGED <<client, probed, registry, tokens, queue, call, turn, shown>>

\* A GET: what is owed is looked up once; the set it finds is the live one.
OpenStream ==
    /\ stream.of = 0 /\ stream.seen < MaxStream /\ client \in registry
    /\ stream' = [Closed EXCEPT !.of = client, !.seen = stream.seen + 1,
                                !.tracks = client \in known, !.due = owed[client]]
    /\ UNCHANGED <<client, probed, registry, tokens, queue, call, turn, shown, list, owed, known>>

Half(e, last) == [ev |-> e, last |-> last, hint |-> FALSE]
Inside == stream.in # <<>> /\ ~Last(stream.in).last
\* What may come next: the rest of the event begun, and some of the event e.
Chunks(e) ==
    LET rest == IF Inside THEN <<Half(Last(stream.in).ev, TRUE)>> ELSE <<>>
    IN  {rest, Append(rest, Half(e, FALSE)), rest \o <<Half(e, FALSE), Half(e, TRUE)>>} \ {<<>>}

\* _complete_events: up to the last end of an event.
CompleteTo(buf) == Max({0} \cup {k \in DOMAIN buf : buf[k].last})
Whole(buf, k) == ~buf[k].last \/ (k > 1 /\ ~buf[k - 1].last)
RewriteOwed(buf, n, o) ==
    [k \in 1..n |-> [buf[k] EXCEPT !.hint = Whole(buf, k) /\ buf[k].ev \in o]]

\* While a reply is owed, complete events are passed on, the reply with its
\* hint; otherwise the chunk goes on as it came, after what was held back.
Pass(ps) ==
    LET o == IF stream.tracks THEN owed[stream.of] ELSE {}
        buf == stream.held \o ps
        n == IF o = {} THEN Len(buf) ELSE CompleteTo(buf)
        out == RewriteOwed(buf, n, o)
    IN  /\ stream' = [stream EXCEPT !.in = @ \o ps, !.out = @ \o out, !.held = SubSeq(buf, n + 1, Len(buf))]
        /\ owed' = [owed EXCEPT ![stream.of] = @ \ {out[k].ev : k \in {j \in 1..n : out[j].hint}}]

\* The reply to a tools/list is sent once.
Chunk(e) ==
    /\ stream.of # 0 /\ Len(stream.in) < MaxPart
    /\ e \in Lists => list[e] = "owed" /\ \A k \in DOMAIN stream.in : stream.in[k].ev # e
    /\ \E ps \in Chunks(e) :
          /\ Pass(ps)
          /\ list' = [i \in Lists |-> IF Half(i, TRUE) \in Range(ps) THEN "over" ELSE list[i]]
    /\ UNCHANGED <<client, probed, registry, tokens, queue, call, turn, shown, known>>

\* Mutant: what is held back is dropped.
FlushOut == stream.out

\* The upstream ends: what is held back still goes out.
Flush == stream.out \o stream.held

EndStream ==
    /\ stream.of # 0
    /\ stream' = [stream EXCEPT !.of = 0, !.out = Flush, !.held = <<>>]
    /\ UNCHANGED <<client, probed, registry, tokens, queue, call, turn, shown, list, owed, known>>

\* The two uses of a handle have no state in common but the handle itself.
ProgressStep ==
    \/ CreateClient \/ BeginTurn \/ ReadProgress \/ EndTurn
    \/ \E c \in Calls : (\E t \in Tokens : Post(c, t)) \/ Answer(c) \/ Scan(c) \/ EndCall(c)

ListStep ==
    \/ CreateClient \/ OpenStream \/ EndStream
    \/ \E i \in Lists : PostList(i)
    \/ \E e \in Lists \cup {Other} : Chunk(e)

Next == ProgressStep \/ ListStep

Spec == Init /\ [][Next]_vars

-----------------------------------------------------------------------------
Bytes(s) == [k \in DOMAIN s |-> [s[k] EXCEPT !.hint = FALSE]]

\* What a turn shows as progress was reported while it ran, of the call the
\* event names: nothing left over from the turn or the client before, nothing
\* of another call whose token was used again.  The bytes of a stream reach
\* the CLI in order and none is lost, though replies become owed and are
\* settled in the middle of an event; and a reply that was owed when the
\* stream was opened has its hint (RelayHandle, relay).
RelayIsFaithful ==
    /\ \A k \in DOMAIN shown : shown[k].tool = shown[k].from /\ shown[k].turn = turn.no
    /\ Bytes(stream.out \o stream.held) = stream.in
    /\ stream.of = 0 => stream.held = <<>>
    /\ \A k \in DOMAIN stream.out : stream.out[k].last /\ stream.out[k].ev \in stream.due => stream.out[k].hint
=============================================================================

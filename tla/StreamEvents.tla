----------------------------- MODULE StreamEvents -----------------------------
(***************************************************************************)
(* stream_response_chunks (streaming_utils.py): the SDK's chunks of one    *)
(* turn become the events of one Responses stream.  The leader and a       *)
(* subagent send their blocks interleaved; text is a count of fragments.   *)
(*                                                                         *)
(* Wire events are [e, oi, kind, n]: an item is added at an index, gets    *)
(* deltas and is done with all its text; the turn ends with one terminal   *)
(* event.  The reader `wire' is a client that keeps what it was told.      *)
(***************************************************************************)
EXTENDS Integers, Sequences, FiniteSets, SequencesExt

CONSTANTS
    MaxChunk,
    SubagentText    \* SUBAGENT_STREAM_TEXT

VARIABLES
    conf,       \* filter: the collab filter is on; text, tools: of subagents
    st,         \* the generator's locals
    comp,       \* CompactionTracker, by stream
    flight,     \* ToolStatsCollector._starts
    wire,       \* what the client has
    sdk,        \* the source: the open block, call and compaction, by stream
    count,      \* chunks so far
    silent      \* keepalive ticks since the last of them

vars == <<conf, st, comp, flight, wire, sdk, count, silent>>

Streams == {"lead", "sub"}
Idle    == [open |-> FALSE, held |-> FALSE]
Short   == 1        \* STREAM_STALL_TIMEOUT_SECONDS, in ticks
Long    == 2        \* TOOL_STALL_TIMEOUT_SECONDS

Init ==
    /\ conf \in [filter : BOOLEAN, text : {SubagentText}, tools : BOOLEAN]
    /\ st = [msg |-> FALSE, any |-> FALSE, reason |-> FALSE, pending |-> FALSE, hold |-> 0,
             rbuf |-> 0, mbuf |-> 0, filt |-> 0, think |-> FALSE, vis |-> 0, sent |-> FALSE,
             tok |-> FALSE, remitted |-> FALSE, oi |-> 0, acc |-> {}, items |-> <<>>,
             events |-> <<>>, result |-> "running"]
    /\ comp = [s \in Streams |-> Idle]
    /\ flight = {}
    /\ wire = [items |-> <<>>, calls |-> [s \in Streams |-> "none"], shrinking |-> {},
               output |-> <<>>, terminal |-> "", bad |-> FALSE]
    /\ sdk = [block |-> [s \in Streams |-> "none"], call |-> [s \in Streams |-> "none"],
              comp |-> [s \in Streams |-> "none"], due |-> 0]
    /\ count = 0 /\ silent = 0

-----------------------------------------------------------------------------
(* Items.                                                                  *)

Ev(e, oi, kind, n) == [e |-> e, oi |-> oi, kind |-> kind, n |-> n]
Emit(s, ev) == [s EXCEPT !.events = Append(@, ev)]

OpenMessage(s) == IF s.msg THEN s
                  ELSE [Emit(s, Ev("added", s.oi, "message", 0)) EXCEPT !.msg = TRUE, !.any = TRUE]

EmitDelta(s, n) == [Emit(s, Ev("delta", s.oi, "message", n))
                        EXCEPT !.mbuf = @ + n, !.vis = @ + n, !.sent = TRUE]

CloseReasoning(s) ==
    IF ~s.reason THEN s
    ELSE [Emit(s, Ev("done", s.oi, "reasoning", s.rbuf))
              EXCEPT !.reason = FALSE, !.rbuf = 0, !.oi = @ + 1,
                     !.items = Append(@, [kind |-> "reasoning", n |-> s.rbuf])]

CloseMessage(s) ==
    LET f == IF s.filt = 0 THEN s ELSE [EmitDelta(s, s.filt) EXCEPT !.filt = 0]
    IN  IF ~s.msg THEN s
        ELSE [Emit(f, Ev("done", f.oi, "message", f.mbuf))
                  EXCEPT !.msg = FALSE, !.mbuf = 0, !.oi = @ + 1,
                         !.items = Append(@, [kind |-> "message", n |-> f.mbuf])]

\* Mutant: thinking after text opens its item inside the message.
OpenReasoningOver(s) ==
    [Emit(s, Ev("added", s.oi, "reasoning", 0)) EXCEPT !.reason = TRUE, !.remitted = TRUE,
                                                        !.pending = FALSE, !.hold = 0]

OpenReasoning(s) ==
    LET c == CloseMessage(s)
    IN  [Emit(c, Ev("added", c.oi, "reasoning", 0)) EXCEPT !.reason = TRUE, !.remitted = TRUE,
                                                            !.pending = FALSE, !.hold = 0]

-----------------------------------------------------------------------------
(* Token-level chunks.                                                     *)

\* CollabJsonStreamFilter.feed: <<what comes out, what is held>>.  A brace
\* opens a block that is held until it ends; a collab block is then dropped.
Feed(s, kind) ==
    CASE ~conf.filter -> <<1, 0>>
      [] kind = "brace" -> <<0, s.filt + 1>>
      [] kind = "end" -> <<s.filt + 1, 0>>
      [] kind = "collab" -> <<IF s.filt > 0 THEN 0 ELSE 1, 0>>
      [] OTHER -> IF s.filt > 0 THEN <<0, s.filt + 1>> ELSE <<1, 0>>

\* Thinking text: the item is opened by the first that is not blank.
Think(s, blank) ==
    IF s.pending /\ ~s.reason
    THEN LET h == [s EXCEPT !.hold = @ + 1] IN
         IF blank THEN h
         ELSE LET o == OpenReasoning(h)
              IN  [Emit(o, Ev("delta", o.oi, "reasoning", h.hold)) EXCEPT !.rbuf = h.hold]
    ELSE IF s.reason THEN [Emit(s, Ev("delta", s.oi, "reasoning", 1)) EXCEPT !.rbuf = @ + 1]
    ELSE s

\* Visible text.
Say(s, kind) ==
    LET c == CloseReasoning([s EXCEPT !.pending = FALSE, !.hold = 0])
        f == Feed(c, kind)
        held == [c EXCEPT !.filt = f[2]]
    IN  IF f[1] = 0 THEN held ELSE EmitDelta(OpenMessage(held), f[1])

TextDelta(s, kind) ==
    LET t == [s EXCEPT !.tok = TRUE]
    IN  IF s.think THEN Think(t, kind = "blank") ELSE Say(t, kind)

\* The markers of a thinking block.
ThinkStarts(s) == [s EXCEPT !.tok = TRUE, !.pending = @ \/ ~s.think, !.think = TRUE,
                            !.hold = IF s.think THEN @ ELSE 0]
ThinkStops(s) == CloseReasoning([s EXCEPT !.tok = TRUE, !.think = FALSE, !.pending = FALSE, !.hold = 0])

\* extract_stream_event_delta, and citations, which carry no text.
Token(s, stream, ev, kind) ==
    CASE stream = "sub" /\ ~conf.text -> s
      [] ev = "delta" /\ kind = "cite" -> Emit(OpenMessage(s), Ev("note", s.oi, "message", 0))
      [] ev = "delta" -> TextDelta(s, kind)
      [] ev = "start" /\ kind = "thinking" -> ThinkStarts(s)
      [] ev = "stop" /\ s.think -> ThinkStops(s)
      [] OTHER -> s

-----------------------------------------------------------------------------
(* Endings.                                                                *)

CloseItems(s) == CloseMessage(CloseReasoning(s))
Incomplete(s) == [Emit(CloseItems(s), Ev("incomplete", 0, "", 0)) EXCEPT !.result = "incomplete"]
Failed(s)     == [Emit(s, Ev("failed", 0, "", 0)) EXCEPT !.result = "failed"]

\* The source ended: paused on a question, empty, or complete.
Finalize(s, paused) ==
    LET f == IF s.filt = 0 THEN s ELSE [EmitDelta(OpenMessage(s), s.filt) EXCEPT !.filt = 0]
        c == CloseItems(f)
        full == IF c.any THEN c ELSE CloseMessage(OpenMessage(c))
    IN  CASE paused -> [c EXCEPT !.result = "paused"]
          [] ~f.sent /\ ~f.remitted -> [f EXCEPT !.result = "empty"]
          [] OTHER -> [Emit(full, Ev("completed", 0, "", 0)) EXCEPT !.result = "completed"]

-----------------------------------------------------------------------------
(* The client.                                                             *)

ReadItem(w, ev) ==
    LET i == ev.oi + 1
        known == i <= Len(w.items) /\ w.items[i].open /\ w.items[i].kind = ev.kind
    IN  CASE ev.e = "added" ->
                [w EXCEPT !.items = Append(@, [kind |-> ev.kind, n |-> 0, open |-> TRUE]),
                          !.bad = @ \/ ev.oi # Len(w.items) \/ \E j \in DOMAIN w.items : w.items[j].open]
          [] ~known -> [w EXCEPT !.bad = TRUE]
          [] ev.e = "delta" -> [w EXCEPT !.items[i].n = @ + ev.n]
          [] ev.e = "done" -> [w EXCEPT !.items[i].open = FALSE, !.bad = @ \/ w.items[i].n # ev.n]
          [] OTHER -> w

Read(w, ev) ==
    CASE ev.e \in {"completed", "incomplete", "failed"} ->
            [w EXCEPT !.terminal = ev.e, !.bad = @ \/ w.terminal # "",
                      !.output = IF ev.e = "failed" THEN @ ELSE st'.items]
      [] ev.e = "use" -> [w EXCEPT !.calls[ev.kind] = "used", !.bad = @ \/ w.calls[ev.kind] = "answered"]
      [] ev.e = "answer" -> [w EXCEPT !.calls[ev.kind] = "answered", !.bad = @ \/ w.calls[ev.kind] # "used"]
      [] ev.e = "beat" -> [w EXCEPT !.bad = @ \/ w.calls[ev.kind] # "used"]
      [] ev.e = "shrinks" -> [w EXCEPT !.shrinking = @ \cup {ev.kind}, !.bad = @ \/ ev.kind \in w.shrinking]
      [] ev.e = "shrunk" -> [w EXCEPT !.shrinking = @ \ {ev.kind}, !.bad = @ \/ ev.kind \notin w.shrinking]
      [] OTHER -> ReadItem(w, ev)

-----------------------------------------------------------------------------
Sends(s, events) == /\ st' = [s EXCEPT !.events = <<>>]
                    /\ wire' = FoldLeft(Read, wire, events \o s.events)

Live(s) == st.result = "running" /\ count < MaxChunk /\ sdk.comp[s] # "closed"
Chunk == count' = count + 1 /\ silent' = 0 /\ UNCHANGED conf

\* compaction.flush: a chunk of a stream closes what that stream holds.
Flush(ss) == SetToSeq({Ev("shrunk", 0, s, 0) : s \in {s \in ss : comp[s].held}})
Flushed(ss) == [s \in Streams |-> IF s \in ss /\ comp[s].held THEN Idle ELSE comp[s]]

\* What the client is owed: all text but a collab block.
Due(ev, kind) ==
    CASE ev # "delta" \/ kind \in {"cite", "blank", "thought"} -> 0
      [] kind = "collab" /\ conf.filter /\ st.filt > 0 -> -st.filt
      [] OTHER -> 1

\* A block of text or thinking.
Block(s, ev, kind) ==
    /\ Live(s)
    /\ CASE ev = "start" -> sdk.block[s] = "none" /\ kind \in {"text", "thinking"}
         [] ev = "stop"  -> sdk.block[s] \in {"text", "thinking"} /\ kind = sdk.block[s]
         [] OTHER -> \/ sdk.block[s] = "text" /\ kind \in {"plain", "brace", "end", "collab", "cite"}
                     \/ sdk.block[s] = "thinking" /\ kind \in {"blank", "thought"}
    /\ Chunk
    /\ comp' = Flushed({s})
    /\ sdk' = [sdk EXCEPT !.block[s] = CASE ev = "start" -> kind [] ev = "stop" -> "none" [] OTHER -> @,
                          !.comp[s] = IF @ = "failed" THEN "none" ELSE @,
                          !.due = IF s = "lead" THEN @ + Due(ev, kind) ELSE @]
    /\ Sends(Token(st, s, ev, kind), Flush({s}))
    /\ UNCHANGED flight

Shown(s) == s = "lead" \/ conf.tools

\* A call: its block starts, its arguments are complete (ToolUseAccumulator).
CallStarts(s) ==
    /\ Live(s) /\ sdk.block[s] = "none" /\ sdk.call[s] = "none" /\ Chunk
    /\ comp' = Flushed({s})
    /\ sdk' = [sdk EXCEPT !.block[s] = "tool", !.comp[s] = IF @ = "failed" THEN "none" ELSE @]
    /\ Sends([st EXCEPT !.acc = @ \cup {s}], Flush({s}))
    /\ UNCHANGED flight

CallIsWhole(s) ==
    /\ Live(s) /\ sdk.block[s] = "tool" /\ Chunk
    /\ comp' = Flushed({s})
    /\ sdk' = [sdk EXCEPT !.block[s] = "none", !.call[s] = "made", !.comp[s] = IF @ = "failed" THEN "none" ELSE @]
    /\ flight' = flight \cup {s}
    /\ Sends([st EXCEPT !.acc = @ \ {s}],
             Flush({s}) \o IF Shown(s) THEN <<Ev("use", 0, s, 0)>> ELSE <<>>)

\* An assembled message: its call, and its text unless tokens were streamed.
Assistant(s, text, call) ==
    /\ Live(s) /\ sdk.block[s] = "none" /\ (call => sdk.call[s] \in {"none", "made"}) /\ Chunk
    /\ comp' = Flushed({s})
    /\ sdk' = [sdk EXCEPT !.call[s] = IF call THEN "made" ELSE @, !.comp[s] = IF @ = "failed" THEN "none" ELSE @,
                          !.due = IF text /\ ~st.tok /\ s = "lead" THEN @ + 1 ELSE @]
    /\ flight' = IF call THEN flight \cup {s} ELSE flight
    /\ LET said == IF text /\ ~st.tok /\ (s = "sub" => conf.text) THEN EmitDelta(OpenMessage(st), 1) ELSE st
       IN  Sends(said, Flush({s}) \o IF call /\ Shown(s) THEN <<Ev("use", 0, s, 0)>> ELSE <<>>)

\* Mutant: the answer to AskUserQuestion, which is not shown, is not recorded.
RecordAsked(s, asked) == IF asked THEN flight ELSE flight \ {s}

Record(s, asked) == flight \ {s}

Result(s, asked) ==
    /\ Live(s) /\ sdk.call[s] = "made" /\ sdk.block[s] = "none" /\ Chunk
    /\ comp' = Flushed({s})
    /\ sdk' = [sdk EXCEPT !.call[s] = "answered", !.comp[s] = IF @ = "failed" THEN "none" ELSE @]
    /\ flight' = Record(s, asked)
    /\ Sends(st, Flush({s}) \o IF Shown(s) /\ ~asked THEN <<Ev("answer", 0, s, 0)>> ELSE <<>>)

\* CompactionTracker.feed: the status opens, another holds the end, the
\* boundary gives it.
Compaction(s, marker) ==
    /\ st.result = "running" /\ count < MaxChunk /\ Chunk
    /\ CASE marker = "compacting" -> sdk.comp[s] \in {"none", "busy"}
         [] marker \in {"success", "failure"} -> sdk.comp[s] = "busy"
         [] OTHER -> sdk.comp[s] = "closed"
    /\ sdk' = [sdk EXCEPT !.comp[s] = CASE marker = "compacting" -> "busy" [] marker = "success" -> "closed"
                                        [] marker = "failure" -> "failed" [] OTHER -> "none"]
    /\ comp' = [comp EXCEPT ![s] = CASE marker = "compacting" -> [@ EXCEPT !.open = TRUE]
                                     [] marker = "boundary" -> Idle
                                     [] OTHER -> [@ EXCEPT !.held = TRUE]]
    /\ Sends(st, CASE marker = "compacting" /\ ~comp[s].open -> <<Ev("shrinks", 0, s, 0)>>
                   [] marker = "boundary" -> <<Ev("shrunk", 0, s, 0)>>
                   [] OTHER -> <<>>)
    /\ UNCHANGED flight

\* The keepalive's tick: a beat for every call in flight, or the stall.
Budget == IF flight # {} THEN Long ELSE Short
Tick ==
    /\ st.result = "running" /\ silent < Budget
    /\ silent' = silent + 1
    /\ Sends(st, SetToSeq({Ev("beat", 0, s, 0) : s \in {s \in flight : Shown(s)}}))
    /\ UNCHANGED <<conf, comp, flight, sdk, count>>

Stall == /\ st.result = "running" /\ silent >= Budget
         /\ Sends(Failed(st), <<>>)
         /\ UNCHANGED <<conf, comp, flight, sdk, count, silent>>

\* An error chunk or exception; an interrupt or the turn limit; the end.
Ends(how) ==
    /\ st.result = "running"
    /\ how \in {"done", "asked"} => \A s \in Streams : sdk.block[s] = "none"
    /\ Sends(CASE how = "error" -> Failed(st) [] how = "cut" -> Incomplete(st)
               [] OTHER -> Finalize(st, how = "asked"),
             IF how \in {"done", "asked"} THEN Flush(Streams) ELSE <<>>)
    /\ comp' = IF how \in {"done", "asked"} THEN Flushed(Streams) ELSE comp
    /\ UNCHANGED <<conf, flight, sdk, count, silent>>

Next ==
    \/ \E s \in Streams, ev \in {"start", "delta", "stop"},
          kind \in {"text", "thinking", "plain", "brace", "end", "collab", "cite", "blank", "thought"} :
           Block(s, ev, kind)
    \/ \E s \in Streams : CallStarts(s) \/ CallIsWhole(s)
    \/ \E s \in Streams, text, b \in BOOLEAN : Assistant(s, text, b) \/ Result(s, b)
    \/ \E s \in Streams, marker \in {"compacting", "success", "failure", "boundary"} : Compaction(s, marker)
    \/ Tick \/ Stall
    \/ \E how \in {"done", "asked", "cut", "error"} : Ends(how)

Spec == Init /\ [][Next]_vars

-----------------------------------------------------------------------------
\* The client can follow the stream: items one at a time and numbered without
\* a gap, every delta in the item that is open, the text of an item the sum of
\* its deltas, a beat only for a call that has no answer, compactions opened
\* and closed in turn; what a terminal event lists is what was sent; and a
\* completed turn has given the client all the text there was.
WireIsSound ==
    /\ ~wire.bad
    /\ wire.terminal = "completed" =>
           sdk.due = FoldLeft(LAMBDA n, i : IF i.kind = "message" THEN n + i.n ELSE n, 0, wire.items)
    /\ wire.terminal \in {"completed", "incomplete"} =>
           /\ wire.output = [i \in DOMAIN wire.items |-> [kind |-> wire.items[i].kind, n |-> wire.items[i].n]]
           /\ \A i \in DOMAIN wire.items : ~wire.items[i].open

\* A call in flight is one that was made and has no answer, so the longer
\* silence is allowed exactly while a tool runs.
FlightIsReal == \A s \in flight : sdk.call[s] = "made"

=============================================================================

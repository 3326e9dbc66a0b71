-------------------------------- MODULE Outbox --------------------------------
(***************************************************************************)
(* The message stream of one session's Claude CLI and its two readers: the *)
(* turns, and the idle reader that collects what comes between turns into  *)
(* the outbox (session_outbox.py, with the turn loop of                    *)
(* backends/claude/client.py and the routes of routes/sessions.py).        *)
(*                                                                         *)
(* A message carries the turn it answers, 0 for the output of a background *)
(* task.  Turns hold session.lock from StartTurn to their end; a streamed  *)
(* one also publishes active_response_id.  One background task stands for  *)
(* all of them.                                                            *)
(***************************************************************************)
EXTENDS Naturals, Sequences

CONSTANTS
    MaxMsg,         \* messages the CLI writes
    MaxTurn,        \* turns
    MaxBuf,         \* max_buffer_size of the SDK's stream
    Keep            \* OUTBOX_MAX_EVENTS

VARIABLES
    client,     \* session.client: none, up, ended
    stream,     \* messages the SDK holds unread
    count,      \* messages written so far
    task,       \* the CLI runs the background task
    turn,       \* number of the current or last turn
    phase,      \* what it does; idle between turns, asked while a question is open
    shown,      \* active_response_id is set
    reader,     \* the idle reader: off, on, stopping
    box,        \* [events, next_seq] of the outbox
    active,     \* the task is in active_tasks
    log,        \* what was read so far, and by whom
    cursor      \* the poller's cursor

cli  == <<client, count, task>>
vars == <<cli, stream, turn, phase, shown, reader, box, active, log, cursor>>

Init ==
    /\ client = "none" /\ stream = <<>> /\ count = 0 /\ task = FALSE
    /\ turn = 0 /\ phase = "idle" /\ shown = FALSE /\ reader = "off"
    /\ box = [events |-> <<>>, next |-> 1] /\ active = FALSE
    /\ log = <<>> /\ cursor = 0

\* session.lock is held
Locked == phase \notin {"idle", "asked"}

\* SessionOutbox.append: the oldest event goes when the buffer is full.
Put(b, m) ==
    [events |-> LET all == Append(b.events, [seq |-> b.next, msg |-> m])
                IN  IF Len(all) > Keep THEN Tail(all) ELSE all,
     next |-> b.next + 1]

\* apply_task_event: a terminal status drops the task, any other adds it.
Tasks(m) == CASE m.kind = "start" -> TRUE [] m.kind = "end" -> FALSE [] OTHER -> active

Take(who) ==
    /\ stream' = Tail(stream)
    /\ log' = Append(log, [msg |-> Head(stream), by |-> who])
    /\ active' = Tasks(Head(stream))

\* _handle_idle_message
ToOutbox == Take(0) /\ box' = Put(box, Head(stream))

-----------------------------------------------------------------------------
(* The idle reader.                                                        *)

\* resume_idle_reader: a client, no published response, no open question.
Resume(c, r, s, p) == IF c # "none" /\ ~s /\ p # "asked" /\ r = "off" THEN "on" ELSE r

\* One message; a reader that was asked to stop returns after it.
PumpReads ==
    /\ reader # "off" /\ stream # <<>>
    /\ ToOutbox
    /\ reader' = IF reader = "stopping" THEN "off" ELSE reader
    /\ UNCHANGED <<cli, turn, phase, shown, cursor>>

\* Asked to stop with nothing there: the grace passes, the read is cancelled.
PumpStops ==
    /\ reader = "stopping" /\ stream = <<>>
    /\ reader' = "off"
    /\ UNCHANGED <<cli, stream, turn, phase, shown, box, active, log, cursor>>

\* Mutant: the end of the stream leaves the registry as it is.
PumpEndsQuietly ==
    /\ reader = "on" /\ stream = <<>> /\ client = "ended"
    /\ reader' = "off"
    /\ UNCHANGED <<cli, stream, turn, phase, shown, box, active, log, cursor>>

\* The stream is over: no task can report its end any more.
PumpEnds ==
    /\ reader = "on" /\ stream = <<>> /\ client = "ended"
    /\ reader' = "off" /\ active' = FALSE
    /\ UNCHANGED <<cli, stream, turn, phase, shown, box, log, cursor>>

\* A message that cannot be parsed ends the reader and is reported.
PumpFails ==
    /\ reader # "off" /\ client = "up" /\ count < MaxMsg /\ stream = <<>>
    /\ count' = count + 1
    /\ reader' = "off" /\ box' = Put(box, [id |-> 0, kind |-> "error", turn |-> 0])
    /\ UNCHANGED <<client, task, stream, turn, phase, shown, active, log, cursor>>

-----------------------------------------------------------------------------
(* The turns.                                                              *)

\* The lock is taken; a missing client is created and the registry reset.
\* The running reader is told to stop; without one the backlog is swept.
StartTurn(streamed) ==
    /\ phase = "idle" /\ turn < MaxTurn
    /\ turn' = turn + 1 /\ shown' = streamed
    /\ phase' = IF reader = "off" THEN "sweep" ELSE "pause"
    /\ reader' = IF reader = "off" THEN "off" ELSE "stopping"
    /\ IF client = "none"
       THEN client' = "up" /\ task' = FALSE /\ active' = FALSE /\ stream' = <<>>
       ELSE UNCHANGED <<client, task, active, stream>>
    /\ UNCHANGED <<count, box, log, cursor>>

\* drain_backlog_to_outbox, before the query or before the answer's wake-up.
Sweep ==
    /\ phase \in {"sweep", "resweep"} /\ stream # <<>>
    /\ ToOutbox
    /\ UNCHANGED <<cli, turn, phase, shown, reader, cursor>>

\* The stream is quiet, or pause_idle_reader has seen the reader off.
Query ==
    /\ \/ phase \in {"sweep", "resweep"} /\ stream = <<>>
       \/ phase = "pause" /\ reader = "off"
    /\ phase' = "reading"
    /\ UNCHANGED <<cli, stream, turn, shown, reader, box, active, log, cursor>>

End(p, c) ==
    /\ phase' = p /\ shown' = FALSE
    /\ reader' = Resume(c, reader, FALSE, p)

\* A message of the turn; the first result ends it.
TurnReads ==
    /\ phase = "reading" /\ stream # <<>>
    /\ Take(turn)
    /\ IF Head(stream).kind = "result" THEN End("idle", client) ELSE UNCHANGED <<phase, shown, reader>>
    /\ UNCHANGED <<cli, turn, box, cursor>>

\* The question hook, in which the CLI waits, breaks the turn: the reader
\* stays off.
TurnAsks ==
    /\ phase = "reading" /\ client = "up"
    /\ \A i \in DOMAIN stream : stream[i] # [stream[i] EXCEPT !.kind = "result", !.turn = turn]
    /\ End("asked", client)
    /\ UNCHANGED <<cli, stream, turn, box, active, log, cursor>>

\* The answer: what piled up meanwhile is swept first.
TurnAnswered(streamed) ==
    /\ phase = "asked"
    /\ phase' = "resweep" /\ shown' = streamed
    /\ UNCHANGED <<cli, stream, turn, reader, box, active, log, cursor>>

\* Mutant: the registry outlives the client.
TurnFailsKeepsRows ==
    /\ phase = "reading"
    /\ client' = "none" /\ task' = FALSE /\ stream' = <<>>
    /\ End("idle", "none")
    /\ UNCHANGED <<count, turn, box, active, log, cursor>>

\* An SDK error, or _disconnect_session_client after a failure or a consumer
\* that left: the client is dropped with its tasks.
TurnFails ==
    /\ phase = "reading"
    /\ client' = "none" /\ task' = FALSE /\ active' = FALSE /\ stream' = <<>>
    /\ End("idle", "none")
    /\ UNCHANGED <<count, turn, box, log, cursor>>

\* The stream ends under the turn.
TurnStreamEnds ==
    /\ phase = "reading" /\ stream = <<>> /\ client = "ended"
    /\ End("idle", client)
    /\ UNCHANGED <<cli, stream, turn, box, active, log, cursor>>

\* A consumer that left, whose teardown was itself cancelled: only the lock
\* is released.
TurnAbandoned ==
    /\ phase = "reading"
    /\ phase' = "idle" /\ shown' = FALSE
    /\ UNCHANGED <<cli, stream, turn, reader, box, active, log, cursor>>

-----------------------------------------------------------------------------
(* The routes.                                                             *)

\* Mutant: the lock of a turn that is not published is not looked at.
PollGate == TRUE

\* resume_idle_reader_between_turns
Gate == ~Locked

\* GET pending-events: the reader is started, the cursor moves to what is
\* served, or back to what exists.
Poll ==
    /\ reader' = IF Gate THEN Resume(client, reader, shown, phase) ELSE reader
    /\ LET fresh == SelectSeq(box.events, LAMBDA e : e.seq > cursor)
       IN  cursor' = IF fresh # <<>> THEN fresh[Len(fresh)].seq
                     ELSE IF cursor < box.next THEN cursor ELSE box.next - 1
    /\ UNCHANGED <<cli, stream, turn, phase, shown, box, active, log>>

\* POST tasks/stop: for a task of the registry and a live client only.
StopTask ==
    /\ active /\ client = "up" /\ task
    /\ reader' = IF Gate THEN Resume(client, reader, shown, phase) ELSE reader
    /\ Len(stream) < MaxBuf /\ count < MaxMsg
    /\ task' = FALSE /\ count' = count + 1
    /\ stream' = Append(stream, [id |-> count + 1, kind |-> "end", turn |-> 0])
    /\ UNCHANGED <<client, turn, phase, shown, box, active, log, cursor>>

\* DELETE, eviction: stop_idle_reader_nowait and the client is disconnected.
Delete ==
    /\ phase \in {"idle", "asked"} /\ client # "none"
    /\ client' = "none" /\ task' = FALSE /\ active' = FALSE /\ stream' = <<>>
    /\ reader' = "off" /\ phase' = "idle"
    /\ UNCHANGED <<count, turn, shown, box, log, cursor>>

-----------------------------------------------------------------------------
(* The CLI: external.                                                      *)

Writes(kind, t) ==
    /\ client = "up" /\ count < MaxMsg /\ Len(stream) < MaxBuf
    /\ count' = count + 1
    /\ stream' = Append(stream, [id |-> count + 1, kind |-> kind, turn |-> t])
    /\ task' = CASE kind = "start" -> TRUE [] kind = "end" -> FALSE [] OTHER -> task
    /\ UNCHANGED <<client, turn, phase, shown, reader, box, active, log, cursor>>

\* A turn is answered by texts and one result.
Unanswered == \A m \in {stream[i] : i \in DOMAIN stream} \cup {log[i].msg : i \in DOMAIN log} :
                  m.turn = turn => m.kind # "result"
Answers == phase = "reading" /\ Unanswered /\ \E k \in {"text", "result"} : Writes(k, turn)
Background == \/ phase = "reading" /\ ~task /\ Writes("start", 0)
              \/ task /\ Writes("end", 0)
              \/ Writes("text", 0)

Exits ==
    /\ client = "up" /\ client' = "ended" /\ task' = FALSE
    /\ UNCHANGED <<count, stream, turn, phase, shown, reader, box, active, log, cursor>>

Next ==
    \/ PumpReads \/ PumpStops \/ PumpEnds \/ PumpFails
    \/ \E streamed \in BOOLEAN : StartTurn(streamed) \/ TurnAnswered(streamed)
    \/ Sweep \/ Query \/ TurnReads \/ TurnAsks \/ TurnFails \/ TurnStreamEnds \/ TurnAbandoned
    \/ Poll \/ StopTask \/ Delete \/ Answers \/ Background \/ Exits

Spec == Init /\ [][Next]_vars

\* The event loop runs what is ready: the reader, and the steps of a turn
\* that have nothing to wait for.  A client that is watched is polled.
Ready == PumpReads \/ PumpStops \/ PumpEnds \/ Sweep \/ Query \/ TurnReads \/ TurnStreamEnds
Watch == Poll /\ reader' # reader

-----------------------------------------------------------------------------
\* The stream is never split or shuffled: whoever reads, messages are read
\* once and in the order they were written, the idle reader is off while a
\* turn reads, and the result of a turn that still reads is not taken by
\* anybody else (pause_idle_reader, resume_idle_reader_between_turns).
StreamIsWhole ==
    /\ \A i, j \in DOMAIN log : i < j => log[i].msg.id < log[j].msg.id
    /\ phase = "reading" => reader = "off"
    /\ phase = "reading" => \A i \in DOMAIN log :
            log[i].msg.turn = turn /\ log[i].msg.kind = "result" => log[i].by = turn

\* A task listed as running runs, or the message of its end is still to be
\* read, or the stream that would bring it is over and nobody has read its end
\* yet (apply_task_event, reset_active_tasks).
TaskRowsAreTrue ==
    active => \/ task
              \/ \E i \in DOMAIN stream : stream[i].kind = "end"
              \/ client = "ended"

\* A row of a CLI that is gone does not read as running forever while the
\* session is polled; it waits with a question that is open
\* (resume_idle_reader_between_turns, _idle_pump).
RowsGoAway == active /\ client = "ended" ~> ~active \/ phase = "asked"

=============================================================================

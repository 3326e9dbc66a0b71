------------------------------ MODULE AppServer ------------------------------
(***************************************************************************)
(* The stdio transport to one generation of a Codex app-server process:    *)
(* AppServerTransport of backends/appserver/transport.py.                  *)
(*                                                                         *)
(* Callers send requests through one writer and wait for responses that    *)
(* one reader routes.  The server sends requests of its own (interactions: *)
(* approvals), which the owner answers through the same writer and which   *)
(* the server may withdraw.  The process may stop reading, stop writing,   *)
(* speak garbage or die; the owner may close.  Interactions all carry one  *)
(* JSON-RPC id, the worst case for an answer that arrives late; an         *)
(* occurrence stands for the token that tells them apart.                  *)
(***************************************************************************)
EXTENDS Naturals, Sequences, FiniteSets

CONSTANTS
    Requests,       \* calls of request()
    MaxAsk,         \* server requests the server may send
    MaxWire,        \* messages in the stdout pipe
    None

Occs == 1..MaxAsk
Jobs == Requests \cup Occs

VARIABLES
    term,       \* _terminal is set: None or its reason
    closing,    \* _closing
    report,     \* close() has its report
    proc,       \* "up", "mute" (stdout closed, still running), "gone"
    group,      \* a process of the group is still running
    reading,    \* the reader task runs
    writer,     \* the holder of _write_lock with its phase, or None
    pc,         \* where the caller or the commit task of a job is
    fut,        \* the waiter's future
    sent,       \* jobs whose bytes stdin accepted (committed, wire_committed)
    orphans,    \* _orphaned_requests
    tomb,       \* _orphan_delivered
    told,       \* what request() gave its caller
    fan,        \* OrphanedResponse / AmbiguousRequest fanned out per request
    wire,       \* stdout: what the server wrote and the reader has not read
    asked,      \* server requests sent so far
    replied,    \* requests the server has answered
    cur,        \* _interactions[id]: the current occurrence, 0 when none
    ist,        \* PendingInteraction.state
    withdrawn   \* occurrences the server withdrew, as read before an answer was sent

life  == <<term, closing, report, proc, group, reading>>
calls == <<fut, orphans, tomb, told, fan>>
serv  == <<wire, asked, replied>>
inter == <<cur, ist, withdrawn>>
vars  == <<life, writer, pc, sent, calls, serv, inter>>

Init ==
    /\ term = None /\ closing = FALSE /\ report = FALSE
    /\ proc = "up" /\ group = TRUE /\ reading = TRUE
    /\ writer = None
    /\ pc = [j \in Jobs |-> "idle"]
    /\ fut = [r \in Requests |-> "pending"]
    /\ sent = {} /\ orphans = {} /\ tomb = {}
    /\ told = [r \in Requests |-> None]
    /\ fan = [r \in Requests |-> <<>>]
    /\ wire = <<>> /\ asked = 0 /\ replied = {}
    /\ cur = 0
    /\ ist = [o \in Occs |-> "unread"]
    /\ withdrawn = {}

\* _raise_if_lost: from the first close() on nothing new is admitted.
Lost == term # None \/ closing

\* The request has an entry in _waiters.
Waiting(r) == pc[r] \in {"queued", "writing", "waiting", "leaving", "failed"}

Fan(r, kind) == fan' = [fan EXCEPT ![r] = Append(@, kind)]

Finish(r, outcome) ==
    /\ pc' = [pc EXCEPT ![r] = "done"]
    /\ told' = [told EXCEPT ![r] = outcome]

Unsent(i, s, why) == [o \in Occs |-> IF i[o] = "resolving" /\ o \notin s THEN why ELSE i[o]]

\* _terminalize: once.  Waiters fail, interactions and answers not yet on the
\* wire are invalidated, every orphan becomes ambiguous.
Terminalize(reason) ==
    IF term # None
    THEN UNCHANGED <<term, fut, ist, fan, orphans>>
    ELSE /\ term' = IF closing /\ reason = "exit" THEN "closed" ELSE reason
         /\ fut' = [r \in Requests |->
                        IF Waiting(r) /\ fut[r] = "pending" THEN "lost" ELSE fut[r]]
         /\ ist' = Unsent([o \in Occs |->
                        IF ist[o] = "pending" THEN "invalidated" ELSE ist[o]],
                        sent, "invalidated")
         /\ fan' = [r \in Requests |->
                        IF r \in orphans THEN Append(fan[r], "ambiguous") ELSE fan[r]]
         /\ orphans' = {}

-----------------------------------------------------------------------------
(* request() and the writer.                                               *)

Call(r) ==
    /\ pc[r] = "idle"
    /\ IF Lost
       THEN Finish(r, "lost")
       ELSE pc' = [pc EXCEPT ![r] = "queued"] /\ UNCHANGED told
    /\ UNCHANGED <<life, writer, sent, fut, orphans, tomb, fan, serv, inter>>

\* _write: the caller's deadline or cancellation while queued is local.
LeaveQueue(r) ==
    /\ pc[r] = "queued"
    /\ Finish(r, "notSent")
    /\ UNCHANGED <<life, writer, sent, fut, orphans, tomb, fan, serv, inter>>

\* _write: the wait for the lock ends as soon as the generation does.
QueuedLost(j) ==
    /\ pc[j] = "queued" /\ term # None
    /\ pc' = [pc EXCEPT ![j] = "failed"]
    /\ UNCHANGED <<life, writer, sent, calls, serv, inter>>

\* _write: the holder kept the lock for write_timeout_s.
WriterStuck(j) ==
    /\ pc[j] = "queued" /\ writer # None /\ writer[2] = "drain"
    /\ Terminalize("write_timeout")
    /\ pc' = [pc EXCEPT ![j] = "failed"]
    /\ UNCHANGED <<closing, report, proc, group, reading, writer, sent, tomb, told,
                   serv, cur, withdrawn>>

Acquire(j) ==
    /\ pc[j] = "queued" /\ writer = None
    /\ writer' = <<j, "owned">>
    /\ pc' = [pc EXCEPT ![j] = "writing"]
    /\ UNCHANGED <<life, sent, calls, serv, inter>>

\* Mutant: the gate of an answer is not asked again under the lock.
PassesUngated(j) == ~Lost

\* _committed_write up to its first await: the fence, the gate of an answer,
\* the bytes and on_committed in one step.
Passes(j) == ~Lost /\ (j \in Occs => ist[j] \in {"resolving", "rejected"})

FirstByte(j) ==
    /\ writer = <<j, "owned">>
    /\ IF Passes(j)
       THEN /\ writer' = <<j, "drain">>
            /\ sent' = sent \cup {j}
            /\ UNCHANGED pc
       ELSE /\ writer' = None
            /\ pc' = [pc EXCEPT ![j] = "failed"]
            /\ UNCHANGED sent
    /\ UNCHANGED <<life, calls, serv, inter>>

\* The drain completes; a caller that left meanwhile is not waited for.
Drained(j) ==
    /\ writer = <<j, "drain">>
    /\ writer' = None
    /\ pc' = [pc EXCEPT ![j] = CASE @ # "writing" -> @
                                 [] j \in Requests -> "waiting"
                                 [] OTHER -> "done"]
    /\ ist' = IF j \in Occs /\ ist[j] = "resolving" THEN [ist EXCEPT ![j] = "answered"] ELSE ist
    /\ UNCHANGED <<life, sent, calls, serv, cur, withdrawn>>

\* The drain runs out of time or the pipe breaks: the line on the pipe is
\* ambiguous, so the generation ends.
DrainFails(j) ==
    /\ writer = <<j, "drain">>
    /\ writer' = None
    /\ Terminalize(IF proc = "gone" THEN "exit" ELSE "write_timeout")
    /\ pc' = [pc EXCEPT ![j] = IF @ = "writing" THEN "failed" ELSE @]
    /\ UNCHANGED <<closing, report, proc, group, reading, sent, tomb, told, serv, cur,
                   withdrawn>>

\* RuntimeLost reaches the caller: with its bytes accepted the outcome is unknown.
CallerSeesLoss(r) ==
    /\ pc[r] = "failed"
    /\ Finish(r, IF r \in sent THEN "unknown" ELSE "lost")
    /\ UNCHANGED <<life, writer, sent, fut, orphans, tomb, fan, serv, inter>>

\* _commit_task: an answer still resolving is invalidated.
CommitSeesLoss(o) ==
    /\ pc[o] = "failed"
    /\ pc' = [pc EXCEPT ![o] = "done"]
    /\ ist' = IF ist[o] = "resolving" THEN [ist EXCEPT ![o] = "invalidated"] ELSE ist
    /\ UNCHANGED <<life, writer, sent, calls, serv, cur, withdrawn>>

Deliver(r) ==
    /\ pc[r] = "waiting" /\ fut[r] \in {"result", "lost"}
    /\ Finish(r, IF fut[r] = "result" THEN "answered" ELSE "unknown")
    /\ UNCHANGED <<life, writer, sent, fut, orphans, tomb, fan, serv, inter>>

\* The caller is cancelled, or its deadline passes, after its bytes were
\* accepted.  Cancelling a task cancels the future it awaits at once; the
\* handler runs later.
Depart(r) ==
    /\ r \in sent /\ pc[r] \in {"writing", "waiting", "failed"}
    /\ pc' = [pc EXCEPT ![r] = "leaving"]
    /\ fut' = IF pc[r] = "waiting" /\ fut[r] = "pending"
              THEN [fut EXCEPT ![r] = "cancelled"] ELSE fut
    /\ UNCHANGED <<life, writer, sent, orphans, tomb, told, fan, serv, inter>>

\* Mutant: what the reader delivered in the meantime is forgotten.
OrphanForgets(r) ==
    /\ pc[r] = "leaving"
    /\ Finish(r, "departed")
    /\ tomb' = tomb \ {r}
    /\ CASE fut[r] = "result" -> Fan(r, "orphaned") /\ UNCHANGED orphans
         [] fut[r] # "result" /\ term # None -> Fan(r, "ambiguous") /\ UNCHANGED orphans
         [] OTHER -> orphans' = orphans \cup {r} /\ UNCHANGED fan
    /\ UNCHANGED <<life, writer, sent, fut, serv, inter>>

\* _orphan: the transport takes over what the departing caller was owed.
Orphan(r) ==
    /\ pc[r] = "leaving"
    /\ Finish(r, "departed")
    /\ tomb' = tomb \ {r}
    /\ CASE r \in tomb -> UNCHANGED <<fan, orphans>>
         [] r \notin tomb /\ fut[r] = "result" -> Fan(r, "orphaned") /\ UNCHANGED orphans
         [] r \notin tomb /\ fut[r] # "result" /\ term # None ->
                Fan(r, "ambiguous") /\ UNCHANGED orphans
         [] OTHER -> orphans' = orphans \cup {r} /\ UNCHANGED fan
    /\ UNCHANGED <<life, writer, sent, fut, serv, inter>>

-----------------------------------------------------------------------------
(* The reader.                                                             *)

Read(m) == reading /\ wire # <<>> /\ Head(wire) = m /\ wire' = Tail(wire)

\* _on_response: to the waiter, to a caller that is leaving, or to the owner
\* of an orphan.
OnResponse(r) ==
    /\ Read(<<"response", r>>)
    /\ CASE Waiting(r) /\ fut[r] = "cancelled" ->
                /\ tomb' = tomb \cup {r} /\ Fan(r, "orphaned")
                /\ UNCHANGED <<fut, orphans>>
         [] Waiting(r) /\ fut[r] = "pending" ->
                /\ fut' = [fut EXCEPT ![r] = "result"]
                /\ UNCHANGED <<tomb, fan, orphans>>
         [] ~(Waiting(r) /\ fut[r] \in {"cancelled", "pending"}) /\ r \in orphans ->
                /\ orphans' = orphans \ {r} /\ Fan(r, "orphaned")
                /\ UNCHANGED <<fut, tomb>>
         [] OTHER -> UNCHANGED <<fut, tomb, fan, orphans>>
    /\ UNCHANGED <<life, writer, pc, sent, told, asked, replied, inter>>

\* _on_server_request: a live id is never replaced, an unsupported method is
\* refused; both are answered with an error through the writer.
OnServerRequest(o, supported) ==
    /\ Read(<<"ask", o, supported>>)
    /\ LET accept == supported /\ ~(cur # 0 /\ ist[cur] \in {"pending", "resolving"})
       IN  /\ ist' = [ist EXCEPT ![o] = IF accept THEN "pending" ELSE "rejected"]
           /\ cur' = IF accept THEN o ELSE cur
           /\ pc' = IF accept THEN pc
                    ELSE [pc EXCEPT ![o] = IF term # None THEN "failed" ELSE "queued"]
    /\ UNCHANGED <<life, writer, sent, calls, asked, replied, withdrawn>>

\* _resolve_interaction: bytes on the wire win, otherwise the server does.
ResolveInteraction ==
    /\ Read(<<"resolved">>)
    /\ IF cur \in Occs \ sent
       THEN /\ ist' = IF ist[cur] \in {"pending", "resolving"}
                      THEN [ist EXCEPT ![cur] = "resolved"] ELSE ist
            /\ withdrawn' = withdrawn \cup {cur}
       ELSE UNCHANGED <<ist, withdrawn>>
    /\ UNCHANGED <<life, writer, pc, sent, calls, asked, replied, cur>>

\* An unparsable or unroutable line: the stream is lost and the group killed.
ReadGarbage ==
    /\ Read(<<"garbage">>)
    /\ Terminalize("protocol_error")
    /\ reading' = FALSE /\ proc' = "gone" /\ group' = FALSE
    /\ UNCHANGED <<closing, report, writer, pc, sent, tomb, told, asked, replied, cur,
                   withdrawn>>

\* Everything buffered has been routed.
ReadEof ==
    /\ reading /\ wire = <<>> /\ proc # "up" /\ (proc = "gone" => ~group)
    /\ Terminalize("exit")
    /\ reading' = FALSE
    /\ UNCHANGED <<closing, report, proc, group, writer, pc, sent, tomb, told, serv, cur,
                   withdrawn>>

\* _watch_exit: a descendant holds stdout open past the grace.
WatchExit ==
    /\ proc = "gone" /\ reading
    /\ Terminalize("exit")
    /\ UNCHANGED <<closing, report, proc, group, reading, writer, pc, sent, tomb, told,
                   serv, cur, withdrawn>>

-----------------------------------------------------------------------------
(* Answers, the loss teardown and the close.                               *)

\* answer / fail_interaction with the token of occurrence o: _fence, then the
\* state is resolving before the commit task runs.
Fence(o) == cur = o /\ ~Lost /\ ist[cur] = "pending"

Answer(o) ==
    /\ ist[o] # "unread"
    /\ Fence(o)
    /\ ist' = [ist EXCEPT ![cur] = "resolving"]
    /\ pc' = [pc EXCEPT ![cur] = "queued"]
    /\ UNCHANGED <<life, writer, sent, calls, serv, cur, withdrawn>>

\* _reap_after_loss: SIGTERM, then SIGKILL, to the group.
Reap ==
    /\ term \notin {None, "closed"} /\ group
    /\ group' = FALSE /\ proc' = "gone"
    /\ UNCHANGED <<term, closing, report, reading, writer, pc, sent, calls, serv, inter>>

\* close: the admission barrier; answers not on the wire lose to it.
Close ==
    /\ ~closing
    /\ closing' = TRUE
    /\ ist' = Unsent(ist, sent, "invalidated")
    /\ UNCHANGED <<term, report, proc, group, reading, writer, pc, sent, calls, serv, cur,
                   withdrawn>>

\* _close_impl: commits and begun writes settle, then EOF, SIGTERM, SIGKILL.
Settled == writer = None /\ \A o \in Occs : pc[o] \in {"idle", "done"}

CloseStop ==
    /\ closing /\ ~report /\ Settled /\ proc # "gone"
    /\ term \notin {None, "closed"} => ~group
    /\ proc' = "gone"
    /\ group' \in {group, FALSE}
    /\ UNCHANGED <<term, closing, report, reading, writer, pc, sent, calls, serv, inter>>

CloseReport ==
    /\ closing /\ ~report /\ Settled /\ proc = "gone"
    /\ Terminalize("closed")
    /\ group' = FALSE /\ reading' = FALSE /\ report' = TRUE
    /\ UNCHANGED <<closing, proc, writer, pc, sent, tomb, told, serv, cur, withdrawn>>

-----------------------------------------------------------------------------
(* The server: external, as the transport expects it to behave or not.     *)

Write(m) == proc = "up" /\ Len(wire) < MaxWire /\ wire' = Append(wire, m)

Reply(r) ==
    /\ r \in sent \ replied /\ Write(<<"response", r>>)
    /\ replied' = replied \cup {r}
    /\ UNCHANGED <<life, writer, pc, sent, calls, asked, inter>>

Ask ==
    /\ asked < MaxAsk
    /\ \E ok \in BOOLEAN : Write(<<"ask", asked + 1, ok>>)
    /\ asked' = asked + 1
    /\ UNCHANGED <<life, writer, pc, sent, calls, replied, inter>>

Say(m) ==
    /\ Write(m)
    /\ UNCHANGED <<life, writer, pc, sent, calls, asked, replied, inter>>

Stop ==
    /\ proc = "up"
    /\ proc' \in {"mute", "gone"} /\ group' \in {group, proc' = "mute"}
    /\ UNCHANGED <<term, closing, report, reading, writer, pc, sent, calls, serv, inter>>

-----------------------------------------------------------------------------
Job(j) == QueuedLost(j) \/ WriterStuck(j) \/ Acquire(j) \/ FirstByte(j)
          \/ Drained(j) \/ DrainFails(j)

Caller(r) == Call(r) \/ LeaveQueue(r) \/ CallerSeesLoss(r) \/ Deliver(r) \/ Depart(r)
             \/ Orphan(r)

Reader == \/ \E r \in Requests : OnResponse(r)
          \/ \E o \in Occs, ok \in BOOLEAN : OnServerRequest(o, ok)
          \/ ResolveInteraction \/ ReadGarbage \/ ReadEof \/ WatchExit

Owner == Reap \/ Close \/ CloseStop \/ CloseReport

Server == \/ \E r \in Requests : Reply(r)
          \/ Ask \/ Say(<<"resolved">>) \/ Say(<<"garbage">>) \/ Stop

Next == \/ \E j \in Jobs : Job(j)
        \/ \E r \in Requests : Caller(r)
        \/ \E o \in Occs : Answer(o) \/ CommitSeesLoss(o)
        \/ Reader \/ Owner \/ Server

Spec == Init /\ [][Next]_vars

-----------------------------------------------------------------------------
(* Properties.                                                             *)

\* A request has one outcome.  Its caller is told "not sent" only when stdin
\* never took its bytes; a caller that stays gets the answer and nobody else
\* does; a request whose caller left is reported to the owner once, as an
\* orphaned response or as ambiguous, or is still on the orphan registry of a
\* live generation (request, _orphan, _on_response, _terminalize).
OneOutcome == \A r \in Requests :
    /\ told[r] \in {"lost", "notSent"} => r \notin sent
    /\ told[r] \in {"lost", "notSent", "answered", "unknown"} => fan[r] = <<>>
    /\ told[r] = "departed" => IF fan[r] = <<>> THEN r \in orphans /\ term = None
                                                ELSE Len(fan[r]) = 1 /\ r \notin orphans

\* An interaction's answer reaches the wire only while the interaction is
\* open: never after the reader took in the server's withdrawal, and an
\* occurrence is answered only with its own token, however ids are reused
\* (_fence, _gate, _resolve_interaction).
AnswerIsFenced ==
    /\ withdrawn \cap sent = {}
    /\ \A o \in Occs : ist[o] = "answered" => o \in sent

=============================================================================

---------------------------- MODULE ResponseTurn ----------------------------
(***************************************************************************)
(* The turns of one session: src/routes/responses.py with the guard of     *)
(* src/session_guard.py, the turn readers of src/backends/claude/client.py *)
(* and the between-turn reader of src/session_outbox.py.                   *)
(*                                                                         *)
(* A request is a streamed, a plain (sync) or a background turn, or the    *)
(* answer to a question an earlier turn stopped at.  session.lock makes    *)
(* turns take turns; what races with the turn that holds it is: requests   *)
(* that arrive and look before they have the lock, a cancel, the consumer  *)
(* of the stream going away, the question's timeout, the idle reader, a    *)
(* poll that restarts it, and the CLI itself, which may still be working   *)
(* on an older prompt.                                                     *)
(*                                                                         *)
(* Each action is a stretch of code in which asyncio runs nothing else.    *)
(* The usage log is left out: it never suspends.  What the CLI says in a   *)
(* run is one message, its ResultMessage: its prompt and how it ended.     *)
(* The session itself stays: its removal is in SessionManager.             *)
(***************************************************************************)
EXTENDS Naturals, Sequences, FiniteSets

CONSTANTS
    Requests,
    MaxAsk,       \* bound: questions the CLI asks
    MaxCancel,    \* bound: cancels sent
    MaxReinvoke,  \* bound: runs the CLI's harness starts by itself, between prompts
    None

ASSUME TurnAssumption ==
    /\ IsFiniteSet(Requests)
    /\ MaxAsk \in Nat /\ MaxCancel \in Nat /\ MaxReinvoke \in Nat
    /\ None \notin Requests /\ None \notin Nat /\ None \notin {"queued", "in_progress"}

Kinds == {"stream", "sync", "background"}
Turns == 1..(Cardinality(Requests) + 1)

VARIABLES
    turn,     \* turn_counter
    stored,   \* the turns that were committed, and by whom (turn_records, stored or not)
    runs,     \* _BACKGROUND_RUNS: what it says of each turn's response id
    lock,     \* the request that holds session.lock
    client,   \* session.client: its number, None without one
    made,     \* clients made so far
    active,   \* active_response_turn (active_response_id)
    state,    \* active_response_state
    pending,  \* pending_tool_call: the number of the question (its call_id)
    asked,    \* questions asked so far
    reader,   \* the idle reader runs
    work,     \* prompts the CLI has to work on, the current one first
    unread,   \* ResultMessages in the SDK's stream
    cancel,   \* an interrupt on its way: its turn and its client
    cancels, reinvoked,
    pc, kind, prev,  \* each request: where it is, how it is served, previous_response_id
    answers,  \* the question it answers (function_call_output), None for a new turn
    next,     \* next_turn
    using     \* active_client

sessionVars == <<turn, stored, lock, runs, active, state>>
cliVars == <<client, made, pending, asked, reader, work, unread>>
controlVars == <<cancel, cancels, reinvoked>>
askVars == <<kind, prev, answers, next>>
requestVars == <<pc, using>>
vars == <<sessionVars, cliVars, controlVars, askVars, requestVars>>

\* A session with one turn: resumed from its transcript, without a client, or
\* with the client of that turn (client 0), parked on question 0.
Init ==
    /\ turn = 1
    /\ stored = [n \in Turns |-> None]
    /\ runs = [n \in Turns |-> None]
    /\ lock = None /\ active = None /\ state = "idle"
    /\ \/ client = None /\ pending = None /\ work = <<>>
       \/ client = 0 /\ pending = 0 /\ work = <<None>>
    /\ made = 0 /\ asked = 0 /\ reader = FALSE /\ unread = <<>>
    /\ cancel = None /\ cancels = 0 /\ reinvoked = 0
    /\ pc = [q \in Requests |-> "new"]
    /\ kind = [q \in Requests |-> None]
    /\ prev = [q \in Requests |-> None]
    /\ answers = [q \in Requests |-> None]
    /\ next = [q \in Requests |-> None]
    /\ using = [q \in Requests |-> None]

-----------------------------------------------------------------------------
(* From the request to its turn. *)

To(q, p) == pc' = [pc EXCEPT ![q] = p]
IsAnswer(q) == answers[q] # None

\* An error response: nothing was done, and what q holds of the lock is given back.
Refuse(q) ==
    /\ To(q, "refused")
    /\ lock' = IF lock = q THEN None ELSE lock

\* _reject_while_human_decision_pending: the CLI waits for a person.
Parked == pending # None

\* create_response up to the session lock.  Only a turn that exists can be
\* named; a new turn is refused while a human decision is pending.
Arrive(q) ==
    /\ pc[q] = "new"
    /\ \E k \in Kinds, n \in 1..turn :
          /\ kind' = [kind EXCEPT ![q] = k]
          /\ prev' = [prev EXCEPT ![q] = n]
    /\ IF Parked
       THEN Refuse(q)
       ELSE To(q, "waiting") /\ UNCHANGED lock
    /\ UNCHANGED <<turn, stored, runs, active, state, cliVars, controlVars, answers, next,
                   using>>

\* A function_call_output for a question that was asked; not in the background.
ArriveAnswer(q) ==
    /\ pc[q] = "new"
    /\ \E k \in {"stream", "sync"}, c \in 0..asked :
          /\ kind' = [kind EXCEPT ![q] = k]
          /\ answers' = [answers EXCEPT ![q] = c]
    /\ To(q, "waiting")
    /\ UNCHANGED <<sessionVars, cliVars, controlVars, prev, next, using>>

\* Mutant: the answer is not compared with the question.
AcceptsAny(q) == IF IsAnswer(q) THEN client # None ELSE prev[q] = turn

\* What is tested under the lock: the turn is still the latest one
\* (acquire_session_preflight); the answer is for the question that is pending,
\* and there is a client to take it (_unblock_pending_tool_call).
Accepts(q) ==
    IF IsAnswer(q) THEN pending = answers[q] /\ client # None ELSE prev[q] = turn

\* Mutant: the lock is not kept.
LockAndGo(q) ==
    /\ pc[q] = "waiting" /\ lock = None
    /\ IF Accepts(q)
       THEN /\ To(q, "locked")
            /\ next' = [next EXCEPT ![q] = turn + 1]
            /\ UNCHANGED lock
       ELSE Refuse(q) /\ UNCHANGED next
    /\ UNCHANGED <<turn, stored, runs, active, state, cliVars, controlVars, kind, prev, answers,
                   using>>

Lock(q) ==
    /\ pc[q] = "waiting" /\ lock = None
    /\ IF Accepts(q)
       THEN /\ To(q, "locked")
            /\ lock' = q
            /\ next' = [next EXCEPT ![q] = turn + 1]
       ELSE Refuse(q) /\ UNCHANGED next
    /\ UNCHANGED <<turn, stored, runs, active, state, cliVars, controlVars, kind, prev, answers,
                   using>>

\* _clear_stale_pending_tool_call, before a client is made: the pause of a
\* client that is gone goes too.
StalePause == IF client = None THEN None ELSE pending

\* The policy refresh, or create_client, fails: the lock goes back and nothing
\* else changes, except that a stale pause is cleared.
RefuseLate(q) ==
    /\ pc[q] = "locked"
    /\ Refuse(q)
    /\ pending' = StalePause
    /\ UNCHANGED <<turn, stored, runs, active, state, client, made, asked, reader, work, unread,
                   controlVars, askVars, using>>

\* The slot a cancel finds, for turns that publish one, and the entry a GET finds.
Publish(q) ==
    /\ active' = IF kind[q] = "sync" THEN active ELSE next[q]
    /\ state' = IF kind[q] = "sync" THEN state ELSE "running"
    /\ runs' = IF kind[q] = "background" THEN [runs EXCEPT ![next[q]] = "queued"] ELSE runs

\* create_client: a CLI with nothing to do and nothing said.
NewClient ==
    /\ made' = made + 1
    /\ client' = made + 1
    /\ work' = <<>> /\ unread' = <<>>

\* _ensure_response_session_client succeeds: the client there is, or a new one.  A new turn is then published
\* (_begin_active_response, _register_background_run); an answer is not yet.
EnsureClient(q) ==
    /\ pc[q] = "locked"
    /\ IF client # None
       THEN UNCHANGED <<client, made, work, unread>>
       ELSE NewClient
    /\ pending' = StalePause
    /\ using' = [using EXCEPT ![q] = client']
    /\ IF IsAnswer(q) THEN UNCHANGED <<active, state, runs>> ELSE Publish(q)
    /\ To(q, "ready")
    /\ UNCHANGED <<turn, stored, lock, asked, reader, controlVars, askVars>>

-----------------------------------------------------------------------------
(* The turn. *)

\* What a turn finds unread when it starts: an idle reader stops after one more
\* message, without one drain_backlog_to_outbox takes what there is.
Backlog == IF reader /\ unread # <<>> THEN Tail(unread) ELSE <<>>

\* run_completion_with_client up to its first read: the stream is swept, then the
\* prompt is sent.
Query(q) ==
    /\ pc[q] = "ready" /\ ~IsAnswer(q)
    /\ unread' = Backlog
    /\ reader' = FALSE
    /\ work' = Append(work, q)
    /\ runs' = IF kind[q] = "background" THEN [runs EXCEPT ![next[q]] = "in_progress"] ELSE runs
    /\ To(q, "reading")
    /\ UNCHANGED <<turn, stored, lock, active, state, client, made, pending, asked, controlVars,
                   askVars, using>>

\* The answer reaches the CLI: the backlog is drained, the hook is woken and the
\* continuation is published.  If the question timed out since it was compared,
\* there is nobody to wake.
Wake(q) ==
    /\ pc[q] = "ready" /\ IsAnswer(q)
    /\ unread' = <<>>
    /\ pending' = None
    /\ reader' = FALSE
    /\ Publish(q)
    /\ To(q, "reading")
    /\ UNCHANGED <<turn, stored, lock, client, made, asked, work, controlVars, askVars, using>>

\* How a reading ended: with a result, cut by an interrupt, with an error or
\* nothing to show, or broken off for a question.
Ended == {"ok", "cut", "bad", "broke"}

\* The next ResultMessage ends the reading, whatever prompt it is for.  A cut
\* run is an interrupt only beside a cancel (_mark_gateway_interrupt), else an error.
Read(q) ==
    /\ pc[q] = "reading" /\ unread # <<>>
    /\ LET how == Head(unread).how IN
          To(q, IF how = "cut" /\ state # "cancelling" THEN "bad" ELSE how)
    /\ unread' = Tail(unread)
    /\ UNCHANGED <<sessionVars, client, made, pending, asked, reader, work, controlVars, askVars,
                   using>>

\* The SDK's stream fails: the reader clears session.client and reports an error.
StreamFails(q) ==
    /\ pc[q] = "reading"
    /\ client' = None
    /\ work' = <<>> /\ unread' = <<>>
    /\ To(q, "bad")
    /\ UNCHANGED <<sessionVars, made, pending, asked, reader, controlVars, askVars, using>>

\* Mutant: the registry is not told.
FailSilently(q) == To(q, "failing") /\ UNCHANGED runs

\* What ends a turn that the code counts as failed: its entry, if it has one,
\* says so before its client is dropped.
Fail(q) ==
    /\ To(q, "failing")
    /\ runs' = IF kind[q] = "background" THEN [runs EXCEPT ![next[q]] = "failed"] ELSE runs

\* _keepalive_wrapper: a silent stream ends with a stall error, which it reports
\* like any other error of the CLI.
Stall(q) == To(q, "bad") /\ UNCHANGED runs

\* The turn takes too long: a plain or background turn fails at once
\* (_collect_non_stream_chunks, BACKGROUND_RESPONSE_TIMEOUT_S), a stream stalls.
TimeOut(q) ==
    /\ pc[q] = "reading"
    /\ IF kind[q] = "stream"
       THEN Stall(q)
       ELSE Fail(q)
    /\ UNCHANGED <<turn, stored, lock, active, state, cliVars, controlVars, askVars, using>>

\* Streams and continuations look for a pending question before they look at how
\* the reading ended.
QuestionFirst(q) == kind[q] = "stream" \/ IsAnswer(q)

\* A pending question decides first there, after the error (and interrupt) tests
\* elsewhere.  A reading that broke off for a
\* question that is gone ends by what was said until then.
Outcomes(q) ==
    IF pending # None /\ (QuestionFirst(q) \/ pc[q] \in {"ok", "broke"})
    THEN {"requires_action"}
    ELSE [ok |-> {"completed"}, cut |-> {"incomplete"}, bad |-> {"failed"},
          broke |-> {"completed", "failed"}][pc[q]]

Commit(q) ==
    /\ turn' = next[q]
    /\ stored' = [stored EXCEPT ![next[q]] = q]

\* resume_idle_reader and its gates; the caller has cleared the slot.
Resumed == reader \/ (client # None /\ pending = None)

\* A stream is told its outcome before the turn is committed.
Tell(q) ==
    /\ pc[q] \in Ended /\ kind[q] = "stream"
    /\ \E o \in Outcomes(q) :
          IF o = "failed"
          THEN Fail(q)
          ELSE To(q, IF o = "requires_action" THEN "shown" ELSE "told") /\ UNCHANGED runs
    /\ UNCHANGED <<turn, stored, lock, active, state, cliVars, controlVars, askVars, using>>

CommitStream(q) ==
    /\ pc[q] \in {"told", "shown"}
    /\ Commit(q)
    /\ To(q, "closing")
    /\ UNCHANGED <<lock, runs, active, state, cliVars, controlVars, askVars, using>>

\* Plain and background turns: commit, leave the registry, clear the slot,
\* release the lock, resume the idle reader and answer, in one stretch.
CommitAtOnce(q) ==
    /\ pc[q] \in Ended /\ kind[q] # "stream"
    /\ \E o \in Outcomes(q) :
          IF o = "failed"
          THEN Fail(q) /\ UNCHANGED <<turn, stored, lock, active, state, reader>>
          ELSE /\ Commit(q)
               /\ runs' = IF kind[q] = "background" THEN [runs EXCEPT ![next[q]] = None] ELSE runs
               /\ active' = None /\ state' = "idle"
               /\ lock' = None
               /\ reader' = Resumed
               /\ To(q, "done")
    /\ UNCHANGED <<client, made, pending, asked, work, unread, controlVars, askVars, using>>

\* Mutant: the teardown keeps the client.
LeaveKeeping(q) ==
    /\ kind[q] = "stream"
    /\ pc[q] \in {"ready", "reading", "told", "shown"} \cup Ended /\ (pc[q] = "ready" => ~IsAnswer(q))
    /\ To(q, "closing")
    /\ UNCHANGED <<sessionVars, cliVars, controlVars, askVars, using>>

\* The consumer of the stream goes away.  Before the stream has ended, or while
\* it shows a question, the teardown counts the turn as failed; after the last
\* event as a success, though the code that commits it never runs.
Leave(q) ==
    /\ kind[q] = "stream"
    /\ \/ /\ pc[q] \in {"ready", "reading", "shown"} \cup Ended
          /\ pc[q] = "ready" => ~IsAnswer(q)
          /\ To(q, "failing")
       \/ pc[q] = "told" /\ To(q, "closing")
    /\ UNCHANGED <<sessionVars, cliVars, controlVars, askVars, using>>

-----------------------------------------------------------------------------
(* The end of a turn. *)

\* _disconnect_session_client: the idle reader stops, and the pause goes with
\* the client.
DropClient(q) ==
    /\ reader' = FALSE
    /\ pending' = None
    /\ client' = IF client = using[q] THEN None ELSE client
    /\ work' = IF client = using[q] THEN <<>> ELSE work
    /\ unread' = IF client = using[q] THEN <<>> ELSE unread

\* A failed stream or background turn drops its client, then finishes.
Drop(q) ==
    /\ pc[q] = "failing" /\ kind[q] # "sync"
    /\ DropClient(q)
    /\ To(q, "closing")
    /\ UNCHANGED <<sessionVars, made, asked, controlVars, askVars, using>>

\* Mutant: the lock is released, the client dropped later.
FailSyncLate(q) ==
    /\ pc[q] = "failing" /\ kind[q] = "sync"
    /\ IF lock = q
       THEN lock' = None /\ UNCHANGED <<reader, pending, client, work, unread, pc>>
       ELSE DropClient(q) /\ To(q, "done") /\ UNCHANGED lock
    /\ UNCHANGED <<turn, stored, runs, active, state, made, asked, controlVars, askVars, using>>

\* A failed plain turn: the lock goes back and the client is dropped before
\* anything else runs.
FailSync(q) ==
    /\ pc[q] = "failing" /\ kind[q] = "sync"
    /\ DropClient(q)
    /\ lock' = None
    /\ To(q, "done")
    /\ UNCHANGED <<turn, stored, runs, active, state, made, asked, controlVars, askVars, using>>

\* Mutant: the slot stays.
FinishUncleared(q) ==
    /\ pc[q] = "closing"
    /\ lock' = None
    /\ reader' = Resumed
    /\ To(q, "done")
    /\ UNCHANGED <<turn, stored, runs, active, state, client, made, pending, asked, work, unread,
                   controlVars, askVars, using>>

\* Mutant: the lock stays.
FinishLocked(q) ==
    /\ pc[q] = "closing"
    /\ active' = None /\ state' = "idle"
    /\ reader' = Resumed
    /\ To(q, "done")
    /\ UNCHANGED <<turn, stored, runs, lock, client, made, pending, asked, work, unread,
                   controlVars, askVars, using>>

\* _finish_active_response, and the lock.
Finish(q) ==
    /\ pc[q] = "closing"
    /\ active' = None /\ state' = "idle"
    /\ lock' = None
    /\ reader' = Resumed
    /\ To(q, "done")
    /\ UNCHANGED <<turn, stored, runs, client, made, pending, asked, work, unread, controlVars,
                   askVars, using>>

-----------------------------------------------------------------------------
(* A cancel. *)

\* cancel_response: only the running active response.
Cancel ==
    /\ active # None /\ state = "running"
    /\ cancels < MaxCancel /\ cancel = None
    /\ state' = "cancelling"
    /\ \E q \in Requests : lock = q /\ cancel' = [turn |-> active, client |-> using[q]]
    /\ cancels' = cancels + 1
    /\ UNCHANGED <<turn, stored, lock, runs, active, cliVars, reinvoked, askVars, requestVars>>

\* The interrupt reaches the CLI and ends the run it is working on; a question
\* that run was parked on is released.
Interrupted ==
    /\ cancel # None
    /\ cancel' = None
    /\ IF cancel.client = client /\ work # <<>>
       THEN /\ unread' = Append(unread, [of |-> Head(work), how |-> "cut"])
            /\ work' = Tail(work)
            /\ pending' = None
       ELSE UNCHANGED <<unread, work, pending>>
    /\ UNCHANGED <<sessionVars, client, made, asked, reader, cancels, reinvoked, askVars, requestVars>>

\* The control request fails: the response runs again, if it is still there.
InterruptFails ==
    /\ cancel # None
    /\ cancel' = None
    /\ state' = IF active = cancel.turn THEN "running" ELSE state
    /\ UNCHANGED <<turn, stored, lock, runs, active, cliVars, cancels, reinvoked, askVars, requestVars>>

-----------------------------------------------------------------------------
(* The CLI, and who reads it between turns. *)

Working == client # None /\ work # <<>> /\ pending = None

\* The run ends, with an answer or with an error or nothing to show.
CliEnds ==
    /\ Working
    /\ \E how \in {"ok", "bad"} : unread' = Append(unread, [of |-> Head(work), how |-> how])
    /\ work' = Tail(work)
    /\ UNCHANGED <<sessionVars, client, made, pending, asked, reader, controlVars, askVars, requestVars>>

\* _park_for_decision: the run stops at a question.  The reader of a new turn is
\* told to break off (stream_break_event); the one of a continuation has no such event.
CliAsks ==
    /\ Working /\ asked < MaxAsk
    /\ asked' = asked + 1
    /\ pending' = asked + 1
    /\ LET broken == {q \in Requests : pc[q] = "reading" /\ ~IsAnswer(q)} IN
          pc' = [q \in Requests |-> IF q \in broken THEN "broke" ELSE pc[q]]
    /\ UNCHANGED <<sessionVars, client, made, reader, work, unread, controlVars, askVars, using>>

\* ASK_USER_TIMEOUT_SECONDS: the question is denied and the run goes on.
AskTimesOut ==
    /\ pending # None
    /\ pending' = None
    /\ UNCHANGED <<sessionVars, client, made, asked, reader, work, unread, controlVars, askVars, requestVars>>

\* The harness starts a run by itself: a background task has ended.
Reinvoke ==
    /\ client # None /\ work = <<>> /\ reinvoked < MaxReinvoke
    /\ reinvoked' = reinvoked + 1
    /\ work' = <<None>>
    /\ UNCHANGED <<sessionVars, client, made, pending, asked, reader, unread, cancel, cancels,
                   askVars, requestVars>>

\* _idle_pump takes a message to the outbox.
IdleRead ==
    /\ reader /\ unread # <<>>
    /\ unread' = Tail(unread)
    /\ UNCHANGED <<sessionVars, client, made, pending, asked, reader, work, controlVars, askVars,
                   requestVars>>

\* Mutant: the lock is not asked for.
PollBlind ==
    /\ client # None /\ active = None /\ pending = None /\ ~reader
    /\ reader' = TRUE
    /\ UNCHANGED <<sessionVars, client, made, pending, asked, work, unread, controlVars, askVars,
                   requestVars>>

\* resume_idle_reader_between_turns, from the routes that read the outbox.
Poll ==
    /\ lock = None
    /\ client # None /\ active = None /\ pending = None /\ ~reader
    /\ reader' = TRUE
    /\ UNCHANGED <<sessionVars, client, made, pending, asked, work, unread, controlVars, askVars,
                   requestVars>>

-----------------------------------------------------------------------------
Next ==
    \/ \E q \in Requests :
          \/ Arrive(q) \/ ArriveAnswer(q) \/ Lock(q) \/ RefuseLate(q) \/ EnsureClient(q)
          \/ Query(q) \/ Wake(q) \/ Read(q) \/ StreamFails(q) \/ TimeOut(q)
          \/ Tell(q) \/ CommitStream(q) \/ CommitAtOnce(q) \/ Leave(q)
          \/ Drop(q) \/ FailSync(q) \/ Finish(q)
    \/ Cancel \/ Interrupted \/ InterruptFails
    \/ CliEnds \/ CliAsks \/ AskTimesOut \/ Reinvoke \/ IdleRead \/ Poll

\* The steps of a request that nothing but the event loop holds up; a reading
\* that gets nothing more is ended by a timeout.  The CLI, the consumer and the
\* callers owe nothing.
Progress(q) ==
    \/ Lock(q) \/ EnsureClient(q) \/ Query(q) \/ Wake(q) \/ TimeOut(q) \/ Tell(q)
    \/ CommitStream(q) \/ CommitAtOnce(q) \/ Drop(q) \/ FailSync(q) \/ Finish(q)
Fairness == \A q \in Requests : WF_vars(Progress(q))

Spec == Init /\ [][Next]_vars /\ Fairness

-----------------------------------------------------------------------------
(* Properties. *)

Results == [of : Requests \cup {None}, how : {"ok", "bad", "cut"}]
Clients == 0..Cardinality(Requests)

\* The values each part of the session, of the CLI and of a request may have.
TypeOK ==
    /\ turn \in Turns
    /\ stored \in [Turns -> Requests \cup {None}]
    /\ runs \in [Turns -> {None, "queued", "in_progress", "failed"}]
    /\ lock \in Requests \cup {None}
    /\ made \in 0..Cardinality(Requests) /\ client \in Clients \cup {None}
    /\ active \in Turns \cup {None} /\ state \in {"idle", "running", "cancelling"}
    /\ asked \in 0..MaxAsk /\ pending \in (0..MaxAsk) \cup {None}
    /\ reader \in BOOLEAN
    /\ work \in Seq(Requests \cup {None}) /\ unread \in Seq(Results)
    /\ cancel \in [turn : Turns, client : Clients] \cup {None}
    /\ cancels \in 0..MaxCancel /\ reinvoked \in 0..MaxReinvoke
    /\ pc \in [Requests -> Ended \cup {"new", "waiting", "refused", "locked", "ready",
                       "reading", "told", "shown", "failing", "closing", "done"}]
    /\ kind \in [Requests -> Kinds \cup {None}]
    /\ prev \in [Requests -> Turns \cup {None}]
    /\ answers \in [Requests -> (0..MaxAsk) \cup {None}]
    /\ next \in [Requests -> Turns \cup {None}]
    /\ using \in [Requests -> Clients \cup {None}]

\* A response id names one turn for good: the counter goes up one turn at a
\* time, whatever fails, leaves or is retried in between, and what is kept for a
\* turn is never replaced by what another request made of the same number
\* (next_turn of acquire_session_preflight, used long after it was computed).
CommitsChain ==
    [][/\ turn' \in {turn, turn + 1}
       /\ \A n \in Turns : stored[n] # None => stored'[n] = stored[n]]_vars

\* The slot a cancel acts on is that of the turn that holds the session: no turn
\* begins in front of a slot another left behind (_begin_active_response raises
\* then), and a cancel reaches the client of the turn it names.
ActiveIsHeld ==
    active # None => /\ lock # None
                     /\ active = next[lock]
                     /\ pc[lock] \notin {"new", "waiting", "refused", "locked", "done"}

\* A poller is told "queued" or "in_progress" only of a background turn that is
\* still under way: no end of a turn leaves such an entry behind.
PollIsHonest ==
    \A n \in Turns : runs[n] \in {"queued", "in_progress"} =>
        /\ lock # None
        /\ kind[lock] = "background" /\ next[lock] = n
        /\ pc[lock] \in {"ready", "reading"} \cup Ended

\* The idle reader and a turn never read the client's stream at the same time,
\* also for a plain turn, which publishes no active response
\* (resume_idle_reader_between_turns).
OneReader == reader => \A q \in Requests : pc[q] # "reading"

\* A turn under way has the session's client: no teardown of an earlier turn
\* takes it away, and nobody replaces it (_disconnect_session_client).
KeepsItsClient ==
    \A q \in Requests : pc[q] \in {"ready", "reading"} => client # None /\ using[q] = client

\* A question is answered once: of several function_call_outputs for it only one
\* resumes the run, however they and the timeout race (_unblock_pending_tool_call).
AnsweredOnce ==
    \A q, r \in Requests :
        (/\ IsAnswer(q) /\ answers[q] = answers[r]
         /\ pc[q] \notin {"new", "waiting", "refused"}
         /\ pc[r] \notin {"new", "waiting", "refused"}) => q = r

\* A turn reads its own result: what turns before it left unfinished (a consumer
\* that went away, a failure, a cancel) does not end it, however the next
\* request follows.  Not covered: a CLI with runs nobody waits for, which it
\* starts by itself or goes on with after a question timed out; their result may
\* arrive after the backlog was drained.
OwnAnswer ==
    [][asked = 0 /\ reinvoked = 0 /\ client # 0 =>
          \A q \in Requests : pc[q] = "reading" /\ pc'[q] = "ok" => Head(unread).of = q]_vars

\* A run that is parked on a question is not waited for: the reader breaks off
\* and the client is shown the question.
QuestionIsShown ==
    pending # None => \A q \in Requests : pc[q] # "reading"

\* Every turn request is answered and its session comes free for the next one:
\* at every moment, later nobody is under way (a request never goes back to "new").
EveryTurnEnds == []<>(\A q \in Requests : pc[q] \in {"new", "refused", "done"})
=============================================================================

------------------------------- MODULE Archive --------------------------------
(***************************************************************************)
(* POST /files/archive (routes/terminal_files.py): admission slots, the    *)
(* walk thread, the producer thread that writes the zip into a bounded     *)
(* queue, and the response body that reads it and may go away at any time. *)
(*                                                                         *)
(* A slot belongs to its parties: body, walk, worker.  Each drops out once *)
(* and the last one gives the slot back.                                   *)
(***************************************************************************)
EXTENDS Naturals, FiniteSets

CONSTANTS
    Requests,
    UserOf,             \* [Requests -> users]
    MaxTotal, MaxUser,  \* ARCHIVE_MAX_CONCURRENT, ARCHIVE_MAX_PER_USER
    Depth,              \* _ZIP_QUEUE_DEPTH
    Chunks              \* chunks of an archive

VARIABLES
    held,       \* parties of each request's slot
    total,      \* _ArchiveAdmission._total
    perUser,    \* _ArchiveAdmission._per_user
    walk,       \* walk thread: none, running, over
    body,       \* response: none, admitted, walked, reading, over
    worker,     \* producer thread: none, writing, closing, over
    queue,      \* chunks in the queue; the marker counts as one
    left,       \* chunks still to produce, the final marker is the last
    cancel      \* the cancel event

vars == <<held, total, perUser, walk, body, worker, queue, left, cancel>>

Users == {UserOf[r] : r \in Requests}

Init ==
    /\ held = [r \in Requests |-> {}] /\ total = 0 /\ perUser = [u \in Users |-> 0]
    /\ walk = [r \in Requests |-> "none"] /\ body = [r \in Requests |-> "none"]
    /\ worker = [r \in Requests |-> "none"] /\ queue = [r \in Requests |-> 0]
    /\ left = [r \in Requests |-> Chunks + 1] /\ cancel = [r \in Requests |-> FALSE]

\* try_acquire, then the walk's own party
Admit(r) ==
    /\ body[r] = "none" /\ perUser[UserOf[r]] < MaxUser /\ total < MaxTotal
    /\ total' = total + 1 /\ perUser' = [perUser EXCEPT ![UserOf[r]] = @ + 1]
    /\ held' = [held EXCEPT ![r] = {"body", "walk"}]
    /\ body' = [body EXCEPT ![r] = "admitted"] /\ walk' = [walk EXCEPT ![r] = "running"]
    /\ UNCHANGED <<worker, queue, left, cancel>>

\* 429, before anything is walked
Refuse(r) ==
    /\ body[r] = "none" /\ (perUser[UserOf[r]] >= MaxUser \/ total >= MaxTotal)
    /\ body' = [body EXCEPT ![r] = "over"]
    /\ UNCHANGED <<held, total, perUser, walk, worker, queue, left, cancel>>

\* Mutant: every party that leaves gives the slot back.
LeaveCounting(r, gone) ==
    /\ held' = [held EXCEPT ![r] = @ \ gone]
    /\ total' = total - Cardinality(held[r] \cap gone)
    /\ perUser' = [perUser EXCEPT ![UserOf[r]] = @ - Cardinality(held[r] \cap gone)]

\* _drop_party: a second release is a no-op, the last one frees the slot.
Leave(r, gone) ==
    /\ held' = [held EXCEPT ![r] = @ \ gone]
    /\ IF held[r] # {} /\ held[r] \subseteq gone
       THEN total' = total - 1 /\ perUser' = [perUser EXCEPT ![UserOf[r]] = @ - 1]
       ELSE UNCHANGED <<total, perUser>>

\* _collect returns or raises in its thread
WalkEnds(r) ==
    /\ walk[r] = "running"
    /\ walk' = [walk EXCEPT ![r] = "over"] /\ Leave(r, {"walk"})
    /\ UNCHANGED <<body, worker, queue, left, cancel>>

\* The request goes on to a response, or the walk failed.
Walked(r) ==
    /\ body[r] = "admitted" /\ walk[r] = "over"
    /\ \/ body' = [body EXCEPT ![r] = "walked"] /\ UNCHANGED <<held, total, perUser>>
       \/ body' = [body EXCEPT ![r] = "over"] /\ Leave(r, {"body"})
    /\ UNCHANGED <<walk, worker, queue, left, cancel>>

\* The request is cancelled while the walk runs, or the body is collected
\* without having been read (the finalizer).
Dropped(r) ==
    /\ body[r] \in {"admitted", "walked"}
    /\ body' = [body EXCEPT ![r] = "over"] /\ Leave(r, {"body"})
    /\ UNCHANGED <<walk, worker, queue, left, cancel>>

\* The first read of the body: the producer's party, then its thread; the
\* thread may fail to start.
StartWorker(r) ==
    /\ body[r] = "walked"
    /\ \/ /\ held' = [held EXCEPT ![r] = @ \cup {"worker"}]
          /\ worker' = [worker EXCEPT ![r] = "writing"]
          /\ body' = [body EXCEPT ![r] = "reading"] /\ UNCHANGED <<total, perUser>>
       \/ body' = [body EXCEPT ![r] = "over"] /\ Leave(r, {"body"}) /\ UNCHANGED worker
    /\ UNCHANGED <<walk, queue, left, cancel>>

\* _ZipStreamSink.put: waits for room, gives up once cancelled
Put(r) ==
    /\ worker[r] = "writing" /\ ~cancel[r] /\ left[r] > 0 /\ queue[r] < Depth
    /\ queue' = [queue EXCEPT ![r] = @ + 1] /\ left' = [left EXCEPT ![r] = @ - 1]
    /\ UNCHANGED <<held, total, perUser, walk, body, worker, cancel>>

\* A member cannot be read: the error is the last thing put.
ReadFails(r) ==
    /\ worker[r] = "writing" /\ left[r] > 1
    /\ left' = [left EXCEPT ![r] = 1]
    /\ UNCHANGED <<held, total, perUser, walk, body, worker, queue, cancel>>

\* Mutant: a producer with a full queue does not look at the cancel event.
StopsWithRoom(r) ==
    /\ worker[r] = "writing"
    /\ left[r] = 0 \/ (cancel[r] /\ queue[r] < Depth /\ left[r] = Chunks + 1)
    /\ worker' = [worker EXCEPT ![r] = "closing"]
    /\ UNCHANGED <<held, total, perUser, walk, body, queue, left, cancel>>

\* Done, or cancelled: the sink goes dead and the zip is closed into it.
Stops(r) ==
    /\ worker[r] = "writing" /\ (left[r] = 0 \/ cancel[r])
    /\ worker' = [worker EXCEPT ![r] = "closing"]
    /\ UNCHANGED <<held, total, perUser, walk, body, queue, left, cancel>>

WorkerEnds(r) ==
    /\ worker[r] = "closing"
    /\ worker' = [worker EXCEPT ![r] = "over"] /\ Leave(r, {"worker"})
    /\ UNCHANGED <<walk, body, queue, left, cancel>>

\* A chunk goes out, except the last item, which is the marker or the error.
Get(r) ==
    /\ body[r] = "reading" /\ queue[r] > 0 /\ (queue[r] > 1 \/ left[r] > 0)
    /\ queue' = [queue EXCEPT ![r] = @ - 1]
    /\ UNCHANGED <<held, total, perUser, walk, body, worker, left, cancel>>

\* The marker was read or the client went away: cancel, empty the queue.
BodyEnds(r) ==
    /\ body[r] = "reading"
    /\ body' = [body EXCEPT ![r] = "over"] /\ Leave(r, {"body"})
    /\ cancel' = [cancel EXCEPT ![r] = TRUE] /\ queue' = [queue EXCEPT ![r] = 0]
    /\ UNCHANGED <<walk, worker, left>>

Next == \E r \in Requests :
    \/ Admit(r) \/ Refuse(r) \/ WalkEnds(r) \/ Walked(r) \/ Dropped(r) \/ StartWorker(r)
    \/ Put(r) \/ ReadFails(r) \/ Stops(r) \/ WorkerEnds(r) \/ Get(r) \/ BodyEnds(r)

\* Threads run on; a client may stall for ever, or go away.
Fairness == \A r \in Requests : /\ WF_vars(WalkEnds(r)) /\ WF_vars(WorkerEnds(r))
                                /\ WF_vars(Stops(r))

Spec == Init /\ [][Next]_vars /\ Fairness

-----------------------------------------------------------------------------
Live(r) == \/ walk[r] = "running" \/ worker[r] \in {"writing", "closing"}
           \/ body[r] \in {"admitted", "walked", "reading"} \/ queue[r] > 0

\* Walks, producers and unread queues together never exceed the limits,
\* whichever of a slot's parties leaves first, and the counters count the
\* slots that are held.
SlotsBound ==
    /\ \A r \in Requests : Live(r) => held[r] # {}
    /\ total = Cardinality({r \in Requests : held[r] # {}}) /\ total <= MaxTotal
    /\ \A u \in Users : /\ perUser[u] <= MaxUser
                        /\ perUser[u] = Cardinality({r \in Requests : UserOf[r] = u /\ held[r] # {}})

\* Once the client is gone, by the end of the body or before it began, its
\* slot comes back though nobody reads the producer's queue any more.  (A
\* body that is over stays so: this says it of each request.)
SlotsComeBack == []<>(\A r \in Requests : body[r] = "over" => held[r] = {})

=============================================================================

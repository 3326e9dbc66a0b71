---------------------------- MODULE TurnLimiter ----------------------------
(***************************************************************************)
(* Admission control for agent turns: src/concurrency.py (TurnLimiter,     *)
(* TurnSlot, _Waiter, _resolve_waiter) driven by the request boundary of   *)
(* src/concurrency_middleware.py (ConcurrencyLimitMiddleware) and by the   *)
(* background run that takes a slot over (src/routes/responses.py).        *)
(*                                                                         *)
(* Every guarded POST is one request of Requests.  It takes a slot at      *)
(* once, joins a FIFO queue, or is refused.  A freed slot is handed to the *)
(* oldest waiter that can take it: the slot is counted and the waiter      *)
(* leaves the queue under the limiter's lock, but the waiter's future is   *)
(* resolved later, by a callback on the event loop (call_soon_threadsafe). *)
(* A timeout, a client disconnect or a cancellation of the waiting task    *)
(* can fall between the two.                                               *)
(*                                                                         *)
(* The lock is held for the whole loop of _grant_waiters; the loop is one  *)
(* GrantStep per iteration, and "scan" is the part of list(self._waiters)  *)
(* it has still to visit.  While scan is not empty the lock is taken, so   *)
(* every action that needs the lock waits for scan = <<>>.                 *)
(*                                                                         *)
(* Time is abstract: a queue timeout may fire at any moment, and           *)
(* queue_timeout itself is only "positive" or not (queueOn).               *)
(***************************************************************************)
EXTENDS Integers, Sequences, SequencesExt, FiniteSets

CONSTANTS
    Requests,        \* the guarded requests (each arrives once)
    Users,           \* values of the "user" field
    Anonymous,       \* the key of requests that carry no user
    UserOf,          \* the key of each request
    TotalValues,     \* values of MAX_CONCURRENT_TURNS; none positive means no cap
    PerUserValues,   \* values of MAX_CONCURRENT_TURNS_PER_USER, likewise
    QueueMaxValues   \* values of TURN_QUEUE_MAX_WAITERS, likewise

ASSUME RequestsAssumption == IsFiniteSet(Requests)
ASSUME KeysAssumption ==
    /\ Anonymous \notin Users
    /\ UserOf \in [Requests -> Users \cup {Anonymous}]
ASSUME LimitsAssumption ==
    /\ TotalValues \subseteq Int
    /\ PerUserValues \subseteq Int
    /\ QueueMaxValues \subseteq Int

VARIABLES
    total, perUser, queueOn, queueMax,  \* the limits (TurnLimiter.configure)
    inFlight,    \* _in_flight
    byUser,      \* _by_user (an absent key counts 0)
    waiters,     \* _waiters, oldest first
    scan,        \* iterations _grant_waiters still owes; lock held while non-empty
    scheduled,   \* requests whose grant waits in call_soon_threadsafe
    future,      \* the future of each request's _Waiter
    slot,        \* the TurnSlot of each request; "released" is _released
    stage,       \* where the ASGI call of each request is
    aborted,     \* requests whose abort task (client disconnect) is done
    transferred, \* requests whose slot a background run took (take_turn_slot)
    background   \* background runs: "none", "running" or "ended"

limits == <<total, perUser, queueOn, queueMax>>
counts == <<inFlight, byUser>>
runs == <<transferred, background>>
vars == <<limits, counts, waiters, scan, scheduled, future, slot, stage,
          aborted, runs>>

Keys == Users \cup {Anonymous}
Identified(r) == UserOf[r] # Anonymous

-----------------------------------------------------------------------------
(* The limiter's own rules. *)

GlobalFull == total > 0 /\ inFlight >= total

UserFull(r) ==
    Identified(r) /\ perUser > 0 /\ byUser[UserOf[r]] >= perUser

\* _blocked
Blocked(r) == GlobalFull \/ UserFull(r)

\* deque.remove: r leaves the queue, the order of the others is kept
Without(s, r) ==
    IF \E i \in DOMAIN s : s[i] = r
    THEN RemoveAt(s, CHOOSE i \in DOMAIN s : s[i] = r)
    ELSE s

\* _take
Take(r) ==
    /\ inFlight' = inFlight + 1
    /\ byUser' = [byUser EXCEPT ![UserOf[r]] = @ + 1]
    /\ slot' = [slot EXCEPT ![r] = "held"]

\* Mutant: the release does not look for waiters.
ReleaseSlotNoGrant(r) ==
    IF slot[r] = "held"
    THEN /\ slot' = [slot EXCEPT ![r] = "released"]
         /\ inFlight' = inFlight - 1
         /\ byUser' = [byUser EXCEPT ![UserOf[r]] = @ - 1]
         /\ UNCHANGED scan
    ELSE UNCHANGED <<slot, counts, scan>>

\* Mutant: the per-user entry is dropped while the user still has turns.
ReleaseSlotDropsUser(r) ==
    IF slot[r] = "held"
    THEN /\ slot' = [slot EXCEPT ![r] = "released"]
         /\ inFlight' = inFlight - 1
         /\ byUser' = [byUser EXCEPT ![UserOf[r]] = 0]
         /\ scan' = waiters'
    ELSE UNCHANGED <<slot, counts, scan>>

\* TurnSlot.release and _release, up to the loop of _grant_waiters, which the
\* GrantSteps that follow perform over the queue as it is now.
ReleaseSlot(r) ==
    IF slot[r] = "held"
    THEN /\ slot' = [slot EXCEPT ![r] = "released"]
         /\ inFlight' = IF inFlight > 0 THEN inFlight - 1 ELSE inFlight
         /\ byUser' = [byUser EXCEPT ![UserOf[r]] = IF @ > 1 THEN @ - 1 ELSE 0]
         /\ scan' = waiters'
    ELSE UNCHANGED <<slot, counts, scan>>

LockFree == scan = <<>>

-----------------------------------------------------------------------------
Init ==
    /\ total \in TotalValues
    /\ perUser \in PerUserValues
    /\ queueOn \in BOOLEAN
    /\ queueMax \in QueueMaxValues
    /\ inFlight = 0
    /\ byUser = [k \in Keys |-> 0]
    /\ waiters = <<>>
    /\ scan = <<>>
    /\ scheduled = {}
    /\ future = [r \in Requests |-> "none"]
    /\ slot = [r \in Requests |-> "none"]
    /\ stage = [r \in Requests |-> "arriving"]
    /\ aborted = {}
    /\ transferred = {}
    /\ background = [r \in Requests |-> "none"]

-----------------------------------------------------------------------------
(* A request at the boundary. *)

\* acquire finds room, or try_acquire does (a client that left while it sent
\* its body): the slot is taken at once and the app runs.
AdmitNow(r) ==
    /\ stage[r] = "arriving"
    /\ LockFree
    /\ ~Blocked(r)
    /\ Take(r)
    /\ stage' = [stage EXCEPT ![r] = "running"]
    /\ UNCHANGED <<limits, waiters, scan, scheduled, future, aborted, runs>>

QueueFull == queueMax > 0 /\ Len(waiters) >= queueMax

\* acquire finds no room: the request joins the queue...
Enqueue(r) ==
    /\ stage[r] = "arriving"
    /\ LockFree
    /\ Blocked(r)
    /\ queueOn
    /\ ~QueueFull
    /\ waiters' = Append(waiters, r)
    /\ future' = [future EXCEPT ![r] = "pending"]
    /\ stage' = [stage EXCEPT ![r] = "waiting"]
    /\ UNCHANGED <<limits, counts, scan, scheduled, slot, aborted, runs>>

\* ...or is refused: the queue is off or full, or the client is gone already
\* and try_acquire never queues.
Refuse(r) ==
    /\ stage[r] = "arriving"
    /\ LockFree
    /\ Blocked(r)
    /\ stage' = [stage EXCEPT ![r] = "refused"]
    /\ UNCHANGED <<limits, counts, waiters, scan, scheduled, future, slot,
                   aborted, runs>>

\* http.disconnect reaches the tap while the request waits.
Disconnect(r) ==
    /\ stage[r] = "waiting"
    /\ r \notin aborted
    /\ aborted' = aborted \cup {r}
    /\ UNCHANGED <<limits, counts, waiters, scan, scheduled, future, slot,
                   stage, runs>>

\* The code of acquire after asyncio.wait, whatever ended the wait, the finally
\* block included: the waiter leaves the queue, a future nobody resolved yet is
\* cancelled, and a slot that was delivered goes back unless the caller keeps
\* it.  A cancelled task keeps nothing.
Leave(r, keep, next) ==
    /\ stage[r] = "waiting"
    /\ LockFree
    /\ waiters' = Without(waiters, r)
    /\ IF future[r] = "pending"
       THEN /\ future' = [future EXCEPT ![r] = "cancelled"]
            /\ UNCHANGED <<slot, counts, scan>>
       ELSE /\ UNCHANGED future
            /\ IF keep THEN UNCHANGED <<slot, counts, scan>> ELSE ReleaseSlot(r)
    /\ stage' = [stage EXCEPT ![r] = next]
    /\ UNCHANGED <<limits, scheduled, aborted, runs>>

\* The wait ended because the future resolved or the timeout fired, and the
\* client is still there: a delivered slot is kept even after a timeout.
WakeGranted(r) ==
    /\ future[r] = "result"
    /\ r \notin aborted
    /\ Leave(r, TRUE, "running")

WakeTimedOut(r) ==
    /\ future[r] # "result"
    /\ r \notin aborted
    /\ Leave(r, TRUE, "refused")

WakeAborted(r) ==
    /\ r \in aborted
    /\ Leave(r, FALSE, "gone")

TaskCancelled(r) == Leave(r, FALSE, "gone")

-----------------------------------------------------------------------------
(* Grants. *)

\* Mutant: the newest waiter is served first.
GrantStepNewest ==
    /\ scan # <<>>
    /\ LET w == Last(scan)
       IN  /\ scan' = IF GlobalFull THEN <<>> ELSE Front(scan)
           /\ IF Blocked(w)
              THEN UNCHANGED <<counts, slot, waiters, scheduled>>
              ELSE /\ waiters' = Without(waiters, w)
                   /\ Take(w)
                   /\ scheduled' = scheduled \cup {w}
    /\ UNCHANGED <<limits, future, stage, aborted, runs>>

\* One iteration of the loop of _grant_waiters, the lock held.
GrantStep ==
    /\ scan # <<>>
    /\ \/ /\ GlobalFull
          /\ scan' = <<>>
          /\ UNCHANGED <<counts, slot, waiters, scheduled>>
       \/ /\ ~GlobalFull
          /\ scan' = Tail(scan)
          /\ \/ /\ future[Head(scan)] # "pending" \/ Blocked(Head(scan))
                /\ UNCHANGED <<counts, slot, waiters, scheduled>>
             \/ /\ future[Head(scan)] = "pending"
                /\ ~Blocked(Head(scan))
                /\ waiters' = Without(waiters, Head(scan))
                /\ Take(Head(scan))
                /\ scheduled' = scheduled \cup {Head(scan)}
    /\ UNCHANGED <<limits, future, stage, aborted, runs>>

\* Mutant: a grant that finds its waiter gone is dropped.
DeliverLeaks(r) ==
    /\ r \in scheduled
    /\ scheduled' = scheduled \ {r}
    /\ future' = [future EXCEPT ![r] = IF @ = "pending" THEN "result" ELSE @]
    /\ UNCHANGED <<limits, counts, waiters, scan, slot, stage, aborted, runs>>

\* _resolve_waiter on the waiter's loop.
Deliver(r) ==
    /\ r \in scheduled
    /\ scheduled' = scheduled \ {r}
    /\ UNCHANGED waiters
    /\ \/ /\ future[r] = "pending"
          /\ future' = [future EXCEPT ![r] = "result"]
          /\ UNCHANGED <<slot, counts, scan>>
       \/ /\ future[r] # "pending"
          /\ LockFree
          /\ UNCHANGED future
          /\ ReleaseSlot(r)
    /\ UNCHANGED <<limits, stage, aborted, runs>>

-----------------------------------------------------------------------------
(* The turn itself. *)

\* take_turn_slot and the spawn of the background run in
\* _create_background_response.
StartBackground(r) ==
    /\ stage[r] = "running"
    /\ r \notin transferred
    /\ transferred' = transferred \cup {r}
    /\ background' = [background EXCEPT ![r] = "running"]
    /\ UNCHANGED <<limits, counts, waiters, scan, scheduled, future, slot,
                   stage, aborted>>

\* The spawn raises after the transfer: the slot is handed back there.
SpawnFails(r) ==
    /\ stage[r] = "running"
    /\ r \notin transferred
    /\ LockFree
    /\ transferred' = transferred \cup {r}
    /\ background' = [background EXCEPT ![r] = "ended"]
    /\ UNCHANGED waiters
    /\ ReleaseSlot(r)
    /\ UNCHANGED <<limits, scheduled, future, stage, aborted>>

\* The finally block of _run_background_response.
EndBackground(r) ==
    /\ background[r] = "running"
    /\ LockFree
    /\ background' = [background EXCEPT ![r] = "ended"]
    /\ UNCHANGED waiters
    /\ ReleaseSlot(r)
    /\ UNCHANGED <<limits, scheduled, future, stage, aborted, transferred>>

\* The finally block of ConcurrencyLimitMiddleware.__call__: the last body
\* chunk was sent, the app raised, or the call was cancelled.
EndRequest(r) ==
    /\ stage[r] = "running"
    /\ LockFree
    /\ stage' = [stage EXCEPT ![r] = "done"]
    /\ UNCHANGED waiters
    /\ IF r \in transferred THEN UNCHANGED <<slot, counts, scan>> ELSE ReleaseSlot(r)
    /\ UNCHANGED <<limits, scheduled, future, aborted, runs>>

\* configure: an admin changes limits of the live limiter, negative values
\* counting as 0, and the freed room is handed out.
Clamp(n) == IF n > 0 THEN n ELSE 0
Configure ==
    /\ LockFree
    /\ total' \in {Clamp(n) : n \in TotalValues}
    /\ perUser' \in {Clamp(n) : n \in PerUserValues}
    /\ queueOn' \in BOOLEAN
    /\ queueMax' \in {Clamp(n) : n \in QueueMaxValues}
    /\ scan' = waiters
    /\ UNCHANGED <<counts, waiters, scheduled, future, slot, stage, aborted, runs>>

-----------------------------------------------------------------------------
Next ==
    \/ \E r \in Requests :
         \/ AdmitNow(r) \/ Enqueue(r) \/ Refuse(r) \/ Disconnect(r)
         \/ WakeGranted(r) \/ WakeTimedOut(r) \/ WakeAborted(r) \/ TaskCancelled(r)
         \/ Deliver(r)
         \/ StartBackground(r) \/ SpawnFails(r) \/ EndBackground(r) \/ EndRequest(r)
    \/ GrantStep
    \/ Configure

Spec == Init /\ [][Next]_vars

(***************************************************************************)
(* Fairness: the event loop runs every callback and every ready task, a    *)
(* loop holding the lock completes, whoever keeps asking for the lock gets *)
(* it (hence SF: Configure may take it again and again), and a turn that   *)
(* runs ends (the stall guard, MAX_TIMEOUT or                              *)
(* BACKGROUND_RESPONSE_TIMEOUT_S ends one that does not end by itself).    *)
(* Nothing is assumed of clients, of admins, or of the queue timeout: a    *)
(* waiter must not need it to leave the queue.                             *)
(***************************************************************************)
RequestProgress(r) ==
    \/ Deliver(r)
    \/ WakeGranted(r)
    \/ WakeAborted(r)
    \/ EndBackground(r)
    \/ EndRequest(r)

Fairness ==
    /\ WF_vars(GrantStep)
    /\ \A r \in Requests : SF_vars(RequestProgress(r))

FairSpec == Spec /\ Fairness

-----------------------------------------------------------------------------
(* Properties. *)

\* The limits, the counters, the queue and the state each request has reached
\* (TurnLimiter, TurnSlot, _Waiter).
TypeOK ==
    /\ total \in Int /\ perUser \in Int /\ queueMax \in Int /\ queueOn \in BOOLEAN
    /\ inFlight \in Nat
    /\ byUser \in [Keys -> Nat]
    /\ waiters \in Seq(Requests)
    /\ scan \in Seq(Requests)
    /\ scheduled \subseteq Requests
    /\ future \in [Requests -> {"none", "pending", "result", "cancelled"}]
    /\ slot \in [Requests -> {"none", "held", "released"}]
    /\ stage \in [Requests -> {"arriving", "waiting", "running", "refused", "gone", "done"}]
    /\ aborted \subseteq Requests
    /\ transferred \subseteq Requests
    /\ background \in [Requests -> {"none", "running", "ended"}]

Holders == {r \in Requests : slot[r] = "held"}
HoldersOf(k) == {r \in Holders : UserOf[r] = k}

\* The two counters are exactly the slots that are out, whatever order grants,
\* timeouts, disconnects and releases fall in (TurnSlot.release is idempotent;
\* a slot delivered to nobody is returned by _resolve_waiter).
Accounting ==
    /\ inFlight = Cardinality(Holders)
    /\ \A k \in Keys : byUser[k] = Cardinality(HoldersOf(k))

\* acquire: a slot granted in the same instant as an abort is released, never
\* leaked; take_turn_slot: the slot has one party that will release it.
\* Whoever holds a slot, exactly one of these is due to give it back.
HasReleaser(r) ==
    \/ r \in scheduled /\ stage[r] # "running"
    \/ r \notin scheduled /\ stage[r] = "waiting" /\ future[r] = "result"
    \/ r \notin scheduled /\ stage[r] = "running" /\ r \notin transferred
    \/ r \notin scheduled /\ r \in transferred /\ background[r] = "running"
NoSlotLeaked == \A r \in Requests : slot[r] = "held" => HasReleaser(r)

\* try_acquire: "A waiter that could take a free slot has it already": when the
\* lock is free, whoever waits is blocked by a limit as it stands now.
WaitersAreBlocked ==
    LockFree => \A r \in ToSet(waiters) : Blocked(r)

\* A freed slot goes to the oldest waiter that can take it, and a new arrival
\* never jumps ahead of one: when r gets a slot, everybody ahead of it in the
\* queue (everybody, when r was not queued) is held back by its own per-user
\* cap alone.
Ahead(r) ==
    {w \in Requests : \E i \in DOMAIN waiters :
        /\ waiters[i] = w
        /\ \A j \in 1..i : waiters[j] # r}
NoOvertaking ==
    [][\A r \in Requests :
          slot[r] = "none" /\ slot'[r] = "held" => \A w \in Ahead(r) : UserFull(w)]_vars

\* configure: a lowered cap never cuts a running turn and admits nobody until
\* enough turns end; no interleaving of grants takes a slot beyond either cap.
WithinCaps ==
    [][\A r \in Requests :
          slot[r] = "none" /\ slot'[r] = "held" =>
             /\ total <= 0 \/ Cardinality(Holders') <= total
             /\ perUser <= 0 \/ ~Identified(r)
                  \/ Cardinality(HoldersOf(UserOf[r])') <= perUser]_vars

\* Every slot comes back, so capacity is never lost for the process lifetime.
SlotReturned == \A r \in Requests : slot[r] = "held" ~> slot[r] = "released"

-----------------------------------------------------------------------------
(***************************************************************************)
(* The inductive invariant behind Accounting, NoSlotLeaked and             *)
(* WaitersAreBlocked.  It says where a request can be at each point of its *)
(* life: which of the queue, the callback queue, the ASGI call and the     *)
(* background run it belongs to, and what its future and slot then are.    *)
(***************************************************************************)
Distinct(s) == \A i, j \in DOMAIN s : s[i] = s[j] => i = j

\* The queue and the loop over it.
QueueInv ==
    /\ Distinct(waiters)
    /\ Distinct(scan)
    /\ ToSet(scan) \subseteq ToSet(waiters)
    /\ \A r \in ToSet(waiters) :
         /\ stage[r] = "waiting" /\ future[r] = "pending" /\ slot[r] = "none"
         /\ r \notin scheduled

\* A waiter the loop has passed was blocked, and the counters only grow while
\* the loop runs.
PassedInv == \A r \in ToSet(waiters) \ ToSet(scan) : Blocked(r)

\* One request, by the stage its ASGI call has reached.
ArrivingInv(r) ==
    stage[r] = "arriving" =>
       slot[r] = "none" /\ r \notin scheduled /\ r \notin transferred /\ background[r] = "none"
WaitingInv(r) ==
    stage[r] = "waiting" =>
       /\ r \notin transferred /\ background[r] = "none"
       /\ \/ future[r] = "pending" /\ (r \in ToSet(waiters) \/ r \in scheduled)
          \/ future[r] = "result" /\ slot[r] = "held" /\ r \notin scheduled
RunningInv(r) ==
    stage[r] = "running" =>
       /\ r \notin scheduled
       /\ r \notin transferred => slot[r] = "held" /\ background[r] = "none"
ScheduledInv(r) ==
    r \in scheduled =>
       /\ slot[r] = "held" /\ r \notin transferred
       /\ \/ stage[r] = "waiting" /\ future[r] = "pending"
          \/ stage[r] \in {"refused", "gone"} /\ future[r] = "cancelled"
BackgroundInv(r) ==
    /\ background[r] = "running" => r \in transferred /\ slot[r] = "held"
    /\ r \in transferred => stage[r] \in {"running", "done"}

RequestInv ==
    \A r \in Requests :
       /\ ArrivingInv(r) /\ WaitingInv(r) /\ RunningInv(r)
       /\ ScheduledInv(r) /\ BackgroundInv(r)

IInv ==
    TypeOK /\ QueueInv /\ PassedInv /\ RequestInv /\ Accounting /\ NoSlotLeaked

-----------------------------------------------------------------------------
\* The keys of the instance TLC checks: one request carries no user, the
\* others belong to one user.
OneAnonymous ==
    LET a == CHOOSE r \in Requests : TRUE
    IN  [r \in Requests |-> IF r = a THEN Anonymous ELSE CHOOSE u \in Users : TRUE]
=============================================================================

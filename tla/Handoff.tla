------------------------------ MODULE Handoff ------------------------------
(***************************************************************************)
(* Two gateway instances during a deploy and one session id: where a       *)
(* request goes.  The routing loop of src/handoff/middleware.py (_route,   *)
(* _attempt, _ask_release, _local, _forward), the owner lock it reads      *)
(* (src/handoff/owners.py), the drain (src/handoff/drain.py) and the       *)
(* liveness of instances (src/instance_registry.py).                       *)
(*                                                                         *)
(* What happens inside the session manager is SessionManager's business,   *)
(* what happens on a broken connection is Dispatch's; here a session is in *)
(* an instance's cache, idle or at work, and an older object of it may     *)
(* still be on its way out, holding the owner lock.                        *)
(***************************************************************************)
EXTENDS Naturals

CONSTANTS Instances, Requests, None, Gone

ASSUME HandoffAssumption == None \notin Instances /\ Gone \notin Instances \cup {None}

VARIABLES
    alive,    \* instances that run
    lock,     \* who holds the owner lock of the session
    cached,   \* per instance: the session in its cache ("out", "idle", "busy", "card")
    leaving,  \* per instance: objects on their way out ("removed", "drained" by the release
              \* loop, "lost" when that loop was cancelled in between)
    drainTo,  \* drain_state.target, or Gone once the process it named is dead
    req       \* each request: its kind ("new", "turn" for a continuation, "other" when bound
              \* to the session), the instance it came to (at), the one it is sent on to or
              \* asks (to), whether HANDOFF_DEADLINE has passed (late), and where it is (pc)

sessionVars == <<alive, lock, cached, leaving, drainTo>>
vars == <<sessionVars, req>>

Fresh == [kind |-> "new", at |-> None, to |-> None, late |-> FALSE, pc |-> "idle"]
Answered == [Fresh EXCEPT !.pc = "answered"]

Init ==
    /\ alive = Instances /\ lock = None
    /\ cached = [i \in Instances |-> "out"]
    /\ leaving = [i \in Instances |-> {}]
    /\ drainTo = [i \in Instances |-> None]
    /\ req = [q \in Requests |-> Fresh]

Draining(i) == drainTo[i] # None

\* A request goes on; it forgets whom it asked when it decides anew.
Goto(q, label) ==
    req' = [req EXCEPT ![q].pc = label, ![q].to = IF label \in {"wait", "decide"} THEN None ELSE @]
Ask(q, i, label) == req' = [req EXCEPT ![q].pc = label, ![q].to = i]
Answer(q) == req' = [req EXCEPT ![q] = Answered]

-----------------------------------------------------------------------------
(* Routing. *)

Arrive(q) ==
    /\ req[q] = Fresh
    /\ \E i \in alive, k \in {"new", "turn", "other"} :
          req' = [req EXCEPT ![q].at = i, ![q].kind = k, ![q].pc = "decide"]
    /\ UNCHANGED sessionVars

\* live_target, then _forward.  The process at i runs, so i is not Gone.
SendTo(q, i) == IF i \in alive THEN Ask(q, i, "remote") ELSE Goto(q, "wait")

\* Nobody holds the session, or there is none yet.
Unowned(q) ==
    IF Draining(req[q].at) THEN SendTo(q, drainTo[req[q].at])
    ELSE Goto(q, "local")

\* _attempt.
Decide(q) ==
    LET i == req[q].at IN
    /\ req[q].pc = "decide"
    /\ \/ req[q].kind = "new" /\ Unowned(q)
       \/ req[q].kind # "new" /\ cached[i] # "out" /\ Goto(q, "local")
       \/ req[q].kind # "new" /\ cached[i] = "out" /\ lock = None /\ Unowned(q)
       \/ req[q].kind # "new" /\ cached[i] = "out" /\ lock = i /\ Goto(q, "wait")
       \/ /\ req[q].kind # "new" /\ cached[i] = "out" /\ lock \notin {None, i}
          /\ \/ req[q].kind = "turn" /\ ~Draining(i) /\ Ask(q, lock, "asking")
             \/ (req[q].kind = "other" \/ Draining(i)) /\ SendTo(q, lock)
             \* owner() or lookup() finds the holder unreadable
             \/ Goto(q, "wait")
    /\ UNCHANGED sessionVars

\* release_for_handoff at the owner: absent (decide again, at once), busy, or
\* given up, which takes a while.
ReleaseAsked(q) ==
    LET j == req[q].to IN
    /\ req[q].pc = "asking"
    /\ \/ cached[j] = "out" /\ Goto(q, "decide") /\ UNCHANGED <<cached, leaving>>
       \/ cached[j] \in {"busy", "card"} /\ Goto(q, "remote") /\ UNCHANGED <<cached, leaving>>
       \/ /\ cached[j] = "idle" /\ "removed" \notin leaving[j]
          /\ cached' = [cached EXCEPT ![j] = "out"]
          /\ leaving' = [leaving EXCEPT ![j] = @ \cup {"removed"}]
          /\ Goto(q, "releasing")
       \/ Goto(q, "remote") /\ UNCHANGED <<cached, leaving>>  \* no answer
    /\ UNCHANGED <<alive, lock, drainTo>>

\* "released", or no answer within _RELEASE_TIMEOUT.
ReleaseAnswered(q) ==
    /\ req[q].pc = "releasing"
    /\ \/ "removed" \notin leaving[req[q].to] /\ Goto(q, "decide")
       \/ Goto(q, "remote")
    /\ UNCHANGED sessionVars

\* The instance whose app has the request.
Server(q) == IF req[q].pc = "local" THEN req[q].at ELSE req[q].to

\* Mutant: the owner lock is not asked.
OpensAnyway(j) == cached[j] = "out" /\ ~Draining(j)

\* _take_ownership_locked.
Opens(j) == cached[j] = "out" /\ ~Draining(j) /\ lock \in {None, j}

\* Session.lock: a turn waits while another one runs.
Free(j) == cached[j] \in {"idle", "card"}

\* The app: a turn runs on the session once it is there and free, or opens it;
\* it is answered when there is nothing to resume, and refused with 421 before
\* any work when it may not open it or was waiting on the lock of an object
\* that was handed over.  The other requests are answered.
Serve(q) ==
    LET j == Server(q) IN
    /\ req[q].pc \in {"local", "remote"}
    /\ \/ /\ req[q].kind = "new"
          /\ IF Draining(j) THEN Goto(q, "wait") ELSE Answer(q)
          /\ UNCHANGED <<cached, lock>>
       \/ req[q].kind = "other" /\ Answer(q) /\ UNCHANGED <<cached, lock>>
       \/ /\ req[q].kind = "turn" /\ (Free(j) \/ Opens(j))
          /\ lock' = IF Opens(j) THEN j ELSE lock
          /\ cached' = [cached EXCEPT ![j] = "busy"]
          /\ Goto(q, IF req[q].pc = "local" THEN "runLocal" ELSE "runRemote")
       \/ /\ req[q].kind = "turn" /\ cached[j] = "out"
          /\ Answer(q) \/ Goto(q, "wait")
          /\ UNCHANGED <<cached, lock>>
    /\ UNCHANGED <<alive, leaving, drainTo>>

\* The turn ends, or pauses on a card; one whose session was deleted just ends.
Runner(q) == IF req[q].pc = "runLocal" THEN req[q].at ELSE req[q].to
Runs(q) == req[q].pc \in {"runLocal", "runRemote"}
EndTurn(q) ==
    /\ \/ Runs(q) /\ \E s \in {"idle", "card"} : cached' = [cached EXCEPT ![Runner(q)] = s]
       \/ req[q].pc = "stopped" /\ UNCHANGED cached
    /\ Answer(q)
    /\ UNCHANGED <<alive, lock, leaving, drainTo>>

\* A forward that fails: nothing was sent or the owner took nothing (decided
\* anew), or nobody knows (forward_interrupted; Dispatch has the whole story).
ForwardFails(q) ==
    /\ req[q].pc \in {"remote", "cut"}
    /\ Goto(q, "wait") \/ Answer(q)
    /\ UNCHANGED sessionVars

\* Mutant: the deadline is not looked at.
WaitForever(q) ==
    /\ req[q].pc = "wait"
    /\ Goto(q, "decide")
    /\ UNCHANGED sessionVars

\* The end of the loop's body: a backoff, or 503 past the deadline.
Wait(q) ==
    /\ req[q].pc = "wait"
    /\ IF req[q].late THEN Answer(q) ELSE Goto(q, "decide")
    /\ UNCHANGED sessionVars

DeadlinePasses(q) ==
    /\ req[q].pc \notin {"idle", "answered"} /\ ~req[q].late
    /\ req' = [req EXCEPT ![q].late = TRUE]
    /\ UNCHANGED sessionVars

-----------------------------------------------------------------------------
(* The session leaves an instance. *)

\* A card times out.
CardExpires(i) ==
    /\ cached[i] = "card"
    /\ cached' = [cached EXCEPT ![i] = "idle"]
    /\ UNCHANGED <<alive, lock, leaving, drainTo, req>>

\* Mutant: nobody looks whether the session is at work.
TakeOutBusy(i, how) ==
    /\ cached[i] # "out" /\ how \notin leaving[i]
    /\ cached' = [cached EXCEPT ![i] = "out"]
    /\ leaving' = [leaving EXCEPT ![i] = @ \cup {how}]
    /\ UNCHANGED <<alive, lock, drainTo, req>>

\* The idle session leaves the cache.
TakeOut(i, how) ==
    /\ cached[i] = "idle" /\ how \notin leaving[i]
    /\ cached' = [cached EXCEPT ![i] = "out"]
    /\ leaving' = [leaving EXCEPT ![i] = @ \cup {how}]
    /\ UNCHANGED <<alive, lock, drainTo, req>>

\* An expiry or an eviction.
Remove(i) == TakeOut(i, "removed")

\* Mutant: the loop pauses while its target is not there.
DrainReleasesPauses(i) == drainTo[i] \in alive /\ TakeOut(i, "drained")

\* The release loop of a drain.
DrainReleases(i) == Draining(i) /\ TakeOut(i, "drained")

\* A delete, which does not ask whether a turn runs: its CLI is stopped.
Delete(i) ==
    /\ cached[i] # "out" /\ "removed" \notin leaving[i]
    /\ cached' = [cached EXCEPT ![i] = "out"]
    /\ leaving' = [leaving EXCEPT ![i] = @ \cup {"removed"}]
    /\ req' = [q \in Requests |->
          IF Runs(q) /\ Runner(q) = i THEN [req[q] EXCEPT !.pc = "stopped"] ELSE req[q]]
    /\ UNCHANGED <<alive, lock, drainTo>>

\* Mutant: the lock goes with the old object, whoever uses it now.
ReleaseLast(i) == lock' = None

\* OwnerLocks.release: the last token of the process gives the lock up.
Release(i) == lock' = IF cached[i] = "out" /\ leaving'[i] = {} THEN None ELSE lock

\* A teardown ends.
Left(i, how) ==
    /\ how \in leaving[i] \ {"lost"}
    /\ leaving' = [leaving EXCEPT ![i] = @ \ {how}]
    /\ Release(i)
    /\ UNCHANGED <<alive, cached, drainTo, req>>

\* DrainState.start (also re-targets) and stop, which cancels the release loop
\* wherever it waits.
DrainStart(i, j) ==
    /\ i \in alive /\ j \in alive /\ i # j /\ drainTo[i] # j
    /\ drainTo' = [drainTo EXCEPT ![i] = j]
    /\ UNCHANGED <<alive, lock, cached, leaving, req>>

\* What release_for_handoff, cancelled at an await, leaves behind.
Stranded(objects) == IF "drained" \in objects THEN (objects \ {"drained"}) \cup {"lost"} ELSE objects
DrainStop(i) ==
    /\ Draining(i)
    /\ drainTo' = [drainTo EXCEPT ![i] = None]
    /\ leaving' = [leaving EXCEPT ![i] = Stranded(@)]
    /\ UNCHANGED <<alive, lock, cached, req>>

\* The requests that end with the process i, and those that wait on it.
Ends(q, i) == req[q].at = i /\ ~(Runs(q) /\ Runner(q) # i)
Cut(q, i) == req[q].to = i /\ req[q].pc \in {"asking", "releasing", "remote", "runRemote"}

\* An instance dies: the kernel drops its locks, its connections end.  A turn
\* it had sent elsewhere goes on there.
Crash(i) ==
    /\ i \in alive
    /\ alive' = alive \ {i}
    /\ lock' = IF lock = i THEN None ELSE lock
    /\ cached' = [cached EXCEPT ![i] = "out"]
    /\ leaving' = [leaving EXCEPT ![i] = {}]
    /\ drainTo' = [d \in Instances |->
          IF d = i THEN None ELSE IF drainTo[d] = i THEN Gone ELSE drainTo[d]]
    /\ req' = [q \in Requests |->
          IF Ends(q, i) THEN Answered
          ELSE IF Cut(q, i) THEN [req[q] EXCEPT !.pc = "cut"] ELSE req[q]]

\* register.
Boot(i) ==
    /\ i \notin alive
    /\ alive' = alive \cup {i}
    /\ UNCHANGED <<lock, cached, leaving, drainTo, req>>

-----------------------------------------------------------------------------
RequestStep(q) ==
    \/ Arrive(q) \/ Decide(q) \/ ReleaseAsked(q) \/ ReleaseAnswered(q) \/ Serve(q) \/ EndTurn(q)
    \/ ForwardFails(q) \/ Wait(q) \/ DeadlinePasses(q)
InstanceStep(i) ==
    \/ CardExpires(i) \/ Remove(i) \/ DrainReleases(i) \/ Delete(i) \/ DrainStop(i)
    \/ (\E how \in {"removed", "drained"} : Left(i, how))
    \/ Crash(i) \/ Boot(i) \/ \E j \in Instances : DrainStart(i, j)
Next == (\E q \in Requests : RequestStep(q)) \/ (\E i \in Instances : InstanceStep(i))

Spec == Init /\ [][Next]_vars

\* Fairness: every request takes its next step and its deadline passes, every
\* turn ends, every card and every teardown too, and the release loop runs.
Routed(q) ==
    \/ Decide(q) \/ ReleaseAsked(q) \/ ReleaseAnswered(q) \/ Serve(q) \/ EndTurn(q)
    \/ (req[q].pc = "cut" /\ ForwardFails(q)) \/ Wait(q)
Fairness ==
    /\ \A q \in Requests : WF_vars(Routed(q)) /\ WF_vars(DeadlinePasses(q))
    /\ \A i \in Instances :
          /\ WF_vars(CardExpires(i)) /\ WF_vars(DrainReleases(i))
          /\ \A how \in {"removed", "drained"} : WF_vars(Left(i, how))
FairSpec == Spec /\ Fairness

-----------------------------------------------------------------------------
(* Properties. *)

Labels == {"idle", "decide", "asking", "releasing", "local", "remote", "runLocal", "runRemote",
           "stopped", "cut", "wait", "answered"}
\* Instances, the session in each cache, drain targets and requests; the code
\* forwards only to a process that may be there (live_target).
TypeOK ==
    /\ alive \subseteq Instances /\ lock \in Instances \cup {None}
    /\ cached \in [Instances -> {"out", "idle", "busy", "card"}]
    /\ leaving \in [Instances -> SUBSET {"removed", "drained", "lost"}]
    /\ drainTo \in [Instances -> Instances \cup {None, Gone}]
    /\ req \in [Requests -> [kind : {"new", "turn", "other"}, at : Instances \cup {None},
                            to : Instances \cup {None}, late : BOOLEAN, pc : Labels]]

\* OwnerLocks, _take_ownership_locked, _release_session_dirs: the session, its
\* objects on their way out included, lives in one instance, which holds its
\* owner lock; and the lock is held only for such an object.
OneHolder ==
    \A i \in Instances : (cached[i] # "out" \/ leaving[i] # {}) <=> lock = i

\* SessionLock, release_for_handoff: a turn runs in the instance that holds the
\* session, which stays there meanwhile, and no other turn runs anywhere.
TurnsAreExclusive ==
    /\ TypeOK /\ OneHolder
    /\ \A q \in Requests : Runs(q) =>
       /\ lock = Runner(q) /\ cached[Runner(q)] = "busy"
       /\ \A p \in Requests \ {q} : ~Runs(p)

\* _take_ownership_locked, release: ownership moves as OneOwner says, which is
\* what OwnerLocks implements.
Ownership == INSTANCE OneOwner WITH Procs <- Instances, holder <- lock
KeepsOwnership == Ownership!Spec

\* DrainState._release_loop: an instance that keeps draining ends up without
\* the session and without its lock, unless an earlier stop left the lock behind.
DrainEmpties ==
    \A i \in Instances :
       <>[]Draining(i) =>
          <>[](cached[i] = "out" /\ (lock = i => "lost" \in leaving[i]))

\* _route: every request is answered, unless a stop of the drain left the
\* session's lock behind.
AnsweredUnlessLost ==
    \A q \in Requests :
       req[q].pc = "decide" ~> (req[q].pc = "answered" \/ \E i \in Instances : "lost" \in leaving[i])
=============================================================================

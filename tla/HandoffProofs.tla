---------------------------- MODULE HandoffProofs ----------------------------
(***************************************************************************)
(* Proofs about Handoff for any number of instances and requests: a turn   *)
(* runs alone, in the instance that has the session and its owner lock,    *)
(* and the lock changes hands as OneOwner says, through crashes, deletes,  *)
(* drains and their stops.                                                 *)
(*                                                                         *)
(* The invariant adds to TurnsAreExclusive where a request is: it is at an *)
(* instance from its arrival to its answer, and the one it asks or was     *)
(* sent to is an instance.  Without it a turn could run "nowhere", in an   *)
(* instance None whose lock nobody holds.                                  *)
(***************************************************************************)
EXTENDS Handoff, TLAPS

ReqType == [kind : {"new", "turn", "other"}, at : Instances \cup {None},
            to : Instances \cup {None}, late : BOOLEAN, pc : Labels]

\* Where a request is and whom it asks.
Placed(q) ==
    /\ req[q].pc \notin {"idle", "answered"} => req[q].at \in Instances
    /\ req[q].pc \in {"asking", "releasing", "remote", "runRemote"} => req[q].to \in Instances

\* A turn runs where the session is.
RunsAtHome(q) == Runs(q) => lock = Runner(q) /\ cached[Runner(q)] = "busy"

RequestOK(q) == Placed(q) /\ RunsAtHome(q) /\ \A p \in Requests \ {q} : ~(Runs(p) /\ Runs(q))

IInv == TypeOK /\ OneHolder /\ \A q \in Requests : RequestOK(q)

\* What a step of instance i may do to the lock.
LockStep(i) == lock' = lock \/ (lock = None /\ lock' = i) \/ (lock = i /\ lock' = None)
LockMoves == lock' = lock \/ \E i \in Instances : LockStep(i)

-----------------------------------------------------------------------------
\* A running turn is in an instance, the one that holds the lock.
LEMMA RunnerIsHolder ==
    ASSUME IInv, NEW q \in Requests, Runs(q)
    PROVE  Runner(q) \in Instances /\ lock = Runner(q) /\ cached[Runner(q)] = "busy"
  BY DEF IInv, RequestOK, Placed, RunsAtHome, Runs, Runner

\* A step that starts no turn and leaves the session of the running one alone.
LEMMA UndisturbedTurns ==
    ASSUME IInv, TypeOK', OneHolder', \A p \in Requests : Placed(p)',
           \A p \in Requests : Runs(p)' =>
              /\ Runs(p) /\ Runner(p)' = Runner(p)
              /\ lock' = lock /\ cached'[Runner(p)] = cached[Runner(p)]
    PROVE  IInv'
<1>1. ASSUME NEW p \in Requests PROVE RunsAtHome(p)'
  BY DEF IInv, RequestOK, RunsAtHome
<1>2. ASSUME NEW p \in Requests, NEW r \in Requests \ {p} PROVE ~(Runs(r) /\ Runs(p))'
  BY DEF IInv, RequestOK
<1>3. QED
  BY <1>1, <1>2 DEF IInv, RequestOK

\* A step of q that leaves the session alone.
LEMMA QuietStep ==
    ASSUME IInv, NEW q \in Requests, UNCHANGED <<alive, lock, cached, leaving, drainTo>>,
           req' \in [Requests -> ReqType],
           \A p \in Requests \ {q} : req'[p] = req[p],
           Placed(q)', Runs(q)' => Runs(q) /\ Runner(q)' = Runner(q)
    PROVE  IInv'
<1>1. TypeOK' /\ OneHolder'
  BY DEF IInv, TypeOK, OneHolder, ReqType
<1>2. \A p \in Requests : Runs(p)' => Runs(p) /\ Runner(p)' = Runner(p)
  BY DEF Runs, Runner
<1>3. \A p \in Requests : Placed(p)'
  BY DEF IInv, RequestOK, Placed
<1>4. QED
  BY <1>1, <1>2, <1>3, UndisturbedTurns

\* Goto, Ask and Answer keep the requests typed and the others where they are.
LEMMA GotoStep ==
    ASSUME TypeOK, NEW q \in Requests, NEW label \in Labels, Goto(q, label)
    PROVE  /\ req' \in [Requests -> ReqType]
           /\ \A p \in Requests \ {q} : req'[p] = req[p]
           /\ req'[q].pc = label /\ req'[q].at = req[q].at /\ req'[q].kind = req[q].kind
           /\ req'[q].to = IF label \in {"wait", "decide"} THEN None ELSE req[q].to
<1> USE DEF ReqType
<1>1. req \in [Requests -> ReqType] /\ req[q] \in ReqType
  BY DEF TypeOK
<1>2. req' = [req EXCEPT ![q] =
         [req[q] EXCEPT !.pc = label,
                        !.to = IF label \in {"wait", "decide"} THEN None ELSE req[q].to]]
  BY <1>1 DEF Goto
<1>3. QED
  BY <1>1, <1>2

LEMMA AskStep ==
    ASSUME TypeOK, NEW q \in Requests, NEW i \in Instances, NEW label \in Labels, Ask(q, i, label)
    PROVE  /\ req' \in [Requests -> ReqType]
           /\ \A p \in Requests \ {q} : req'[p] = req[p]
           /\ req'[q].pc = label /\ req'[q].at = req[q].at /\ req'[q].to = i
<1> USE DEF ReqType
<1>1. req \in [Requests -> ReqType] /\ req[q] \in ReqType
  BY DEF TypeOK
<1>2. req' = [req EXCEPT ![q] = [req[q] EXCEPT !.pc = label, !.to = i]]
  BY <1>1 DEF Ask
<1>3. QED
  BY <1>1, <1>2

LEMMA AnswerStep ==
    ASSUME TypeOK, NEW q \in Requests, Answer(q)
    PROVE  /\ req' \in [Requests -> ReqType]
           /\ \A p \in Requests \ {q} : req'[p] = req[p]
           /\ req'[q].pc = "answered"
<1>1. Answered \in ReqType /\ Answered.pc = "answered"
  BY DEF Answered, Fresh, ReqType, Labels
<1>2. QED
  BY <1>1 DEF TypeOK, Answer, ReqType

\* A request that goes on, asks an instance or is answered, and nothing else.
LEMMA QuietGoto ==
    ASSUME IInv, NEW q \in Requests,
           NEW label \in {"decide", "releasing", "local", "remote", "wait"},
           Goto(q, label), req[q].at \in Instances,
           label \in {"releasing", "remote"} => req[q].to \in Instances,
           UNCHANGED sessionVars
    PROVE  IInv'
<1>1. TypeOK /\ label \in Labels
  BY DEF IInv, Labels
<1>2. Placed(q)' /\ ~Runs(q)'
  BY <1>1, GotoStep DEF Placed, Runs
<1>3. QED
  BY <1>1, <1>2, GotoStep, QuietStep DEF sessionVars

LEMMA QuietAsk ==
    ASSUME IInv, NEW q \in Requests, NEW i \in Instances, NEW label \in {"asking", "remote"},
           Ask(q, i, label), req[q].at \in Instances, UNCHANGED sessionVars
    PROVE  IInv'
<1>1. TypeOK /\ label \in Labels
  BY DEF IInv, Labels
<1>2. Placed(q)' /\ ~Runs(q)'
  BY <1>1, AskStep DEF Placed, Runs
<1>3. QED
  BY <1>1, <1>2, AskStep, QuietStep DEF sessionVars

LEMMA QuietAnswer ==
    ASSUME IInv, NEW q \in Requests, Answer(q), UNCHANGED sessionVars
    PROVE  IInv'
<1>1. TypeOK
  BY DEF IInv
<1>2. Placed(q)' /\ ~Runs(q)'
  BY <1>1, AnswerStep DEF Placed, Runs
<1>3. QED
  BY <1>1, <1>2, AnswerStep, QuietStep DEF sessionVars

-----------------------------------------------------------------------------
(* Routing. *)

LEMMA ArriveStep ==
    ASSUME IInv, NEW q \in Requests, Arrive(q) PROVE IInv' /\ LockMoves
<1>1. PICK i \in alive, k \in {"new", "turn", "other"} :
          req' = [req EXCEPT ![q].at = i, ![q].kind = k, ![q].pc = "decide"]
  BY DEF Arrive
<1>2. i \in Instances /\ req \in [Requests -> ReqType] /\ req[q] \in ReqType
  BY DEF IInv, TypeOK, ReqType
<1>3. req'[q] = [req[q] EXCEPT !.at = i, !.kind = k, !.pc = "decide"]
  BY <1>1, <1>2 DEF ReqType
<1>4. req'[q] \in ReqType /\ req'[q].at = i /\ req'[q].pc = "decide"
  <2>1. ASSUME NEW r \in ReqType
        PROVE  [r EXCEPT !.at = i, !.kind = k, !.pc = "decide"] \in ReqType
    BY <1>2 DEF ReqType, Labels
  <2>2. QED
    BY <1>2, <1>3, <2>1 DEF ReqType
<1>5. req' \in [Requests -> ReqType] /\ \A p \in Requests \ {q} : req'[p] = req[p]
  BY <1>1, <1>2, <1>4 DEF ReqType
<1>6. Placed(q)' /\ ~Runs(q)'
  BY <1>2, <1>4 DEF Placed, Runs
<1>7. QED
  BY <1>5, <1>6, QuietStep DEF Arrive, sessionVars, LockMoves

LEMMA SendToStep ==
    ASSUME IInv, NEW q \in Requests, NEW i, SendTo(q, i), req[q].at \in Instances,
           UNCHANGED sessionVars
    PROVE  IInv'
<1>1. CASE i \in alive
  <2>1. i \in Instances
    BY <1>1 DEF IInv, TypeOK
  <2>2. QED
    BY <1>1, <2>1, QuietAsk DEF SendTo
<1>2. CASE i \notin alive
  BY <1>2, QuietGoto DEF SendTo
<1>3. QED
  BY <1>1, <1>2

LEMMA DecideStep ==
    ASSUME IInv, NEW q \in Requests, Decide(q) PROVE IInv' /\ LockMoves
<1>1. req[q].at \in Instances /\ UNCHANGED sessionVars
  BY DEF Decide, IInv, RequestOK, Placed
<1>2. ASSUME Unowned(q) PROVE IInv'
  BY <1>1, <1>2, SendToStep, QuietGoto DEF Unowned
<1>3. ASSUME NEW label \in {"local", "wait"}, Goto(q, label) PROVE IInv'
  BY <1>1, <1>3, QuietGoto
<1>4. ASSUME lock \notin {None, req[q].at}, Ask(q, lock, "asking") PROVE IInv'
  <2>1. lock \in Instances
    BY <1>4 DEF IInv, TypeOK
  <2>2. QED
    BY <1>1, <1>4, <2>1, QuietAsk
<1>5. ASSUME SendTo(q, lock) PROVE IInv'
  BY <1>1, <1>5, SendToStep
<1>6. QED
  BY <1>1, <1>2, <1>3, <1>4, <1>5 DEF Decide, LockMoves, sessionVars

LEMMA ReleaseAskedStep ==
    ASSUME IInv, NEW q \in Requests, ReleaseAsked(q) PROVE IInv' /\ LockMoves
<1> DEFINE j == req[q].to
<1>1. req[q].at \in Instances /\ j \in Instances /\ ~Runs(q) /\ TypeOK
  BY DEF ReleaseAsked, IInv, RequestOK, Placed, Runs
<1>2. UNCHANGED <<alive, lock, drainTo>>
  BY DEF ReleaseAsked
<1>3. ASSUME NEW label \in {"decide", "remote"}, Goto(q, label), UNCHANGED <<cached, leaving>>
      PROVE  IInv'
  BY <1>1, <1>2, <1>3, QuietGoto DEF sessionVars
<1>4. ASSUME cached[j] = "idle", cached' = [cached EXCEPT ![j] = "out"],
             leaving' = [leaving EXCEPT ![j] = @ \cup {"removed"}], Goto(q, "releasing")
      PROVE  IInv'
  <2>1. /\ req' \in [Requests -> ReqType] /\ \A p \in Requests \ {q} : req'[p] = req[p]
        /\ req'[q].pc = "releasing" /\ req'[q].at = req[q].at /\ req'[q].to = j
    BY <1>1, <1>4, GotoStep DEF Labels
  <2>2. TypeOK'
    BY <1>1, <1>2, <1>4, <2>1 DEF TypeOK, ReqType
  <2>3. OneHolder'
    BY <1>1, <1>2, <1>4 DEF IInv, OneHolder, TypeOK
  <2>4. \A p \in Requests : Placed(p)'
    BY <1>1, <2>1 DEF IInv, RequestOK, Placed
  <2>5. ASSUME NEW p \in Requests, Runs(p)'
        PROVE  /\ Runs(p) /\ Runner(p)' = Runner(p)
               /\ lock' = lock /\ cached'[Runner(p)] = cached[Runner(p)]
    <3>1. p # q /\ Runs(p) /\ Runner(p)' = Runner(p)
      BY <2>1, <2>5 DEF Runs, Runner
    <3>2. Runner(p) \in Instances /\ cached[Runner(p)] = "busy"
      BY <3>1, RunnerIsHolder
    <3>3. QED
      BY <1>1, <1>2, <1>4, <3>1, <3>2 DEF TypeOK
  <2>6. QED
    BY <2>2, <2>3, <2>4, <2>5, UndisturbedTurns
<1>5. QED
  BY <1>2, <1>3, <1>4 DEF ReleaseAsked, LockMoves

LEMMA ReleaseAnsweredStep ==
    ASSUME IInv, NEW q \in Requests, ReleaseAnswered(q) PROVE IInv' /\ LockMoves
<1>1. /\ req[q].at \in Instances /\ req[q].to \in Instances
      /\ UNCHANGED sessionVars /\ (Goto(q, "decide") \/ Goto(q, "remote"))
  BY DEF ReleaseAnswered, IInv, RequestOK, Placed
<1>2. QED
  BY <1>1, QuietGoto DEF LockMoves, sessionVars

LEMMA ForwardFailsStep ==
    ASSUME IInv, NEW q \in Requests, ForwardFails(q) PROVE IInv' /\ LockMoves
<1>1. req[q].at \in Instances /\ UNCHANGED sessionVars /\ (Goto(q, "wait") \/ Answer(q))
  BY DEF ForwardFails, IInv, RequestOK, Placed
<1>2. QED
  BY <1>1, QuietGoto, QuietAnswer DEF LockMoves, sessionVars

LEMMA WaitStep ==
    ASSUME IInv, NEW q \in Requests, Wait(q) PROVE IInv' /\ LockMoves
<1>1. req[q].at \in Instances /\ UNCHANGED sessionVars /\ (Answer(q) \/ Goto(q, "decide"))
  BY DEF Wait, IInv, RequestOK, Placed
<1>2. QED
  BY <1>1, QuietGoto, QuietAnswer DEF LockMoves, sessionVars

LEMMA DeadlinePassesStep ==
    ASSUME IInv, NEW q \in Requests, DeadlinePasses(q) PROVE IInv' /\ LockMoves
<1>1. req \in [Requests -> ReqType] /\ req[q] \in ReqType
  BY DEF IInv, TypeOK, ReqType
<1>2. req' = [req EXCEPT ![q] = [req[q] EXCEPT !.late = TRUE]]
  BY <1>1 DEF DeadlinePasses
<1>3. /\ req' \in [Requests -> ReqType] /\ \A p \in Requests \ {q} : req'[p] = req[p]
      /\ req'[q].pc = req[q].pc /\ req'[q].at = req[q].at /\ req'[q].to = req[q].to
  BY <1>1, <1>2 DEF ReqType
<1>4. Placed(q)' /\ (Runs(q)' => Runs(q) /\ Runner(q)' = Runner(q))
  BY <1>3 DEF IInv, RequestOK, Placed, Runs, Runner
<1>5. QED
  BY <1>3, <1>4, QuietStep DEF DeadlinePasses, sessionVars, LockMoves

\* A turn begins: the session was idle here, or was nowhere and is opened here.
LEMMA TurnBegins ==
    ASSUME IInv, NEW q \in Requests, NEW j \in Instances, j = Server(q),
           req[q].pc \in {"local", "remote"}, Free(j) \/ Opens(j),
           lock' = (IF Opens(j) THEN j ELSE lock),
           cached' = [cached EXCEPT ![j] = "busy"],
           Goto(q, IF req[q].pc = "local" THEN "runLocal" ELSE "runRemote"),
           UNCHANGED <<alive, leaving, drainTo>>
    PROVE  IInv' /\ LockMoves
<1>1. TypeOK /\ OneHolder /\ req[q].at \in Instances /\ (req[q].pc = "remote" => req[q].to \in Instances)
  BY DEF IInv, RequestOK, Placed
<1>2. PICK label \in {"runLocal", "runRemote"} :
         Goto(q, label) /\ (label = "runLocal" <=> req[q].pc = "local")
  OBVIOUS
<1>3. /\ req' \in [Requests -> ReqType] /\ \A p \in Requests \ {q} : req'[p] = req[p]
      /\ req'[q].pc = label /\ req'[q].at = req[q].at /\ req'[q].to = req[q].to
  BY <1>1, <1>2, GotoStep DEF Labels
<1>4. lock' = j /\ lock \in {None, j} /\ cached[j] # "busy"
  BY <1>1 DEF Free, Opens, OneHolder, TypeOK
<1>5. TypeOK'
  BY <1>1, <1>3, <1>4 DEF TypeOK, ReqType
<1>6. OneHolder'
  BY <1>1, <1>4, HandoffAssumption DEF OneHolder, TypeOK
<1>7. \A p \in Requests : Placed(p)'
  BY <1>1, <1>2, <1>3 DEF IInv, RequestOK, Placed
<1>8. Runner(q)' = j /\ cached'[j] = "busy"
  BY <1>1, <1>2, <1>3 DEF Runner, Server, TypeOK
<1>9. ASSUME NEW p \in Requests \ {q} PROVE ~Runs(p) /\ ~Runs(p)'
  <2>1. ~Runs(p)
    BY <1>4, RunnerIsHolder, HandoffAssumption
  <2>2. QED
    BY <1>3, <2>1 DEF Runs
<1>10. QED
  BY <1>4, <1>5, <1>6, <1>7, <1>8, <1>9 DEF IInv, RequestOK, RunsAtHome, LockMoves, LockStep

LEMMA ServeStep ==
    ASSUME IInv, NEW q \in Requests, Serve(q) PROVE IInv' /\ LockMoves
<1> DEFINE j == Server(q)
<1>1. req[q].pc \in {"local", "remote"} /\ req[q].at \in Instances /\ j \in Instances
  BY DEF Serve, IInv, RequestOK, Placed, Server
<1>2. UNCHANGED <<alive, leaving, drainTo>>
  BY DEF Serve
<1>3. ASSUME Goto(q, "wait") \/ Answer(q), UNCHANGED <<cached, lock>> PROVE IInv' /\ LockMoves
  BY <1>1, <1>2, <1>3, QuietGoto, QuietAnswer DEF sessionVars, LockMoves
<1>4. ASSUME Free(j) \/ Opens(j), lock' = (IF Opens(j) THEN j ELSE lock),
             cached' = [cached EXCEPT ![j] = "busy"],
             Goto(q, IF req[q].pc = "local" THEN "runLocal" ELSE "runRemote")
      PROVE  IInv' /\ LockMoves
  BY <1>1, <1>2, <1>4, TurnBegins
<1>5. QED
  BY <1>3, <1>4 DEF Serve

LEMMA EndTurnStep ==
    ASSUME IInv, NEW q \in Requests, EndTurn(q) PROVE IInv' /\ LockMoves
<1>1. UNCHANGED <<alive, lock, leaving, drainTo>> /\ Answer(q) /\ TypeOK /\ OneHolder
  BY DEF EndTurn, IInv
<1>2. CASE UNCHANGED cached
  BY <1>1, <1>2, QuietAnswer DEF sessionVars, LockMoves
<1>3. ASSUME Runs(q), NEW s \in {"idle", "card"}, cached' = [cached EXCEPT ![Runner(q)] = s]
      PROVE  IInv'
  <2>1. Runner(q) \in Instances /\ lock = Runner(q) /\ cached[Runner(q)] = "busy"
    BY <1>3, RunnerIsHolder
  <2>2. /\ req' \in [Requests -> ReqType] /\ \A p \in Requests \ {q} : req'[p] = req[p]
        /\ req'[q].pc = "answered"
    BY <1>1, AnswerStep
  <2>3. TypeOK' /\ OneHolder'
    BY <1>1, <1>3, <2>1, <2>2 DEF TypeOK, OneHolder, ReqType
  <2>4. \A p \in Requests : Placed(p)'
    BY <2>2 DEF IInv, RequestOK, Placed
  <2>5. \A p \in Requests : ~Runs(p)'
    BY <1>3, <2>2 DEF IInv, RequestOK, Runs
  <2>6. QED
    BY <2>3, <2>4, <2>5, UndisturbedTurns
<1>4. QED
  BY <1>1, <1>2, <1>3 DEF EndTurn, LockMoves

-----------------------------------------------------------------------------
(* The session leaves an instance. *)

\* What no request notices: the requests stay, and a busy session too.
LEMMA UnnoticedStep ==
    ASSUME IInv, UNCHANGED req, TypeOK', OneHolder',
           \A i \in Instances : lock = i /\ cached[i] = "busy" => lock' = i /\ cached'[i] = "busy"
    PROVE  IInv'
<1>1. \A p \in Requests : Placed(p)'
  BY DEF IInv, RequestOK, Placed
<1>2. ASSUME NEW p \in Requests, Runs(p)'
      PROVE  /\ Runs(p) /\ Runner(p)' = Runner(p)
             /\ lock' = lock /\ cached'[Runner(p)] = cached[Runner(p)]
  <2>1. Runs(p) /\ Runner(p)' = Runner(p)
    BY <1>2 DEF Runs, Runner
  <2>2. QED
    BY <2>1, RunnerIsHolder
<1>3. QED
  BY <1>1, <1>2, UndisturbedTurns

LEMMA CardExpiresStep ==
    ASSUME IInv, NEW i \in Instances, CardExpires(i) PROVE IInv' /\ LockMoves
<1>1. TypeOK' /\ OneHolder'
  BY DEF IInv, TypeOK, OneHolder, CardExpires
<1>2. QED
  BY <1>1, UnnoticedStep DEF CardExpires, IInv, TypeOK, LockMoves

LEMMA TakeOutStep ==
    ASSUME IInv, NEW i \in Instances, NEW how \in {"removed", "drained"}, TakeOut(i, how)
    PROVE  IInv' /\ LockMoves
<1>1. TypeOK' /\ OneHolder'
  BY DEF IInv, TypeOK, OneHolder, TakeOut
<1>2. QED
  BY <1>1, UnnoticedStep DEF TakeOut, IInv, TypeOK, LockMoves

LEMMA LeftStep ==
    ASSUME IInv, NEW i \in Instances, NEW how \in {"removed", "drained"}, Left(i, how)
    PROVE  IInv' /\ LockMoves
<1>1. TypeOK /\ OneHolder /\ lock = i /\ UNCHANGED <<alive, cached, drainTo, req>>
  BY DEF IInv, OneHolder, Left
<1>2. leaving' = [leaving EXCEPT ![i] = @ \ {how}]
  BY DEF Left
<1>3. lock' = IF cached[i] = "out" /\ leaving'[i] = {} THEN None ELSE lock
  BY DEF Left, Release
<1>4. TypeOK'
  BY <1>1, <1>2, <1>3 DEF TypeOK
<1>5. OneHolder'
  <2>1. ASSUME NEW k \in Instances
        PROVE  (cached'[k] # "out" \/ leaving'[k] # {}) <=> lock' = k
    <3>1. CASE k = i
      BY <1>1, <1>2, <1>3, <3>1, HandoffAssumption DEF TypeOK
    <3>2. CASE k # i
      BY <1>1, <1>2, <1>3, <3>2, HandoffAssumption DEF TypeOK, OneHolder
    <3>3. QED
      BY <3>1, <3>2
  <2>2. QED
    BY <2>1 DEF OneHolder
<1>6. QED
  BY <1>1, <1>3, <1>4, <1>5, UnnoticedStep DEF LockMoves, LockStep

LEMMA DeleteStep ==
    ASSUME IInv, NEW i \in Instances, Delete(i) PROVE IInv' /\ LockMoves
<1>1. TypeOK /\ OneHolder /\ UNCHANGED <<alive, lock, drainTo>>
  BY DEF IInv, Delete
<1>2. ASSUME NEW p \in Requests
      PROVE  /\ req'[p] \in ReqType /\ req'[p].at = req[p].at /\ req'[p].to = req[p].to
             /\ req'[p].pc = IF Runs(p) /\ Runner(p) = i THEN "stopped" ELSE req[p].pc
  BY <1>1 DEF Delete, TypeOK, ReqType, Labels
<1>3. TypeOK'
  <2>1. req' \in [Requests -> ReqType]
    BY <1>2 DEF Delete
  <2>2. QED
    BY <1>1, <2>1 DEF Delete, TypeOK, ReqType
<1>4. OneHolder'
  BY <1>1 DEF TypeOK, OneHolder, Delete
<1>5. \A p \in Requests : Placed(p)'
  BY <1>2 DEF IInv, RequestOK, Placed, Runs
<1>6. ASSUME NEW p \in Requests, Runs(p)'
      PROVE  /\ Runs(p) /\ Runner(p)' = Runner(p)
             /\ lock' = lock /\ cached'[Runner(p)] = cached[Runner(p)]
  <2>1. Runs(p) /\ Runner(p) # i /\ Runner(p)' = Runner(p)
    BY <1>2, <1>6 DEF Runs, Runner
  <2>2. Runner(p) \in Instances
    BY <2>1, RunnerIsHolder
  <2>3. QED
    BY <1>1, <2>1, <2>2 DEF Delete, TypeOK
<1>7. QED
  BY <1>1, <1>3, <1>4, <1>5, <1>6, UndisturbedTurns DEF LockMoves

LEMMA DrainStartStep ==
    ASSUME IInv, NEW i \in Instances, NEW j \in Instances, DrainStart(i, j)
    PROVE  IInv' /\ LockMoves
<1>1. TypeOK' /\ OneHolder'
  BY DEF IInv, TypeOK, OneHolder, DrainStart
<1>2. QED
  BY <1>1, UnnoticedStep DEF DrainStart, LockMoves

LEMMA DrainStopStep ==
    ASSUME IInv, NEW i \in Instances, DrainStop(i) PROVE IInv' /\ LockMoves
<1>1. TypeOK'
  BY DEF IInv, TypeOK, DrainStop, Stranded
<1>2. \A k \in Instances : leaving'[k] = {} <=> leaving[k] = {}
  BY DEF IInv, TypeOK, DrainStop, Stranded
<1>3. OneHolder'
  BY <1>2 DEF IInv, OneHolder, DrainStop
<1>4. QED
  BY <1>1, <1>3, UnnoticedStep DEF DrainStop, LockMoves

LEMMA BootStep ==
    ASSUME IInv, NEW i \in Instances, Boot(i) PROVE IInv' /\ LockMoves
<1>1. TypeOK' /\ OneHolder'
  BY DEF IInv, TypeOK, OneHolder, Boot
<1>2. QED
  BY <1>1, UnnoticedStep DEF Boot, LockMoves

\* A crash ends the turns of its process; one it had sent elsewhere goes on.
LEMMA CrashStep ==
    ASSUME IInv, NEW i \in Instances, Crash(i) PROVE IInv' /\ LockMoves
<1>1. TypeOK /\ OneHolder
  BY DEF IInv
<1>2. Answered \in ReqType /\ Answered.pc = "answered"
  BY DEF Answered, Fresh, ReqType, Labels
<1>3. ASSUME NEW p \in Requests
      PROVE  \/ Ends(p, i) /\ req'[p] = Answered
             \/ ~Ends(p, i) /\ Cut(p, i) /\ req'[p] = [req[p] EXCEPT !.pc = "cut"]
             \/ ~Ends(p, i) /\ ~Cut(p, i) /\ req'[p] = req[p]
  BY DEF Crash
<1>4. ASSUME NEW p \in Requests, ~Ends(p, i)
      PROVE  /\ req'[p] \in ReqType /\ req'[p].at = req[p].at /\ req'[p].to = req[p].to
             /\ req'[p].pc = IF Cut(p, i) THEN "cut" ELSE req[p].pc
  <2>1. req[p] \in ReqType
    BY <1>1 DEF TypeOK, ReqType
  <2>2. QED
    BY <1>3, <1>4, <2>1 DEF ReqType, Labels
<1>5. req' \in [Requests -> ReqType]
  BY <1>2, <1>3, <1>4 DEF Crash
<1>6. /\ alive' \subseteq Instances /\ lock' \in Instances \cup {None}
      /\ cached' \in [Instances -> {"out", "idle", "busy", "card"}]
      /\ leaving' \in [Instances -> SUBSET {"removed", "drained", "lost"}]
  BY <1>1 DEF TypeOK, Crash
<1>7. drainTo' \in [Instances -> Instances \cup {None, Gone}]
  BY <1>1 DEF TypeOK, Crash
<1>8. TypeOK'
  BY <1>5, <1>6, <1>7 DEF TypeOK, ReqType
<1>9. OneHolder'
  <2>1. ASSUME NEW k \in Instances
        PROVE  (cached'[k] # "out" \/ leaving'[k] # {}) <=> lock' = k
    <3>1. CASE k = i
      BY <1>1, <3>1, HandoffAssumption DEF TypeOK, Crash
    <3>2. CASE k # i
      BY <1>1, <3>2, HandoffAssumption DEF TypeOK, OneHolder, Crash
    <3>3. QED
      BY <3>1, <3>2
  <2>2. QED
    BY <2>1 DEF OneHolder
<1>10. ASSUME NEW p \in Requests PROVE Placed(p)'
  <2>1. CASE Ends(p, i)
    BY <1>2, <1>3, <2>1 DEF Placed
  <2>2. CASE ~Ends(p, i)
    BY <1>4, <2>2 DEF IInv, RequestOK, Placed, Cut
  <2>3. QED
    BY <2>1, <2>2
<1>11. ASSUME NEW p \in Requests, Runs(p)'
       PROVE  /\ Runs(p) /\ Runner(p)' = Runner(p)
              /\ lock' = lock /\ cached'[Runner(p)] = cached[Runner(p)]
  <2>1. ~Ends(p, i) /\ ~Cut(p, i)
    BY <1>2, <1>3, <1>4, <1>11 DEF Runs
  <2>2. Runs(p) /\ Runner(p)' = Runner(p)
    BY <1>4, <1>11, <2>1 DEF Runs, Runner
  <2>3. Runner(p) # i
    BY <2>1, <2>2 DEF Ends, Cut, Runs, Runner
  <2>4. Runner(p) \in Instances /\ lock = Runner(p)
    BY <2>2, RunnerIsHolder
  <2>5. QED
    BY <1>1, <2>2, <2>3, <2>4 DEF Crash, TypeOK
<1>12. LockMoves
  BY DEF Crash, LockMoves, LockStep
<1>13. QED
  BY <1>8, <1>9, <1>10, <1>11, <1>12, UndisturbedTurns

-----------------------------------------------------------------------------
LEMMA InitHolds == Init => IInv
<1>1. SUFFICES ASSUME Init PROVE IInv
  OBVIOUS
<1>2. Fresh \in ReqType /\ Fresh.pc = "idle"
  BY DEF Fresh, ReqType, Labels
<1>3. TypeOK
  BY <1>1, <1>2 DEF Init, TypeOK, ReqType
<1>4. OneHolder
  BY <1>1, HandoffAssumption DEF Init, OneHolder
<1>5. \A q \in Requests : RequestOK(q)
  BY <1>1, <1>2 DEF Init, RequestOK, Placed, RunsAtHome, Runs
<1>6. QED
  BY <1>3, <1>4, <1>5 DEF IInv

LEMMA NextStep == ASSUME IInv, Next PROVE IInv' /\ LockMoves
<1>1. ASSUME NEW q \in Requests, RequestStep(q) PROVE IInv' /\ LockMoves
  BY <1>1, ArriveStep, DecideStep, ReleaseAskedStep, ReleaseAnsweredStep, ServeStep, EndTurnStep,
     ForwardFailsStep, WaitStep, DeadlinePassesStep DEF RequestStep
<1>2. ASSUME NEW i \in Instances, InstanceStep(i) PROVE IInv' /\ LockMoves
  BY <1>2, CardExpiresStep, TakeOutStep, DeleteStep, DrainStopStep, LeftStep, CrashStep, BootStep,
     DrainStartStep DEF InstanceStep, Remove, DrainReleases
<1>3. QED
  BY <1>1, <1>2 DEF Next

LEMMA Unmoved == ASSUME IInv, UNCHANGED vars PROVE IInv' /\ lock' = lock
<1>1. UNCHANGED <<alive, lock, cached, leaving, drainTo, req>>
  BY DEF vars, sessionVars
<1>2. TypeOK' /\ OneHolder'
  BY <1>1 DEF IInv, TypeOK, OneHolder
<1>3. QED
  BY <1>1, <1>2, UnnoticedStep

\* The inductive invariant of the routing.
THEOREM RoutingInvariant == Spec => []IInv
<1>1. IInv /\ [Next]_vars => IInv'
  BY NextStep, Unmoved
<1>2. QED
  BY InitHolds, <1>1, PTL DEF Spec

\* SessionLock, release_for_handoff, _take_ownership_locked: while a turn runs
\* it is the only one, and the session, with its owner lock, is in the instance
\* where it runs; and the session's objects live in the instance that holds the
\* lock.
THEOREM TurnsRunAlone == Spec => []TurnsAreExclusive
<1>1. IInv => TurnsAreExclusive
  BY DEF IInv, RequestOK, RunsAtHome, TurnsAreExclusive
<1>2. QED
  BY <1>1, RoutingInvariant, PTL

\* _take_ownership_locked, OwnerLocks.release, and the kernel at a crash: the
\* owner lock of the session changes hands only through nobody, so routing,
\* draining and serving implement OneOwner.
THEOREM RoutingImplementsOneOwner == Spec => KeepsOwnership
<1>1. Init => Ownership!Init
  BY DEF Init, Ownership!Init
<1>2. IInv /\ [Next]_vars => [Ownership!Next]_lock
  <2>1. ASSUME IInv, Next PROVE [Ownership!Next]_lock
    BY <2>1, NextStep DEF LockMoves, LockStep, Ownership!Next, Ownership!Take, Ownership!GiveUp
  <2>2. ASSUME IInv, UNCHANGED vars PROVE [Ownership!Next]_lock
    BY <2>2, Unmoved
  <2>3. QED
    BY <2>1, <2>2
<1>3. QED
  BY <1>1, <1>2, RoutingInvariant, PTL DEF Spec, KeepsOwnership, Ownership!Spec
=============================================================================

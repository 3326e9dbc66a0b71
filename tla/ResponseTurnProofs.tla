------------------------- MODULE ResponseTurnProofs -------------------------
(***************************************************************************)
(* Proofs about ResponseTurn for any number of requests, questions, cancels*)
(* and runs the CLI starts by itself: turns chain, a cancel's slot is that *)
(* of the turn that holds the session, no poll is told of a run that is    *)
(* over, a turn has the client and its stream to itself, and a question is *)
(* answered once.                                                          *)
(*                                                                         *)
(* The invariant: the request that holds session.lock is the one between   *)
(* its preflight and its end, and until it commits the number it works on  *)
(* is the one after the counter.  What is stored, published or registered  *)
(* is related to that request, or to the counter, alone.                   *)
(***************************************************************************)
EXTENDS ResponseTurn, TLAPS

Inside == Ended \cup {"locked", "ready", "reading", "told", "shown", "failing", "closing"}
Outside == {"new", "waiting", "refused", "done"}

\* The types of what the invariant speaks of.  The counters have no upper bound.
Typed ==
    /\ turn \in Nat /\ made \in Nat /\ asked \in Nat
    /\ stored \in [Turns -> Requests \cup {None}]
    /\ runs \in [Turns -> {None, "queued", "in_progress", "failed"}]
    /\ lock \in Requests \cup {None}
    /\ client \in Nat \cup {None} /\ pending \in Nat \cup {None}
StreamTyped == work \in Seq(Requests \cup {None}) /\ unread \in Seq(Results)
RequestTyped ==
    /\ pc \in [Requests -> Inside \cup Outside]
    /\ kind \in [Requests -> Kinds \cup {None}]
    /\ answers \in [Requests -> Nat \cup {None}]
    /\ next \in [Requests -> Nat \cup {None}]
    /\ using \in [Requests -> Nat \cup {None}]

LockOK(q) == pc[q] \in Inside <=> lock = q
KindOK(q) ==
    /\ pc[q] = "new" => answers[q] = None
    /\ pc[q] # "new" => kind[q] \in Kinds
    /\ answers[q] # None => kind[q] # "background" /\ answers[q] <= asked

\* next_turn is the number after the counter, until it is the counter.
NextOK(q) ==
    pc[q] \in Inside => next[q] = turn + 1 \/ (pc[q] = "closing" /\ next[q] = turn)
SlotOK(q) ==
    lock = q /\ active # None => active = next[q] /\ pc[q] # "locked" /\ kind[q] # "sync"
ClientOK(q) == pc[q] \in {"ready", "reading"} => client # None /\ using[q] = client
ReaderOK(q) == pc[q] = "reading" => ~reader

\* Once an answer was handed to the CLI its question is not pending any more.
AnswerOK(q) ==
    answers[q] # None /\ pc[q] \in (Inside \cup {"done"}) \ {"locked", "ready"}
      => pending # answers[q]

RequestOK(q) ==
    /\ LockOK(q) /\ KindOK(q) /\ NextOK(q) /\ SlotOK(q)
    /\ ClientOK(q) /\ ReaderOK(q) /\ AnswerOK(q)

SlotHeld == active # None => lock # None
StoredOK == \A n \in Turns : stored[n] # None => n <= turn

Types == Typed /\ StreamTyped /\ RequestTyped
SessionOK == SlotHeld /\ StoredOK /\ PollIsHonest /\ AnsweredOnce
IInv == Types /\ SessionOK /\ \A q \in Requests : RequestOK(q)

watched == <<turn, stored, runs, lock, client, made, active, pending, asked, reader, pc, kind,
             answers, next, using>>

\* What CommitsChain says of one step.
Chains ==
    /\ turn' \in {turn, turn + 1}
    /\ \A n \in Turns : stored[n] # None => stored'[n] = stored[n]

-----------------------------------------------------------------------------
LEMMA InitHolds == Init => IInv
<1> SUFFICES ASSUME Init PROVE IInv
  OBVIOUS
<1> USE TurnAssumption
<1>1. Typed /\ RequestTyped
  BY DEF Init, Typed, RequestTyped, Outside, Inside
<1>2. StreamTyped
  <2>1. <<>> \in Seq(Requests \cup {None}) /\ <<>> \in Seq(Results)
    OBVIOUS
  <2>2. <<None>> \in Seq(Requests \cup {None})
    OBVIOUS
  <2>3. QED
    BY <2>1, <2>2 DEF Init, StreamTyped
<1>3. SlotHeld /\ StoredOK /\ PollIsHonest
  BY DEF Init, SlotHeld, StoredOK, PollIsHonest
<1>4. AnsweredOnce
  BY DEF Init, AnsweredOnce, IsAnswer
<1>5. ASSUME NEW q \in Requests PROVE RequestOK(q)
  BY DEF Init, RequestOK, LockOK, KindOK, NextOK, SlotOK, ClientOK, ReaderOK, AnswerOK, Inside,
     Ended
<1>6. QED
  BY <1>1, <1>2, <1>3, <1>4, <1>5 DEF IInv, Types, SessionOK

\* A step that changes nothing the invariant speaks of but the CLI's work and
\* messages keeps it.
LEMMA StreamOnly ==
    ASSUME IInv, StreamTyped', UNCHANGED watched PROVE IInv' /\ Chains
<1> USE DEF watched
<1>1. Types'
  BY DEF IInv, Types, Typed, RequestTyped
<1>2. SessionOK'
  BY DEF IInv, SessionOK, SlotHeld, StoredOK, PollIsHonest, AnsweredOnce, IsAnswer
<1>3. \A q \in Requests : RequestOK(q)'
  BY DEF IInv, RequestOK, LockOK, KindOK, NextOK, SlotOK, ClientOK, ReaderOK, AnswerOK
<1>4. Chains
  BY DEF Chains
<1>5. QED
  BY <1>1, <1>2, <1>3, <1>4 DEF IInv

\* A request arrives.
LEMMA ArriveStep ==
    ASSUME IInv, NEW q \in Requests, Arrive(q) PROVE IInv' /\ Chains
<1> USE TurnAssumption
<1> USE DEF Arrive, To, Refuse, Parked, sessionVars, cliVars, controlVars, askVars, requestVars
<1>1. Types /\ SessionOK /\ \A r \in Requests : RequestOK(r)
  BY DEF IInv
<1>a. lock # q /\ lock' = lock
  BY <1>1 DEF Types, RequestTyped, RequestOK, LockOK, Inside, Ended
<1>2. Typed'
  BY <1>1, <1>a DEF Types, Typed, RequestTyped, RequestOK, LockOK, NextOK, Inside, Outside, Ended
<1>3. StreamTyped'
  BY <1>1, <1>a DEF Types, StreamTyped, Results, Typed
<1>4. RequestTyped'
  BY <1>1, <1>a DEF Types, Typed, StreamTyped, RequestTyped, Inside, Outside, Ended, Kinds, Results
<1>5. ASSUME NEW r \in Requests PROVE RequestOK(r)'
  <2>1. LockOK(r)'
    BY <1>1, <1>a DEF Types, Typed, RequestTyped, RequestOK, Inside, Outside, LockOK, Ended
  <2>2. KindOK(r)'
    BY <1>1, <1>a DEF Types, Typed, RequestTyped, RequestOK, Inside, Outside, KindOK, LockOK, Ended,
       Kinds
  <2>3. NextOK(r)'
    BY <1>1, <1>a DEF Types, Typed, RequestTyped, RequestOK, Inside, Outside, NextOK, LockOK, Ended
  <2>4. SlotOK(r)'
    BY <1>1, <1>a DEF Types, Typed, RequestTyped, RequestOK, Inside, Outside, SlotOK, SlotHeld,
       SessionOK, LockOK, KindOK, Ended, Kinds
  <2>5. ClientOK(r)'
    BY <1>1, <1>a DEF Types, Typed, RequestTyped, RequestOK, Inside, Outside, ClientOK, LockOK,
       Ended
  <2>6. ReaderOK(r)'
    BY <1>1, <1>a DEF Types, Typed, RequestTyped, RequestOK, Inside, Outside, ReaderOK, LockOK,
       Ended
  <2>7. AnswerOK(r)'
    BY <1>1, <1>a DEF Types, Typed, RequestTyped, RequestOK, Inside, Outside, AnswerOK, KindOK,
       LockOK, Ended
  <2> QED
    BY <2>1, <2>2, <2>3, <2>4, <2>5, <2>6, <2>7 DEF RequestOK
<1>6. SlotHeld' /\ StoredOK'
  BY <1>1, <1>a DEF Types, Typed, RequestTyped, SessionOK, SlotHeld, StoredOK, RequestOK, LockOK,
     NextOK, SlotOK, KindOK, Inside, Outside, Ended, Kinds
<1>7. PollIsHonest'
  <2>1. lock \in Requests => pc'[lock] = pc[lock] /\ kind'[lock] = kind[lock]
    BY <1>1, <1>a DEF Types, RequestTyped
  <2>2. QED
    BY <1>1, <1>a, <2>1 DEF Types, Typed, SessionOK, PollIsHonest
<1>8. AnsweredOnce'
  BY <1>1, <1>a DEF Types, Typed, RequestTyped, SessionOK, AnsweredOnce, IsAnswer, RequestOK,
     LockOK, KindOK, AnswerOK, Inside, Outside, Ended
<1>9. Chains
  BY <1>1, <1>a DEF Types, Typed, SessionOK, Chains, StoredOK, RequestOK, NextOK, LockOK, Inside,
     Ended
<1>10. QED
  BY <1>2, <1>3, <1>4, <1>5, <1>6, <1>7, <1>8, <1>9 DEF IInv, Types, SessionOK

\* An answer arrives.
LEMMA ArriveAnswerStep ==
    ASSUME IInv, NEW q \in Requests, ArriveAnswer(q) PROVE IInv' /\ Chains
<1> USE TurnAssumption
<1> USE DEF ArriveAnswer, To, sessionVars, cliVars, controlVars, askVars, requestVars
<1>1. Types /\ SessionOK /\ \A r \in Requests : RequestOK(r)
  BY DEF IInv
<1>2. Typed'
  BY <1>1 DEF Types, Typed, RequestTyped, RequestOK, LockOK, NextOK, Inside, Outside, Ended
<1>3. StreamTyped'
  BY <1>1 DEF Types, StreamTyped, Results, Typed
<1>4. RequestTyped'
  BY <1>1 DEF Types, Typed, StreamTyped, RequestTyped, Inside, Outside, Ended, Kinds, Results
<1>5. ASSUME NEW r \in Requests PROVE RequestOK(r)'
  <2>1. LockOK(r)'
    BY <1>1 DEF Types, Typed, RequestTyped, RequestOK, Inside, Outside, LockOK, Ended
  <2>2. KindOK(r)'
    BY <1>1 DEF Types, Typed, RequestTyped, RequestOK, Inside, Outside, KindOK, LockOK, Ended, Kinds
  <2>3. NextOK(r)'
    BY <1>1 DEF Types, Typed, RequestTyped, RequestOK, Inside, Outside, NextOK, LockOK, Ended
  <2>4. SlotOK(r)'
    BY <1>1 DEF Types, Typed, RequestTyped, RequestOK, Inside, Outside, SlotOK, SlotHeld, SessionOK,
       LockOK, KindOK, Ended, Kinds
  <2>5. ClientOK(r)'
    BY <1>1 DEF Types, Typed, RequestTyped, RequestOK, Inside, Outside, ClientOK, LockOK, Ended
  <2>6. ReaderOK(r)'
    BY <1>1 DEF Types, Typed, RequestTyped, RequestOK, Inside, Outside, ReaderOK, LockOK, Ended
  <2>7. AnswerOK(r)'
    BY <1>1 DEF Types, Typed, RequestTyped, RequestOK, Inside, Outside, AnswerOK, KindOK, LockOK,
       Ended
  <2> QED
    BY <2>1, <2>2, <2>3, <2>4, <2>5, <2>6, <2>7 DEF RequestOK
<1>6. SlotHeld' /\ StoredOK'
  BY <1>1 DEF Types, Typed, RequestTyped, SessionOK, SlotHeld, StoredOK, RequestOK, LockOK, NextOK,
     SlotOK, KindOK, Inside, Outside, Ended, Kinds
<1>7. PollIsHonest'
  BY <1>1 DEF Types, Typed, RequestTyped, SessionOK, PollIsHonest, RequestOK, LockOK, KindOK,
     Inside, Outside, Ended, Kinds
<1>8. AnsweredOnce'
  BY <1>1 DEF Types, Typed, RequestTyped, SessionOK, AnsweredOnce, IsAnswer, RequestOK, LockOK,
     KindOK, AnswerOK, Inside, Outside, Ended
<1>9. Chains
  BY <1>1 DEF Types, Typed, SessionOK, Chains, StoredOK, RequestOK, NextOK, LockOK, Inside, Ended
<1>10. QED
  BY <1>2, <1>3, <1>4, <1>5, <1>6, <1>7, <1>8, <1>9 DEF IInv, Types, SessionOK

\* The lock is taken when nobody is inside.
LEMMA LockStep ==
    ASSUME IInv, NEW q \in Requests, Lock(q) PROVE IInv' /\ Chains
<1> USE TurnAssumption
<1> USE DEF Lock, To, Refuse, Accepts, IsAnswer, sessionVars, cliVars, controlVars, askVars,
     requestVars
<1>1. Types /\ SessionOK /\ \A r \in Requests : RequestOK(r)
  BY DEF IInv
<1>a. turn + 1 \in Nat
  BY <1>1 DEF Types, Typed
<1>2. Typed'
  BY <1>1, <1>a DEF Types, Typed, RequestTyped, RequestOK, LockOK, NextOK, Inside, Outside, Ended
<1>3. StreamTyped'
  BY <1>1, <1>a DEF Types, StreamTyped, Results, Typed
<1>4. RequestTyped'
  <2>1. pc' \in [Requests -> Inside \cup Outside]
    <3>1. \/ pc' = [pc EXCEPT ![q] = "locked"]
          \/ pc' = [pc EXCEPT ![q] = "refused"]
      OBVIOUS
    <3>2. QED
      BY <1>1, <3>1 DEF Types, RequestTyped, Inside, Outside
  <2>2. next' \in [Requests -> Nat \cup {None}]
    <3>1. next' = [next EXCEPT ![q] = turn + 1] \/ next' = next
      OBVIOUS
    <3>2. QED
      BY <1>1, <1>a, <3>1 DEF Types, RequestTyped
  <2>3. UNCHANGED <<kind, answers, using>>
    OBVIOUS
  <2>4. QED
    BY <1>1, <2>1, <2>2, <2>3 DEF Types, RequestTyped
<1>5. ASSUME NEW r \in Requests PROVE RequestOK(r)'
  <2>1. LockOK(r)'
    BY <1>1, <1>a DEF Types, Typed, RequestTyped, RequestOK, Inside, Outside, LockOK, Ended
  <2>2. KindOK(r)'
    BY <1>1, <1>a DEF Types, Typed, RequestTyped, RequestOK, Inside, Outside, KindOK, LockOK, Ended,
       Kinds
  <2>3. NextOK(r)'
    BY <1>1, <1>a DEF Types, Typed, RequestTyped, RequestOK, Inside, Outside, NextOK, LockOK, Ended
  <2>4. SlotOK(r)'
    BY <1>1, <1>a DEF Types, Typed, RequestTyped, RequestOK, Inside, Outside, SlotOK, SlotHeld,
       SessionOK, LockOK, KindOK, Ended, Kinds
  <2>5. ClientOK(r)'
    BY <1>1, <1>a DEF Types, Typed, RequestTyped, RequestOK, Inside, Outside, ClientOK, LockOK,
       Ended
  <2>6. ReaderOK(r)'
    BY <1>1, <1>a DEF Types, Typed, RequestTyped, RequestOK, Inside, Outside, ReaderOK, LockOK,
       Ended
  <2>7. AnswerOK(r)'
    BY <1>1, <1>a DEF Types, Typed, RequestTyped, RequestOK, Inside, Outside, AnswerOK, KindOK,
       LockOK, Ended
  <2> QED
    BY <2>1, <2>2, <2>3, <2>4, <2>5, <2>6, <2>7 DEF RequestOK
<1>6. SlotHeld' /\ StoredOK'
  BY <1>1, <1>a DEF Types, Typed, RequestTyped, SessionOK, SlotHeld, StoredOK, RequestOK, LockOK,
     NextOK, SlotOK, KindOK, Inside, Outside, Ended, Kinds
<1>7. PollIsHonest'
  BY <1>1, <1>a DEF Types, Typed, RequestTyped, SessionOK, PollIsHonest, RequestOK, LockOK, KindOK,
     Inside, Outside, Ended, Kinds
<1>8. AnsweredOnce'
  BY <1>1, <1>a DEF Types, Typed, RequestTyped, SessionOK, AnsweredOnce, IsAnswer, RequestOK,
     LockOK, KindOK, AnswerOK, Inside, Outside, Ended
<1>9. Chains
  BY <1>1, <1>a DEF Types, Typed, SessionOK, Chains, StoredOK, RequestOK, NextOK, LockOK, Inside,
     Ended
<1>10. QED
  BY <1>2, <1>3, <1>4, <1>5, <1>6, <1>7, <1>8, <1>9 DEF IInv, Types, SessionOK

\* A refusal under the lock leaves nothing behind.
LEMMA RefuseLateStep ==
    ASSUME IInv, NEW q \in Requests, RefuseLate(q) PROVE IInv' /\ Chains
<1> USE TurnAssumption
<1> USE DEF RefuseLate, To, Refuse, StalePause, sessionVars, cliVars, controlVars, askVars,
     requestVars
<1>1. Types /\ SessionOK /\ \A r \in Requests : RequestOK(r)
  BY DEF IInv
<1>2. Typed'
  BY <1>1 DEF Types, Typed, RequestTyped, RequestOK, LockOK, NextOK, Inside, Outside, Ended
<1>3. StreamTyped'
  BY <1>1 DEF Types, StreamTyped, Results, Typed
<1>4. RequestTyped'
  BY <1>1 DEF Types, Typed, StreamTyped, RequestTyped, Inside, Outside, Ended, Kinds, Results
<1>5. ASSUME NEW r \in Requests PROVE RequestOK(r)'
  <2>1. LockOK(r)'
    BY <1>1 DEF Types, Typed, RequestTyped, RequestOK, Inside, Outside, LockOK, Ended
  <2>2. KindOK(r)'
    BY <1>1 DEF Types, Typed, RequestTyped, RequestOK, Inside, Outside, KindOK, LockOK, Ended, Kinds
  <2>3. NextOK(r)'
    BY <1>1 DEF Types, Typed, RequestTyped, RequestOK, Inside, Outside, NextOK, LockOK, Ended
  <2>4. SlotOK(r)'
    BY <1>1 DEF Types, Typed, RequestTyped, RequestOK, Inside, Outside, SlotOK, SlotHeld, SessionOK,
       LockOK, KindOK, Ended, Kinds
  <2>5. ClientOK(r)'
    BY <1>1 DEF Types, Typed, RequestTyped, RequestOK, Inside, Outside, ClientOK, LockOK, Ended
  <2>6. ReaderOK(r)'
    BY <1>1 DEF Types, Typed, RequestTyped, RequestOK, Inside, Outside, ReaderOK, LockOK, Ended
  <2>7. AnswerOK(r)'
    BY <1>1 DEF Types, Typed, RequestTyped, RequestOK, Inside, Outside, AnswerOK, KindOK, LockOK,
       Ended
  <2> QED
    BY <2>1, <2>2, <2>3, <2>4, <2>5, <2>6, <2>7 DEF RequestOK
<1>6. SlotHeld' /\ StoredOK'
  BY <1>1 DEF Types, Typed, RequestTyped, SessionOK, SlotHeld, StoredOK, RequestOK, LockOK, NextOK,
     SlotOK, KindOK, Inside, Outside, Ended, Kinds
<1>7. PollIsHonest'
  BY <1>1 DEF Types, Typed, RequestTyped, SessionOK, PollIsHonest, RequestOK, LockOK, KindOK,
     Inside, Outside, Ended, Kinds
<1>8. AnsweredOnce'
  BY <1>1 DEF Types, Typed, RequestTyped, SessionOK, AnsweredOnce, IsAnswer, RequestOK, LockOK,
     KindOK, AnswerOK, Inside, Outside, Ended
<1>9. Chains
  BY <1>1 DEF Types, Typed, SessionOK, Chains, StoredOK, RequestOK, NextOK, LockOK, Inside, Ended
<1>10. QED
  BY <1>2, <1>3, <1>4, <1>5, <1>6, <1>7, <1>8, <1>9 DEF IInv, Types, SessionOK

\* The turn gets its client and is published.
LEMMA EnsureClientStep ==
    ASSUME IInv, NEW q \in Requests, EnsureClient(q) PROVE IInv' /\ Chains
<1> USE TurnAssumption
<1> USE DEF EnsureClient, To, IsAnswer, Publish, NewClient, StalePause, sessionVars, cliVars,
     controlVars, askVars, requestVars
<1>1. Types /\ SessionOK /\ \A r \in Requests : RequestOK(r)
  BY DEF IInv
<1>a. <<>> \in Seq(Requests \cup {None}) /\ <<>> \in Seq(Results)
  OBVIOUS
<1>2. Typed'
  BY <1>1, <1>a DEF Types, Typed, RequestTyped, RequestOK, LockOK, NextOK, Inside, Outside, Ended
<1>3. StreamTyped'
  BY <1>1, <1>a DEF Types, StreamTyped, Results, Typed
<1>4. RequestTyped'
  BY <1>1, <1>a DEF Types, Typed, StreamTyped, RequestTyped, Inside, Outside, Ended, Kinds, Results
<1>5. ASSUME NEW r \in Requests PROVE RequestOK(r)'
  <2>1. LockOK(r)'
    BY <1>1, <1>a DEF Types, Typed, RequestTyped, RequestOK, Inside, Outside, LockOK, Ended
  <2>2. KindOK(r)'
    BY <1>1, <1>a DEF Types, Typed, RequestTyped, RequestOK, Inside, Outside, KindOK, LockOK, Ended,
       Kinds
  <2>3. NextOK(r)'
    BY <1>1, <1>a DEF Types, Typed, RequestTyped, RequestOK, Inside, Outside, NextOK, LockOK, Ended
  <2>4. SlotOK(r)'
    BY <1>1, <1>a DEF Types, Typed, RequestTyped, RequestOK, Inside, Outside, SlotOK, SlotHeld,
       SessionOK, LockOK, KindOK, Ended, Kinds
  <2>5. ClientOK(r)'
    BY <1>1, <1>a DEF Types, Typed, RequestTyped, RequestOK, Inside, Outside, ClientOK, LockOK,
       Ended
  <2>6. ReaderOK(r)'
    BY <1>1, <1>a DEF Types, Typed, RequestTyped, RequestOK, Inside, Outside, ReaderOK, LockOK,
       Ended
  <2>7. AnswerOK(r)'
    BY <1>1, <1>a DEF Types, Typed, RequestTyped, RequestOK, Inside, Outside, AnswerOK, KindOK,
       LockOK, Ended
  <2> QED
    BY <2>1, <2>2, <2>3, <2>4, <2>5, <2>6, <2>7 DEF RequestOK
<1>6. SlotHeld' /\ StoredOK'
  BY <1>1, <1>a DEF Types, Typed, RequestTyped, SessionOK, SlotHeld, StoredOK, RequestOK, LockOK,
     NextOK, SlotOK, KindOK, Inside, Outside, Ended, Kinds
<1>7. PollIsHonest'
  BY <1>1, <1>a DEF Types, Typed, RequestTyped, SessionOK, PollIsHonest, RequestOK, LockOK, KindOK,
     Inside, Outside, Ended, Kinds
<1>8. AnsweredOnce'
  BY <1>1, <1>a DEF Types, Typed, RequestTyped, SessionOK, AnsweredOnce, IsAnswer, RequestOK,
     LockOK, KindOK, AnswerOK, Inside, Outside, Ended
<1>9. Chains
  BY <1>1, <1>a DEF Types, Typed, SessionOK, Chains, StoredOK, RequestOK, NextOK, LockOK, Inside,
     Ended
<1>10. QED
  BY <1>2, <1>3, <1>4, <1>5, <1>6, <1>7, <1>8, <1>9 DEF IInv, Types, SessionOK

\* The prompt is sent.
LEMMA QueryStep ==
    ASSUME IInv, NEW q \in Requests, Query(q) PROVE IInv' /\ Chains
<1> USE TurnAssumption
<1> USE DEF Query, To, IsAnswer, Backlog, sessionVars, cliVars, controlVars, askVars, requestVars
<1>1. Types /\ SessionOK /\ \A r \in Requests : RequestOK(r)
  BY DEF IInv
<1>2. Typed'
  BY <1>1 DEF Types, Typed, RequestTyped, RequestOK, LockOK, NextOK, Inside, Outside, Ended
<1>3. StreamTyped'
  BY <1>1 DEF Types, StreamTyped, Results, Typed
<1>4. RequestTyped'
  BY <1>1 DEF Types, Typed, StreamTyped, RequestTyped, Inside, Outside, Ended, Kinds, Results
<1>5. ASSUME NEW r \in Requests PROVE RequestOK(r)'
  <2>1. LockOK(r)'
    BY <1>1 DEF Types, Typed, RequestTyped, RequestOK, Inside, Outside, LockOK, Ended
  <2>2. KindOK(r)'
    BY <1>1 DEF Types, Typed, RequestTyped, RequestOK, Inside, Outside, KindOK, LockOK, Ended, Kinds
  <2>3. NextOK(r)'
    BY <1>1 DEF Types, Typed, RequestTyped, RequestOK, Inside, Outside, NextOK, LockOK, Ended
  <2>4. SlotOK(r)'
    BY <1>1 DEF Types, Typed, RequestTyped, RequestOK, Inside, Outside, SlotOK, SlotHeld, SessionOK,
       LockOK, KindOK, Ended, Kinds
  <2>5. ClientOK(r)'
    BY <1>1 DEF Types, Typed, RequestTyped, RequestOK, Inside, Outside, ClientOK, LockOK, Ended
  <2>6. ReaderOK(r)'
    BY <1>1 DEF Types, Typed, RequestTyped, RequestOK, Inside, Outside, ReaderOK, LockOK, Ended
  <2>7. AnswerOK(r)'
    BY <1>1 DEF Types, Typed, RequestTyped, RequestOK, Inside, Outside, AnswerOK, KindOK, LockOK,
       Ended
  <2> QED
    BY <2>1, <2>2, <2>3, <2>4, <2>5, <2>6, <2>7 DEF RequestOK
<1>6. SlotHeld' /\ StoredOK'
  BY <1>1 DEF Types, Typed, RequestTyped, SessionOK, SlotHeld, StoredOK, RequestOK, LockOK, NextOK,
     SlotOK, KindOK, Inside, Outside, Ended, Kinds
<1>7. PollIsHonest'
  BY <1>1 DEF Types, Typed, RequestTyped, SessionOK, PollIsHonest, RequestOK, LockOK, KindOK,
     Inside, Outside, Ended, Kinds
<1>8. AnsweredOnce'
  BY <1>1 DEF Types, Typed, RequestTyped, SessionOK, AnsweredOnce, IsAnswer, RequestOK, LockOK,
     KindOK, AnswerOK, Inside, Outside, Ended
<1>9. Chains
  BY <1>1 DEF Types, Typed, SessionOK, Chains, StoredOK, RequestOK, NextOK, LockOK, Inside, Ended
<1>10. QED
  BY <1>2, <1>3, <1>4, <1>5, <1>6, <1>7, <1>8, <1>9 DEF IInv, Types, SessionOK

\* The answer is handed over.
LEMMA WakeStep ==
    ASSUME IInv, NEW q \in Requests, Wake(q) PROVE IInv' /\ Chains
<1> USE TurnAssumption
<1> USE DEF Wake, To, IsAnswer, Publish, sessionVars, cliVars, controlVars, askVars, requestVars
<1>1. Types /\ SessionOK /\ \A r \in Requests : RequestOK(r)
  BY DEF IInv
<1>2. Typed'
  BY <1>1 DEF Types, Typed, RequestTyped, RequestOK, LockOK, NextOK, Inside, Outside, Ended
<1>3. StreamTyped'
  BY <1>1 DEF Types, StreamTyped, Results, Typed
<1>4. RequestTyped'
  BY <1>1 DEF Types, Typed, StreamTyped, RequestTyped, Inside, Outside, Ended, Kinds, Results
<1>5. ASSUME NEW r \in Requests PROVE RequestOK(r)'
  <2>1. LockOK(r)'
    BY <1>1 DEF Types, Typed, RequestTyped, RequestOK, Inside, Outside, LockOK, Ended
  <2>2. KindOK(r)'
    BY <1>1 DEF Types, Typed, RequestTyped, RequestOK, Inside, Outside, KindOK, LockOK, Ended, Kinds
  <2>3. NextOK(r)'
    BY <1>1 DEF Types, Typed, RequestTyped, RequestOK, Inside, Outside, NextOK, LockOK, Ended
  <2>4. SlotOK(r)'
    BY <1>1 DEF Types, Typed, RequestTyped, RequestOK, Inside, Outside, SlotOK, SlotHeld, SessionOK,
       LockOK, KindOK, Ended, Kinds
  <2>5. ClientOK(r)'
    BY <1>1 DEF Types, Typed, RequestTyped, RequestOK, Inside, Outside, ClientOK, LockOK, Ended
  <2>6. ReaderOK(r)'
    BY <1>1 DEF Types, Typed, RequestTyped, RequestOK, Inside, Outside, ReaderOK, LockOK, Ended
  <2>7. AnswerOK(r)'
    BY <1>1 DEF Types, Typed, RequestTyped, RequestOK, Inside, Outside, AnswerOK, KindOK, LockOK,
       Ended
  <2> QED
    BY <2>1, <2>2, <2>3, <2>4, <2>5, <2>6, <2>7 DEF RequestOK
<1>6. SlotHeld' /\ StoredOK'
  BY <1>1 DEF Types, Typed, RequestTyped, SessionOK, SlotHeld, StoredOK, RequestOK, LockOK, NextOK,
     SlotOK, KindOK, Inside, Outside, Ended, Kinds
<1>7. PollIsHonest'
  BY <1>1 DEF Types, Typed, RequestTyped, SessionOK, PollIsHonest, RequestOK, LockOK, KindOK,
     Inside, Outside, Ended, Kinds
<1>8. AnsweredOnce'
  BY <1>1 DEF Types, Typed, RequestTyped, SessionOK, AnsweredOnce, IsAnswer, RequestOK, LockOK,
     KindOK, AnswerOK, Inside, Outside, Ended
<1>9. Chains
  BY <1>1 DEF Types, Typed, SessionOK, Chains, StoredOK, RequestOK, NextOK, LockOK, Inside, Ended
<1>10. QED
  BY <1>2, <1>3, <1>4, <1>5, <1>6, <1>7, <1>8, <1>9 DEF IInv, Types, SessionOK

\* A result is read.
LEMMA ReadStep ==
    ASSUME IInv, NEW q \in Requests, Read(q) PROVE IInv' /\ Chains
<1> USE TurnAssumption
<1> USE DEF Read, To, sessionVars, cliVars, controlVars, askVars, requestVars
<1>1. Types /\ SessionOK /\ \A r \in Requests : RequestOK(r)
  BY DEF IInv
<1>a. pc'[q] \in {"ok", "bad", "cut"} /\ pc' = [pc EXCEPT ![q] = pc'[q]]
  <2>1. Head(unread) \in Results
    BY <1>1 DEF Types, StreamTyped
  <2>2. Head(unread).how \in {"ok", "bad", "cut"}
    BY <2>1 DEF Results
  <2>3. QED
    BY <1>1, <2>2 DEF Types, RequestTyped
<1>2. Typed'
  BY <1>1, <1>a DEF Types, Typed, RequestTyped, RequestOK, LockOK, NextOK, Inside, Outside, Ended
<1>3. StreamTyped'
  BY <1>1, <1>a DEF Types, StreamTyped, Results, Typed
<1>4. RequestTyped'
  BY <1>1, <1>a DEF Types, Typed, StreamTyped, RequestTyped, Inside, Outside, Ended, Kinds, Results
<1>5. ASSUME NEW r \in Requests PROVE RequestOK(r)'
  <2>1. LockOK(r)'
    BY <1>1, <1>a DEF Types, Typed, RequestTyped, RequestOK, Inside, Outside, LockOK, Ended
  <2>2. KindOK(r)'
    BY <1>1, <1>a DEF Types, Typed, RequestTyped, RequestOK, Inside, Outside, KindOK, LockOK, Ended,
       Kinds
  <2>3. NextOK(r)'
    BY <1>1, <1>a DEF Types, Typed, RequestTyped, RequestOK, Inside, Outside, NextOK, LockOK, Ended
  <2>4. SlotOK(r)'
    BY <1>1, <1>a DEF Types, Typed, RequestTyped, RequestOK, Inside, Outside, SlotOK, SlotHeld,
       SessionOK, LockOK, KindOK, Ended, Kinds
  <2>5. ClientOK(r)'
    BY <1>1, <1>a DEF Types, Typed, RequestTyped, RequestOK, Inside, Outside, ClientOK, LockOK,
       Ended
  <2>6. ReaderOK(r)'
    BY <1>1, <1>a DEF Types, Typed, RequestTyped, RequestOK, Inside, Outside, ReaderOK, LockOK,
       Ended
  <2>7. AnswerOK(r)'
    BY <1>1, <1>a DEF Types, Typed, RequestTyped, RequestOK, Inside, Outside, AnswerOK, KindOK,
       LockOK, Ended
  <2> QED
    BY <2>1, <2>2, <2>3, <2>4, <2>5, <2>6, <2>7 DEF RequestOK
<1>6. SlotHeld' /\ StoredOK'
  BY <1>1, <1>a DEF Types, Typed, RequestTyped, SessionOK, SlotHeld, StoredOK, RequestOK, LockOK,
     NextOK, SlotOK, KindOK, Inside, Outside, Ended, Kinds
<1>7. PollIsHonest'
  BY <1>1, <1>a DEF Types, Typed, RequestTyped, SessionOK, PollIsHonest, RequestOK, LockOK, KindOK,
     Inside, Outside, Ended, Kinds
<1>8. AnsweredOnce'
  BY <1>1, <1>a DEF Types, Typed, RequestTyped, SessionOK, AnsweredOnce, IsAnswer, RequestOK,
     LockOK, KindOK, AnswerOK, Inside, Outside, Ended
<1>9. Chains
  BY <1>1, <1>a DEF Types, Typed, SessionOK, Chains, StoredOK, RequestOK, NextOK, LockOK, Inside,
     Ended
<1>10. QED
  BY <1>2, <1>3, <1>4, <1>5, <1>6, <1>7, <1>8, <1>9 DEF IInv, Types, SessionOK

\* The stream fails under its reader.
LEMMA StreamFailsStep ==
    ASSUME IInv, NEW q \in Requests, StreamFails(q) PROVE IInv' /\ Chains
<1> USE TurnAssumption
<1> USE DEF StreamFails, To, sessionVars, cliVars, controlVars, askVars, requestVars
<1>1. Types /\ SessionOK /\ \A r \in Requests : RequestOK(r)
  BY DEF IInv
<1>2. Typed'
  BY <1>1 DEF Types, Typed, RequestTyped, RequestOK, LockOK, NextOK, Inside, Outside, Ended
<1>3. StreamTyped'
  BY <1>1 DEF Types, StreamTyped, Results, Typed
<1>4. RequestTyped'
  BY <1>1 DEF Types, Typed, StreamTyped, RequestTyped, Inside, Outside, Ended, Kinds, Results
<1>5. ASSUME NEW r \in Requests PROVE RequestOK(r)'
  <2>1. LockOK(r)'
    BY <1>1 DEF Types, Typed, RequestTyped, RequestOK, Inside, Outside, LockOK, Ended
  <2>2. KindOK(r)'
    BY <1>1 DEF Types, Typed, RequestTyped, RequestOK, Inside, Outside, KindOK, LockOK, Ended, Kinds
  <2>3. NextOK(r)'
    BY <1>1 DEF Types, Typed, RequestTyped, RequestOK, Inside, Outside, NextOK, LockOK, Ended
  <2>4. SlotOK(r)'
    BY <1>1 DEF Types, Typed, RequestTyped, RequestOK, Inside, Outside, SlotOK, SlotHeld, SessionOK,
       LockOK, KindOK, Ended, Kinds
  <2>5. ClientOK(r)'
    BY <1>1 DEF Types, Typed, RequestTyped, RequestOK, Inside, Outside, ClientOK, LockOK, Ended
  <2>6. ReaderOK(r)'
    BY <1>1 DEF Types, Typed, RequestTyped, RequestOK, Inside, Outside, ReaderOK, LockOK, Ended
  <2>7. AnswerOK(r)'
    BY <1>1 DEF Types, Typed, RequestTyped, RequestOK, Inside, Outside, AnswerOK, KindOK, LockOK,
       Ended
  <2> QED
    BY <2>1, <2>2, <2>3, <2>4, <2>5, <2>6, <2>7 DEF RequestOK
<1>6. SlotHeld' /\ StoredOK'
  BY <1>1 DEF Types, Typed, RequestTyped, SessionOK, SlotHeld, StoredOK, RequestOK, LockOK, NextOK,
     SlotOK, KindOK, Inside, Outside, Ended, Kinds
<1>7. PollIsHonest'
  BY <1>1 DEF Types, Typed, RequestTyped, SessionOK, PollIsHonest, RequestOK, LockOK, KindOK,
     Inside, Outside, Ended, Kinds
<1>8. AnsweredOnce'
  BY <1>1 DEF Types, Typed, RequestTyped, SessionOK, AnsweredOnce, IsAnswer, RequestOK, LockOK,
     KindOK, AnswerOK, Inside, Outside, Ended
<1>9. Chains
  BY <1>1 DEF Types, Typed, SessionOK, Chains, StoredOK, RequestOK, NextOK, LockOK, Inside, Ended
<1>10. QED
  BY <1>2, <1>3, <1>4, <1>5, <1>6, <1>7, <1>8, <1>9 DEF IInv, Types, SessionOK

\* A reading ends without a result.
LEMMA TimeOutStep ==
    ASSUME IInv, NEW q \in Requests, TimeOut(q) PROVE IInv' /\ Chains
<1> USE TurnAssumption
<1> USE DEF TimeOut, To, Fail, Stall, sessionVars, cliVars, controlVars, askVars, requestVars
<1>1. Types /\ SessionOK /\ \A r \in Requests : RequestOK(r)
  BY DEF IInv
<1>2. Typed'
  BY <1>1 DEF Types, Typed, RequestTyped, RequestOK, LockOK, NextOK, Inside, Outside, Ended
<1>3. StreamTyped'
  BY <1>1 DEF Types, StreamTyped, Results, Typed
<1>4. RequestTyped'
  BY <1>1 DEF Types, Typed, StreamTyped, RequestTyped, Inside, Outside, Ended, Kinds, Results
<1>5. ASSUME NEW r \in Requests PROVE RequestOK(r)'
  <2>1. LockOK(r)'
    BY <1>1 DEF Types, Typed, RequestTyped, RequestOK, Inside, Outside, LockOK, Ended
  <2>2. KindOK(r)'
    BY <1>1 DEF Types, Typed, RequestTyped, RequestOK, Inside, Outside, KindOK, LockOK, Ended, Kinds
  <2>3. NextOK(r)'
    BY <1>1 DEF Types, Typed, RequestTyped, RequestOK, Inside, Outside, NextOK, LockOK, Ended
  <2>4. SlotOK(r)'
    BY <1>1 DEF Types, Typed, RequestTyped, RequestOK, Inside, Outside, SlotOK, SlotHeld, SessionOK,
       LockOK, KindOK, Ended, Kinds
  <2>5. ClientOK(r)'
    BY <1>1 DEF Types, Typed, RequestTyped, RequestOK, Inside, Outside, ClientOK, LockOK, Ended
  <2>6. ReaderOK(r)'
    BY <1>1 DEF Types, Typed, RequestTyped, RequestOK, Inside, Outside, ReaderOK, LockOK, Ended
  <2>7. AnswerOK(r)'
    BY <1>1 DEF Types, Typed, RequestTyped, RequestOK, Inside, Outside, AnswerOK, KindOK, LockOK,
       Ended
  <2> QED
    BY <2>1, <2>2, <2>3, <2>4, <2>5, <2>6, <2>7 DEF RequestOK
<1>6. SlotHeld' /\ StoredOK'
  BY <1>1 DEF Types, Typed, RequestTyped, SessionOK, SlotHeld, StoredOK, RequestOK, LockOK, NextOK,
     SlotOK, KindOK, Inside, Outside, Ended, Kinds
<1>7. PollIsHonest'
  BY <1>1 DEF Types, Typed, RequestTyped, SessionOK, PollIsHonest, RequestOK, LockOK, KindOK,
     Inside, Outside, Ended, Kinds
<1>8. AnsweredOnce'
  BY <1>1 DEF Types, Typed, RequestTyped, SessionOK, AnsweredOnce, IsAnswer, RequestOK, LockOK,
     KindOK, AnswerOK, Inside, Outside, Ended
<1>9. Chains
  BY <1>1 DEF Types, Typed, SessionOK, Chains, StoredOK, RequestOK, NextOK, LockOK, Inside, Ended
<1>10. QED
  BY <1>2, <1>3, <1>4, <1>5, <1>6, <1>7, <1>8, <1>9 DEF IInv, Types, SessionOK

\* A stream is told its outcome.
LEMMA TellStep ==
    ASSUME IInv, NEW q \in Requests, Tell(q) PROVE IInv' /\ Chains
<1> USE TurnAssumption
<1> USE DEF Tell, To, Fail, sessionVars, cliVars, controlVars, askVars, requestVars
<1>1. Types /\ SessionOK /\ \A r \in Requests : RequestOK(r)
  BY DEF IInv
<1>2. Typed'
  BY <1>1 DEF Types, Typed, RequestTyped, RequestOK, LockOK, NextOK, Inside, Outside, Ended
<1>3. StreamTyped'
  BY <1>1 DEF Types, StreamTyped, Results, Typed
<1>4. RequestTyped'
  BY <1>1 DEF Types, Typed, StreamTyped, RequestTyped, Inside, Outside, Ended, Kinds, Results
<1>5. ASSUME NEW r \in Requests PROVE RequestOK(r)'
  <2>1. LockOK(r)'
    BY <1>1 DEF Types, Typed, RequestTyped, RequestOK, Inside, Outside, LockOK, Ended
  <2>2. KindOK(r)'
    BY <1>1 DEF Types, Typed, RequestTyped, RequestOK, Inside, Outside, KindOK, LockOK, Ended, Kinds
  <2>3. NextOK(r)'
    BY <1>1 DEF Types, Typed, RequestTyped, RequestOK, Inside, Outside, NextOK, LockOK, Ended
  <2>4. SlotOK(r)'
    BY <1>1 DEF Types, Typed, RequestTyped, RequestOK, Inside, Outside, SlotOK, SlotHeld, SessionOK,
       LockOK, KindOK, Ended, Kinds
  <2>5. ClientOK(r)'
    BY <1>1 DEF Types, Typed, RequestTyped, RequestOK, Inside, Outside, ClientOK, LockOK, Ended
  <2>6. ReaderOK(r)'
    BY <1>1 DEF Types, Typed, RequestTyped, RequestOK, Inside, Outside, ReaderOK, LockOK, Ended
  <2>7. AnswerOK(r)'
    BY <1>1 DEF Types, Typed, RequestTyped, RequestOK, Inside, Outside, AnswerOK, KindOK, LockOK,
       Ended
  <2> QED
    BY <2>1, <2>2, <2>3, <2>4, <2>5, <2>6, <2>7 DEF RequestOK
<1>6. SlotHeld' /\ StoredOK'
  BY <1>1 DEF Types, Typed, RequestTyped, SessionOK, SlotHeld, StoredOK, RequestOK, LockOK, NextOK,
     SlotOK, KindOK, Inside, Outside, Ended, Kinds
<1>7. PollIsHonest'
  BY <1>1 DEF Types, Typed, RequestTyped, SessionOK, PollIsHonest, RequestOK, LockOK, KindOK,
     Inside, Outside, Ended, Kinds
<1>8. AnsweredOnce'
  BY <1>1 DEF Types, Typed, RequestTyped, SessionOK, AnsweredOnce, IsAnswer, RequestOK, LockOK,
     KindOK, AnswerOK, Inside, Outside, Ended
<1>9. Chains
  BY <1>1 DEF Types, Typed, SessionOK, Chains, StoredOK, RequestOK, NextOK, LockOK, Inside, Ended
<1>10. QED
  BY <1>2, <1>3, <1>4, <1>5, <1>6, <1>7, <1>8, <1>9 DEF IInv, Types, SessionOK

\* A stream commits.
LEMMA CommitStreamStep ==
    ASSUME IInv, NEW q \in Requests, CommitStream(q) PROVE IInv' /\ Chains
<1> USE TurnAssumption
<1> USE DEF CommitStream, To, Commit, sessionVars, cliVars, controlVars, askVars, requestVars
<1>1. Types /\ SessionOK /\ \A r \in Requests : RequestOK(r)
  BY DEF IInv
<1>a. lock = q /\ next[q] = turn + 1 /\ turn + 1 \in Nat
  BY <1>1 DEF Types, Typed, RequestTyped, RequestOK, LockOK, NextOK, Inside
<1>2. Typed'
  BY <1>1, <1>a DEF Types, Typed, RequestTyped, RequestOK, LockOK, NextOK, Inside, Outside, Ended
<1>3. StreamTyped'
  BY <1>1, <1>a DEF Types, StreamTyped, Results, Typed
<1>4. RequestTyped'
  BY <1>1, <1>a DEF Types, Typed, StreamTyped, RequestTyped, Inside, Outside, Ended, Kinds, Results
<1>5. ASSUME NEW r \in Requests PROVE RequestOK(r)'
  <2>1. LockOK(r)'
    BY <1>1, <1>a DEF Types, Typed, RequestTyped, RequestOK, Inside, Outside, LockOK, Ended
  <2>2. KindOK(r)'
    BY <1>1, <1>a DEF Types, Typed, RequestTyped, RequestOK, Inside, Outside, KindOK, LockOK, Ended,
       Kinds
  <2>3. NextOK(r)'
    BY <1>1, <1>a DEF Types, Typed, RequestTyped, RequestOK, Inside, Outside, NextOK, LockOK, Ended
  <2>4. SlotOK(r)'
    BY <1>1, <1>a DEF Types, Typed, RequestTyped, RequestOK, Inside, Outside, SlotOK, SlotHeld,
       SessionOK, LockOK, KindOK, Ended, Kinds
  <2>5. ClientOK(r)'
    BY <1>1, <1>a DEF Types, Typed, RequestTyped, RequestOK, Inside, Outside, ClientOK, LockOK,
       Ended
  <2>6. ReaderOK(r)'
    BY <1>1, <1>a DEF Types, Typed, RequestTyped, RequestOK, Inside, Outside, ReaderOK, LockOK,
       Ended
  <2>7. AnswerOK(r)'
    BY <1>1, <1>a DEF Types, Typed, RequestTyped, RequestOK, Inside, Outside, AnswerOK, KindOK,
       LockOK, Ended
  <2> QED
    BY <2>1, <2>2, <2>3, <2>4, <2>5, <2>6, <2>7 DEF RequestOK
<1>6. SlotHeld' /\ StoredOK'
  <2>1. SlotHeld'
    BY <1>1 DEF SessionOK, SlotHeld
  <2>2. ASSUME NEW n \in Turns, stored'[n] # None PROVE n <= turn'
    <3>1. n \in Nat
      BY DEF Turns
    <3>2. CASE n = turn + 1
      BY <1>a, <3>1, <3>2
    <3>3. CASE n # turn + 1
      BY <1>a, <1>1, <2>2, <3>1, <3>3 DEF Types, Typed, SessionOK, StoredOK
    <3>4. QED
      BY <3>2, <3>3
  <2>3. QED
    BY <2>1, <2>2 DEF StoredOK
<1>7. PollIsHonest'
  BY <1>1, <1>a DEF Types, Typed, RequestTyped, SessionOK, PollIsHonest, RequestOK, LockOK, KindOK,
     Inside, Outside, Ended, Kinds
<1>8. AnsweredOnce'
  BY <1>1, <1>a DEF Types, Typed, RequestTyped, SessionOK, AnsweredOnce, IsAnswer, RequestOK,
     LockOK, KindOK, AnswerOK, Inside, Outside, Ended
<1>9. Chains
  BY <1>1, <1>a DEF Types, Typed, SessionOK, Chains, StoredOK, RequestOK, NextOK, LockOK, Inside,
     Ended
<1>10. QED
  BY <1>2, <1>3, <1>4, <1>5, <1>6, <1>7, <1>8, <1>9 DEF IInv, Types, SessionOK

\* A plain or background turn commits and ends.
LEMMA CommitAtOnceStep ==
    ASSUME IInv, NEW q \in Requests, CommitAtOnce(q) PROVE IInv' /\ Chains
<1> USE TurnAssumption
<1> USE DEF CommitAtOnce, To, Fail, Commit, Resumed, sessionVars, cliVars, controlVars, askVars,
     requestVars
<1>1. Types /\ SessionOK /\ \A r \in Requests : RequestOK(r)
  BY DEF IInv
<1>a. lock = q /\ next[q] = turn + 1 /\ turn + 1 \in Nat
  BY <1>1 DEF Types, Typed, RequestTyped, RequestOK, LockOK, NextOK, Inside, Ended
<1>2. Typed'
  BY <1>1, <1>a DEF Types, Typed, RequestTyped, RequestOK, LockOK, NextOK, Inside, Outside, Ended
<1>3. StreamTyped'
  BY <1>1, <1>a DEF Types, StreamTyped, Results, Typed
<1>4. RequestTyped'
  BY <1>1, <1>a DEF Types, Typed, StreamTyped, RequestTyped, Inside, Outside, Ended, Kinds, Results
<1>5. ASSUME NEW r \in Requests PROVE RequestOK(r)'
  <2>1. LockOK(r)'
    BY <1>1, <1>a DEF Types, Typed, RequestTyped, RequestOK, Inside, Outside, LockOK, Ended
  <2>2. KindOK(r)'
    BY <1>1, <1>a DEF Types, Typed, RequestTyped, RequestOK, Inside, Outside, KindOK, LockOK, Ended,
       Kinds
  <2>3. NextOK(r)'
    BY <1>1, <1>a DEF Types, Typed, RequestTyped, RequestOK, Inside, Outside, NextOK, LockOK, Ended
  <2>4. SlotOK(r)'
    BY <1>1, <1>a DEF Types, Typed, RequestTyped, RequestOK, Inside, Outside, SlotOK, SlotHeld,
       SessionOK, LockOK, KindOK, Ended, Kinds
  <2>5. ClientOK(r)'
    BY <1>1, <1>a DEF Types, Typed, RequestTyped, RequestOK, Inside, Outside, ClientOK, LockOK,
       Ended
  <2>6. ReaderOK(r)'
    BY <1>1, <1>a DEF Types, Typed, RequestTyped, RequestOK, Inside, Outside, ReaderOK, LockOK,
       Ended
  <2>7. AnswerOK(r)'
    BY <1>1, <1>a DEF Types, Typed, RequestTyped, RequestOK, Inside, Outside, AnswerOK, KindOK,
       LockOK, Ended
  <2> QED
    BY <2>1, <2>2, <2>3, <2>4, <2>5, <2>6, <2>7 DEF RequestOK
<1>6. SlotHeld' /\ StoredOK'
  <2>1. SlotHeld'
    BY <1>1 DEF SessionOK, SlotHeld
  <2>2. ASSUME NEW n \in Turns, stored'[n] # None PROVE n <= turn'
    <3>1. n \in Nat
      BY DEF Turns
    <3>2. CASE n = turn + 1 /\ turn' = turn + 1
      BY <3>1, <3>2
    <3>3. CASE ~(n = turn + 1 /\ turn' = turn + 1)
      BY <1>a, <1>1, <2>2, <3>1, <3>3 DEF Types, Typed, SessionOK, StoredOK
    <3>4. QED
      BY <3>2, <3>3
  <2>3. QED
    BY <2>1, <2>2 DEF StoredOK
<1>7. PollIsHonest'
  <2>1. ASSUME NEW n \in Turns, runs'[n] \in {"queued", "in_progress"} PROVE FALSE
    <3>1. PICK o \in Outcomes(q) : TRUE
      OBVIOUS
    <3>2. runs[n] = runs'[n] \/ n = next[q]
      BY <1>1 DEF Types, Typed
    <3>3. kind[q] = "background" /\ n = next[q]
      BY <1>a, <1>1, <2>1, <3>2 DEF Types, Typed, SessionOK, PollIsHonest
    <3>4. runs'[n] \in {"failed", None}
      BY <1>1, <3>3 DEF Types, Typed
    <3>5. QED
      BY <2>1, <3>4
  <2>2. QED
    BY <2>1 DEF PollIsHonest
<1>8. AnsweredOnce'
  BY <1>1, <1>a DEF Types, Typed, RequestTyped, SessionOK, AnsweredOnce, IsAnswer, RequestOK,
     LockOK, KindOK, AnswerOK, Inside, Outside, Ended
<1>9. Chains
  BY <1>1, <1>a DEF Types, Typed, SessionOK, Chains, StoredOK, RequestOK, NextOK, LockOK, Inside,
     Ended
<1>10. QED
  BY <1>2, <1>3, <1>4, <1>5, <1>6, <1>7, <1>8, <1>9 DEF IInv, Types, SessionOK

\* The consumer leaves.
LEMMA LeaveStep ==
    ASSUME IInv, NEW q \in Requests, Leave(q) PROVE IInv' /\ Chains
<1> USE TurnAssumption
<1> USE DEF Leave, To, IsAnswer, sessionVars, cliVars, controlVars, askVars, requestVars
<1>1. Types /\ SessionOK /\ \A r \in Requests : RequestOK(r)
  BY DEF IInv
<1>2. Typed'
  BY <1>1 DEF Types, Typed, RequestTyped, RequestOK, LockOK, NextOK, Inside, Outside, Ended
<1>3. StreamTyped'
  BY <1>1 DEF Types, StreamTyped, Results, Typed
<1>4. RequestTyped'
  BY <1>1 DEF Types, Typed, StreamTyped, RequestTyped, Inside, Outside, Ended, Kinds, Results
<1>5. ASSUME NEW r \in Requests PROVE RequestOK(r)'
  <2>1. LockOK(r)'
    BY <1>1 DEF Types, Typed, RequestTyped, RequestOK, Inside, Outside, LockOK, Ended
  <2>2. KindOK(r)'
    BY <1>1 DEF Types, Typed, RequestTyped, RequestOK, Inside, Outside, KindOK, LockOK, Ended, Kinds
  <2>3. NextOK(r)'
    BY <1>1 DEF Types, Typed, RequestTyped, RequestOK, Inside, Outside, NextOK, LockOK, Ended
  <2>4. SlotOK(r)'
    BY <1>1 DEF Types, Typed, RequestTyped, RequestOK, Inside, Outside, SlotOK, SlotHeld, SessionOK,
       LockOK, KindOK, Ended, Kinds
  <2>5. ClientOK(r)'
    BY <1>1 DEF Types, Typed, RequestTyped, RequestOK, Inside, Outside, ClientOK, LockOK, Ended
  <2>6. ReaderOK(r)'
    BY <1>1 DEF Types, Typed, RequestTyped, RequestOK, Inside, Outside, ReaderOK, LockOK, Ended
  <2>7. AnswerOK(r)'
    BY <1>1 DEF Types, Typed, RequestTyped, RequestOK, Inside, Outside, AnswerOK, KindOK, LockOK,
       Ended
  <2> QED
    BY <2>1, <2>2, <2>3, <2>4, <2>5, <2>6, <2>7 DEF RequestOK
<1>6. SlotHeld' /\ StoredOK'
  BY <1>1 DEF Types, Typed, RequestTyped, SessionOK, SlotHeld, StoredOK, RequestOK, LockOK, NextOK,
     SlotOK, KindOK, Inside, Outside, Ended, Kinds
<1>7. PollIsHonest'
  BY <1>1 DEF Types, Typed, RequestTyped, SessionOK, PollIsHonest, RequestOK, LockOK, KindOK,
     Inside, Outside, Ended, Kinds
<1>8. AnsweredOnce'
  BY <1>1 DEF Types, Typed, RequestTyped, SessionOK, AnsweredOnce, IsAnswer, RequestOK, LockOK,
     KindOK, AnswerOK, Inside, Outside, Ended
<1>9. Chains
  BY <1>1 DEF Types, Typed, SessionOK, Chains, StoredOK, RequestOK, NextOK, LockOK, Inside, Ended
<1>10. QED
  BY <1>2, <1>3, <1>4, <1>5, <1>6, <1>7, <1>8, <1>9 DEF IInv, Types, SessionOK

\* A failed turn drops its client.
LEMMA DropStep ==
    ASSUME IInv, NEW q \in Requests, Drop(q) PROVE IInv' /\ Chains
<1> USE TurnAssumption
<1> USE DEF Drop, To, DropClient, sessionVars, cliVars, controlVars, askVars, requestVars
<1>1. Types /\ SessionOK /\ \A r \in Requests : RequestOK(r)
  BY DEF IInv
<1>2. Typed'
  BY <1>1 DEF Types, Typed, RequestTyped, RequestOK, LockOK, NextOK, Inside, Outside, Ended
<1>3. StreamTyped'
  BY <1>1 DEF Types, StreamTyped, Results, Typed
<1>4. RequestTyped'
  BY <1>1 DEF Types, Typed, StreamTyped, RequestTyped, Inside, Outside, Ended, Kinds, Results
<1>5. ASSUME NEW r \in Requests PROVE RequestOK(r)'
  <2>1. LockOK(r)'
    BY <1>1 DEF Types, Typed, RequestTyped, RequestOK, Inside, Outside, LockOK, Ended
  <2>2. KindOK(r)'
    BY <1>1 DEF Types, Typed, RequestTyped, RequestOK, Inside, Outside, KindOK, LockOK, Ended, Kinds
  <2>3. NextOK(r)'
    BY <1>1 DEF Types, Typed, RequestTyped, RequestOK, Inside, Outside, NextOK, LockOK, Ended
  <2>4. SlotOK(r)'
    BY <1>1 DEF Types, Typed, RequestTyped, RequestOK, Inside, Outside, SlotOK, SlotHeld, SessionOK,
       LockOK, KindOK, Ended, Kinds
  <2>5. ClientOK(r)'
    BY <1>1 DEF Types, Typed, RequestTyped, RequestOK, Inside, Outside, ClientOK, LockOK, Ended
  <2>6. ReaderOK(r)'
    BY <1>1 DEF Types, Typed, RequestTyped, RequestOK, Inside, Outside, ReaderOK, LockOK, Ended
  <2>7. AnswerOK(r)'
    BY <1>1 DEF Types, Typed, RequestTyped, RequestOK, Inside, Outside, AnswerOK, KindOK, LockOK,
       Ended
  <2> QED
    BY <2>1, <2>2, <2>3, <2>4, <2>5, <2>6, <2>7 DEF RequestOK
<1>6. SlotHeld' /\ StoredOK'
  BY <1>1 DEF Types, Typed, RequestTyped, SessionOK, SlotHeld, StoredOK, RequestOK, LockOK, NextOK,
     SlotOK, KindOK, Inside, Outside, Ended, Kinds
<1>7. PollIsHonest'
  BY <1>1 DEF Types, Typed, RequestTyped, SessionOK, PollIsHonest, RequestOK, LockOK, KindOK,
     Inside, Outside, Ended, Kinds
<1>8. AnsweredOnce'
  BY <1>1 DEF Types, Typed, RequestTyped, SessionOK, AnsweredOnce, IsAnswer, RequestOK, LockOK,
     KindOK, AnswerOK, Inside, Outside, Ended
<1>9. Chains
  BY <1>1 DEF Types, Typed, SessionOK, Chains, StoredOK, RequestOK, NextOK, LockOK, Inside, Ended
<1>10. QED
  BY <1>2, <1>3, <1>4, <1>5, <1>6, <1>7, <1>8, <1>9 DEF IInv, Types, SessionOK

\* A failed plain turn ends.
LEMMA FailSyncStep ==
    ASSUME IInv, NEW q \in Requests, FailSync(q) PROVE IInv' /\ Chains
<1> USE TurnAssumption
<1> USE DEF FailSync, To, DropClient, sessionVars, cliVars, controlVars, askVars, requestVars
<1>1. Types /\ SessionOK /\ \A r \in Requests : RequestOK(r)
  BY DEF IInv
<1>2. Typed'
  BY <1>1 DEF Types, Typed, RequestTyped, RequestOK, LockOK, NextOK, Inside, Outside, Ended
<1>3. StreamTyped'
  BY <1>1 DEF Types, StreamTyped, Results, Typed
<1>4. RequestTyped'
  BY <1>1 DEF Types, Typed, StreamTyped, RequestTyped, Inside, Outside, Ended, Kinds, Results
<1>5. ASSUME NEW r \in Requests PROVE RequestOK(r)'
  <2>1. LockOK(r)'
    BY <1>1 DEF Types, Typed, RequestTyped, RequestOK, Inside, Outside, LockOK, Ended
  <2>2. KindOK(r)'
    BY <1>1 DEF Types, Typed, RequestTyped, RequestOK, Inside, Outside, KindOK, LockOK, Ended, Kinds
  <2>3. NextOK(r)'
    BY <1>1 DEF Types, Typed, RequestTyped, RequestOK, Inside, Outside, NextOK, LockOK, Ended
  <2>4. SlotOK(r)'
    BY <1>1 DEF Types, Typed, RequestTyped, RequestOK, Inside, Outside, SlotOK, SlotHeld, SessionOK,
       LockOK, KindOK, Ended, Kinds
  <2>5. ClientOK(r)'
    BY <1>1 DEF Types, Typed, RequestTyped, RequestOK, Inside, Outside, ClientOK, LockOK, Ended
  <2>6. ReaderOK(r)'
    BY <1>1 DEF Types, Typed, RequestTyped, RequestOK, Inside, Outside, ReaderOK, LockOK, Ended
  <2>7. AnswerOK(r)'
    BY <1>1 DEF Types, Typed, RequestTyped, RequestOK, Inside, Outside, AnswerOK, KindOK, LockOK,
       Ended
  <2> QED
    BY <2>1, <2>2, <2>3, <2>4, <2>5, <2>6, <2>7 DEF RequestOK
<1>6. SlotHeld' /\ StoredOK'
  BY <1>1 DEF Types, Typed, RequestTyped, SessionOK, SlotHeld, StoredOK, RequestOK, LockOK, NextOK,
     SlotOK, KindOK, Inside, Outside, Ended, Kinds
<1>7. PollIsHonest'
  BY <1>1 DEF Types, Typed, RequestTyped, SessionOK, PollIsHonest, RequestOK, LockOK, KindOK,
     Inside, Outside, Ended, Kinds
<1>8. AnsweredOnce'
  BY <1>1 DEF Types, Typed, RequestTyped, SessionOK, AnsweredOnce, IsAnswer, RequestOK, LockOK,
     KindOK, AnswerOK, Inside, Outside, Ended
<1>9. Chains
  BY <1>1 DEF Types, Typed, SessionOK, Chains, StoredOK, RequestOK, NextOK, LockOK, Inside, Ended
<1>10. QED
  BY <1>2, <1>3, <1>4, <1>5, <1>6, <1>7, <1>8, <1>9 DEF IInv, Types, SessionOK

\* A turn ends.
LEMMA FinishStep ==
    ASSUME IInv, NEW q \in Requests, Finish(q) PROVE IInv' /\ Chains
<1> USE TurnAssumption
<1> USE DEF Finish, To, Resumed, sessionVars, cliVars, controlVars, askVars, requestVars
<1>1. Types /\ SessionOK /\ \A r \in Requests : RequestOK(r)
  BY DEF IInv
<1>2. Typed'
  BY <1>1 DEF Types, Typed, RequestTyped, RequestOK, LockOK, NextOK, Inside, Outside, Ended
<1>3. StreamTyped'
  BY <1>1 DEF Types, StreamTyped, Results, Typed
<1>4. RequestTyped'
  BY <1>1 DEF Types, Typed, StreamTyped, RequestTyped, Inside, Outside, Ended, Kinds, Results
<1>5. ASSUME NEW r \in Requests PROVE RequestOK(r)'
  <2>1. LockOK(r)'
    BY <1>1 DEF Types, Typed, RequestTyped, RequestOK, Inside, Outside, LockOK, Ended
  <2>2. KindOK(r)'
    BY <1>1 DEF Types, Typed, RequestTyped, RequestOK, Inside, Outside, KindOK, LockOK, Ended, Kinds
  <2>3. NextOK(r)'
    BY <1>1 DEF Types, Typed, RequestTyped, RequestOK, Inside, Outside, NextOK, LockOK, Ended
  <2>4. SlotOK(r)'
    BY <1>1 DEF Types, Typed, RequestTyped, RequestOK, Inside, Outside, SlotOK, SlotHeld, SessionOK,
       LockOK, KindOK, Ended, Kinds
  <2>5. ClientOK(r)'
    BY <1>1 DEF Types, Typed, RequestTyped, RequestOK, Inside, Outside, ClientOK, LockOK, Ended
  <2>6. ReaderOK(r)'
    BY <1>1 DEF Types, Typed, RequestTyped, RequestOK, Inside, Outside, ReaderOK, LockOK, Ended
  <2>7. AnswerOK(r)'
    BY <1>1 DEF Types, Typed, RequestTyped, RequestOK, Inside, Outside, AnswerOK, KindOK, LockOK,
       Ended
  <2> QED
    BY <2>1, <2>2, <2>3, <2>4, <2>5, <2>6, <2>7 DEF RequestOK
<1>6. SlotHeld' /\ StoredOK'
  BY <1>1 DEF Types, Typed, RequestTyped, SessionOK, SlotHeld, StoredOK, RequestOK, LockOK, NextOK,
     SlotOK, KindOK, Inside, Outside, Ended, Kinds
<1>7. PollIsHonest'
  BY <1>1 DEF Types, Typed, RequestTyped, SessionOK, PollIsHonest, RequestOK, LockOK, KindOK,
     Inside, Outside, Ended, Kinds
<1>8. AnsweredOnce'
  BY <1>1 DEF Types, Typed, RequestTyped, SessionOK, AnsweredOnce, IsAnswer, RequestOK, LockOK,
     KindOK, AnswerOK, Inside, Outside, Ended
<1>9. Chains
  BY <1>1 DEF Types, Typed, SessionOK, Chains, StoredOK, RequestOK, NextOK, LockOK, Inside, Ended
<1>10. QED
  BY <1>2, <1>3, <1>4, <1>5, <1>6, <1>7, <1>8, <1>9 DEF IInv, Types, SessionOK

\* A cancel changes only the state of the slot.
LEMMA CancelStep ==
    ASSUME IInv, Cancel PROVE IInv' /\ Chains
<1>1. StreamTyped'
  BY DEF IInv, Types, StreamTyped, Cancel, cliVars
<1>2. UNCHANGED watched
  BY DEF watched, Cancel, sessionVars, cliVars, askVars, requestVars
<1>3. QED
  BY <1>1, <1>2, StreamOnly

\* An interrupt ends a run.
LEMMA InterruptedStep ==
    ASSUME IInv, Interrupted PROVE IInv' /\ Chains
<1> USE TurnAssumption
<1> USE DEF Interrupted, sessionVars, cliVars, controlVars, askVars, requestVars
<1>1. Types /\ SessionOK /\ \A r \in Requests : RequestOK(r)
  BY DEF IInv
<1>a. work # <<>> => Head(work) \in Requests \cup {None} /\ Tail(work) \in Seq(Requests \cup {None})
  BY <1>1 DEF Types, StreamTyped
<1>2. Typed'
  BY <1>1, <1>a DEF Types, Typed, RequestTyped, RequestOK, LockOK, NextOK, Inside, Outside, Ended
<1>3. StreamTyped'
  <2>1. CASE UNCHANGED <<unread, work>>
    BY <1>1, <2>1 DEF Types, StreamTyped
  <2>2. CASE work # <<>> /\ unread' = Append(unread, [of |-> Head(work), how |-> "cut"])
             /\ work' = Tail(work)
    <3>1. [of |-> Head(work), how |-> "cut"] \in Results
      BY <1>a, <2>2 DEF Results
    <3>2. QED
      BY <1>1, <1>a, <2>2, <3>1 DEF Types, StreamTyped
  <2>3. QED
    BY <2>1, <2>2
<1>4. RequestTyped'
  BY <1>1, <1>a DEF Types, Typed, StreamTyped, RequestTyped, Inside, Outside, Ended, Kinds, Results
<1>5. ASSUME NEW r \in Requests PROVE RequestOK(r)'
  <2>1. LockOK(r)'
    BY <1>1, <1>a DEF Types, Typed, RequestTyped, RequestOK, Inside, Outside, LockOK, Ended
  <2>2. KindOK(r)'
    BY <1>1, <1>a DEF Types, Typed, RequestTyped, RequestOK, Inside, Outside, KindOK, LockOK, Ended,
       Kinds
  <2>3. NextOK(r)'
    BY <1>1, <1>a DEF Types, Typed, RequestTyped, RequestOK, Inside, Outside, NextOK, LockOK, Ended
  <2>4. SlotOK(r)'
    BY <1>1, <1>a DEF Types, Typed, RequestTyped, RequestOK, Inside, Outside, SlotOK, SlotHeld,
       SessionOK, LockOK, KindOK, Ended, Kinds
  <2>5. ClientOK(r)'
    BY <1>1, <1>a DEF Types, Typed, RequestTyped, RequestOK, Inside, Outside, ClientOK, LockOK,
       Ended
  <2>6. ReaderOK(r)'
    BY <1>1, <1>a DEF Types, Typed, RequestTyped, RequestOK, Inside, Outside, ReaderOK, LockOK,
       Ended
  <2>7. AnswerOK(r)'
    BY <1>1, <1>a DEF Types, Typed, RequestTyped, RequestOK, Inside, Outside, AnswerOK, KindOK,
       LockOK, Ended
  <2> QED
    BY <2>1, <2>2, <2>3, <2>4, <2>5, <2>6, <2>7 DEF RequestOK
<1>6. SlotHeld' /\ StoredOK'
  BY <1>1, <1>a DEF Types, Typed, RequestTyped, SessionOK, SlotHeld, StoredOK, RequestOK, LockOK,
     NextOK, SlotOK, KindOK, Inside, Outside, Ended, Kinds
<1>7. PollIsHonest'
  BY <1>1, <1>a DEF Types, Typed, RequestTyped, SessionOK, PollIsHonest, RequestOK, LockOK, KindOK,
     Inside, Outside, Ended, Kinds
<1>8. AnsweredOnce'
  BY <1>1, <1>a DEF Types, Typed, RequestTyped, SessionOK, AnsweredOnce, IsAnswer, RequestOK,
     LockOK, KindOK, AnswerOK, Inside, Outside, Ended
<1>9. Chains
  BY <1>1, <1>a DEF Types, Typed, SessionOK, Chains, StoredOK, RequestOK, NextOK, LockOK, Inside,
     Ended
<1>10. QED
  BY <1>2, <1>3, <1>4, <1>5, <1>6, <1>7, <1>8, <1>9 DEF IInv, Types, SessionOK

\* A failed interrupt changes only the state of the slot.
LEMMA InterruptFailsStep ==
    ASSUME IInv, InterruptFails PROVE IInv' /\ Chains
<1>1. StreamTyped'
  BY DEF IInv, Types, StreamTyped, InterruptFails, cliVars
<1>2. UNCHANGED watched
  BY DEF watched, InterruptFails, sessionVars, cliVars, askVars, requestVars
<1>3. QED
  BY <1>1, <1>2, StreamOnly

\* A run ends.
LEMMA CliEndsStep ==
    ASSUME IInv, CliEnds PROVE IInv' /\ Chains
<1>1. StreamTyped'
  <2>1. ASSUME NEW how \in {"ok", "bad"} PROVE [of |-> Head(work), how |-> how] \in Results
    BY DEF IInv, Types, StreamTyped, CliEnds, Working, Results
  <2>2. QED
    BY <2>1 DEF IInv, Types, StreamTyped, CliEnds, Working
<1>2. UNCHANGED watched
  BY DEF watched, CliEnds, sessionVars, askVars, requestVars
<1>3. QED
  BY <1>1, <1>2, StreamOnly

\* A run stops at a question with a new number.
LEMMA CliAsksStep ==
    ASSUME IInv, CliAsks PROVE IInv' /\ Chains
<1> USE TurnAssumption
<1> USE DEF CliAsks, Working, IsAnswer, sessionVars, cliVars, controlVars, askVars, requestVars
<1>1. Types /\ SessionOK /\ \A r \in Requests : RequestOK(r)
  BY DEF IInv
<1>2. Typed'
  BY <1>1 DEF Types, Typed, RequestTyped, RequestOK, LockOK, NextOK, Inside, Outside, Ended
<1>3. StreamTyped'
  BY <1>1 DEF Types, StreamTyped, Results, Typed
<1>4. RequestTyped'
  BY <1>1 DEF Types, Typed, StreamTyped, RequestTyped, Inside, Outside, Ended, Kinds, Results
<1>5. ASSUME NEW r \in Requests PROVE RequestOK(r)'
  <2>1. LockOK(r)'
    BY <1>1 DEF Types, Typed, RequestTyped, RequestOK, Inside, Outside, LockOK, Ended
  <2>2. KindOK(r)'
    BY <1>1 DEF Types, Typed, RequestTyped, RequestOK, Inside, Outside, KindOK, LockOK, Ended, Kinds
  <2>3. NextOK(r)'
    BY <1>1 DEF Types, Typed, RequestTyped, RequestOK, Inside, Outside, NextOK, LockOK, Ended
  <2>4. SlotOK(r)'
    BY <1>1 DEF Types, Typed, RequestTyped, RequestOK, Inside, Outside, SlotOK, SlotHeld, SessionOK,
       LockOK, KindOK, Ended, Kinds
  <2>5. ClientOK(r)'
    BY <1>1 DEF Types, Typed, RequestTyped, RequestOK, Inside, Outside, ClientOK, LockOK, Ended
  <2>6. ReaderOK(r)'
    BY <1>1 DEF Types, Typed, RequestTyped, RequestOK, Inside, Outside, ReaderOK, LockOK, Ended
  <2>7. AnswerOK(r)'
    BY <1>1 DEF Types, Typed, RequestTyped, RequestOK, Inside, Outside, AnswerOK, KindOK, LockOK,
       Ended
  <2> QED
    BY <2>1, <2>2, <2>3, <2>4, <2>5, <2>6, <2>7 DEF RequestOK
<1>6. SlotHeld' /\ StoredOK'
  BY <1>1 DEF Types, Typed, RequestTyped, SessionOK, SlotHeld, StoredOK, RequestOK, LockOK, NextOK,
     SlotOK, KindOK, Inside, Outside, Ended, Kinds
<1>7. PollIsHonest'
  BY <1>1 DEF Types, Typed, RequestTyped, SessionOK, PollIsHonest, RequestOK, LockOK, KindOK,
     Inside, Outside, Ended, Kinds
<1>8. AnsweredOnce'
  BY <1>1 DEF Types, Typed, RequestTyped, SessionOK, AnsweredOnce, IsAnswer, RequestOK, LockOK,
     KindOK, AnswerOK, Inside, Outside, Ended
<1>9. Chains
  BY <1>1 DEF Types, Typed, SessionOK, Chains, StoredOK, RequestOK, NextOK, LockOK, Inside, Ended
<1>10. QED
  BY <1>2, <1>3, <1>4, <1>5, <1>6, <1>7, <1>8, <1>9 DEF IInv, Types, SessionOK

\* A question times out.
LEMMA AskTimesOutStep ==
    ASSUME IInv, AskTimesOut PROVE IInv' /\ Chains
<1> USE TurnAssumption
<1> USE DEF AskTimesOut, sessionVars, cliVars, controlVars, askVars, requestVars
<1>1. Types /\ SessionOK /\ \A r \in Requests : RequestOK(r)
  BY DEF IInv
<1>2. Typed'
  BY <1>1 DEF Types, Typed, RequestTyped, RequestOK, LockOK, NextOK, Inside, Outside, Ended
<1>3. StreamTyped'
  BY <1>1 DEF Types, StreamTyped, Results, Typed
<1>4. RequestTyped'
  BY <1>1 DEF Types, Typed, StreamTyped, RequestTyped, Inside, Outside, Ended, Kinds, Results
<1>5. ASSUME NEW r \in Requests PROVE RequestOK(r)'
  <2>1. LockOK(r)'
    BY <1>1 DEF Types, Typed, RequestTyped, RequestOK, Inside, Outside, LockOK, Ended
  <2>2. KindOK(r)'
    BY <1>1 DEF Types, Typed, RequestTyped, RequestOK, Inside, Outside, KindOK, LockOK, Ended, Kinds
  <2>3. NextOK(r)'
    BY <1>1 DEF Types, Typed, RequestTyped, RequestOK, Inside, Outside, NextOK, LockOK, Ended
  <2>4. SlotOK(r)'
    BY <1>1 DEF Types, Typed, RequestTyped, RequestOK, Inside, Outside, SlotOK, SlotHeld, SessionOK,
       LockOK, KindOK, Ended, Kinds
  <2>5. ClientOK(r)'
    BY <1>1 DEF Types, Typed, RequestTyped, RequestOK, Inside, Outside, ClientOK, LockOK, Ended
  <2>6. ReaderOK(r)'
    BY <1>1 DEF Types, Typed, RequestTyped, RequestOK, Inside, Outside, ReaderOK, LockOK, Ended
  <2>7. AnswerOK(r)'
    BY <1>1 DEF Types, Typed, RequestTyped, RequestOK, Inside, Outside, AnswerOK, KindOK, LockOK,
       Ended
  <2> QED
    BY <2>1, <2>2, <2>3, <2>4, <2>5, <2>6, <2>7 DEF RequestOK
<1>6. SlotHeld' /\ StoredOK'
  BY <1>1 DEF Types, Typed, RequestTyped, SessionOK, SlotHeld, StoredOK, RequestOK, LockOK, NextOK,
     SlotOK, KindOK, Inside, Outside, Ended, Kinds
<1>7. PollIsHonest'
  BY <1>1 DEF Types, Typed, RequestTyped, SessionOK, PollIsHonest, RequestOK, LockOK, KindOK,
     Inside, Outside, Ended, Kinds
<1>8. AnsweredOnce'
  BY <1>1 DEF Types, Typed, RequestTyped, SessionOK, AnsweredOnce, IsAnswer, RequestOK, LockOK,
     KindOK, AnswerOK, Inside, Outside, Ended
<1>9. Chains
  BY <1>1 DEF Types, Typed, SessionOK, Chains, StoredOK, RequestOK, NextOK, LockOK, Inside, Ended
<1>10. QED
  BY <1>2, <1>3, <1>4, <1>5, <1>6, <1>7, <1>8, <1>9 DEF IInv, Types, SessionOK

\* The CLI starts a run.
LEMMA ReinvokeStep ==
    ASSUME IInv, Reinvoke PROVE IInv' /\ Chains
<1>1. StreamTyped'
  <2>1. <<None>> \in Seq(Requests \cup {None})
    OBVIOUS
  <2>2. QED
    BY <2>1 DEF IInv, Types, StreamTyped, Reinvoke
<1>2. UNCHANGED watched
  BY DEF watched, Reinvoke, sessionVars, askVars, requestVars
<1>3. QED
  BY <1>1, <1>2, StreamOnly

\* The idle reader takes a message.
LEMMA IdleReadStep ==
    ASSUME IInv, IdleRead PROVE IInv' /\ Chains
<1>1. StreamTyped'
  BY DEF IInv, Types, StreamTyped, IdleRead
<1>2. UNCHANGED watched
  BY DEF watched, IdleRead, sessionVars, askVars, requestVars
<1>3. QED
  BY <1>1, <1>2, StreamOnly

\* A poll restarts the idle reader.
LEMMA PollStep ==
    ASSUME IInv, Poll PROVE IInv' /\ Chains
<1> USE TurnAssumption
<1> USE DEF Poll, sessionVars, cliVars, controlVars, askVars, requestVars
<1>1. Types /\ SessionOK /\ \A r \in Requests : RequestOK(r)
  BY DEF IInv
<1>2. Typed'
  BY <1>1 DEF Types, Typed, RequestTyped, RequestOK, LockOK, NextOK, Inside, Outside, Ended
<1>3. StreamTyped'
  BY <1>1 DEF Types, StreamTyped, Results, Typed
<1>4. RequestTyped'
  BY <1>1 DEF Types, Typed, StreamTyped, RequestTyped, Inside, Outside, Ended, Kinds, Results
<1>5. ASSUME NEW r \in Requests PROVE RequestOK(r)'
  <2>1. LockOK(r)'
    BY <1>1 DEF Types, Typed, RequestTyped, RequestOK, Inside, Outside, LockOK, Ended
  <2>2. KindOK(r)'
    BY <1>1 DEF Types, Typed, RequestTyped, RequestOK, Inside, Outside, KindOK, LockOK, Ended, Kinds
  <2>3. NextOK(r)'
    BY <1>1 DEF Types, Typed, RequestTyped, RequestOK, Inside, Outside, NextOK, LockOK, Ended
  <2>4. SlotOK(r)'
    BY <1>1 DEF Types, Typed, RequestTyped, RequestOK, Inside, Outside, SlotOK, SlotHeld, SessionOK,
       LockOK, KindOK, Ended, Kinds
  <2>5. ClientOK(r)'
    BY <1>1 DEF Types, Typed, RequestTyped, RequestOK, Inside, Outside, ClientOK, LockOK, Ended
  <2>6. ReaderOK(r)'
    BY <1>1 DEF Types, Typed, RequestTyped, RequestOK, Inside, Outside, ReaderOK, LockOK, Ended
  <2>7. AnswerOK(r)'
    BY <1>1 DEF Types, Typed, RequestTyped, RequestOK, Inside, Outside, AnswerOK, KindOK, LockOK,
       Ended
  <2> QED
    BY <2>1, <2>2, <2>3, <2>4, <2>5, <2>6, <2>7 DEF RequestOK
<1>6. SlotHeld' /\ StoredOK'
  BY <1>1 DEF Types, Typed, RequestTyped, SessionOK, SlotHeld, StoredOK, RequestOK, LockOK, NextOK,
     SlotOK, KindOK, Inside, Outside, Ended, Kinds
<1>7. PollIsHonest'
  BY <1>1 DEF Types, Typed, RequestTyped, SessionOK, PollIsHonest, RequestOK, LockOK, KindOK,
     Inside, Outside, Ended, Kinds
<1>8. AnsweredOnce'
  BY <1>1 DEF Types, Typed, RequestTyped, SessionOK, AnsweredOnce, IsAnswer, RequestOK, LockOK,
     KindOK, AnswerOK, Inside, Outside, Ended
<1>9. Chains
  BY <1>1 DEF Types, Typed, SessionOK, Chains, StoredOK, RequestOK, NextOK, LockOK, Inside, Ended
<1>10. QED
  BY <1>2, <1>3, <1>4, <1>5, <1>6, <1>7, <1>8, <1>9 DEF IInv, Types, SessionOK

LEMMA NextStep == ASSUME IInv, Next PROVE IInv' /\ Chains
<1>1. ASSUME NEW q \in Requests,
             \/ Arrive(q) \/ ArriveAnswer(q) \/ Lock(q) \/ RefuseLate(q) \/ EnsureClient(q)
             \/ Query(q) \/ Wake(q) \/ Read(q) \/ StreamFails(q) \/ TimeOut(q) \/ Tell(q)
             \/ CommitStream(q) \/ CommitAtOnce(q) \/ Leave(q)
             \/ Drop(q) \/ FailSync(q) \/ Finish(q)
      PROVE  IInv' /\ Chains
  BY <1>1, ArriveStep, ArriveAnswerStep, LockStep, RefuseLateStep, EnsureClientStep,
     QueryStep, WakeStep, ReadStep, StreamFailsStep, TimeOutStep, TellStep,
     CommitStreamStep, CommitAtOnceStep, LeaveStep, DropStep, FailSyncStep, FinishStep
<1>2. QED
  BY <1>1, CancelStep, InterruptedStep, InterruptFailsStep, CliEndsStep, CliAsksStep,
     AskTimesOutStep, ReinvokeStep, IdleReadStep, PollStep DEF Next

LEMMA Unmoved == ASSUME IInv, UNCHANGED vars PROVE IInv'
<1>1. StreamTyped'
  BY DEF IInv, Types, StreamTyped, vars, cliVars
<1>2. UNCHANGED watched
  BY DEF watched, vars, sessionVars, cliVars, askVars, requestVars
<1>3. QED
  BY <1>1, <1>2, StreamOnly

-----------------------------------------------------------------------------
\* The inductive invariant of the turns of a session.
THEOREM TurnInvariant == Spec => []IInv
<1>1. Init => IInv
  BY InitHolds
<1>2. IInv /\ [Next]_vars => IInv'
  BY NextStep, Unmoved
<1>3. QED
  BY <1>1, <1>2, PTL DEF Spec

\* acquire_session_preflight, add_response: the counter goes up one turn at a
\* time and a stored response is never replaced.
THEOREM TurnsChain == Spec => CommitsChain
<1>1. IInv /\ [Next]_vars => [Chains]_vars
  BY NextStep
<1>2. QED
  BY <1>1, TurnInvariant, PTL DEF Spec, CommitsChain, Chains

\* _begin_active_response: the slot is that of the turn that holds the lock.
THEOREM SlotIsHeld == Spec => []ActiveIsHeld
<1>1. IInv => ActiveIsHeld
  BY TurnAssumption DEF IInv, Types, Typed, SessionOK, SlotHeld, RequestOK, LockOK, SlotOK,
     ActiveIsHeld, Inside, Ended
<1>2. QED
  BY <1>1, TurnInvariant, PTL

\* _BACKGROUND_RUNS: no entry says that a turn is under way when it is not.
THEOREM PollsAreHonest == Spec => []PollIsHonest
<1>1. IInv => PollIsHonest
  BY DEF IInv, SessionOK
<1>2. QED
  BY <1>1, TurnInvariant, PTL

\* resume_idle_reader, resume_idle_reader_between_turns: one reader at a time.
THEOREM ReadsAlone == Spec => []OneReader
<1>1. IInv => OneReader
  BY DEF IInv, RequestOK, ReaderOK, OneReader
<1>2. QED
  BY <1>1, TurnInvariant, PTL

\* _disconnect_session_client: no turn loses its client to another one's end.
THEOREM ClientIsKept == Spec => []KeepsItsClient
<1>1. IInv => KeepsItsClient
  BY DEF IInv, RequestOK, ClientOK, KeepsItsClient
<1>2. QED
  BY <1>1, TurnInvariant, PTL

\* _unblock_pending_tool_call: a question is answered once.
THEOREM AnswersAreSingle == Spec => []AnsweredOnce
<1>1. IInv => AnsweredOnce
  BY DEF IInv, SessionOK
<1>2. QED
  BY <1>1, TurnInvariant, PTL

-----------------------------------------------------------------------------
(* A turn reads its own result. *)

\* A client that was made for these requests, before the CLI asked anything or
\* started a run by itself.
Fresh == asked = 0 /\ reinvoked = 0 /\ client # None /\ client # 0

\* Its CLI has nothing to do and nothing to say, or it has the run of the turn
\* under way, or that run's result: a turn that ends in another way than by
\* reading it takes the client with it.
Quiet == work = <<>> /\ unread = <<>>
OwnWork ==
    /\ lock # None /\ pc[lock] \in {"reading", "bad", "failing"} /\ using[lock] = client
    /\ \/ work = <<lock>> /\ unread = <<>>
       \/ work = <<>> /\ \E r \in Results : r.of = lock /\ unread = <<r>>
WorkIsOwn == Fresh => pending = None /\ (Quiet \/ OwnWork)

\* Nothing a turn's own steps change makes a client fresh that was not.
LEMMA SameClient ==
    ASSUME WorkIsOwn, UNCHANGED <<asked, reinvoked, client, pending, work, unread, lock, using>>,
           lock # None => (pc[lock] \in {"reading", "bad", "failing"} =>
                              pc'[lock] \in {"reading", "bad", "failing"})
    PROVE  WorkIsOwn'
<1>1. Fresh' => Fresh
  BY DEF Fresh
<1>2. Quiet => Quiet'
  BY DEF Quiet
<1>3. OwnWork => OwnWork'
  BY DEF OwnWork
<1>4. QED
  BY <1>1, <1>2, <1>3 DEF WorkIsOwn

\* What the invariant says of a request that is under way.
LEMMA Holder ==
    ASSUME IInv, NEW q \in Requests, pc[q] \in Inside
    PROVE  /\ lock = q /\ lock # None
           /\ pc[q] \in {"ready", "reading"} => client # None /\ using[q] = client
<1>1. QED
  BY TurnAssumption DEF IInv, RequestOK, LockOK, ClientOK

\* What is not under way changes nothing of it.
LEMMA OthersOwn ==
    ASSUME IInv, WorkIsOwn, NEW q \in Requests,
           UNCHANGED <<asked, reinvoked, client, pending, work, unread, using>>,
           NEW p, pc' = [pc EXCEPT ![q] = p], pc[q] \notin Inside,
           lock' = lock \/ lock = None
    PROVE  WorkIsOwn'
<1>1. lock # q
  BY DEF IInv, RequestOK, LockOK
<1>2. CASE lock = None
  <2>1. ~OwnWork
    BY <1>2 DEF OwnWork
  <2>2. QED
    BY <2>1 DEF WorkIsOwn, Fresh, Quiet
<1>3. CASE lock # None /\ lock' = lock
  <2>1. lock \in Requests /\ pc'[lock] = pc[lock]
    BY <1>1, <1>3 DEF IInv, Types, Typed, RequestTyped
  <2>2. QED
    BY <1>3, <2>1, SameClient
<1>4. QED
  BY <1>2, <1>3

\* The steps up to the prompt.
LEMMA OwnStart ==
    ASSUME IInv, WorkIsOwn, NEW q \in Requests,
           \/ Arrive(q) \/ ArriveAnswer(q) \/ Lock(q) \/ RefuseLate(q) \/ EnsureClient(q)
           \/ Query(q) \/ Wake(q)
    PROVE  WorkIsOwn'
<1> USE DEF To, sessionVars, cliVars, controlVars, askVars, requestVars
<1>1. CASE Arrive(q) \/ ArriveAnswer(q)
  <2>1. pc[q] = "new" /\ lock # q
    BY <1>1 DEF Arrive, ArriveAnswer, IInv, RequestOK, LockOK, Inside, Ended
  <2>2. QED
    BY <1>1, <2>1, OthersOwn DEF Arrive, ArriveAnswer, Refuse, Inside, Ended
<1>2. CASE Lock(q)
  <2>1. pc[q] = "waiting" /\ lock = None
    BY <1>2 DEF Lock
  <2>2. QED
    BY <1>2, <2>1, OthersOwn DEF Lock, Refuse, Inside, Ended
<1>3. CASE pc[q] \in {"locked", "ready"}
  <2>1. lock = q /\ ~OwnWork
    BY <1>3, Holder DEF OwnWork, Inside, Ended
  <2>2. Fresh => pending = None /\ work = <<>> /\ unread = <<>>
    BY <2>1 DEF WorkIsOwn, Quiet
  <2>3. CASE RefuseLate(q)
    BY <2>2, <2>3 DEF RefuseLate, StalePause, WorkIsOwn, Fresh, Quiet
  <2>4. CASE EnsureClient(q)
    <3>1. CASE client # None
      BY <2>2, <2>4, <3>1 DEF EnsureClient, StalePause, WorkIsOwn, Fresh, Quiet
    <3>2. CASE client = None
      BY <2>4, <3>2 DEF EnsureClient, NewClient, StalePause, WorkIsOwn, Quiet
    <3>3. QED
      BY <3>1, <3>2
  <2>5. CASE Query(q)
    <3>1. SUFFICES ASSUME Fresh' PROVE pending' = None /\ OwnWork'
      BY DEF WorkIsOwn
    <3>2. pending' = None /\ work = <<>> /\ unread = <<>>
      BY <2>2, <2>5, <3>1 DEF Query, Fresh
    <3>3. work' = <<q>> /\ unread' = <<>>
      BY <2>5, <3>2 DEF Query, Backlog
    <3>4. lock' = q /\ q # None /\ pc'[q] = "reading" /\ using'[q] = client'
      BY <2>1, <2>5, Holder DEF Query, IInv, Types, RequestTyped, Inside, Ended
    <3>5. QED
      BY <3>2, <3>3, <3>4 DEF OwnWork
  <2>6. CASE Wake(q)
    BY <2>2, <2>6 DEF Wake, Publish, WorkIsOwn, Fresh, Quiet
  <2>7. ~Arrive(q) /\ ~ArriveAnswer(q) /\ ~Lock(q)
    BY <1>3 DEF Arrive, ArriveAnswer, Lock
  <2>8. QED
    BY <2>3, <2>4, <2>5, <2>6, <2>7
<1>4. QED
  BY <1>1, <1>2, <1>3 DEF RefuseLate, EnsureClient, Query, Wake

\* The reading and its end.
LEMMA OwnRead ==
    ASSUME IInv, WorkIsOwn, NEW q \in Requests, Read(q) \/ StreamFails(q) \/ TimeOut(q) \/ Tell(q)
    PROVE  WorkIsOwn'
<1> USE DEF To, sessionVars, cliVars, controlVars, askVars, requestVars
<1>0. pc \in [Requests -> Inside \cup Outside] /\ pc[q] \in Inside /\ lock = q /\ lock # None
  BY Holder DEF Read, StreamFails, TimeOut, Tell, IInv, Types, RequestTyped, Inside, Ended
<1>1. CASE Read(q)
  <2>1. SUFFICES ASSUME Fresh' PROVE pending' = None /\ Quiet'
    BY DEF WorkIsOwn
  <2>2. Fresh /\ unread # <<>>
    BY <1>1, <2>1 DEF Read, Fresh
  <2>3. pending = None /\ OwnWork
    BY <2>2 DEF WorkIsOwn, Quiet
  <2>4. work = <<>> /\ \E r \in Results : unread = <<r>>
    BY <2>2, <2>3 DEF OwnWork
  <2>5. QED
    BY <1>1, <2>3, <2>4 DEF Read, Quiet
<1>2. CASE StreamFails(q)
  BY <1>2 DEF StreamFails, WorkIsOwn, Fresh
<1>3. CASE TimeOut(q)
  <2>1. pc'[q] \in {"bad", "failing"}
    BY <1>0, <1>3 DEF TimeOut, Stall, Fail
  <2>2. QED
    BY <1>0, <1>3, <2>1, SameClient DEF TimeOut
<1>4. CASE Tell(q)
  <2>1. /\ UNCHANGED <<asked, reinvoked, client, pending, work, unread, lock, using>>
        /\ pc[q] \in Ended
    BY <1>4 DEF Tell
  <2>2. CASE pc[q] = "bad" /\ pending = None
    <3>1. Outcomes(q) = {"failed"}
      BY <2>2 DEF Outcomes
    <3>2. pc'[q] = "failing"
      BY <1>0, <1>4, <3>1 DEF Tell, Fail
    <3>3. QED
      BY <1>0, <2>1, <3>2, SameClient
  <2>3. CASE pc[q] # "bad"
    BY <1>0, <2>1, <2>3, SameClient DEF Ended
  <2>4. CASE pending # None
    BY <2>1, <2>4 DEF WorkIsOwn, Fresh
  <2>5. QED
    BY <2>2, <2>3, <2>4
<1>5. QED
  BY <1>1, <1>2, <1>3, <1>4

\* The end of a turn.
LEMMA OwnEnd ==
    ASSUME IInv, WorkIsOwn, NEW q \in Requests,
           \/ CommitStream(q) \/ CommitAtOnce(q) \/ Leave(q) \/ Drop(q) \/ FailSync(q) \/ Finish(q)
    PROVE  WorkIsOwn'
<1> USE DEF To, sessionVars, cliVars, controlVars, askVars, requestVars
<1>0. /\ pc \in [Requests -> Inside \cup Outside] /\ pc[q] \in Inside
      /\ lock = q /\ lock # None
  BY Holder DEF CommitStream, CommitAtOnce, Leave, Drop, FailSync, Finish, IInv, Types,
     RequestTyped, Inside, Ended
<1>a. ASSUME UNCHANGED <<asked, reinvoked, client, pending, work, unread>>,
             pc[q] \notin {"reading", "bad", "failing"}
      PROVE  WorkIsOwn'
  BY <1>0, <1>a DEF WorkIsOwn, OwnWork, Quiet, Fresh
<1>1. CASE CommitStream(q)
  BY <1>1, <1>a DEF CommitStream
<1>2. CASE CommitAtOnce(q)
  <2>1. UNCHANGED <<asked, reinvoked, client, pending, work, unread, using>> /\ pc[q] \in Ended
    BY <1>2 DEF CommitAtOnce
  <2>2. CASE pc[q] # "bad"
    BY <1>a, <2>1, <2>2 DEF Ended
  <2>3. CASE pending # None
    BY <2>1, <2>3 DEF WorkIsOwn, Fresh
  <2>4. CASE pc[q] = "bad" /\ pending = None
    <3>1. Outcomes(q) = {"failed"}
      BY <2>4 DEF Outcomes
    <3>2. pc'[q] = "failing" /\ lock' = lock
      BY <1>0, <1>2, <3>1 DEF CommitAtOnce, Fail
    <3>3. QED
      BY <1>0, <2>1, <3>2, SameClient
  <2>5. QED
    BY <2>2, <2>3, <2>4
<1>3. CASE Leave(q)
  <2>1. CASE pc'[q] = "failing"
    BY <1>0, <1>3, <2>1, SameClient DEF Leave
  <2>2. CASE pc'[q] # "failing"
    BY <1>0, <1>3, <1>a, <2>2 DEF Leave
  <2>3. QED
    BY <2>1, <2>2
<1>4. CASE Drop(q) \/ FailSync(q)
  <2>1. UNCHANGED <<asked, reinvoked>> /\ DropClient(q)
    BY <1>4 DEF Drop, FailSync
  <2>2. CASE client = using[q]
    BY <2>1, <2>2 DEF DropClient, WorkIsOwn, Fresh
  <2>3. CASE client # using[q]
    <3>1. ~OwnWork
      BY <1>0, <2>3 DEF OwnWork
    <3>2. QED
      BY <2>1, <2>3, <3>1 DEF DropClient, WorkIsOwn, Fresh, Quiet
  <2>4. QED
    BY <2>2, <2>3
<1>5. CASE Finish(q)
  BY <1>5, <1>a DEF Finish
<1>6. QED
  BY <1>1, <1>2, <1>3, <1>4, <1>5

\* The steps nobody's request takes.
LEMMA OwnOthers ==
    ASSUME IInv, WorkIsOwn, reinvoked \in Nat,
           \/ Cancel \/ Interrupted \/ InterruptFails
           \/ CliEnds \/ CliAsks \/ AskTimesOut \/ Reinvoke \/ IdleRead \/ Poll
    PROVE  WorkIsOwn'
<1> USE DEF sessionVars, cliVars, controlVars, askVars, requestVars
<1>1. CASE Cancel \/ InterruptFails \/ Poll
  BY <1>1, SameClient DEF Cancel, InterruptFails, Poll
<1>2. CASE CliAsks
  BY <1>2 DEF CliAsks, WorkIsOwn, Fresh, IInv, Types, Typed
<1>3. CASE Reinvoke
  <2>1. reinvoked' # 0
    BY <1>3 DEF Reinvoke
  <2>2. QED
    BY <2>1 DEF WorkIsOwn, Fresh
<1>4. CASE AskTimesOut
  BY <1>4 DEF AskTimesOut, WorkIsOwn, Fresh
<1>5. ASSUME UNCHANGED <<asked, reinvoked, client, lock, pc, using>>, pending' \in {pending, None},
             unread' \in {unread, Tail(unread)}, work' = work,
             unread' = unread \/ unread # <<>>
      PROVE  WorkIsOwn'
  <2>1. SUFFICES ASSUME Fresh' PROVE pending' = None /\ (Quiet' \/ OwnWork')
    BY DEF WorkIsOwn
  <2>2. Fresh
    BY <1>5, <2>1 DEF Fresh
  <2>3. CASE unread' = unread
    BY <1>5, <2>2, <2>3 DEF WorkIsOwn, Quiet, OwnWork
  <2>4. CASE unread' = Tail(unread) /\ unread # <<>>
    <3>1. pending = None /\ OwnWork
      BY <2>2, <2>4 DEF WorkIsOwn, Quiet
    <3>2. work = <<>> /\ \E r \in Results : unread = <<r>>
      BY <2>4, <3>1 DEF OwnWork
    <3>3. QED
      BY <1>5, <2>4, <3>1, <3>2 DEF Quiet
  <2>5. QED
    BY <1>5, <2>3, <2>4
<1>6. CASE IdleRead
  BY <1>5, <1>6 DEF IdleRead
<1>7. ASSUME UNCHANGED <<asked, reinvoked, client, lock, pc, using>>, pending' \in {pending, None},
             work # <<>>, work' = Tail(work), NEW how \in {"ok", "bad", "cut"},
             unread' = Append(unread, [of |-> Head(work), how |-> how])
      PROVE  WorkIsOwn'
  <2>1. SUFFICES ASSUME Fresh' PROVE pending' = None /\ OwnWork'
    BY DEF WorkIsOwn
  <2>2. Fresh
    BY <1>7, <2>1 DEF Fresh
  <2>3. pending = None /\ OwnWork /\ work = <<lock>> /\ unread = <<>>
    BY <1>7, <2>2 DEF WorkIsOwn, Quiet, OwnWork
  <2>4. lock \in Requests
    BY <2>3 DEF OwnWork, IInv, Types, Typed
  <2>5. work' = <<>> /\ unread' = <<[of |-> lock, how |-> how]>>
    BY <1>7, <2>3
  <2>6. [of |-> lock, how |-> how] \in Results
    BY <2>4 DEF Results
  <2>7. QED
    BY <1>7, <2>3, <2>5, <2>6 DEF OwnWork
<1>8. CASE CliEnds
  BY <1>7, <1>8 DEF CliEnds, Working
<1>9. CASE Interrupted
  <2>1. CASE cancel.client = client /\ work # <<>>
    <3>1. unread' = Append(unread, [of |-> Head(work), how |-> "cut"])
      BY <1>9, <2>1 DEF Interrupted
    <3>2. QED
      BY <1>7, <1>9, <2>1, <3>1 DEF Interrupted
  <2>2. CASE ~(cancel.client = client /\ work # <<>>)
    BY <1>5, <1>9, <2>2 DEF Interrupted
  <2>3. QED
    BY <2>1, <2>2
<1>10. QED
  BY <1>1, <1>2, <1>3, <1>4, <1>6, <1>8, <1>9

\* run_completion_with_client: whatever earlier turns left, by a consumer that
\* went away, a failure, a timeout or a cancel, a turn of a fresh client is
\* ended by its own result, for any number of requests and cancels.
THEOREM ReadsItsOwn == Spec => OwnAnswer
<1> DEFINE Own == asked = 0 /\ reinvoked = 0 /\ client # 0 =>
                     \A q \in Requests : pc[q] = "reading" /\ pc'[q] = "ok" => Head(unread).of = q
<1>1. Init => WorkIsOwn /\ reinvoked \in Nat
  BY TurnAssumption DEF Init, WorkIsOwn, Fresh, Quiet
<1>2. IInv /\ WorkIsOwn /\ reinvoked \in Nat /\ [Next]_vars => WorkIsOwn' /\ reinvoked' \in Nat
  <2> SUFFICES ASSUME IInv, WorkIsOwn, reinvoked \in Nat, [Next]_vars
               PROVE  WorkIsOwn' /\ reinvoked' \in Nat
    OBVIOUS
  <2>0. reinvoked' \in Nat
    <3>1. UNCHANGED reinvoked => reinvoked' \in Nat
      OBVIOUS
    <3>2. Reinvoke => reinvoked' \in Nat
      BY DEF Reinvoke
    <3>3. ASSUME NEW q \in Requests,
                 \/ Arrive(q) \/ ArriveAnswer(q) \/ Lock(q) \/ RefuseLate(q) \/ EnsureClient(q)
                 \/ Query(q) \/ Wake(q) \/ Read(q) \/ StreamFails(q) \/ TimeOut(q)
                 \/ Tell(q) \/ CommitStream(q) \/ CommitAtOnce(q) \/ Leave(q)
                 \/ Drop(q) \/ FailSync(q) \/ Finish(q)
          PROVE  UNCHANGED reinvoked
      BY <3>3, Zenon DEF controlVars, Arrive, ArriveAnswer, Lock, RefuseLate, EnsureClient, Query,
         Wake, Read, StreamFails, TimeOut, Tell, CommitStream, CommitAtOnce, Leave, Drop, FailSync,
         Finish
    <3>4. ASSUME \/ Cancel \/ Interrupted \/ InterruptFails \/ CliEnds \/ CliAsks \/ AskTimesOut
                 \/ IdleRead \/ Poll \/ UNCHANGED vars
          PROVE  UNCHANGED reinvoked
      BY <3>4, Zenon DEF vars, controlVars, Cancel, Interrupted, InterruptFails, CliEnds, CliAsks,
         AskTimesOut, IdleRead, Poll
    <3>5. QED
      BY <3>1, <3>2, <3>3, <3>4 DEF Next
  <2>1. CASE UNCHANGED vars
    BY <2>1, SameClient DEF vars, sessionVars, cliVars, controlVars, askVars, requestVars
  <2>2. CASE Next
    BY <2>0, <2>2, OwnStart, OwnRead, OwnEnd, OwnOthers DEF Next
  <2>3. QED
    BY <2>0, <2>1, <2>2
<1>3. Spec => []WorkIsOwn
  <2> DEFINE J == WorkIsOwn /\ reinvoked \in Nat
  <2>1. Init => J
    BY <1>1
  <2>2. IInv /\ J /\ [Next]_vars => J'
    BY <1>2
  <2>3. J => WorkIsOwn
    OBVIOUS
  <2> HIDE DEF J
  <2>4. QED
    BY <2>1, <2>2, <2>3, TurnInvariant, PTL DEF Spec
<1>4. IInv /\ WorkIsOwn /\ [Next]_vars => Own
  <2> SUFFICES ASSUME IInv, WorkIsOwn, [Next]_vars, asked = 0, reinvoked = 0, client # 0,
                      NEW q \in Requests, pc[q] = "reading", pc'[q] = "ok"
               PROVE  Head(unread).of = q
    OBVIOUS
  <2>1. lock = q /\ client # None /\ pc \in [Requests -> Inside \cup Outside]
    BY Holder DEF Inside, IInv, Types, RequestTyped
  <2>2. Read(q)
    <3> USE DEF To, sessionVars, cliVars, controlVars, askVars, requestVars
    <3>1. ASSUME UNCHANGED pc PROVE FALSE
      BY <3>1
    <3>2. ASSUME NEW r \in Requests, r # q, NEW p, pc' = [pc EXCEPT ![r] = p] PROVE FALSE
      BY <2>1, <3>2
    <3>3. ASSUME NEW p, p # "ok", pc' = [pc EXCEPT ![q] = p] PROVE FALSE
      BY <2>1, <3>3
    <3>4. ~CliAsks
      BY <2>1 DEF CliAsks
    <3>5. PICK r \in Requests :
             \/ Arrive(r) \/ ArriveAnswer(r) \/ Lock(r) \/ RefuseLate(r) \/ EnsureClient(r)
             \/ Query(r) \/ Wake(r) \/ Read(r) \/ StreamFails(r) \/ TimeOut(r)
             \/ Tell(r) \/ CommitStream(r) \/ CommitAtOnce(r) \/ Leave(r)
             \/ Drop(r) \/ FailSync(r) \/ Finish(r)
      BY <3>1, <3>4 DEF Next, vars, Cancel, Interrupted, InterruptFails, CliEnds, AskTimesOut,
         Reinvoke, IdleRead, Poll
    <3>6. r = q
      BY <3>2, <3>5 DEF Arrive, ArriveAnswer, Lock, Refuse, RefuseLate, EnsureClient, Query, Wake,
         Read, StreamFails, TimeOut, Stall, Fail, Tell, CommitStream, CommitAtOnce, Leave, Drop,
         FailSync, Finish
    <3>7. QED
      BY <3>3, <3>5, <3>6 DEF Arrive, ArriveAnswer, Lock, RefuseLate, EnsureClient, Query, Wake,
         StreamFails, TimeOut, Stall, Fail, Tell, CommitStream, CommitAtOnce, Leave, Drop,
         FailSync, Finish, Ended
  <2>3. Fresh /\ unread # <<>>
    BY <2>1, <2>2 DEF Fresh, Read
  <2>4. OwnWork
    BY <2>3 DEF WorkIsOwn, Quiet
  <2>5. QED
    BY <2>1, <2>3, <2>4 DEF OwnWork
<1>5. Spec => [][Own]_vars
  BY <1>3, <1>4, TurnInvariant, PTL DEF Spec
<1>6. QED
  BY <1>5 DEF OwnAnswer
=============================================================================

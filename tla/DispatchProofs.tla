--------------------------- MODULE DispatchProofs ---------------------------
(***************************************************************************)
(* Proofs about Dispatch for every number of requests, dispatches, boots   *)
(* and ticks, and every AcceptWindow and Retention: a request's work is    *)
(* done at most once, and the client is told so.                           *)
(*                                                                         *)
(* The invariant says of each dispatch whether it can still run: a fenced  *)
(* dispatch is never admitted again (wrong boot, too old, or known to the  *)
(* ledger), a clean one has not run and never will.  Of the dispatches of  *)
(* one request all are clean but, at most, the current one.                *)
(***************************************************************************)
EXTENDS Dispatch, TLAPS

\* The ledger will not admit d, now or later.
Fenced(d) ==
    tboot[d] # boot \/ now - issued[d] > AcceptWindow \/ entry[d] # "absent"

\* d has done no work and will do none.
Clean(d) == Fenced(d) /\ d \notin serving /\ by[of[d]] # d

\* What is known of a dispatch d that was made: the id it carries,
IdOK(d) ==
    /\ of[d] \in Requests /\ tboot[d] <= boot /\ issued[d] <= now
    /\ entry[d] \in {"refused", "finished"} => written[d] >= issued[d]

\* its place in the app (admitted, and not run until it works),
PlaceOK(d) ==
    /\ d \in serving => /\ d \in arrived /\ entry[d] = "admitted" /\ tboot[d] = boot
                        /\ by[of[d]] # d /\ reply[d] = "none"
    /\ d \in working => entry[d] = "admitted" /\ by[of[d]] = d
    /\ d \notin arrived => entry[d] \in {"absent", "refused"} /\ reply[d] = "none"

\* its run (the ledger knows of it for as long as settle may ask),
KnownOK(d) ==
    /\ by[of[d]] = d => d \in arrived
    /\ by[of[d]] = d /\ tboot[d] = boot =>
          \/ entry[d] \in {"admitted", "finished"}
          \/ entry[d] = "absent" /\ now - issued[d] > Retention

\* and the target's word for it: what lets the sender try again is true for good.
WordOK(d) ==
    /\ reply[d] = "reroute" => Clean(d)
    /\ reply[d] = "result" => by[of[d]] = d
    /\ settle[d] = "refused" => Clean(d)

\* The run of a request is counted with the dispatch that did it.
RanOK(q) ==
    /\ ran[q] \in {0, 1}
    /\ ran[q] = 0 <=> by[q] = None

\* Only its current dispatch may run.
Pending(q) == pc[q] \in {"sent", "settling"} \/ answer[q] \in {"result", "unknown", "gone"}
CurOK(q) ==
    \A d \in Made : of[d] = q =>
       Clean(d) \/ (d = cur[q] /\ Pending(q) /\ by[q] \in {None, d})

\* What the sender's place in its loop says.
PcOK(q) ==
    /\ pc[q] \in {"sent", "settling"} =>
          cur[q] \in Made /\ of[cur[q]] = q /\ by[q] \in {None, cur[q]}
    /\ pc[q] \in {"idle", "route", "wait"} \/ answer[q] = "retry" => ran[q] = 0
    /\ answer[q] = "none" <=> pc[q] # "answered"
    /\ answer[q] = "result" => ran[q] = 1

UnmadeOK ==
    \A d \in Dispatches \ Made :
       entry[d] = "absent" /\ reply[d] = "none" /\ settle[d] = "none"

DispatchOK(d) == IdOK(d) /\ PlaceOK(d) /\ KnownOK(d) /\ WordOK(d)
RequestOK(q) == RanOK(q) /\ CurOK(q) /\ PcOK(q)

IInv ==
    /\ TypeOK
    /\ UnmadeOK
    /\ \A d \in Made : DispatchOK(d)
    /\ \A q \in Requests : RequestOK(q)

-----------------------------------------------------------------------------
\* The dispatches made so far are among the ids the model has.
LEMMA MadeFacts == ASSUME TypeOK PROVE Made \subseteq Dispatches
  BY DispatchAssumption DEF TypeOK, Made, Dispatches


\* Ledger.admit: only a dispatch that is neither fenced nor clean is admitted,
\* and a first refusal is for good.
LEMMA ReceiveStep ==
    ASSUME IInv, NEW d \in Dispatches, Receive(d), ReplayFor <= Retention
    PROVE  IInv'
<1> USE DispatchAssumption, MadeFacts DEF IInv
<1>1. TypeOK'
  <2>1. \A x \in Dispatches : Gc(x) \in {"absent", "admitted", "refused", "finished"}
    BY DEF TypeOK, Gc
  <2>2. /\ entry' \in [Dispatches -> {"absent", "admitted", "refused", "finished"}]
        /\ written' \in [Dispatches -> Nat]
    BY <2>1 DEF TypeOK, Receive, Write
  <2>3. arrived' \subseteq Made /\ serving' \subseteq Made
    BY DEF TypeOK, Receive
  <2>4. reply' \in [Dispatches -> {"none", "reroute", "result"}]
    BY DEF TypeOK, Receive
  <2>5. QED
    BY <2>2, <2>3, <2>4 DEF TypeOK, Receive, Made, idVars, senderVars
<1>2. UnmadeOK'
  BY DEF TypeOK, UnmadeOK, Made, Receive, idVars, senderVars, Write, Gc, InWindow
<1>3. ASSUME NEW x \in Made' PROVE DispatchOK(x)'
  <2>1. IdOK(x)'
    BY <1>3 DEF TypeOK, Made, DispatchOK, IdOK, Receive, idVars, senderVars, Write, Gc, InWindow
  <2>2. PlaceOK(x)'
    BY <1>3 DEF TypeOK, Made, DispatchOK, IdOK, PlaceOK, KnownOK, WordOK, Clean, Fenced,
         RequestOK, RanOK, CurOK, PcOK, Pending, Receive, idVars, senderVars, Write, Gc, InWindow
  <2>3. KnownOK(x)'
    BY <1>3 DEF TypeOK, Made, DispatchOK, IdOK, PlaceOK, KnownOK, Receive, idVars,
         senderVars, Write, Gc, InWindow
  <2>4. WordOK(x)'
    BY <1>3 DEF TypeOK, Made, DispatchOK, IdOK, PlaceOK, KnownOK, WordOK, Clean, Fenced,
         RequestOK, RanOK, CurOK, PcOK, Pending, Receive, idVars, senderVars, Write, Gc, InWindow
  <2>5. QED
    BY <2>1, <2>2, <2>3, <2>4 DEF DispatchOK
<1>4. ASSUME NEW p \in Requests PROVE RequestOK(p)'
  <2>1. RanOK(p)'
    BY <1>4 DEF TypeOK, Made, RequestOK, RanOK, Receive, idVars, senderVars, Write, Gc, InWindow
  <2>2. CurOK(p)'
    BY <1>4 DEF TypeOK, Made, DispatchOK, IdOK, PlaceOK, RequestOK, CurOK, Pending, Clean,
         Fenced, Receive, idVars, senderVars, Write, Gc, InWindow
  <2>3. PcOK(p)'
    BY <1>4 DEF TypeOK, Made, RequestOK, PcOK, Receive, idVars, senderVars, Write, Gc, InWindow
  <2>4. QED
    BY <2>1, <2>2, <2>3 DEF RequestOK
<1>5. QED
  BY <1>1, <1>2, <1>3, <1>4

\* A reroute by the app happens before any work.
LEMMA AppReroutesStep ==
    ASSUME IInv, NEW d \in Dispatches, AppReroutes(d)
    PROVE  IInv'
<1> USE DispatchAssumption, MadeFacts DEF IInv
<1>1. TypeOK'
  BY DEF TypeOK, Made, AppReroutes, idVars, senderVars, FinishEntry
<1>2. UnmadeOK'
  BY DEF TypeOK, UnmadeOK, Made, AppReroutes, idVars, senderVars, FinishEntry
<1>3. ASSUME NEW x \in Made' PROVE DispatchOK(x)'
  <2>1. IdOK(x)'
    BY <1>3 DEF TypeOK, Made, DispatchOK, IdOK, AppReroutes, idVars, senderVars, FinishEntry
  <2>2. PlaceOK(x)'
    BY <1>3 DEF TypeOK, Made, DispatchOK, IdOK, PlaceOK, KnownOK, AppReroutes, idVars,
         senderVars, FinishEntry
  <2>3. KnownOK(x)'
    BY <1>3 DEF TypeOK, Made, DispatchOK, IdOK, PlaceOK, KnownOK, AppReroutes, idVars,
         senderVars, FinishEntry
  <2>4. WordOK(x)'
    BY <1>3 DEF TypeOK, Made, DispatchOK, IdOK, PlaceOK, WordOK, Clean, Fenced, AppReroutes,
         idVars, senderVars, FinishEntry
  <2>5. QED
    BY <2>1, <2>2, <2>3, <2>4 DEF DispatchOK
<1>4. ASSUME NEW p \in Requests PROVE RequestOK(p)'
  <2>1. RanOK(p)'
    BY <1>4 DEF TypeOK, Made, RequestOK, RanOK, AppReroutes, idVars, senderVars, FinishEntry
  <2>2. CurOK(p)'
    BY <1>4 DEF TypeOK, Made, DispatchOK, IdOK, PlaceOK, RequestOK, CurOK, Pending, Clean,
         Fenced, AppReroutes, idVars, senderVars, FinishEntry
  <2>3. PcOK(p)'
    BY <1>4 DEF TypeOK, Made, RequestOK, PcOK, AppReroutes, idVars, senderVars, FinishEntry
  <2>4. QED
    BY <2>1, <2>2, <2>3 DEF RequestOK
<1>5. QED
  BY <1>1, <1>2, <1>3, <1>4

\* The work is the request's first: every other dispatch of it is clean.
LEMMA WorkStep ==
    ASSUME IInv, NEW d \in Dispatches, Work(d)
    PROVE  IInv'
<1> USE DispatchAssumption, MadeFacts DEF IInv
<1>1. TypeOK'
  <2>1. d \in Made /\ of[d] \in Requests /\ d \in 0..MaxDispatch
    BY DEF TypeOK, Work, DispatchOK, IdOK, Dispatches
  <2>2. /\ ran' \in [Requests -> Nat]
        /\ by' \in [Requests -> 0..MaxDispatch \cup {None}]
    BY <2>1 DEF TypeOK, Work
  <2>3. QED
    BY <2>1, <2>2 DEF TypeOK, Work, Made, idVars, ledgerVars, senderVars
<1>2. UnmadeOK'
  BY DEF TypeOK, UnmadeOK, Made, Work, idVars, ledgerVars, senderVars
<1>3. ASSUME NEW x \in Made' PROVE DispatchOK(x)'
  <2>1. IdOK(x)'
    BY <1>3 DEF TypeOK, Made, DispatchOK, IdOK, Work, idVars, ledgerVars, senderVars
  <2>2. PlaceOK(x)'
    BY <1>3 DEF TypeOK, Made, DispatchOK, IdOK, PlaceOK, KnownOK, WordOK, Clean, Fenced,
         RequestOK, RanOK, CurOK, PcOK, Pending, Work, idVars, ledgerVars, senderVars
  <2>3. KnownOK(x)'
    BY <1>3 DEF TypeOK, Made, DispatchOK, IdOK, PlaceOK, KnownOK, Work, idVars, ledgerVars,
         senderVars
  <2>4. WordOK(x)'
    BY <1>3 DEF TypeOK, Made, DispatchOK, IdOK, PlaceOK, KnownOK, WordOK, Clean, Fenced,
         RequestOK, RanOK, CurOK, PcOK, Pending, Work, idVars, ledgerVars, senderVars
  <2>5. QED
    BY <2>1, <2>2, <2>3, <2>4 DEF DispatchOK
<1>4. ASSUME NEW p \in Requests PROVE RequestOK(p)'
  <2>1. RanOK(p)'
    BY <1>4 DEF TypeOK, Made, DispatchOK, IdOK, PlaceOK, KnownOK, WordOK, Clean, Fenced,
         RequestOK, RanOK, CurOK, PcOK, Pending, Work, idVars, ledgerVars, senderVars
  <2>2. CurOK(p)'
    BY <1>4 DEF TypeOK, Made, DispatchOK, IdOK, PlaceOK, RequestOK, CurOK, Pending, Clean,
         Fenced, Work, idVars, ledgerVars, senderVars
  <2>3. PcOK(p)'
    BY <1>4 DEF TypeOK, Made, DispatchOK, IdOK, PlaceOK, KnownOK, WordOK, Clean, Fenced,
         RequestOK, RanOK, CurOK, PcOK, Pending, Work, idVars, ledgerVars, senderVars
  <2>4. QED
    BY <2>1, <2>2, <2>3 DEF RequestOK
<1>5. QED
  BY <1>1, <1>2, <1>3, <1>4

\* Ledger.finish keeps the dispatch fenced.
LEMMA AppDoneStep ==
    ASSUME IInv, NEW d \in Dispatches, AppDone(d)
    PROVE  IInv'
<1> USE DispatchAssumption, MadeFacts DEF IInv
<1>1. TypeOK'
  BY DEF TypeOK, Made, AppDone, idVars, senderVars, FinishEntry
<1>2. UnmadeOK'
  BY DEF TypeOK, UnmadeOK, Made, AppDone, idVars, senderVars, FinishEntry
<1>3. ASSUME NEW x \in Made' PROVE DispatchOK(x)'
  <2>1. IdOK(x)'
    BY <1>3 DEF TypeOK, Made, DispatchOK, IdOK, AppDone, idVars, senderVars, FinishEntry
  <2>2. PlaceOK(x)'
    BY <1>3 DEF TypeOK, Made, DispatchOK, IdOK, PlaceOK, KnownOK, AppDone, idVars,
         senderVars, FinishEntry
  <2>3. KnownOK(x)'
    BY <1>3 DEF TypeOK, Made, DispatchOK, IdOK, PlaceOK, KnownOK, AppDone, idVars,
         senderVars, FinishEntry
  <2>4. WordOK(x)'
    BY <1>3 DEF TypeOK, Made, DispatchOK, IdOK, PlaceOK, WordOK, Clean, Fenced, AppDone,
         idVars, senderVars, FinishEntry
  <2>5. QED
    BY <2>1, <2>2, <2>3, <2>4 DEF DispatchOK
<1>4. ASSUME NEW p \in Requests PROVE RequestOK(p)'
  <2>1. RanOK(p)'
    BY <1>4 DEF TypeOK, Made, RequestOK, RanOK, AppDone, idVars, senderVars, FinishEntry
  <2>2. CurOK(p)'
    BY <1>4 DEF TypeOK, Made, DispatchOK, IdOK, PlaceOK, RequestOK, CurOK, Pending, Clean,
         Fenced, AppDone, idVars, senderVars, FinishEntry
  <2>3. PcOK(p)'
    BY <1>4 DEF TypeOK, Made, RequestOK, PcOK, AppDone, idVars, senderVars, FinishEntry
  <2>4. QED
    BY <2>1, <2>2, <2>3 DEF RequestOK
<1>5. QED
  BY <1>1, <1>2, <1>3, <1>4

\* Ledger.settle: a dispatch settled as refused is clean.
LEMMA SettleArrivesStep ==
    ASSUME IInv, NEW d \in Dispatches, SettleArrives(d)
    PROVE  IInv'
<1> USE DispatchAssumption, MadeFacts DEF IInv
<1>1. TypeOK'
  <2>1. \A x \in Dispatches : Gc(x) \in {"absent", "admitted", "refused", "finished"}
    BY DEF TypeOK, Gc
  <2>2. /\ Verdict(d).says \in {"received", "refused", "unknown"}
        /\ Verdict(d).leaves \in {"absent", "admitted", "refused", "finished"}
    BY <2>1 DEF TypeOK, Verdict
  <2>3. settle' \in [Dispatches -> {"none", "asked", "received", "refused", "unknown"}]
    BY <2>2 DEF TypeOK, SettleArrives
  <2>4. /\ entry' \in [Dispatches -> {"absent", "admitted", "refused", "finished"}]
        /\ written' \in [Dispatches -> Nat]
    BY <2>1, <2>2 DEF TypeOK, SettleArrives, Write, ledgerVars
  <2>5. QED
    BY <2>3, <2>4 DEF TypeOK, SettleArrives, Made, idVars, senderVars
<1>2. UnmadeOK'
  BY DEF TypeOK, UnmadeOK, Made, SettleArrives, idVars, ledgerVars, senderVars, Write, Gc, Verdict
<1>3. ASSUME NEW x \in Made' PROVE DispatchOK(x)'
  <2>1. IdOK(x)'
    BY <1>3 DEF TypeOK, Made, DispatchOK, IdOK, SettleArrives, idVars, ledgerVars,
         senderVars, Write, Gc, Verdict
  <2>2. PlaceOK(x)'
    BY <1>3 DEF TypeOK, Made, DispatchOK, IdOK, PlaceOK, KnownOK, SettleArrives, idVars,
         ledgerVars, senderVars, Write, Gc, Verdict
  <2>3. KnownOK(x)'
    BY <1>3 DEF TypeOK, Made, DispatchOK, IdOK, PlaceOK, KnownOK, SettleArrives, idVars,
         ledgerVars, senderVars, Write, Gc, Verdict
  <2>4. WordOK(x)'
    BY <1>3 DEF TypeOK, Made, DispatchOK, IdOK, PlaceOK, KnownOK, WordOK, Clean, Fenced,
         RequestOK, RanOK, CurOK, PcOK, Pending, SettleArrives, idVars, ledgerVars, senderVars,
         Write, Gc, Verdict
  <2>5. QED
    BY <2>1, <2>2, <2>3, <2>4 DEF DispatchOK
<1>4. ASSUME NEW p \in Requests PROVE RequestOK(p)'
  <2>1. RanOK(p)'
    BY <1>4 DEF TypeOK, Made, RequestOK, RanOK, SettleArrives, idVars, ledgerVars,
         senderVars, Write, Gc, Verdict
  <2>2. CurOK(p)'
    BY <1>4 DEF TypeOK, Made, DispatchOK, IdOK, PlaceOK, RequestOK, CurOK, Pending, Clean,
         Fenced, SettleArrives, idVars, ledgerVars, senderVars, Write, Gc, Verdict
  <2>3. PcOK(p)'
    BY <1>4 DEF TypeOK, Made, RequestOK, PcOK, SettleArrives, idVars, ledgerVars, senderVars,
         Write, Gc, Verdict
  <2>4. QED
    BY <2>1, <2>2, <2>3 DEF RequestOK
<1>5. QED
  BY <1>1, <1>2, <1>3, <1>4

\* Another boot fences every dispatch of the one before.
LEMMA RestartStep ==
    ASSUME IInv, Restart
    PROVE  IInv'
<1> USE DispatchAssumption, MadeFacts DEF IInv
<1>1. TypeOK'
  BY DEF TypeOK, Made, Restart, idVars, senderVars
<1>2. UnmadeOK'
  BY DEF TypeOK, UnmadeOK, Made, Restart, idVars, senderVars
<1>3. ASSUME NEW x \in Made' PROVE DispatchOK(x)'
  <2>1. IdOK(x)'
    BY <1>3 DEF TypeOK, Made, DispatchOK, IdOK, Restart, idVars, senderVars
  <2>2. PlaceOK(x)'
    BY <1>3 DEF TypeOK, Made, DispatchOK, IdOK, PlaceOK, KnownOK, Restart, idVars, senderVars
  <2>3. KnownOK(x)'
    BY <1>3 DEF TypeOK, Made, DispatchOK, IdOK, PlaceOK, KnownOK, Restart, idVars, senderVars
  <2>4. WordOK(x)'
    BY <1>3 DEF TypeOK, Made, DispatchOK, IdOK, PlaceOK, WordOK, Clean, Fenced, Restart,
         idVars, senderVars
  <2>5. QED
    BY <2>1, <2>2, <2>3, <2>4 DEF DispatchOK
<1>4. ASSUME NEW p \in Requests PROVE RequestOK(p)'
  <2>1. RanOK(p)'
    BY <1>4 DEF TypeOK, Made, RequestOK, RanOK, Restart, idVars, senderVars
  <2>2. CurOK(p)'
    BY <1>4 DEF TypeOK, Made, DispatchOK, IdOK, PlaceOK, RequestOK, CurOK, Pending, Clean,
         Fenced, Restart, idVars, senderVars
  <2>3. PcOK(p)'
    BY <1>4 DEF TypeOK, Made, RequestOK, PcOK, Restart, idVars, senderVars
  <2>4. QED
    BY <2>1, <2>2, <2>3 DEF RequestOK
<1>5. QED
  BY <1>1, <1>2, <1>3, <1>4

\* Time only fences.
LEMMA TickStep ==
    ASSUME IInv, Tick
    PROVE  IInv'
<1> USE DispatchAssumption, MadeFacts DEF IInv
<1>1. TypeOK'
  BY DEF TypeOK, Made, Tick, targetVars, idVars, senderVars, ledgerVars
<1>2. UnmadeOK'
  BY DEF TypeOK, UnmadeOK, Made, Tick, targetVars, idVars, senderVars, ledgerVars
<1>3. ASSUME NEW x \in Made' PROVE DispatchOK(x)'
  <2>1. IdOK(x)'
    BY <1>3 DEF TypeOK, Made, DispatchOK, IdOK, Tick, targetVars, idVars, senderVars, ledgerVars
  <2>2. PlaceOK(x)'
    BY <1>3 DEF TypeOK, Made, DispatchOK, IdOK, PlaceOK, KnownOK, Tick, targetVars, idVars,
         senderVars, ledgerVars
  <2>3. KnownOK(x)'
    BY <1>3 DEF TypeOK, Made, DispatchOK, IdOK, PlaceOK, KnownOK, Tick, targetVars, idVars,
         senderVars, ledgerVars
  <2>4. WordOK(x)'
    BY <1>3 DEF TypeOK, Made, DispatchOK, IdOK, PlaceOK, WordOK, Clean, Fenced, Tick,
         targetVars, idVars, senderVars, ledgerVars
  <2>5. QED
    BY <2>1, <2>2, <2>3, <2>4 DEF DispatchOK
<1>4. ASSUME NEW p \in Requests PROVE RequestOK(p)'
  <2>1. RanOK(p)'
    BY <1>4 DEF TypeOK, Made, RequestOK, RanOK, Tick, targetVars, idVars, senderVars, ledgerVars
  <2>2. CurOK(p)'
    BY <1>4 DEF TypeOK, Made, DispatchOK, IdOK, PlaceOK, RequestOK, CurOK, Pending, Clean,
         Fenced, Tick, targetVars, idVars, senderVars, ledgerVars
  <2>3. PcOK(p)'
    BY <1>4 DEF TypeOK, Made, RequestOK, PcOK, Tick, targetVars, idVars, senderVars, ledgerVars
  <2>4. QED
    BY <2>1, <2>2, <2>3 DEF RequestOK
<1>5. QED
  BY <1>1, <1>2, <1>3, <1>4

\* The loop starts with no work done.
LEMMA ArriveStep ==
    ASSUME IInv, NEW q \in Requests, Arrive(q)
    PROVE  IInv'
<1> USE DispatchAssumption, MadeFacts DEF IInv
<1>1. TypeOK'
  BY DEF TypeOK, Made, Arrive, SenderOnly, Goto, targetVars, idVars, ledgerVars
<1>2. UnmadeOK'
  BY DEF TypeOK, UnmadeOK, Made, Arrive, SenderOnly, Goto, targetVars, idVars, ledgerVars
<1>3. ASSUME NEW x \in Made' PROVE DispatchOK(x)'
  <2>1. IdOK(x)'
    BY <1>3 DEF TypeOK, Made, DispatchOK, IdOK, Arrive, SenderOnly, Goto, targetVars, idVars,
         ledgerVars
  <2>2. PlaceOK(x)'
    BY <1>3 DEF TypeOK, Made, DispatchOK, IdOK, PlaceOK, KnownOK, Arrive, SenderOnly, Goto,
         targetVars, idVars, ledgerVars
  <2>3. KnownOK(x)'
    BY <1>3 DEF TypeOK, Made, DispatchOK, IdOK, PlaceOK, KnownOK, Arrive, SenderOnly, Goto,
         targetVars, idVars, ledgerVars
  <2>4. WordOK(x)'
    BY <1>3 DEF TypeOK, Made, DispatchOK, IdOK, PlaceOK, WordOK, Clean, Fenced, Arrive,
         SenderOnly, Goto, targetVars, idVars, ledgerVars
  <2>5. QED
    BY <2>1, <2>2, <2>3, <2>4 DEF DispatchOK
<1>4. ASSUME NEW p \in Requests PROVE RequestOK(p)'
  <2>1. RanOK(p)'
    BY <1>4 DEF TypeOK, Made, RequestOK, RanOK, Arrive, SenderOnly, Goto, targetVars, idVars,
         ledgerVars
  <2>2. CurOK(p)'
    BY <1>4 DEF TypeOK, Made, DispatchOK, IdOK, PlaceOK, RequestOK, CurOK, Pending, Clean,
         Fenced, Arrive, SenderOnly, Goto, targetVars, idVars, ledgerVars
  <2>3. PcOK(p)'
    BY <1>4 DEF TypeOK, Made, RequestOK, PcOK, Arrive, SenderOnly, Goto, targetVars, idVars,
         ledgerVars
  <2>4. QED
    BY <2>1, <2>2, <2>3 DEF RequestOK
<1>5. QED
  BY <1>1, <1>2, <1>3, <1>4

\* A request decided anew runs here for the first time.
LEMMA LocalStep ==
    ASSUME IInv, NEW q \in Requests, Local(q)
    PROVE  IInv'
<1> USE DispatchAssumption, MadeFacts DEF IInv
<1>1. TypeOK'
  BY DEF TypeOK, Made, Local, Tell, idVars, ledgerVars, Goto
<1>2. UnmadeOK'
  BY DEF TypeOK, UnmadeOK, Made, Local, Tell, idVars, ledgerVars, Goto
<1>3. ASSUME NEW x \in Made' PROVE DispatchOK(x)'
  <2>1. IdOK(x)'
    BY <1>3 DEF TypeOK, Made, DispatchOK, IdOK, Local, Tell, idVars, ledgerVars, Goto
  <2>2. PlaceOK(x)'
    BY <1>3 DEF TypeOK, Made, DispatchOK, IdOK, PlaceOK, KnownOK, WordOK, Clean, Fenced,
         RequestOK, RanOK, CurOK, PcOK, Pending, Local, Tell, idVars, ledgerVars, Goto
  <2>3. KnownOK(x)'
    BY <1>3 DEF TypeOK, Made, DispatchOK, IdOK, PlaceOK, KnownOK, Local, Tell, idVars,
         ledgerVars, Goto
  <2>4. WordOK(x)'
    BY <1>3 DEF TypeOK, Made, DispatchOK, IdOK, PlaceOK, KnownOK, WordOK, Clean, Fenced,
         RequestOK, RanOK, CurOK, PcOK, Pending, Local, Tell, idVars, ledgerVars, Goto
  <2>5. QED
    BY <2>1, <2>2, <2>3, <2>4 DEF DispatchOK
<1>4. ASSUME NEW p \in Requests PROVE RequestOK(p)'
  <2>1. RanOK(p)'
    BY <1>4 DEF TypeOK, Made, DispatchOK, IdOK, PlaceOK, KnownOK, WordOK, Clean, Fenced,
         RequestOK, RanOK, CurOK, PcOK, Pending, Local, Tell, idVars, ledgerVars, Goto
  <2>2. CurOK(p)'
    BY <1>4 DEF TypeOK, Made, DispatchOK, IdOK, PlaceOK, KnownOK, WordOK, Clean, Fenced,
         RequestOK, RanOK, CurOK, PcOK, Pending, Local, Tell, idVars, ledgerVars, Goto
  <2>3. PcOK(p)'
    BY <1>4 DEF TypeOK, Made, RequestOK, PcOK, Local, Tell, idVars, ledgerVars, Goto
  <2>4. QED
    BY <2>1, <2>2, <2>3 DEF RequestOK
<1>5. QED
  BY <1>1, <1>2, <1>3, <1>4

\* A local reroute changes nothing but the loop.
LEMMA LocalReroutesStep ==
    ASSUME IInv, NEW q \in Requests, LocalReroutes(q)
    PROVE  IInv'
<1> USE DispatchAssumption, MadeFacts DEF IInv
<1>1. TypeOK'
  BY DEF TypeOK, Made, LocalReroutes, SenderOnly, Goto, targetVars, idVars, ledgerVars
<1>2. UnmadeOK'
  BY DEF TypeOK, UnmadeOK, Made, LocalReroutes, SenderOnly, Goto, targetVars, idVars, ledgerVars
<1>3. ASSUME NEW x \in Made' PROVE DispatchOK(x)'
  <2>1. IdOK(x)'
    BY <1>3 DEF TypeOK, Made, DispatchOK, IdOK, LocalReroutes, SenderOnly, Goto, targetVars,
         idVars, ledgerVars
  <2>2. PlaceOK(x)'
    BY <1>3 DEF TypeOK, Made, DispatchOK, IdOK, PlaceOK, KnownOK, LocalReroutes, SenderOnly,
         Goto, targetVars, idVars, ledgerVars
  <2>3. KnownOK(x)'
    BY <1>3 DEF TypeOK, Made, DispatchOK, IdOK, PlaceOK, KnownOK, LocalReroutes, SenderOnly,
         Goto, targetVars, idVars, ledgerVars
  <2>4. WordOK(x)'
    BY <1>3 DEF TypeOK, Made, DispatchOK, IdOK, PlaceOK, WordOK, Clean, Fenced,
         LocalReroutes, SenderOnly, Goto, targetVars, idVars, ledgerVars
  <2>5. QED
    BY <2>1, <2>2, <2>3, <2>4 DEF DispatchOK
<1>4. ASSUME NEW p \in Requests PROVE RequestOK(p)'
  <2>1. RanOK(p)'
    BY <1>4 DEF TypeOK, Made, RequestOK, RanOK, LocalReroutes, SenderOnly, Goto, targetVars,
         idVars, ledgerVars
  <2>2. CurOK(p)'
    BY <1>4 DEF TypeOK, Made, DispatchOK, IdOK, PlaceOK, RequestOK, CurOK, Pending, Clean,
         Fenced, LocalReroutes, SenderOnly, Goto, targetVars, idVars, ledgerVars
  <2>3. PcOK(p)'
    BY <1>4 DEF TypeOK, Made, RequestOK, PcOK, LocalReroutes, SenderOnly, Goto, targetVars,
         idVars, ledgerVars
  <2>4. QED
    BY <2>1, <2>2, <2>3 DEF RequestOK
<1>5. QED
  BY <1>1, <1>2, <1>3, <1>4

\* The new dispatch becomes the only one that may run.
LEMMA ForwardStep ==
    ASSUME IInv, NEW q \in Requests, Forward(q)
    PROVE  IInv'
<1> USE DispatchAssumption DEF IInv
<1> DEFINE n == made + 1
<1>1. /\ n \in Dispatches \ Made /\ Made' = Made \cup {n} /\ Made \subseteq Dispatches
      /\ made' \in 0..MaxDispatch
  BY DEF TypeOK, Forward, Made, Dispatches
<1>2. PICK b \in {boot - 1, boot} : tboot' = [tboot EXCEPT ![n] = b]
  BY DEF Forward
<1>3. b \in Nat /\ b <= boot
  BY <1>2 DEF TypeOK
<1>4. /\ of' = [of EXCEPT ![n] = q] /\ issued' = [issued EXCEPT ![n] = now]
      /\ cur' = [cur EXCEPT ![q] = n] /\ pc' = [pc EXCEPT ![q] = "sent"] /\ pc[q] = "route"
      /\ UNCHANGED <<now, boot, arrived, entry, written, serving, working, ran, by, reply, settle,
                     start, answer>>
  BY DEF Forward, Goto, targetVars, ledgerVars
<1> HIDE DEF n
<1>5. TypeOK'
  BY <1>1, <1>2, <1>3, <1>4 DEF TypeOK
<1>6. UnmadeOK'
  BY <1>1, <1>4 DEF UnmadeOK
<1>7. \A x \in Made : /\ of'[x] = of[x] /\ tboot'[x] = tboot[x] /\ issued'[x] = issued[x]
  BY <1>1, <1>2, <1>4 DEF TypeOK
<1>8. of'[n] = q /\ tboot'[n] = b /\ issued'[n] = now
  BY <1>1, <1>2, <1>4 DEF TypeOK
<1>9. n \notin arrived /\ n \notin serving /\ n \notin working
  BY <1>1 DEF TypeOK
<1>10. entry[n] = "absent" /\ reply[n] = "none" /\ settle[n] = "none"
  BY <1>1 DEF UnmadeOK
<1>11. ran[q] = 0 /\ by[q] = None /\ answer[q] = "none" /\ n # None
  BY <1>1, <1>4 DEF RequestOK, RanOK, PcOK, Dispatches
<1>12. \A x \in Made : (Clean(x) => Clean(x)') /\ Clean(x)' = Clean(x)
  BY <1>4, <1>7 DEF Clean, Fenced
<1>13. ASSUME NEW x \in Made' PROVE DispatchOK(x)'
  <2>1. CASE x = n
    BY <2>1, <1>3, <1>4, <1>8, <1>9, <1>10, <1>11 DEF TypeOK, DispatchOK, IdOK, PlaceOK,
         KnownOK, WordOK
  <2>2. CASE x \in Made
    BY <2>2, <1>4, <1>7, <1>12 DEF DispatchOK, IdOK, PlaceOK, KnownOK, WordOK
  <2>3. QED
    BY <1>1, <1>13, <2>1, <2>2
<1>14. ASSUME NEW p \in Requests PROVE RequestOK(p)'
  <2>1. RanOK(p)'
    BY <1>4 DEF RequestOK, RanOK
  <2>2. CurOK(p)'
    <3>1. ASSUME NEW x \in Made', of'[x] = p
          PROVE  (Clean(x) \/ (x = cur[p] /\ Pending(p) /\ by[p] \in {None, x}))'
      <4>1. CASE x = n
        BY <4>1, <3>1, <1>4, <1>8, <1>11 DEF TypeOK, Pending
      <4>2. CASE x \in Made /\ p = q
        BY <4>2, <3>1, <1>4, <1>7, <1>11, <1>12 DEF RequestOK, CurOK, Pending
      <4>3. CASE x \in Made /\ p # q
        BY <4>3, <3>1, <1>4, <1>7, <1>12 DEF TypeOK, RequestOK, CurOK, Pending
      <4>4. QED
        BY <1>1, <3>1, <4>1, <4>2, <4>3
    <3>2. QED
      BY <3>1 DEF CurOK
  <2>3. PcOK(p)'
    <3>1. CASE p = q
      BY <3>1, <1>1, <1>4, <1>8, <1>11 DEF TypeOK, RequestOK, PcOK
    <3>2. CASE p # q
      BY <3>2, <1>1, <1>4, <1>7 DEF TypeOK, RequestOK, PcOK
    <3>3. QED
      BY <3>1, <3>2
  <2>4. QED
    BY <2>1, <2>2, <2>3 DEF RequestOK
<1>15. QED
  BY <1>5, <1>6, <1>13, <1>14

\* A failed connection leaves no dispatch behind.
LEMMA NoConnectionStep ==
    ASSUME IInv, NEW q \in Requests, NoConnection(q)
    PROVE  IInv'
<1> USE DispatchAssumption, MadeFacts DEF IInv
<1>1. TypeOK'
  BY DEF TypeOK, Made, NoConnection, SenderOnly, Goto, targetVars, idVars, ledgerVars
<1>2. UnmadeOK'
  BY DEF TypeOK, UnmadeOK, Made, NoConnection, SenderOnly, Goto, targetVars, idVars, ledgerVars
<1>3. ASSUME NEW x \in Made' PROVE DispatchOK(x)'
  <2>1. IdOK(x)'
    BY <1>3 DEF TypeOK, Made, DispatchOK, IdOK, NoConnection, SenderOnly, Goto, targetVars,
         idVars, ledgerVars
  <2>2. PlaceOK(x)'
    BY <1>3 DEF TypeOK, Made, DispatchOK, IdOK, PlaceOK, KnownOK, NoConnection, SenderOnly,
         Goto, targetVars, idVars, ledgerVars
  <2>3. KnownOK(x)'
    BY <1>3 DEF TypeOK, Made, DispatchOK, IdOK, PlaceOK, KnownOK, NoConnection, SenderOnly,
         Goto, targetVars, idVars, ledgerVars
  <2>4. WordOK(x)'
    BY <1>3 DEF TypeOK, Made, DispatchOK, IdOK, PlaceOK, WordOK, Clean, Fenced, NoConnection,
         SenderOnly, Goto, targetVars, idVars, ledgerVars
  <2>5. QED
    BY <2>1, <2>2, <2>3, <2>4 DEF DispatchOK
<1>4. ASSUME NEW p \in Requests PROVE RequestOK(p)'
  <2>1. RanOK(p)'
    BY <1>4 DEF TypeOK, Made, RequestOK, RanOK, NoConnection, SenderOnly, Goto, targetVars,
         idVars, ledgerVars
  <2>2. CurOK(p)'
    BY <1>4 DEF TypeOK, Made, DispatchOK, IdOK, PlaceOK, RequestOK, CurOK, Pending, Clean,
         Fenced, NoConnection, SenderOnly, Goto, targetVars, idVars, ledgerVars
  <2>3. PcOK(p)'
    BY <1>4 DEF TypeOK, Made, RequestOK, PcOK, NoConnection, SenderOnly, Goto, targetVars,
         idVars, ledgerVars
  <2>4. QED
    BY <2>1, <2>2, <2>3 DEF RequestOK
<1>5. QED
  BY <1>1, <1>2, <1>3, <1>4

\* A reroute lets the sender try again, and its dispatch is clean.
LEMMA GetReplyStep ==
    ASSUME IInv, NEW q \in Requests, GetReply(q)
    PROVE  IInv'
<1> USE DispatchAssumption, MadeFacts DEF IInv
<1>1. TypeOK'
  BY DEF TypeOK, Made, GetReply, SenderOnly, Goto, Tell, targetVars, idVars, ledgerVars
<1>2. UnmadeOK'
  BY DEF TypeOK, UnmadeOK, Made, GetReply, SenderOnly, Goto, Tell, targetVars, idVars, ledgerVars
<1>3. ASSUME NEW x \in Made' PROVE DispatchOK(x)'
  <2>1. IdOK(x)'
    BY <1>3 DEF TypeOK, Made, DispatchOK, IdOK, GetReply, SenderOnly, Goto, Tell, targetVars,
         idVars, ledgerVars
  <2>2. PlaceOK(x)'
    BY <1>3 DEF TypeOK, Made, DispatchOK, IdOK, PlaceOK, KnownOK, GetReply, SenderOnly, Goto,
         Tell, targetVars, idVars, ledgerVars
  <2>3. KnownOK(x)'
    BY <1>3 DEF TypeOK, Made, DispatchOK, IdOK, PlaceOK, KnownOK, GetReply, SenderOnly, Goto,
         Tell, targetVars, idVars, ledgerVars
  <2>4. WordOK(x)'
    BY <1>3 DEF TypeOK, Made, DispatchOK, IdOK, PlaceOK, WordOK, Clean, Fenced, GetReply,
         SenderOnly, Goto, Tell, targetVars, idVars, ledgerVars
  <2>5. QED
    BY <2>1, <2>2, <2>3, <2>4 DEF DispatchOK
<1>4. ASSUME NEW p \in Requests PROVE RequestOK(p)'
  <2>1. RanOK(p)'
    BY <1>4 DEF TypeOK, Made, RequestOK, RanOK, GetReply, SenderOnly, Goto, Tell, targetVars,
         idVars, ledgerVars
  <2>2. CurOK(p)'
    BY <1>4 DEF TypeOK, Made, DispatchOK, IdOK, PlaceOK, KnownOK, WordOK, Clean, Fenced,
         RequestOK, RanOK, CurOK, PcOK, Pending, GetReply, SenderOnly, Goto, Tell, targetVars,
         idVars, ledgerVars
  <2>3. PcOK(p)'
    BY <1>4 DEF TypeOK, Made, DispatchOK, IdOK, PlaceOK, KnownOK, WordOK, Clean, Fenced,
         RequestOK, RanOK, CurOK, PcOK, Pending, GetReply, SenderOnly, Goto, Tell, targetVars,
         idVars, ledgerVars
  <2>4. QED
    BY <2>1, <2>2, <2>3 DEF RequestOK
<1>5. QED
  BY <1>1, <1>2, <1>3, <1>4

\* A broken connection leaves the dispatch pending.
LEMMA BreakStep ==
    ASSUME IInv, NEW q \in Requests, Break(q)
    PROVE  IInv'
<1> USE DispatchAssumption, MadeFacts DEF IInv
<1>1. TypeOK'
  BY DEF TypeOK, Made, Break, SenderOnly, Goto, targetVars, idVars, ledgerVars
<1>2. UnmadeOK'
  <2>1. cur[q] \in Made
    BY DEF Break, RequestOK, PcOK
  <2>2. QED
    BY <2>1 DEF TypeOK, UnmadeOK, Made, Break, SenderOnly, targetVars, idVars, ledgerVars
<1>3. ASSUME NEW x \in Made' PROVE DispatchOK(x)'
  <2>1. IdOK(x)'
    BY <1>3 DEF TypeOK, Made, DispatchOK, IdOK, Break, SenderOnly, Goto, targetVars, idVars,
         ledgerVars
  <2>2. PlaceOK(x)'
    BY <1>3 DEF TypeOK, Made, DispatchOK, IdOK, PlaceOK, KnownOK, Break, SenderOnly, Goto,
         targetVars, idVars, ledgerVars
  <2>3. KnownOK(x)'
    BY <1>3 DEF TypeOK, Made, DispatchOK, IdOK, PlaceOK, KnownOK, Break, SenderOnly, Goto,
         targetVars, idVars, ledgerVars
  <2>4. WordOK(x)'
    BY <1>3 DEF TypeOK, Made, DispatchOK, IdOK, PlaceOK, WordOK, Clean, Fenced, Break,
         SenderOnly, Goto, targetVars, idVars, ledgerVars
  <2>5. QED
    BY <2>1, <2>2, <2>3, <2>4 DEF DispatchOK
<1>4. ASSUME NEW p \in Requests PROVE RequestOK(p)'
  <2>1. RanOK(p)'
    BY <1>4 DEF TypeOK, Made, RequestOK, RanOK, Break, SenderOnly, Goto, targetVars, idVars,
         ledgerVars
  <2>2. CurOK(p)'
    BY <1>4 DEF TypeOK, Made, DispatchOK, IdOK, PlaceOK, RequestOK, CurOK, Pending, Clean,
         Fenced, Break, SenderOnly, Goto, targetVars, idVars, ledgerVars
  <2>3. PcOK(p)'
    BY <1>4 DEF TypeOK, Made, RequestOK, PcOK, Break, SenderOnly, Goto, targetVars, idVars,
         ledgerVars
  <2>4. QED
    BY <2>1, <2>2, <2>3 DEF RequestOK
<1>5. QED
  BY <1>1, <1>2, <1>3, <1>4

\* The client left; the dispatch may still run.
LEMMA ClientLeavesStep ==
    ASSUME IInv, NEW q \in Requests, ClientLeaves(q)
    PROVE  IInv'
<1> USE DispatchAssumption, MadeFacts DEF IInv
<1>1. TypeOK'
  BY DEF TypeOK, Made, ClientLeaves, SenderOnly, Tell, targetVars, idVars, Goto, ledgerVars
<1>2. UnmadeOK'
  BY DEF TypeOK, UnmadeOK, Made, ClientLeaves, SenderOnly, Tell, targetVars, idVars, Goto,
       ledgerVars
<1>3. ASSUME NEW x \in Made' PROVE DispatchOK(x)'
  <2>1. IdOK(x)'
    BY <1>3 DEF TypeOK, Made, DispatchOK, IdOK, ClientLeaves, SenderOnly, Tell, targetVars,
         idVars, Goto, ledgerVars
  <2>2. PlaceOK(x)'
    BY <1>3 DEF TypeOK, Made, DispatchOK, IdOK, PlaceOK, KnownOK, ClientLeaves, SenderOnly,
         Tell, targetVars, idVars, Goto, ledgerVars
  <2>3. KnownOK(x)'
    BY <1>3 DEF TypeOK, Made, DispatchOK, IdOK, PlaceOK, KnownOK, ClientLeaves, SenderOnly,
         Tell, targetVars, idVars, Goto, ledgerVars
  <2>4. WordOK(x)'
    BY <1>3 DEF TypeOK, Made, DispatchOK, IdOK, PlaceOK, WordOK, Clean, Fenced, ClientLeaves,
         SenderOnly, Tell, targetVars, idVars, Goto, ledgerVars
  <2>5. QED
    BY <2>1, <2>2, <2>3, <2>4 DEF DispatchOK
<1>4. ASSUME NEW p \in Requests PROVE RequestOK(p)'
  <2>1. RanOK(p)'
    BY <1>4 DEF TypeOK, Made, RequestOK, RanOK, ClientLeaves, SenderOnly, Tell, targetVars,
         idVars, Goto, ledgerVars
  <2>2. CurOK(p)'
    BY <1>4 DEF TypeOK, Made, DispatchOK, IdOK, PlaceOK, RequestOK, CurOK, Pending, Clean,
         Fenced, ClientLeaves, SenderOnly, Tell, targetVars, idVars, Goto, ledgerVars
  <2>3. PcOK(p)'
    BY <1>4 DEF TypeOK, Made, RequestOK, PcOK, ClientLeaves, SenderOnly, Tell, targetVars,
         idVars, Goto, ledgerVars
  <2>4. QED
    BY <2>1, <2>2, <2>3 DEF RequestOK
<1>5. QED
  BY <1>1, <1>2, <1>3, <1>4

\* Only a refusal lets the sender try again.
LEMMA GetVerdictStep ==
    ASSUME IInv, NEW q \in Requests, GetVerdict(q)
    PROVE  IInv'
<1> USE DispatchAssumption, MadeFacts DEF IInv
<1>1. TypeOK'
  BY DEF TypeOK, Made, GetVerdict, SenderOnly, Goto, Tell, targetVars, idVars, ledgerVars
<1>2. UnmadeOK'
  BY DEF TypeOK, UnmadeOK, Made, GetVerdict, SenderOnly, Goto, Tell, targetVars, idVars,
       ledgerVars
<1>3. ASSUME NEW x \in Made' PROVE DispatchOK(x)'
  <2>1. IdOK(x)'
    BY <1>3 DEF TypeOK, Made, DispatchOK, IdOK, GetVerdict, SenderOnly, Goto, Tell,
         targetVars, idVars, ledgerVars
  <2>2. PlaceOK(x)'
    BY <1>3 DEF TypeOK, Made, DispatchOK, IdOK, PlaceOK, KnownOK, GetVerdict, SenderOnly,
         Goto, Tell, targetVars, idVars, ledgerVars
  <2>3. KnownOK(x)'
    BY <1>3 DEF TypeOK, Made, DispatchOK, IdOK, PlaceOK, KnownOK, GetVerdict, SenderOnly,
         Goto, Tell, targetVars, idVars, ledgerVars
  <2>4. WordOK(x)'
    BY <1>3 DEF TypeOK, Made, DispatchOK, IdOK, PlaceOK, WordOK, Clean, Fenced, GetVerdict,
         SenderOnly, Goto, Tell, targetVars, idVars, ledgerVars
  <2>5. QED
    BY <2>1, <2>2, <2>3, <2>4 DEF DispatchOK
<1>4. ASSUME NEW p \in Requests PROVE RequestOK(p)'
  <2>1. RanOK(p)'
    BY <1>4 DEF TypeOK, Made, RequestOK, RanOK, GetVerdict, SenderOnly, Goto, Tell,
         targetVars, idVars, ledgerVars
  <2>2. CurOK(p)'
    BY <1>4 DEF TypeOK, Made, DispatchOK, IdOK, PlaceOK, KnownOK, WordOK, Clean, Fenced,
         RequestOK, RanOK, CurOK, PcOK, Pending, GetVerdict, SenderOnly, Goto, Tell, targetVars,
         idVars, ledgerVars
  <2>3. PcOK(p)'
    BY <1>4 DEF TypeOK, Made, DispatchOK, IdOK, PlaceOK, KnownOK, WordOK, Clean, Fenced,
         RequestOK, RanOK, CurOK, PcOK, Pending, GetVerdict, SenderOnly, Goto, Tell, targetVars,
         idVars, ledgerVars
  <2>4. QED
    BY <2>1, <2>2, <2>3 DEF RequestOK
<1>5. QED
  BY <1>1, <1>2, <1>3, <1>4

\* A 503 comes when every dispatch is clean.
LEMMA BackoffStep ==
    ASSUME IInv, NEW q \in Requests, Backoff(q)
    PROVE  IInv'
<1> USE DispatchAssumption, MadeFacts DEF IInv
<1>1. TypeOK'
  BY DEF TypeOK, Made, Backoff, SenderOnly, Goto, Tell, targetVars, idVars, ledgerVars
<1>2. UnmadeOK'
  BY DEF TypeOK, UnmadeOK, Made, Backoff, SenderOnly, Goto, Tell, targetVars, idVars, ledgerVars
<1>3. ASSUME NEW x \in Made' PROVE DispatchOK(x)'
  <2>1. IdOK(x)'
    BY <1>3 DEF TypeOK, Made, DispatchOK, IdOK, Backoff, SenderOnly, Goto, Tell, targetVars,
         idVars, ledgerVars
  <2>2. PlaceOK(x)'
    BY <1>3 DEF TypeOK, Made, DispatchOK, IdOK, PlaceOK, KnownOK, Backoff, SenderOnly, Goto,
         Tell, targetVars, idVars, ledgerVars
  <2>3. KnownOK(x)'
    BY <1>3 DEF TypeOK, Made, DispatchOK, IdOK, PlaceOK, KnownOK, Backoff, SenderOnly, Goto,
         Tell, targetVars, idVars, ledgerVars
  <2>4. WordOK(x)'
    BY <1>3 DEF TypeOK, Made, DispatchOK, IdOK, PlaceOK, WordOK, Clean, Fenced, Backoff,
         SenderOnly, Goto, Tell, targetVars, idVars, ledgerVars
  <2>5. QED
    BY <2>1, <2>2, <2>3, <2>4 DEF DispatchOK
<1>4. ASSUME NEW p \in Requests PROVE RequestOK(p)'
  <2>1. RanOK(p)'
    BY <1>4 DEF TypeOK, Made, RequestOK, RanOK, Backoff, SenderOnly, Goto, Tell, targetVars,
         idVars, ledgerVars
  <2>2. CurOK(p)'
    BY <1>4 DEF TypeOK, Made, DispatchOK, IdOK, PlaceOK, KnownOK, WordOK, Clean, Fenced,
         RequestOK, RanOK, CurOK, PcOK, Pending, Backoff, SenderOnly, Goto, Tell, targetVars,
         idVars, ledgerVars
  <2>3. PcOK(p)'
    BY <1>4 DEF TypeOK, Made, RequestOK, PcOK, Backoff, SenderOnly, Goto, Tell, targetVars,
         idVars, ledgerVars
  <2>4. QED
    BY <2>1, <2>2, <2>3 DEF RequestOK
<1>5. QED
  BY <1>1, <1>2, <1>3, <1>4

-----------------------------------------------------------------------------
\* The invariant holds at the start.
LEMMA IInvInit == Init => IInv
<1> SUFFICES ASSUME Init PROVE IInv
  OBVIOUS
<1>1. Made = {}
  BY DEF Init, Made
<1>2. TypeOK
  BY <1>1, DispatchAssumption DEF Init, TypeOK
<1>3. UnmadeOK
  BY DEF Init, UnmadeOK
<1>4. \A q \in Requests : RequestOK(q)
  BY <1>1 DEF Init, RequestOK, RanOK, CurOK, PcOK
<1>5. QED
  BY <1>1, <1>2, <1>3, <1>4 DEF IInv

\* Every step of the two instances keeps it, if no copy of a dispatch arrives
\* again after the ledger may have forgotten the first.
LEMMA IInvStep ==
    ASSUME IInv, [Next]_vars, ReplayFor <= Retention
    PROVE  IInv'
<1>1. ASSUME NEW d \in Dispatches, TargetStep(d) PROVE IInv'
  BY <1>1, ReceiveStep, AppReroutesStep, WorkStep, AppDoneStep, SettleArrivesStep DEF TargetStep
<1>2. ASSUME NEW q \in Requests, SenderStep(q) PROVE IInv'
  BY <1>2, ArriveStep, LocalStep, LocalReroutesStep, ForwardStep, NoConnectionStep, GetReplyStep,
     BreakStep, ClientLeavesStep, GetVerdictStep, BackoffStep DEF SenderStep
<1>3. CASE Restart \/ Tick
  BY <1>3, RestartStep, TickStep
<1>4. CASE UNCHANGED vars
  BY <1>4 DEF vars, targetVars, ledgerVars, idVars, senderVars, IInv, TypeOK, UnmadeOK, Made,
     DispatchOK, IdOK, PlaceOK, KnownOK, WordOK, Clean, Fenced, RequestOK, RanOK, CurOK, PcOK, Pending
<1>5. QED
  BY <1>1, <1>2, <1>3, <1>4 DEF Next

\* The inductive invariant of Dispatch.
THEOREM DispatchInvariant ==
    ASSUME ReplayFor <= Retention
    PROVE  Spec => []IInv
<1>1. IInv /\ [Next]_vars => IInv'
  BY IInvStep
<1>2. QED
  BY <1>1, IInvInit, PTL DEF Spec

\* The types of the ledger's and the sender's state.
THEOREM TypeCorrect ==
    ASSUME ReplayFor <= Retention
    PROVE  Spec => []TypeOK
<1>1. IInv => TypeOK
  BY DEF IInv
<1>2. QED
  BY <1>1, DispatchInvariant, PTL

\* Ledger.admit, Ledger.settle, _forward: no request's work is done twice.
THEOREM RunsAtMostOnce ==
    ASSUME ReplayFor <= Retention
    PROVE  Spec => []AtMostOnce
<1>1. ASSUME IInv PROVE AtMostOnce
  <2>1. \A q \in Requests : ran[q] \in {0, 1} /\ ran[q] \in Nat
    BY <1>1 DEF IInv, TypeOK, RequestOK, RanOK
  <2>2. \A n \in Nat : n \in {0, 1} => n <= 1
    OBVIOUS
  <2>3. QED
    BY <2>1, <2>2 DEF AtMostOnce
<1>2. QED
  BY <1>1, DispatchInvariant, PTL

\* _route, _settle_or_report: a client told to retry has had no work done, and
\* has none done later.
THEOREM RetryIsSafe ==
    ASSUME ReplayFor <= Retention
    PROVE  Spec => []RetryMeansNotRun
<1>1. IInv => RetryMeansNotRun
  BY DEF IInv, RequestOK, PcOK, RetryMeansNotRun
<1>2. QED
  BY <1>1, DispatchInvariant, PTL

\* Ledger.settle: a dispatch that ran is never settled as refused.
THEOREM SettleIsTruthful ==
    ASSUME ReplayFor <= Retention
    PROVE  Spec => []RefusalIsTrue
<1>1. IInv => RefusalIsTrue
  BY DEF IInv, DispatchOK, WordOK, Clean, RefusalIsTrue
<1>2. QED
  BY <1>1, DispatchInvariant, PTL

-----------------------------------------------------------------------------
(* The refinement: Dispatch implements OnceOnly. *)

\* What a step of the sender tells the client.
LEMMA TellStep ==
    ASSUME IInv, NEW q \in Requests, NEW a \in {"result", "retry", "unknown", "gone"},
           pc[q] # "answered", answer' = [answer EXCEPT ![q] = a], UNCHANGED ran,
           a = "result" => ran[q] = 1, a = "retry" => ran[q] = 0
    PROVE  Promise!Next
<1>1. answer[q] = "none"
  BY DEF IInv, RequestOK, PcOK
<1>2. Promise!Answer(q, a)
  BY <1>1 DEF Promise!Answer
<1>3. QED
  BY <1>2 DEF Promise!Next

\* A run at the target is the request's first, and comes before any answer that
\* rules it out.
LEMMA WorkRuns ==
    ASSUME IInv, NEW d \in Dispatches, Work(d)
    PROVE  Promise!Next
<1>1. d \in Made /\ of[d] \in Requests /\ by[of[d]] # d
  BY DEF IInv, TypeOK, Work, DispatchOK, IdOK, PlaceOK
<1>2. /\ Pending(of[d]) /\ by[of[d]] = None
  BY <1>1 DEF IInv, RequestOK, CurOK, Clean, Work
<1>3. ran[of[d]] = 0 /\ answer[of[d]] \in {"none", "unknown", "gone"}
  BY <1>1, <1>2 DEF IInv, TypeOK, RequestOK, RanOK, PcOK, Pending
<1>4. Promise!Run(of[d])
  BY <1>1, <1>3 DEF IInv, TypeOK, Work, senderVars, Promise!Run
<1>5. QED
  BY <1>1, <1>4 DEF Promise!Next

\* A local run is the request's first, and its answer goes with it.
LEMMA LocalRuns ==
    ASSUME IInv, NEW q \in Requests, Local(q)
    PROVE  Promise!Next
<1>1. ran[q] = 0 /\ answer[q] = "none"
  BY DEF IInv, RequestOK, PcOK, Local
<1>2. Promise!RunHere(q)
  BY <1>1 DEF IInv, TypeOK, Local, Tell, Promise!RunHere
<1>3. QED
  BY <1>2 DEF Promise!Next

\* Every step of the protocol is a step of the promise, or changes nothing it
\* speaks of.
LEMMA PromiseStep ==
    ASSUME IInv, [Next]_vars
    PROVE  [Promise!Next]_(Promise!vars)
<1> SUFFICES ASSUME ~ UNCHANGED <<ran, answer>> PROVE Promise!Next
  BY DEF Promise!vars
<1>1. ASSUME NEW d \in Dispatches, TargetStep(d) PROVE Promise!Next
  <2>1. CASE Work(d)
    BY <2>1, WorkRuns
  <2>2. CASE Receive(d) \/ AppReroutes(d) \/ AppDone(d) \/ SettleArrives(d)
    BY <2>2 DEF Receive, AppReroutes, AppDone, SettleArrives, senderVars
  <2>3. QED
    BY <1>1, <2>1, <2>2 DEF TargetStep
<1>2. ASSUME NEW q \in Requests, SenderStep(q) PROVE Promise!Next
  <2>1. CASE Local(q)
    BY <2>1, LocalRuns
  <2>2. CASE Arrive(q) \/ LocalReroutes(q) \/ Forward(q) \/ NoConnection(q) \/ Break(q)
    BY <2>2 DEF Arrive, LocalReroutes, Forward, NoConnection, Break, SenderOnly, targetVars
  <2>3. CASE GetReply(q)
    <3>1. reply[cur[q]] = "result" /\ Tell(q, "result") /\ UNCHANGED ran /\ pc[q] = "sent"
      BY <2>3 DEF GetReply, SenderOnly, targetVars
    <3>2. cur[q] \in Made /\ of[cur[q]] = q
      BY <3>1 DEF IInv, RequestOK, PcOK
    <3>3. by[q] # None
      BY <3>1, <3>2, DispatchAssumption DEF IInv, DispatchOK, WordOK, Made, TypeOK
    <3>4. ran[q] = 1
      BY <3>3 DEF IInv, RequestOK, RanOK
    <3>5. QED
      BY <3>1, <3>4, TellStep DEF Tell
  <2>4. CASE ClientLeaves(q) \/ GetVerdict(q)
    <3>1. PICK a \in {"unknown", "gone"} :
             Tell(q, a) /\ UNCHANGED ran /\ pc[q] # "answered"
      BY <2>4 DEF ClientLeaves, GetVerdict, SenderOnly, targetVars
    <3>2. QED
      BY <3>1, TellStep DEF Tell
  <2>5. CASE Backoff(q)
    <3>1. Tell(q, "retry") /\ UNCHANGED ran /\ pc[q] = "wait"
      BY <2>5 DEF Backoff, SenderOnly, targetVars
    <3>2. ran[q] = 0
      BY <3>1 DEF IInv, RequestOK, PcOK
    <3>3. QED
      BY <3>1, <3>2, TellStep DEF Tell
  <2>6. QED
    BY <1>2, <2>1, <2>2, <2>3, <2>4, <2>5 DEF SenderStep
<1>3. CASE Restart \/ Tick \/ UNCHANGED vars
  BY <1>3 DEF Restart, Tick, vars, targetVars, senderVars
<1>4. QED
  BY <1>1, <1>2, <1>3 DEF Next

\* _route, _forward, _settle_or_report with the ledger keep the promise of
\* OnceOnly.
THEOREM DispatchRefinesOnceOnly ==
    ASSUME ReplayFor <= Retention
    PROVE  Spec => KeepsPromise
<1>1. Init => Promise!Init
  BY DEF Init, Promise!Init
<1>2. IInv /\ [Next]_vars => [Promise!Next]_(Promise!vars)
  BY PromiseStep
<1>3. QED
  BY <1>1, <1>2, DispatchInvariant, PTL DEF Spec, KeepsPromise, Promise!Spec
=============================================================================

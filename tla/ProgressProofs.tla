--------------------------- MODULE ProgressProofs ---------------------------
(***************************************************************************)
(* Proofs about the services of MCProgress, for every value of its         *)
(* constants.  Each component has an inductive invariant of its own, in    *)
(* the suite's variables; a step of the suite is a step of one of them.    *)
(***************************************************************************)
EXTENDS MCProgress, FiniteSetTheorems, WellFoundedInduction, TLAPS

-----------------------------------------------------------------------------
(* The start of the container (IsolationStartup).                          *)

\* The outcome of a spawn that does not fail, by mode.
Outcome(mode) == CASE mode = "off" -> "open" [] mode = "landlock" -> "landlock" [] OTHER -> "uid"

\* The settled mode is the one asked for, or the fallback the operator allowed.
SettledOK ==
    /\ iStage \in {"check", "serving", "refused"} <=> iCached # None
    /\ iCached # None => \/ iCached = iEnv.want
                         \/ iEnv.want = "uid" /\ iEnv.fallback /\ iCached = "landlock"
    /\ iStage = "serving" => iEnv.want \in {"off", "landlock", "uid"}

\* Every CLI so far ran in the settled mode, or not at all.
RanOK == /\ iRan # {} => iStage = "serving"
         /\ iRan \subseteq {"failed", Outcome(iCached)}

StartupInv == I!TypeOK /\ I!SecretLeavesEnv /\ SettledOK /\ RanOK

LEMMA StartupInit == I!Init => StartupInv
BY DEF I!Init, StartupInv, I!TypeOK, I!SecretLeavesEnv, SettledOK, RanOK, I!Envs, I!Modes

LEMMA StartupStep == ASSUME StartupInv, I!Next PROVE StartupInv'
<1> USE NoneAssumption
<1> USE DEF StartupInv, I!TypeOK, I!SecretLeavesEnv, SettledOK, RanOK, I!Envs, I!Modes
<1>1. CASE I!LaunchIsolationBroker BY <1>1 DEF I!LaunchIsolationBroker
<1>2. CASE I!EntrypointWait BY <1>2 DEF I!EntrypointWait
<1>3. CASE I!HandOffTicketSecret BY <1>3 DEF I!HandOffTicketSecret
<1>4. CASE I!CmdSteps BY <1>4 DEF I!CmdSteps
<1>5. CASE I!CaptureTicketSecret BY <1>5 DEF I!CaptureTicketSecret
<1>6. CASE I!WaitForBroker BY <1>6 DEF I!WaitForBroker
<1>7. CASE I!ProbeUidSessions BY <1>7 DEF I!ProbeUidSessions
<1>8. CASE I!Settle BY <1>8 DEF I!Settle, I!EffectiveMode, I!Resolved
<1>9. CASE I!CheckConfig BY <1>9 DEF I!CheckConfig, I!ConfigErrors
<1>10. CASE I!Spawn
  <2>1. I!EffectiveMode = iCached /\ iCached \in {"off", "landlock", "uid"}
    BY <1>10 DEF I!Spawn, I!EffectiveMode
  <2>2. I!Launched(iCached) \in {"failed", Outcome(iCached)} \cap {"open", "landlock", "uid", "failed"}
    BY <2>1 DEF I!Launched, Outcome
  <2>3. iRan' = iRan \cup {I!Launched(iCached)}
    BY <1>10, <2>1 DEF I!Spawn
  <2>4. UNCHANGED <<iEnv, iStage, iBroker, iSecret, iProbe, iCached>> /\ iStage = "serving"
    BY <1>10 DEF I!Spawn
  <2>5. RanOK'
    BY <2>2, <2>3, <2>4 DEF Outcome
  <2> QED BY <2>2, <2>3, <2>4, <2>5 DEF Outcome
<1>11. CASE I!BrokerBinds BY <1>11 DEF I!BrokerBinds
<1>12. CASE I!BrokerDies BY <1>12 DEF I!BrokerDies
<1> QED BY <1>1, <1>2, <1>3, <1>4, <1>5, <1>6, <1>7, <1>8, <1>9, <1>10, <1>11, <1>12
        DEF I!Next, I!StartStep

LEMMA StartupCardinality == \A s : I!Cardinality(s) = Cardinality(s)
BY DEF I!Cardinality, Cardinality

LEMMA StartupFailsClosed == StartupInv => I!FailsClosed
<1> SUFFICES ASSUME StartupInv PROVE I!FailsClosed
  OBVIOUS
<1> USE NoneAssumption
<1>1. Cardinality(iRan \ {"failed"}) <= 1
  <2>1. iRan \ {"failed"} = {} \/ iRan \ {"failed"} = {Outcome(iCached)}
    BY DEF StartupInv, RanOK
  <2>2. Cardinality(iRan \ {"failed"}) \in {0, 1}
    BY <2>1, FS_EmptySet, FS_Singleton, Zenon
  <2> QED BY <2>2
<1>2. iEnv.want # "off" => "open" \notin iRan
  BY DEF StartupInv, I!TypeOK, I!Envs, I!Modes, RanOK, SettledOK, Outcome
<1>3. iEnv.want = "uid" /\ ~iEnv.fallback => "landlock" \notin iRan
  BY DEF StartupInv, I!TypeOK, I!Envs, I!Modes, RanOK, SettledOK, Outcome
<1> QED BY <1>1, <1>2, <1>3, StartupCardinality DEF I!FailsClosed

-----------------------------------------------------------------------------
(* The outbox (Outbox).                                                    *)

Msgs == [id : Nat, kind : {"text", "result", "start", "end"}, turn : Nat]
Reads == [msg : Msgs, by : Nat]

OutTypes ==
    /\ oClient \in {"none", "up", "ended"} /\ oStream \in Seq(Msgs) /\ oCount \in Nat
    /\ oTask \in BOOLEAN /\ oTurn \in Nat /\ oActive \in BOOLEAN /\ oLog \in Seq(Reads)
    /\ oPhase \in {"idle", "asked", "sweep", "resweep", "pause", "reading"}
    /\ oReader \in {"off", "on", "stopping"}

\* What was read, then what is unread, then what is not written yet: the ids
\* go up.
OutOrder ==
    /\ \A i, j \in DOMAIN oLog : i < j => oLog[i].msg.id < oLog[j].msg.id
    /\ \A i \in DOMAIN oLog, j \in DOMAIN oStream : oLog[i].msg.id < oStream[j].id
    /\ \A i, j \in DOMAIN oStream : i < j => oStream[i].id < oStream[j].id
    /\ \A i \in DOMAIN oLog : oLog[i].msg.id <= oCount
    /\ \A i \in DOMAIN oStream : oStream[i].id <= oCount

\* The idle reader is off from the query to the end of a turn, and while a
\* question is open.
OutReader ==
    /\ oPhase \in {"sweep", "resweep", "reading", "asked"} => oReader = "off"
    /\ oPhase = "pause" => oReader # "on"

\* Nobody has read the result of a turn that is under way, and it is not
\* there to be swept: it comes only while the turn reads.
OutTurns ==
    /\ \A i \in DOMAIN oStream : oStream[i].turn <= oTurn
    /\ \A i \in DOMAIN oLog : oLog[i].msg.turn <= oTurn
    /\ oPhase # "idle" => /\ oTurn > 0
                          /\ \A i \in DOMAIN oLog :
                                ~(oLog[i].msg.turn = oTurn /\ oLog[i].msg.kind = "result")
    /\ oPhase \notin {"idle", "reading"} =>
            \A i \in DOMAIN oStream : ~(oStream[i].turn = oTurn /\ oStream[i].kind = "result")

\* A row's task runs or its end is to be read; so it is after each start that
\* is still to be read.
OutRows ==
    /\ oActive => \/ oTask \/ oClient = "ended"
                  \/ \E i \in DOMAIN oStream : oStream[i].kind = "end"
    /\ \A i \in DOMAIN oStream : oStream[i].kind = "start" =>
            \/ oTask \/ oClient = "ended"
            \/ \E j \in DOMAIN oStream : i < j /\ oStream[j].kind = "end"

OutboxInv == OutTypes /\ OutOrder /\ OutReader /\ OutTurns /\ OutRows

LEMMA EmptySeqFacts == \A M : <<>> \in Seq(M) /\ DOMAIN <<>> = {}
OBVIOUS

LEMMA OutboxInit == O!Init => OutboxInv
<1> SUFFICES ASSUME O!Init PROVE OutboxInv
  OBVIOUS
<1>1. oStream \in Seq(Msgs) /\ oLog \in Seq(Reads) /\ DOMAIN oStream = {} /\ DOMAIN oLog = {}
  BY EmptySeqFacts DEF O!Init
<1>2. OutTypes BY <1>1 DEF O!Init, OutTypes
<1>3. OutOrder /\ OutReader /\ OutTurns /\ OutRows
  BY <1>1 DEF O!Init, OutOrder, OutReader, OutTurns, OutRows
<1> QED BY <1>2, <1>3 DEF OutboxInv

LEMMA OutboxProperty == OutboxInv => OutboxIsFaithful
BY DEF OutboxInv, OutTypes, OutOrder, OutReader, OutTurns, OutRows, Msgs, Reads,
       OutboxIsFaithful, O!StreamIsWhole, O!TaskRowsAreTrue

LEMMA Entries ==
    ASSUME OutTypes
    PROVE  /\ DOMAIN oStream \subseteq Nat /\ DOMAIN oLog \subseteq Nat
           /\ \A i \in DOMAIN oStream : /\ oStream[i] \in Msgs /\ oStream[i].id \in Nat
                                        /\ oStream[i].turn \in Nat
           /\ \A i \in DOMAIN oLog : oLog[i].msg.id \in Nat /\ oLog[i].msg.turn \in Nat
<1>1. \A i \in DOMAIN oStream : i \in Nat /\ oStream[i] \in Msgs
  BY DEF OutTypes
<1>2. \A i \in DOMAIN oLog : i \in Nat /\ oLog[i] \in Reads
  BY DEF OutTypes
<1>3. \A i \in DOMAIN oLog : oLog[i].msg \in Msgs
  BY <1>2 DEF Reads
<1> QED BY <1>1, <1>2, <1>3 DEF Msgs

LEMMA TailFacts ==
    ASSUME NEW M, NEW s \in Seq(M), s # <<>>
    PROVE  /\ Head(s) = s[1] /\ s[1] \in M /\ Tail(s) \in Seq(M) /\ Len(s) \in Nat \ {0}
           /\ Len(Tail(s)) = Len(s) - 1 /\ DOMAIN s = 1..Len(s)
           /\ DOMAIN Tail(s) = 1..(Len(s) - 1)
           /\ \A i \in DOMAIN Tail(s) : i + 1 \in DOMAIN s /\ Tail(s)[i] = s[i + 1]
           /\ \A j \in DOMAIN s : j > 1 => j - 1 \in DOMAIN Tail(s) /\ Tail(s)[j - 1] = s[j]
OBVIOUS

LEMMA AppendFacts ==
    ASSUME NEW M, NEW s \in Seq(M), NEW m \in M
    PROVE  /\ Append(s, m) \in Seq(M) /\ Len(s) \in Nat /\ DOMAIN s = 1..Len(s)
           /\ DOMAIN Append(s, m) = 1..(Len(s) + 1)
           /\ \A i \in 1..Len(s) : Append(s, m)[i] = s[i]
           /\ Append(s, m)[Len(s) + 1] = m
OBVIOUS

\* The head of the stream is read, by the idle reader (0) or by a turn.
LEMMA TakeKeeps ==
    ASSUME OutboxInv, NEW who \in Nat, oStream # <<>>, O!Take(who),
           UNCHANGED <<oClient, oTask, oCount, oTurn>>
    PROVE  /\ oStream' \in Seq(Msgs) /\ oLog' \in Seq(Reads) /\ oActive' \in BOOLEAN
           /\ OutOrder' /\ OutRows'
           /\ \A i \in DOMAIN oStream' : \E j \in DOMAIN oStream : oStream'[i] = oStream[j]
           /\ \A i \in DOMAIN oLog' : \/ i \in DOMAIN oLog /\ oLog'[i] = oLog[i]
                                      \/ oLog'[i].msg = oStream[1]
<1> USE DEF OutboxInv, OutTypes
<1> DEFINE h == oStream[1]
<1>1. /\ Head(oStream) = h /\ h \in Msgs /\ oStream' \in Seq(Msgs) /\ Len(oStream) \in Nat \ {0}
      /\ DOMAIN oStream = 1..Len(oStream) /\ DOMAIN oStream' = 1..(Len(oStream) - 1)
      /\ \A i \in DOMAIN oStream' : i + 1 \in DOMAIN oStream /\ oStream'[i] = oStream[i + 1]
      /\ \A j \in DOMAIN oStream : j > 1 => j - 1 \in DOMAIN oStream' /\ oStream'[j - 1] = oStream[j]
  BY TailFacts DEF O!Take
<1>2. [msg |-> h, by |-> who] \in Reads
  BY <1>1 DEF Reads
<1>3. /\ oLog' \in Seq(Reads) /\ Len(oLog) \in Nat /\ DOMAIN oLog = 1..Len(oLog)
      /\ DOMAIN oLog' = 1..(Len(oLog) + 1)
      /\ \A i \in 1..Len(oLog) : oLog'[i] = oLog[i]
      /\ oLog'[Len(oLog) + 1] = [msg |-> h, by |-> who]
  BY <1>1, <1>2, AppendFacts DEF O!Take
<1> HIDE DEF h
<1>4. oActive' = (IF h.kind = "start" THEN TRUE ELSE IF h.kind = "end" THEN FALSE ELSE oActive)
  BY <1>1 DEF O!Take, O!Tasks, Msgs
<1>e. /\ 1 \in DOMAIN oStream /\ \A i \in DOMAIN oStream : oStream[i].id \in Nat
      /\ \A i \in DOMAIN oLog : oLog[i].msg.id \in Nat /\ oLog'[i] = oLog[i] /\ i # Len(oLog) + 1
      /\ \A i \in DOMAIN oLog' : i \in DOMAIN oLog \/ i = Len(oLog) + 1
      /\ oLog'[Len(oLog) + 1].msg = oStream[1] /\ DOMAIN oLog' \subseteq Nat
      /\ \A i \in DOMAIN oLog : i < Len(oLog) + 1
  BY <1>1, <1>3, Entries DEF h
<1>5. OutOrder'
  <2> USE DEF OutOrder
  <2>1. \A i, j \in DOMAIN oLog' : i < j => oLog'[i].msg.id < oLog'[j].msg.id
    BY <1>e, <1>3
  <2>2. \A i \in DOMAIN oLog', j \in DOMAIN oStream' : oLog'[i].msg.id < oStream'[j].id
    <3> SUFFICES ASSUME NEW i \in DOMAIN oLog', NEW j \in DOMAIN oStream'
                 PROVE  oLog'[i].msg.id < oStream'[j].id
      OBVIOUS
    <3>1. oStream'[j] = oStream[j + 1] /\ j + 1 \in DOMAIN oStream /\ 1 < j + 1
      BY <1>1
    <3> QED BY <3>1, <1>e
  <2>3. \A i, j \in DOMAIN oStream' : i < j => oStream'[i].id < oStream'[j].id
    <3> SUFFICES ASSUME NEW i \in DOMAIN oStream', NEW j \in DOMAIN oStream', i < j
                 PROVE  oStream'[i].id < oStream'[j].id
      OBVIOUS
    <3>1. /\ oStream'[j] = oStream[j + 1] /\ j + 1 \in DOMAIN oStream /\ i + 1 < j + 1
          /\ oStream'[i] = oStream[i + 1] /\ i + 1 \in DOMAIN oStream
      BY <1>1
    <3> QED BY <3>1
  <2>4. \A i \in DOMAIN oLog' : oLog'[i].msg.id <= oCount'
    BY <1>e
  <2>5. \A i \in DOMAIN oStream' : oStream'[i].id <= oCount'
    BY <1>1
  <2> QED BY <2>1, <2>2, <2>3, <2>4, <2>5
<1>6. OutRows'
  <2> USE DEF OutRows
  <2>1. ASSUME NEW i \in DOMAIN oStream', oStream'[i].kind = "start", ~oTask, oClient # "ended"
        PROVE  \E j \in DOMAIN oStream' : i < j /\ oStream'[j].kind = "end"
    <3>1. i + 1 \in DOMAIN oStream /\ oStream[i + 1].kind = "start" /\ i \in Nat
      BY <1>1, <2>1
    <3>2. PICK j \in DOMAIN oStream : i + 1 < j /\ oStream[j].kind = "end"
      BY <2>1, <3>1
    <3>3. j - 1 \in DOMAIN oStream' /\ oStream'[j - 1] = oStream[j] /\ i < j - 1
      BY <1>1, <3>1, <3>2
    <3> QED BY <3>2, <3>3
  <2>2. ASSUME oActive', ~oTask, oClient # "ended"
        PROVE  \E i \in DOMAIN oStream' : oStream'[i].kind = "end"
    <3>1. PICK j \in DOMAIN oStream : j > 1 /\ oStream[j].kind = "end"
      <4>1. CASE h.kind = "start"
        BY <4>1, <2>2, <1>e DEF h
      <4>2. CASE h.kind # "start"
        <5>1. oActive /\ h.kind # "end" BY <4>2, <2>2, <1>4
        <5>2. PICK j \in DOMAIN oStream : oStream[j].kind = "end" BY <5>1, <2>2
        <5>3. j # 1 BY <5>1, <5>2 DEF h
        <5> QED BY <5>2, <5>3, <1>1
      <4> QED BY <4>1, <4>2
    <3> QED BY <3>1, <1>1
  <2> QED BY <2>1, <2>2
<1>7. \A i \in DOMAIN oStream' : \E j \in DOMAIN oStream : oStream'[i] = oStream[j]
  BY <1>1
<1>8. \A i \in DOMAIN oLog' : \/ i \in DOMAIN oLog /\ oLog'[i] = oLog[i]
                              \/ oLog'[i].msg = oStream[1]
  BY <1>3 DEF h
<1> QED BY <1>1, <1>3, <1>4, <1>5, <1>6, <1>7, <1>8

\* A message is written.
LEMMA WriteKeeps ==
    ASSUME OutboxInv, NEW k \in {"text", "result", "start", "end"}, NEW t \in Nat, t <= oTurn,
           oStream' = Append(oStream, [id |-> oCount + 1, kind |-> k, turn |-> t]),
           oCount' = oCount + 1,
           oTask' = (IF k = "start" THEN TRUE ELSE IF k = "end" THEN FALSE ELSE oTask),
           UNCHANGED <<oClient, oActive, oLog, oTurn, oPhase>>,
           oPhase = "reading" \/ t = 0
    PROVE  /\ oStream' \in Seq(Msgs) /\ oCount' \in Nat /\ oTask' \in BOOLEAN
           /\ OutOrder' /\ OutRows' /\ OutTurns'
<1> USE DEF OutboxInv, OutTypes
<1> DEFINE m == [id |-> oCount + 1, kind |-> k, turn |-> t]
<1>1. m \in Msgs /\ m.id = oCount + 1 /\ m.kind = k /\ m.turn = t
  BY DEF Msgs
<1>2. /\ oStream' \in Seq(Msgs) /\ Len(oStream) \in Nat /\ DOMAIN oStream = 1..Len(oStream)
      /\ DOMAIN oStream' = 1..(Len(oStream) + 1)
      /\ \A i \in 1..Len(oStream) : oStream'[i] = oStream[i]
      /\ oStream'[Len(oStream) + 1] = m
  BY <1>1, AppendFacts
<1> HIDE DEF m
<1>3. /\ \A i \in DOMAIN oStream : /\ i \in DOMAIN oStream' /\ oStream'[i] = oStream[i]
                                   /\ oStream[i].id \in Nat /\ oStream[i].turn \in Nat /\ i < Len(oStream) + 1
      /\ Len(oStream) + 1 \in DOMAIN oStream' /\ DOMAIN oStream \subseteq Nat
      /\ \A i \in DOMAIN oStream' : i \in DOMAIN oStream \/ i = Len(oStream) + 1
      /\ \A i \in DOMAIN oLog : oLog[i].msg.id \in Nat /\ oLog[i].msg.turn \in Nat
  BY <1>2, Entries
<1>4. OutOrder'
  <2> USE DEF OutOrder
  <2>1. \A i \in DOMAIN oLog', j \in DOMAIN oStream' : oLog'[i].msg.id < oStream'[j].id
    BY <1>1, <1>2, <1>3
  <2>2. \A i, j \in DOMAIN oStream' : i < j => oStream'[i].id < oStream'[j].id
    BY <1>1, <1>2, <1>3
  <2>3. \A i \in DOMAIN oStream' : oStream'[i].id <= oCount'
    BY <1>1, <1>2, <1>3
  <2> QED BY <1>3, <2>1, <2>2, <2>3
<1>5. OutRows'
  <2> USE DEF OutRows
  <2>1. ASSUME NEW i \in DOMAIN oStream', oStream'[i].kind = "start", ~oTask', oClient' # "ended"
        PROVE  \E j \in DOMAIN oStream' : i < j /\ oStream'[j].kind = "end"
    <3>1. i \in DOMAIN oStream /\ k # "start" BY <1>1, <1>2, <1>3, <2>1
    <3>2. CASE k = "end" BY <3>1, <3>2, <1>1, <1>2, <1>3
    <3>3. CASE k # "end" BY <3>1, <3>3, <1>3, <2>1
    <3> QED BY <3>2, <3>3
  <2>2. ASSUME oActive', ~oTask', oClient' # "ended"
        PROVE  \E i \in DOMAIN oStream' : oStream'[i].kind = "end"
    <3>1. CASE k = "end" BY <3>1, <1>1, <1>2, <1>3
    <3>2. CASE k # "end" BY <3>2, <1>3, <2>2
    <3> QED BY <3>1, <3>2
  <2> QED BY <2>1, <2>2
<1>6. OutTurns'
  <2> USE DEF OutTurns
  <2>1. \A i \in DOMAIN oStream' : oStream'[i].turn <= oTurn'
    BY <1>1, <1>2, <1>3
  <2>2. ASSUME oPhase' \notin {"idle", "reading"}, NEW i \in DOMAIN oStream'
        PROVE  ~(oStream'[i].turn = oTurn' /\ oStream'[i].kind = "result")
    BY <1>1, <1>2, <1>3, <2>2
  <2> QED BY <2>1, <2>2
<1>7. oTask' \in BOOLEAN BY Zenon
<1>8. oCount' \in Nat OBVIOUS
<1> QED BY <1>2, <1>4, <1>5, <1>6, <1>7, <1>8

LEMMA OutboxStep == ASSUME OutboxInv, O!Next PROVE OutboxInv'
<1> USE DEF OutboxInv, OutTypes, O!cli
<1>1. CASE O!PumpReads
  <2> USE <1>1 DEF O!PumpReads, O!ToOutbox
  <2>1. /\ oStream' \in Seq(Msgs) /\ oLog' \in Seq(Reads) /\ oActive' \in BOOLEAN
        /\ OutOrder' /\ OutRows'
        /\ \A i \in DOMAIN oStream' : \E j \in DOMAIN oStream : oStream'[i] = oStream[j]
        /\ \A i \in DOMAIN oLog' : \/ i \in DOMAIN oLog /\ oLog'[i] = oLog[i]
                                   \/ oLog'[i].msg = oStream[1]
    BY TakeKeeps
  <2>2. OutReader' BY DEF OutReader
  <2>4. 1 \in DOMAIN oStream BY TailFacts
  <2>3. OutTurns' BY <2>1, <2>4 DEF OutReader, OutTurns
  <2> QED BY <2>1, <2>2, <2>3
<1>2. CASE O!PumpStops BY <1>2 DEF O!PumpStops, OutOrder, OutReader, OutTurns, OutRows
<1>3. CASE O!PumpEnds BY <1>3 DEF O!PumpEnds, OutOrder, OutReader, OutTurns, OutRows
<1>4. CASE O!PumpFails
  <2>1. DOMAIN oStream = {} BY <1>4 DEF O!PumpFails
  <2> QED BY <1>4, <2>1, Entries DEF O!PumpFails, OutOrder, OutReader, OutTurns, OutRows
<1>5. ASSUME NEW streamed \in BOOLEAN, O!StartTurn(streamed) PROVE OutboxInv'
  <2>2. CASE oClient = "none"
    <3>1. oStream' \in Seq(Msgs) /\ DOMAIN oStream' = {}
      BY <1>5, <2>2, EmptySeqFacts DEF O!StartTurn
    <3>4. oTask' \in BOOLEAN /\ oActive' \in BOOLEAN
      BY <1>5, <2>2, Zenon DEF O!StartTurn
    <3>2. OutTypes' BY <1>5, <2>2, <3>1, <3>4 DEF O!StartTurn
    <3>3. OutOrder' /\ OutReader' /\ OutTurns' /\ OutRows'
      BY <1>5, <2>2, <3>1, Entries DEF O!StartTurn, OutOrder, OutReader, OutTurns, OutRows
    <3> QED BY <3>2, <3>3
  <2>3. CASE oClient # "none"
    BY <1>5, <2>3, Entries DEF O!StartTurn, OutOrder, OutReader, OutTurns, OutRows
  <2> QED BY <2>2, <2>3
<1>6. ASSUME NEW streamed \in BOOLEAN, O!TurnAnswered(streamed) PROVE OutboxInv'
  BY <1>6 DEF O!TurnAnswered, OutOrder, OutReader, OutTurns, OutRows
<1>7. CASE O!Sweep
  <2> USE <1>7 DEF O!Sweep, O!ToOutbox
  <2>1. /\ oStream' \in Seq(Msgs) /\ oLog' \in Seq(Reads) /\ oActive' \in BOOLEAN
        /\ OutOrder' /\ OutRows'
        /\ \A i \in DOMAIN oStream' : \E j \in DOMAIN oStream : oStream'[i] = oStream[j]
        /\ \A i \in DOMAIN oLog' : \/ i \in DOMAIN oLog /\ oLog'[i] = oLog[i]
                                   \/ oLog'[i].msg = oStream[1]
    BY TakeKeeps
  <2>2. OutReader' BY DEF OutReader
  <2>4. 1 \in DOMAIN oStream BY TailFacts
  <2>3. OutTurns' BY <2>1, <2>4 DEF OutTurns
  <2> QED BY <2>1, <2>2, <2>3
<1>8. CASE O!Query BY <1>8 DEF O!Query, OutOrder, OutReader, OutTurns, OutRows
<1>9. CASE O!TurnReads
  <2> USE <1>9 DEF O!TurnReads
  <2>1. /\ oStream' \in Seq(Msgs) /\ oLog' \in Seq(Reads) /\ oActive' \in BOOLEAN
        /\ OutOrder' /\ OutRows'
        /\ \A i \in DOMAIN oStream' : \E j \in DOMAIN oStream : oStream'[i] = oStream[j]
        /\ \A i \in DOMAIN oLog' : \/ i \in DOMAIN oLog /\ oLog'[i] = oLog[i]
                                   \/ oLog'[i].msg = oStream[1]
    BY TakeKeeps
  <2>2. Head(oStream) = oStream[1] /\ 1 \in DOMAIN oStream BY TailFacts
  <2>3. CASE oStream[1].kind = "result"
    BY <2>1, <2>2, <2>3 DEF OutReader, OutTurns, O!End, O!Resume
  <2>4. CASE oStream[1].kind # "result"
    BY <2>1, <2>2, <2>4 DEF OutReader, OutTurns
  <2> QED BY <2>3, <2>4
<1>10. CASE O!TurnAsks
  <2>1. \A i \in DOMAIN oStream : ~(oStream[i].turn = oTurn /\ oStream[i].kind = "result")
    <3> SUFFICES ASSUME NEW i \in DOMAIN oStream, oStream[i].turn = oTurn, oStream[i].kind = "result"
                 PROVE  FALSE
      OBVIOUS
    <3>1. oStream[i] \in Msgs OBVIOUS
    <3>2. oStream[i] = [oStream[i] EXCEPT !.kind = "result", !.turn = oTurn]
      BY <3>1 DEF Msgs
    <3> QED BY <1>10, <3>2 DEF O!TurnAsks
  <2> QED BY <1>10, <2>1 DEF O!TurnAsks, O!End, O!Resume, OutOrder, OutReader, OutTurns, OutRows
<1>11. CASE O!TurnFails
  <2>1. oStream' \in Seq(Msgs) /\ DOMAIN oStream' = {}
    BY <1>11, EmptySeqFacts DEF O!TurnFails
  <2>2. OutTypes' BY <1>11, <2>1 DEF O!TurnFails, O!End, O!Resume
  <2>3. OutOrder' /\ OutReader' /\ OutTurns' /\ OutRows'
    BY <1>11, <2>1 DEF O!TurnFails, O!End, O!Resume, OutOrder, OutReader, OutTurns, OutRows
  <2> QED BY <2>2, <2>3
<1>12. CASE O!TurnStreamEnds
  BY <1>12 DEF O!TurnStreamEnds, O!End, O!Resume, OutOrder, OutReader, OutTurns, OutRows
<1>13. CASE O!TurnAbandoned
  BY <1>13 DEF O!TurnAbandoned, OutOrder, OutReader, OutTurns, OutRows
<1>14. CASE O!Poll
  BY <1>14 DEF O!Poll, O!Gate, O!Locked, O!Resume, OutOrder, OutReader, OutTurns, OutRows
<1>15. CASE O!StopTask
  <2>1. /\ oStream' \in Seq(Msgs) /\ oCount' \in Nat /\ oTask' \in BOOLEAN
        /\ OutOrder' /\ OutRows' /\ OutTurns'
    BY <1>15, WriteKeeps, 0 \in Nat, 0 <= oTurn DEF O!StopTask
  <2> QED BY <1>15, <2>1 DEF O!StopTask, O!Gate, O!Locked, O!Resume, OutReader
<1>16. CASE O!Delete
  <2>1. oStream' \in Seq(Msgs) /\ DOMAIN oStream' = {}
    BY <1>16, EmptySeqFacts DEF O!Delete
  <2>2. OutTypes' BY <1>16, <2>1 DEF O!Delete
  <2>3. OutOrder' /\ OutReader' /\ OutTurns' /\ OutRows'
    BY <1>16, <2>1 DEF O!Delete, OutOrder, OutReader, OutTurns, OutRows
  <2> QED BY <2>2, <2>3
<1>17. ASSUME NEW k \in {"text", "result", "start", "end"}, NEW t \in Nat, O!Writes(k, t),
              t <= oTurn, oPhase = "reading" \/ t = 0
       PROVE  OutboxInv'
  <2>1. /\ oStream' \in Seq(Msgs) /\ oCount' \in Nat /\ oTask' \in BOOLEAN
        /\ OutOrder' /\ OutRows' /\ OutTurns'
    BY <1>17, WriteKeeps DEF O!Writes
  <2> QED BY <1>17, <2>1 DEF O!Writes, OutReader
<1>18. CASE O!Answers BY <1>17, <1>18 DEF O!Answers
<1>19. CASE O!Background BY <1>17, <1>19 DEF O!Background
<1>20. CASE O!Exits BY <1>20 DEF O!Exits, OutOrder, OutReader, OutTurns, OutRows
<1> QED BY <1>1, <1>2, <1>3, <1>4, <1>5, <1>6, <1>7, <1>8, <1>9, <1>10, <1>11, <1>12, <1>13,
           <1>14, <1>15, <1>16, <1>18, <1>19, <1>20 DEF O!Next

-----------------------------------------------------------------------------
(* The supervisor of a CLI (Supervisor).                                   *)

Early == {"switch", "setsid", "pdeathsig"}
Later == {"chdir", "tmpdir", "landlock", "umask", "exec"}

SupTypes ==
    /\ sSup \in {"starting", "supervising", "sweeping", "gone", "crashed"}
    /\ sCli \in {"none", "ppid", "running", "exited", "reaped"} \cup Early \cup Later
    /\ sArmed \in BOOLEAN /\ sLink \in [up : BOOLEAN, told : {"none", "refused", "status"}]
    /\ sJobs \in [Jobs -> Jobs \cup {"none", "cli", "sup", "broker", "dead"}]
    /\ sBroker \in [check : BOOLEAN, gaveUp : SUBSET Jobs]

\* How far the child is, by what its supervisor is doing; from the check of
\* its parent on it is armed, so that a crash of the supervisor takes it.
SupChild ==
    /\ sSup = "starting" => sCli = "none"
    /\ sSup \in {"supervising"} => sCli \notin {"none", "reaped"}
    /\ sSup = "sweeping" => sCli = "reaped"
    /\ sSup = "crashed" => sCli \in Early \cup {"ppid", "reaped"}
    /\ sCli \in Later \cup {"ppid", "running"} => sArmed
    /\ sSup = "gone" => sCli \in {"none", "reaped"}

\* A parent is alive, and only the children of a crashed supervisor are the
\* broker's; the jobs are a forest.
SupForest ==
    /\ \A j \in Jobs : sJobs[j] \in Jobs => sJobs[sJobs[j]] \notin {"none", "dead"}
    /\ \A j \in Jobs : sJobs[j] = "cli" => sCli = "running"
    /\ \A j \in Jobs : sJobs[j] = "broker" => sSup = "crashed"
    /\ \E rank \in [Jobs -> Nat] : \A j \in Jobs : sJobs[j] \in Jobs => rank[sJobs[j]] < rank[j]

\* The status goes out last.
SupTold ==
    /\ sLink.told # "none" => sSup = "gone"
    /\ sSup \in {"gone", "starting"} => \A j \in Jobs : sJobs[j] \in {"none", "dead"}

SupervisorInv == SupTypes /\ SupChild /\ SupForest /\ SupTold

LEMMA SetupFacts ==
    /\ S!Steps = Early \cup {"ppid"} \cup Later
    /\ S!Following("switch") = "setsid" /\ S!Following("setsid") = "pdeathsig"
    /\ S!Following("pdeathsig") = "ppid" /\ S!Following("ppid") = "chdir"
    /\ S!Following("chdir") = "tmpdir" /\ S!Following("tmpdir") = "landlock"
    /\ S!Following("landlock") = "umask" /\ S!Following("umask") = "exec"
    /\ S!Following("exec") = "running" /\ S!Setup[1] = "switch"
<1>1. /\ DOMAIN S!Setup = 1..9 /\ Len(S!Setup) = 9 /\ S!Setup[1] = "switch" /\ S!Setup[2] = "setsid"
      /\ S!Setup[3] = "pdeathsig" /\ S!Setup[4] = "ppid" /\ S!Setup[5] = "chdir"
      /\ S!Setup[6] = "tmpdir" /\ S!Setup[7] = "landlock" /\ S!Setup[8] = "umask"
      /\ S!Setup[9] = "exec"
  BY DEF S!Setup
<1>2. ASSUME NEW k \in 1..9 PROVE (CHOOSE i \in DOMAIN S!Setup : S!Setup[i] = S!Setup[k]) = k
  <2>1. \A i \in 1..9 : S!Setup[i] = S!Setup[k] => i = k
    <3>1. \A i \in 1..9 : i \in {1, 2, 3, 4, 5, 6, 7, 8, 9} OBVIOUS
    <3> QED BY <1>1, <3>1
  <2> QED BY <1>1, <2>1
<1>3. ASSUME NEW k \in 1..9
      PROVE  S!Following(S!Setup[k]) = IF k = 9 THEN "running" ELSE S!Setup[k + 1]
  BY <1>1, <1>2 DEF S!Following
<1>4. S!Steps = Early \cup {"ppid"} \cup Later
  <2>1. \A i \in 1..9 : i \in {1, 2, 3, 4, 5, 6, 7, 8, 9} OBVIOUS
  <2> QED BY <1>1, <2>1 DEF S!Steps, Early, Later
<1> QED BY <1>1, <1>3, <1>4

LEMMA SupervisorInit == S!Init => SupervisorInv
<1> SUFFICES ASSUME S!Init PROVE SupervisorInv
  OBVIOUS
<1>1. SupTypes BY DEF S!Init, SupTypes
<1>2. SupChild /\ SupTold BY DEF S!Init, SupChild, SupTold, Early, Later
<1>3. SupForest
  <2>1. [j \in Jobs |-> 0] \in [Jobs -> Nat] OBVIOUS
  <2> QED BY <2>1, SupervisorAssumption DEF S!Init, SupForest
<1> QED BY <1>1, <1>2, <1>3 DEF SupervisorInv

LEMMA LeastNat ==
    ASSUME NEW T \in SUBSET Nat, T # {}
    PROVE  \E x \in T : \A y \in T : x <= y
<1> DEFINE R == OpToRel(<, Nat)
<1>1. PICK x \in T : \A y \in T : ~ (<<y, x>> \in R)
  <2>1. IsWellFoundedOn(R, Nat) BY NatLessThanWellFounded
  <2> HIDE DEF R
  <2> QED BY <2>1, WFMin
<1>2. ASSUME NEW y \in T PROVE x <= y
  <2>1. <<y, x>> \notin {ss \in Nat \X Nat : ss[1] < ss[2]} BY <1>1 DEF OpToRel
  <2> QED BY <2>1
<1> QED BY <1>2

\* A forest with no tree under the supervisor, the CLI or the broker is empty:
\* the topmost live job would have a live parent above it.
LEMMA NoRootNoJob ==
    ASSUME SupTypes, SupForest, \A j \in Jobs : sJobs[j] \notin {"sup", "cli", "broker"}
    PROVE  \A j \in Jobs : sJobs[j] \in {"none", "dead"}
<1>1. PICK rank \in [Jobs -> Nat] : \A j \in Jobs : sJobs[j] \in Jobs => rank[sJobs[j]] < rank[j]
  BY DEF SupForest
<1> DEFINE L == {j \in Jobs : sJobs[j] \in Jobs}
           T == {rank[j] : j \in L}
<1>2. SUFFICES ASSUME L # {} PROVE FALSE
  BY DEF SupTypes
<1>3. T \in SUBSET Nat /\ T # {} BY <1>2
<1>4. PICK x \in T : \A y \in T : x <= y
  <2> HIDE DEF T
  <2> QED BY <1>3, LeastNat
<1>5. PICK j \in L : x = rank[j] OBVIOUS
<1>6. sJobs[j] \in L
  BY <1>5 DEF SupForest, SupTypes
<1>7. rank[sJobs[j]] \in T /\ rank[sJobs[j]] < rank[j]
  BY <1>1, <1>5, <1>6
<1> QED BY <1>4, <1>5, <1>7, <1>1

\* Edges that are only cut or moved to a root leave a forest.
LEMMA ForestKeeps ==
    ASSUME SupForest, \A j \in Jobs : sJobs'[j] \in Jobs => sJobs'[j] = sJobs[j]
    PROVE  \E rank \in [Jobs -> Nat] : \A j \in Jobs : sJobs'[j] \in Jobs => rank[sJobs'[j]] < rank[j]
BY DEF SupForest

LEMMA SupervisorStep == ASSUME SupervisorInv, S!Next PROVE SupervisorInv'
<1> USE SupervisorAssumption DEF SupervisorInv
<1>s. S!Steps = Early \cup {"ppid"} \cup Later BY SetupFacts
<1>1. CASE S!Fork
  <2>1. SupTypes' /\ SupChild' /\ SupTold'
    BY <1>1, SetupFacts DEF S!Fork, SupTypes, SupChild, SupTold, Early, Later
  <2>2. SupForest' BY <1>1, ForestKeeps DEF S!Fork, SupForest, SupTypes, SupTold
  <2> QED BY <2>1, <2>2
<1>2. CASE S!Refuse
  <2>1. SupTypes' /\ SupChild' /\ SupTold'
    BY <1>2 DEF S!Refuse, SupTypes, SupChild, SupTold, Early, Later
  <2>2. SupForest' BY <1>2, ForestKeeps DEF S!Refuse, SupForest, SupTypes, SupTold
  <2> QED BY <2>1, <2>2
<1>3. CASE S!Relay
  BY <1>3 DEF S!Relay, SupTypes, SupChild, SupTold, SupForest
<1>4. CASE S!LauncherDies
  BY <1>4 DEF S!LauncherDies, SupTypes, SupChild, SupTold, SupForest
<1>5. CASE S!Teardown
  BY <1>5 DEF S!Teardown, SupTypes, SupChild, SupTold, SupForest
<1>6. CASE S!GracePasses
  <2>1. sJobs' = [j \in Jobs |-> IF sJobs[j] = "cli" THEN "sup" ELSE sJobs[j]]
    BY <1>6 DEF S!GracePasses, S!Orphaned
  <2>2. SupTypes' /\ SupChild' /\ SupTold'
    BY <1>6, <2>1 DEF S!GracePasses, SupTypes, SupChild, SupTold, Early, Later
  <2>3. SupForest' BY <1>6, <2>1, ForestKeeps DEF S!GracePasses, SupForest, SupTypes
  <2> QED BY <2>2, <2>3
<1>7. CASE S!Reap
  <2>1. SupTypes' /\ SupChild' /\ SupTold'
    BY <1>7 DEF S!Reap, SupTypes, SupChild, SupTold, Early, Later
  <2>2. SupForest' BY <1>7, ForestKeeps DEF S!Reap, SupForest, SupTypes
  <2> QED BY <2>1, <2>2
<1>8. CASE S!Sweep
  <2>1. CASE \E j \in Jobs : sJobs[j] = "sup"
    <3>1. sJobs' = [j \in Jobs |-> IF sJobs[j] = "sup" THEN "dead"
                        ELSE IF sJobs[j] \in Jobs /\ sJobs[sJobs[j]] = "sup" THEN "sup" ELSE sJobs[j]]
      BY <1>8, <2>1 DEF S!Sweep
    <3>2. SupTypes' /\ SupChild' /\ SupTold'
      BY <1>8, <2>1, <3>1 DEF S!Sweep, SupTypes, SupChild, SupTold, Early, Later
    <3>3. SupForest' BY <1>8, <2>1, <3>1, ForestKeeps DEF S!Sweep, SupForest, SupTypes
    <3> QED BY <3>2, <3>3
  <2>2. CASE ~\E j \in Jobs : sJobs[j] = "sup"
    <3>1. \A j \in Jobs : sJobs[j] \in {"none", "dead"}
      BY <1>8, <2>2, NoRootNoJob DEF S!Sweep, SupForest, SupChild
    <3>2. SupTypes' /\ SupChild' /\ SupTold'
      BY <1>8, <2>2, <3>1 DEF S!Sweep, SupTypes, SupChild, SupTold, Early, Later
    <3>3. SupForest' BY <1>8, <2>2, <3>1, ForestKeeps DEF S!Sweep, SupForest, SupTypes
    <3> QED BY <3>2, <3>3
  <2> QED BY <2>1, <2>2
<1>9. CASE S!Crash
  <2>1. sJobs' = [j \in Jobs |-> IF S!CliAlive /\ sArmed /\ sJobs[j] = "cli" THEN "broker"
                                 ELSE IF sJobs[j] = "sup" THEN "broker" ELSE sJobs[j]]
    BY <1>9 DEF S!Crash, S!Orphaned
  <2>2. SupTypes' BY <1>9, <2>1 DEF S!Crash, SupTypes
  <2>3. SupChild' /\ SupTold'
    BY <1>9, <1>s, <2>1 DEF S!Crash, S!CliAlive, SupTypes, SupChild, SupTold, Early, Later
  <2>4. \A j \in Jobs : sJobs'[j] # "cli"
    BY <1>9, <1>s, <2>1 DEF S!CliAlive, SupTypes, SupForest, SupChild
  <2>5. SupForest' BY <1>9, <2>1, <2>4, ForestKeeps DEF S!Crash, SupForest, SupTypes
  <2> QED BY <2>2, <2>3, <2>5
<1>10. CASE S!CliStep
  <2>1. SupTypes'
    BY <1>10, <1>s, SetupFacts, Zenon DEF S!CliStep, SupTypes, Early, Later
  <2>2. SupChild' /\ SupTold'
    BY <1>10, <1>s, SetupFacts DEF S!CliStep, SupTypes, SupChild, SupTold, Early, Later
  <2>3. SupForest' BY <1>10, <1>s, ForestKeeps DEF S!CliStep, SupForest, SupTypes, Early, Later
  <2> QED BY <2>1, <2>2, <2>3
<1>11. CASE S!CliExits
  <2> DEFINE to == IF sSup = "crashed" THEN "broker" ELSE "sup"
  <2>1. sJobs' = [j \in Jobs |-> IF sJobs[j] = "cli" THEN to ELSE sJobs[j]]
    BY <1>11 DEF S!CliExits, S!Orphaned
  <2>2. SupTypes' /\ SupChild' /\ SupTold'
    BY <1>11, <1>s, <2>1 DEF S!CliExits, S!CliAlive, SupTypes, SupChild, SupTold, Early, Later
  <2>3. SupForest' BY <1>11, <2>1, ForestKeeps DEF S!CliExits, SupForest, SupTypes
  <2> QED BY <2>2, <2>3
<1>12. ASSUME NEW p \in Jobs \cup {"cli"}, NEW j \in Jobs, S!Start(p, j) PROVE SupervisorInv'
  <2>1. /\ sJobs' = [sJobs EXCEPT ![j] = p] /\ sJobs[j] = "none"
        /\ p = "cli" => sCli = "running"
        /\ p # "cli" => sJobs[p] \notin {"none", "dead"}
    BY <1>12 DEF S!Start, S!Alive
  <2>2. SupTypes' BY <1>12, <2>1 DEF S!Start, SupTypes
  <2>3. SupChild' BY <1>12 DEF S!Start, SupChild
  <2>4. sSup \notin {"gone", "starting"}
    BY <2>1 DEF SupChild, SupTold
  <2>5. SupTold' BY <1>12, <2>4 DEF S!Start, SupTold
  <2>6. \E rank \in [Jobs -> Nat] : \A i \in Jobs : sJobs'[i] \in Jobs => rank[sJobs'[i]] < rank[i]
    <3>1. PICK rank \in [Jobs -> Nat] : \A i \in Jobs : sJobs[i] \in Jobs => rank[sJobs[i]] < rank[i]
      BY DEF SupForest
    <3>2. CASE p = "cli" BY <2>1, <3>1, <3>2 DEF SupTypes
    <3>3. CASE p # "cli"
      <4> DEFINE r == [rank EXCEPT ![j] = rank[p] + 1]
      <4>1. p \in Jobs /\ p # j BY <2>1, <3>3
      <4>2. r \in [Jobs -> Nat] BY <4>1
      <4>3. ASSUME NEW i \in Jobs, sJobs'[i] \in Jobs PROVE r[sJobs'[i]] < r[i]
        <5>1. CASE i = j BY <5>1, <2>1, <4>1 DEF SupTypes
        <5>2. CASE i # j
          <6>1. sJobs'[i] = sJobs[i] BY <5>2, <2>1 DEF SupTypes
          <6>2. sJobs[i] # j BY <6>1, <4>3, <2>1 DEF SupForest
          <6> QED BY <6>1, <6>2, <5>2, <4>3, <3>1
        <5> QED BY <5>1, <5>2
      <4> QED BY <4>2, <4>3
    <3> QED BY <3>2, <3>3
  <2>8. sSup' = sSup /\ sCli' = sCli BY <1>12 DEF S!Start
  <2>9. \A i \in Jobs : i # j => sJobs'[i] = sJobs[i]
    BY <2>1 DEF SupTypes
  <2>10. sJobs'[j] = p BY <2>1 DEF SupTypes
  <2>11. \A i \in Jobs : sJobs'[i] \in Jobs => sJobs'[sJobs'[i]] \notin {"none", "dead"}
    BY <2>1, <2>9, <2>10 DEF SupForest
  <2>12. \A i \in Jobs : /\ sJobs'[i] = "cli" => sCli' = "running"
                         /\ sJobs'[i] = "broker" => sSup' = "crashed"
    BY <2>1, <2>8, <2>9, <2>10 DEF SupForest
  <2>7. SupForest' BY <2>6, <2>11, <2>12, Zenon DEF SupForest
  <2> QED BY <2>2, <2>3, <2>5, <2>7
<1>13. ASSUME NEW j \in Jobs, S!JobEnds(j) PROVE SupervisorInv'
  <2> DEFINE to == IF sSup = "crashed" THEN "broker" ELSE "sup"
  <2>1. /\ sJobs' = [i \in Jobs |-> IF i = j THEN "dead" ELSE IF sJobs[i] = j THEN to ELSE sJobs[i]]
        /\ sJobs[j] \notin {"none", "dead"}
    BY <1>13 DEF S!JobEnds, S!Orphaned, S!Alive
  <2>2. SupTypes' /\ SupChild' BY <1>13, <2>1 DEF S!JobEnds, SupTypes, SupChild
  <2>3. SupTold' BY <1>13, <2>1 DEF S!JobEnds, SupTold
  <2>4. SupForest' BY <1>13, <2>1, ForestKeeps DEF S!JobEnds, SupForest, SupTypes
  <2> QED BY <2>2, <2>3, <2>4
<1>14. ASSUME NEW works \in BOOLEAN, S!KillOrphans(works) PROVE SupervisorInv'
  <2> DEFINE mine == {j \in Jobs : sJobs[j] = "broker"} \ sBroker.gaveUp
             child == sSup = "crashed" /\ S!CliAlive /\ sCli # "switch"
  <2>1. CASE mine = {} /\ ~child
    <3>1. UNCHANGED <<sSup, sCli, sArmed, sJobs, sLink>> /\ sBroker' = [sBroker EXCEPT !.check = FALSE]
      BY <1>14, <2>1 DEF S!KillOrphans
    <3> QED BY <3>1 DEF SupTypes, SupChild, SupForest, SupTold
  <2>2. CASE ~(mine = {} /\ ~child) /\ works
    <3>1. /\ sJobs' = [j \in Jobs |-> IF j \in mine THEN "dead"
                                     ELSE IF sJobs[j] \in mine THEN "broker" ELSE sJobs[j]]
          /\ sCli' = (IF child THEN "reaped" ELSE sCli) /\ UNCHANGED <<sSup, sArmed, sLink, sBroker>>
      BY <1>14, <2>2 DEF S!KillOrphans
    <3>2. sSup = "crashed" BY <2>2 DEF SupForest
    <3>3. SupTypes' BY <3>1 DEF SupTypes
    <3>4. SupChild' /\ SupTold' BY <3>1, <3>2 DEF SupChild, SupTold, Early, Later
    <3>5. SupForest' BY <3>1, <3>2, ForestKeeps DEF SupForest, SupTypes, SupChild, Early
    <3> QED BY <3>3, <3>4, <3>5
  <2>3. CASE ~(mine = {} /\ ~child) /\ ~works
    <3>1. UNCHANGED <<sSup, sCli, sArmed, sJobs, sLink>> /\ sBroker' = [sBroker EXCEPT !.gaveUp = @ \cup mine]
      BY <1>14, <2>3 DEF S!KillOrphans
    <3> QED BY <3>1 DEF SupTypes, SupChild, SupForest, SupTold
  <2> QED BY <2>1, <2>2, <2>3
<1> QED BY <1>1, <1>2, <1>3, <1>4, <1>5, <1>6, <1>7, <1>8, <1>9, <1>10, <1>11, <1>12, <1>13, <1>14
        DEF S!Next

LEMMA SupervisorProperty == SupervisorInv => S!SessionIsHeld
BY SetupFacts DEF SupervisorInv, SupTypes, SupChild, SupTold, S!SessionIsHeld, S!CliAlive, S!Alive,
                  Early, Later

-----------------------------------------------------------------------------
(* The archive slots (Archive).                                            *)

Parties == {"body", "walk", "worker"}
Holding == {r \in Requests : aHeld[r] # {}}
HoldingOf(u) == {r \in Requests : UserOf[r] = u /\ aHeld[r] # {}}

ArcTypes ==
    /\ aHeld \in [Requests -> SUBSET Parties]
    /\ aTotal \in Nat /\ aPerUser \in [A!Users -> Nat]
    /\ aWalk \in [Requests -> {"none", "running", "over"}]
    /\ aBody \in [Requests -> {"none", "admitted", "walked", "reading", "over"}]
    /\ aWorker \in [Requests -> {"none", "writing", "closing", "over"}]
    /\ aQueue \in [Requests -> Nat] /\ aLeft \in [Requests -> Nat]
    /\ aCancel \in [Requests -> BOOLEAN]

\* A slot's parties are those that are at work on it; nobody fills a queue
\* whose reader has left.
ArcParties == \A r \in Requests :
    /\ "walk" \in aHeld[r] <=> aWalk[r] = "running"
    /\ "body" \in aHeld[r] <=> aBody[r] \in {"admitted", "walked", "reading"}
    /\ "worker" \in aHeld[r] <=> aWorker[r] \in {"writing", "closing"}
    /\ aBody[r] \in {"none", "admitted", "walked"} => aWorker[r] = "none"
    /\ aBody[r] = "none" => aWalk[r] = "none"
    /\ aQueue[r] > 0 => aBody[r] = "reading"
    /\ aBody[r] = "over" => aWorker[r] = "none" \/ aCancel[r]

\* The counters count the slots that are held.
ArcCounts ==
    /\ aTotal = Cardinality(Holding) /\ aTotal <= MaxTotal
    /\ \A u \in A!Users : aPerUser[u] <= MaxUser /\ aPerUser[u] = Cardinality(HoldingOf(u))

ArchiveInv == ArcTypes /\ ArcParties /\ ArcCounts

LEMMA ArchiveCardinality == \A s : A!Cardinality(s) = Cardinality(s)
BY DEF A!Cardinality, Cardinality

LEMMA HoldingFinite ==
    /\ IsFiniteSet(Holding) /\ Cardinality(Holding) \in Nat
    /\ \A u : IsFiniteSet(HoldingOf(u)) /\ Cardinality(HoldingOf(u)) \in Nat
<1>1. Holding \in SUBSET Requests /\ \A u : HoldingOf(u) \in SUBSET Requests
  BY DEF Holding, HoldingOf
<1>2. IsFiniteSet(Requests) BY ArchiveAssumption
<1>3. \A T \in SUBSET Requests : IsFiniteSet(T) /\ Cardinality(T) \in Nat
  BY <1>2, FS_Subset, FS_CardinalityType
<1> QED BY <1>1, <1>3

LEMMA ArchiveInit == A!Init => ArchiveInv
<1> SUFFICES ASSUME A!Init PROVE ArchiveInv
  OBVIOUS
<1> USE ArchiveAssumption DEF A!Init
<1>1. ArcTypes BY DEF ArcTypes, Parties
<1>2. ArcParties BY DEF ArcParties
<1>3. Holding = {} /\ \A u : HoldingOf(u) = {} BY DEF Holding, HoldingOf
<1>4. Cardinality({}) = 0 BY FS_EmptySet
<1>5. ArcCounts BY <1>3, <1>4 DEF ArcCounts
<1> QED BY <1>1, <1>2, <1>5 DEF ArchiveInv

LEMMA ArchiveProperty == ArchiveInv => A!SlotsBound
<1> SUFFICES ASSUME ArchiveInv PROVE A!SlotsBound
  OBVIOUS
<1>1. \A r \in Requests : A!Live(r) => aHeld[r] # {}
  BY DEF ArchiveInv, ArcTypes, ArcParties, A!Live
<1> QED BY <1>1, ArchiveCardinality DEF ArchiveInv, ArcCounts, A!SlotsBound, Holding, HoldingOf

\* A party that leaves frees the slot if it is the last one.
LEMMA LeaveKeeps ==
    ASSUME ArchiveInv, NEW r \in Requests, NEW gone \in SUBSET Parties, A!Leave(r, gone)
    PROVE  /\ aHeld' = [aHeld EXCEPT ![r] = @ \ gone] /\ ArcCounts'
           /\ aTotal' \in Nat /\ aPerUser' \in [A!Users -> Nat]
<1> USE ArchiveAssumption DEF ArchiveInv, ArcTypes
<1>1. aHeld' = [aHeld EXCEPT ![r] = @ \ gone] BY DEF A!Leave
<1>2. UserOf[r] \in A!Users BY DEF A!Users
<1>3. CASE aHeld[r] # {} /\ aHeld[r] \subseteq gone
  <2>1. aTotal' = aTotal - 1 /\ aPerUser' = [aPerUser EXCEPT ![UserOf[r]] = @ - 1]
    BY <1>3 DEF A!Leave
  <2>2. Holding' = Holding \ {r} /\ r \in Holding
    BY <1>1, <1>3 DEF Holding
  <2>3. Cardinality(Holding') = Cardinality(Holding) - 1
    BY <2>2, HoldingFinite, FS_RemoveElement
  <2>4. /\ HoldingOf(UserOf[r])' = HoldingOf(UserOf[r]) \ {r} /\ r \in HoldingOf(UserOf[r])
        /\ \A u : u # UserOf[r] => HoldingOf(u)' = HoldingOf(u)
    BY <1>1, <1>3 DEF HoldingOf
  <2>5. Cardinality(HoldingOf(UserOf[r])') = Cardinality(HoldingOf(UserOf[r])) - 1
    <3>1. IsFiniteSet(HoldingOf(UserOf[r])) BY HoldingFinite
    <3>2. Cardinality(HoldingOf(UserOf[r]) \ {r}) = Cardinality(HoldingOf(UserOf[r])) - 1
      BY <3>1, <2>4, FS_RemoveElement
    <3> QED BY <3>2, <2>4
  <2>6. Cardinality(Holding') \in Nat /\ Cardinality(HoldingOf(UserOf[r])') \in Nat
    <3>1. IsFiniteSet(Holding \ {r}) /\ IsFiniteSet(HoldingOf(UserOf[r]) \ {r})
      BY HoldingFinite, FS_RemoveElement
    <3>2. Cardinality(Holding \ {r}) \in Nat /\ Cardinality(HoldingOf(UserOf[r]) \ {r}) \in Nat
      BY <3>1, FS_CardinalityType
    <3> QED BY <3>2, <2>2, <2>4
  <2>7. aTotal' \in Nat /\ aTotal' = Cardinality(Holding') /\ aTotal' <= MaxTotal
    BY <2>1, <2>3, <2>6 DEF ArcCounts
  <2>8. aPerUser'[UserOf[r]] = aPerUser[UserOf[r]] - 1 /\ \A u \in A!Users : u # UserOf[r] => aPerUser'[u] = aPerUser[u]
    BY <2>1, <1>2
  <2>9. /\ aPerUser'[UserOf[r]] = Cardinality(HoldingOf(UserOf[r])')
        /\ aPerUser'[UserOf[r]] \in Nat /\ aPerUser'[UserOf[r]] <= MaxUser
    BY <2>5, <2>6, <2>8, <1>2 DEF ArcCounts
  <2>10. aPerUser' \in [A!Users -> Nat]
    BY <2>1, <2>8, <2>9
  <2>11. \A u \in A!Users : aPerUser'[u] <= MaxUser /\ aPerUser'[u] = Cardinality(HoldingOf(u)')
    <3> SUFFICES ASSUME NEW u \in A!Users
                 PROVE  aPerUser'[u] <= MaxUser /\ aPerUser'[u] = Cardinality(HoldingOf(u)')
      OBVIOUS
    <3>1. CASE u = UserOf[r] BY <3>1, <2>9
    <3>2. CASE u # UserOf[r] BY <3>2, <2>4, <2>8 DEF ArcCounts
    <3> QED BY <3>1, <3>2
  <2>12. ArcCounts' BY <2>7, <2>11 DEF ArcCounts, A!Users
  <2> QED BY <1>1, <2>7, <2>10, <2>12
<1>4. CASE ~(aHeld[r] # {} /\ aHeld[r] \subseteq gone)
  <2>1. aTotal' = aTotal /\ aPerUser' = aPerUser BY <1>4 DEF A!Leave
  <2>2. Holding' = Holding /\ \A u : HoldingOf(u)' = HoldingOf(u)
    BY <1>1, <1>4 DEF Holding, HoldingOf
  <2> QED BY <1>1, <2>1, <2>2 DEF ArcCounts, A!Users
<1> QED BY <1>3, <1>4

\* Steps that leave the parties alone leave the counts alone.
LEMMA CountsKeep == ASSUME ArcCounts, UNCHANGED <<aTotal, aPerUser>>, Holding' = Holding,
                           \A u : HoldingOf(u)' = HoldingOf(u)
                    PROVE  ArcCounts'
BY DEF ArcCounts, A!Users

LEMMA ArchiveStep == ASSUME ArchiveInv, A!Next PROVE ArchiveInv'
<1> USE ArchiveAssumption DEF ArchiveInv
<1>0. PICK r \in Requests :
        \/ A!Admit(r) \/ A!Refuse(r) \/ A!WalkEnds(r) \/ A!Walked(r) \/ A!Dropped(r) \/ A!StartWorker(r)
        \/ A!Put(r) \/ A!ReadFails(r) \/ A!Stops(r) \/ A!WorkerEnds(r) \/ A!Get(r) \/ A!BodyEnds(r)
  BY DEF A!Next
<1>u. UserOf[r] \in A!Users BY DEF A!Users
<1>1. CASE A!Admit(r)
  <2>1. aHeld[r] = {} BY <1>1 DEF A!Admit, ArcParties, ArcTypes, Parties
  <2>2. ArcTypes'
    BY <1>1, <1>u DEF A!Admit, ArcTypes, Parties
  <2>3. ArcParties' BY <1>1 DEF A!Admit, ArcTypes, ArcParties
  <2>4. Holding' = Holding \cup {r} /\ r \notin Holding
    BY <1>1, <2>1 DEF A!Admit, ArcTypes, Holding
  <2>5. /\ HoldingOf(UserOf[r])' = HoldingOf(UserOf[r]) \cup {r} /\ r \notin HoldingOf(UserOf[r])
        /\ \A u : u # UserOf[r] => HoldingOf(u)' = HoldingOf(u)
    BY <1>1, <2>1 DEF A!Admit, ArcTypes, HoldingOf
  <2>6. Cardinality(Holding') = Cardinality(Holding) + 1
    BY <2>4, HoldingFinite, FS_AddElement
  <2>7. Cardinality(HoldingOf(UserOf[r])') = Cardinality(HoldingOf(UserOf[r])) + 1
    BY <2>5, HoldingFinite, FS_AddElement, ZenonT(40)
  <2>8. aTotal' = Cardinality(Holding') /\ aTotal' <= MaxTotal
    BY <1>1, <2>6 DEF A!Admit, ArcTypes, ArcCounts
  <2>9. \A u \in A!Users : aPerUser'[u] <= MaxUser /\ aPerUser'[u] = Cardinality(HoldingOf(u)')
    <3> SUFFICES ASSUME NEW u \in A!Users
                 PROVE  aPerUser'[u] <= MaxUser /\ aPerUser'[u] = Cardinality(HoldingOf(u)')
      OBVIOUS
    <3>1. CASE u = UserOf[r] BY <3>1, <1>1, <1>u, <2>7 DEF A!Admit, ArcTypes, ArcCounts
    <3>2. CASE u # UserOf[r] BY <3>2, <1>1, <1>u, <2>5 DEF A!Admit, ArcTypes, ArcCounts
    <3> QED BY <3>1, <3>2
  <2>10. ArcCounts' BY <2>8, <2>9 DEF ArcCounts, A!Users
  <2> QED BY <2>2, <2>3, <2>10
<1>2. CASE A!Refuse(r)
  <2>1. ArcCounts' BY <1>2, CountsKeep DEF A!Refuse, Holding, HoldingOf
  <2> QED BY <1>2, <2>1 DEF A!Refuse, ArcTypes, ArcParties
<1>3. CASE A!WalkEnds(r)
  <2>1. /\ aHeld' = [aHeld EXCEPT ![r] = @ \ {"walk"}] /\ ArcCounts'
        /\ aTotal' \in Nat /\ aPerUser' \in [A!Users -> Nat]
    BY <1>3, LeaveKeeps DEF A!WalkEnds, Parties
  <2> QED BY <1>3, <2>1 DEF A!WalkEnds, ArcTypes, ArcParties
<1>4. CASE A!Walked(r)
  <2>1. CASE aBody' = [aBody EXCEPT ![r] = "walked"] /\ UNCHANGED <<aHeld, aTotal, aPerUser>>
    <3>1. ArcCounts' BY <2>1, CountsKeep DEF Holding, HoldingOf
    <3> QED BY <1>4, <2>1, <3>1 DEF A!Walked, ArcTypes, ArcParties
  <2>2. CASE aBody' = [aBody EXCEPT ![r] = "over"] /\ A!Leave(r, {"body"})
    <3>1. /\ aHeld' = [aHeld EXCEPT ![r] = @ \ {"body"}] /\ ArcCounts'
          /\ aTotal' \in Nat /\ aPerUser' \in [A!Users -> Nat]
      BY <2>2, LeaveKeeps DEF Parties
    <3> QED BY <1>4, <2>2, <3>1 DEF A!Walked, ArcTypes, ArcParties
  <2> QED BY <1>4, <2>1, <2>2 DEF A!Walked
<1>5. CASE A!Dropped(r)
  <2>1. /\ aHeld' = [aHeld EXCEPT ![r] = @ \ {"body"}] /\ ArcCounts'
        /\ aTotal' \in Nat /\ aPerUser' \in [A!Users -> Nat]
    BY <1>5, LeaveKeeps DEF A!Dropped, Parties
  <2> QED BY <1>5, <2>1 DEF A!Dropped, ArcTypes, ArcParties
<1>6. CASE A!StartWorker(r)
  <2>1. CASE /\ aHeld' = [aHeld EXCEPT ![r] = @ \cup {"worker"}]
             /\ aWorker' = [aWorker EXCEPT ![r] = "writing"]
             /\ aBody' = [aBody EXCEPT ![r] = "reading"] /\ UNCHANGED <<aTotal, aPerUser>>
    <3>1. aHeld[r] # {} BY <1>6 DEF A!StartWorker, ArcParties
    <3>2. Holding' = Holding /\ \A u : HoldingOf(u)' = HoldingOf(u)
      BY <2>1, <3>1 DEF Holding, HoldingOf, ArcTypes
    <3>3. ArcCounts' BY <2>1, <3>2, CountsKeep
    <3> QED BY <1>6, <2>1, <3>3 DEF A!StartWorker, ArcTypes, ArcParties, Parties
  <2>2. CASE aBody' = [aBody EXCEPT ![r] = "over"] /\ A!Leave(r, {"body"}) /\ UNCHANGED aWorker
    <3>1. /\ aHeld' = [aHeld EXCEPT ![r] = @ \ {"body"}] /\ ArcCounts'
          /\ aTotal' \in Nat /\ aPerUser' \in [A!Users -> Nat]
      BY <2>2, LeaveKeeps DEF Parties
    <3> QED BY <1>6, <2>2, <3>1 DEF A!StartWorker, ArcTypes, ArcParties
  <2> QED BY <1>6, <2>1, <2>2 DEF A!StartWorker
<1>7. CASE A!Put(r)
  <2>1. ArcCounts' BY <1>7, CountsKeep DEF A!Put, Holding, HoldingOf
  <2> QED BY <1>7, <2>1 DEF A!Put, ArcTypes, ArcParties
<1>8. CASE A!ReadFails(r)
  <2>1. ArcCounts' BY <1>8, CountsKeep DEF A!ReadFails, Holding, HoldingOf
  <2> QED BY <1>8, <2>1 DEF A!ReadFails, ArcTypes, ArcParties
<1>9. CASE A!Stops(r)
  <2>1. ArcCounts' BY <1>9, CountsKeep DEF A!Stops, Holding, HoldingOf
  <2> QED BY <1>9, <2>1 DEF A!Stops, ArcTypes, ArcParties
<1>10. CASE A!WorkerEnds(r)
  <2>1. /\ aHeld' = [aHeld EXCEPT ![r] = @ \ {"worker"}] /\ ArcCounts'
        /\ aTotal' \in Nat /\ aPerUser' \in [A!Users -> Nat]
    BY <1>10, LeaveKeeps DEF A!WorkerEnds, Parties
  <2> QED BY <1>10, <2>1 DEF A!WorkerEnds, ArcTypes, ArcParties
<1>11. CASE A!Get(r)
  <2>1. ArcCounts' BY <1>11, CountsKeep DEF A!Get, Holding, HoldingOf
  <2> QED BY <1>11, <2>1 DEF A!Get, ArcTypes, ArcParties
<1>12. CASE A!BodyEnds(r)
  <2>1. /\ aHeld' = [aHeld EXCEPT ![r] = @ \ {"body"}] /\ ArcCounts'
        /\ aTotal' \in Nat /\ aPerUser' \in [A!Users -> Nat]
    BY <1>12, LeaveKeeps DEF A!BodyEnds, Parties
  <2> QED BY <1>12, <2>1 DEF A!BodyEnds, ArcTypes, ArcParties
<1> QED BY <1>0, <1>1, <1>2, <1>3, <1>4, <1>5, <1>6, <1>7, <1>8, <1>9, <1>10, <1>11, <1>12

-----------------------------------------------------------------------------
(* The broker's requests (BrokerTickets).                                  *)

BrkTypes ==
    /\ bConn \in [Conns -> {"none", "pending", "parked", "closed"}]
    /\ bTicket \in [Conns -> Tickets \cup {None}]
    /\ bTracked \in [Conns -> Nat] /\ bOpen \in [Conns -> Nat]
    /\ bWall \in Nat /\ bClock \in Nat /\ bSeen \in SUBSET Tickets
    /\ bStarted \in [Tickets -> Nat] /\ bLive \in [{"supervisor", "cleaner"} -> Nat]

\* What is open is tracked, and nothing of a connection that is not read.
BrkFds == \A c \in Conns : bTracked[c] = bOpen[c] /\ (bConn[c] # "pending" => bOpen[c] = 0)

BrkBounds == Cardinality(B!Pending) <= MaxPending /\ Cardinality(B!Parked) <= MaxParked

BrkLive == bLive["cleaner"] <= 1 /\ (bLive["cleaner"] = 1 => bLive["supervisor"] = 0)

\* A nonce is kept, or the clock that judges it has passed its expiry.
SpentTicket(t) == t \in bSeen \/ ExpOf[t] < bClock

\* What has started is spent; a parked request has spent a ticket of its own
\* that has started nothing yet.
BrkSpent ==
    /\ \A t \in Tickets : bStarted[t] <= 1 /\ (bStarted[t] # 0 => SpentTicket(t))
    /\ \A c \in Conns : bConn[c] = "parked" =>
          /\ bTicket[c] \in Tickets /\ OpOf[bTicket[c]] = "wait"
          /\ SpentTicket(bTicket[c]) /\ bStarted[bTicket[c]] = 0
    /\ \A c, d \in Conns :
          bConn[c] = "parked" /\ bConn[d] = "parked" /\ bTicket[c] = bTicket[d] => c = d

BrokerInv == BrkTypes /\ BrkFds /\ BrkBounds /\ BrkLive /\ BrkSpent

LEMMA BrokerCardinality == \A s : B!Cardinality(s) = Cardinality(s)
BY DEF B!Cardinality, Cardinality

LEMMA ConnsFinite == \A T \in SUBSET Conns : /\ IsFiniteSet(T) /\ Cardinality(T) \in Nat
                                             /\ \A U \in SUBSET T : Cardinality(U) <= Cardinality(T)
<1>1. IsFiniteSet(Conns) BY BrokerAssumption
<1>2. \A T \in SUBSET Conns : IsFiniteSet(T) BY <1>1, FS_Subset
<1>3. \A T \in SUBSET Conns : Cardinality(T) \in Nat BY <1>2, FS_CardinalityType
<1>4. \A T \in SUBSET Conns : \A U \in SUBSET T : Cardinality(U) <= Cardinality(T)
  BY <1>2, FS_Subset
<1> QED BY <1>2, <1>3, <1>4

LEMMA BrokerInit == B!Init => BrokerInv
<1> SUFFICES ASSUME B!Init PROVE BrokerInv
  OBVIOUS
<1>1. BrkTypes /\ BrkFds /\ BrkLive BY DEF B!Init, BrkTypes, BrkFds, BrkLive
<1>2. B!Pending = {} /\ B!Parked = {} BY DEF B!Init, B!Pending, B!Parked
<1>3. Cardinality({}) = 0 BY FS_EmptySet
<1>4. BrkBounds BY <1>2, <1>3, BrokerAssumption DEF BrkBounds
<1>5. BrkSpent BY DEF B!Init, BrkSpent
<1> QED BY <1>1, <1>4, <1>5 DEF BrokerInv

LEMMA BrokerProperty == BrokerInv => B!TicketIsSpentOnce /\ B!NothingLeaks
<1> SUFFICES ASSUME BrokerInv PROVE B!TicketIsSpentOnce /\ B!NothingLeaks
  OBVIOUS
<1>1. B!TicketIsSpentOnce BY DEF BrokerInv, BrkSpent, B!TicketIsSpentOnce
<1>2. B!NothingLeaks
  BY BrokerCardinality DEF BrokerInv, BrkFds, BrkBounds, BrkLive, B!NothingLeaks
<1> QED BY <1>1, <1>2

LEMMA NowFacts ==
    ASSUME BrkTypes
    PROVE  B!Now \in Nat /\ B!Now >= bClock
<1>1. \E x \in {bClock, bWall} : \A y \in {bClock, bWall} : x >= y
  BY DEF BrkTypes
<1>2. /\ B!Max({bClock, bWall}) \in {bClock, bWall}
      /\ \A y \in {bClock, bWall} : B!Max({bClock, bWall}) >= y
  BY <1>1 DEF B!Max
<1> QED BY <1>2 DEF B!Now, BrkTypes

\* Connections that are done with give back what they passed.
LEMMA CloseKeeps ==
    ASSUME BrokerInv, NEW Cs \in SUBSET Conns, NEW f \in [Conns -> Nat], B!Close(Cs, f, f),
           \A c \in Conns \ Cs : f[c] = bOpen[c]
    PROVE  /\ BrkFds' /\ BrkBounds'
           /\ bConn' \in [Conns -> {"none", "pending", "parked", "closed"}]
           /\ bTicket' \in [Conns -> Tickets \cup {None}]
           /\ bTracked' \in [Conns -> Nat] /\ bOpen' \in [Conns -> Nat]
           /\ \A c \in Conns : bConn'[c] = "parked" =>
                 c \notin Cs /\ bConn[c] = "parked" /\ bTicket'[c] = bTicket[c]
<1> USE DEF BrokerInv, BrkTypes
<1>1. /\ bConn' = [c \in Conns |-> IF c \in Cs THEN "closed" ELSE bConn[c]]
      /\ bOpen' = [c \in Conns |-> IF c \in Cs THEN f[c] - f[c] ELSE f[c]]
      /\ bTracked' = [c \in Conns |-> IF c \in Cs THEN 0 ELSE f[c]]
      /\ bTicket' = [c \in Conns |-> IF c \in Cs THEN None ELSE bTicket[c]]
  BY DEF B!Close
<1>2. BrkFds' BY <1>1 DEF BrkFds
<1>3. /\ B!Pending' \in SUBSET B!Pending /\ B!Parked' \in SUBSET B!Parked
      /\ B!Pending \in SUBSET Conns /\ B!Parked \in SUBSET Conns
  BY <1>1 DEF B!Pending, B!Parked
<1>4. /\ Cardinality(B!Pending') <= Cardinality(B!Pending) /\ Cardinality(B!Parked') <= Cardinality(B!Parked)
      /\ Cardinality(B!Pending) \in Nat /\ Cardinality(B!Parked) \in Nat
      /\ Cardinality(B!Pending') \in Nat /\ Cardinality(B!Parked') \in Nat
  BY <1>3, ConnsFinite
<1>5. BrkBounds' BY <1>4, BrokerAssumption DEF BrkBounds
<1> QED BY <1>1, <1>2, <1>5

\* Closing connections and nothing else.
LEMMA CloseOnly ==
    ASSUME BrokerInv, NEW Cs \in SUBSET Conns, NEW f \in [Conns -> Nat], B!Close(Cs, f, f),
           \A c \in Conns \ Cs : f[c] = bOpen[c],
           UNCHANGED <<bWall, bClock, bSeen, bStarted, bLive>>
    PROVE  BrokerInv'
<1>1. /\ BrkFds' /\ BrkBounds'
      /\ bConn' \in [Conns -> {"none", "pending", "parked", "closed"}]
      /\ bTicket' \in [Conns -> Tickets \cup {None}]
      /\ bTracked' \in [Conns -> Nat] /\ bOpen' \in [Conns -> Nat]
      /\ \A c \in Conns : bConn'[c] = "parked" =>
            c \notin Cs /\ bConn[c] = "parked" /\ bTicket'[c] = bTicket[c]
  BY CloseKeeps
<1>2. BrkTypes' /\ BrkLive' BY <1>1 DEF BrokerInv, BrkTypes, BrkLive
<1>3. BrkSpent' BY <1>1 DEF BrokerInv, BrkSpent, SpentTicket
<1> QED BY <1>1, <1>2, <1>3 DEF BrokerInv

\* A fork, or none: one process more of the ticket's kind.
LEMMA StartFacts ==
    ASSUME BrkTypes, BrkLive, NEW t \in Tickets, NEW forked \in BOOLEAN, ~B!Busy(t),
           B!Start(t, forked)
    PROVE  /\ bLive' \in [{"supervisor", "cleaner"} -> Nat] /\ BrkLive'
           /\ bStarted' \in [Tickets -> Nat]
           /\ bStarted' = bStarted \/ bStarted' = [bStarted EXCEPT ![t] = @ + 1]
<1> USE DEF BrkTypes
<1>1. CASE ~forked BY <1>1 DEF B!Start, BrkLive
<1>2. CASE forked
  <2>1. /\ bStarted' = [bStarted EXCEPT ![t] = @ + 1]
        /\ bLive' = [k \in {"supervisor", "cleaner"} |-> bLive[k] + Cardinality({k} \cap B!Kind(t))]
    BY <1>2, BrokerCardinality DEF B!Start
  <2>2. \A k : Cardinality({k} \cap B!Kind(t)) = IF k \in B!Kind(t) THEN 1 ELSE 0
    <3> SUFFICES ASSUME NEW k PROVE Cardinality({k} \cap B!Kind(t)) = IF k \in B!Kind(t) THEN 1 ELSE 0
      OBVIOUS
    <3>1. Cardinality({k}) = 1 /\ Cardinality({}) = 0 BY FS_Singleton, FS_EmptySet
    <3>2. CASE k \in B!Kind(t)
      <4>1. {k} \cap B!Kind(t) = {k} BY <3>2
      <4> QED BY <3>1, <3>2, <4>1
    <3>3. CASE k \notin B!Kind(t)
      <4>1. {k} \cap B!Kind(t) = {} BY <3>3
      <4> QED BY <3>1, <3>3, <4>1
    <3> QED BY <3>2, <3>3
  <2>3. /\ bLive'["supervisor"] = bLive["supervisor"] + IF "supervisor" \in B!Kind(t) THEN 1 ELSE 0
        /\ bLive'["cleaner"] = bLive["cleaner"] + IF "cleaner" \in B!Kind(t) THEN 1 ELSE 0
        /\ bLive' \in [{"supervisor", "cleaner"} -> Nat]
    BY <2>1, <2>2
  <2>4. OpOf[t] \in {"spawn", "wait", "cleanup", "transcript"} BY BrokerAssumption
  <2>5. BrkLive'
    BY <2>3, <2>4 DEF BrkLive, B!Busy, B!Kind
  <2> QED BY <2>1, <2>3, <2>5
<1> QED BY <1>1, <1>2

\* The whole header of a request that is not parked: the connection is closed,
\* and the ticket is spent whatever becomes of it.
LEMMA HeaderCloses ==
    ASSUME BrokerInv, NEW c \in Conns, NEW t \in Tickets, NEW n \in {0, 3, 4}, NEW forked \in BOOLEAN,
           B!Close({c}, B!Fds(c, n), B!Track(c, n)),
           \/ B!Verify(t, B!Now) /\ ~B!Busy(t) /\ B!Start(t, forked)
           \/ UNCHANGED <<bStarted, bLive>>,
           bClock' = B!Now,
           bSeen' = CASE B!Now > ExpOf[t] -> bSeen
                      [] OTHER -> {s \in bSeen : ExpOf[s] >= B!Now} \cup {t},
           UNCHANGED bWall
    PROVE  BrokerInv'
<1> USE BrokerAssumption DEF BrokerInv
<1> DEFINE f == [bOpen EXCEPT ![c] = @ + n]
<1>1. B!Fds(c, n) = f /\ B!Track(c, n) = f /\ f \in [Conns -> Nat]
      /\ \A d \in Conns \ {c} : f[d] = bOpen[d]
  <2>1. bTracked = bOpen BY DEF BrkTypes, BrkFds
  <2> QED BY <2>1 DEF B!Fds, B!Track, BrkTypes
<1>2. /\ BrkFds' /\ BrkBounds'
      /\ bConn' \in [Conns -> {"none", "pending", "parked", "closed"}]
      /\ bTicket' \in [Conns -> Tickets \cup {None}]
      /\ bTracked' \in [Conns -> Nat] /\ bOpen' \in [Conns -> Nat]
      /\ \A d \in Conns : bConn'[d] = "parked" =>
            d \notin {c} /\ bConn[d] = "parked" /\ bTicket'[d] = bTicket[d]
  <2> HIDE DEF f
  <2> QED BY <1>1, CloseKeeps, ZenonT(40)
<1>3. /\ bLive' \in [{"supervisor", "cleaner"} -> Nat] /\ BrkLive'
      /\ bStarted' \in [Tickets -> Nat]
      /\ \/ bStarted' = bStarted
         \/ B!Verify(t, B!Now) /\ bStarted' = [bStarted EXCEPT ![t] = @ + 1]
  <2>1. CASE B!Verify(t, B!Now) /\ ~B!Busy(t) /\ B!Start(t, forked)
    BY <2>1, StartFacts
  <2>2. CASE UNCHANGED <<bStarted, bLive>> BY <2>2 DEF BrkTypes, BrkLive
  <2> QED BY <2>1, <2>2
<1>4. B!Now \in Nat /\ B!Now >= bClock BY NowFacts
<1>5. BrkTypes' BY <1>2, <1>3, <1>4 DEF BrkTypes
<1>6. \A s \in Tickets : SpentTicket(s) => SpentTicket(s)'
  BY <1>4 DEF SpentTicket, BrkTypes
<1>7. SpentTicket(t)' BY <1>4 DEF SpentTicket, BrkTypes
<1>8. B!Verify(t, B!Now) => ~SpentTicket(t)
  BY <1>4 DEF B!Verify, SpentTicket, BrkTypes
<1>9. BrkSpent'
  <2>1. ASSUME NEW s \in Tickets
        PROVE  bStarted'[s] <= 1 /\ (bStarted'[s] # 0 => SpentTicket(s)')
    <3>1. CASE bStarted' = bStarted BY <3>1, <1>6 DEF BrkSpent
    <3>2. CASE B!Verify(t, B!Now) /\ bStarted' = [bStarted EXCEPT ![t] = @ + 1]
      <4>1. bStarted[t] = 0 BY <3>2, <1>8 DEF BrkSpent
      <4> QED BY <3>2, <4>1, <1>6, <1>7 DEF BrkSpent, BrkTypes
    <3> QED BY <3>1, <3>2, <1>3
  <2>2. ASSUME NEW d \in Conns, bConn'[d] = "parked"
        PROVE  /\ bTicket'[d] \in Tickets /\ OpOf[bTicket'[d]] = "wait"
               /\ SpentTicket(bTicket[d])' /\ bStarted'[bTicket'[d]] = 0
    <3>1. /\ bConn[d] = "parked" /\ bTicket'[d] = bTicket[d] /\ bTicket[d] \in Tickets
          /\ OpOf[bTicket[d]] = "wait" /\ SpentTicket(bTicket[d]) /\ bStarted[bTicket[d]] = 0
      BY <2>2, <1>2 DEF BrkSpent
    <3>2. bStarted'[bTicket[d]] = 0
      BY <3>1, <1>3, <1>8 DEF BrkTypes
    <3>3. SpentTicket(bTicket[d])'
      <4>1. bTicket[d] \in bSeen \/ ExpOf[bTicket[d]] < bClock BY <3>1 DEF SpentTicket
      <4>2. bTicket[d] \in bSeen' \/ ExpOf[bTicket[d]] < bClock'
        BY <4>1, <3>1, <1>4 DEF BrkTypes
      <4> QED BY <4>2, <3>1 DEF SpentTicket
    <3> QED BY <3>1, <3>2, <3>3
  <2>3. \A d, e \in Conns :
            bConn'[d] = "parked" /\ bConn'[e] = "parked" /\ bTicket'[d] = bTicket'[e] => d = e
    BY <1>2 DEF BrkSpent
  <2> QED BY <2>1, <2>2, <2>3 DEF BrkSpent
<1> QED BY <1>2, <1>3, <1>5, <1>9

LEMMA BrokerStep == ASSUME BrokerInv, B!Next PROVE BrokerInv'
<1> USE BrokerAssumption DEF BrokerInv
<1>o. bOpen \in [Conns -> Nat] /\ bTracked = bOpen /\ \A Cs : \A c \in Conns \ Cs : bOpen[c] = bOpen[c]
  BY DEF BrkTypes, BrkFds
<1>1. ASSUME NEW c \in Conns, B!Accept(c) PROVE BrokerInv'
  <2>1. B!Pending' = B!Pending \cup {c} /\ B!Parked' = B!Parked
    BY <1>1 DEF B!Accept, B!Pending, B!Parked, BrkTypes
  <2>2. IsFiniteSet(B!Pending) /\ Cardinality(B!Pending) \in Nat
    BY ConnsFinite DEF B!Pending
  <2>3. Cardinality(B!Pending') <= Cardinality(B!Pending) + 1
    <3>1. Cardinality(B!Pending \cup {c}) \in {Cardinality(B!Pending), Cardinality(B!Pending) + 1}
      BY <2>2, FS_AddElement
    <3> QED BY <2>1, <2>2, <3>1
  <2>4. Cardinality(B!Pending') \in Nat
    BY ConnsFinite, <2>1 DEF B!Pending
  <2>5. BrkBounds'
    BY <1>1, <2>1, <2>2, <2>3, <2>4, BrokerCardinality DEF B!Accept, BrkBounds
  <2>6. BrkTypes' /\ BrkFds' /\ BrkLive'
    BY <1>1 DEF B!Accept, BrkTypes, BrkFds, BrkLive, B!times
  <2>7. BrkSpent' BY <1>1 DEF B!Accept, BrkTypes, BrkSpent, SpentTicket, B!times
  <2> QED BY <2>5, <2>6, <2>7
<1>2. ASSUME NEW c \in Conns, B!HangUp(c) PROVE BrokerInv'
  BY <1>2, <1>o, CloseOnly DEF B!HangUp, B!times
<1>3. ASSUME NEW c \in Conns, B!GiveUp(c) PROVE BrokerInv'
  BY <1>3, <1>o, CloseOnly DEF B!GiveUp, B!times
<1>4. CASE B!Expire
  <2>1. B!Pending \cap bLate \in SUBSET Conns BY DEF B!Pending
  <2> QED BY <1>4, <1>o, <2>1, CloseOnly DEF B!Expire, B!times
<1>5. ASSUME NEW c \in Conns, B!Deadline(c) PROVE BrokerInv'
  BY <1>5 DEF B!Deadline, BrkTypes, BrkFds, BrkBounds, B!Pending, B!Parked, BrkLive, BrkSpent, SpentTicket,
              B!times
<1>6. ASSUME NEW c \in Conns, NEW n \in {0, 3, 4}, B!Part(c, n) PROVE BrokerInv'
  BY <1>6, <1>o DEF B!Part, B!Track, B!Fds, BrkTypes, BrkFds, BrkBounds, B!Pending, B!Parked, BrkLive,
                    BrkSpent, SpentTicket, B!times
<1>7. ASSUME NEW c \in Conns, NEW n \in {0, 3, 4}, B!Bad(c, n) PROVE BrokerInv'
  <2> DEFINE f == [bOpen EXCEPT ![c] = @ + n]
  <2>1. B!Fds(c, n) = f /\ B!Track(c, n) = f /\ f \in [Conns -> Nat]
        /\ \A d \in Conns \ {c} : f[d] = bOpen[d]
    BY <1>o DEF B!Fds, B!Track
  <2> HIDE DEF f
  <2> QED BY <1>7, <2>1, CloseOnly DEF B!Bad, B!times
<1>8. ASSUME NEW c \in Conns, NEW forked \in BOOLEAN, B!Unpark(c, forked) PROVE BrokerInv'
  <2> DEFINE t == bTicket[c]
  <2>0. /\ bConn[c] = "parked" /\ ~B!Busy(t) /\ B!Close({c}, bOpen, bTracked) /\ B!Start(t, forked)
        /\ UNCHANGED <<bWall, bClock, bSeen>>
    BY <1>8 DEF B!Unpark, B!times
  <2>1. t \in Tickets /\ SpentTicket(t) /\ bStarted[t] = 0 BY <2>0 DEF BrkSpent
  <2>2. /\ BrkFds' /\ BrkBounds'
        /\ bConn' \in [Conns -> {"none", "pending", "parked", "closed"}]
        /\ bTicket' \in [Conns -> Tickets \cup {None}]
        /\ bTracked' \in [Conns -> Nat] /\ bOpen' \in [Conns -> Nat]
        /\ \A d \in Conns : bConn'[d] = "parked" =>
              d \notin {c} /\ bConn[d] = "parked" /\ bTicket'[d] = bTicket[d]
    BY <1>o, <2>0, CloseKeeps
  <2> HIDE DEF t
  <2>3. /\ bLive' \in [{"supervisor", "cleaner"} -> Nat] /\ BrkLive'
        /\ bStarted' \in [Tickets -> Nat]
        /\ bStarted' = bStarted \/ bStarted' = [bStarted EXCEPT ![t] = @ + 1]
    BY <2>0, <2>1, StartFacts
  <2>4. BrkTypes' BY <2>0, <2>2, <2>3 DEF BrkTypes
  <2>5. \A s \in Tickets : bStarted'[s] <= 1 /\ (bStarted'[s] # 0 => s \in bSeen \/ ExpOf[s] < bClock)
    BY <2>1, <2>3 DEF BrkSpent, SpentTicket, BrkTypes
  <2>6. \A d \in Conns : bConn'[d] = "parked" =>
            /\ bTicket'[d] \in Tickets /\ OpOf[bTicket'[d]] = "wait" /\ bTicket[d] # t
            /\ (bTicket'[d] \in bSeen \/ ExpOf[bTicket'[d]] < bClock) /\ bStarted[bTicket'[d]] = 0
    BY <2>0, <2>2 DEF BrkSpent, SpentTicket, t
  <2>7. \A d \in Conns : bConn'[d] = "parked" => bStarted'[bTicket'[d]] = 0
    BY <2>1, <2>2, <2>3, <2>6 DEF BrkTypes
  <2>8. \A d, e \in Conns :
            bConn'[d] = "parked" /\ bConn'[e] = "parked" /\ bTicket'[d] = bTicket'[e] => d = e
    BY <2>2 DEF BrkSpent
  <2>9. BrkSpent' BY <2>0, <2>5, <2>6, <2>7, <2>8 DEF BrkSpent, SpentTicket
  <2> QED BY <2>2, <2>3, <2>4, <2>9
<1>9. ASSUME NEW c \in Conns, NEW t \in Tickets, NEW n \in {0, 3, 4}, NEW valid \in BOOLEAN,
             NEW forked \in BOOLEAN, B!Header(c, t, n, valid, forked)
      PROVE  BrokerInv'
  <2> DEFINE allowed == valid /\ IF OpOf[t] = "spawn" THEN bTracked[c] + n = 3 ELSE bTracked[c] + n = 0
             parks == OpOf[t] = "wait" /\ B!Busy(t) /\ B!Cardinality(B!Parked) < MaxParked
  <2>0. /\ bConn[c] = "pending" /\ bClock' = B!Now /\ UNCHANGED bWall
        /\ bSeen' = CASE B!Now > ExpOf[t] -> bSeen
                      [] OTHER -> {s \in bSeen : ExpOf[s] >= B!Now} \cup {t}
    BY <1>9 DEF B!Header
  <2>1. CASE B!Verify(t, B!Now) /\ allowed /\ parks
    <3>1. /\ bConn' = [bConn EXCEPT ![c] = "parked"] /\ bTicket' = [bTicket EXCEPT ![c] = t]
          /\ UNCHANGED <<bTracked, bOpen, bStarted, bLive>>
      BY <1>9, <2>1 DEF B!Header
    <3>2. bOpen[c] = 0 BY <1>o, <2>1
    <3>3. Cardinality(B!Parked) < MaxParked BY <2>1, BrokerCardinality
    <3>4. B!Pending' \in SUBSET B!Pending /\ B!Parked' = B!Parked \cup {c}
          /\ B!Pending \in SUBSET Conns /\ B!Parked \in SUBSET Conns
      BY <2>0, <3>1 DEF B!Pending, B!Parked, BrkTypes
    <3>5. /\ Cardinality(B!Pending') <= Cardinality(B!Pending) /\ IsFiniteSet(B!Parked)
          /\ Cardinality(B!Pending) \in Nat /\ Cardinality(B!Pending') \in Nat
          /\ Cardinality(B!Parked) \in Nat
      BY <3>4, ConnsFinite
    <3>6. Cardinality(B!Parked \cup {c}) \in {Cardinality(B!Parked), Cardinality(B!Parked) + 1}
      BY <3>5, FS_AddElement
    <3>7. BrkBounds' BY <3>3, <3>4, <3>5, <3>6 DEF BrkBounds
    <3>8. B!Now \in Nat /\ B!Now >= bClock BY NowFacts
    <3>9. BrkTypes' /\ BrkFds' /\ BrkLive'
      BY <2>0, <3>1, <3>2, <3>8, <1>o DEF BrkTypes, BrkFds, BrkLive
    <3>10. ~SpentTicket(t) /\ B!Now <= ExpOf[t]
      BY <2>1, <3>8 DEF B!Verify, SpentTicket, BrkTypes
    <3>11. t \in bSeen' /\ \A s \in Tickets : s \in bSeen \/ ExpOf[s] < bClock => s \in bSeen' \/ ExpOf[s] < bClock'
      BY <2>0, <3>8, <3>10 DEF BrkTypes
    <3>12. bStarted[t] = 0 /\ \A d \in Conns : bConn[d] = "parked" => bTicket[d] # t
      BY <3>10 DEF BrkSpent
    <3>13. \A s \in Tickets : bStarted'[s] <= 1 /\ (bStarted'[s] # 0 => s \in bSeen' \/ ExpOf[s] < bClock')
      BY <3>1, <3>11 DEF BrkSpent, SpentTicket
    <3>14. \A d \in Conns : bConn'[d] = "parked" =>
              \/ d = c /\ bTicket'[d] = t
              \/ d # c /\ bConn[d] = "parked" /\ bTicket'[d] = bTicket[d]
      BY <3>1 DEF BrkTypes
    <3>15. ASSUME NEW d \in Conns, bConn'[d] = "parked"
           PROVE  /\ bTicket'[d] \in Tickets /\ OpOf[bTicket'[d]] = "wait"
                  /\ bTicket'[d] \in bSeen' \/ ExpOf[bTicket'[d]] < bClock'
                  /\ bStarted'[bTicket'[d]] = 0
      <4>1. CASE d = c BY <4>1, <3>14, <3>15, <3>11, <3>12, <3>1, <2>1
      <4>2. CASE d # c
        BY <4>2, <3>14, <3>15, <3>11, <3>1 DEF BrkSpent, SpentTicket
      <4> QED BY <4>1, <4>2
    <3>16. \A d, e \in Conns :
              bConn'[d] = "parked" /\ bConn'[e] = "parked" /\ bTicket'[d] = bTicket'[e] => d = e
      BY <3>12, <3>14 DEF BrkSpent
    <3>17. BrkSpent' BY <3>13, <3>15, <3>16 DEF BrkSpent, SpentTicket
    <3> QED BY <3>7, <3>9, <3>17
  <2>2. CASE ~(B!Verify(t, B!Now) /\ allowed /\ parks)
    <3>1. /\ B!Close({c}, B!Fds(c, n), B!Track(c, n))
          /\ IF B!Verify(t, B!Now) /\ allowed /\ ~B!Busy(t) THEN B!Start(t, forked)
             ELSE UNCHANGED <<bStarted, bLive>>
      BY <1>9, <2>2 DEF B!Header
    <3>2. \/ B!Verify(t, B!Now) /\ ~B!Busy(t) /\ B!Start(t, forked)
          \/ UNCHANGED <<bStarted, bLive>>
      BY <3>1
    <3> QED BY <2>0, <3>1, <3>2, HeaderCloses
  <2> QED BY <2>1, <2>2
<1>10. ASSUME NEW k \in DOMAIN bLive, B!Reap(k) PROVE BrokerInv'
  BY <1>10 DEF B!Reap, BrkTypes, BrkFds, BrkBounds, B!Pending, B!Parked, BrkLive, BrkSpent, SpentTicket, B!times
<1>11. CASE B!Clock
  <2>1. bWall' \in Nat BY <1>11 DEF B!Clock
  <2> QED BY <1>11, <2>1 DEF B!Clock, BrkTypes, BrkFds, BrkBounds, B!Pending, B!Parked, BrkLive, BrkSpent,
                             SpentTicket
<1> QED BY <1>1, <1>2, <1>3, <1>4, <1>5, <1>6, <1>7, <1>8, <1>9, <1>10, <1>11 DEF B!Next, B!Passed

-----------------------------------------------------------------------------
(* The spawner of per-user containers (SandboxSpawner).                    *)

Before == {"asked", "ensure", "create", "restart", "network", "ready"}

BoxTypes ==
    /\ cUnit \in {"user", "session"}
    /\ cStep \in [Spawns -> Before \cup {"accepted", "wait", "done"}]
    /\ cFds \in [Spawns -> {"none", "held", "closed", "twice"}]
    /\ cWatch \in [Spawns -> {"none", "relay", "grace", "over"}]
    /\ cSig \in [Spawns -> BOOLEAN]
    /\ cCli \in [Spawns -> {"none", "starting", "running", "exited"}]
    /\ cJobs \in [Spawns -> SUBSET {"old", "young"}]
    /\ cReply \in [Spawns -> {None, "refused", "signaled", "exited"}]
    /\ cLock \in Spawns \cup {None} /\ cBox \in {"absent", "running", "stopped"}
    /\ cNet \in SUBSET Spawns
    /\ cPast \in [killed : SUBSET Spawns, early : SUBSET Spawns, taken : BOOLEAN]

\* Whoever starts or makes the user's container holds the user's lock, and it
\* is still absent for the one who makes it.
BoxLock ==
    /\ \A s \in Spawns : cStep[s] \in {"create", "restart"} => cLock = s
    /\ \A s \in Spawns : cStep[s] = "create" => cBox = "absent"
    /\ cPast.taken = FALSE

\* By a handler's step: who has the descriptors, how far the CLI is and what
\* it has left.
BoxSteps == \A s \in Spawns :
    /\ cStep[s] = "accepted" => cFds[s] = "none"
    /\ cStep[s] \in Before => cFds[s] = "held"
    /\ cStep[s] = "wait" => cFds[s] = "closed"
    /\ cStep[s] = "done" => cFds[s] \in {"none", "closed"}
    /\ cStep[s] \notin {"wait", "done"} => cCli[s] = "none"
    /\ cStep[s] = "done" => cCli[s] \in {"none", "exited"} /\ "old" \notin cJobs[s]
    /\ cCli[s] = "none" => cJobs[s] = {}
    /\ cCli[s] = "starting" => cJobs[s] = {}
    /\ cStep[s] = "done" /\ cUnit = "session" => cJobs[s] = {} /\ (s \in cNet => cReply[s] = "refused")

\* A CLI that a stop killed was marked as stopped before it was waited for.
BoxKilled == \A s \in Spawns :
    /\ cWatch[s] \in {"grace", "over"} => cSig[s]
    /\ s \in cPast.killed => /\ cCli[s] = "exited" /\ cSig[s] /\ cStep[s] \in {"wait", "done"}
                             /\ cStep[s] = "done" => cReply[s] = "signaled"

SandboxInv == BoxTypes /\ BoxLock /\ BoxSteps /\ BoxKilled

LEMMA SandboxInit == C!Init => SandboxInv
BY DEF C!Init, SandboxInv, BoxTypes, BoxLock, BoxSteps, BoxKilled, Before

LEMMA SandboxProperty == SandboxInv => C!SpawnsAreSettled
BY DEF SandboxInv, BoxTypes, BoxLock, BoxSteps, BoxKilled, C!SpawnsAreSettled

\* A refusal closes the descriptors that are still held.
LEMMA RefusedFacts ==
    ASSUME SandboxInv, NEW s \in Spawns, cStep[s] \in Before, C!Refused(s)
    PROVE  /\ cStep' = [cStep EXCEPT ![s] = "done"] /\ cReply' = [cReply EXCEPT ![s] = "refused"]
           /\ cFds' = [cFds EXCEPT ![s] = "closed"]
BY DEF SandboxInv, BoxSteps, C!Refused, C!Closes, C!Set

\* A stop kills a CLI that runs and marks it so, or changes neither it nor
\* what it left.
LEMMA StopFacts ==
    ASSUME NEW s \in Spawns, NEW kill \in BOOLEAN, BoxTypes, C!Stop(s, kill)
    PROVE  \/ /\ cCli[s] = "running" /\ cCli' = [cCli EXCEPT ![s] = "exited"]
              /\ cPast' = [cPast EXCEPT !.killed = @ \cup {s}]
              /\ cJobs' = cJobs \/ cJobs' = [cJobs EXCEPT ![s] = {}]
           \/ /\ cPast' = cPast \/ cPast' = [cPast EXCEPT !.early = @ \cup {s}]
              /\ UNCHANGED <<cCli, cJobs>>
BY DEF C!Stop, C!Set

LEMMA SandboxStep == ASSUME SandboxInv, C!Next PROVE SandboxInv'
<1> USE NoneAssumption DEF SandboxInv
<1>1. ASSUME NEW s \in Spawns, C!RecvHeader(s) PROVE SandboxInv'
  BY <1>1 DEF C!RecvHeader, C!Set, BoxTypes, BoxLock, BoxSteps, BoxKilled, Before
<1>2. ASSUME NEW s \in Spawns, C!BadHeader(s) PROVE SandboxInv'
  <2>1. BoxTypes' BY <1>2 DEF C!BadHeader, C!Set, BoxTypes
  <2>2. BoxLock' /\ BoxKilled' BY <1>2 DEF C!BadHeader, C!Set, BoxTypes, BoxLock, BoxKilled
  <2>3. BoxSteps' BY <1>2 DEF C!BadHeader, C!Set, BoxTypes, BoxSteps, Before
  <2> QED BY <2>1, <2>2, <2>3
<1>r. ASSUME NEW s \in Spawns, cStep[s] \in Before, C!Refused(s),
             UNCHANGED <<cUnit, cWatch, cSig, cCli, cJobs, cBox, cPast>>,
             cLock' = cLock \/ (cLock = s /\ cLock' = None),
             cNet' = cNet \/ cNet' = cNet \cup {s}
      PROVE  SandboxInv'
  <2>1. /\ cStep' = [cStep EXCEPT ![s] = "done"] /\ cReply' = [cReply EXCEPT ![s] = "refused"]
        /\ cFds' = [cFds EXCEPT ![s] = "closed"]
    BY <1>r, RefusedFacts
  <2>2. BoxTypes' BY <1>r, <2>1 DEF BoxTypes
  <2>3. BoxLock' BY <1>r, <2>1 DEF BoxTypes, BoxLock
  <2>4. BoxSteps' BY <1>r, <2>1 DEF BoxTypes, BoxSteps, Before
  <2>5. BoxKilled' BY <1>r, <2>1 DEF BoxTypes, BoxKilled, Before
  <2> QED BY <2>2, <2>3, <2>4, <2>5
<1>3. ASSUME NEW s \in Spawns, C!Validate(s) PROVE SandboxInv'
  <2>0. cStep[s] = "asked" /\ UNCHANGED <<cUnit, cWatch, cSig, cCli, cJobs, cLock, cBox, cNet, cPast>>
    BY <1>3 DEF C!Validate
  <2>1. CASE C!Refused(s) BY <2>0, <2>1, <1>r DEF Before
  <2>2. CASE /\ cStep' = [cStep EXCEPT ![s] = IF cUnit = "user" THEN "ensure" ELSE "network"]
             /\ UNCHANGED <<cReply, cFds>>
    BY <2>0, <2>2 DEF BoxTypes, BoxLock, BoxSteps, BoxKilled, Before
  <2> QED BY <1>3, <2>1, <2>2 DEF C!Validate, C!Set
<1>4. ASSUME NEW s \in Spawns, C!Inspect(s) PROVE SandboxInv'
  <2>1. \A z \in Spawns : cStep[z] \notin {"create", "restart"}
    BY <1>4 DEF C!Inspect, BoxLock
  <2>2. BoxTypes' BY <1>4 DEF C!Inspect, C!Set, BoxTypes, Before
  <2>3. BoxLock' BY <1>4, <2>1 DEF C!Inspect, C!Set, BoxTypes, BoxLock
  <2>4. BoxSteps' /\ BoxKilled' BY <1>4 DEF C!Inspect, C!Set, BoxTypes, BoxSteps, BoxKilled, Before
  <2> QED BY <2>2, <2>3, <2>4
<1>5. ASSUME NEW s \in Spawns, C!Ensure(s) PROVE SandboxInv'
  <2>0. /\ cStep[s] \in {"create", "restart"} /\ cLock = s /\ cLock' = None
        /\ cStep[s] = "create" => cBox = "absent"
        /\ UNCHANGED <<cUnit, cStub, cWatch, cSig, cCli, cJobs, cNet>>
    BY <1>5 DEF C!Ensure, BoxLock
  <2>1. CASE /\ cBox' = "running" /\ cStep' = [cStep EXCEPT ![s] = "ready"]
             /\ UNCHANGED <<cFds, cReply, cFaults, cPast>>
    <3>1. \A z \in Spawns : z # s => cStep[z] \notin {"create", "restart"}
      BY <2>0 DEF BoxLock
    <3>2. BoxTypes' /\ BoxLock' BY <2>0, <2>1, <3>1 DEF BoxTypes, BoxLock, Before
    <3>3. BoxSteps' /\ BoxKilled' BY <2>0, <2>1 DEF BoxTypes, BoxSteps, BoxKilled, Before
    <3> QED BY <3>2, <3>3
  <2>2. CASE C!Refused(s) /\ UNCHANGED <<cBox, cPast>>
    BY <2>0, <2>2, <1>r DEF Before
  <2> QED BY <1>5, <2>0, <2>1, <2>2 DEF C!Ensure, C!Set
<1>6. ASSUME NEW s \in Spawns, C!OwnNetwork(s) PROVE SandboxInv'
  <2>0. cStep[s] = "network" /\ UNCHANGED <<cUnit, cStub, cWatch, cSig, cCli, cJobs, cLock, cBox, cPast>>
    BY <1>6 DEF C!OwnNetwork
  <2>1. CASE C!Refused(s) /\ cNet' \in {cNet, cNet \cup {s}}
    BY <2>0, <2>1, <1>r DEF Before
  <2>2. CASE cStep' = [cStep EXCEPT ![s] = "ready"] /\ cNet' = cNet \cup {s} /\ UNCHANGED <<cFds, cReply>>
    <3>1. BoxTypes' /\ BoxLock' /\ BoxKilled'
      BY <2>0, <2>2 DEF BoxTypes, BoxLock, BoxKilled, Before
    <3>2. BoxSteps' BY <2>0, <2>2 DEF BoxTypes, BoxSteps, Before
    <3> QED BY <3>1, <3>2
  <2> QED BY <1>6, <2>1, <2>2 DEF C!OwnNetwork, C!Set
<1>7. ASSUME NEW s \in Spawns, C!Popen(s) PROVE SandboxInv'
  <2>0. cStep[s] = "ready" /\ UNCHANGED <<cUnit, cStub, cSig, cJobs, cLock, cBox, cNet, cPast>>
    BY <1>7 DEF C!Popen
  <2>1. CASE C!Refused(s) /\ UNCHANGED <<cCli, cWatch>>
    BY <2>0, <2>1, <1>r DEF Before
  <2>2. CASE /\ cStep' = [cStep EXCEPT ![s] = "wait"] /\ cCli' = [cCli EXCEPT ![s] = "starting"]
             /\ cFds' = C!HandOver(s) /\ cWatch' = [cWatch EXCEPT ![s] = "relay"] /\ UNCHANGED cReply
    <3>1. cFds' = [cFds EXCEPT ![s] = "closed"]
      BY <2>0, <2>2 DEF C!HandOver, C!Closes, C!Set, BoxSteps, Before
    <3>2. BoxTypes' /\ BoxLock' BY <2>0, <2>2, <3>1 DEF BoxTypes, BoxLock
    <3>3. BoxSteps' BY <2>0, <2>2, <3>1 DEF BoxTypes, BoxSteps, Before
    <3>4. BoxKilled' BY <2>0, <2>2 DEF BoxTypes, BoxKilled
    <3> QED BY <3>2, <3>3, <3>4
  <2> QED BY <1>7, <2>1, <2>2 DEF C!Popen, C!Set
<1>k. ASSUME NEW s \in Spawns, NEW kill \in BOOLEAN, C!Stop(s, kill),
             UNCHANGED <<cUnit, cStep, cFds, cReply, cLock, cBox>>,
             cSig' = [cSig EXCEPT ![s] = TRUE] \/ (cSig' = cSig /\ cSig[s]),
             cWatch' = cWatch \/ \E w \in {"grace", "over"} : cWatch' = [cWatch EXCEPT ![s] = w],
             cNet' = cNet \/ cNet' = cNet \ {s}
      PROVE  SandboxInv'
  <2>1. cSig' \in [Spawns -> BOOLEAN] /\ cSig'[s] /\ \A z \in Spawns : z # s => cSig'[z] = cSig[z]
    BY <1>k, ZenonT(40) DEF BoxTypes
  <2>2. CASE /\ cCli[s] = "running" /\ cCli' = [cCli EXCEPT ![s] = "exited"]
             /\ cPast' = [cPast EXCEPT !.killed = @ \cup {s}]
             /\ cJobs' = cJobs \/ cJobs' = [cJobs EXCEPT ![s] = {}]
    <3>1. BoxTypes' BY <1>k, <2>1, <2>2 DEF BoxTypes
    <3>2. BoxLock' BY <1>k, <2>2 DEF BoxTypes, BoxLock
    <3>3. cStep[s] = "wait" BY <2>2 DEF BoxTypes, BoxSteps
    <3>4. BoxSteps' BY <1>k, <2>2, <3>3 DEF BoxTypes, BoxSteps, Before
    <3>5. BoxKilled' BY <1>k, <2>1, <2>2, <3>3 DEF BoxTypes, BoxKilled
    <3> QED BY <3>1, <3>2, <3>4, <3>5
  <2>3. CASE /\ cPast' = cPast \/ cPast' = [cPast EXCEPT !.early = @ \cup {s}]
             /\ UNCHANGED <<cCli, cJobs>>
    <3>1. BoxTypes' BY <1>k, <2>1, <2>3 DEF BoxTypes
    <3>0. cPast'.killed = cPast.killed /\ cPast'.taken = cPast.taken BY <2>3 DEF BoxTypes
    <3>2. BoxLock' BY <1>k, <2>3, <3>0 DEF BoxTypes, BoxLock
    <3>4. BoxSteps' BY <1>k, <2>3 DEF BoxTypes, BoxSteps, Before
    <3>5. BoxKilled' BY <1>k, <2>1, <2>3, <3>0 DEF BoxTypes, BoxKilled
    <3> QED BY <3>1, <3>2, <3>4, <3>5
  <2> QED BY <1>k, <2>2, <2>3, StopFacts
<1>8. ASSUME NEW s \in Spawns, C!Relay(s) PROVE SandboxInv'
  BY <1>8, <1>k DEF C!Relay, C!Set
<1>9. ASSUME NEW s \in Spawns, C!StubGone(s) PROVE SandboxInv'
  BY <1>9, <1>k DEF C!StubGone, C!Set
<1>10. ASSUME NEW s \in Spawns, C!GraceOver(s) PROVE SandboxInv'
  <2>1. cSig[s] BY <1>10 DEF C!GraceOver, BoxKilled
  <2> QED BY <1>10, <1>k, <2>1 DEF C!GraceOver, C!Set
<1>11. ASSUME NEW s \in Spawns, C!Wait(s) PROVE SandboxInv'
  <2>0. /\ cStep[s] = "wait" /\ cCli[s] = "exited" /\ cStep' = [cStep EXCEPT ![s] = "done"]
        /\ cReply' = [cReply EXCEPT ![s] = IF cSig[s] THEN "signaled" ELSE "exited"]
        /\ UNCHANGED <<cUnit, cFds, cWatch, cSig, cCli, cLock, cBox, cPast>>
    BY <1>11 DEF C!Wait, C!Report, C!Set
  <2>1. PICK left \in {{}, {"young"}} : cJobs' = [cJobs EXCEPT ![s] = left]
                                        /\ (cUnit = "session" => left = {})
    BY <1>11 DEF C!Wait, C!Set, BoxTypes
  <2>2. cNet' \in SUBSET cNet /\ (cUnit = "session" => s \notin cNet')
    BY <1>11 DEF C!Wait, C!Set, BoxTypes
  <2>3. BoxTypes' BY <2>0, <2>1, <2>2 DEF BoxTypes
  <2>4. BoxLock' BY <2>0 DEF BoxTypes, BoxLock
  <2>5. BoxSteps' BY <2>0, <2>1, <2>2 DEF BoxTypes, BoxSteps, Before
  <2>6. BoxKilled' BY <2>0 DEF BoxTypes, BoxKilled
  <2> QED BY <2>3, <2>4, <2>5, <2>6
<1>12. ASSUME NEW s \in Spawns, C!StubSignals(s) \/ C!StubDies(s) PROVE SandboxInv'
  BY <1>12 DEF C!StubSignals, C!StubDies, BoxTypes, BoxLock, BoxSteps, BoxKilled
<1>13. ASSUME NEW s \in Spawns, C!CliStarts(s) PROVE SandboxInv'
  <2>0. /\ cCli[s] = "starting"
        /\ cCli' = [cCli EXCEPT ![s] = "running"] \/ cCli' = [cCli EXCEPT ![s] = "exited"]
        /\ UNCHANGED <<cUnit, cStep, cFds, cWatch, cSig, cJobs, cReply, cLock, cBox, cNet, cPast>>
    BY <1>13 DEF C!CliStarts, C!Set
  <2>1. cStep[s] = "wait" BY <2>0 DEF BoxTypes, BoxSteps
  <2>2. BoxTypes' /\ BoxLock' BY <2>0 DEF BoxTypes, BoxLock
  <2>3. BoxSteps' BY <2>0, <2>1 DEF BoxTypes, BoxSteps, Before
  <2>4. BoxKilled' BY <2>0 DEF BoxTypes, BoxKilled
  <2> QED BY <2>2, <2>3, <2>4
<1>14. ASSUME NEW s \in Spawns, C!CliForks(s) PROVE SandboxInv'
  <2>1. cStep[s] = "wait" BY <1>14 DEF C!CliForks, BoxTypes, BoxSteps
  <2>2. BoxTypes' /\ BoxLock' /\ BoxKilled' BY <1>14 DEF C!CliForks, C!Set, BoxTypes, BoxLock, BoxKilled
  <2>3. BoxSteps' BY <1>14, <2>1 DEF C!CliForks, C!Set, BoxTypes, BoxSteps, Before
  <2> QED BY <2>2, <2>3
<1>15. ASSUME NEW s \in Spawns, C!CliExits(s) PROVE SandboxInv'
  <2>1. cStep[s] = "wait" BY <1>15 DEF C!CliExits, BoxTypes, BoxSteps
  <2>2. BoxTypes' /\ BoxLock' /\ BoxKilled' BY <1>15 DEF C!CliExits, C!Set, BoxTypes, BoxLock, BoxKilled
  <2>3. BoxSteps' BY <1>15, <2>1 DEF C!CliExits, C!Set, BoxTypes, BoxSteps, Before
  <2> QED BY <2>2, <2>3
<1>16. CASE C!BoxStops
  <2>0. /\ cBox = "running" /\ cBox' = "stopped"
        /\ cCli' = [s \in Spawns |-> IF cCli[s] = "running" THEN "exited" ELSE cCli[s]]
        /\ cJobs' = [s \in Spawns |-> {}]
        /\ UNCHANGED <<cUnit, cStep, cFds, cWatch, cSig, cReply, cLock, cNet, cPast>>
    BY <1>16 DEF C!BoxStops
  <2>1. BoxTypes' /\ BoxLock' BY <2>0 DEF BoxTypes, BoxLock
  <2>2. BoxSteps' BY <2>0 DEF BoxTypes, BoxSteps, Before
  <2>3. BoxKilled' BY <2>0 DEF BoxTypes, BoxKilled
  <2> QED BY <2>1, <2>2, <2>3
<1> QED BY <1>1, <1>2, <1>3, <1>4, <1>5, <1>6, <1>7, <1>8, <1>9, <1>10, <1>11, <1>12, <1>13, <1>14,
           <1>15, <1>16 DEF C!Next, C!Handler, C!Watcher

-----------------------------------------------------------------------------
(* The suite.                                                              *)

\* The inductive invariant: that of each component.
ServicesInv == /\ OutboxInv /\ ArchiveInv /\ SupervisorInv /\ BrokerInv /\ StartupInv /\ SandboxInv

LEMMA OutboxStays == ASSUME OutboxInv, UNCHANGED outbox PROVE OutboxInv'
BY DEF outbox, OutboxInv, OutTypes, OutOrder, OutReader, OutTurns, OutRows

LEMMA ArchiveStays == ASSUME ArchiveInv, UNCHANGED archive PROVE ArchiveInv'
<1>1. ArcTypes' BY DEF archive, ArchiveInv, ArcTypes, A!Users
<1>2. ArcParties' BY DEF archive, ArchiveInv, ArcParties
<1>3. Holding' = Holding BY DEF archive, Holding
<1>4. \A u : HoldingOf(u)' = HoldingOf(u) BY DEF archive, HoldingOf
<1>5. ArcCounts' BY <1>3, <1>4 DEF archive, ArchiveInv, ArcCounts, A!Users
<1> QED BY <1>1, <1>2, <1>5 DEF ArchiveInv

LEMMA SupervisorStays == ASSUME SupervisorInv, UNCHANGED session PROVE SupervisorInv'
BY DEF session, SupervisorInv, SupTypes, SupChild, SupForest, SupTold

LEMMA BrokerStays == ASSUME BrokerInv, UNCHANGED requests PROVE BrokerInv'
BY DEF requests, BrokerInv, BrkTypes, BrkFds, BrkBounds, BrkLive, BrkSpent, SpentTicket, B!Pending, B!Parked

LEMMA StartupStays == ASSUME StartupInv, UNCHANGED startup PROVE StartupInv'
BY DEF startup, StartupInv, I!TypeOK, I!SecretLeavesEnv, SettledOK, RanOK, Outcome

LEMMA SandboxStays == ASSUME SandboxInv, UNCHANGED sandbox PROVE SandboxInv'
BY DEF sandbox, SandboxInv, BoxTypes, BoxLock, BoxSteps, BoxKilled

\* Every state of the services satisfies the invariant of each of them, for
\* every number of requests, jobs, connections, tickets and spawns.
THEOREM ServicesInvariant == Spec => []ServicesInv
<1>1. Init => ServicesInv
  BY OutboxInit, ArchiveInit, SupervisorInit, BrokerInit, StartupInit, SandboxInit DEF Init, ServicesInv
<1>2. ServicesInv /\ [Next]_all => ServicesInv'
  <2> SUFFICES ASSUME ServicesInv, [Next]_all PROVE ServicesInv'
    OBVIOUS
  <2> USE DEF ServicesInv
  <2> USE OutboxStays, ArchiveStays, SupervisorStays, BrokerStays, StartupStays, SandboxStays
  <2>1. CASE O!Next /\ UNCHANGED <<focus, archive, session, requests, startup, sandbox>>
    BY <2>1, OutboxStep
  <2>2. CASE A!Next /\ UNCHANGED <<focus, outbox, session, requests, startup, sandbox>>
    BY <2>2, ArchiveStep
  <2>3. CASE S!Next /\ UNCHANGED <<focus, outbox, archive, requests, startup, sandbox>>
    BY <2>3, SupervisorStep
  <2>4. CASE B!Next /\ UNCHANGED <<focus, outbox, archive, session, startup, sandbox>>
    BY <2>4, BrokerStep
  <2>5. CASE I!Next /\ UNCHANGED <<focus, outbox, archive, session, requests, sandbox>>
    BY <2>5, StartupStep
  <2>6. CASE C!Next /\ UNCHANGED <<focus, outbox, archive, session, requests, startup>>
    BY <2>6, SandboxStep
  <2>7. CASE UNCHANGED all
    BY <2>7 DEF all
  <2> QED BY <2>1, <2>2, <2>3, <2>4, <2>5, <2>6, <2>7 DEF Next
<1> QED BY <1>1, <1>2, PTL DEF Spec

\* The outbox of a session reads the CLI's stream once and in order, leaves a
\* turn's result to that turn, and lists no task as running that is not
\* (session_outbox.py).
THEOREM StreamIsReadOnce == Spec => []OutboxIsFaithful
<1>1. ServicesInv => OutboxIsFaithful BY OutboxProperty DEF ServicesInv
<1> QED BY <1>1, ServicesInvariant, PTL

\* No process, ticket, descriptor, slot or container outlives what it was
\* held for (isolation_broker.py, terminal_files.py, sandbox_spawner.py).
THEOREM NothingIsLeftRunning == Spec => []ProcessesAreHeld
<1>1. ServicesInv => ProcessesAreHeld
  BY SupervisorProperty, BrokerProperty, ArchiveProperty, SandboxProperty
     DEF ServicesInv, ProcessesAreHeld
<1> QED BY <1>1, ServicesInvariant, PTL

\* No CLI runs outside the boundary that was asked for, and the ticket secret
\* leaves the environment (landlock.py, entrypoint.py).
THEOREM IsolationFailsClosed == Spec => []FailsClosed
<1>1. ServicesInv => FailsClosed BY StartupFailsClosed DEF ServicesInv, StartupInv, FailsClosed
<1> QED BY <1>1, ServicesInvariant, PTL

=============================================================================

-------------------------- MODULE SharedStateProofs --------------------------
(***************************************************************************)
(* Proofs about MCSharedState, for every value of its constants: whose     *)
(* processes and data are on a uid, what the stores keep, what a cleanup   *)
(* removes, how directories appear and go, what a file route and a rule of *)
(* a confined CLI reach, and what no step takes.  A part of the suite      *)
(* moves only while its focus is chosen, so each has an inductive          *)
(* invariant of its own.  The suite's variables have in each section the   *)
(* names of the part's module, or a name of their own where another        *)
(* section has that one.                                                   *)
(***************************************************************************)
EXTENDS MCSharedState, FiniteSetTheorems, SequenceTheorems, WellFoundedInduction, TLAPS

-----------------------------------------------------------------------------
(* The runs of UidRuns and the uids they lease.                            *)

leases == x1
fresh == x2
released == x3
cleanFor == x4
phase == x5
ws == x6
acl == x7
job == x8
op == x9
cli == x10
orphans == x11
dirt == x12

USE DEF leases, fresh, released, cleanFor, phase, ws, acl, job, op, cli, orphans, dirt

Uids == 1..NumUids

JobRecords == [uid : Uids, leased : BOOLEAN, tries : Nat, st : {"due", "op"}]
OpRecords == [kind : {"clean", "wipe", "clear"}, uid : Uids,
              st : {"sent", "parked", "running", "ok", "failed", "refused"}]
CliRecords == [uid : Uids, st : {"running", "ending"}]

RunTypes ==
    /\ leases \in [Runs -> Uids \cup {None}] /\ fresh \in 1..(NumUids + 1) /\ released \in Seq(Uids)
    /\ cleanFor \in [Uids -> Runs \cup {None}]
    /\ phase \in [Runs -> {"new", "placed", "leased", "cleaning", "ready", "up", "over", "stale",
                           "wiping", "gone"}]
    /\ ws \in SUBSET Runs /\ acl \in [Runs -> Uids \cup {None}]
    /\ job \in [Runs -> JobRecords \cup {None}] /\ op \in [Runs -> OpRecords \cup {None}]
    /\ cli \in [Runs -> CliRecords \cup {None}]
    /\ orphans \in SUBSET Runs /\ dirt \in [Uids -> SUBSET Runs]

\* A uid below the fresh ones is leased or released, and that once.
PoolInv ==
    /\ \A r, s \in Runs : leases[r] # None /\ leases[r] = leases[s] => r = s
    /\ \A i, j \in DOMAIN released : released[i] = released[j] => i = j
    /\ \A r \in Runs : leases[r] # None =>
          leases[r] < fresh /\ \A i \in DOMAIN released : released[i] # leases[r]
    /\ \A i \in DOMAIN released : released[i] < fresh
    /\ \A u \in Uids : u < fresh => \/ \E r \in Runs : leases[r] = u
                                   \/ \E i \in DOMAIN released : released[i] = u

\* A run that is on its way to a CLI has its workspace, from its lease on a
\* uid, and no CLI yet.
PhaseInv == \A r \in Runs :
    /\ phase[r] = "new" => r \notin ws /\ leases[r] = None
    /\ phase[r] \in {"placed", "leased", "cleaning", "ready"} => r \in ws
    /\ phase[r] \in {"leased", "cleaning", "ready"} => leases[r] # None
    /\ phase[r] = "up" /\ r \in ws => leases[r] # None
    /\ phase[r] \in {"new", "placed", "leased", "cleaning", "ready"} => cli[r] = None
    /\ job[r] # None => phase[r] = "wiping"

\* A uid that was found clean for the run that leases it holds at most that
\* run's data; who leases for the first time was never promised a clean uid
\* and has named none in an ACL.
CleanInv == \A r \in Runs :
    /\ \A u \in Uids : leases[r] = u /\ cleanFor[u] = r => dirt[u] \subseteq {r}
    /\ phase[r] \in {"new", "placed"} /\ leases[r] = None =>
          acl[r] = None /\ \A u \in Uids : cleanFor[u] # r
    /\ phase[r] = "ready" => cleanFor[leases[r]] = r /\ acl[r] = leases[r]
    /\ acl[r] # None /\ leases[r] # None => acl[r] = leases[r]

\* A process of a run is on the uid its workspace names.
ProcessInv == \A r \in Runs :
    /\ cli[r] # None => acl[r] = cli[r].uid
    /\ r \in orphans => acl[r] # None

\* The broker cleans for a run that waits for it, and wipes for one whose job
\* is at it.
OpInv == \A r \in Runs : op[r] # None =>
    /\ op[r].kind = "clean" => phase[r] = "cleaning" /\ op[r].uid = leases[r]
    /\ op[r].kind # "clean" => phase[r] = "wiping"

RunsInv == /\ RunTypes /\ PoolInv /\ PhaseInv /\ CleanInv /\ ProcessInv /\ OpInv
           /\ R!RunsAreApart /\ R!NoWipeUnderCli

\* What a record of the model holds, and keeps when one field is set.
LEMMA RecordFields == ASSUME RunTypes, NEW q \in Runs
    PROVE  /\ op[q] # None => /\ op[q] \in OpRecords /\ op[q].uid \in Uids
                             /\ op[q].kind \in {"clean", "wipe", "clear"}
           /\ job[q] # None => job[q] \in JobRecords /\ job[q].uid \in Uids
           /\ cli[q] # None => cli[q] \in CliRecords /\ cli[q].uid \in Uids
  BY DEF RunTypes, OpRecords, JobRecords, CliRecords

LEMMA RecordUpdates ==
    /\ \A o \in OpRecords : \A w \in {"sent", "parked", "running", "ok", "failed", "refused"} :
          /\ [o EXCEPT !.st = w] \in OpRecords
          /\ [o EXCEPT !.st = w].uid = o.uid /\ [o EXCEPT !.st = w].kind = o.kind
          /\ [o EXCEPT !.st = w].st = w
    /\ \A o \in JobRecords : \A w \in {"due", "op"} : [o EXCEPT !.st = w] \in JobRecords
    /\ \A o \in JobRecords : \A n \in Nat : [o EXCEPT !.st = "due", !.tries = n] \in JobRecords
  BY DEF OpRecords, JobRecords

\* A step of the broker that only sets the stage of an operation, to one in
\* which nothing is cleaned.
LEMMA OpMoves ==
    ASSUME RunsInv, NEW r \in Runs, op[r] # None, NEW w \in {"parked", "refused", "ok", "failed"},
           op' = [op EXCEPT ![r].st = w],
           UNCHANGED <<leases, fresh, released, cleanFor, phase, ws, acl, job, cli, orphans>>,
           dirt' \in [Uids -> SUBSET Runs], \A u \in Uids : dirt'[u] \subseteq dirt[u]
    PROVE  RunsInv'
<1> USE RunsAssumption DEF RunsInv
<1>1. op[r] \in OpRecords BY RecordFields
<1>2. /\ op'[r] \in OpRecords /\ op'[r].uid = op[r].uid /\ op'[r].kind = op[r].kind /\ op'[r].st = w
      /\ \A q \in Runs \ {r} : op'[q] = op[q]
  <2>1. op'[r] = [op[r] EXCEPT !.st = w] BY DEF RunTypes
  <2>2. \A q \in Runs \ {r} : op'[q] = op[q] BY DEF RunTypes
  <2>3. /\ [op[r] EXCEPT !.st = w] \in OpRecords
        /\ [op[r] EXCEPT !.st = w].uid = op[r].uid /\ [op[r] EXCEPT !.st = w].kind = op[r].kind
        /\ [op[r] EXCEPT !.st = w].st = w
    <3> DEFINE o == op[r]
    <3>1. o \in OpRecords BY <1>1
    <3> HIDE DEF o
    <3>2. /\ [o EXCEPT !.st = w] \in OpRecords
          /\ [o EXCEPT !.st = w].uid = o.uid /\ [o EXCEPT !.st = w].kind = o.kind
          /\ [o EXCEPT !.st = w].st = w
      BY <3>1 DEF OpRecords
    <3> QED BY <3>2 DEF o
  <2> QED BY <2>1, <2>2, <2>3
<1>3. op' \in [Runs -> OpRecords \cup {None}] BY <1>2 DEF RunTypes
<1>4. RunTypes' BY <1>3 DEF RunTypes
<1>5. PoolInv' /\ PhaseInv' /\ ProcessInv' BY DEF PoolInv, PhaseInv, ProcessInv
<1>6. CleanInv' BY DEF CleanInv
<1>7. OpInv' BY <1>2 DEF OpInv
<1>8. \A q \in Runs : cli[q] # None => cli[q].uid \in Uids BY RecordFields
<1>9. R!RunsAreApart' BY <1>8 DEF R!RunsAreApart, R!Live
<1>10. R!NoWipeUnderCli' BY <1>2 DEF R!NoWipeUnderCli, R!Live
<1> QED BY <1>4, <1>5, <1>6, <1>7, <1>9, <1>10

\* Each action keeps RunsInv: the simple ones conjunct by conjunct, those that
\* set a record or move a uid by what they set.
LEMMA StartKeeps == ASSUME RunsInv, NEW r \in Runs, R!Start(r) PROVE RunsInv'
<1> USE RunsAssumption DEF RunsInv, R!Uids, Uids, R!pool, R!broker, R!Start, R!Go
<1>1. RunTypes' BY DEF RunTypes
<1>2. PoolInv' BY DEF PoolInv
<1>3. PhaseInv' BY DEF RunTypes, PhaseInv
<1>4. CleanInv' BY DEF CleanInv
<1>5. ProcessInv' BY DEF ProcessInv
<1>6. OpInv' BY DEF OpInv
<1>7. R!RunsAreApart' BY DEF R!RunsAreApart, R!Live
<1>8. R!NoWipeUnderCli' BY DEF R!NoWipeUnderCli, R!Live
<1> QED BY <1>1, <1>2, <1>3, <1>4, <1>5, <1>6, <1>7, <1>8

\* A run whose uid was found clean is ready.
LEMMA ReadyKeeps ==
    ASSUME RunsInv, NEW r \in Runs, phase[r] \in {"leased", "cleaning"}, R!Ready(r),
           cleanFor[leases[r]] = r \/ dirt[leases[r]] = {},
           \/ UNCHANGED op /\ phase[r] = "leased"
           \/ op' = [op EXCEPT ![r] = None],
           UNCHANGED <<leases, fresh, released, ws, job, cli, orphans, dirt>>
    PROVE  RunsInv'
<1> USE RunsAssumption DEF RunsInv
<1>1. leases[r] \in Uids /\ r \in ws /\ cli[r] = None /\ dirt[leases[r]] \subseteq {r}
  BY DEF RunTypes, PhaseInv, CleanInv
<1>2. /\ cleanFor' = [cleanFor EXCEPT ![leases[r]] = r] /\ acl' = [acl EXCEPT ![r] = leases[r]]
      /\ phase' = [phase EXCEPT ![r] = "ready"]
  BY DEF R!Ready, R!Go
<1>3. /\ cleanFor'[leases[r]] = r /\ acl'[r] = leases[r] /\ phase'[r] = "ready"
      /\ \A u \in Uids \ {leases[r]} : cleanFor'[u] = cleanFor[u]
      /\ \A q \in Runs \ {r} : acl'[q] = acl[q] /\ phase'[q] = phase[q] /\ op'[q] = op[q]
  BY <1>1, <1>2 DEF RunTypes
<1>4. acl[r] = None \/ acl[r] = leases[r] BY <1>1 DEF CleanInv, Uids
<1>5. op'[r] = None \/ (op'[r] = op[r] /\ phase[r] = "leased") BY DEF RunTypes
<1>6. RunTypes' BY <1>1, <1>2 DEF RunTypes
<1>7. PoolInv' /\ PhaseInv' BY <1>1, <1>3 DEF PoolInv, PhaseInv
<1>8. CleanInv'
  <2> SUFFICES ASSUME NEW q \in Runs
               PROVE  /\ \A u \in Uids : leases[q] = u /\ cleanFor'[u] = q => dirt[u] \subseteq {q}
                      /\ phase'[q] \in {"new", "placed"} /\ leases[q] = None =>
                            acl'[q] = None /\ \A u \in Uids : cleanFor'[u] # q
                      /\ phase'[q] = "ready" => cleanFor'[leases[q]] = q /\ acl'[q] = leases[q]
                      /\ acl'[q] # None /\ leases[q] # None => acl'[q] = leases[q]
    BY DEF CleanInv
  <2>1. CASE q = r BY <1>1, <1>3, <2>1
  <2>2. CASE q # r
    <3>1. phase[q] = "ready" => leases[q] \in Uids \ {leases[r]}
      BY <1>1, <2>2 DEF RunTypes, PhaseInv, PoolInv, Uids
    <3> QED BY <1>1, <1>3, <2>2, <3>1 DEF CleanInv
  <2> QED BY <2>1, <2>2
<1>9. ProcessInv' BY <1>1, <1>3 DEF ProcessInv, Uids
<1>10. OpInv' BY <1>3, <1>5 DEF OpInv
<1>11. R!RunsAreApart'
  <2>1. \A q \in orphans : acl'[q] = acl[q] BY <1>3, <1>4 DEF ProcessInv, RunTypes
  <2> QED BY <2>1 DEF R!RunsAreApart, R!Live, RunTypes
<1>12. R!NoWipeUnderCli' BY <1>3, <1>5 DEF R!NoWipeUnderCli, R!Live
<1> QED BY <1>6, <1>7, <1>8, <1>9, <1>10, <1>11, <1>12

LEMMA PrepareKeeps == ASSUME RunsInv, NEW r \in Runs, R!Prepare(r) PROVE RunsInv'
<1> USE RunsAssumption DEF RunsInv
<1>1. /\ phase[r] = "leased" /\ leases[r] \in Uids
      /\ UNCHANGED <<leases, fresh, released, ws, job, cli, orphans, dirt>>
  BY DEF R!Prepare, R!pool, RunTypes, PhaseInv
<1>2. CASE R!Ready(r) /\ UNCHANGED op /\ (cleanFor[leases[r]] = r \/ dirt[leases[r]] = {})
  BY <1>1, <1>2, ReadyKeeps
<1>3. CASE /\ op' = [op EXCEPT ![r] = [kind |-> "clean", uid |-> leases[r], st |-> "sent"]]
           /\ phase' = [phase EXCEPT ![r] = "cleaning"] /\ UNCHANGED <<cleanFor, acl>>
  <2>1. [kind |-> "clean", uid |-> leases[r], st |-> "sent"] \in OpRecords
    BY <1>1 DEF OpRecords
  <2>2. /\ op'[r].kind = "clean" /\ op'[r].uid = leases[r] /\ op'[r].st = "sent" /\ phase'[r] = "cleaning"
        /\ \A q \in Runs \ {r} : op'[q] = op[q] /\ phase'[q] = phase[q]
    BY <1>3 DEF RunTypes
  <2>3. RunTypes'
    <3>1. op' \in [Runs -> OpRecords \cup {None}] BY <1>3, <2>1 DEF RunTypes
    <3> QED BY <1>1, <1>3, <3>1 DEF RunTypes
  <2>4. PoolInv' /\ ProcessInv' BY <1>1, <1>3 DEF PoolInv, ProcessInv
  <2>5. PhaseInv' /\ CleanInv' BY <1>1, <1>3, <2>2 DEF PhaseInv, CleanInv
  <2>6. OpInv' BY <1>1, <2>2 DEF OpInv
  <2>7. R!RunsAreApart' BY <1>1, <1>3 DEF R!RunsAreApart, R!Live
  <2>8. R!NoWipeUnderCli' BY <1>1, <2>2 DEF R!NoWipeUnderCli, R!Live
  <2> QED BY <2>3, <2>4, <2>5, <2>6, <2>7, <2>8
<1> QED BY <1>2, <1>3 DEF R!Prepare, R!Go

LEMMA CleanedKeeps == ASSUME RunsInv, NEW r \in Runs, R!Cleaned(r) PROVE RunsInv'
<1> USE RunsAssumption DEF RunsInv
<1>1. /\ phase[r] = "cleaning" /\ leases[r] \in Uids /\ op' = [op EXCEPT ![r] = None]
      /\ UNCHANGED <<leases, fresh, released, ws, job, cli, orphans, dirt>>
  BY DEF R!Cleaned, R!pool, RunTypes, PhaseInv
<1>2. CASE R!Ready(r) /\ dirt[leases[r]] = {} BY <1>1, <1>2, ReadyKeeps
<1>3. CASE phase' = [phase EXCEPT ![r] = "over"] /\ UNCHANGED <<cleanFor, acl>>
  <2>1. RunTypes' BY <1>1, <1>3 DEF RunTypes
  <2>2. /\ op'[r] = None /\ phase'[r] = "over"
        /\ \A q \in Runs \ {r} : op'[q] = op[q] /\ phase'[q] = phase[q]
    BY <1>1, <1>3 DEF RunTypes
  <2>3. PoolInv' /\ ProcessInv' BY <1>1, <1>3 DEF PoolInv, ProcessInv
  <2>4. PhaseInv' /\ CleanInv' BY <1>1, <1>3, <2>2 DEF PhaseInv, CleanInv
  <2>5. OpInv' BY <1>1, <2>2 DEF OpInv
  <2>6. R!RunsAreApart' BY <1>1, <1>3 DEF R!RunsAreApart, R!Live
  <2>7. R!NoWipeUnderCli' BY <1>1, <2>2 DEF R!NoWipeUnderCli, R!Live
  <2> QED BY <2>1, <2>3, <2>4, <2>5, <2>6, <2>7
<1> QED BY <1>1, <1>2, <1>3 DEF R!Cleaned, R!Go

LEMMA SpawnKeeps == ASSUME RunsInv, NEW r \in Runs, R!Spawn(r) PROVE RunsInv'
<1> USE RunsAssumption DEF RunsInv, R!Uids, Uids, R!pool, R!broker
<1>0. leases[r] \in Uids /\ acl[r] = leases[r] /\ dirt[leases[r]] \subseteq {r}
  BY DEF R!Spawn, RunTypes, PhaseInv, CleanInv
<1>1. CASE R!CheckUidFree(leases[r], r)
  <2>0. /\ cli' = [cli EXCEPT ![r] = [uid |-> leases[r], st |-> "running"]]
        /\ dirt' = [dirt EXCEPT ![leases[r]] = @ \cup {r}]
        /\ phase' = [phase EXCEPT ![r] = "up"] /\ phase[r] = "ready"
        /\ UNCHANGED <<leases, fresh, released, cleanFor, ws, acl, job, op, orphans>>
    BY <1>1 DEF R!Spawn, R!Go
  <2>1. /\ cli'[r].uid = leases[r] /\ \A q \in Runs \ {r} : cli'[q] = cli[q]
        /\ \A u \in Uids \ {leases[r]} : dirt'[u] = dirt[u]
        /\ dirt'[leases[r]] \subseteq {r}
    BY <1>0, <2>0 DEF RunTypes
  <2>2. /\ \A q \in Runs \ {r} : cli[q] # None => cli[q].uid # leases[r]
        /\ \A q \in orphans : acl[q] # leases[r]
    BY <1>1 DEF R!CheckUidFree, R!Live, R!OrphanOf
  <2>3. RunTypes'
    <3>1. [uid |-> leases[r], st |-> "running"] \in CliRecords
      BY <1>0 DEF CliRecords
    <3> QED BY <1>0, <2>0, <3>1 DEF RunTypes
  <2>a. phase'[r] = "up" /\ \A q \in Runs \ {r} : phase'[q] = phase[q] BY <2>0 DEF RunTypes
  <2>4. PoolInv' BY <2>0 DEF PoolInv
  <2>b. PhaseInv' BY <1>0, <2>0, <2>1, <2>a DEF PhaseInv
  <2>9. OpInv' BY <2>0, <2>a DEF OpInv
  <2>5. CleanInv' BY <1>0, <2>0, <2>1 DEF RunTypes, PoolInv, CleanInv
  <2>6. ProcessInv' BY <1>0, <2>0, <2>1 DEF RunTypes, ProcessInv
  <2>7. R!RunsAreApart'
    <3> SUFFICES ASSUME NEW q \in Runs, cli'[q] # None
                 PROVE  /\ {t \in Runs : cli'[t] # None /\ cli'[t].uid = cli'[q].uid} = {q}
                        /\ dirt'[cli'[q].uid] \subseteq {q}
                        /\ \A t \in orphans' \ {q} : acl'[t] # cli'[q].uid
      BY DEF R!RunsAreApart, R!Live
    <3>1. CASE q = r BY <2>0, <2>1, <2>2, <3>1
    <3>2. CASE q # r
      <4>1. cli'[q] = cli[q] /\ cli[q].uid \in Uids \ {leases[r]} BY <2>1, <2>2, <3>2, RecordFields
      <4> QED BY <2>0, <2>1, <4>1 DEF R!RunsAreApart, R!Live
    <3> QED BY <3>1, <3>2
  <2>8. R!NoWipeUnderCli'
    <3> SUFFICES ASSUME NEW q \in Runs, op[q] # None, op[q].st = "running", op[q].kind # "clear"
                 PROVE  {t \in Runs : cli'[t] # None /\ cli'[t].uid = op[q].uid} = {}
      BY <2>0 DEF R!NoWipeUnderCli, R!Live
    <3>1. \A t \in Runs : ~(cli[t] # None /\ cli[t].uid = op[q].uid) BY DEF R!NoWipeUnderCli, R!Live
    <3>2. op[q].uid # leases[r]
      <4>1. CASE op[q].kind = "wipe" BY <1>1, <4>1 DEF R!CheckUidFree, R!Wiping
      <4>2. CASE op[q].kind = "clean" BY <1>0, <2>0, <4>2 DEF OpInv, PoolInv
      <4> QED BY <4>1, <4>2, RecordFields
    <3> QED BY <2>1, <3>1, <3>2
  <2> QED BY <2>3, <2>4, <2>b, <2>9, <2>5, <2>6, <2>7, <2>8
<1>2. CASE ~R!CheckUidFree(leases[r], r)
  <2>0. /\ phase' = [phase EXCEPT ![r] = "over"] /\ phase[r] = "ready"
        /\ UNCHANGED <<leases, fresh, released, cleanFor, ws, acl, job, op, orphans, cli, dirt>>
    BY <1>2 DEF R!Spawn, R!Go
  <2>a. phase'[r] = "over" /\ \A q \in Runs \ {r} : phase'[q] = phase[q] BY <2>0 DEF RunTypes
  <2>3. RunTypes' BY <2>0 DEF RunTypes
  <2>4. PoolInv' /\ ProcessInv' BY <2>0 DEF PoolInv, ProcessInv
  <2>5. PhaseInv' BY <2>0, <2>a DEF PhaseInv
  <2>6. CleanInv' BY <2>0, <2>a DEF CleanInv
  <2>7. OpInv' BY <2>0, <2>a DEF OpInv
  <2>2. R!RunsAreApart' /\ R!NoWipeUnderCli' BY <2>0 DEF R!RunsAreApart, R!NoWipeUnderCli, R!Live
  <2> QED BY <2>2, <2>3, <2>4, <2>5, <2>6, <2>7
<1> QED BY <1>1, <1>2

LEMMA RespawnKeeps == ASSUME RunsInv, NEW r \in Runs, R!Respawn(r) PROVE RunsInv'
<1> USE RunsAssumption DEF RunsInv, R!Uids, Uids, R!pool, R!broker, R!Respawn, R!Go
<1>1. RunTypes' BY DEF RunTypes
<1>2. PoolInv' BY DEF PoolInv
<1>3. PhaseInv' BY DEF PhaseInv
<1>4. CleanInv' BY DEF RunTypes, PhaseInv, CleanInv
<1>5. ProcessInv' BY DEF ProcessInv
<1>6. OpInv' BY DEF OpInv
<1>7. R!RunsAreApart' BY DEF R!RunsAreApart, R!Live
<1>8. R!NoWipeUnderCli' BY DEF R!NoWipeUnderCli, R!Live
<1> QED BY <1>1, <1>2, <1>3, <1>4, <1>5, <1>6, <1>7, <1>8

LEMMA LinkEndsKeeps == ASSUME RunsInv, NEW r \in Runs, R!LinkEnds(r) PROVE RunsInv'
<1> USE RunsAssumption DEF RunsInv, R!Uids, Uids, R!pool, R!broker, R!LinkEnds
<1>9. [cli[r] EXCEPT !.st = "ending"] \in CliRecords BY DEF R!LinkEnds, RunTypes, CliRecords
<1>1. RunTypes' BY <1>9 DEF RunTypes
<1>2. PoolInv' BY DEF PoolInv
<1>3. PhaseInv' BY DEF PhaseInv
<1>4. CleanInv' BY DEF CleanInv
<1>5. ProcessInv' BY DEF ProcessInv
<1>6. OpInv' BY DEF OpInv
<1>7. R!RunsAreApart' BY DEF R!RunsAreApart, R!Live
<1>8. R!NoWipeUnderCli' BY DEF R!NoWipeUnderCli, R!Live
<1> QED BY <1>1, <1>2, <1>3, <1>4, <1>5, <1>6, <1>7, <1>8

LEMMA SupervisorEndsKeeps == ASSUME RunsInv, NEW r \in Runs, R!SupervisorEnds(r) PROVE RunsInv'
<1> USE RunsAssumption DEF RunsInv, R!Uids, Uids, R!pool, R!broker, R!SupervisorEnds
<1>1. RunTypes' BY DEF RunTypes
<1>2. PoolInv' BY DEF PoolInv
<1>3. PhaseInv' BY DEF PhaseInv
<1>4. CleanInv' BY DEF CleanInv
<1>9. cli[r] # None /\ cli[r].uid # None BY RecordFields DEF R!SupervisorEnds
<1>5. ProcessInv' BY <1>9 DEF ProcessInv
<1>6. OpInv' BY DEF OpInv
<1>7. R!RunsAreApart' BY <1>9 DEF RunTypes, ProcessInv, R!RunsAreApart, R!Live
<1>8. R!NoWipeUnderCli' BY DEF R!NoWipeUnderCli, R!Live
<1> QED BY <1>1, <1>2, <1>3, <1>4, <1>5, <1>6, <1>7, <1>8

LEMMA OrphanEndsKeeps == ASSUME RunsInv, NEW r \in Runs, R!OrphanEnds(r) PROVE RunsInv'
<1> USE RunsAssumption DEF RunsInv, R!Uids, Uids, R!pool, R!broker, R!OrphanEnds
<1>1. RunTypes' BY DEF RunTypes
<1>2. PoolInv' BY DEF PoolInv
<1>3. PhaseInv' BY DEF PhaseInv
<1>4. CleanInv' BY DEF CleanInv
<1>5. ProcessInv' BY DEF ProcessInv
<1>6. OpInv' BY DEF OpInv
<1>7. R!RunsAreApart' BY DEF R!RunsAreApart, R!Live
<1>8. R!NoWipeUnderCli' BY DEF R!NoWipeUnderCli, R!Live
<1> QED BY <1>1, <1>2, <1>3, <1>4, <1>5, <1>6, <1>7, <1>8

LEMMA OpStartsKeeps == ASSUME RunsInv, NEW r \in Runs, R!OpStarts(r) PROVE RunsInv'
<1> USE RunsAssumption DEF RunsInv, R!Uids, Uids, R!pool, R!broker, R!OpStarts, R!Busy
<1>9. [op[r] EXCEPT !.st = "running"] \in OpRecords BY DEF R!OpStarts, RunTypes, OpRecords
<1>1. RunTypes' BY <1>9 DEF RunTypes
<1>2. PoolInv' BY DEF PoolInv
<1>3. PhaseInv' BY DEF PhaseInv
<1>4. CleanInv' BY DEF CleanInv
<1>5. ProcessInv' BY DEF ProcessInv
<1>6. OpInv' BY DEF OpInv
<1>7. R!RunsAreApart' BY DEF R!RunsAreApart, R!Live
<1>8. R!NoWipeUnderCli' BY DEF R!NoWipeUnderCli, R!Live
<1> QED BY <1>1, <1>2, <1>3, <1>4, <1>5, <1>6, <1>7, <1>8

LEMMA OpWaitsKeeps == ASSUME RunsInv, NEW r \in Runs, R!OpWaits(r) PROVE RunsInv'
<1>1. PICK w \in {"parked", "refused"} : op' = [op EXCEPT ![r].st = w]
  BY DEF R!OpWaits
<1>2. /\ op[r] # None /\ dirt' = dirt
      /\ UNCHANGED <<leases, fresh, released, cleanFor, phase, ws, acl, job, cli, orphans>>
  BY DEF R!OpWaits, R!pool
<1>3. dirt \in [Uids -> SUBSET Runs] BY DEF RunsInv, RunTypes
<1> QED BY <1>1, <1>2, <1>3, OpMoves

LEMMA OpEndsKeeps == ASSUME RunsInv, NEW r \in Runs, R!OpEnds(r) PROVE RunsInv'
<1>1. PICK w \in {"ok", "failed"} : op' = [op EXCEPT ![r].st = w]
  BY DEF R!OpEnds
<1>2. /\ op[r] # None /\ (dirt' = dirt \/ dirt' = [dirt EXCEPT ![op[r].uid] = {}])
      /\ UNCHANGED <<leases, fresh, released, cleanFor, phase, ws, acl, job, cli, orphans>>
  BY DEF R!OpEnds, R!pool
<1>3. dirt' \in [Uids -> SUBSET Runs] /\ \A u \in Uids : dirt'[u] \subseteq dirt[u]
  BY <1>2 DEF RunsInv, RunTypes
<1> QED BY <1>1, <1>2, <1>3, OpMoves

LEMMA EndKeeps == ASSUME RunsInv, NEW r \in Runs, R!End(r) PROVE RunsInv'
<1> USE RunsAssumption DEF RunsInv, R!Uids, Uids, R!pool, R!broker, R!End, R!Go, R!WipeUid, R!NewJob, R!Holder
<1>0. R!WipeUid(r) # None => R!NewJob(r) \in JobRecords
  BY DEF R!WipeUid, R!NewJob, RunTypes, JobRecords
<1>1. RunTypes' BY <1>0 DEF RunTypes
<1>2. PoolInv' BY DEF PoolInv
<1>3. PhaseInv' BY DEF RunTypes, PhaseInv
<1>4. CleanInv' BY DEF RunTypes, PhaseInv, CleanInv
<1>5. ProcessInv' BY DEF ProcessInv
<1>6. OpInv' BY DEF RunTypes, PhaseInv, OpInv
<1>7. R!RunsAreApart' BY DEF R!RunsAreApart, R!Live
<1>8. R!NoWipeUnderCli' BY DEF R!NoWipeUnderCli, R!Live
<1> QED BY <1>1, <1>2, <1>3, <1>4, <1>5, <1>6, <1>7, <1>8

LEMMA WipeBeginsKeeps == ASSUME RunsInv, NEW r \in Runs, R!WipeBegins(r) PROVE RunsInv'
<1> USE RunsAssumption DEF RunsInv
<1>1. PICK k \in {"wipe", "clear"} :
          op' = [op EXCEPT ![r] = [kind |-> k, uid |-> job[r].uid, st |-> "sent"]]
  BY DEF R!WipeBegins
<1>2. /\ job[r] # None /\ job' = [job EXCEPT ![r].st = "op"]
      /\ UNCHANGED <<leases, fresh, released, cleanFor, phase, ws, acl, cli, orphans, dirt>>
  BY DEF R!WipeBegins, R!pool
<1>3. job[r] \in JobRecords /\ job[r].uid \in Uids BY <1>2, RecordFields
<1>4. [kind |-> k, uid |-> job[r].uid, st |-> "sent"] \in OpRecords BY <1>3 DEF OpRecords
<1>5. [job[r] EXCEPT !.st = "op"] \in JobRecords BY <1>3, RecordUpdates
<1>6. /\ op'[r].kind = k /\ op'[r].st = "sent" /\ job'[r] \in JobRecords
      /\ \A q \in Runs \ {r} : op'[q] = op[q] /\ job'[q] = job[q]
  BY <1>1, <1>2, <1>5 DEF RunTypes
<1>7. RunTypes'
  <2>1. op' \in [Runs -> OpRecords \cup {None}] BY <1>1, <1>4 DEF RunTypes
  <2>2. job' \in [Runs -> JobRecords \cup {None}] BY <1>2, <1>5 DEF RunTypes
  <2> QED BY <1>2, <2>1, <2>2 DEF RunTypes
<1>8. phase[r] = "wiping" BY <1>2 DEF PhaseInv
<1>9. PoolInv' /\ CleanInv' /\ ProcessInv' BY <1>2 DEF PoolInv, CleanInv, ProcessInv
<1>10. PhaseInv' BY <1>2, <1>6, <1>8 DEF PhaseInv
<1>12. OpInv' BY <1>2, <1>6, <1>8 DEF OpInv
<1>13. R!RunsAreApart' BY <1>2 DEF R!RunsAreApart, R!Live
<1>14. R!NoWipeUnderCli' BY <1>2, <1>6 DEF R!NoWipeUnderCli, R!Live
<1> QED BY <1>7, <1>9, <1>10, <1>12, <1>13, <1>14

LEMMA WipeFailsKeeps == ASSUME RunsInv, NEW r \in Runs, R!WipeFails(r) PROVE RunsInv'
<1> USE RunsAssumption DEF RunsInv
<1>1. /\ op[r] # None /\ op' = [op EXCEPT ![r] = None] /\ job[r] # None
      /\ UNCHANGED <<leases, fresh, released, cleanFor, ws, acl, cli, orphans, dirt>>
  BY DEF R!WipeFails, R!Answered, R!pool
<1>2. \/ /\ job' = [job EXCEPT ![r].st = "due", ![r].tries = IF @ < Backoff THEN @ + 1 ELSE @]
         /\ phase' = phase
      \/ job' = [job EXCEPT ![r] = None] /\ phase' = [phase EXCEPT ![r] = "gone"]
  BY DEF R!WipeFails, R!Go
<1>3. phase[r] = "wiping" /\ job[r] \in JobRecords /\ job[r].tries \in Nat
  BY <1>1, RecordFields DEF PhaseInv, JobRecords
<1>4. job' \in [Runs -> JobRecords \cup {None}]
  <2>1. CASE job' = [job EXCEPT ![r] = None] BY <2>1 DEF RunTypes
  <2>2. CASE job' = [job EXCEPT ![r].st = "due", ![r].tries = IF @ < Backoff THEN @ + 1 ELSE @]
    <3>1. PICK n \in Nat : n = IF job[r].tries < Backoff THEN job[r].tries + 1 ELSE job[r].tries BY <1>3
    <3>2. job' = [job EXCEPT ![r] = [job[r] EXCEPT !.st = "due", !.tries = n]]
      BY <1>3, <2>2, <3>1 DEF RunTypes, JobRecords
    <3>3. [job[r] EXCEPT !.st = "due", !.tries = n] \in JobRecords BY <1>3, RecordUpdates
    <3> QED BY <3>2, <3>3 DEF RunTypes
  <2> QED BY <1>2, <2>1, <2>2
<1>5. /\ phase'[r] \in {"wiping", "gone"} /\ \A q \in Runs \ {r} : phase'[q] = phase[q]
      /\ phase' \in [Runs -> {"new", "placed", "leased", "cleaning", "ready", "up", "over", "stale",
                              "wiping", "gone"}]
  BY <1>2, <1>3 DEF RunTypes
<1>6. /\ op'[r] = None /\ \A q \in Runs \ {r} : op'[q] = op[q]
      /\ op' \in [Runs -> OpRecords \cup {None}]
  BY <1>1 DEF RunTypes
<1>7. /\ job'[r] # None => phase'[r] = "wiping"
      /\ \A q \in Runs \ {r} : job'[q] = job[q]
  BY <1>2, <1>3, <1>4 DEF RunTypes
<1>8. RunTypes' BY <1>1, <1>4, <1>5, <1>6 DEF RunTypes
<1>9. PoolInv' /\ ProcessInv' BY <1>1 DEF PoolInv, ProcessInv
<1>10. PhaseInv' BY <1>1, <1>5, <1>7 DEF PhaseInv
<1>11. CleanInv' BY <1>1, <1>5 DEF CleanInv
<1>12. OpInv' BY <1>1, <1>5, <1>6 DEF OpInv
<1>13. R!RunsAreApart' BY <1>1 DEF R!RunsAreApart, R!Live
<1>14. R!NoWipeUnderCli' BY <1>1, <1>6 DEF R!NoWipeUnderCli, R!Live
<1> QED BY <1>8, <1>9, <1>10, <1>11, <1>12, <1>13, <1>14

LEMMA RootVanishesKeeps == ASSUME RunsInv, NEW r \in Runs, R!RootVanishes(r) PROVE RunsInv'
<1> USE RunsAssumption DEF RunsInv, R!Uids, Uids, R!pool, R!broker, R!RootVanishes
<1>1. RunTypes' BY DEF RunTypes
<1>2. PoolInv' BY DEF PoolInv
<1>3. PhaseInv' BY DEF PhaseInv
<1>4. CleanInv' BY DEF CleanInv
<1>5. ProcessInv' BY DEF ProcessInv
<1>6. OpInv' BY DEF OpInv
<1>7. R!RunsAreApart' BY DEF R!RunsAreApart, R!Live
<1>8. R!NoWipeUnderCli' BY DEF R!NoWipeUnderCli, R!Live
<1> QED BY <1>1, <1>2, <1>3, <1>4, <1>5, <1>6, <1>7, <1>8

-----------------------------------------------------------------------------
(* The pool.                                                               *)

LEMMA RunsCardinality == \A s : R!Cardinality(s) = Cardinality(s)
BY DEF R!Cardinality, Cardinality

\* A queue made of a set of uids holds each of them once.
LEMMA QueueOfSet ==
    ASSUME NEW S \in SUBSET Uids
    PROVE  /\ R!Queued(S) \in Seq(Uids)
           /\ \A i, j \in DOMAIN R!Queued(S) : R!Queued(S)[i] = R!Queued(S)[j] => i = j
           /\ \A i \in DOMAIN R!Queued(S) : R!Queued(S)[i] \in S
           /\ \A u \in S : \E i \in DOMAIN R!Queued(S) : R!Queued(S)[i] = u
<1> DEFINE n == Cardinality(S)
<1> DEFINE f == R!Queued(S)
<1>1. IsFiniteSet(S)
  <2>1. IsFiniteSet(Uids) BY RunsAssumption, FS_Interval DEF Uids
  <2> QED BY <2>1, FS_Subset
<1>2. n \in Nat /\ ExistsBijection(1..n, S) BY <1>1, FS_CardinalityType
<1>3. PICK g : g \in [1..n -> S] /\ (\A i, j \in 1..n : g[i] = g[j] => i = j)
  <2>1. PICK g : g \in Bijection(1..n, S) BY <1>2 DEF ExistsBijection
  <2> QED BY <2>1 DEF Bijection, Injection, IsInjective
<1>4. f = CHOOSE h \in [1..n -> S] : (\A i, j \in 1..n : h[i] = h[j] => i = j)
  BY RunsCardinality DEF R!Queued
<1>5. f \in [1..n -> S] /\ (\A i, j \in 1..n : f[i] = f[j] => i = j) BY <1>3, <1>4
<1> HIDE DEF n, f
<1>6. \A i, j \in 1..n : f[i] = f[j] => i = j BY <1>5
<1>7. \A u \in S : \E i \in 1..n : f[i] = u
  <2>1. f \in Injection(1..n, S) BY <1>5, <1>6 DEF Injection, IsInjective
  <2>2. IsFiniteSet(1..n) /\ Cardinality(1..n) = n BY <1>2, FS_Interval
  <2>3. f \in Surjection(1..n, S) BY <1>1, <2>1, <2>2, FS_Injection DEF n
  <2> QED BY <2>3 DEF Surjection
<1>8. f \in Seq(Uids) /\ DOMAIN f = 1..n
  <2>1. f \in [1..n -> Uids] BY <1>5
  <2> QED BY <1>2, <2>1, IsASeq
<1> QED BY <1>5, <1>6, <1>7, <1>8 DEF f

\* What changes of the other parts when a run is given a uid, and leases of
\* runs that are gone come back.
LEMMA Leased ==
    ASSUME RunsInv, NEW r \in Runs, phase[r] = "placed", leases[r] = None, NEW v \in Uids,
           leases' \in [Runs -> Uids \cup {None}], leases'[r] = v,
           \A q \in Runs \ {r} : leases'[q] = leases[q] \/ (q \notin ws /\ leases'[q] = None),
           phase' = [phase EXCEPT ![r] = "leased"],
           fresh' \in 1..(NumUids + 1), released' \in Seq(Uids), PoolInv',
           UNCHANGED <<cleanFor, ws, acl, job, op, cli, orphans, dirt>>
    PROVE  RunsInv'
<1> USE RunsAssumption DEF RunsInv
<1>1. phase'[r] = "leased" /\ \A q \in Runs \ {r} : phase'[q] = phase[q] BY DEF RunTypes
<1>2. v # None BY DEF Uids
<1>3. RunTypes' BY DEF RunTypes
<1>4. PhaseInv' BY <1>1, <1>2 DEF PhaseInv
<1>5. CleanInv'
  <2> SUFFICES ASSUME NEW q \in Runs
               PROVE  /\ \A u \in Uids : leases'[q] = u /\ cleanFor[u] = q => dirt[u] \subseteq {q}
                      /\ phase'[q] \in {"new", "placed"} /\ leases'[q] = None =>
                            acl[q] = None /\ \A u \in Uids : cleanFor[u] # q
                      /\ phase'[q] = "ready" => cleanFor[leases'[q]] = q /\ acl[q] = leases'[q]
                      /\ acl[q] # None /\ leases'[q] # None => acl[q] = leases'[q]
    BY DEF CleanInv
  <2>1. CASE q = r BY <1>1, <1>2, <2>1 DEF CleanInv
  <2>2. CASE q # r /\ leases'[q] = leases[q] BY <1>1, <2>2 DEF CleanInv
  <2>3. CASE q # r /\ q \notin ws /\ leases'[q] = None
    <3>1. phase[q] \in {"new", "placed"} => leases[q] = None BY <2>3 DEF PhaseInv
    <3>2. phase[q] # "ready" BY <2>3 DEF PhaseInv
    <3>3. \A u \in Uids : u # None BY DEF Uids
    <3> QED BY <1>1, <2>3, <3>1, <3>2, <3>3 DEF CleanInv
  <2> QED BY <2>1, <2>2, <2>3
<1>6. ProcessInv' BY DEF ProcessInv
<1>7. OpInv' BY <1>1 DEF OpInv, PhaseInv
<1>8. R!RunsAreApart' /\ R!NoWipeUnderCli' BY DEF R!RunsAreApart, R!NoWipeUnderCli, R!Live
<1> QED BY <1>3, <1>4, <1>5, <1>6, <1>7, <1>8

LEMMA LeaseKeeps == ASSUME RunsInv, NEW r \in Runs, R!Lease(r) PROVE RunsInv'
<1> USE RunsAssumption DEF RunsInv
<1>0. /\ phase[r] = "placed" /\ r \in ws
      /\ UNCHANGED <<cleanFor, ws, acl, job, op, cli, orphans, dirt>>
  BY DEF R!Lease, R!broker, PhaseInv
<1>a. /\ leases \in [Runs -> Uids \cup {None}] /\ fresh \in 1..(NumUids + 1) /\ released \in Seq(Uids)
  BY DEF RunTypes
<1>1. CASE /\ phase' = [phase EXCEPT ![r] = IF leases[r] # None THEN "leased" ELSE "over"]
           /\ UNCHANGED <<leases, fresh, released>>
  <2>1. /\ phase'[r] = (IF leases[r] # None THEN "leased" ELSE "over")
        /\ \A q \in Runs \ {r} : phase'[q] = phase[q]
    BY <1>1 DEF RunTypes
  <2>2. RunTypes' BY <1>0, <1>1 DEF RunTypes
  <2>3. PoolInv' /\ ProcessInv' BY <1>0, <1>1 DEF PoolInv, ProcessInv
  <2>4. PhaseInv' BY <1>0, <1>1, <2>1 DEF PhaseInv
  <2>5. CleanInv' BY <1>0, <1>1, <2>1 DEF CleanInv
  <2>6. OpInv' BY <1>0, <1>1, <2>1 DEF OpInv
  <2>7. R!RunsAreApart' /\ R!NoWipeUnderCli' BY <1>0, <1>1 DEF R!RunsAreApart, R!NoWipeUnderCli, R!Live
  <2> QED BY <2>2, <2>3, <2>4, <2>5, <2>6, <2>7
<1>2. CASE /\ leases[r] = None /\ fresh <= NumUids /\ leases' = [leases EXCEPT ![r] = fresh]
           /\ fresh' = fresh + 1 /\ phase' = [phase EXCEPT ![r] = "leased"] /\ UNCHANGED released
  <2>1. fresh \in Uids /\ fresh' \in 1..(NumUids + 1) BY <1>a, <1>2 DEF Uids
  <2>2. /\ leases' \in [Runs -> Uids \cup {None}] /\ leases'[r] = fresh
        /\ \A q \in Runs \ {r} : leases'[q] = leases[q]
    BY <1>a, <1>2, <2>1
  <2>3. PoolInv'
    <3>1. \A q \in Runs : leases[q] # None => leases[q] \in Uids BY <1>a
    <3>2. \A i \in DOMAIN released : released[i] \in Uids BY <1>a, ElementOfSeq, LenProperties
    <3>3. \A q \in Runs : leases[q] # None => leases[q] < fresh BY DEF PoolInv
    <3>4. \A i \in DOMAIN released : released[i] < fresh BY DEF PoolInv
    <3>5. \A p, q \in Runs : leases'[p] # None /\ leases'[p] = leases'[q] => p = q
      BY <1>a, <2>2, <3>1, <3>3 DEF PoolInv, Uids
    <3>6. \A q \in Runs : leases'[q] # None =>
             leases'[q] < fresh' /\ \A i \in DOMAIN released : released[i] # leases'[q]
      BY <1>a, <1>2, <2>1, <2>2, <3>1, <3>2, <3>3, <3>4 DEF PoolInv, Uids
    <3>7. \A i \in DOMAIN released : released[i] < fresh' BY <1>a, <1>2, <3>2, <3>4 DEF Uids
    <3>8. \A u \in Uids : u < fresh' => \/ \E q \in Runs : leases'[q] = u
                                       \/ \E i \in DOMAIN released : released[i] = u
      <4> SUFFICES ASSUME NEW u \in Uids, u < fresh'
                   PROVE  (\E q \in Runs : leases'[q] = u) \/ \E i \in DOMAIN released : released[i] = u
        OBVIOUS
      <4>1. CASE u = fresh BY <2>2, <4>1
      <4>2. CASE u < fresh
        <5>1. u # None BY DEF Uids
        <5> QED BY <1>2, <2>2, <4>2, <5>1 DEF PoolInv
      <4> QED BY <1>a, <1>2, <4>1, <4>2 DEF Uids
    <3> QED BY <1>2, <3>5, <3>6, <3>7, <3>8 DEF PoolInv
  <2> QED BY <1>0, <1>a, <1>2, <2>1, <2>2, <2>3, Leased
<1>3. CASE /\ leases[r] = None /\ released # <<>> /\ leases' = [leases EXCEPT ![r] = Head(released)]
           /\ released' = Tail(released) /\ phase' = [phase EXCEPT ![r] = "leased"] /\ UNCHANGED fresh
  <2>1. /\ Head(released) \in Uids /\ Head(released) = released[1] /\ released' \in Seq(Uids)
        /\ DOMAIN released = 1..Len(released) /\ Len(released) \in Nat \ {0}
        /\ DOMAIN released' = 1..(Len(released) - 1)
        /\ \A i \in DOMAIN released' : released'[i] = released[i + 1]
    BY <1>a, <1>3, HeadTailProperties, LenProperties, ElementOfSeq
  <2>2. /\ leases' \in [Runs -> Uids \cup {None}] /\ leases'[r] = released[1]
        /\ \A q \in Runs \ {r} : leases'[q] = leases[q]
    BY <1>a, <1>3, <2>1
  <2>3. PoolInv'
    <3>1. 1 \in DOMAIN released /\ \A i \in DOMAIN released' : i + 1 \in DOMAIN released /\ i + 1 # 1 BY <2>1
    <3>2. released[1] # None BY <2>1 DEF Uids
    <3>3. \A p, q \in Runs : leases'[p] # None /\ leases'[p] = leases'[q] => p = q
      BY <2>2, <3>1, <3>2 DEF PoolInv
    <3>4. \A i, j \in DOMAIN released' : released'[i] = released'[j] => i = j
      BY <2>1, <3>1 DEF PoolInv
    <3>5. \A q \in Runs : leases'[q] # None =>
             leases'[q] < fresh /\ \A i \in DOMAIN released' : released'[i] # leases'[q]
      BY <2>1, <2>2, <3>1 DEF PoolInv
    <3>6. \A i \in DOMAIN released' : released'[i] < fresh BY <2>1, <3>1 DEF PoolInv
    <3>7. \A u \in Uids : u < fresh => \/ \E q \in Runs : leases'[q] = u
                                      \/ \E i \in DOMAIN released' : released'[i] = u
      <4> SUFFICES ASSUME NEW u \in Uids, u < fresh, \A i \in DOMAIN released' : released'[i] # u
                   PROVE  \E q \in Runs : leases'[q] = u
        OBVIOUS
      <4>1. u # None BY DEF Uids
      <4>2. CASE \E q \in Runs : leases[q] = u BY <1>3, <2>2, <4>1, <4>2
      <4>3. CASE \E i \in DOMAIN released : released[i] = u
        <5>1. PICK i \in DOMAIN released : released[i] = u BY <4>3
        <5>2. CASE i = 1 BY <2>2, <5>1, <5>2
        <5>3. CASE i # 1
          <6>1. i - 1 \in DOMAIN released' /\ (i - 1) + 1 = i BY <2>1, <5>3
          <6> QED BY <2>1, <5>1, <6>1
        <5> QED BY <5>2, <5>3
      <4> QED BY <4>2, <4>3 DEF PoolInv
    <3> QED BY <1>3, <3>3, <3>4, <3>5, <3>6, <3>7 DEF PoolInv
  <2> QED BY <1>0, <1>a, <1>3, <2>1, <2>2, <2>3, Leased
<1>4. CASE /\ leases[r] = None /\ fresh > NumUids /\ released = <<>>
           /\ phase' = [phase EXCEPT ![r] = "leased"] /\ UNCHANGED fresh
           /\ \E s \in R!Stale :
                 /\ leases' = [t \in Runs |-> IF t = r THEN leases[s]
                                              ELSE IF t \in R!Stale THEN None ELSE leases[t]]
                 /\ released' = R!Queued({leases[t] : t \in R!Stale \ {s}})
  <2>1. PICK s \in R!Stale :
                 /\ leases' = [t \in Runs |-> IF t = r THEN leases[s]
                                              ELSE IF t \in R!Stale THEN None ELSE leases[t]]
                 /\ released' = R!Queued({leases[t] : t \in R!Stale \ {s}})
    BY <1>4
  <2> DEFINE S == {leases[t] : t \in R!Stale \ {s}}
  <2>2. s \in Runs \ {r} /\ leases[s] \in Uids /\ r \notin R!Stale
        /\ \A t \in R!Stale : t \in Runs /\ t \notin ws /\ leases[t] \in Uids
    BY <1>0, <1>a DEF R!Stale
  <2>3. S \in SUBSET Uids BY <2>2
  <2>4. /\ released' \in Seq(Uids)
        /\ \A i, j \in DOMAIN released' : released'[i] = released'[j] => i = j
        /\ \A i \in DOMAIN released' : released'[i] \in S
        /\ \A u \in S : \E i \in DOMAIN released' : released'[i] = u
    BY <2>1, <2>3, QueueOfSet
  <2>5. leases' \in [Runs -> Uids \cup {None}] /\ leases'[r] = leases[s]
        /\ \A q \in Runs \ {r} : leases'[q] = IF q \in R!Stale THEN None ELSE leases[q]
    BY <1>a, <2>1, <2>2
  <2>6. \A q \in Runs \ {r} : leases'[q] = leases[q] \/ (q \notin ws /\ leases'[q] = None)
    BY <2>2, <2>5
  <2>7. PoolInv'
    <3>0. \A u \in Uids : u # None /\ u < fresh BY <1>a, <1>4 DEF Uids
    <3>1. \A p, q \in Runs : leases'[p] # None /\ leases'[p] = leases'[q] => p = q
      <4>1. \A p \in Runs \ {r} : leases'[p] # None => leases'[p] = leases[p] /\ p # s BY <2>5
      <4>2. leases[s] # None BY <2>2, <3>0
      <4> QED BY <2>2, <2>5, <4>1, <4>2 DEF PoolInv
    <3>2. \A q \in Runs, i \in DOMAIN released' : leases'[q] # None => released'[i] # leases'[q]
      <4> SUFFICES ASSUME NEW q \in Runs, NEW i \in DOMAIN released',
                          leases'[q] # None, released'[i] = leases'[q]
                   PROVE  FALSE
        OBVIOUS
      <4>1. PICK t \in R!Stale \ {s} : released'[i] = leases[t] BY <2>4
      <4>2. leases[t] # None /\ t \in Runs BY <2>2, <3>0
      <4>3. CASE q = r
        <5>1. leases[t] = leases[s] BY <2>5, <4>1, <4>3
        <5> QED BY <2>2, <4>1, <4>2, <5>1 DEF PoolInv
      <4>4. CASE q # r
        <5>1. leases'[q] = leases[q] /\ q \notin R!Stale BY <2>5, <4>4
        <5> QED BY <4>1, <4>2, <5>1 DEF PoolInv
      <4> QED BY <4>3, <4>4
    <3>3. \A u \in Uids : \/ \E q \in Runs : leases'[q] = u
                          \/ \E i \in DOMAIN released' : released'[i] = u
      <4> SUFFICES ASSUME NEW u \in Uids
                   PROVE  \/ \E q \in Runs : leases'[q] = u
                          \/ \E i \in DOMAIN released' : released'[i] = u
        OBVIOUS
      <4>1. PICK q \in Runs : leases[q] = u BY <1>4, <3>0 DEF PoolInv
      <4>2. CASE q = s BY <2>5, <4>1, <4>2
      <4>3. CASE q \in R!Stale \ {s} BY <2>4, <4>1, <4>3
      <4>4. CASE q \notin R!Stale
        <5>1. q # r BY <1>4, <3>0, <4>1
        <5> QED BY <2>5, <4>1, <4>4, <5>1
      <4> QED BY <4>2, <4>3, <4>4
    <3>4. \A q \in Runs : leases'[q] # None => leases'[q] < fresh BY <2>5, <3>0
    <3>5. \A i \in DOMAIN released' : released'[i] < fresh BY <2>3, <2>4, <3>0
    <3> QED BY <1>4, <2>4, <3>1, <3>2, <3>3, <3>4, <3>5 DEF PoolInv
  <2> QED BY <1>0, <1>a, <1>4, <2>2, <2>4, <2>5, <2>6, <2>7, Leased
<1> QED BY <1>0, <1>1, <1>2, <1>3, <1>4 DEF R!Lease, R!pool, R!Go

LEMMA WipeDoneKeeps == ASSUME RunsInv, NEW r \in Runs, R!WipeDone(r) PROVE RunsInv'
<1> USE RunsAssumption DEF RunsInv
<1>1. /\ job[r] # None /\ ws' = ws \ {r} /\ leases' = [leases EXCEPT ![r] = None]
      /\ released' = IF leases[r] = None THEN released ELSE Append(released, leases[r])
      /\ job' = [job EXCEPT ![r] = None] /\ op' = [op EXCEPT ![r] = None]
      /\ phase' = [phase EXCEPT ![r] = "gone"]
      /\ UNCHANGED <<fresh, cleanFor, acl, cli, orphans, dirt>>
  BY DEF R!WipeDone, R!ReleaseLease, R!Go
<1>2. phase[r] = "wiping" BY <1>1 DEF PhaseInv
<1>3. /\ leases'[r] = None /\ job'[r] = None /\ op'[r] = None /\ phase'[r] = "gone"
      /\ \A q \in Runs \ {r} : /\ leases'[q] = leases[q] /\ job'[q] = job[q]
                               /\ op'[q] = op[q] /\ phase'[q] = phase[q]
  BY <1>1 DEF RunTypes
<1>a. leases \in [Runs -> Uids \cup {None}] /\ released \in Seq(Uids) BY DEF RunTypes
<1>6. RunTypes' /\ PoolInv'
  <2>4. CASE leases[r] = None
    <3>1. leases' = leases /\ released' = released BY <1>a, <1>1, <2>4
    <3>2. RunTypes' BY <1>1, <3>1 DEF RunTypes
    <3>3. PoolInv' BY <1>1, <3>1 DEF PoolInv
    <3> QED BY <3>2, <3>3
  <2>5. CASE leases[r] # None
    <3> DEFINE n == Len(released)
    <3>1. leases[r] \in Uids /\ n \in Nat BY <1>a, <2>5, LenProperties
    <3>2. /\ released' \in Seq(Uids) /\ DOMAIN released = 1..n /\ DOMAIN released' = 1..(n + 1)
          /\ \A i \in 1..n : released'[i] = released[i]
          /\ released'[n + 1] = leases[r]
      BY <1>a, <1>1, <2>5, <3>1, AppendProperties, LenProperties
    <3> HIDE DEF n
    <3>3. RunTypes' BY <1>1, <3>2 DEF RunTypes
    <3>4. \A i \in 1..(n + 1) : i \in 1..n \/ i = n + 1 BY <3>1
    <3>5. \A i \in 1..n : i \in 1..(n + 1) BY <3>1
    <3>6. n + 1 \in 1..(n + 1) BY <3>1
    <3>7. \A i, j \in DOMAIN released' : released'[i] = released'[j] => i = j
      BY <2>5, <3>2, <3>4 DEF PoolInv
    <3>8. \A q \in Runs : leases'[q] # None =>
             leases'[q] < fresh /\ \A i \in DOMAIN released' : released'[i] # leases'[q]
      BY <1>3, <2>5, <3>2, <3>4 DEF PoolInv
    <3>9. \A i \in DOMAIN released' : released'[i] < fresh BY <2>5, <3>2, <3>4 DEF PoolInv
    <3>10. \A u \in Uids : u < fresh => \/ \E q \in Runs : leases'[q] = u
                                       \/ \E i \in DOMAIN released' : released'[i] = u
      BY <1>3, <3>2, <3>5, <3>6 DEF PoolInv
    <3>11. \A p, q \in Runs : leases'[p] # None /\ leases'[p] = leases'[q] => p = q
      BY <1>3 DEF PoolInv
    <3>12. PoolInv' BY <1>1, <3>7, <3>8, <3>9, <3>10, <3>11 DEF PoolInv
    <3> QED BY <3>3, <3>12
  <2> QED BY <2>4, <2>5
<1>7. PhaseInv' BY <1>1, <1>3 DEF PhaseInv
<1>8. CleanInv'
  <2> SUFFICES ASSUME NEW q \in Runs
               PROVE  /\ \A u \in Uids : leases'[q] = u /\ cleanFor[u] = q => dirt[u] \subseteq {q}
                      /\ phase'[q] \in {"new", "placed"} /\ leases'[q] = None =>
                            acl[q] = None /\ \A u \in Uids : cleanFor[u] # q
                      /\ phase'[q] = "ready" => cleanFor[leases'[q]] = q /\ acl[q] = leases'[q]
                      /\ acl[q] # None /\ leases'[q] # None => acl[q] = leases'[q]
    BY <1>1 DEF CleanInv
  <2>1. CASE q = r BY <1>3, <2>1 DEF Uids
  <2>2. CASE q # r BY <1>3, <2>2 DEF CleanInv
  <2> QED BY <2>1, <2>2
<1>9. ProcessInv' BY <1>1 DEF ProcessInv
<1>10. OpInv' BY <1>1, <1>3 DEF OpInv
<1>11. R!RunsAreApart' BY <1>1 DEF R!RunsAreApart, R!Live
<1>12. R!NoWipeUnderCli' BY <1>1, <1>3 DEF R!NoWipeUnderCli, R!Live
<1> QED BY <1>6, <1>7, <1>8, <1>9, <1>10, <1>11, <1>12

\* After a restart nothing of the pool is leased, and no run that was under
\* way goes on.
LEMMA CrashKeeps == ASSUME RunsInv, R!Crash PROVE RunsInv'
<1> USE RunsAssumption DEF RunsInv
<1>1. /\ leases' = [r \in Runs |-> None] /\ fresh' = 1 /\ released' = <<>>
      /\ cleanFor' = [u \in Uids |-> None]
      /\ job' = [r \in Runs |-> None] /\ op' = [r \in Runs |-> None]
      /\ cli' = [r \in Runs |-> None] /\ orphans' = {}
      /\ UNCHANGED <<ws, acl, dirt>>
  BY DEF R!Crash, R!Uids, Uids
<1>2. phase' = [r \in Runs |-> CASE r \in ws -> "stale"
                                 [] r \notin ws /\ phase[r] = "new" -> "new"
                                 [] OTHER -> "gone"]
  BY DEF R!Crash
<1>3. \A r \in Runs : /\ phase'[r] \in {"stale", "new", "gone"}
                      /\ phase'[r] = "new" => phase[r] = "new" /\ r \notin ws
  BY <1>2
<1>4. /\ phase' \in [Runs -> {"new", "placed", "leased", "cleaning", "ready", "up", "over", "stale",
                              "wiping", "gone"}]
  BY <1>2
<1>5. released' \in Seq(Uids) BY <1>1, EmptySeq
<1>6. RunTypes' BY <1>1, <1>4, <1>5 DEF RunTypes
<1>7. PoolInv'
  <2>1. DOMAIN released' = {} BY <1>1, EmptySeq
  <2> QED BY <1>1, <2>1 DEF PoolInv, Uids
<1>8. PhaseInv' BY <1>1, <1>3 DEF PhaseInv
<1>9. CleanInv' BY <1>1, <1>3 DEF CleanInv, PhaseInv
<1>10. ProcessInv' /\ OpInv' BY <1>1 DEF ProcessInv, OpInv
<1>11. R!RunsAreApart' /\ R!NoWipeUnderCli' BY <1>1 DEF R!RunsAreApart, R!NoWipeUnderCli
<1> QED BY <1>6, <1>7, <1>8, <1>9, <1>10, <1>11

LEMMA RunsInit == R!Init => RunsInv
<1> SUFFICES ASSUME R!Init PROVE RunsInv OBVIOUS
<1> USE RunsAssumption
<1>1. /\ leases = [r \in Runs |-> None] /\ fresh = 1 /\ released = <<>>
      /\ cleanFor = [u \in Uids |-> None] /\ phase = [r \in Runs |-> "new"]
      /\ ws = {} /\ acl = [r \in Runs |-> None]
      /\ job = [r \in Runs |-> None] /\ op = [r \in Runs |-> None]
      /\ cli = [r \in Runs |-> None] /\ orphans = {} /\ dirt = [u \in Uids |-> {}]
  BY DEF R!Init, R!Uids, Uids
<1>2. released \in Seq(Uids) /\ DOMAIN released = {} BY <1>1, EmptySeq
<1>3. RunTypes BY <1>1, <1>2 DEF RunTypes
<1>4. PoolInv BY <1>1, <1>2 DEF PoolInv, Uids
<1>5. PhaseInv /\ CleanInv /\ ProcessInv /\ OpInv BY <1>1 DEF PhaseInv, CleanInv, ProcessInv, OpInv
<1>6. R!RunsAreApart /\ R!NoWipeUnderCli BY <1>1 DEF R!RunsAreApart, R!NoWipeUnderCli
<1> QED BY <1>3, <1>4, <1>5, <1>6 DEF RunsInv

LEMMA RunsStutter ==
    ASSUME RunsInv,
           UNCHANGED <<leases, fresh, released, cleanFor, phase, ws, acl, job, op, cli, orphans, dirt>>
    PROVE  RunsInv'
<1>1. RunTypes' /\ PoolInv' BY DEF RunsInv, RunTypes, PoolInv
<1>2. PhaseInv' /\ CleanInv' /\ ProcessInv' /\ OpInv'
  BY DEF RunsInv, PhaseInv, CleanInv, ProcessInv, OpInv
<1>3. R!RunsAreApart' /\ R!NoWipeUnderCli' BY DEF RunsInv, R!RunsAreApart, R!NoWipeUnderCli, R!Live
<1> QED BY <1>1, <1>2, <1>3 DEF RunsInv

LEMMA RunsStep == RunsInv /\ R!Next => RunsInv'
<1> SUFFICES ASSUME RunsInv, R!Next PROVE RunsInv' OBVIOUS
<1>1. CASE R!Crash BY <1>1, CrashKeeps
<1>2. ASSUME NEW r \in Runs, R!RootVanishes(r) \/ R!Run(r) \/ R!Broker(r) \/ R!Reclaimer(r) PROVE RunsInv'
  <2>1. CASE R!RootVanishes(r) BY <2>1, RootVanishesKeeps
  <2>2. CASE R!Run(r)
    BY <2>2, StartKeeps, LeaseKeeps, PrepareKeeps, CleanedKeeps, SpawnKeeps, RespawnKeeps, EndKeeps DEF R!Run
  <2>3. CASE R!Broker(r)
    BY <2>3, LinkEndsKeeps, SupervisorEndsKeeps, OrphanEndsKeeps, OpStartsKeeps, OpWaitsKeeps, OpEndsKeeps
    DEF R!Broker
  <2>4. CASE R!Reclaimer(r)
    BY <2>4, WipeBeginsKeeps, WipeDoneKeeps, WipeFailsKeeps DEF R!Reclaimer
  <2> QED BY <1>2, <2>1, <2>2, <2>3, <2>4
<1> QED BY <1>1, <1>2 DEF R!Next

\* What PoolInv says of each uid, counted.
LEMMA PoolCounts == RunsInv => R!PoolIsExact
<1> SUFFICES ASSUME RunsInv, NEW u \in Uids
             PROVE  Cardinality(R!Holder(u)) + Cardinality({i \in DOMAIN released : released[i] = u})
                    = IF u < fresh THEN 1 ELSE 0
  BY RunsCardinality DEF R!PoolIsExact, R!Uids, Uids
<1> USE RunsAssumption DEF RunsInv
<1> DEFINE Queued == {i \in DOMAIN released : released[i] = u}
<1>1. u # None /\ R!Holder(u) = {r \in Runs : leases[r] = u} BY DEF Uids, R!Holder
<1>2. Cardinality({}) = 0 /\ \A x : Cardinality({x}) = 1 BY FS_EmptySet, FS_Singleton
<1>3. CASE \E r \in Runs : leases[r] = u
  <2>1. PICK r \in Runs : leases[r] = u BY <1>3
  <2>2. R!Holder(u) = {r} BY <1>1, <2>1 DEF PoolInv
  <2>3. Queued = {} /\ u < fresh BY <1>1, <2>1 DEF PoolInv
  <2>4. Cardinality(R!Holder(u)) = 1 /\ Cardinality(Queued) = 0 BY <1>2, <2>2, <2>3
  <2> QED BY <2>3, <2>4
<1>4. CASE R!Holder(u) = {} /\ \E i \in DOMAIN released : released[i] = u
  <2>1. PICK i \in DOMAIN released : released[i] = u BY <1>4
  <2>2. Queued = {i} /\ u < fresh BY <2>1 DEF PoolInv
  <2>3. Cardinality(R!Holder(u)) = 0 /\ Cardinality(Queued) = 1 BY <1>2, <1>4, <2>2
  <2> QED BY <2>2, <2>3
<1>5. CASE R!Holder(u) = {} /\ Queued = {}
  <2>1. ~(u < fresh) BY <1>1, <1>5 DEF PoolInv
  <2>2. Cardinality(R!Holder(u)) = 0 /\ Cardinality(Queued) = 0 BY <1>2, <1>5
  <2> QED BY <2>1, <2>2
<1> QED BY <1>1, <1>3, <1>4, <1>5

-----------------------------------------------------------------------------
(* The registry of UidRegistry.                                            *)

file == x1
lock == x2
mem == x3
band == x4
marker == x5
data == x6
session == x7

USE DEF file, lock, mem, band, marker, data, session

RegUids == 1..MaxUid
Maps == [Members -> RegUids \cup {None}]

RegTypes ==
    /\ file \in Maps /\ mem \in [Parties -> Maps \cup {None}] /\ band \in Bands
    /\ marker \in [RegUids -> Members \cup {None}]
    /\ data \in [RegUids -> SUBSET (Members \cup {Anon})]
    /\ session \in [RegUids -> Members \cup {Anon, None}]

\* A process that has a copy of the registry holds its lock, and the copy is
\* the file; data of anonymous runs lies where nobody has claimed.
RegistryInv ==
    /\ RegTypes
    /\ \A p \in Parties : mem[p] # None => lock = p
    /\ \A u \in RegUids : Anon \in data[u] => marker[u] = None
    /\ G!UidIsOwn

LEMMA LowestIsIn == ASSUME NEW S \in SUBSET Nat, S # {} PROVE G!Lowest(S) \in S
<1>1. PICK u \in S : \A v \in S : <<v, u>> \notin OpToRel(<, Nat)
  BY NatLessThanWellFounded, WFMin
<1>2. \A v \in S : ~(v < u)
  <2> SUFFICES ASSUME NEW v \in S, v < u PROVE FALSE OBVIOUS
  <2>1. <<v, u>> \in OpToRel(<, Nat) BY Zenon DEF OpToRel
  <2> QED BY <1>1, <2>1
<1>3. \A v \in S : u <= v BY <1>2
<1> QED BY <1>3 DEF G!Lowest

\* A uid of the band is a uid, and none is the missing one.
LEMMA BandUids == ASSUME RegTypes
    PROVE  /\ G!Stable \subseteq RegUids /\ G!Ephemeral \subseteq RegUids
           /\ \A u \in RegUids : u # None
           /\ Anon # None /\ \A k \in Members : k # None /\ k # Anon
           /\ \A p \in Parties : p # None
<1> USE RunsAssumption, RegistryAssumption
<1>1. /\ band.lo \in Nat \ {0} /\ band.mid \in Nat /\ band.hi \in Nat
      /\ band.mid <= band.hi /\ band.hi <= MaxUid /\ MaxUid \in Nat
  BY DEF RegTypes
<1> QED BY <1>1 DEF G!Stable, G!Ephemeral, RegUids

LEMMA RegistryInit == G!RegistryInit => RegistryInv
  BY RunsAssumption, RegistryAssumption
  DEF G!RegistryInit, G!Uids, RegistryInv, RegTypes, RegUids, Maps, G!UidIsOwn, G!Used

\* A process that holds the lock lets it go, and every session is over.
LEMMA StopKeeps ==
    ASSUME RegistryInv, NEW p \in Parties, mem[p] # None,
           mem' = [mem EXCEPT ![p] = None], lock' = None,
           session' = [u \in RegUids |-> None], UNCHANGED band,
           file' \in Maps, G!Used(file)' \cap Reserved = {},
           \A j, k \in Members : j # k /\ file'[j] # None => file'[j] # file'[k],
           marker' \in [RegUids -> Members \cup {None}],
           data' \in [RegUids -> SUBSET (Members \cup {Anon})],
           \A u \in RegUids : Anon \in data'[u] => marker'[u] = None,
           \A u \in RegUids, k \in Members : k \in data'[u] => marker'[u] = k
    PROVE  RegistryInv'
<1>1. \A q \in Parties : mem'[q] = None
  BY DEF RegistryInv, RegTypes
<1>2. RegTypes' BY DEF RegistryInv, RegTypes
<1>3. G!UidIsOwn' BY <1>1 DEF G!UidIsOwn, G!Uids, RegUids
<1> QED BY <1>1, <1>2, <1>3 DEF RegistryInv

LEMMA StartUpKeeps == ASSUME RegistryInv, NEW p \in Parties, G!StartUp(p) PROVE RegistryInv'
<1>1. /\ lock = None /\ lock' = p /\ mem' = [mem EXCEPT ![p] = file]
      /\ UNCHANGED <<file, marker, data, band, session>>
  BY DEF G!StartUp, G!disk
<1>2. mem \in [Parties -> Maps \cup {None}] /\ file \in Maps BY DEF RegistryInv, RegTypes
<1>3. \A q \in Parties : mem[q] = None BY <1>1, BandUids DEF RegistryInv
<1>4. \A q \in Parties : mem'[q] # None => q = p /\ mem'[q] = file BY <1>1, <1>2, <1>3
<1>5. RegTypes' BY <1>1, <1>2 DEF RegistryInv, RegTypes
<1>6. G!UidIsOwn' BY <1>1, <1>4 DEF RegistryInv, G!UidIsOwn, G!Used
<1> QED BY <1>1, <1>4, <1>5, <1>6 DEF RegistryInv

\* The lowest free uid is nobody's and not reserved.
LEMMA AllocateKeeps ==
    ASSUME RegistryInv, NEW p \in Parties, NEW k \in Members, G!Allocate(p, k) PROVE RegistryInv'
<1> DEFINE u == G!Lowest(G!Free(p))
           grown == [file EXCEPT ![k] = u]
<1>1. mem[p] # None /\ mem[p] = file /\ file \in Maps /\ RegTypes
  BY DEF G!Allocate, RegistryInv, RegTypes, G!UidIsOwn
<1>2. G!Free(p) \in SUBSET Nat /\ G!Free(p) # {} BY <1>1, BandUids DEF G!Allocate, G!Free, RegUids
<1>3. u \in G!Free(p) BY <1>2, LowestIsIn
<1>4. u \in RegUids /\ u \notin Reserved /\ \A j \in Members : file[j] # u
  BY <1>1, <1>3, BandUids DEF G!Free, G!Used
<1> HIDE DEF u
<1>5. grown \in Maps /\ grown[k] = u /\ \A j \in Members \ {k} : grown[j] = file[j]
  BY <1>1, <1>4 DEF Maps
<1> HIDE DEF grown
<1>6. \A i, j \in Members : i # j /\ grown[i] # None => grown[i] # grown[j]
  BY <1>4, <1>5 DEF RegistryInv, G!UidIsOwn
<1>7. ({grown[j] : j \in Members} \ {None}) \cap Reserved = {}
  BY <1>4, <1>5 DEF RegistryInv, G!UidIsOwn, G!Used
<1>8. /\ file' = grown /\ UNCHANGED <<band, marker, data>>
      /\ \/ mem' = [mem EXCEPT ![p] = grown] /\ UNCHANGED <<lock, session>>
         \/ mem' = [mem EXCEPT ![p] = None] /\ lock' = None /\ session' = [w \in RegUids |-> None]
  BY <1>1 DEF G!Allocate, grown, u, RegUids, G!Uids
<1>9. CASE mem' = [mem EXCEPT ![p] = grown] /\ UNCHANGED <<lock, session>>
  <2>1. \A q \in Parties : mem'[q] # None => lock' = q /\ mem'[q] = grown
    BY <1>1, <1>9 DEF RegistryInv, RegTypes
  <2>2. RegTypes' BY <1>1, <1>5, <1>8, <1>9 DEF RegTypes
  <2>3. G!UidIsOwn' BY <1>6, <1>7, <1>8, <1>9, <2>1 DEF RegistryInv, G!UidIsOwn, G!Used
  <2> QED BY <1>8, <2>1, <2>2, <2>3 DEF RegistryInv
<1>10. CASE mem' = [mem EXCEPT ![p] = None] /\ lock' = None /\ session' = [w \in RegUids |-> None]
  <2>1. G!Used(file)' \cap Reserved = {} BY <1>7, <1>8 DEF G!Used
  <2> QED
    BY <1>1, <1>5, <1>6, <1>8, <1>10, <2>1, StopKeeps DEF RegistryInv, RegTypes, G!UidIsOwn, G!Uids, RegUids
<1> QED BY <1>8, <1>9, <1>10

\* Who starts on a uid leaves nothing of another there.
LEMMA ClaimKeeps ==
    ASSUME RegistryInv, NEW u \in RegUids, NEW w \in Members \cup {Anon}, NEW m \in Members \cup {None},
           m = IF w = Anon THEN None ELSE w,
           data' = [data EXCEPT ![u] = {w}], marker' = [marker EXCEPT ![u] = m],
           session' = [session EXCEPT ![u] = w], UNCHANGED <<file, lock, mem, band>>
    PROVE  RegistryInv'
<1>1. /\ data'[u] = {w} /\ marker'[u] = m /\ session'[u] = w
      /\ \A v \in RegUids \ {u} : data'[v] = data[v] /\ marker'[v] = marker[v] /\ session'[v] = session[v]
  BY DEF RegistryInv, RegTypes
<1>2. RegTypes' BY DEF RegistryInv, RegTypes
<1>3. \A v \in RegUids : Anon \in data'[v] => marker'[v] = None BY <1>1 DEF RegistryInv
<1>4. G!UidIsOwn'
  <2>1. \A v \in RegUids : session'[v] # None => data'[v] = {session'[v]}
    BY <1>1 DEF RegistryInv, G!UidIsOwn, G!Uids, RegUids
  <2>2. \A v \in RegUids, k \in Members : k \in data'[v] => marker'[v] = k
    BY <1>1, RegistryAssumption DEF RegistryInv, G!UidIsOwn, G!Uids, RegUids
  <2> QED BY <2>1, <2>2 DEF RegistryInv, G!UidIsOwn, G!Uids, RegUids, G!Used
<1> QED BY <1>2, <1>3, <1>4 DEF RegistryInv

LEMMA NamedKeeps ==
    ASSUME RegistryInv, NEW p \in Parties, NEW k \in Members, G!SpawnNamed(p, k) PROVE RegistryInv'
<1> DEFINE u == mem[p][k]
<1>1. mem[p] # None /\ mem[p] \in Maps /\ u # None BY DEF G!SpawnNamed, RegistryInv, RegTypes
<1>2. u \in RegUids BY <1>1 DEF Maps
<1>3. (IF marker[u] = k THEN data[u] ELSE {}) \cup {k} = {k}
  BY <1>2, BandUids DEF RegistryInv, RegTypes, G!UidIsOwn, G!Uids, RegUids
<1>4. /\ data' = [data EXCEPT ![u] = {k}] /\ marker' = [marker EXCEPT ![u] = k]
      /\ session' = [session EXCEPT ![u] = k] /\ UNCHANGED <<file, lock, mem, band>>
  BY <1>3 DEF G!SpawnNamed
<1> QED BY <1>2, <1>4, BandUids, ClaimKeeps DEF RegistryInv

LEMMA AnonymousKeeps ==
    ASSUME RegistryInv, NEW p \in Parties, NEW u \in RegUids, G!SpawnAnonymous(p, u) PROVE RegistryInv'
  BY BandUids, ClaimKeeps DEF G!SpawnAnonymous, RegistryInv

LEMMA CutShortKeeps ==
    ASSUME RegistryInv, NEW p \in Parties, NEW k \in Members, G!SpawnCutShort(p, k) PROVE RegistryInv'
<1> DEFINE u == mem[p][k]
<1>1. mem[p] # None /\ mem[p] \in Maps /\ u # None BY DEF G!SpawnCutShort, RegistryInv, RegTypes
<1>2. u \in RegUids BY <1>1 DEF Maps
<1>3. /\ data' = [data EXCEPT ![u] = {}] /\ marker' \in {marker, [marker EXCEPT ![u] = k]}
      /\ mem' = [mem EXCEPT ![p] = None] /\ lock' = None
      /\ session' = [v \in RegUids |-> None] /\ UNCHANGED <<file, band>>
  BY DEF G!SpawnCutShort, G!Uids, RegUids
<1> HIDE DEF u
<1>4. /\ data'[u] = {}
      /\ \A v \in RegUids \ {u} : data'[v] = data[v] /\ marker'[v] = marker[v]
  BY <1>2, <1>3 DEF RegistryInv, RegTypes
<1>5. /\ marker' \in [RegUids -> Members \cup {None}]
      /\ data' \in [RegUids -> SUBSET (Members \cup {Anon})]
  BY <1>2, <1>3 DEF RegistryInv, RegTypes
<1>6. \A v \in RegUids : Anon \in data'[v] => marker'[v] = None BY <1>4 DEF RegistryInv
<1>7. \A v \in RegUids, j \in Members : j \in data'[v] => marker'[v] = j
  BY <1>4 DEF RegistryInv, G!UidIsOwn, G!Uids, RegUids
<1>8. /\ file' \in Maps /\ G!Used(file)' \cap Reserved = {}
      /\ \A i, j \in Members : i # j /\ file'[i] # None => file'[i] # file'[j]
  BY <1>3 DEF RegistryInv, RegTypes, G!UidIsOwn, G!Used
<1> QED BY <1>1, <1>3, <1>5, <1>6, <1>7, <1>8, StopKeeps

LEMMA ExitKeeps == ASSUME RegistryInv, NEW p \in Parties, G!Exit(p) PROVE RegistryInv'
<1>1. /\ mem[p] # None /\ mem' = [mem EXCEPT ![p] = None] /\ lock' = None
      /\ session' = [v \in RegUids |-> None] /\ UNCHANGED <<file, marker, data, band>>
  BY DEF G!Exit, G!disk, G!Uids, RegUids
<1>2. /\ file' \in Maps /\ G!Used(file)' \cap Reserved = {}
      /\ \A i, j \in Members : i # j /\ file'[i] # None => file'[i] # file'[j]
      /\ marker' \in [RegUids -> Members \cup {None}]
      /\ data' \in [RegUids -> SUBSET (Members \cup {Anon})]
      /\ \A u \in RegUids : Anon \in data'[u] => marker'[u] = None
      /\ \A u \in RegUids, k \in Members : k \in data'[u] => marker'[u] = k
  BY <1>1 DEF RegistryInv, RegTypes, G!UidIsOwn, G!Used, G!Uids, RegUids
<1> QED BY <1>1, <1>2, StopKeeps

LEMMA RegistryStep == ASSUME RegistryInv, G!RegistryNext PROVE RegistryInv'
<1>1. ASSUME NEW u \in RegUids, G!SessionEnds(u) PROVE RegistryInv'
  BY <1>1 DEF G!SessionEnds, RegistryInv, RegTypes, G!UidIsOwn, G!Used, G!Uids, RegUids
<1>2. ASSUME G!Reconfigure PROVE RegistryInv'
  BY <1>2 DEF G!Reconfigure, RegistryInv, RegTypes, Maps, G!UidIsOwn, G!Used, G!Uids, RegUids
<1> QED
  BY <1>1, <1>2, StartUpKeeps, ExitKeeps, AllocateKeeps, NamedKeeps, CutShortKeeps, AnonymousKeeps
  DEF G!RegistryNext, G!Uids, RegUids

LEMMA RegistryStutter ==
    RegistryInv /\ UNCHANGED <<file, lock, mem, band, marker, data, session>> => RegistryInv'
  BY DEF RegistryInv, RegTypes, G!UidIsOwn, G!Used, G!Uids

-----------------------------------------------------------------------------
(* The runtime overrides of RuntimeConfig.                                 *)

cfgFile == x1
cfgMem == x2
stamp == x3
dirty == x4
flock == x5
cfgTh == x6
saved == x7

USE DEF cfgFile, cfgMem, stamp, dirty, flock, cfgTh, saved

\* What a process whose build knows p's keys takes from a map.
Taken(p, map) == [k \in Settings |-> IF k \in Known[p] THEN map[k] ELSE None]

\* A thread on its way to write has the lock, so that what it commits is the
\* file; a refresh was overtaken, or read the file it looked at.
ConfigInv ==
    /\ N!TypeOK /\ N!NoUpdateIsLost /\ N!StampIsHonest
    /\ \A p \in N!Procs : stamp[p] <= cfgFile.id
    /\ \A t \in Savers :
          /\ cfgTh[t].stamp <= cfgFile.id
          /\ cfgTh[t].pc \in {"write", "commit"} => flock = t
          /\ cfgTh[t].pc = "commit" => cfgTh[t].stamp = cfgFile.id
          /\ cfgTh[t].pc \in {"install", "commit"} /\ cfgTh[t].stamp = cfgFile.id =>
                cfgFile.ok /\ cfgTh[t].loaded = Taken(ProcOf[t], cfgFile.map)

ConfigFiles == [id : 0..MaxWrite, map : N!Maps, ok : BOOLEAN]
ThreadStates == [pc : {"idle", "read", "install", "write", "commit"}, stamp : 0..MaxWrite, loaded : N!Maps]

LEMMA ConfigValues ==
    /\ N!Empty \in N!Maps /\ N!Idle \in ThreadStates /\ N!Idle.pc = "idle" /\ N!Idle.stamp = 0
    /\ \A t \in Savers : \A map \in N!Maps : N!Validated(t, map) \in N!Maps
                                            /\ N!Validated(t, map) = Taken(ProcOf[t], map)
    /\ \A t \in Savers : ProcOf[t] \in N!Procs
    /\ \A t \in Savers : \A c \in N!Changes(t) : \A map \in N!Maps : N!Applied(t, c[1], c[2], map) \in N!Maps
<1> USE ConfigAssumption
<1>1. N!Empty \in N!Maps BY DEF N!Empty, N!Maps
<1>2. N!Idle \in ThreadStates /\ N!Idle.pc = "idle" /\ N!Idle.stamp = 0 BY <1>1 DEF N!Idle, ThreadStates
<1>3. ASSUME NEW t \in Savers, NEW map \in N!Maps
      PROVE  N!Validated(t, map) \in N!Maps /\ N!Validated(t, map) = Taken(ProcOf[t], map)
  BY DEF N!Validated, N!Maps, Taken
<1>4. ASSUME NEW t \in Savers, NEW c \in N!Changes(t), NEW map \in N!Maps
      PROVE  N!Applied(t, c[1], c[2], map) \in N!Maps
  <2>1. c[2] \in Values \cup {None} BY <1>4 DEF N!Changes
  <2> QED BY <2>1 DEF N!Applied, N!Maps
<1>5. \A t \in Savers : ProcOf[t] \in N!Procs BY DEF N!Procs
<1> QED BY <1>1, <1>2, <1>3, <1>4, <1>5

LEMMA ConfigInit == N!Init => ConfigInv
<1> SUFFICES ASSUME N!Init PROVE ConfigInv OBVIOUS
<1> USE ConfigAssumption
<1>1. /\ cfgFile = [id |-> 0, map |-> N!Empty, ok |-> TRUE]
      /\ cfgMem = [p \in N!Procs |-> N!Empty] /\ stamp = [p \in N!Procs |-> 0] /\ dirty = {}
      /\ flock = None /\ cfgTh = [t \in Savers |-> N!Idle] /\ saved = N!Empty
  BY DEF N!Init
<1>2. N!TypeOK BY <1>1, ConfigValues DEF N!TypeOK, ThreadStates
<1>3. N!NoUpdateIsLost BY <1>1 DEF N!NoUpdateIsLost
<1>4. N!StampIsHonest BY <1>1 DEF N!StampIsHonest, N!Empty
<1> QED BY <1>1, <1>2, <1>3, <1>4, ConfigValues DEF ConfigInv

\* A thread moves, to a stage in which it holds no lock or held it before.
LEMMA ThreadMoves ==
    ASSUME ConfigInv, NEW t \in Savers, cfgTh' \in [Savers -> ThreadStates],
           \A u \in Savers \ {t} : cfgTh'[u] = cfgTh[u],
           cfgTh'[t].stamp <= cfgFile.id, cfgTh'[t].pc # "commit",
           cfgTh'[t].pc = "write" => flock' = t,
           cfgTh'[t].pc = "install" /\ cfgTh'[t].stamp = cfgFile.id =>
              cfgFile.ok /\ cfgTh'[t].loaded = Taken(ProcOf[t], cfgFile.map),
           flock' \in Savers \cup {None}, flock' = flock \/ flock \in {t, None},
           cfgMem' \in [N!Procs -> N!Maps], stamp' \in [N!Procs -> 0..MaxWrite], dirty' \subseteq N!Procs,
           \A p \in N!Procs : stamp'[p] <= cfgFile.id, N!StampIsHonest', UNCHANGED <<cfgFile, saved>>
    PROVE  ConfigInv'
<1> USE ConfigAssumption
<1>1. N!TypeOK' BY DEF ConfigInv, N!TypeOK, ThreadStates
<1>2. N!NoUpdateIsLost' BY DEF ConfigInv, N!NoUpdateIsLost
<1>3. ASSUME NEW u \in Savers
      PROVE  /\ cfgTh'[u].stamp <= cfgFile'.id
             /\ cfgTh'[u].pc \in {"write", "commit"} => flock' = u
             /\ cfgTh'[u].pc = "commit" => cfgTh'[u].stamp = cfgFile'.id
             /\ cfgTh'[u].pc \in {"install", "commit"} /\ cfgTh'[u].stamp = cfgFile'.id =>
                   cfgFile'.ok /\ cfgTh'[u].loaded = Taken(ProcOf[u], cfgFile'.map)
  <2>1. CASE u = t BY <2>1
  <2>2. CASE u # t BY <2>2 DEF ConfigInv
  <2> QED BY <2>1, <2>2
<1> QED BY <1>1, <1>2, <1>3 DEF ConfigInv

\* What the invariant says of the values of the variables.
LEMMA ConfigTypes == ASSUME ConfigInv
    PROVE  /\ cfgFile.id \in 0..MaxWrite /\ cfgFile.id \in Nat
           /\ cfgFile.map \in N!Maps /\ cfgFile.ok \in BOOLEAN
           /\ cfgMem \in [N!Procs -> N!Maps] /\ stamp \in [N!Procs -> 0..MaxWrite] /\ dirty \subseteq N!Procs
           /\ \A q \in N!Procs : stamp[q] <= cfgFile.id
           /\ flock \in Savers \cup {None} /\ saved \in N!Maps
           /\ cfgTh \in [Savers -> ThreadStates]
  BY ConfigAssumption DEF ConfigInv, N!TypeOK, ThreadStates

LEMMA StatKeeps == ASSUME ConfigInv, NEW t \in Savers, N!Stat(t) PROVE ConfigInv'
<1> DEFINE s == [N!Idle EXCEPT !.pc = "read", !.stamp = cfgFile.id]
<1>1. cfgTh' = [cfgTh EXCEPT ![t] = s] /\ UNCHANGED <<cfgFile, cfgMem, stamp, dirty, flock, saved>>
  BY DEF N!Stat, N!Go
<1>2. N!Idle \in ThreadStates /\ cfgFile.id \in 0..MaxWrite BY ConfigValues DEF ConfigInv, N!TypeOK
<1>3. s \in ThreadStates /\ s.pc = "read" /\ s.stamp = cfgFile.id BY <1>2 DEF ThreadStates
<1> HIDE DEF s
<1>4. N!StampIsHonest' BY <1>1 DEF ConfigInv, N!StampIsHonest
<1>5. /\ cfgTh' \in [Savers -> ThreadStates] /\ cfgTh'[t] = s
      /\ \A u \in Savers \ {t} : cfgTh'[u] = cfgTh[u]
  BY <1>1, <1>3, ConfigTypes
<1> QED BY <1>1, <1>2, <1>3, <1>4, <1>5, ConfigTypes, ThreadMoves

LEMMA ReadKeeps == ASSUME ConfigInv, NEW t \in Savers, N!Read(t) PROVE ConfigInv'
<1> DEFINE p == ProcOf[t]
<1>1. /\ cfgTh[t] \in ThreadStates /\ cfgFile.map \in N!Maps /\ cfgFile.id \in Nat /\ p \in N!Procs
      /\ cfgTh[t].stamp \in 0..MaxWrite /\ cfgTh[t].stamp <= cfgFile.id
  BY ConfigAssumption, ConfigValues DEF ConfigInv, N!TypeOK, ThreadStates
<1>2. CASE cfgFile.ok
  <2> DEFINE s == [cfgTh[t] EXCEPT !.pc = "install", !.loaded = N!Validated(t, cfgFile.map)]
  <2>1. cfgTh' = [cfgTh EXCEPT ![t] = s] /\ UNCHANGED <<cfgFile, cfgMem, stamp, dirty, flock, saved>>
    BY <1>2 DEF N!Read, N!Go
  <2>2. N!Validated(t, cfgFile.map) \in N!Maps /\ N!Validated(t, cfgFile.map) = Taken(p, cfgFile.map)
    BY <1>1, ConfigValues
  <2>3. /\ s \in ThreadStates /\ s.pc = "install" /\ s.stamp = cfgTh[t].stamp
        /\ s.loaded = Taken(p, cfgFile.map)
    BY <1>1, <2>2 DEF ThreadStates
  <2> HIDE DEF s
  <2>4. N!StampIsHonest' BY <2>1 DEF ConfigInv, N!StampIsHonest
  <2>5. /\ cfgTh' \in [Savers -> ThreadStates] /\ cfgTh'[t] = s
        /\ \A u \in Savers \ {t} : cfgTh'[u] = cfgTh[u]
    BY <2>1, <2>3, ConfigTypes
  <2> QED BY <1>1, <1>2, <2>1, <2>3, <2>4, <2>5, ConfigTypes, ThreadMoves
<1>3. CASE ~cfgFile.ok
  <2>1. /\ cfgTh' = [cfgTh EXCEPT ![t] = N!Idle] /\ stamp' = [stamp EXCEPT ![p] = cfgTh[t].stamp]
        /\ UNCHANGED <<cfgFile, cfgMem, dirty, flock, saved>>
    BY <1>3 DEF N!Read, N!Go
  <2>2. stamp' \in [N!Procs -> 0..MaxWrite] /\ \A q \in N!Procs : stamp'[q] <= cfgFile.id
    BY <1>1, <2>1 DEF ConfigInv, N!TypeOK
  <2>3. N!StampIsHonest' BY <1>3, <2>1 DEF N!StampIsHonest
  <2>4. /\ cfgTh' \in [Savers -> ThreadStates] /\ cfgTh'[t] = N!Idle
        /\ \A u \in Savers \ {t} : cfgTh'[u] = cfgTh[u]
    BY <2>1, ConfigTypes, ConfigValues
  <2> QED BY <1>1, <2>1, <2>2, <2>3, <2>4, ConfigTypes, ConfigValues, ThreadMoves
<1> QED BY <1>2, <1>3

\* Install, and the end of Commit: what the thread loaded is served.
LEMMA ServesLoaded ==
    ASSUME ConfigInv, NEW t \in Savers, cfgTh[t].pc \in {"install", "commit"},
           cfgMem' = [cfgMem EXCEPT ![ProcOf[t]] = cfgTh[t].loaded],
           stamp' = [stamp EXCEPT ![ProcOf[t]] = cfgTh[t].stamp],
           dirty' = dirty \ {ProcOf[t]}, cfgTh' = [cfgTh EXCEPT ![t] = N!Idle],
           flock' = flock \/ (flock = t /\ flock' = None), UNCHANGED <<cfgFile, saved>>
    PROVE  ConfigInv'
<1> DEFINE p == ProcOf[t]
<1>1. /\ p \in N!Procs /\ cfgTh[t].stamp \in 0..MaxWrite /\ cfgTh[t].stamp <= cfgFile.id
      /\ cfgTh[t].loaded \in N!Maps /\ cfgFile.id \in Nat
  BY ConfigAssumption, ConfigValues DEF ConfigInv, N!TypeOK
<1>2. /\ cfgMem'[p] = cfgTh[t].loaded /\ stamp'[p] = cfgTh[t].stamp
      /\ \A q \in N!Procs \ {p} : /\ cfgMem'[q] = cfgMem[q] /\ stamp'[q] = stamp[q]
                                /\ q \in dirty' <=> q \in dirty
  BY <1>1 DEF ConfigInv, N!TypeOK
<1>3. cfgMem' \in [N!Procs -> N!Maps] /\ stamp' \in [N!Procs -> 0..MaxWrite] /\ dirty' \subseteq N!Procs
  BY <1>1 DEF ConfigInv, N!TypeOK
<1>4. \A q \in N!Procs : stamp'[q] <= cfgFile.id BY <1>1, <1>2 DEF ConfigInv
<1>5. cfgTh[t].stamp = cfgFile.id => cfgFile.ok /\ cfgTh[t].loaded = Taken(p, cfgFile.map) BY DEF ConfigInv
<1>6. N!StampIsHonest' BY <1>2, <1>5 DEF ConfigInv, N!StampIsHonest, Taken
<1>7. /\ cfgTh' \in [Savers -> ThreadStates] /\ cfgTh'[t] = N!Idle
      /\ \A u \in Savers \ {t} : cfgTh'[u] = cfgTh[u]
  BY ConfigTypes, ConfigValues
<1> QED BY <1>1, <1>3, <1>4, <1>6, <1>7, ConfigTypes, ConfigValues, ThreadMoves

LEMMA LockKeeps == ASSUME ConfigInv, NEW t \in Savers, N!Lock(t) PROVE ConfigInv'
<1> DEFINE s == [N!Idle EXCEPT !.pc = "write"]
<1>1. /\ cfgTh' = [cfgTh EXCEPT ![t] = s] /\ flock = None /\ flock' = t
      /\ UNCHANGED <<cfgFile, cfgMem, stamp, dirty, saved>>
  BY DEF N!Lock, N!Go
<1>2. N!Idle \in ThreadStates /\ N!Idle.stamp = 0 /\ cfgFile.id \in Nat
  BY ConfigAssumption, ConfigValues DEF ConfigInv, N!TypeOK
<1>3. s \in ThreadStates /\ s.pc = "write" /\ s.stamp = 0 BY <1>2 DEF ThreadStates
<1> HIDE DEF s
<1>4. N!StampIsHonest' BY <1>1 DEF ConfigInv, N!StampIsHonest
<1>5. /\ cfgTh' \in [Savers -> ThreadStates] /\ cfgTh'[t] = s
      /\ \A u \in Savers \ {t} : cfgTh'[u] = cfgTh[u]
  BY <1>1, <1>3, ConfigTypes
<1> QED BY <1>1, <1>2, <1>3, <1>4, <1>5, ConfigTypes, ThreadMoves

LEMMA WriteFailsKeeps ==
    ASSUME ConfigInv, NEW t \in Savers, NEW c \in N!Changes(t), N!WriteFails(t, c[1], c[2]) PROVE ConfigInv'
<1> DEFINE p == ProcOf[t]
<1>1. /\ cfgMem' = [cfgMem EXCEPT ![p] = N!Applied(t, c[1], c[2], cfgMem[p])]
      /\ dirty' = dirty \cup {p} /\ flock' = None /\ cfgTh' = [cfgTh EXCEPT ![t] = N!Idle]
      /\ cfgTh[t].pc = "write" /\ UNCHANGED <<cfgFile, stamp, saved>>
  BY DEF N!WriteFails, N!Go
<1>2. p \in N!Procs /\ flock = t /\ cfgFile.id \in Nat /\ cfgMem[p] \in N!Maps
  BY <1>1, ConfigAssumption, ConfigValues DEF ConfigInv, N!TypeOK
<1>3. N!Applied(t, c[1], c[2], cfgMem[p]) \in N!Maps BY <1>2, ConfigValues
<1>4. cfgMem' \in [N!Procs -> N!Maps] /\ dirty' \subseteq N!Procs
  BY <1>1, <1>2, <1>3 DEF ConfigInv, N!TypeOK
<1>5. \A q \in N!Procs \ {p} : cfgMem'[q] = cfgMem[q] BY <1>1 DEF ConfigInv, N!TypeOK
<1>6. N!StampIsHonest' BY <1>1, <1>5 DEF ConfigInv, N!StampIsHonest
<1>7. /\ cfgTh' \in [Savers -> ThreadStates] /\ cfgTh'[t] = N!Idle
      /\ \A u \in Savers \ {t} : cfgTh'[u] = cfgTh[u]
  BY <1>1, ConfigTypes, ConfigValues
<1> QED BY <1>1, <1>2, <1>4, <1>6, <1>7, ConfigTypes, ConfigValues, ThreadMoves

\* The file is replaced: whoever looked at it before is overtaken.
LEMMA FileChanges ==
    ASSUME ConfigInv, NEW map \in N!Maps, NEW ok \in BOOLEAN, cfgFile.id < MaxWrite,
           cfgFile' = [id |-> cfgFile.id + 1, map |-> map, ok |-> ok], ok => saved' = map,
           saved' \in N!Maps, cfgTh' \in [Savers -> ThreadStates],
           \A t \in Savers :
              \/ cfgTh'[t] = cfgTh[t] /\ cfgTh[t].pc # "commit"
              \/ /\ cfgTh'[t].pc = "commit" /\ cfgTh'[t].stamp = cfgFile.id + 1 /\ flock = t
                 /\ ok /\ cfgTh'[t].loaded = Taken(ProcOf[t], map),
           UNCHANGED <<cfgMem, stamp, dirty, flock>>
    PROVE  ConfigInv'
<1> USE ConfigAssumption
<1>1. /\ cfgFile'.id = cfgFile.id + 1 /\ cfgFile'.map = map /\ cfgFile'.ok = ok
      /\ cfgFile.id \in Nat /\ cfgFile' \in ConfigFiles
  BY DEF ConfigInv, N!TypeOK, ConfigFiles
<1>2. N!TypeOK' BY <1>1 DEF ConfigInv, N!TypeOK, ConfigFiles, ThreadStates
<1>3. N!NoUpdateIsLost' BY <1>1 DEF N!NoUpdateIsLost
<1>4. \A p \in N!Procs : stamp'[p] \in Nat /\ stamp'[p] < cfgFile'.id /\ stamp'[p] <= cfgFile'.id
  BY <1>1, ConfigTypes
<1>5. N!StampIsHonest' BY <1>1, <1>4 DEF N!StampIsHonest
<1>6. ASSUME NEW t \in Savers
      PROVE  /\ cfgTh'[t].stamp <= cfgFile'.id
             /\ cfgTh'[t].pc \in {"write", "commit"} => flock' = t
             /\ cfgTh'[t].pc = "commit" => cfgTh'[t].stamp = cfgFile'.id
             /\ cfgTh'[t].pc \in {"install", "commit"} /\ cfgTh'[t].stamp = cfgFile'.id =>
                   cfgFile'.ok /\ cfgTh'[t].loaded = Taken(ProcOf[t], cfgFile'.map)
  <2>1. CASE cfgTh'[t] = cfgTh[t] /\ cfgTh[t].pc # "commit"
    <3>1. cfgTh[t].stamp \in Nat /\ cfgTh[t].stamp <= cfgFile.id BY DEF ConfigInv, N!TypeOK
    <3> QED BY <1>1, <2>1, <3>1 DEF ConfigInv
  <2>2. CASE /\ cfgTh'[t].pc = "commit" /\ cfgTh'[t].stamp = cfgFile.id + 1 /\ flock = t
             /\ ok /\ cfgTh'[t].loaded = Taken(ProcOf[t], map)
    BY <1>1, <2>2
  <2> QED BY <2>1, <2>2
<1> QED BY <1>2, <1>3, <1>4, <1>5, <1>6 DEF ConfigInv

LEMMA WriteKeeps ==
    ASSUME ConfigInv, NEW t \in Savers, NEW c \in N!Changes(t), N!Write(t, c[1], c[2]) PROVE ConfigInv'
<1> USE ConfigAssumption
<1> DEFINE new == N!Applied(t, c[1], c[2], N!Base(t))
           s == [cfgTh[t] EXCEPT !.pc = "commit", !.loaded = N!Validated(t, new), !.stamp = cfgFile.id + 1]
<1>1. /\ cfgFile.id \in Nat /\ cfgFile.map \in N!Maps /\ cfgFile.ok \in BOOLEAN /\ saved \in N!Maps
      /\ cfgTh[t] \in ThreadStates /\ cfgTh \in [Savers -> ThreadStates]
  BY DEF ConfigInv, N!TypeOK, ThreadStates
<1>2. /\ cfgFile.id < MaxWrite /\ cfgFile' = [id |-> cfgFile.id + 1, map |-> new, ok |-> TRUE]
      /\ cfgTh' = [cfgTh EXCEPT ![t] = s] /\ cfgTh[t].pc = "write"
      /\ saved' = N!Applied(t, c[1], c[2], IF cfgFile.ok THEN saved ELSE N!Empty)
      /\ UNCHANGED <<cfgMem, stamp, dirty, flock>>
  BY DEF N!Write, N!Go
<1>3. new \in N!Maps /\ N!Validated(t, new) \in N!Maps /\ N!Validated(t, new) = Taken(ProcOf[t], new)
  <2>1. N!Base(t) \in N!Maps BY <1>1, ConfigValues DEF N!Base
  <2>2. new \in N!Maps BY <2>1, ConfigValues
  <2> QED BY <2>2, ConfigValues
<1>4. saved' = new
  BY <1>1, <1>2 DEF ConfigInv, N!NoUpdateIsLost, N!Base
<1> HIDE DEF new
<1>5. /\ s \in ThreadStates /\ s.pc = "commit" /\ s.stamp = cfgFile.id + 1
      /\ s.loaded = Taken(ProcOf[t], new)
  <2>1. cfgFile.id + 1 \in 0..MaxWrite BY <1>1, <1>2
  <2> QED BY <1>1, <1>3, <2>1 DEF ThreadStates
<1> HIDE DEF s
<1>6. flock = t /\ \A u \in Savers \ {t} : cfgTh[u].pc # "commit" BY <1>2 DEF ConfigInv
<1>7. cfgTh' \in [Savers -> ThreadStates] /\ cfgTh'[t] = s /\ \A u \in Savers \ {t} : cfgTh'[u] = cfgTh[u]
  BY <1>1, <1>2, <1>5
<1> QED BY <1>2, <1>3, <1>4, <1>5, <1>6, <1>7, FileChanges

LEMMA EditKeeps ==
    ASSUME ConfigInv, NEW map \in N!Maps, NEW ok \in BOOLEAN, N!Edit(map, ok) PROVE ConfigInv'
<1>1. /\ flock = None /\ cfgFile.id < MaxWrite /\ cfgFile' = [id |-> cfgFile.id + 1, map |-> map, ok |-> ok]
      /\ saved' = map /\ UNCHANGED <<cfgMem, stamp, dirty, flock, cfgTh>>
  BY DEF N!Edit
<1>2. cfgTh' \in [Savers -> ThreadStates] BY <1>1 DEF ConfigInv, N!TypeOK, ThreadStates
<1>3. \A t \in Savers : cfgTh[t].pc # "commit" BY <1>1, ConfigAssumption DEF ConfigInv
<1> QED BY <1>1, <1>2, <1>3, FileChanges

LEMMA ConfigStep == ASSUME ConfigInv, N!Next PROVE ConfigInv'
<1>1. ASSUME NEW t \in Savers, N!Install(t) PROVE ConfigInv'
  BY <1>1, ServesLoaded DEF N!Install, N!Go
<1>2. ASSUME NEW t \in Savers, N!Commit(t) PROVE ConfigInv'
  <2>1. flock = t BY <1>2 DEF N!Commit, ConfigInv
  <2> QED BY <1>2, <2>1, ServesLoaded DEF N!Commit, N!Go
<1>3. ASSUME NEW k \in Settings, NEW v \in Values, NEW ok \in BOOLEAN, N!Edit([N!Empty EXCEPT ![k] = v], ok)
      PROVE  ConfigInv'
  <2>1. [N!Empty EXCEPT ![k] = v] \in N!Maps BY DEF N!Empty, N!Maps
  <2> QED BY <1>3, <2>1, EditKeeps
<1>4. ASSUME NEW t \in Savers, NEW c \in N!Changes(t), N!Write(t, c[1], c[2]) \/ N!WriteFails(t, c[1], c[2])
      PROVE  ConfigInv'
  BY <1>4, WriteKeeps, WriteFailsKeeps
<1>5. CASE \E t \in Savers : \/ N!Stat(t) \/ N!Read(t) \/ N!Install(t) \/ N!Lock(t) \/ N!Commit(t)
                             \/ \E c \in N!Changes(t) : N!Write(t, c[1], c[2]) \/ N!WriteFails(t, c[1], c[2])
  BY <1>1, <1>2, <1>4, <1>5, StatKeeps, ReadKeeps, LockKeeps
<1>6. CASE \E map \in {[N!Empty EXCEPT ![k] = v] : k \in Settings, v \in Values}, ok \in BOOLEAN :
              N!Edit(map, ok)
  BY <1>3, <1>6
<1> QED BY <1>5, <1>6 DEF N!Next

LEMMA ConfigStutter ==
    ASSUME ConfigInv, UNCHANGED <<cfgFile, cfgMem, stamp, dirty, flock, cfgTh, saved>> PROVE ConfigInv'
  BY DEF ConfigInv, N!TypeOK, N!NoUpdateIsLost, N!StampIsHonest

-----------------------------------------------------------------------------
(* The env block of AdminLayers.                                           *)

setFile == x1
store == x2
setMem == x3
layer == x4
setTh == x5
hand == x6
managed == x7
changes == x8
crashes == x9

USE DEF setFile, store, setMem, layer, setTh, hand, managed, changes, crashes

Projections == [env : SUBSET Members, proj : SUBSET Members]
CallStates == [pc : {"idle", "reload", "project", "write", "remember"},
               cur : [Members -> {"none", "hand", "gw"}], written : SUBSET Members]

\* What was ever projected or is declared was declared once; and the copy of
\* the file a projection works with holds the operator's keys as they are.
SettingsInv ==
    /\ E!SettingsTypes /\ E!HandKeysStay
    /\ store.env \subseteq managed /\ store.proj \subseteq managed
    /\ setMem.env \subseteq managed /\ setMem.proj \subseteq managed /\ layer \subseteq managed
    /\ \A t \in Parties :
          /\ setTh[t].written \subseteq managed
          /\ setTh[t].pc = "write" => \A k \in hand \ managed : setTh[t].cur[k] = "hand"

\* The values of the variables, with the records named.
LEMMA SettingsValues == ASSUME SettingsInv
    PROVE  /\ setFile \in [Members -> {"none", "hand", "gw"}]
           /\ store \in Projections /\ setMem \in Projections
           /\ layer \subseteq Members /\ hand \subseteq Members /\ managed \subseteq Members
           /\ setTh \in [Parties -> CallStates] /\ changes \in Nat /\ changes \in 0..MaxAdmin
           /\ crashes \in Nat /\ crashes \in 0..MaxCrash
  BY AdminAssumption DEF SettingsInv, E!SettingsTypes, Projections, CallStates

LEMMA SettingsInit == E!SettingsInit => SettingsInv
<1> SUFFICES ASSUME E!SettingsInit PROVE SettingsInv OBVIOUS
<1> USE AdminAssumption DEF E!SettingsInit, E!Nothing, E!Idle
<1>1. E!SettingsTypes BY DEF E!SettingsTypes
<1>2. E!HandKeysStay BY DEF E!HandKeysStay
<1> QED BY <1>1, <1>2 DEF SettingsInv

\* A step of one call that leaves what the operator did.
LEMMA CallSteps ==
    ASSUME SettingsInv, NEW t \in Parties, setTh' \in [Parties -> CallStates],
           \A u \in Parties \ {t} : setTh'[u] = setTh[u],
           setFile' \in [Members -> {"none", "hand", "gw"}], store' \in Projections, setMem' \in Projections,
           changes' \in 0..MaxAdmin, managed' \subseteq Members, managed \subseteq managed',
           \A k \in hand \ managed' : setFile'[k] = "hand",
           store'.env \subseteq managed', store'.proj \subseteq managed',
           setMem'.env \subseteq managed', setMem'.proj \subseteq managed',
           setTh'[t].written \subseteq managed',
           setTh'[t].pc = "write" => \A k \in hand \ managed' : setTh'[t].cur[k] = "hand",
           UNCHANGED <<layer, hand, crashes>>
    PROVE  SettingsInv'
<1>1. E!SettingsTypes' BY SettingsValues DEF E!SettingsTypes, Projections, CallStates
<1>2. E!HandKeysStay' BY DEF E!HandKeysStay
<1>3. layer' \subseteq managed' BY DEF SettingsInv
<1>4. ASSUME NEW u \in Parties
      PROVE  /\ setTh'[u].written \subseteq managed'
             /\ setTh'[u].pc = "write" => \A k \in hand' \ managed' : setTh'[u].cur[k] = "hand"
  <2>1. CASE u = t BY <2>1
  <2>2. CASE u # t BY <2>2 DEF SettingsInv
  <2> QED BY <2>1, <2>2
<1> QED BY <1>1, <1>2, <1>3, <1>4 DEF SettingsInv

LEMMA ReplaceKeeps ==
    ASSUME SettingsInv, NEW t \in Parties, NEW S \in SUBSET Members, E!Replace(t, S) PROVE SettingsInv'
<1>1. /\ store' = [store EXCEPT !.env = S] /\ setTh' = [setTh EXCEPT ![t].pc = "reload"]
      /\ changes < MaxAdmin /\ changes' = changes + 1 /\ managed' = managed \cup S
      /\ UNCHANGED <<setFile, setMem, layer, hand, crashes>>
  BY DEF E!Replace, E!Go
<1>2. store' \in Projections /\ store'.env = S /\ store'.proj = store.proj
  BY <1>1, SettingsValues DEF Projections
<1>3. /\ setTh' \in [Parties -> CallStates] /\ setTh'[t].pc = "reload" /\ setTh'[t].written = setTh[t].written
      /\ \A u \in Parties \ {t} : setTh'[u] = setTh[u]
  BY <1>1, SettingsValues DEF CallStates
<1>4. changes' \in 0..MaxAdmin BY <1>1, SettingsValues, AdminAssumption
<1>5. \A k \in hand \ managed' : setFile[k] = "hand" BY <1>1 DEF SettingsInv, E!HandKeysStay
<1>6. /\ store.proj \subseteq managed /\ setMem.env \subseteq managed /\ setMem.proj \subseteq managed
      /\ setTh[t].written \subseteq managed
  BY DEF SettingsInv
<1> QED BY <1>1, <1>2, <1>3, <1>4, <1>5, <1>6, SettingsValues, CallSteps

LEMMA ReloadKeeps == ASSUME SettingsInv, NEW t \in Parties, E!Reload(t) PROVE SettingsInv'
<1>1. /\ setMem' = store /\ setTh' = [setTh EXCEPT ![t].pc = "project"]
      /\ changes' = changes \/ (changes < MaxAdmin /\ changes' = changes + 1)
      /\ UNCHANGED <<setFile, store, layer, hand, managed, crashes>>
  BY DEF E!Reload, E!Go, E!At
<1>2. /\ setTh' \in [Parties -> CallStates] /\ setTh'[t].pc = "project" /\ setTh'[t].written = setTh[t].written
      /\ \A u \in Parties \ {t} : setTh'[u] = setTh[u]
  BY <1>1, SettingsValues DEF CallStates
<1>3. changes' \in 0..MaxAdmin BY <1>1, SettingsValues, AdminAssumption
<1>4. /\ \A k \in hand \ managed : setFile[k] = "hand"
      /\ store.env \subseteq managed /\ store.proj \subseteq managed /\ setTh[t].written \subseteq managed
  BY DEF SettingsInv, E!HandKeysStay
<1> QED BY <1>1, <1>2, <1>3, <1>4, SettingsValues, CallSteps

LEMMA ReadSettingsKeeps ==
    ASSUME SettingsInv, NEW t \in Parties, NEW ok \in BOOLEAN, E!ReadSettings(t, ok) PROVE SettingsInv'
<1> DEFINE s == IF ok THEN [setTh[t] EXCEPT !.pc = "write", !.cur = setFile] ELSE E!Idle
<1>1. /\ setTh' = [setTh EXCEPT ![t] = s]
      /\ UNCHANGED <<setFile, store, setMem, layer, hand, managed, changes, crashes>>
  BY SettingsValues DEF E!ReadSettings
<1>2. s \in CallStates /\ s.written \subseteq managed /\ (s.pc = "write" => s.cur = setFile)
  <2>1. setTh[t] \in CallStates /\ setTh[t].written \subseteq managed BY SettingsValues DEF SettingsInv
  <2>2. \A c \in CallStates : /\ [c EXCEPT !.pc = "write", !.cur = setFile] \in CallStates
                              /\ [c EXCEPT !.pc = "write", !.cur = setFile].written = c.written
                              /\ [c EXCEPT !.pc = "write", !.cur = setFile].cur = setFile
    BY SettingsValues DEF CallStates
  <2>3. E!Idle \in CallStates /\ E!Idle.pc = "idle" /\ E!Idle.written = {} BY DEF E!Idle, CallStates
  <2> QED BY <2>1, <2>2, <2>3
<1> HIDE DEF s
<1>3. /\ setTh' \in [Parties -> CallStates] /\ setTh'[t] = s /\ \A u \in Parties \ {t} : setTh'[u] = setTh[u]
  BY <1>1, <1>2, SettingsValues
<1>4. /\ \A k \in hand \ managed : setFile[k] = "hand"
      /\ store.env \subseteq managed /\ store.proj \subseteq managed
      /\ setMem.env \subseteq managed /\ setMem.proj \subseteq managed
  BY DEF SettingsInv, E!HandKeysStay
<1> QED BY <1>1, <1>2, <1>3, <1>4, SettingsValues, CallSteps

\* A key the gateway never managed is written as it was read.
LEMMA WriteSettingsKeeps ==
    ASSUME SettingsInv, NEW t \in Parties, NEW ok \in BOOLEAN, E!WriteSettings(t, ok) PROVE SettingsInv'
<1> DEFINE s == IF ok THEN [setTh[t] EXCEPT !.pc = "remember", !.written = E!Effective] ELSE E!Idle
<1>1. /\ setTh[t].pc = "write" /\ setTh' = [setTh EXCEPT ![t] = s]
      /\ setFile' = IF ok THEN [k \in Members |-> IF k \in E!Effective THEN "gw" ELSE E!Kept(t, k)] ELSE setFile
      /\ UNCHANGED <<store, setMem, layer, hand, managed, changes, crashes>>
  BY SettingsValues DEF E!WriteSettings, E!At
<1>2. E!Effective \subseteq managed /\ E!Effective \subseteq Members
  BY SettingsValues DEF E!Effective, SettingsInv
<1>3. s \in CallStates /\ s.written \subseteq managed /\ s.pc # "write"
  <2>1. setTh[t] \in CallStates BY SettingsValues
  <2>2. \A c \in CallStates : \A K \in SUBSET Members :
           /\ [c EXCEPT !.pc = "remember", !.written = K] \in CallStates
           /\ [c EXCEPT !.pc = "remember", !.written = K].written = K
           /\ [c EXCEPT !.pc = "remember", !.written = K].pc = "remember"
    BY DEF CallStates
  <2>3. E!Idle \in CallStates /\ E!Idle.pc = "idle" /\ E!Idle.written = {} BY DEF E!Idle, CallStates
  <2> QED BY <1>2, <2>1, <2>2, <2>3
<1> HIDE DEF s
<1>4. /\ setTh' \in [Parties -> CallStates] /\ setTh'[t] = s /\ \A u \in Parties \ {t} : setTh'[u] = setTh[u]
  BY <1>1, <1>3, SettingsValues
<1>5. setFile' \in [Members -> {"none", "hand", "gw"}]
  BY <1>1, SettingsValues DEF E!Kept, CallStates
<1>6. \A k \in hand \ managed : setFile'[k] = "hand"
  BY <1>1, <1>2, SettingsValues DEF E!Kept, SettingsInv, E!HandKeysStay
<1>7. /\ store.env \subseteq managed /\ store.proj \subseteq managed
      /\ setMem.env \subseteq managed /\ setMem.proj \subseteq managed
  BY DEF SettingsInv
<1> QED BY <1>1, <1>3, <1>4, <1>5, <1>6, <1>7, SettingsValues, CallSteps

LEMMA RememberKeeps == ASSUME SettingsInv, NEW t \in Parties, E!Remember(t) PROVE SettingsInv'
<1>1. /\ store' = [store EXCEPT !.proj = setTh[t].written]
      /\ setMem' = [setMem EXCEPT !.proj = setTh[t].written]
      /\ setTh' = [setTh EXCEPT ![t] = E!Idle]
      /\ UNCHANGED <<setFile, layer, hand, managed, changes, crashes>>
  BY DEF E!Remember
<1>2. setTh[t].written \subseteq managed /\ setTh[t].written \subseteq Members
  BY SettingsValues DEF SettingsInv, CallStates
<1>3. /\ store' \in Projections /\ store'.env = store.env /\ store'.proj = setTh[t].written
      /\ setMem' \in Projections /\ setMem'.env = setMem.env /\ setMem'.proj = setTh[t].written
  BY <1>1, <1>2, SettingsValues DEF Projections
<1>4. E!Idle \in CallStates /\ E!Idle.pc = "idle" /\ E!Idle.written = {} BY DEF E!Idle, CallStates
<1>5. /\ setTh' \in [Parties -> CallStates] /\ setTh'[t] = E!Idle
      /\ \A u \in Parties \ {t} : setTh'[u] = setTh[u]
  BY <1>1, <1>4, SettingsValues
<1>6. /\ \A k \in hand \ managed : setFile[k] = "hand"
      /\ store.env \subseteq managed /\ setMem.env \subseteq managed
  BY DEF SettingsInv, E!HandKeysStay
<1> QED BY <1>1, <1>2, <1>3, <1>4, <1>5, <1>6, SettingsValues, CallSteps

\* After a restart no call is under way but the projection of the startup.
LEMMA RestartKeeps ==
    ASSUME SettingsInv, NEW S \in SUBSET Members, E!Restart(S) PROVE SettingsInv'
<1>1. /\ crashes < MaxCrash /\ crashes' = crashes + 1
      /\ layer' = S /\ setMem' = store /\ managed' = managed \cup S
      /\ UNCHANGED <<setFile, store, hand, changes>>
  BY DEF E!Restart
<1>2. setTh' \in [Parties -> {E!Idle, [E!Idle EXCEPT !.pc = "project"]}] BY DEF E!Restart
<1>3. \A s \in {E!Idle, [E!Idle EXCEPT !.pc = "project"]} : s \in CallStates /\ s.pc # "write" /\ s.written = {}
  BY DEF E!Idle, CallStates
<1>4. \A u \in Parties : setTh'[u] \in CallStates /\ setTh'[u].pc # "write" /\ setTh'[u].written = {}
  BY <1>2, <1>3
<1>5. setTh' \in [Parties -> CallStates] BY <1>2, <1>3
<1>6. crashes' \in 0..MaxCrash BY <1>1, SettingsValues, AdminAssumption
<1>7. E!SettingsTypes' BY <1>1, <1>5, <1>6, SettingsValues DEF E!SettingsTypes, Projections, CallStates
<1>8. E!HandKeysStay' BY <1>1 DEF SettingsInv, E!HandKeysStay
<1> QED BY <1>1, <1>4, <1>7, <1>8 DEF SettingsInv

LEMMA HandEditKeeps == ASSUME SettingsInv, NEW k \in Members, E!HandEdit(k) PROVE SettingsInv'
<1>1. /\ \A t \in Parties : setTh[t].pc = "idle"
      /\ changes < MaxAdmin /\ changes' = changes + 1
      /\ UNCHANGED <<store, setMem, layer, setTh, managed, crashes>>
  BY DEF E!HandEdit, E!Quiet, E!At
<1>2. \/ setFile' = [setFile EXCEPT ![k] = "hand"] /\ hand' = hand \cup {k}
      \/ setFile' = [setFile EXCEPT ![k] = "none"] /\ hand' = hand \ {k}
  BY DEF E!HandEdit
<1>3. changes' \in 0..MaxAdmin BY <1>1, SettingsValues, AdminAssumption
<1>4. E!SettingsTypes' BY <1>1, <1>2, <1>3, SettingsValues DEF E!SettingsTypes, Projections, CallStates
<1>5. E!HandKeysStay' BY <1>1, <1>2, SettingsValues DEF SettingsInv, E!HandKeysStay
<1> QED BY <1>1, <1>4, <1>5 DEF SettingsInv

LEMMA SettingsStep == ASSUME SettingsInv, E!SettingsNext PROVE SettingsInv'
  BY ReplaceKeeps, ReloadKeeps, ReadSettingsKeeps, WriteSettingsKeeps, RememberKeeps, RestartKeeps,
     HandEditKeeps
  DEF E!SettingsNext

LEMMA SettingsStutter ==
    ASSUME SettingsInv, UNCHANGED <<setFile, store, setMem, layer, setTh, hand, managed, changes, crashes>>
    PROVE  SettingsInv'
  BY DEF SettingsInv, E!SettingsTypes, E!HandKeysStay

-----------------------------------------------------------------------------
(* The overlays of AdminLayers.                                            *)

disk == x10
loaded == x11
envLayer == x12
plugins == x13
gateway == x14
ov == x15
given == x16
edits == x17

USE DEF disk, loaded, envLayer, plugins, gateway, ov, given, edits

OverlayInv == E!OverlayTypes /\ disk = given

OverlayCalls == [pc : {"idle", "reload", "bind"}, data : E!Overlays]

LEMMA OverlayInit == E!OverlayInit => OverlayInv
<1> SUFFICES ASSUME E!OverlayInit PROVE OverlayInv OBVIOUS
<1> USE AdminAssumption
<1>1. E!NoOverlay \in E!Overlays BY DEF E!NoOverlay, E!Overlays
<1>2. envLayer \in E!Overlays BY DEF E!OverlayInit, E!Overlays, E!OverlayKeys
<1>3. plugins \in [Servers -> {"none", "first", "second"}] BY DEF E!OverlayInit
<1> QED BY <1>1, <1>2, <1>3 DEF E!OverlayInit, OverlayInv, E!OverlayTypes

LEMMA OverlayStep == ASSUME OverlayInv, E!OverlayNext PROVE OverlayInv'
<1> USE AdminAssumption DEF OverlayInv
<1>0. ov \in [Parties -> OverlayCalls] BY DEF E!OverlayTypes, OverlayCalls
<1>1. ASSUME NEW t \in Parties, NEW n \in Servers, NEW K \in SUBSET E!OverlayKeys, E!Upsert(t, n, K)
      PROVE  OverlayInv'
  <2>1. disk' = given' /\ disk' \in E!Overlays BY <1>1 DEF E!Upsert, E!Loaded, E!OverlayTypes, E!Overlays
  <2>2. ov' \in [Parties -> OverlayCalls] BY <1>0, <1>1 DEF E!Upsert, OverlayCalls
  <2>3. edits' \in 0..MaxEdit BY <1>1 DEF E!Upsert, E!OverlayTypes
  <2> QED BY <1>1, <2>1, <2>2, <2>3 DEF E!Upsert, E!OverlayTypes, OverlayCalls
<1>2. ASSUME NEW t \in Parties, E!ReloadOverlays(t) PROVE OverlayInv'
  BY <1>2 DEF E!ReloadOverlays, E!OverlayTypes
<1>3. ASSUME NEW t \in Parties, E!Bind(t) PROVE OverlayInv'
  <2>1. ov' \in [Parties -> OverlayCalls] /\ loaded' \in E!Overlays BY <1>0, <1>3 DEF E!Bind, OverlayCalls
  <2> QED BY <1>3, <2>1 DEF E!Bind, E!OverlayTypes, OverlayCalls
<1>4. ASSUME NEW n \in Servers, NEW w \in {"none", "first", "second"}, E!Installs(n, w) PROVE OverlayInv'
  BY <1>4 DEF E!Installs, E!OverlayTypes
<1> QED BY <1>1, <1>2, <1>3, <1>4 DEF E!OverlayNext

LEMMA OverlayStutter ==
    ASSUME OverlayInv, UNCHANGED <<disk, loaded, envLayer, plugins, gateway, ov, given, edits>>
    PROVE  OverlayInv'
  BY DEF OverlayInv, E!OverlayTypes

\* What a session gets of a server follows from the copy it is merged from.
LEMMA OverlayReaches == OverlayInv => E!OverlayIsKept /\ E!ProbeIsSession
<1> SUFFICES ASSUME OverlayInv PROVE E!OverlayIsKept /\ E!ProbeIsSession OBVIOUS
<1>1. ASSUME loaded = disk, NEW n \in Servers, given[n] # {}, plugins[n] # "none" \/ n \in gateway,
             NEW k \in given[n]
      PROVE  E!Session(n).creds[k] = "file"
  <2>1. loaded[n] = given[n] BY <1>1 DEF OverlayInv
  <2>2. E!EffectiveOverlay(n)[k] = "file" BY <1>1, <2>1 DEF E!EffectiveOverlay
  <2>3. E!Session(n) \in {E!Merged(plugins[n], E!EffectiveOverlay(n)),
                          E!Merged("gateway", E!EffectiveOverlay(n))}
    BY <1>1, <2>1 DEF E!Session
  <2>4. E!Session(n).creds = E!EffectiveOverlay(n) BY <2>3 DEF E!Merged
  <2> QED BY <2>2, <2>4
<1>2. E!ProbeIsSession BY DEF E!ProbeIsSession, E!Probe, E!Session
<1>3. \A n \in Servers : given[n] # {} /\ (plugins[n] # "none" \/ n \in gateway) /\ loaded = disk =>
         \A k \in given[n] : E!Session(n).creds[k] = "file"
  BY <1>1
<1>4. E!OverlayIsKept
  <2>1. disk = given BY DEF OverlayInv
  <2>2. SUFFICES ASSUME loaded = disk
                 PROVE  \A n \in Servers : given[n] # {} /\ (plugins[n] # "none" \/ n \in gateway) =>
                           \A k \in given[n] : E!Session(n).creds[k] = "file"
    BY <2>1 DEF E!OverlayIsKept
  <2> QED BY <1>3, <2>2
<1> QED BY <1>2, <1>4

-----------------------------------------------------------------------------
(* The prompts of PromptLibrary.                                           *)

lib == x1
live == x2
promptDisk == x3
seen == x4
deleting == x5
cut == x6
texts == x7
faults == x8

USE DEF lib, live, promptDisk, seen, deleting, cut, texts, faults

PromptVersions == [text : 1..MaxText, saw : 0..MaxText]
Overrides == [name : Servers \cup {None}, ver : Nat, text : 0..MaxText]

PromptTypes ==
    /\ lib \in [Servers -> Seq(PromptVersions)] /\ live \in Overrides
    /\ seen \in [Parties -> Overrides]
    /\ deleting \in Servers \cup {None} /\ cut \subseteq Servers
    /\ texts \in 0..MaxText /\ faults \in 0..MaxFault

\* What a restart reads is what is live, or was torn when it was written.
PromptInv == PromptTypes /\ L!LiveIsItsVersion /\ promptDisk \in {live, L!Torn}

LEMMA PromptTypesImply == PromptTypes => L!TypeOK
<1> SUFFICES ASSUME PromptTypes PROVE L!TypeOK OBVIOUS
<1>1. ASSUME NEW n \in Servers, NEW i \in DOMAIN lib[n]
      PROVE  lib[n][i].text \in 1..MaxText /\ lib[n][i].saw \in 0..MaxText
  <2>1. lib[n] \in Seq(PromptVersions) BY DEF PromptTypes
  <2>2. lib[n][i] \in PromptVersions BY <1>1, <2>1, ElementOfSeq, LenProperties
  <2> QED BY <2>2 DEF PromptVersions
<1> QED BY <1>1 DEF L!TypeOK, PromptTypes, Overrides

\* The overrides that are no version's, and those that are.
LEMMA OverrideValues ==
    /\ L!Default \in Overrides /\ L!Default.name = None /\ L!NotSeen \in Overrides
    /\ \A x \in 0..MaxText : /\ [L!Default EXCEPT !.text = x] \in Overrides
                             /\ [L!Default EXCEPT !.text = x].name = None
    /\ \A n \in Servers : \A i \in Nat : \A x \in 0..MaxText :
          [name |-> n, ver |-> i, text |-> x] \in Overrides
  BY PromptAssumption DEF L!Default, L!NotSeen, Overrides

LEMMA PromptsInit == L!Init => PromptInv
<1> SUFFICES ASSUME L!Init PROVE PromptInv OBVIOUS
<1> USE PromptAssumption
<1>1. /\ lib = [n \in Servers |-> <<>>] /\ live = L!Default /\ promptDisk = L!Default
      /\ seen = [a \in Parties |-> L!NotSeen] /\ deleting = None /\ cut = {} /\ texts = 0 /\ faults = 0
  BY DEF L!Init
<1>2. PromptTypes BY <1>1, EmptySeq, OverrideValues DEF PromptTypes
<1>3. L!LiveIsItsVersion BY <1>1, OverrideValues DEF L!LiveIsItsVersion
<1> QED BY <1>1, <1>2, <1>3 DEF PromptInv

\* The library changes under a live prompt: nothing is taken from its history,
\* or it is taken from a prompt that is not live.
LEMMA LibraryChanges ==
    ASSUME PromptInv, NEW n \in Servers, NEW h \in Seq(PromptVersions), lib' = [lib EXCEPT ![n] = h],
           \/ live.name # n
           \/ deleting' = n
           \/ \A i \in DOMAIN lib[n] : i \in DOMAIN h /\ h[i] = lib[n][i],
           texts' \in 0..MaxText, faults' \in 0..MaxFault, deleting' \in Servers \cup {None},
           deleting' = deleting \/ deleting = None, UNCHANGED <<live, promptDisk, seen, cut>>
    PROVE  PromptInv'
<1> USE PromptAssumption
<1>1. lib'[n] = h /\ \A m \in Servers \ {n} : lib'[m] = lib[m] BY DEF PromptInv, PromptTypes
<1>2. PromptTypes' BY DEF PromptInv, PromptTypes
<1>3. L!LiveIsItsVersion'
  <2> SUFFICES ASSUME live.name # None, live.name \notin cut, deleting' # live.name
               PROVE  live.ver \in DOMAIN lib'[live.name] /\ lib'[live.name][live.ver].text = live.text
    BY DEF L!LiveIsItsVersion
  <2>1. live.name \in Servers BY DEF PromptInv, PromptTypes, Overrides
  <2>2. live.ver \in DOMAIN lib[live.name] /\ lib[live.name][live.ver].text = live.text
    BY DEF PromptInv, L!LiveIsItsVersion
  <2> QED BY <1>1, <2>1, <2>2
<1> QED BY <1>2, <1>3 DEF PromptInv, L!Torn, L!Default

\* Another override is published.
LEMMA PublishKeeps ==
    ASSUME PromptInv, NEW l \in Overrides, L!Publish(l), lib' \in [Servers -> Seq(PromptVersions)],
           l.name # None => l.ver \in DOMAIN lib'[l.name] /\ lib'[l.name][l.ver].text = l.text,
           texts' \in 0..MaxText, faults' \in 0..MaxFault, deleting' \in Servers \cup {None},
           UNCHANGED <<seen, cut>>
    PROVE  PromptInv'
<1>1. live' = l /\ promptDisk' = l BY DEF L!Publish
<1>2. PromptTypes' BY <1>1 DEF PromptInv, PromptTypes
<1>3. L!LiveIsItsVersion' BY <1>1 DEF L!LiveIsItsVersion
<1> QED BY <1>1, <1>2, <1>3 DEF PromptInv

\* The override is what it was, or none, and the library as it was.
LEMMA LiveStays ==
    ASSUME PromptInv, live' \in {live, L!Default}, promptDisk' \in {live', L!Torn},
           seen' \in [Parties -> Overrides], deleting' \in Servers \cup {None},
           cut \subseteq cut', cut' \subseteq Servers,
           deleting # None => deleting' = deleting \/ deleting \in cut',
           texts' \in 0..MaxText, faults' \in 0..MaxFault, UNCHANGED lib
    PROVE  PromptInv'
<1>1. PromptTypes' BY OverrideValues DEF PromptInv, PromptTypes
<1>2. L!LiveIsItsVersion' BY OverrideValues DEF PromptInv, L!LiveIsItsVersion
<1> QED BY <1>1, <1>2 DEF PromptInv, L!Torn, L!Default

\* What the types say of a version and of a count.
LEMMA PromptValues == ASSUME PromptTypes
    PROVE  /\ \A n \in Servers : /\ lib[n] \in Seq(PromptVersions)
                                 /\ DOMAIN lib[n] = 1..Len(lib[n]) /\ Len(lib[n]) \in Nat
                                 /\ \A i \in DOMAIN lib[n] : /\ lib[n][i] \in PromptVersions /\ i \in Nat
                                                             /\ lib[n][i].text \in 0..MaxText
           /\ texts \in 0..MaxText /\ texts \in Nat /\ faults \in 0..MaxFault /\ faults \in Nat
           /\ L!Fresh => texts' \in 1..MaxText /\ texts' \in 0..MaxText
           /\ faults < MaxFault /\ faults' = faults + 1 => faults' \in 0..MaxFault
<1> USE PromptAssumption
<1>1. ASSUME NEW n \in Servers PROVE lib[n] \in Seq(PromptVersions) BY DEF PromptTypes
<1>2. ASSUME NEW n \in Servers
      PROVE  /\ DOMAIN lib[n] = 1..Len(lib[n]) /\ Len(lib[n]) \in Nat
             /\ \A i \in DOMAIN lib[n] : lib[n][i] \in PromptVersions /\ i \in Nat
  BY <1>1, <1>2, ElementOfSeq, LenProperties
<1>3. \A v \in PromptVersions : v.text \in 0..MaxText BY DEF PromptVersions
<1> QED BY <1>1, <1>2, <1>3 DEF PromptTypes, L!Fresh

LEMMA CreateKeeps == ASSUME PromptInv, NEW n \in Servers, L!Create(n) PROVE PromptInv'
<1> DEFINE h == <<[text |-> texts', saw |-> 0]>>
<1>1. /\ deleting = None /\ lib[n] = <<>> /\ lib' = [lib EXCEPT ![n] = h] /\ L!Fresh
      /\ UNCHANGED <<live, promptDisk, seen, deleting, cut, faults>>
  BY DEF L!Create, L!Free
<1>2. PromptTypes BY DEF PromptInv
<1>3. [text |-> texts', saw |-> 0] \in PromptVersions
  BY <1>1, <1>2, PromptValues, PromptAssumption DEF PromptVersions
<1>4. h \in Seq(PromptVersions) BY <1>3
<1> HIDE DEF h
<1>5. DOMAIN lib[n] = {} BY <1>1, EmptySeq
<1> QED BY <1>1, <1>2, <1>4, <1>5, PromptValues, LibraryChanges DEF PromptTypes

LEMMA CommitKeeps == ASSUME PromptInv, NEW a \in Parties, NEW b \in BOOLEAN, L!Commit(a, b) PROVE PromptInv'
<1> DEFINE n == seen[a].name
           v == [text |-> texts', saw |-> IF b THEN seen[a].text ELSE 0]
           h == Append(lib[n], v)
<1>1. PromptTypes /\ seen[a] \in Overrides BY DEF PromptInv, PromptTypes
<1>2. n \in Servers /\ seen[a].text \in 0..MaxText BY <1>1 DEF L!Commit, Overrides
<1>3. /\ deleting = None /\ lib' = [lib EXCEPT ![n] = h] /\ L!Fresh
      /\ UNCHANGED <<live, promptDisk, seen, deleting, cut, faults>>
  BY <1>1, <1>2 DEF L!Commit, L!Free, PromptTypes
<1>4. v \in PromptVersions BY <1>1, <1>2, <1>3, PromptValues, PromptAssumption DEF PromptVersions
<1> HIDE DEF v, n
<1>5. /\ h \in Seq(PromptVersions) /\ \A i \in DOMAIN lib[n] : i \in DOMAIN h /\ h[i] = lib[n][i]
  <2>1. lib[n] \in Seq(PromptVersions) /\ DOMAIN lib[n] = 1..Len(lib[n]) /\ Len(lib[n]) \in Nat
    BY <1>1, <1>2, PromptValues DEF n
  <2>2. /\ h \in Seq(PromptVersions) /\ Len(h) = Len(lib[n]) + 1
        /\ \A i \in 1..Len(lib[n]) : h[i] = lib[n][i]
    BY <1>4, <2>1, AppendProperties
  <2>3. DOMAIN h = 1..(Len(lib[n]) + 1) BY <2>2, LenProperties
  <2> HIDE DEF h
  <2> QED BY <2>1, <2>2, <2>3
<1> HIDE DEF h
<1>6. n \in Servers BY <1>2 DEF n
<1> QED BY <1>1, <1>3, <1>5, <1>6, PromptValues, LibraryChanges DEF PromptTypes

LEMMA OpenKeeps == ASSUME PromptInv, NEW a \in Parties, NEW n \in Servers, L!Open(a, n) PROVE PromptInv'
<1> DEFINE o == [name |-> n, ver |-> Len(lib[n]), text |-> L!Latest(n).text]
<1>1. /\ lib[n] # <<>> /\ seen' = [seen EXCEPT ![a] = o]
      /\ UNCHANGED <<lib, live, promptDisk, deleting, cut, texts, faults>>
  BY DEF L!Open
<1>2. PromptTypes BY DEF PromptInv
<1>3. Len(lib[n]) \in DOMAIN lib[n]
  <2>1. lib[n] \in Seq(PromptVersions) BY <1>2, PromptValues
  <2>2. Len(lib[n]) # 0 BY <1>1, <2>1, EmptySeq
  <2> QED BY <1>2, <2>2, PromptValues
<1>4. o \in Overrides BY <1>2, <1>3, PromptValues, OverrideValues DEF L!Latest
<1> HIDE DEF o
<1>5. seen' \in [Parties -> Overrides] BY <1>1, <1>2, <1>4 DEF PromptTypes
<1> QED BY <1>1, <1>2, <1>5, LiveStays DEF PromptInv, PromptTypes

LEMMA DeleteKeeps == ASSUME PromptInv, NEW n \in Servers, L!Delete(n) \/ L!Unlink(n) PROVE PromptInv'
<1>1. <<>> \in Seq(PromptVersions) BY EmptySeq
<1>2. PromptTypes BY DEF PromptInv
<1>3. /\ deleting = None /\ lib' = [lib EXCEPT ![n] = <<>>]
      /\ UNCHANGED <<live, promptDisk, seen, cut, texts, faults>>
      /\ (live.name # n /\ deleting' = None) \/ deleting' = n
  BY DEF L!Delete, L!Unlink, L!Free
<1> QED BY <1>1, <1>2, <1>3, LibraryChanges DEF PromptTypes

LEMMA DeployKeeps == ASSUME PromptInv, NEW n \in Servers, NEW i \in 1..MaxText, L!Deploy(n, i) PROVE PromptInv'
<1> DEFINE l == [name |-> n, ver |-> i, text |-> lib[n][i].text]
<1>1. i \in DOMAIN lib[n] /\ L!Publish(l) /\ UNCHANGED <<lib, seen, deleting, cut, texts, faults>>
  BY DEF L!Deploy
<1>2. PromptTypes BY DEF PromptInv
<1>3. l \in Overrides BY <1>1, <1>2, PromptValues, OverrideValues
<1>4. l.name = n /\ l.ver = i /\ l.text = lib[n][i].text OBVIOUS
<1> HIDE DEF l
<1> QED BY <1>1, <1>2, <1>3, <1>4, PublishKeeps DEF PromptTypes

\* The live override becomes none, or a text that no version backs.
LEMMA UnnamedKeeps ==
    ASSUME PromptInv, L!ResetDeleted \/ L!Reset \/ L!DirectEdit PROVE PromptInv'
<1>1. PromptTypes BY DEF PromptInv
<1>2. CASE L!ResetDeleted \/ L!Reset
  <2>1. /\ L!Publish(L!Default) /\ deleting' \in {None, deleting} /\ UNCHANGED <<lib, seen, cut, texts, faults>>
    BY <1>2 DEF L!ResetDeleted, L!Reset
  <2> QED BY <1>1, <2>1, OverrideValues, PublishKeeps DEF PromptTypes
<1>3. CASE L!DirectEdit
  <2> DEFINE l == [L!Default EXCEPT !.text = texts']
  <2>1. L!Publish(l) /\ L!Fresh /\ UNCHANGED <<lib, seen, deleting, cut, faults>> BY <1>3 DEF L!DirectEdit
  <2>2. l \in Overrides /\ l.name = None /\ texts' \in 0..MaxText BY <1>1, <2>1, PromptValues, OverrideValues
  <2> HIDE DEF l
  <2> QED BY <1>1, <2>1, <2>2, PublishKeeps DEF PromptTypes
<1> QED BY <1>2, <1>3

LEMMA ImportKeeps ==
    ASSUME PromptInv, NEW n \in Servers, NEW ok \in BOOLEAN, L!ImportLive(n, ok) PROVE PromptInv'
<1> DEFINE v == [text |-> live.text, saw |-> 0]
           h == <<v>>
           l == [name |-> n, ver |-> 1, text |-> live.text]
<1>1. PromptTypes /\ live \in Overrides BY DEF PromptInv, PromptTypes
<1>2. /\ deleting = None /\ live.text # 0 /\ lib[n] = <<>> /\ lib' = [lib EXCEPT ![n] = h]
      /\ UNCHANGED <<seen, deleting, cut, texts>>
  BY DEF L!ImportLive, L!Free
<1>3. live.text \in 0..MaxText /\ v \in PromptVersions
  BY <1>1, <1>2, PromptAssumption DEF Overrides, PromptVersions
<1>4. v.text = live.text /\ l \in Overrides /\ l.name = n /\ l.ver = 1 /\ l.text = live.text
  BY <1>3, OverrideValues
<1> HIDE DEF v, l
<1>5. h \in Seq(PromptVersions) /\ 1 \in DOMAIN h /\ h[1] = v BY <1>3
<1> HIDE DEF h
<1>6. CASE ok
  <2>1. L!Publish(l) /\ UNCHANGED faults BY <1>6 DEF L!ImportLive, l
  <2>2. lib' \in [Servers -> Seq(PromptVersions)] /\ lib'[n] = h BY <1>1, <1>2, <1>5 DEF PromptTypes
  <2> QED BY <1>1, <1>2, <1>4, <1>5, <2>1, <2>2, PublishKeeps DEF PromptTypes
<1>7. CASE ~ok
  <2>1. faults < MaxFault /\ faults' = faults + 1 /\ UNCHANGED <<live, promptDisk>> BY <1>7 DEF L!ImportLive
  <2>2. DOMAIN lib[n] = {} BY <1>2, EmptySeq
  <2> QED BY <1>1, <1>2, <1>5, <2>1, <2>2, PromptValues, LibraryChanges DEF PromptTypes
<1> QED BY <1>6, <1>7

LEMMA FaultKeeps ==
    ASSUME PromptInv, L!ResetDeletedFails \/ L!Restart \/ \E dies \in BOOLEAN : L!PublishFails(dies)
    PROVE  PromptInv'
<1>1. PromptTypes /\ promptDisk \in {live, L!Torn} BY DEF PromptInv
<1>2. CASE L!ResetDeletedFails
  BY <1>1, <1>2, PromptValues, LiveStays DEF L!ResetDeletedFails, PromptTypes
<1>3. CASE L!Restart
  <2>1. live' \in {live, L!Default} /\ promptDisk' \in {live', L!Torn} BY <1>1, <1>3 DEF L!Restart
  <2> QED BY <1>1, <1>3, <2>1, PromptValues, LiveStays DEF L!Restart, PromptTypes
<1>4. CASE \E dies \in BOOLEAN : L!PublishFails(dies)
  <2>1. PICK dies \in BOOLEAN : L!PublishFails(dies) BY <1>4
  <2>2. seen' \in [Parties -> Overrides] BY <1>1, <2>1, OverrideValues DEF L!PublishFails, PromptTypes
  <2> QED BY <1>1, <2>1, <2>2, PromptValues, LiveStays DEF L!PublishFails, PromptTypes
<1> QED BY <1>2, <1>3, <1>4

LEMMA PromptsStep == ASSUME PromptInv, L!Next PROVE PromptInv'
  BY CreateKeeps, CommitKeeps, OpenKeeps, DeleteKeeps, DeployKeeps, UnnamedKeeps, ImportKeeps, FaultKeeps
  DEF L!Next

LEMMA PromptsStutter ==
    ASSUME PromptInv, UNCHANGED <<lib, live, promptDisk, seen, deleting, cut, texts, faults>> PROVE PromptInv'
  BY DEF PromptInv, PromptTypes, L!LiveIsItsVersion

\* A prompt's history grows, until the prompt goes.
LEMMA HistoryGrows ==
    ASSUME PromptTypes, NEW n \in Servers, NEW h, lib' = [lib EXCEPT ![n] = h],
           h = <<>> \/ \A i \in DOMAIN lib[n] : i \in DOMAIN h /\ h[i] = lib[n][i]
    PROVE  L!AppendsOnly
<1>1. lib'[n] = h /\ \A m \in Servers : m # n => lib'[m] = lib[m] BY DEF PromptTypes
<1> QED BY <1>1 DEF L!AppendsOnly

LEMMA PromptsAppend == ASSUME PromptInv, L!Next PROVE L!AppendsOnly
<1>1. PromptTypes BY DEF PromptInv
<1>2. CASE \E n \in Servers : L!Create(n) \/ \E ok \in BOOLEAN : L!ImportLive(n, ok)
  <2>1. PICK n \in Servers, t \in {texts', live.text} :
          lib[n] = <<>> /\ lib' = [lib EXCEPT ![n] = <<[text |-> t, saw |-> 0]>>]
    BY <1>2 DEF L!Create, L!ImportLive
  <2>2. DOMAIN lib[n] = {} BY <2>1, EmptySeq
  <2> QED BY <1>1, <2>1, <2>2, HistoryGrows
<1>3. CASE \E n \in Servers : L!Delete(n) \/ L!Unlink(n)
  BY <1>1, <1>3, HistoryGrows DEF L!Delete, L!Unlink
<1>4. CASE \E a \in Parties, b \in BOOLEAN : L!Commit(a, b)
  <2>1. PICK a \in Parties, b \in BOOLEAN : L!Commit(a, b) BY <1>4
  <2> DEFINE n == seen[a].name
             v == [text |-> texts', saw |-> IF b THEN seen[a].text ELSE 0]
             h == Append(lib[n], v)
  <2>2. seen[a] \in Overrides BY <1>1, <2>1 DEF PromptTypes
  <2>3. n \in Servers /\ seen[a].text \in 0..MaxText BY <2>1, <2>2 DEF L!Commit, Overrides
  <2>4. lib' = [lib EXCEPT ![n] = h] /\ L!Fresh BY <1>1, <2>1, <2>3 DEF L!Commit, PromptTypes
  <2>5. v \in PromptVersions BY <1>1, <2>3, <2>4, PromptValues, PromptAssumption DEF PromptVersions
  <2> HIDE DEF v, n
  <2>6. \A i \in DOMAIN lib[n] : i \in DOMAIN h /\ h[i] = lib[n][i]
    <3>1. lib[n] \in Seq(PromptVersions) /\ DOMAIN lib[n] = 1..Len(lib[n]) /\ Len(lib[n]) \in Nat
      BY <1>1, <2>3, PromptValues DEF n
    <3>2. /\ h \in Seq(PromptVersions) /\ Len(h) = Len(lib[n]) + 1
          /\ \A i \in 1..Len(lib[n]) : h[i] = lib[n][i]
      BY <2>5, <3>1, AppendProperties
    <3>3. DOMAIN h = 1..(Len(lib[n]) + 1) BY <3>2, LenProperties
    <3> HIDE DEF h
    <3> QED BY <3>1, <3>2, <3>3
  <2> HIDE DEF h
  <2>7. n \in Servers BY <2>3 DEF n
  <2> QED BY <1>1, <2>4, <2>6, <2>7, HistoryGrows
<1>5. CASE UNCHANGED lib BY <1>5 DEF L!AppendsOnly
<1> QED BY <1>2, <1>3, <1>4, <1>5
  DEF L!Next, L!Open, L!Deploy, L!ResetDeleted, L!ResetDeletedFails, L!Reset, L!DirectEdit, L!Restart, L!PublishFails

-----------------------------------------------------------------------------
(* The walk of a cleanup (CleanupWalk).                                    *)

walkOp == x1
at == x2
keep == x3
stack == x4
looked == x5
walkState == x6
walkFails == x7
deeper == x8
removed == x9
inside == x10
agent == x11

USE DEF walkOp, at, keep, stack, looked, walkState, walkFails, deeper, removed, inside, agent

Frames == [dir : W!Dirs, name : W!Names \cup {None}, todo : SUBSET W!Names, listed : BOOLEAN]
Expires == walkOp \notin {"clear", "remove"}

\* An entry the selection does not spare, or all of it.
Free(n) == IF walkOp = "sweep" THEN n \notin keep ELSE W!Below(n) \cap keep = {}

WalkTypes ==
    /\ W!TypeOK
    /\ stack \in Seq(Frames) /\ Len(stack) >= 1 /\ stack[1].dir = "top"
    /\ looked \in [name : W!Names, node : W!Nodes] \cup {None}
    /\ \A j, k \in W!Nodes : at[j] # None /\ at[j] = at[k] => j = k
    /\ walkState = "done" => looked = None

\* The frames are below the target, and so is all that lies in what was.
InsideInv ==
    /\ \A i \in DOMAIN stack : i > 1 => stack[i].dir \in inside /\ stack[i].name \in W!Names
    /\ \A k \in W!Nodes : at[k] # None /\ at[k][1] \in inside \cup {"top"} => k \in inside
    /\ W!RemovesOnlyItsOwn

\* An operation that spares something meets nobody: the frames are a path, and
\* what lstat saw is still there.
PathInv ==
    IF ~Expires THEN keep = {}
    ELSE /\ agent = 0
         /\ \A i \in DOMAIN stack : i > 1 => at[stack[i].dir] = <<stack[i - 1].dir, stack[i].name>>
         /\ \A i, j \in DOMAIN stack : stack[i].dir = stack[j].dir => i = j
         /\ looked # None => at[looked.node] = <<stack[Len(stack)].dir, looked.name>>

\* Below the level at which it selects, it works on what it does not spare.
SparesInv ==
    Expires =>
      LET level == IF walkOp = "nested" THEN 2 ELSE 1 IN
      /\ \A i \in DOMAIN stack : i > level => Free(stack[i].dir)
      /\ looked # None => IF Len(stack) >= level THEN Free(looked.node) ELSE looked.node \in W!Dirs
      /\ walkOp = "sweep" => \A k \in keep : at[k] # None /\ at[k][1] = "top"

\* Nothing of a directory that was listed is forgotten.
NothingForgotten ==
    \A i \in DOMAIN stack : stack[i].listed => \A k \in W!In(stack[i].dir) :
        \/ at[k][2] \in stack[i].todo
        \/ i = Len(stack) /\ looked # None /\ looked.name = at[k][2]
        \/ i < Len(stack) /\ stack[i + 1].name = at[k][2]
EmptiesInv == walkFails = 0 /\ agent = 0 /\ ~Expires => NothingForgotten

WalkInv == WalkTypes /\ InsideInv /\ PathInv /\ SparesInv /\ EmptiesInv /\ W!CleanIsTrue

LEMMA WalkSets ==
    /\ "top" \in W!Dirs /\ "top" \notin W!Nodes /\ W!Nodes \cap W!Dirs = {"d1", "d2", "d3"}
    /\ None \notin W!Nodes /\ None \notin W!Names /\ None \notin W!Slots
    /\ None \notin [name : W!Names, node : W!Nodes]
    /\ {"x", "y", "m1", "m2"} = W!Names
<1>1. "top" \in W!Dirs /\ "top" \notin W!Nodes /\ W!Nodes \cap W!Dirs = {"d1", "d2", "d3"}
  BY DEF W!Dirs, W!Nodes
<1> QED BY <1>1, WalkAssumption DEF W!Names

\* A frame is a directory, a name and names.
LEMMA FrameFacts ==
    ASSUME WalkTypes
    PROVE  /\ Len(stack) \in Nat \ {0} /\ DOMAIN stack = 1..Len(stack) /\ stack[Len(stack)] \in Frames
           /\ \A i \in 1..Len(stack) : /\ stack[i] \in Frames /\ stack[i].dir \in W!Dirs
                                       /\ stack[i].name \in W!Names \cup {None}
                                       /\ stack[i].todo \subseteq W!Names /\ stack[i].listed \in BOOLEAN
           /\ looked # None => looked.name \in W!Names /\ looked.node \in W!Nodes
<1>1. /\ Len(stack) \in Nat \ {0} /\ DOMAIN stack = 1..Len(stack)
      /\ \A i \in 1..Len(stack) : stack[i] \in Frames
  BY DEF WalkTypes
<1>2. \A f \in Frames : /\ f.dir \in W!Dirs /\ f.name \in W!Names \cup {None}
                        /\ f.todo \subseteq W!Names /\ f.listed \in BOOLEAN
  BY DEF Frames
<1>3. looked # None => looked.name \in W!Names /\ looked.node \in W!Nodes BY DEF WalkTypes
<1> QED BY <1>1, <1>2, <1>3

\* A name leads to the one node that is there.
LEMMA EntryIs ==
    ASSUME WalkTypes, NEW d \in W!Dirs, NEW n \in W!Names
    PROVE  /\ W!Entry(d, n) # None => W!Entry(d, n) \in W!Nodes /\ at[W!Entry(d, n)] = <<d, n>>
           /\ \A k \in W!Nodes : at[k] = <<d, n>> => W!Entry(d, n) = k
<1>1. <<d, n>> # None BY WalkSets DEF W!Slots
<1>2. CASE \E k \in W!Nodes : at[k] = <<d, n>>
  <2>1. W!Entry(d, n) = CHOOSE k \in W!Nodes : at[k] = <<d, n>> BY <1>2 DEF W!Entry
  <2>2. W!Entry(d, n) \in W!Nodes /\ at[W!Entry(d, n)] = <<d, n>> BY <1>2, <2>1
  <2> QED BY <1>1, <2>2 DEF WalkTypes
<1>3. CASE ~\E k \in W!Nodes : at[k] = <<d, n>> BY <1>3 DEF W!Entry
<1> QED BY <1>2, <1>3

\* What is below what is below is below: there are three directories to pass.
LEMMA UnderGrows == ASSUME NEW S PROVE /\ S \subseteq W!Under(S)
                                       /\ \A d \in S \cap W!Dirs : W!In(d) \subseteq W!Under(S)
                                       /\ \A k \in W!Under(S) \ S : k \in W!Nodes /\ \E d \in S \cap W!Dirs : k \in W!In(d)
  BY DEF W!Under, W!In

LEMMA BelowClosed ==
    ASSUME NEW n, NEW d \in W!Below(n) \cap W!Dirs
    PROVE  W!In(d) \subseteq W!Below(n)
<1> DEFINE r0 == {n}
           r1 == W!Under(r0)
           r2 == W!Under(r1)
           r3 == W!Under(r2)
           r4 == W!Under(r3)
<1>0. W!Below(n) = r4 BY DEF W!Below
<1>1. r0 \subseteq r1 /\ r1 \subseteq r2 /\ r2 \subseteq r3 /\ r3 \subseteq r4 BY UnderGrows
<1>2. CASE d \in r3 BY <1>0, <1>2, UnderGrows
<1>3. CASE d \notin r3
  <2>1. PICK c \in r3 \cap W!Dirs : d \in W!In(c) /\ d \in W!Nodes BY <1>0, <1>3, UnderGrows
  <2>2. c \notin r2 BY <1>3, <2>1, UnderGrows
  <2>3. PICK b \in r2 \cap W!Dirs : c \in W!In(b) /\ c \in W!Nodes BY <2>1, <2>2, UnderGrows
  <2>4. b \notin r1 BY <2>2, <2>3, UnderGrows
  <2>5. PICK a \in r1 \cap W!Dirs : b \in W!In(a) /\ b \in W!Nodes BY <2>3, <2>4, UnderGrows
  <2>6. a \notin r0 BY <2>4, <2>5, UnderGrows
  <2>7. a \in W!Nodes BY <2>5, <2>6, UnderGrows
  <2>8. a # b /\ b # c /\ c # d /\ a # c /\ b # d /\ a # d
    BY <1>1, <1>3, <2>1, <2>2, <2>3, <2>4, <2>5
  <2> QED BY <2>1, <2>3, <2>5, <2>7, <2>8, WalkSets
<1> QED BY <1>2, <1>3

LEMMA BelowKinds == ASSUME NEW n PROVE n \in W!Below(n) /\ W!Below(n) \subseteq W!Nodes \cup {n}
  BY UnderGrows DEF W!Below

\* A set that holds n and all that is in its directories holds what is below n.
LEMMA BelowLeast ==
    ASSUME NEW n, NEW S, n \in S, \A d \in S \cap W!Dirs : W!In(d) \subseteq S
    PROVE  W!Below(n) \subseteq S
<1>1. \A T : T \subseteq S => W!Under(T) \subseteq S BY DEF W!Under
<1> QED BY <1>1 DEF W!Below

LEMMA BelowMonotone ==
    ASSUME NEW n \in W!Nodes, NEW k \in W!Nodes, k \in W!Below(n)
    PROVE  W!Below(k) \subseteq W!Below(n)
  BY BelowClosed, BelowLeast

\* Entries that go, or go to the top, are below nothing they were not.
LEMMA BelowShrinks ==
    ASSUME NEW n \in W!Nodes, WalkTypes,
           \A k \in W!Nodes : at'[k] = at[k] \/ at'[k] = None \/ at'[k][1] = "top"
    PROVE  W!Below(n)' \subseteq W!Below(n)
<1> DEFINE below == W!Below(n)
           under(T) == T \cup UNION {{k \in W!Nodes : at'[k] # None /\ at'[k][1] = d} : d \in T \cap W!Dirs}
<1>1. \A d \in W!Nodes : {k \in W!Nodes : at'[k] # None /\ at'[k][1] = d} \subseteq W!In(d)
  BY WalkSets DEF W!In
<1>2. below \subseteq W!Nodes /\ n \in below BY BelowKinds
<1>3. \A d \in below \cap W!Dirs : W!In(d) \subseteq below BY BelowClosed
<1>4. \A T : T \subseteq below => under(T) \subseteq below BY <1>1, <1>2, <1>3
<1>5. W!Below(n)' = under(under(under(under({n})))) BY DEF W!Below, W!Under, W!In
<1>6. {n} \subseteq below BY <1>2
<1> HIDE DEF below, under
<1>7. under(under(under(under({n})))) \subseteq below BY <1>4, <1>6
<1> QED BY <1>5, <1>7 DEF below

LEMMA WalkInit == ASSUME W!Init PROVE WalkInv
<1>1. stack = <<W!Frame("top", None)>> /\ Len(stack) = 1 /\ stack[1] = W!Frame("top", None)
      /\ DOMAIN stack = {1}
  BY DEF W!Init
<1>2. W!Frame("top", None) \in Frames /\ W!Frame("top", None).dir = "top" /\ ~W!Frame("top", None).listed
  BY WalkSets DEF W!Frame, Frames
<1>3. at \in [W!Nodes -> W!Slots \cup {None}] BY DEF W!Init, W!Trees, W!Slots, W!Dirs, W!Names
<1>4. \A j, k \in W!Nodes : at[j] # None /\ at[j] = at[k] => j = k
  BY DEF W!Init, W!Trees, W!Nodes
<1>5. W!TypeOK
  <2>1. inside \subseteq W!Nodes /\ keep \subseteq W!Nodes BY DEF W!Init, W!In, W!Nodes
  <2> QED BY <1>3, <2>1 DEF W!Init, W!TypeOK
<1>6. WalkTypes
  <2>1. stack \in Seq(Frames) BY <1>1, <1>2
  <2> QED BY <1>1, <1>2, <1>4, <1>5, <2>1 DEF WalkTypes, W!Init
<1>7. InsideInv
  <2>1. \A k \in W!Nodes : at[k] # None /\ at[k][1] \in inside \cup {"top"} => k \in inside
    <3> SUFFICES ASSUME NEW k \in W!Nodes, at[k] # None, at[k][1] \in inside \cup {"top"}
                 PROVE  k \in inside
      OBVIOUS
    <3>1. at[k][1] \in W!Dirs BY <1>3 DEF W!Slots
    <3>2. at[k][1] \in W!Below("top") BY BelowKinds DEF W!Init
    <3>3. k \in W!In(at[k][1]) BY DEF W!In
    <3> QED BY <3>1, <3>2, <3>3, BelowClosed DEF W!Init
  <2>2. W!RemovesOnlyItsOwn BY DEF W!Init, W!RemovesOnlyItsOwn
  <2> QED BY <1>1, <2>1, <2>2 DEF InsideInv
<1>8. PathInv BY <1>1 DEF PathInv, Expires, W!Init
<1>9. SparesInv
  <2>1. walkOp = "sweep" => \A k \in keep : at[k] # None /\ at[k][1] = "top" BY DEF W!Init, W!In
  <2> QED BY <1>1, <2>1 DEF SparesInv, W!Init
<1>10. EmptiesInv BY <1>1, <1>2 DEF EmptiesInv, NothingForgotten
<1>11. W!CleanIsTrue BY <1>1 DEF W!CleanIsTrue, W!Init
<1> QED BY <1>6, <1>7, <1>8, <1>9, <1>10, <1>11 DEF WalkInv

\* What the stack is after each of the changes made to it.
LEMMA StackWork ==
    ASSUME WalkTypes, NEW f \in Frames, f.dir = stack[Len(stack)].dir, f.name = stack[Len(stack)].name,
           W!Work(f)
    PROVE  /\ stack' \in Seq(Frames) /\ Len(stack') = Len(stack) /\ DOMAIN stack' = DOMAIN stack
           /\ \A i \in DOMAIN stack : stack'[i].dir = stack[i].dir /\ stack'[i].name = stack[i].name
           /\ \A i \in DOMAIN stack : i # Len(stack) => stack'[i] = stack[i]
           /\ stack'[Len(stack)] = f
<1>1. stack' = [stack EXCEPT ![Len(stack)] = f] BY DEF W!Work
<1>2. stack \in Seq(Frames) /\ Len(stack) \in DOMAIN stack BY FrameFacts DEF WalkTypes
<1> QED BY <1>1, <1>2

LEMMA WorkPath ==
    ASSUME WalkTypes, PathInv, UNCHANGED <<at, walkOp, keep, agent>>,
           Len(stack') = Len(stack), DOMAIN stack' = DOMAIN stack,
           \A i \in DOMAIN stack : stack'[i].dir = stack[i].dir /\ stack'[i].name = stack[i].name,
           looked' = None \/ at[looked'.node] = <<stack[Len(stack)].dir, looked'.name>>
    PROVE  PathInv'
<1>1. Len(stack) \in Nat \ {0} /\ DOMAIN stack = 1..Len(stack) BY FrameFacts
<1>2. CASE ~Expires BY <1>2 DEF PathInv, Expires
<1>3. CASE Expires
  <2>1. \A i \in DOMAIN stack : i > 1 => at[stack'[i].dir] = <<stack'[i - 1].dir, stack'[i].name>>
    <3> SUFFICES ASSUME NEW i \in DOMAIN stack, i > 1
                 PROVE  at[stack'[i].dir] = <<stack'[i - 1].dir, stack'[i].name>>
      OBVIOUS
    <3>1. i - 1 \in DOMAIN stack BY <1>1
    <3>2. at[stack[i].dir] = <<stack[i - 1].dir, stack[i].name>> BY <1>3 DEF PathInv
    <3> QED BY <3>1, <3>2
  <2>2. \A i, j \in DOMAIN stack : stack'[i].dir = stack'[j].dir => i = j BY <1>3 DEF PathInv
  <2>3. looked' # None => at[looked'.node] = <<stack'[Len(stack')].dir, looked'.name>> BY <1>1
  <2> QED BY <1>3, <2>1, <2>2, <2>3 DEF PathInv, Expires
<1> QED BY <1>2, <1>3

\* When nothing moves, what was so of places stays so.
LEMMA PlacesStay ==
    ASSUME UNCHANGED <<at, walkOp, keep>>
    PROVE  /\ \A d : W!In(d)' = W!In(d)
           /\ \A n : Free(n)' <=> Free(n)
           /\ Expires' <=> Expires
  BY DEF W!In, W!Below, W!Under, Free, Expires

LEMMA ListKeeps == ASSUME WalkInv, W!List PROVE WalkInv'
<1> DEFINE cur == stack[Len(stack)]
           f == [cur EXCEPT !.todo = {at[k][2] : k \in W!In(cur.dir)}, !.listed = TRUE]
<1>0. WalkTypes /\ InsideInv /\ PathInv /\ SparesInv /\ EmptiesInv /\ W!CleanIsTrue BY DEF WalkInv
<1>1. /\ W!Work(f) /\ walkState = "walk" /\ looked = None
      /\ UNCHANGED <<walkOp, at, keep, looked, walkState, walkFails, deeper, removed, inside, agent>>
  BY DEF W!List, W!Cur
<1>2. /\ f \in Frames /\ f.dir = cur.dir /\ f.name = cur.name
      /\ f.listed /\ f.todo = {at[k][2] : k \in W!In(cur.dir)}
  <2>1. cur \in Frames BY <1>0, FrameFacts
  <2>2. \A k \in W!Nodes : at[k] # None => at[k][2] \in W!Names
    BY <1>0 DEF WalkTypes, W!TypeOK, W!Slots
  <2>3. {at[k][2] : k \in W!In(cur.dir)} \subseteq W!Names BY <2>2 DEF W!In
  <2> HIDE DEF cur
  <2> QED BY <2>1, <2>3 DEF Frames
<1> HIDE DEF f
<1>3. /\ stack' \in Seq(Frames) /\ Len(stack') = Len(stack) /\ DOMAIN stack' = DOMAIN stack
      /\ \A i \in DOMAIN stack : stack'[i].dir = stack[i].dir /\ stack'[i].name = stack[i].name
      /\ \A i \in DOMAIN stack : i # Len(stack) => stack'[i] = stack[i]
      /\ stack'[Len(stack)] = f
  BY <1>0, <1>1, <1>2, StackWork
<1>4. Len(stack) \in Nat \ {0} /\ DOMAIN stack = 1..Len(stack) BY <1>0, FrameFacts
<1>5. WalkTypes' BY <1>0, <1>1, <1>3, <1>4 DEF WalkTypes, W!TypeOK
<1>6. InsideInv' BY <1>0, <1>1, <1>3 DEF InsideInv, W!RemovesOnlyItsOwn
<1>7. PathInv' BY <1>0, <1>1, <1>3, WorkPath
<1>8. SparesInv' BY <1>0, <1>1, <1>3, <1>4, PlacesStay DEF SparesInv
<1>9. EmptiesInv'
  <2> SUFFICES ASSUME walkFails = 0, agent = 0, ~Expires,
                      NEW i \in DOMAIN stack, stack'[i].listed, NEW k \in W!In(stack[i].dir)
               PROVE  \/ at[k][2] \in stack'[i].todo
                      \/ i < Len(stack) /\ stack'[i + 1].name = at[k][2]
    BY <1>1, <1>3, PlacesStay DEF EmptiesInv, NothingForgotten
  <2>1. CASE i = Len(stack) BY <1>2, <1>3, <2>1
  <2>2. CASE i # Len(stack)
    <3>1. i + 1 \in DOMAIN stack /\ i < Len(stack) BY <1>4, <2>2
    <3> QED BY <1>0, <1>1, <1>3, <2>2, <3>1 DEF EmptiesInv, NothingForgotten
  <2> QED BY <2>1, <2>2
<1>10. W!CleanIsTrue' BY <1>0, <1>1, <1>3 DEF W!CleanIsTrue
<1> QED BY <1>5, <1>6, <1>7, <1>8, <1>9, <1>10 DEF WalkInv

LEMMA LookKeeps == ASSUME WalkInv, W!Look PROVE WalkInv'
<1> DEFINE cur == stack[Len(stack)]
           n == CHOOSE m \in cur.todo : TRUE
           k == W!Entry(cur.dir, n)
           f == [cur EXCEPT !.todo = @ \ {n}]
<1>0. WalkTypes /\ InsideInv /\ PathInv /\ SparesInv /\ EmptiesInv /\ W!CleanIsTrue BY DEF WalkInv
<1>1. /\ W!Work(f) /\ walkState = "walk" /\ looked = None /\ n \in cur.todo
      /\ looked' = IF k # None /\ W!Selected(k, n) THEN [name |-> n, node |-> k] ELSE None
      /\ UNCHANGED <<walkOp, at, keep, walkState, walkFails, deeper, removed, inside, agent>>
  BY DEF W!Look, W!Cur
<1>2. cur \in Frames /\ cur.dir \in W!Dirs /\ cur.todo \subseteq W!Names BY <1>0, FrameFacts
<1> HIDE DEF n
<1>3. n \in W!Names BY <1>1, <1>2
<1>4. /\ f \in Frames /\ f.dir = cur.dir /\ f.name = cur.name /\ f.listed = cur.listed
      /\ f.todo = cur.todo \ {n}
  <2> HIDE DEF cur
  <2> QED BY <1>2 DEF Frames
<1>5. /\ k # None => k \in W!Nodes /\ at[k] = <<cur.dir, n>>
      /\ \A j \in W!Nodes : at[j] = <<cur.dir, n>> => k = j
  BY <1>0, <1>2, <1>3, EntryIs
<1> HIDE DEF f, k
<1>6. /\ stack' \in Seq(Frames) /\ Len(stack') = Len(stack) /\ DOMAIN stack' = DOMAIN stack
      /\ \A i \in DOMAIN stack : stack'[i].dir = stack[i].dir /\ stack'[i].name = stack[i].name
      /\ \A i \in DOMAIN stack : i # Len(stack) => stack'[i] = stack[i]
      /\ stack'[Len(stack)] = f
  BY <1>0, <1>1, <1>4, StackWork
<1>7. Len(stack) \in Nat \ {0} /\ DOMAIN stack = 1..Len(stack) BY <1>0, FrameFacts
<1>8. \/ looked' = None
      \/ /\ looked' = [name |-> n, node |-> k] /\ looked' # None
         /\ looked'.name = n /\ looked'.node = k /\ k # None /\ W!Selected(k, n)
  BY <1>1, <1>3, <1>5, WalkSets
<1>9. WalkTypes' BY <1>0, <1>1, <1>3, <1>5, <1>6, <1>7, <1>8 DEF WalkTypes, W!TypeOK
<1>10. InsideInv' BY <1>0, <1>1, <1>6 DEF InsideInv, W!RemovesOnlyItsOwn
<1>11. PathInv' BY <1>0, <1>1, <1>5, <1>6, <1>8, WorkPath
<1>12. SparesInv'
  <2> SUFFICES ASSUME Expires, looked' # None
               PROVE  IF Len(stack) >= (IF walkOp = "nested" THEN 2 ELSE 1) THEN Free(k) ELSE k \in W!Dirs
    BY <1>0, <1>1, <1>6, <1>7, <1>8, PlacesStay DEF SparesInv
  <2>1. k \in W!Nodes /\ at[k] = <<cur.dir, n>> /\ W!Selected(k, n) BY <1>5, <1>8
  <2>2. walkOp \in {"units", "nested", "sweep"} BY <1>0 DEF WalkTypes, W!TypeOK, Expires
  <2>3. CASE walkOp = "sweep" /\ Len(stack) = 1
    BY <2>1, <2>3 DEF W!Selected, W!Owned, Free
  <2>4. CASE walkOp = "sweep" /\ Len(stack) # 1
    <3>1. Len(stack) \in DOMAIN stack /\ Len(stack) > 1 BY <1>7, <2>4
    <3>2. cur.dir # "top" BY <1>0, <2>4, <3>1, WalkSets DEF InsideInv, WalkTypes, W!TypeOK
    <3>3. at[k][1] # "top" BY <2>1, <3>2
    <3> QED BY <1>0, <1>7, <2>4, <3>3 DEF SparesInv, Free
  <2>5. CASE walkOp \in {"units", "nested"} /\ Len(stack) > (IF walkOp = "nested" THEN 2 ELSE 1)
    <3>1. Len(stack) \in DOMAIN stack /\ Len(stack) > 1 BY <1>7, <2>5
    <3>2. W!Below(cur.dir) \cap keep = {} BY <1>0, <2>5, <3>1 DEF SparesInv, Free
    <3>3. cur.dir \in W!Nodes BY <1>0, <3>1 DEF InsideInv, WalkTypes, W!TypeOK
    <3>4. at[k] # None BY <1>2, <1>3, <2>1, WalkSets DEF W!Slots
    <3>5. at[k][1] = cur.dir BY <2>1
    <3>6. k \in W!In(cur.dir) BY <2>1, <3>4, <3>5 DEF W!In
    <3>7. k \in W!Below(cur.dir) BY <1>2, <3>6, BelowKinds, BelowClosed
    <3> QED BY <2>1, <2>5, <3>2, <3>3, <3>7, BelowMonotone DEF Free
  <2>6. CASE walkOp \in {"units", "nested"} /\ Len(stack) = (IF walkOp = "nested" THEN 2 ELSE 1)
    BY <2>1, <2>6 DEF W!Selected, W!Old, Free
  <2>7. CASE walkOp = "nested" /\ Len(stack) = 1 BY <2>1, <2>7 DEF W!Selected
  <2> QED BY <1>7, <2>2, <2>3, <2>4, <2>5, <2>6, <2>7
<1>13. EmptiesInv'
  <2> SUFFICES ASSUME walkFails = 0, agent = 0, ~Expires,
                      NEW i \in DOMAIN stack, stack'[i].listed, NEW j \in W!In(stack[i].dir)
               PROVE  \/ at[j][2] \in stack'[i].todo
                      \/ i = Len(stack) /\ looked' # None /\ looked'.name = at[j][2]
                      \/ i < Len(stack) /\ stack'[i + 1].name = at[j][2]
    BY <1>1, <1>6, PlacesStay DEF EmptiesInv, NothingForgotten
  <2>1. CASE i = Len(stack)
    <3>1. at[j][2] \in cur.todo BY <1>0, <1>1, <1>4, <1>6, <2>1 DEF EmptiesInv, NothingForgotten
    <3>2. CASE at[j][2] # n BY <1>4, <1>6, <2>1, <3>1, <3>2
    <3>3. CASE at[j][2] = n
      <4>1. j \in W!Nodes /\ at[j] # None /\ at[j][1] = cur.dir BY <2>1 DEF W!In
      <4>2. at[j] = <<cur.dir, n>> BY <1>0, <3>3, <4>1 DEF WalkTypes, W!TypeOK, W!Slots
      <4>3. k = j /\ k # None BY <1>5, <4>1, <4>2, WalkSets
      <4>4. W!Selected(k, n)
        <5>1. walkOp \in {"clear", "remove"} BY DEF Expires
        <5> QED BY <5>1 DEF W!Selected
      <4> QED BY <1>1, <1>3, <1>8, <2>1, <3>3, <4>1, <4>3, <4>4, WalkSets
    <3> QED BY <3>2, <3>3
  <2>2. CASE i # Len(stack)
    <3>1. i + 1 \in DOMAIN stack /\ i < Len(stack) BY <1>7, <2>2
    <3> QED BY <1>0, <1>1, <1>6, <2>2, <3>1 DEF EmptiesInv, NothingForgotten
  <2> QED BY <2>1, <2>2
<1>14. W!CleanIsTrue' BY <1>0, <1>1, <1>6 DEF W!CleanIsTrue
<1> QED BY <1>9, <1>10, <1>11, <1>12, <1>13, <1>14 DEF WalkInv

\* What goes when a node is removed.
LEMMA NodeGoes ==
    ASSUME WalkTypes, NEW k \in W!Nodes, at' = [at EXCEPT ![k] = None], UNCHANGED <<walkOp, keep>>
    PROVE  /\ at' \in [W!Nodes -> W!Slots \cup {None}] /\ at'[k] = None
           /\ \A j \in W!Nodes : j # k => at'[j] = at[j]
           /\ \A i, j \in W!Nodes : at'[j] # None /\ at'[i] = at'[j] => i = j
           /\ \A d : W!In(d)' \subseteq W!In(d) \ {k}
           /\ \A n \in W!Nodes : Free(n) => Free(n)'
<1>1. /\ at' \in [W!Nodes -> W!Slots \cup {None}] /\ at'[k] = None
      /\ \A j \in W!Nodes : j # k => at'[j] = at[j]
  BY DEF WalkTypes, W!TypeOK
<1>2. \A d : W!In(d)' \subseteq W!In(d) \ {k} BY <1>1 DEF W!In
<1>3. \A i, j \in W!Nodes : at'[j] # None /\ at'[i] = at'[j] => i = j BY <1>1 DEF WalkTypes
<1>4. \A n \in W!Nodes : W!Below(n)' \subseteq W!Below(n) BY <1>1, BelowShrinks
<1>5. \A n \in W!Nodes : Free(n) => Free(n)' BY <1>4 DEF Free
<1> QED BY <1>1, <1>2, <1>3, <1>5

\* What a name in the top frame leads to is the target's, and what lstat saw
\* unless somebody is about.
LEMMA TargetIsOwn ==
    ASSUME WalkInv, looked # None, NEW k, k = W!Entry(stack[Len(stack)].dir, looked.name), k # None
    PROVE  /\ k \in W!Nodes /\ at[k] = <<stack[Len(stack)].dir, looked.name>> /\ k \in inside
           /\ Expires => k = looked.node
<1>0. WalkTypes /\ InsideInv /\ PathInv BY DEF WalkInv
<1>1. /\ Len(stack) \in DOMAIN stack /\ stack[Len(stack)].dir \in W!Dirs
      /\ looked.name \in W!Names /\ looked.node \in W!Nodes
  BY <1>0, FrameFacts
<1>2. /\ k \in W!Nodes /\ at[k] = <<stack[Len(stack)].dir, looked.name>>
      /\ \A j \in W!Nodes : at[j] = <<stack[Len(stack)].dir, looked.name>> => k = j
  BY <1>0, <1>1, EntryIs
<1>3. at[k] # None BY <1>1, <1>2, WalkSets DEF W!Slots
<1>4. stack[Len(stack)].dir \in inside \cup {"top"}
  BY <1>0, <1>1, FrameFacts DEF InsideInv, WalkTypes
<1>5. at[k][1] = stack[Len(stack)].dir BY <1>2
<1>6. k \in inside BY <1>0, <1>2, <1>3, <1>4, <1>5 DEF InsideInv
<1>7. Expires => k = looked.node BY <1>0, <1>1, <1>2 DEF PathInv
<1> QED BY <1>2, <1>6, <1>7

LEMMA FreeIsNotKept == ASSUME NEW n, Free(n) PROVE n \notin keep
  BY BelowKinds DEF Free

LEMMA UnlinkKeeps == ASSUME WalkInv, W!Unlink PROVE WalkInv'
<1> DEFINE cur == stack[Len(stack)]
           k == W!Entry(cur.dir, looked.name)
<1>0. WalkTypes /\ InsideInv /\ PathInv /\ SparesInv /\ EmptiesInv /\ W!CleanIsTrue BY DEF WalkInv
<1>1. /\ looked # None /\ looked.node \notin W!Dirs /\ looked' = None
      /\ UNCHANGED <<walkOp, keep, stack, walkState, deeper, inside, agent>>
  BY DEF W!Unlink
<1>2. \/ k = None /\ UNCHANGED <<at, removed, walkFails>>
      \/ k # None /\ k \in W!Dirs /\ walkFails' = walkFails + 1 /\ UNCHANGED <<at, removed>>
      \/ /\ k # None /\ k \notin W!Dirs
         /\ at' = [at EXCEPT ![k] = None] /\ removed' = removed \cup {k} /\ UNCHANGED walkFails
  BY DEF W!Unlink, W!Fail, W!Cur
<1>3. Len(stack) \in Nat \ {0} /\ DOMAIN stack = 1..Len(stack) /\ cur \in Frames /\ cur.dir \in W!Dirs
      /\ looked.name \in W!Names /\ looked.node \in W!Nodes /\ walkState # "done"
  BY <1>0, <1>1, FrameFacts DEF WalkTypes
<1>4. \A j \in W!Nodes : at[j] = <<cur.dir, looked.name>> => k = j BY <1>0, <1>3, EntryIs
<1>5. k # None => k \in W!Nodes /\ k \in inside /\ (Expires => k = looked.node)
  BY <1>1, TargetIsOwn
<1>6. Expires' <=> Expires BY <1>1 DEF Expires
<1>7. walkFails \in Nat BY <1>0 DEF WalkTypes, W!TypeOK
<1>8. Expires /\ walkOp = "nested" => Len(stack) >= 2
  BY <1>0, <1>1, <1>3 DEF SparesInv
<1> HIDE DEF k
<1>10. ASSUME UNCHANGED at PROVE SparesInv' /\ PathInv'
  <2>1. SparesInv' BY <1>0, <1>1, <1>10, PlacesStay DEF SparesInv
  <2>2. PathInv' BY <1>0, <1>1, <1>10 DEF PathInv, Expires
  <2> QED BY <2>1, <2>2
<1>11. EmptiesInv'
  <2> SUFFICES ASSUME walkFails' = 0, agent = 0, ~Expires,
                      NEW i \in DOMAIN stack, stack[i].listed, NEW j \in W!In(stack[i].dir)'
               PROVE  \/ at'[j][2] \in stack[i].todo
                      \/ i < Len(stack) /\ stack[i + 1].name = at'[j][2]
    BY <1>1, <1>6 DEF EmptiesInv, NothingForgotten
  <2>1. walkFails = 0 BY <1>2, <1>7
  <2>2. j \in W!In(stack[i].dir) /\ at'[j] = at[j] /\ (k # None => j # k)
    <3>1. CASE k = None
      <4>1. UNCHANGED at BY <1>2, <3>1
      <4> QED BY <3>1, <4>1, <1>1 DEF W!In
    <3>2. CASE k # None
      <4>1. at' = [at EXCEPT ![k] = None] BY <1>2, <1>7, <2>1, <3>2
      <4>2. j \in W!Nodes BY DEF W!In
      <4> QED BY <1>0, <1>1, <1>5, <3>2, <4>1, <4>2, NodeGoes
    <3> QED BY <3>1, <3>2
  <2>3. ~(i = Len(stack) /\ looked.name = at[j][2])
    <3> SUFFICES ASSUME i = Len(stack), looked.name = at[j][2] PROVE FALSE OBVIOUS
    <3>1. j \in W!Nodes /\ at[j] # None /\ at[j][1] = cur.dir BY <2>2 DEF W!In
    <3>2. at[j] = <<cur.dir, looked.name>> BY <1>0, <3>1 DEF WalkTypes, W!TypeOK, W!Slots
    <3> QED BY <1>4, <2>2, <3>1, <3>2, WalkSets
  <2> QED BY <1>0, <2>1, <2>2, <2>3 DEF EmptiesInv, NothingForgotten
<1>12. W!CleanIsTrue' BY <1>0, <1>1, <1>3 DEF W!CleanIsTrue
<1>13. CASE UNCHANGED <<at, removed>>
  <2>1. WalkTypes'
    <3>1. walkFails' \in Nat BY <1>2, <1>7
    <3> QED BY <1>0, <1>1, <1>13, <3>1 DEF WalkTypes, W!TypeOK
  <2>2. InsideInv' BY <1>0, <1>1, <1>13 DEF InsideInv, W!RemovesOnlyItsOwn
  <2> QED BY <1>10, <1>11, <1>12, <1>13, <2>1, <2>2 DEF WalkInv
<1>14. CASE k # None /\ k \notin W!Dirs /\ at' = [at EXCEPT ![k] = None] /\ removed' = removed \cup {k}
  <2>1. /\ at' \in [W!Nodes -> W!Slots \cup {None}] /\ at'[k] = None
        /\ \A j \in W!Nodes : j # k => at'[j] = at[j]
        /\ \A i, j \in W!Nodes : at'[j] # None /\ at'[i] = at'[j] => i = j
        /\ \A n \in W!Nodes : Free(n) => Free(n)'
    BY <1>0, <1>1, <1>5, <1>14, NodeGoes
  <2>2. walkFails' \in Nat BY <1>2, <1>7
  <2>3. Expires => Free(k) BY <1>0, <1>1, <1>3, <1>5, <1>8, <1>14 DEF SparesInv
  <2>4. k \notin keep
    <3>1. CASE Expires BY <2>3, <3>1, FreeIsNotKept
    <3>2. CASE ~Expires BY <1>0, <3>2 DEF PathInv
    <3> QED BY <3>1, <3>2
  <2>5. WalkTypes' BY <1>0, <1>1, <1>5, <1>14, <2>1, <2>2 DEF WalkTypes, W!TypeOK
  <2>6. InsideInv' BY <1>0, <1>1, <1>5, <1>14, <2>1, <2>4 DEF InsideInv, W!RemovesOnlyItsOwn
  <2>7. PathInv'
    <3>1. CASE ~Expires BY <1>0, <1>1, <1>6, <3>1 DEF PathInv
    <3>2. CASE Expires
      <4>1. \A i \in DOMAIN stack : i > 1 => stack[i].dir \in W!Nodes /\ stack[i].dir # k
        BY <1>0, <1>3, <1>14, FrameFacts DEF InsideInv, WalkTypes, W!TypeOK
      <4> QED BY <1>0, <1>1, <1>6, <2>1, <3>2, <4>1 DEF PathInv
    <3> QED BY <3>1, <3>2
  <2>8. SparesInv'
    <3> SUFFICES ASSUME Expires PROVE SparesInv' BY <1>6 DEF SparesInv
    <3>1. \A i \in DOMAIN stack : i > 1 => stack[i].dir \in W!Nodes
      BY <1>0 DEF InsideInv, WalkTypes, W!TypeOK
    <3>2. \A i \in DOMAIN stack : i > (IF walkOp = "nested" THEN 2 ELSE 1) => Free(stack[i].dir)'
      BY <1>0, <1>1, <1>3, <2>1, <3>1 DEF SparesInv
    <3>3. walkOp = "sweep" => \A j \in keep : at'[j] # None /\ at'[j][1] = "top"
      <4>1. keep \subseteq W!Nodes BY <1>0 DEF WalkTypes, W!TypeOK
      <4>2. \A j \in keep : at'[j] = at[j] BY <2>1, <2>4, <4>1
      <4> QED BY <1>0, <4>2 DEF SparesInv
    <3> QED BY <1>1, <3>2, <3>3 DEF SparesInv
  <2> QED BY <1>11, <1>12, <2>5, <2>6, <2>7, <2>8 DEF WalkInv
<1> QED BY <1>2, <1>13, <1>14

\* What moves when a node goes to a free name of the top.
LEMMA NodeMovesUp ==
    ASSUME WalkTypes, NEW k \in W!Nodes, NEW m \in W!Names, W!Entry("top", m) = None,
           at' = [at EXCEPT ![k] = <<"top", m>>], UNCHANGED <<walkOp, keep>>
    PROVE  /\ at' \in [W!Nodes -> W!Slots \cup {None}] /\ at'[k] = <<"top", m>>
           /\ \A j \in W!Nodes : j # k => at'[j] = at[j]
           /\ \A i, j \in W!Nodes : at'[j] # None /\ at'[i] = at'[j] => i = j
           /\ \A n \in W!Nodes : Free(n) => Free(n)'
<1>1. <<"top", m>> \in W!Slots BY WalkSets DEF W!Slots
<1>2. /\ at' \in [W!Nodes -> W!Slots \cup {None}] /\ at'[k] = <<"top", m>>
      /\ \A j \in W!Nodes : j # k => at'[j] = at[j]
  BY <1>1 DEF WalkTypes, W!TypeOK
<1>3. \A j \in W!Nodes : at[j] # <<"top", m>> BY WalkSets, EntryIs
<1>4. \A i, j \in W!Nodes : at'[j] # None /\ at'[i] = at'[j] => i = j BY <1>2, <1>3 DEF WalkTypes
<1>5. <<"top", m>>[1] = "top" OBVIOUS
<1>6. \A n \in W!Nodes : W!Below(n)' \subseteq W!Below(n) BY <1>2, <1>5, BelowShrinks
<1>7. \A n \in W!Nodes : Free(n) => Free(n)' BY <1>6 DEF Free
<1> QED BY <1>2, <1>4, <1>7

LEMMA StackQueued ==
    ASSUME WalkTypes, NEW m \in W!Names, stack' = W!Queued(m)
    PROVE  /\ stack' \in Seq(Frames) /\ Len(stack') = Len(stack) /\ DOMAIN stack' = DOMAIN stack
           /\ \A i \in DOMAIN stack : /\ stack'[i].dir = stack[i].dir /\ stack'[i].name = stack[i].name
                                      /\ stack'[i].listed = stack[i].listed
                                      /\ stack[i].todo \subseteq stack'[i].todo
           /\ m \in stack'[1].todo
<1> DEFINE f == [stack[1] EXCEPT !.todo = @ \cup {m}]
<1>1. stack' = [stack EXCEPT ![1] = f] BY DEF W!Queued
<1>2. stack \in Seq(Frames) /\ 1 \in DOMAIN stack /\ stack[1] \in Frames BY FrameFacts DEF WalkTypes
<1>3. /\ f \in Frames /\ f.dir = stack[1].dir /\ f.name = stack[1].name /\ f.listed = stack[1].listed
      /\ f.todo = stack[1].todo \cup {m}
  BY <1>2 DEF Frames
<1> HIDE DEF f
<1>4. /\ stack' \in Seq(Frames) /\ Len(stack') = Len(stack) /\ DOMAIN stack' = DOMAIN stack
      /\ stack'[1] = f /\ \A i \in DOMAIN stack : i # 1 => stack'[i] = stack[i]
  BY <1>1, <1>2, <1>3
<1> QED BY <1>3, <1>4

\* No directory of the path is in the top frame's directory.
LEMMA PathAhead ==
    ASSUME WalkInv, Expires, NEW k \in W!Nodes, at[k][1] = stack[Len(stack)].dir
    PROVE  \A i \in DOMAIN stack : stack[i].dir # k
<1>0. WalkTypes /\ PathInv BY DEF WalkInv
<1>1. Len(stack) \in Nat \ {0} /\ DOMAIN stack = 1..Len(stack) /\ stack[1].dir = "top"
  BY <1>0, FrameFacts DEF WalkTypes
<1> SUFFICES ASSUME NEW i \in DOMAIN stack, stack[i].dir = k PROVE FALSE OBVIOUS
<1>2. CASE i = 1 BY <1>1, <1>2, WalkSets
<1>3. CASE i # 1
  <2>1. i > 1 /\ i - 1 \in DOMAIN stack /\ Len(stack) \in DOMAIN stack /\ i - 1 # Len(stack) BY <1>1, <1>3
  <2>2. at[stack[i].dir] = <<stack[i - 1].dir, stack[i].name>> BY <1>0, <2>1 DEF PathInv
  <2>3. stack[i - 1].dir = stack[Len(stack)].dir BY <2>2
  <2> QED BY <1>0, <2>1, <2>3 DEF PathInv
<1> QED BY <1>2, <1>3

LEMMA MoveUpKeeps == ASSUME WalkInv, W!MoveUp PROVE WalkInv'
<1> DEFINE cur == stack[Len(stack)]
           k == W!Entry(cur.dir, looked.name)
           m == CHOOSE f \in W!Fresh : TRUE
<1>0. WalkTypes /\ InsideInv /\ PathInv /\ SparesInv /\ EmptiesInv /\ W!CleanIsTrue BY DEF WalkInv
<1>1. /\ looked # None /\ looked' = None /\ Len(stack) > 1 /\ k # None /\ m \in W!Fresh
      /\ at' = [at EXCEPT ![k] = <<"top", m>>] /\ stack' = W!Queued(m)
      /\ UNCHANGED <<walkOp, keep, walkState, walkFails, deeper, removed, inside, agent>>
  BY DEF W!MoveUp, W!Deep, W!Cur
<1> HIDE DEF m
<1>2. m \in W!Names /\ W!Entry("top", m) = None BY <1>1, WalkSets DEF W!Fresh
<1>3. /\ k \in W!Nodes /\ at[k] = <<cur.dir, looked.name>> /\ k \in inside /\ (Expires => k = looked.node)
  BY <1>1, TargetIsOwn
<1>4. Len(stack) \in Nat \ {0} /\ DOMAIN stack = 1..Len(stack) /\ cur.dir \in W!Dirs
      /\ looked.name \in W!Names /\ walkState # "done"
  BY <1>0, <1>1, FrameFacts DEF WalkTypes
<1>5. \A j \in W!Nodes : at[j] = <<cur.dir, looked.name>> => k = j BY <1>0, <1>4, EntryIs
<1>6. at[k][1] = cur.dir BY <1>3
<1> HIDE DEF k
<1>7. /\ at' \in [W!Nodes -> W!Slots \cup {None}] /\ at'[k] = <<"top", m>>
      /\ \A j \in W!Nodes : j # k => at'[j] = at[j]
      /\ \A i, j \in W!Nodes : at'[j] # None /\ at'[i] = at'[j] => i = j
      /\ \A n \in W!Nodes : Free(n) => Free(n)'
  BY <1>0, <1>1, <1>2, <1>3, NodeMovesUp
<1>8. /\ stack' \in Seq(Frames) /\ Len(stack') = Len(stack) /\ DOMAIN stack' = DOMAIN stack
      /\ \A i \in DOMAIN stack : /\ stack'[i].dir = stack[i].dir /\ stack'[i].name = stack[i].name
                                 /\ stack'[i].listed = stack[i].listed
                                 /\ stack[i].todo \subseteq stack'[i].todo
      /\ m \in stack'[1].todo
  BY <1>0, <1>1, <1>2, StackQueued
<1>9. Expires' <=> Expires BY <1>1 DEF Expires
<1>10. \A i \in DOMAIN stack : i > 1 => stack[i].dir \in W!Nodes
  BY <1>0 DEF InsideInv, WalkTypes, W!TypeOK
<1>11. WalkTypes'
  <2>1. stack'[1].dir = "top" BY <1>0, <1>4, <1>8 DEF WalkTypes
  <2> QED BY <1>0, <1>1, <1>7, <1>8, <2>1 DEF WalkTypes, W!TypeOK
<1>12. InsideInv'
  <2>1. \A j \in W!Nodes : at'[j] # None /\ at'[j][1] \in inside \cup {"top"} => j \in inside
    BY <1>0, <1>3, <1>7 DEF InsideInv
  <2> QED BY <1>0, <1>1, <1>8, <2>1 DEF InsideInv, W!RemovesOnlyItsOwn
<1>13. PathInv'
  <2>1. CASE ~Expires BY <1>0, <1>1, <1>9, <2>1 DEF PathInv
  <2>2. CASE Expires
    <3>1. \A i \in DOMAIN stack : stack[i].dir # k BY <1>3, <1>6, <2>2, PathAhead
    <3>2. \A i \in DOMAIN stack : i > 1 => at'[stack'[i].dir] = <<stack'[i - 1].dir, stack'[i].name>>
      <4> SUFFICES ASSUME NEW i \in DOMAIN stack, i > 1
                   PROVE  at'[stack'[i].dir] = <<stack'[i - 1].dir, stack'[i].name>>
        OBVIOUS
      <4>1. i - 1 \in DOMAIN stack BY <1>4
      <4>2. at'[stack[i].dir] = at[stack[i].dir] BY <1>7, <1>10, <3>1
      <4> QED BY <1>0, <1>8, <2>2, <4>1, <4>2 DEF PathInv
    <3>3. agent' = 0 /\ \A i, j \in DOMAIN stack : stack'[i].dir = stack'[j].dir => i = j
      BY <1>0, <1>1, <1>8, <2>2 DEF PathInv
    <3> QED BY <1>1, <1>8, <1>9, <2>2, <3>2, <3>3 DEF PathInv
  <2> QED BY <2>1, <2>2
<1>14. SparesInv'
  <2> SUFFICES ASSUME Expires PROVE SparesInv' BY <1>9 DEF SparesInv
  <2>1. Free(k)
    BY <1>0, <1>1, <1>3, <1>4 DEF SparesInv
  <2>2. \A i \in DOMAIN stack : i > (IF walkOp = "nested" THEN 2 ELSE 1) => Free(stack[i].dir)'
    <3>1. \A n \in W!Nodes : Free(n) => Free(n)' BY <1>7
    <3>2. \A i \in DOMAIN stack : i > (IF walkOp = "nested" THEN 2 ELSE 1) =>
             Free(stack[i].dir) /\ stack[i].dir \in W!Nodes
      BY <1>0, <1>4, <1>10 DEF SparesInv
    <3>3. \A i \in DOMAIN stack : stack'[i].dir = stack[i].dir BY <1>8
    <3> QED BY <3>1, <3>2, <3>3
  <2>3. walkOp = "sweep" => \A j \in keep : at'[j] # None /\ at'[j][1] = "top"
    <3>1. keep \subseteq W!Nodes /\ k \notin keep
      BY <1>0, <2>1, FreeIsNotKept DEF WalkTypes, W!TypeOK
    <3>2. \A j \in keep : at'[j] = at[j] BY <1>7, <3>1
    <3> QED BY <1>0, <3>2 DEF SparesInv
  <2> QED BY <1>1, <1>8, <2>2, <2>3 DEF SparesInv
<1>15. EmptiesInv'
  <2> SUFFICES ASSUME walkFails = 0, agent = 0, ~Expires, NEW i \in DOMAIN stack, stack'[i].listed,
                      NEW j \in W!Nodes, at'[j] # None, at'[j][1] = stack'[i].dir
               PROVE  \/ at'[j][2] \in stack'[i].todo
                      \/ i < Len(stack) /\ stack'[i + 1].name = at'[j][2]
    <3>1. Len(stack') = Len(stack) /\ DOMAIN stack' = DOMAIN stack BY <1>8
    <3> QED BY <1>1, <1>9, <3>1 DEF EmptiesInv, NothingForgotten, W!In
  <2>1. stack'[i].dir = stack[i].dir /\ stack[i].listed BY <1>8
  <2>2. CASE j = k
    <3>1. at'[k][1] = "top" /\ at'[k][2] = m BY <1>7
    <3>2. i = 1 BY <1>4, <1>10, <2>1, <2>2, <3>1, WalkSets
    <3> QED BY <1>8, <2>2, <3>1, <3>2
  <2>3. CASE j # k
    <3>1. at'[j] = at[j] /\ j \in W!In(stack[i].dir) BY <1>7, <2>1, <2>3 DEF W!In
    <3>2. ~(i = Len(stack) /\ looked.name = at[j][2])
      <4> SUFFICES ASSUME i = Len(stack), looked.name = at[j][2] PROVE FALSE OBVIOUS
      <4>1. at[j] # None /\ at[j][1] = cur.dir BY <3>1 DEF W!In
      <4>2. at[j] = <<cur.dir, looked.name>> BY <1>0, <2>1, <4>1 DEF WalkTypes, W!TypeOK, W!Slots
      <4> QED BY <1>5, <2>1, <2>3, <4>2
    <3>3. \/ at[j][2] \in stack[i].todo
          \/ i < Len(stack) /\ stack[i + 1].name = at[j][2]
      BY <1>0, <2>1, <3>1, <3>2 DEF EmptiesInv, NothingForgotten
    <3>4. CASE at[j][2] \in stack[i].todo BY <1>8, <3>1, <3>4
    <3>5. CASE i < Len(stack) /\ stack[i + 1].name = at[j][2]
      <4>1. i + 1 \in DOMAIN stack BY <1>4, <3>5
      <4> QED BY <1>8, <3>1, <3>5, <4>1
    <3> QED BY <3>3, <3>4, <3>5
  <2> QED BY <2>2, <2>3
<1>16. W!CleanIsTrue' BY <1>0, <1>1, <1>4, <1>8 DEF W!CleanIsTrue
<1> QED BY <1>11, <1>12, <1>13, <1>14, <1>15, <1>16 DEF WalkInv

LEMMA DescendKeeps == ASSUME WalkInv, W!Descend PROVE WalkInv'
<1> DEFINE cur == stack[Len(stack)]
           k == W!Entry(cur.dir, looked.name)
           f == W!Frame(k, looked.name)
<1>0. WalkTypes /\ InsideInv /\ PathInv /\ SparesInv /\ EmptiesInv /\ W!CleanIsTrue BY DEF WalkInv
<1>1. /\ looked # None /\ looked.node \in W!Dirs /\ looked' = None
      /\ UNCHANGED <<walkOp, at, keep, walkState, removed, inside, agent>>
  BY DEF W!Descend
<1>2. Len(stack) \in Nat \ {0} /\ DOMAIN stack = 1..Len(stack) /\ cur.dir \in W!Dirs
      /\ looked.name \in W!Names /\ looked.node \in W!Nodes /\ looked.node # None /\ walkState # "done"
      /\ walkFails \in Nat /\ deeper \in Nat
  BY <1>0, <1>1, FrameFacts, WalkSets DEF WalkTypes, W!TypeOK
<1>3. CASE /\ k # looked.node /\ walkFails' = walkFails + 1 /\ UNCHANGED <<stack, deeper>>
  <2>1. WalkTypes' BY <1>0, <1>1, <1>2, <1>3 DEF WalkTypes, W!TypeOK
  <2>2. InsideInv' BY <1>0, <1>1, <1>3 DEF InsideInv, W!RemovesOnlyItsOwn
  <2>3. PathInv' BY <1>0, <1>1, <1>3 DEF PathInv, Expires
  <2>4. SparesInv' BY <1>0, <1>1, <1>3, PlacesStay DEF SparesInv
  <2>5. EmptiesInv' BY <1>2, <1>3 DEF EmptiesInv
  <2>6. W!CleanIsTrue' BY <1>0, <1>1, <1>2, <1>3 DEF W!CleanIsTrue
  <2> QED BY <2>1, <2>2, <2>3, <2>4, <2>5, <2>6 DEF WalkInv
<1>4. CASE /\ k = looked.node /\ stack' = Append(stack, f) /\ UNCHANGED walkFails
           /\ deeper' = deeper + (IF Len(stack) > 1 THEN 1 ELSE 0)
  <2>1. /\ at[k] = <<cur.dir, looked.name>> /\ k \in inside /\ k \in W!Nodes /\ at[k][1] = cur.dir
    BY <1>1, <1>2, <1>4, TargetIsOwn
  <2>2. f \in Frames /\ f.dir = k /\ f.name = looked.name /\ ~f.listed
    BY <1>1, <1>2, <1>4 DEF Frames, W!Frame
  <2> HIDE DEF f, k
  <2>3. /\ stack' \in Seq(Frames) /\ Len(stack') = Len(stack) + 1 /\ DOMAIN stack' = 1..(Len(stack) + 1)
        /\ \A i \in DOMAIN stack : stack'[i] = stack[i]
        /\ stack'[Len(stack) + 1] = f
    BY <1>0, <1>2, <1>4, <2>2 DEF WalkTypes
  <2>4. \A i \in DOMAIN stack' : i \in DOMAIN stack \/ i = Len(stack) + 1 BY <1>2, <2>3
  <2>5. WalkTypes'
    <3>1. stack'[1].dir = "top" /\ Len(stack') >= 1 BY <1>0, <1>2, <2>3 DEF WalkTypes
    <3>2. deeper' \in Nat BY <1>2, <1>4
    <3> QED BY <1>0, <1>1, <1>4, <2>3, <3>1, <3>2 DEF WalkTypes, W!TypeOK
  <2>6. InsideInv'
    <3>1. \A i \in DOMAIN stack' : i > 1 => stack'[i].dir \in inside /\ stack'[i].name \in W!Names
      BY <1>0, <1>2, <2>1, <2>2, <2>3, <2>4 DEF InsideInv
    <3> QED BY <1>0, <1>1, <3>1 DEF InsideInv, W!RemovesOnlyItsOwn
  <2>7. PathInv'
    <3>1. CASE ~Expires BY <1>0, <1>1, <3>1 DEF PathInv, Expires
    <3>2. CASE Expires
      <4>1. \A i \in DOMAIN stack : stack[i].dir # k BY <2>1, <3>2, PathAhead
      <4>2. ASSUME NEW i \in DOMAIN stack', i > 1
            PROVE  at[stack'[i].dir] = <<stack'[i - 1].dir, stack'[i].name>>
        <5>1. CASE i \in DOMAIN stack
          <6>1. i - 1 \in DOMAIN stack BY <1>2, <4>2, <5>1
          <6> QED BY <1>0, <2>3, <3>2, <4>2, <5>1, <6>1 DEF PathInv
        <5>2. CASE i = Len(stack) + 1
          <6>1. i - 1 = Len(stack) /\ Len(stack) \in DOMAIN stack BY <1>2, <5>2
          <6>2. stack'[i] = f /\ stack'[i - 1] = cur BY <2>3, <5>2, <6>1
          <6> QED BY <2>1, <2>2, <6>2
        <5> QED BY <2>4, <5>1, <5>2
      <4>3. \A i, j \in DOMAIN stack' : stack'[i].dir = stack'[j].dir => i = j
        BY <1>0, <2>2, <2>3, <2>4, <3>2, <4>1 DEF PathInv
      <4>4. agent' = 0 /\ Expires' BY <1>0, <1>1, <3>2 DEF PathInv, Expires
      <4> QED BY <1>1, <4>2, <4>3, <4>4 DEF PathInv
    <3> QED BY <3>1, <3>2
  <2>8. SparesInv'
    <3> SUFFICES ASSUME Expires PROVE SparesInv' BY <1>1 DEF SparesInv, Expires
    <3>1. Len(stack) >= (IF walkOp = "nested" THEN 2 ELSE 1) => Free(k)
      BY <1>0, <1>1, <1>4 DEF SparesInv
    <3>2. \A i \in DOMAIN stack' : i > (IF walkOp = "nested" THEN 2 ELSE 1) => Free(stack'[i].dir)
      <4> SUFFICES ASSUME NEW i \in DOMAIN stack', i > (IF walkOp = "nested" THEN 2 ELSE 1)
                   PROVE  Free(stack'[i].dir)
        OBVIOUS
      <4>1. CASE i \in DOMAIN stack BY <1>0, <2>3, <4>1 DEF SparesInv
      <4>2. CASE i = Len(stack) + 1 BY <1>2, <2>2, <2>3, <3>1, <4>2
      <4> QED BY <2>4, <4>1, <4>2
    <3>3. walkOp = "sweep" => \A j \in keep : at[j] # None /\ at[j][1] = "top"
      BY <1>0 DEF SparesInv
    <3>4. \A i \in DOMAIN stack' : Free(stack[i].dir)' <=> Free(stack'[i].dir)
      BY <1>1 DEF Free, W!Below, W!Under, W!In
    <3> QED BY <1>1, <3>2, <3>3, <3>4 DEF SparesInv
  <2>9. EmptiesInv'
    <3> SUFFICES ASSUME walkFails = 0, agent = 0, ~Expires, NEW i \in DOMAIN stack', stack'[i].listed,
                        NEW j \in W!Nodes, at[j] # None, at[j][1] = stack'[i].dir
                 PROVE  \/ at[j][2] \in stack'[i].todo
                        \/ i < Len(stack) + 1 /\ stack'[i + 1].name = at[j][2]
      BY <1>1, <1>4, <2>3 DEF EmptiesInv, NothingForgotten, W!In, Expires
    <3>1. i \in DOMAIN stack /\ stack'[i] = stack[i] BY <2>2, <2>3, <2>4
    <3>2. j \in W!In(stack[i].dir) BY <3>1 DEF W!In
    <3>3. CASE i < Len(stack)
      <4>1. i + 1 \in DOMAIN stack BY <1>2, <3>1, <3>3
      <4>2. i < Len(stack) + 1 /\ i # Len(stack) BY <1>2, <3>1, <3>3
      <4> QED BY <1>0, <2>3, <3>1, <3>2, <4>1, <4>2 DEF EmptiesInv, NothingForgotten
    <3>4. CASE i = Len(stack)
      <4>1. i < Len(stack) + 1 /\ stack'[i + 1].name = looked.name BY <1>2, <2>2, <2>3, <3>4
      <4>2. ~(i < Len(stack)) BY <1>2, <3>4
      <4> QED BY <1>0, <3>1, <3>2, <4>1, <4>2 DEF EmptiesInv, NothingForgotten
    <3> QED BY <1>2, <3>1, <3>3, <3>4
  <2>10. W!CleanIsTrue' BY <1>0, <1>1, <1>2, <1>4, <2>3 DEF W!CleanIsTrue
  <2> QED BY <2>5, <2>6, <2>7, <2>8, <2>9, <2>10 DEF WalkInv
<1> QED BY <1>2, <1>3, <1>4 DEF W!Descend, W!OpenDir, W!Fail, W!Deep, W!Cur

\* The walk leaves the top frame: nothing changed, or a directory is gone.
LEMMA UpKeeps == ASSUME WalkInv, W!Up PROVE WalkInv'
<1> DEFINE l == Len(stack)
           cur == stack[l]
           below == stack[l - 1]
           k == W!Entry(below.dir, cur.name)
           gone == k # None /\ k \in W!Dirs /\ W!In(k) = {}
<1>0. WalkTypes /\ InsideInv /\ PathInv /\ SparesInv /\ EmptiesInv /\ W!CleanIsTrue BY DEF WalkInv
<1>1. /\ walkState = "walk" /\ looked = None /\ l > 1 /\ stack' = SubSeq(stack, 1, l - 1)
      /\ UNCHANGED <<walkOp, keep, looked, walkState, deeper, inside, agent>>
  BY DEF W!Up
<1>2. \/ ~W!Rmdir(cur) /\ UNCHANGED <<at, removed, walkFails>>
      \/ /\ W!Rmdir(cur) /\ gone
         /\ at' = [at EXCEPT ![k] = None] /\ removed' = removed \cup {k} /\ UNCHANGED walkFails
      \/ /\ W!Rmdir(cur) /\ ~gone /\ UNCHANGED <<at, removed>>
         /\ walkFails' = walkFails + (IF k = None \/ (walkOp = "nested" /\ l = 2) THEN 0 ELSE 1)
  BY DEF W!Up, W!Cur
<1>3. /\ l \in Nat \ {0} /\ DOMAIN stack = 1..l /\ l \in DOMAIN stack /\ l - 1 \in DOMAIN stack
      /\ walkFails \in Nat /\ deeper \in Nat
  BY <1>0, <1>1, FrameFacts DEF WalkTypes, W!TypeOK
<1>4. below.dir \in W!Dirs /\ cur.name \in W!Names /\ below.dir \in inside \cup {"top"} /\ cur.dir \in W!Nodes
  <2>1. l - 1 = 1 \/ l - 1 > 1 BY <1>1, <1>3
  <2>2. cur.name \in W!Names /\ cur.dir \in inside BY <1>0, <1>1, <1>3 DEF InsideInv
  <2>3. below.dir \in inside \cup {"top"} BY <1>0, <1>3, <2>1 DEF InsideInv, WalkTypes
  <2>4. below.dir \in W!Dirs /\ inside \subseteq W!Nodes BY <1>0, <1>3, FrameFacts DEF WalkTypes, W!TypeOK
  <2> QED BY <2>2, <2>3, <2>4
<1>5. /\ k # None => k \in W!Nodes /\ at[k] = <<below.dir, cur.name>>
      /\ \A j \in W!Nodes : at[j] = <<below.dir, cur.name>> => k = j
  BY <1>0, <1>4, EntryIs
<1> HIDE DEF k
<1>6. k # None => at[k][1] = below.dir /\ at[k] # None /\ k \in inside
  <2> SUFFICES ASSUME k # None PROVE at[k][1] = below.dir /\ at[k] # None /\ k \in inside OBVIOUS
  <2>1. <<below.dir, cur.name>> # None BY <1>4, WalkSets DEF W!Slots
  <2>2. at[k] = <<below.dir, cur.name>> BY <1>5
  <2> HIDE DEF below, cur
  <2>3. at[k][1] = below.dir /\ at[k] # None BY <2>1, <2>2
  <2> QED BY <1>0, <1>4, <1>5, <2>3 DEF InsideInv
<1>7. Expires /\ k # None => k = cur.dir
  <2>1. Expires => at[cur.dir] = <<below.dir, cur.name>> BY <1>0, <1>1, <1>3 DEF PathInv
  <2> QED BY <1>4, <1>5, <2>1
<1>8. /\ stack' \in Seq(Frames) /\ Len(stack') = l - 1 /\ DOMAIN stack' = 1..(l - 1)
      /\ \A i \in 1..(l - 1) : i \in DOMAIN stack /\ stack'[i] = stack[i]
  BY <1>0, <1>1, <1>3 DEF WalkTypes
<1>9. Expires' <=> Expires BY <1>1 DEF Expires
<1>10. stack'[1].dir = "top" /\ Len(stack') >= 1 BY <1>0, <1>1, <1>3, <1>8 DEF WalkTypes
<1>11. walkFails' \in Nat /\ (walkFails' = 0 => walkFails = 0)
  BY <1>2, <1>3
<1>12. EmptiesInv'
  <2> SUFFICES ASSUME walkFails' = 0, agent = 0, ~Expires, NEW i \in 1..(l - 1), stack'[i].listed,
                      NEW j \in W!Nodes, at'[j] # None, at'[j][1] = stack'[i].dir
               PROVE  \/ at'[j][2] \in stack'[i].todo
                      \/ i < l - 1 /\ stack'[i + 1].name = at'[j][2]
    BY <1>1, <1>8, <1>9 DEF EmptiesInv, NothingForgotten, W!In
  <2>1. W!Rmdir(cur) /\ walkOp # "nested" BY DEF W!Rmdir, Expires
  <2>2. k = None \/ gone BY <1>2, <1>3, <2>1
  <2>3. at'[j] = at[j] /\ (k # None => j # k)
    <3>1. CASE k = None BY <1>2, <2>1, <3>1
    <3>2. CASE k # None
      <4>1. at' = [at EXCEPT ![k] = None] BY <1>2, <2>1, <2>2, <3>2
      <4> QED BY <1>0, <1>1, <1>5, <3>2, <4>1, NodeGoes
    <3> QED BY <3>1, <3>2
  <2>4. stack'[i] = stack[i] /\ i \in DOMAIN stack /\ i # l
    <3>1. stack'[i] = stack[i] /\ i \in DOMAIN stack BY <1>8
    <3>2. i # l BY <1>3
    <3> QED BY <3>1, <3>2
  <2>5. j \in W!In(stack[i].dir) /\ stack[i].listed BY <2>3, <2>4 DEF W!In
  <2>6. at[j][2] \in stack[i].todo \/ stack[i + 1].name = at[j][2]
    BY <1>0, <1>11, <2>4, <2>5 DEF EmptiesInv, NothingForgotten
  <2>7. CASE i < l - 1
    <3>1. i + 1 \in 1..(l - 1) BY <1>3, <2>7
    <3> QED BY <1>8, <2>3, <2>4, <2>6, <2>7, <3>1
  <2>8. CASE i = l - 1
    <3>1. i + 1 = l BY <1>3, <2>8
    <3>2. at[j] # <<below.dir, cur.name>> BY <1>5, <2>3, WalkSets
    <3>3. at[j][1] = below.dir /\ at[j] # None BY <2>3, <2>4, <2>8
    <3>4. at[j][2] # cur.name BY <1>0, <3>2, <3>3 DEF WalkTypes, W!TypeOK, W!Slots
    <3>5. stack[i + 1].name = cur.name BY <3>1
    <3>6. at[j][2] \in stack'[i].todo BY <2>4, <2>6, <3>4, <3>5
    <3> QED BY <2>3, <3>6
  <2>9. i < l - 1 \/ i = l - 1
    <3>1. l \in Nat BY <1>3
    <3> HIDE DEF l
    <3> QED BY <3>1
  <2> QED BY <2>7, <2>8, <2>9
<1>13. W!CleanIsTrue' BY <1>0, <1>1, <1>3, <1>8 DEF W!CleanIsTrue
<1>14. \A i \in 1..(l - 1) : i > 1 => stack'[i].dir \in W!Nodes /\ stack'[i].dir \in inside
                                      /\ stack'[i].name \in W!Names
  BY <1>0, <1>8 DEF InsideInv, WalkTypes, W!TypeOK
<1>15. CASE UNCHANGED <<at, removed>>
  <2>1. WalkTypes' BY <1>0, <1>1, <1>8, <1>10, <1>11, <1>15 DEF WalkTypes, W!TypeOK
  <2>2. InsideInv' BY <1>0, <1>1, <1>8, <1>14, <1>15 DEF InsideInv, W!RemovesOnlyItsOwn
  <2>3. PathInv'
    <3>1. CASE ~Expires BY <1>0, <1>1, <1>9, <3>1 DEF PathInv
    <3>2. CASE Expires
      <4>1. ASSUME NEW i \in 1..(l - 1), i > 1
            PROVE  at[stack'[i].dir] = <<stack'[i - 1].dir, stack'[i].name>>
        <5>1. i - 1 \in 1..(l - 1) BY <1>3, <4>1
        <5> QED BY <1>0, <1>8, <3>2, <4>1, <5>1 DEF PathInv
      <4>2. \A i, j \in 1..(l - 1) : stack'[i].dir = stack'[j].dir => i = j
        BY <1>0, <1>8, <3>2 DEF PathInv
      <4>3. agent = 0 BY <1>0, <3>2 DEF PathInv
      <4> QED BY <1>1, <1>8, <1>9, <1>15, <3>2, <4>1, <4>2, <4>3 DEF PathInv
    <3> QED BY <3>1, <3>2
  <2>4. SparesInv'
    <3>1. \A i \in 1..(l - 1) : stack'[i] = stack[i] /\ i \in DOMAIN stack BY <1>8
    <3>2. \A n : Free(n)' <=> Free(n) BY <1>1, <1>15, PlacesStay
    <3> QED BY <1>0, <1>1, <1>8, <1>9, <1>15, <3>1, <3>2 DEF SparesInv
  <2> QED BY <1>12, <1>13, <2>1, <2>2, <2>3, <2>4 DEF WalkInv
<1>16. CASE W!Rmdir(cur) /\ gone /\ at' = [at EXCEPT ![k] = None] /\ removed' = removed \cup {k}
  <2>1. /\ at' \in [W!Nodes -> W!Slots \cup {None}] /\ at'[k] = None
        /\ \A j \in W!Nodes : j # k => at'[j] = at[j]
        /\ \A i, j \in W!Nodes : at'[j] # None /\ at'[i] = at'[j] => i = j
        /\ \A n \in W!Nodes : Free(n) => Free(n)'
    BY <1>0, <1>1, <1>5, <1>16, NodeGoes
  <2>2. k \notin keep
    <3>1. CASE ~Expires BY <1>0, <3>1 DEF PathInv
    <3>2. CASE Expires /\ walkOp = "nested" /\ l = 2 BY <1>7, <1>16, <3>2 DEF W!Rmdir
    <3>3. CASE Expires /\ ~(walkOp = "nested" /\ l = 2)
      <4>1. Free(cur.dir) BY <1>0, <1>1, <1>3, <3>3 DEF SparesInv
      <4> QED BY <1>7, <1>16, <3>3, <4>1, FreeIsNotKept
    <3> QED BY <3>1, <3>2, <3>3
  <2>3. WalkTypes' BY <1>0, <1>1, <1>5, <1>8, <1>10, <1>11, <1>16, <2>1 DEF WalkTypes, W!TypeOK
  <2>4. InsideInv'
    <3>1. removed' \cap W!Nodes \subseteq inside \ keep
      BY <1>0, <1>5, <1>6, <1>16, <2>2 DEF InsideInv, W!RemovesOnlyItsOwn
    <3>2. \A j \in W!Nodes : at'[j] # None /\ at'[j][1] \in inside \cup {"top"} => j \in inside
      BY <1>0, <2>1 DEF InsideInv
    <3> QED BY <1>1, <1>8, <1>14, <3>1, <3>2 DEF InsideInv, W!RemovesOnlyItsOwn
  <2>5. PathInv'
    <3>1. CASE ~Expires BY <1>0, <1>1, <1>9, <3>1 DEF PathInv
    <3>2. CASE Expires
      <4>1. \A i \in 1..(l - 1) : stack'[i].dir # k BY <1>0, <1>3, <1>7, <1>8, <1>16, <3>2 DEF PathInv
      <4>2. ASSUME NEW i \in 1..(l - 1), i > 1
            PROVE  at'[stack'[i].dir] = <<stack'[i - 1].dir, stack'[i].name>>
        <5>1. i - 1 \in 1..(l - 1) BY <1>3, <4>2
        <5>2. at'[stack'[i].dir] = at[stack'[i].dir] BY <1>14, <2>1, <4>1, <4>2
        <5> QED BY <1>0, <1>8, <3>2, <4>2, <5>1, <5>2 DEF PathInv
      <4>3. \A i, j \in 1..(l - 1) : stack'[i].dir = stack'[j].dir => i = j
        BY <1>0, <1>8, <3>2 DEF PathInv
      <4>4. agent = 0 BY <1>0, <3>2 DEF PathInv
      <4> QED BY <1>1, <1>8, <1>9, <3>2, <4>2, <4>3, <4>4 DEF PathInv
    <3> QED BY <3>1, <3>2
  <2>6. SparesInv'
    <3> SUFFICES ASSUME Expires PROVE SparesInv' BY <1>9 DEF SparesInv
    <3>1. \A i \in 1..(l - 1) : i > (IF walkOp = "nested" THEN 2 ELSE 1) => Free(stack[i].dir)'
      <4>1. \A n \in W!Nodes : Free(n) => Free(n)' BY <2>1
      <4>2. \A i \in 1..(l - 1) : i > (IF walkOp = "nested" THEN 2 ELSE 1) =>
               Free(stack[i].dir) /\ i > 1
        BY <1>0, <1>8 DEF SparesInv
      <4>3. \A i \in 1..(l - 1) : stack'[i] = stack[i] /\ (i > 1 => stack'[i].dir \in W!Nodes)
        BY <1>8, <1>14
      <4> QED BY <4>1, <4>2, <4>3
    <3>2. walkOp = "sweep" => \A j \in keep : at'[j] # None /\ at'[j][1] = "top"
      <4>1. keep \subseteq W!Nodes BY <1>0 DEF WalkTypes, W!TypeOK
      <4>2. \A j \in keep : at'[j] = at[j] BY <2>1, <2>2, <4>1
      <4> QED BY <1>0, <4>2 DEF SparesInv
    <3> QED BY <1>1, <1>8, <3>1, <3>2 DEF SparesInv
  <2> QED BY <1>12, <1>13, <2>3, <2>4, <2>5, <2>6 DEF WalkInv
<1> QED BY <1>2, <1>15, <1>16

LEMMA DoneKeeps == ASSUME WalkInv, NEW w \in BOOLEAN, W!Done(w) PROVE WalkInv'
<1>0. WalkTypes /\ InsideInv /\ PathInv /\ SparesInv /\ EmptiesInv /\ W!CleanIsTrue BY DEF WalkInv
<1>1. /\ looked = None /\ Len(stack) = 1 /\ stack[Len(stack)].listed /\ stack[Len(stack)].todo = {}
      /\ walkState' = "done"
      /\ UNCHANGED <<walkOp, at, keep, stack, looked, deeper, inside, agent>>
  BY DEF W!Done, W!Cur
<1>2. walkFails \in Nat /\ deeper \in Nat /\ removed \subseteq W!Nodes \cup {"top"} /\ stack[1].dir = "top"
  BY <1>0 DEF WalkTypes, W!TypeOK
<1>3. /\ walkFails' \in Nat /\ (walkFails' = 0 => walkFails = 0)
      /\ removed' \in {removed, removed \cup {"top"}}
      /\ walkFails' = 0 /\ walkOp = "remove" => W!In("top") = {}
  BY <1>2 DEF W!Done, W!Fail
<1>4. WalkTypes' BY <1>0, <1>1, <1>2, <1>3 DEF WalkTypes, W!TypeOK
<1>5. InsideInv' BY <1>0, <1>1, <1>3, WalkSets DEF InsideInv, W!RemovesOnlyItsOwn
<1>6. PathInv' BY <1>0, <1>1 DEF PathInv, Expires
<1>7. SparesInv' BY <1>0, <1>1, PlacesStay DEF SparesInv
<1>8. EmptiesInv' BY <1>0, <1>1, <1>3, PlacesStay DEF EmptiesInv, NothingForgotten
<1>9. W!CleanIsTrue'
  <2>1. walkFails' = 0 /\ agent = 0 /\ ~Expires => W!In("top") = {}
    <3> SUFFICES ASSUME walkFails' = 0, agent = 0, ~Expires, NEW j \in W!In("top") PROVE FALSE OBVIOUS
    <3>1. 1 \in DOMAIN stack /\ 1 = Len(stack) BY <1>0, <1>1, FrameFacts
    <3> QED BY <1>0, <1>1, <1>2, <1>3, <3>1 DEF EmptiesInv, NothingForgotten
  <2> QED BY <1>0, <1>1, <2>1, PlacesStay DEF W!CleanIsTrue, Expires
<1> QED BY <1>4, <1>5, <1>6, <1>7, <1>8, <1>9 DEF WalkInv

LEMMA AgentKeeps ==
    ASSUME WalkInv, NEW k \in W!Nodes, NEW slot \in W!Slots, W!Agent(k, slot)
    PROVE  WalkInv'
<1>0. WalkTypes /\ InsideInv /\ PathInv /\ SparesInv /\ EmptiesInv /\ W!CleanIsTrue BY DEF WalkInv
<1>1. /\ walkState = "walk" /\ agent < 2 /\ ~Expires /\ W!Entry(slot[1], slot[2]) = None
      /\ at' = [at EXCEPT ![k] = slot] /\ agent' = agent + 1
      /\ inside' = inside \cup (IF slot[1] \in W!Below("top") \cup inside THEN W!Below(k) \cap W!Nodes ELSE {})
      /\ UNCHANGED <<walkOp, keep, stack, looked, walkState, walkFails, deeper, removed>>
  BY DEF W!Agent, Expires
<1>2. slot[1] \in W!Dirs /\ slot[2] \in W!Names /\ slot = <<slot[1], slot[2]>> BY DEF W!Slots
<1>3. /\ at \in [W!Nodes -> W!Slots \cup {None}] /\ agent \in 0..2 /\ inside \subseteq W!Nodes
      /\ \A i, j \in W!Nodes : at[j] # None /\ at[i] = at[j] => i = j
  BY <1>0 DEF WalkTypes, W!TypeOK
<1>4. agent' \in 0..2 /\ agent' # 0 /\ (Expires' <=> Expires) BY <1>1, <1>3 DEF Expires
<1>5. /\ at' \in [W!Nodes -> W!Slots \cup {None}] /\ at'[k] = slot
      /\ \A j \in W!Nodes : j # k => at'[j] = at[j]
  BY <1>1, <1>3
<1>6. \A j \in W!Nodes : at[j] # slot BY <1>0, <1>1, <1>2, WalkSets, EntryIs
<1>7. \A i, j \in W!Nodes : at'[j] # None /\ at'[i] = at'[j] => i = j BY <1>3, <1>5, <1>6
<1>8. inside' \subseteq W!Nodes /\ inside \subseteq inside' BY <1>1, <1>3
<1>9. WalkTypes' BY <1>0, <1>1, <1>4, <1>5, <1>7, <1>8 DEF WalkTypes, W!TypeOK
<1>10. ASSUME NEW j \in W!Nodes, at'[j] # None, at'[j][1] \in inside' \cup {"top"} PROVE j \in inside'
  <2>1. k \in W!Below(k) /\ "top" \in W!Below("top") BY BelowKinds
  <2>2. CASE j = k BY <1>1, <1>5, <1>10, <2>1, <2>2
  <2>3. CASE j # k
    <3>1. at[j] # None /\ at[j][1] \in inside' \cup {"top"} BY <1>5, <1>10, <2>3
    <3>2. CASE at[j][1] \in inside \cup {"top"} BY <1>0, <1>8, <3>1, <3>2 DEF InsideInv
    <3>3. CASE at[j][1] \notin inside \cup {"top"}
      <4>1. at[j][1] \in W!Below(k) /\ inside' = inside \cup (W!Below(k) \cap W!Nodes) BY <1>1, <3>1, <3>3
      <4>2. at[j][1] \in W!Dirs BY <1>3, <3>1 DEF W!Slots
      <4>3. j \in W!In(at[j][1]) BY <3>1 DEF W!In
      <4> QED BY <4>1, <4>2, <4>3, BelowClosed
    <3> QED BY <3>2, <3>3
  <2> QED BY <2>2, <2>3
<1>11. InsideInv'
  <2>1. \A i \in DOMAIN stack : i > 1 => stack[i].dir \in inside' /\ stack[i].name \in W!Names
    BY <1>0, <1>8 DEF InsideInv
  <2>2. removed \cap W!Nodes \subseteq inside' \ keep BY <1>0, <1>8 DEF InsideInv, W!RemovesOnlyItsOwn
  <2> QED BY <1>1, <1>10, <2>1, <2>2 DEF InsideInv, W!RemovesOnlyItsOwn
<1>12. PathInv' BY <1>0, <1>1, <1>4 DEF PathInv
<1>13. SparesInv' /\ EmptiesInv' BY <1>1, <1>4 DEF SparesInv, EmptiesInv
<1>14. W!CleanIsTrue' BY <1>0, <1>1, <1>4 DEF W!CleanIsTrue
<1> QED BY <1>9, <1>11, <1>12, <1>13, <1>14 DEF WalkInv

LEMMA WalkStep == ASSUME WalkInv, W!Next PROVE WalkInv'
  BY ListKeeps, LookKeeps, UnlinkKeeps, MoveUpKeeps, DescendKeeps, UpKeeps, DoneKeeps, AgentKeeps
  DEF W!Next

LEMMA WalkStutter ==
    ASSUME WalkInv, UNCHANGED <<walkOp, at, keep, stack, looked, walkState, walkFails, deeper, removed, inside, agent>>
    PROVE  WalkInv'
<1>0. WalkTypes /\ InsideInv /\ PathInv /\ SparesInv /\ EmptiesInv /\ W!CleanIsTrue BY DEF WalkInv
<1>1. WalkTypes' /\ InsideInv' BY <1>0 DEF WalkTypes, W!TypeOK, InsideInv, W!RemovesOnlyItsOwn
<1>2. PathInv' BY <1>0 DEF PathInv, Expires
<1>3. SparesInv' BY <1>0, PlacesStay DEF SparesInv
<1>4. EmptiesInv' BY <1>0, PlacesStay DEF EmptiesInv, NothingForgotten
<1>5. W!CleanIsTrue' BY <1>0, PlacesStay DEF W!CleanIsTrue
<1> QED BY <1>1, <1>2, <1>3, <1>4, <1>5 DEF WalkInv

-----------------------------------------------------------------------------
(* What a user receives from the shared config directory (UserData).       *)

legacy == x1
homes == x2
copied == x3
marked == x4
failedFor == x5
migrating == x6
sessions == x7
aged == x8
expiring == x9
breaks == x10

USE DEF legacy, homes, copied, marked, failedFor, migrating, sessions, aged, expiring, breaks

OnlyOf(u, t) == {D!LinesOf[t][i].cwd : i \in DOMAIN D!LinesOf[t]} \subseteq {u, ""}
Remembers(u) == "memory" \in migrating[u] \/ copied[u]["memory"] # "none"

\* What a migration is to copy, or has copied, is the user's; memory goes to
\* the only user who had a workspace, and nobody else gets it after that.
DataInv ==
    /\ D!TypeOK
    /\ \A u \in D!Users, t \in D!Transcripts : t \in migrating[u] \/ copied[u][t] # "none" => OnlyOf(u, t)
    /\ \A u \in D!Users : Remembers(u) =>
          u \in homes /\ ~D!Foreign(u) /\ \A v \in D!Users : Remembers(v) => v = u

LEMMA DataSets ==
    /\ D!Transcripts \subseteq D!Entries /\ "memory" \in D!Entries /\ "memory" \notin D!Transcripts
    /\ "memory" \notin D!NoJob /\ D!NoJob \cap D!Transcripts = {} /\ D!Entries \cap D!NoJob = {}
    /\ \A u \in D!Users : D!Session[u] \in D!Transcripts /\ OnlyOf(u, D!Session[u])
    /\ "a" \in D!Users /\ "b" \in D!Users /\ "a" # "b"
<1>1. OnlyOf("a", "ta")
  <2> DEFINE l == D!LinesOf["ta"]
  <2>1. PICK none : none = "" OBVIOUS
  <2>2. l = <<D!Line("a", "user"), D!Line("a", "tool_result"), D!Line(none, "other"), D!Line("a", "user")>>
    BY <2>1, Zenon DEF D!LinesOf
  <2> HIDE DEF l
  <2>3. /\ DOMAIN l = 1..4 /\ l[1] = D!Line("a", "user") /\ l[2] = D!Line("a", "tool_result")
        /\ l[3] = D!Line(none, "other") /\ l[4] = D!Line("a", "user")
    BY <2>2
  <2>4. \A i \in 1..4 : i = 1 \/ i = 2 \/ i = 3 \/ i = 4 OBVIOUS
  <2>5. \A c, y : D!Line(c, y).cwd = c BY DEF D!Line
  <2>6. \A i \in DOMAIN l : l[i].cwd \in {"a", none} BY <2>3, <2>4, <2>5
  <2> QED BY <2>1, <2>6, Zenon DEF OnlyOf, l
<1>2. OnlyOf("b", "tb")
  <2> DEFINE l == D!LinesOf["tb"]
  <2>1. l = <<D!Line("b", "user"), D!Line("b", "meta")>> BY DEF D!LinesOf
  <2> HIDE DEF l
  <2>2. DOMAIN l = 1..2 /\ l[1].cwd = "b" /\ l[2].cwd = "b"
    BY <2>1 DEF D!Line
  <2>3. \A i \in 1..2 : i = 1 \/ i = 2 OBVIOUS
  <2>4. \A i \in DOMAIN l : l[i].cwd \in {"b", ""} BY <2>2, <2>3
  <2> QED BY <2>4 DEF OnlyOf, l
<1> QED BY <1>1, <1>2 DEF D!Transcripts, D!Entries, D!NoJob, D!Users, D!Session

\* A transcript that counts has no line of another's workspace.
LEMMA CountedIsOwn ==
    ASSUME NEW u \in D!Users, NEW t \in D!Transcripts, D!Count(D!LinesOf[t], u) >= 0
    PROVE  OnlyOf(u, t)
<1>1. {i \in DOMAIN D!LinesOf[t] : D!Bars(D!LinesOf[t][i], u)} = {}
  BY DEF D!Count, D!Corrupt, D!Mismatch
<1>2. \A i \in DOMAIN D!LinesOf[t] : D!LinesOf[t][i].cwd \in {"", u} BY <1>1 DEF D!Bars
<1> QED BY <1>2 DEF OnlyOf

LEMMA DataImplies == ASSUME DataInv PROVE D!TypeOK /\ D!MigratedIsOwn
<1>1. ~\A u \in D!Users : copied[u]["memory"] # "none" BY DataSets DEF DataInv, Remembers
<1> QED BY <1>1 DEF DataInv, D!MigratedIsOwn, OnlyOf, Remembers

LEMMA DataInit == ASSUME D!Init PROVE DataInv
  BY DataSets DEF D!Init, DataInv, D!TypeOK, Remembers

\* Steps that copy nothing and begin no migration.
LEMMA DataSmaller ==
    ASSUME DataInv, UNCHANGED legacy, homes' = homes, D!TypeOK',
           \A u \in D!Users : /\ \A e \in D!Entries : e \in migrating'[u] => e \in migrating[u]
                              /\ \A e \in D!Entries : copied'[u][e] # "none" => copied[u][e] # "none" \/ e \in migrating[u]
    PROVE  DataInv'
<1>1. \A u \in D!Users : /\ Remembers(u)' => Remembers(u)
                         /\ D!Foreign(u)' <=> D!Foreign(u)
  BY DataSets DEF Remembers, D!Foreign
<1>2. \A u \in D!Users, t \in D!Transcripts :
         t \in migrating'[u] \/ copied'[u][t] # "none" => t \in migrating[u] \/ copied[u][t] # "none"
  BY DataSets
<1> QED BY <1>1, <1>2 DEF DataInv

Stages == {"none", "part", "cut", "whole", "cli"}

\* One entry of one user changes.
LEMMA CopyChanges ==
    ASSUME D!TypeOK, NEW u \in D!Users, NEW e \in D!Entries, NEW k \in Stages,
           copied' = [copied EXCEPT ![u][e] = k]
    PROVE  /\ copied' \in [D!Users -> [D!Entries -> Stages]] /\ copied'[u][e] = k
           /\ \A v \in D!Users : \A f \in D!Entries : (v # u \/ f # e) => copied'[v][f] = copied[v][f]
<1>1. copied \in [D!Users -> [D!Entries -> Stages]] BY DEF D!TypeOK, Stages
<1>2. copied[u] \in [D!Entries -> Stages] BY <1>1
<1>3. [copied[u] EXCEPT ![e] = k] \in [D!Entries -> Stages] BY <1>2
<1>4. copied' = [copied EXCEPT ![u] = [copied[u] EXCEPT ![e] = k]] OBVIOUS
<1> QED BY <1>1, <1>2, <1>3, <1>4

LEMMA ScanKeeps == ASSUME DataInv, NEW u \in D!Users, D!Scan(u) PROVE DataInv'
<1> DEFINE new == D!Own(u) \cup (IF D!TakesMemory(u) THEN {"memory"} ELSE {})
<1>1. /\ homes' = homes \cup {u} /\ migrating' = [migrating EXCEPT ![u] = new]
      /\ migrating[u] = D!NoJob
      /\ UNCHANGED <<legacy, copied, marked, failedFor, sessions, aged, expiring, breaks>>
  BY DEF D!Scan, D!retention
<1>2. new \subseteq D!Entries BY DataSets DEF D!Own
<1>3. migrating \in [D!Users -> SUBSET (D!Entries \cup D!NoJob)] BY DEF DataInv, D!TypeOK
<1>4. /\ migrating'[u] = new /\ \A v \in D!Users : v # u => migrating'[v] = migrating[v]
      /\ migrating' \in [D!Users -> SUBSET (D!Entries \cup D!NoJob)]
  BY <1>1, <1>2, <1>3
<1>5. D!TypeOK' BY <1>1, <1>4 DEF DataInv, D!TypeOK
<1>6. \A v \in D!Users, t \in D!Transcripts : t \in migrating'[v] \/ copied'[v][t] # "none" => OnlyOf(v, t)
  <2>1. \A t \in D!Transcripts : t \in new => OnlyOf(u, t) BY CountedIsOwn, DataSets DEF D!Own
  <2> QED BY <1>1, <1>4, <2>1 DEF DataInv
<1>7. \A v \in D!Users : D!Foreign(v)' <=> D!Foreign(v) BY <1>1 DEF D!Foreign
<1>8. "memory" \in new => D!TakesMemory(u) BY DataSets DEF D!Own
<1>9. \A v \in D!Users : v # u => (Remembers(v)' <=> Remembers(v)) BY <1>1, <1>4 DEF Remembers
<1>10. Remembers(u)' => Remembers(u) \/ D!TakesMemory(u) BY <1>1, <1>4, <1>8 DEF Remembers
<1>11. ASSUME NEW v \in D!Users, Remembers(v)'
       PROVE  v \in homes' /\ ~D!Foreign(v) /\ \A w \in D!Users : Remembers(w)' => w = v
  <2>1. CASE ~D!TakesMemory(u)
    <3>1. \A w \in D!Users : Remembers(w)' => Remembers(w) BY <1>9, <1>10, <2>1
    <3> QED BY <1>1, <1>11, <3>1 DEF DataInv
  <2>2. CASE D!TakesMemory(u)
    <3>1. ~D!Foreign(u) /\ homes \subseteq {u} BY <2>2 DEF D!TakesMemory
    <3>2. \A w \in D!Users : Remembers(w)' => w = u BY <1>9, <3>1 DEF DataInv
    <3> QED BY <1>1, <1>11, <3>1, <3>2
  <2> QED BY <2>1, <2>2
<1> QED BY <1>5, <1>6, <1>7, <1>11 DEF DataInv

LEMMA CopyKeeps ==
    ASSUME DataInv, NEW u \in D!Users, NEW e \in D!Entries,
           D!CopyBegins(u, e) \/ D!CopyEnds(u, e) \/ D!PassOver(u, e)
    PROVE  DataInv'
<1>1. D!TypeOK BY DEF DataInv
<1>2. /\ copied' = copied \/ \E k \in Stages \ {"none"} : copied' = [copied EXCEPT ![u][e] = k]
      /\ migrating' = migrating \/ migrating' = [migrating EXCEPT ![u] = @ \ {e}]
      /\ e \in migrating[u]
      /\ UNCHANGED <<legacy, homes, marked, failedFor, sessions, aged, expiring, breaks>>
  BY DEF D!CopyBegins, D!CopyEnds, D!PassOver, D!retention, Stages
<1>3. copied' \in [D!Users -> [D!Entries -> Stages]]
      /\ \A v \in D!Users : \A f \in D!Entries :
            copied'[v][f] # "none" => copied[v][f] # "none" \/ f \in migrating[v]
  <2>1. CASE copied' = copied BY <1>1, <2>1 DEF D!TypeOK, Stages
  <2>2. CASE \E k \in Stages \ {"none"} : copied' = [copied EXCEPT ![u][e] = k]
    <3>1. PICK k \in Stages \ {"none"} : copied' = [copied EXCEPT ![u][e] = k] BY <2>2
    <3>2. /\ copied' \in [D!Users -> [D!Entries -> Stages]]
          /\ \A v \in D!Users : \A f \in D!Entries : (v # u \/ f # e) => copied'[v][f] = copied[v][f]
      BY <1>1, <3>1, CopyChanges
    <3> QED BY <1>2, <3>2
  <2> QED BY <1>2, <2>1, <2>2
<1>4. /\ migrating' \in [D!Users -> SUBSET (D!Entries \cup D!NoJob)]
      /\ \A v \in D!Users : \A f \in D!Entries : f \in migrating'[v] => f \in migrating[v]
  BY <1>1, <1>2 DEF D!TypeOK
<1>5. D!TypeOK' BY <1>1, <1>2, <1>3, <1>4 DEF D!TypeOK, Stages
<1> QED BY <1>2, <1>3, <1>4, <1>5, DataSmaller

LEMMA MigrationKeeps ==
    ASSUME DataInv, NEW u \in D!Users, D!Mark(u) \/ D!MigrationFails(u) \/ D!Crash
    PROVE  DataInv'
<1>1. D!TypeOK BY DEF DataInv
<1>2. \A U : /\ D!CutOff(U) \in [D!Users -> [D!Entries -> {"none", "part", "cut", "whole", "cli"}]]
             /\ \A v \in D!Users : \A f \in D!Entries : D!CutOff(U)[v][f] # "none" => copied[v][f] # "none"
  BY <1>1 DEF D!TypeOK, D!CutOff
<1>3. \/ copied' = copied \/ \E U : copied' = D!CutOff(U)
  BY DEF D!Mark, D!MigrationFails, D!Crash
<1>4. /\ copied' \in [D!Users -> [D!Entries -> {"none", "part", "cut", "whole", "cli"}]]
      /\ \A v \in D!Users : \A f \in D!Entries : copied'[v][f] # "none" => copied[v][f] # "none"
  BY <1>1, <1>2, <1>3 DEF D!TypeOK
<1>5. /\ migrating' \in [D!Users -> SUBSET (D!Entries \cup D!NoJob)]
      /\ \A v \in D!Users : \A f \in D!Entries : f \in migrating'[v] => f \in migrating[v]
  <2>1. migrating' = [migrating EXCEPT ![u] = D!NoJob] \/ migrating' = [v \in D!Users |-> D!NoJob]
    BY DEF D!Mark, D!MigrationFails, D!Crash
  <2>2. migrating \in [D!Users -> SUBSET (D!Entries \cup D!NoJob)] BY <1>1 DEF D!TypeOK
  <2>3. \A v \in D!Users : migrating'[v] = migrating[v] \/ migrating'[v] = D!NoJob BY <2>1, <2>2
  <2>4. migrating' \in [D!Users -> SUBSET (D!Entries \cup D!NoJob)] BY <2>1, <2>2
  <2> QED BY <2>3, <2>4, DataSets
<1>6. UNCHANGED <<legacy, homes>> BY DEF D!Mark, D!MigrationFails, D!Crash
<1>7. /\ marked' \subseteq D!Users /\ failedFor' \subseteq D!Users /\ breaks' \in 0..1
      /\ sessions' \in [D!Users -> {"none", "new", "resumed", "refused"}]
      /\ aged' = aged /\ expiring' = expiring
  BY <1>1 DEF D!TypeOK, D!Mark, D!MigrationFails, D!Crash, D!retention
<1>8. D!TypeOK' BY <1>1, <1>4, <1>5, <1>6, <1>7 DEF D!TypeOK
<1> QED BY <1>4, <1>5, <1>6, <1>8, DataSmaller

LEMMA SessionKeeps ==
    ASSUME DataInv, NEW u \in D!Users,
           \/ D!EndSession(u) \/ D!Age(u) \/ D!SweepBegins(u)
           \/ \E r \in BOOLEAN, b \in {"answers", "refuses", "away"} : D!StartSession(u, r, b)
    PROVE  DataInv'
<1>1. D!TypeOK BY DEF DataInv
<1>2. UNCHANGED <<legacy, homes, copied, marked, failedFor, migrating, breaks>>
  BY DEF D!EndSession, D!Age, D!SweepBegins, D!StartSession, D!migration
<1>3. sessions' \in [D!Users -> {"none", "new", "resumed", "refused"}]
  BY <1>1 DEF D!TypeOK, D!EndSession, D!Age, D!SweepBegins, D!StartSession, D!Answers
<1>4. aged' \subseteq D!Users /\ expiring' \subseteq D!Users
  BY <1>1 DEF D!TypeOK, D!EndSession, D!Age, D!SweepBegins, D!StartSession, D!retention
<1>5. D!TypeOK' BY <1>1, <1>2, <1>3, <1>4 DEF D!TypeOK
<1> QED BY <1>2, <1>5, DataSmaller

\* The CLI writes the session's transcript, which is the user's.
LEMMA WriterKeeps ==
    ASSUME DataInv, NEW u \in D!Users, D!Turn(u) \/ D!RemoveTranscript(u) \/ D!SweepEnds(u)
    PROVE  DataInv'
<1>1. D!TypeOK BY DEF DataInv
<1>2. UNCHANGED <<legacy, homes, marked, failedFor, migrating, sessions, breaks>>
  BY DEF D!Turn, D!RemoveTranscript, D!SweepEnds
<1>3. /\ copied' \in [D!Users -> [D!Entries -> Stages]]
      /\ \A v \in D!Users : \A f \in D!Entries :
            copied'[v][f] # "none" => copied[v][f] # "none" \/ (v = u /\ f = D!Session[u])
  <2> DEFINE OneChanges == \E k \in Stages : copied' = [copied EXCEPT ![u][D!Session[u]] = k]
  <2>1. copied[u][D!Session[u]] \in Stages BY <1>1, DataSets DEF D!TypeOK, Stages
  <2>2. copied' = copied \/ OneChanges
    BY <2>1 DEF D!Turn, D!RemoveTranscript, D!SweepEnds, Stages
  <2>3. CASE copied' = copied BY <1>1, <2>3 DEF D!TypeOK, Stages
  <2>4. CASE OneChanges
    <3>1. D!Session[u] \in D!Entries BY DataSets
    <3>3. PICK k \in Stages : copied' = [copied EXCEPT ![u][D!Session[u]] = k] BY <2>4
    <3>2. /\ copied' \in [D!Users -> [D!Entries -> Stages]]
          /\ \A v \in D!Users : \A f \in D!Entries :
                (v # u \/ f # D!Session[u]) => copied'[v][f] = copied[v][f]
      BY <1>1, <3>1, <3>3, CopyChanges
    <3> QED BY <3>2
  <2> HIDE DEF OneChanges
  <2> QED BY <2>2, <2>3, <2>4
<1>4. aged' \subseteq D!Users /\ expiring' \subseteq D!Users
  BY <1>1 DEF D!TypeOK, D!Turn, D!RemoveTranscript, D!SweepEnds, D!retention
<1>5. D!TypeOK' BY <1>1, <1>2, <1>3, <1>4 DEF D!TypeOK, Stages
<1>6. \A v \in D!Users : /\ Remembers(v)' => Remembers(v)
                         /\ D!Foreign(v)' <=> D!Foreign(v)
  BY <1>2, <1>3, DataSets DEF Remembers, D!Foreign
<1>7. \A v \in D!Users, t \in D!Transcripts : t \in migrating'[v] \/ copied'[v][t] # "none" => OnlyOf(v, t)
  BY <1>2, <1>3, DataSets DEF DataInv
<1> QED BY <1>2, <1>5, <1>6, <1>7 DEF DataInv

LEMMA DataStep == ASSUME DataInv, D!Next PROVE DataInv'
  BY ScanKeeps, CopyKeeps, MigrationKeeps, SessionKeeps, WriterKeeps, DataSets DEF D!Next

LEMMA DataStutter ==
    ASSUME DataInv, UNCHANGED <<legacy, homes, copied, marked, failedFor, migrating, sessions, aged, expiring, breaks>>
    PROVE  DataInv'
<1>1. D!TypeOK' BY DEF DataInv, D!TypeOK
<1> QED BY <1>1, DataSmaller

\* A session is started over only where no transcript is.
LEMMA DataStartsOver == ASSUME DataInv, D!Next PROVE D!StartsOverNothing
<1> SUFFICES ASSUME NEW u \in D!Users, sessions'[u] = "new", sessions[u] # "new" PROVE ~D!Exists(u)
  BY DEF D!StartsOverNothing
<1>1. sessions \in [D!Users -> {"none", "new", "resumed", "refused"}] BY DEF DataInv, D!TypeOK
<1>2. ~UNCHANGED sessions OBVIOUS
<1>3. ~D!Crash BY DEF D!Crash
<1>4. PICK v \in D!Users : D!EndSession(v) \/
          \E r \in BOOLEAN, b \in {"answers", "refuses", "away"} : D!StartSession(v, r, b)
  BY <1>2, <1>3 DEF D!Next, D!Scan, D!Mark, D!MigrationFails, D!Turn, D!RemoveTranscript, D!Age,
     D!SweepBegins, D!SweepEnds, D!CopyBegins, D!CopyEnds, D!PassOver
<1>5. ~D!EndSession(v) BY <1>1 DEF D!EndSession
<1>6. PICK r \in BOOLEAN, b \in {"answers", "refuses", "away"} : D!StartSession(v, r, b) BY <1>4, <1>5
<1>7. v = u /\ D!Answers(u, r, b) = "new" BY <1>1, <1>6 DEF D!StartSession
<1> QED BY <1>7 DEF D!Answers

-----------------------------------------------------------------------------
(* The ownership a start of the container repairs (UidRegistry).           *)

rootMode == x9
uidBand == x10
recorded == x11
unread == x12
owner == x13
todo == x14
group == x15
passwd == x16
startAt == x17
starts == x18

USE DEF rootMode, uidBand, recorded, unread, owner, todo, group, passwd, startAt, starts

\* The app never gets the file with another name, nor gives up the base.
OwnInv == G!OwnershipTypes /\ G!AccountsAreSingle /\ owner["hard"] = G!RootUid /\ owner["base"] = G!App

EntryNames == {"cfg", "proj", "log", "hard", "base", "p"}

LEMMA OwnEntries == G!Entries = EntryNames BY DEF G!Entries, G!Up, EntryNames

LEMMA OwnInit == ASSUME G!OwnershipInit PROVE OwnInv
<1> USE OwnEntries
<1>1. /\ rootMode = "uid" /\ uidBand = SessionUids /\ recorded = {} /\ unread = FALSE /\ todo = {} /\ startAt = "up"
      /\ starts = 0 /\ passwd = {}
      /\ owner = [e \in G!Entries |-> CASE e = "hard" -> G!RootUid [] e \in {"cfg", "base"} -> G!App [] OTHER -> None]
  BY DEF G!OwnershipInit
<1>2. PICK u \in SessionUids, v \in SessionUids : group \in {{}, {[name |-> u, id |-> v]}} BY DEF G!OwnershipInit
<1>3. owner \in [G!Entries -> SessionUids \cup {G!App, G!RootUid, None}] /\ owner["hard"] = G!RootUid
      /\ owner["base"] = G!App
  BY <1>1 DEF EntryNames
<1>4. \A l \in group \cup passwd : l.id \in SessionUids /\ l.name \in SessionUids BY <1>1, <1>2
<1>5. G!AccountsAreSingle BY <1>1, <1>2 DEF G!AccountsAreSingle
<1>6. G!OwnershipTypes
  <2>1. unread \in BOOLEAN BY <1>1
  <2>2. starts \in 0..MaxStart BY <1>1, AccountAssumption
  <2> QED BY <1>1, <1>3, <1>4, <2>1, <2>2 DEF G!OwnershipTypes
<1> QED BY <1>3, <1>5, <1>6 DEF OwnInv

\* Nothing but the walk's progress changes.
LEMMA OwnerStays ==
    ASSUME OwnInv, UNCHANGED <<owner, group, passwd>>, recorded' \subseteq SessionUids, rootMode' \in {"uid", "off"},
           uidBand' \subseteq SessionUids, unread' \in BOOLEAN, todo' \subseteq G!Walked,
           startAt' \in {"walk", "group", "passwd", "up"}, starts' \in 0..MaxStart
    PROVE  OwnInv'
BY DEF OwnInv, G!OwnershipTypes, G!AccountsAreSingle

LEMMA StartsKeep ==
    ASSUME OwnInv, NEW m \in {"uid", "off"}, NEW b \in SUBSET SessionUids, G!Start(m, b) PROVE OwnInv'
<1>1. /\ UNCHANGED <<recorded, owner, group, passwd>> /\ rootMode' = m /\ uidBand' = b /\ unread' \in BOOLEAN
      /\ todo' = {e \in G!Walked : owner[e] # None} /\ startAt' = "walk" /\ starts < MaxStart /\ starts' = starts + 1
  BY DEF G!Start
<1>2. starts' \in 0..MaxStart BY <1>1, AccountAssumption DEF OwnInv, G!OwnershipTypes
<1>3. recorded' \subseteq SessionUids BY <1>1 DEF OwnInv, G!OwnershipTypes
<1> QED BY <1>1, <1>2, <1>3, OwnerStays

LEMMA DiesOrRecords ==
    ASSUME OwnInv, G!Dies \/ \E u \in SessionUids : G!Records(u) PROVE OwnInv'
<1>1. UNCHANGED <<owner, group, passwd, rootMode, uidBand, unread, starts>> BY DEF G!Dies, G!Records
<1>2. recorded' \subseteq SessionUids /\ todo' \subseteq G!Walked /\ startAt' \in {"walk", "group", "passwd", "up"}
  BY DEF G!Dies, G!Records, OwnInv, G!OwnershipTypes
<1> QED BY <1>1, <1>2, OwnerStays DEF OwnInv, G!OwnershipTypes

\* An entry of the walk becomes the app's, or a session makes an entry.
LEMMA OwnerChanges ==
    ASSUME OwnInv, UNCHANGED <<rootMode, uidBand, recorded, unread, group, passwd, starts>>,
           todo' \subseteq G!Walked, startAt' \in {"walk", "group", "passwd", "up"},
           NEW e \in EntryNames \ {"hard", "base"}, NEW u \in SessionUids \cup {G!App}, owner' = [owner EXCEPT ![e] = u]
    PROVE  OwnInv'
<1>1. owner' \in [G!Entries -> SessionUids \cup {G!App, G!RootUid, None}] /\ owner'["hard"] = owner["hard"]
      /\ owner'["base"] = owner["base"]
  BY OwnEntries DEF OwnInv, G!OwnershipTypes, EntryNames
<1> QED BY <1>1 DEF OwnInv, G!OwnershipTypes, G!AccountsAreSingle

LEMMA VisitKeeps == ASSUME OwnInv, NEW e \in G!Entries, G!Visit(e) PROVE OwnInv'
<1>1. /\ UNCHANGED <<rootMode, uidBand, recorded, unread, group, passwd, startAt, starts>> /\ e \in todo
      /\ todo' \subseteq todo
  BY DEF G!Visit
<1>2. todo \subseteq G!Walked /\ e \in EntryNames \ {"base"} BY <1>1 DEF OwnInv, G!OwnershipTypes, G!Walked, EntryNames
<1>3. CASE UNCHANGED owner BY <1>1, <1>2, <1>3, OwnerStays DEF OwnInv, G!OwnershipTypes
<1>4. CASE owner' = [owner EXCEPT ![e] = G!App] /\ ~(e = "hard" /\ owner[e] # G!App)
  <2>1. e # "hard" BY <1>4 DEF OwnInv, G!App, G!RootUid
  <2>2. todo' \subseteq G!Walked /\ startAt' \in {"walk", "group", "passwd", "up"}
    BY <1>1, <1>2 DEF OwnInv, G!OwnershipTypes
  <2> QED BY <1>1, <1>2, <1>4, <2>1, <2>2, OwnerChanges
<1> QED BY <1>3, <1>4 DEF G!Visit

LEMMA BaseKeeps == ASSUME OwnInv, G!PrepareConfigBase PROVE OwnInv'
<1>1. /\ UNCHANGED <<rootMode, uidBand, recorded, unread, todo, group, passwd, starts>>
      /\ startAt' \in {"group", "up"}
      /\ owner' = owner \/ owner' = [owner EXCEPT !["base"] = G!App]
  BY DEF G!PrepareConfigBase
<1>2. owner' = owner
  <2>1. owner["base"] = G!App /\ owner \in [G!Entries -> SessionUids \cup {G!App, G!RootUid, None}]
    BY DEF OwnInv, G!OwnershipTypes
  <2> QED BY <1>1, <2>1
<1> QED BY <1>1, <1>2, OwnerStays DEF OwnInv, G!OwnershipTypes

LEMMA SessionWritesKeeps ==
    ASSUME OwnInv, NEW u \in SessionUids, NEW e \in G!Entries, G!SessionWrites(u, e) PROVE OwnInv'
<1>1. /\ UNCHANGED <<rootMode, uidBand, recorded, unread, todo, group, passwd, startAt, starts>>
      /\ e \in {"proj", "log", "p"} /\ owner' = [owner EXCEPT ![e] = u]
  BY DEF G!SessionWrites
<1>2. todo' \subseteq G!Walked /\ startAt' \in {"walk", "group", "passwd", "up"}
  BY <1>1 DEF OwnInv, G!OwnershipTypes
<1> QED BY <1>1, <1>2, OwnerChanges DEF EntryNames

\* A line that is added takes no name and no id of another.
LEMMA AddedApart ==
    ASSUME OwnInv, NEW lines, \A k, l \in lines : k.name = l.name \/ k.id = l.id => k = l
    PROVE  /\ \A k, l \in lines \cup G!Missing(lines) : k.name = l.name \/ k.id = l.id => k = l
           /\ \A l \in G!Missing(lines) : l.id \in SessionUids \cup {G!Broker} /\ l.name \in SessionUids \cup {G!Broker}
<1>1. \A l \in G!Missing(lines) :
        \E u \in uidBand \cup {G!Broker} : l = [name |-> u, id |-> u] /\ \A k \in lines : k.id # u /\ k.name # u
  BY DEF G!Missing, G!Ids, G!Titles
<1>2. \A l \in G!Missing(lines) : /\ l = [name |-> l.name, id |-> l.name] /\ l.id = l.name
                                  /\ l.name \in uidBand \cup {G!Broker}
                                  /\ \A k \in lines : k.id # l.name /\ k.name # l.name
  BY <1>1
<1>3. \A l \in G!Missing(lines), k \in G!Missing(lines) : l.name = k.name => l = k BY <1>2
<1>4. uidBand \subseteq SessionUids BY DEF OwnInv, G!OwnershipTypes
<1> QED BY <1>2, <1>3, <1>4

LEMMA AccountsKeep == ASSUME OwnInv, G!WriteGroup \/ G!WritePasswd PROVE OwnInv'
<1>1. UNCHANGED <<rootMode, uidBand, recorded, unread, owner, todo, starts>> /\ startAt' \in {"passwd", "up"}
  BY DEF G!WriteGroup, G!WritePasswd
<1>2. /\ group' = group \/ group' = group \cup G!Missing(group)
      /\ passwd' = passwd \/ passwd' = passwd \cup G!Missing(passwd)
  BY DEF G!WriteGroup, G!WritePasswd
<1>3. /\ \A k, l \in group : k.name = l.name \/ k.id = l.id => k = l
      /\ \A k, l \in passwd : k.name = l.name \/ k.id = l.id => k = l
  BY DEF OwnInv, G!AccountsAreSingle
<1>4. /\ \A k, l \in group' : k.name = l.name \/ k.id = l.id => k = l
      /\ \A l \in group' : l.id \in SessionUids \cup {G!Broker} /\ l.name \in SessionUids \cup {G!Broker}
  BY <1>2, <1>3, AddedApart DEF OwnInv, G!OwnershipTypes
<1>5. /\ \A k, l \in passwd' : k.name = l.name \/ k.id = l.id => k = l
      /\ \A l \in passwd' : l.id \in SessionUids \cup {G!Broker} /\ l.name \in SessionUids \cup {G!Broker}
  BY <1>2, <1>3, AddedApart DEF OwnInv, G!OwnershipTypes
<1> QED BY <1>1, <1>4, <1>5 DEF OwnInv, G!OwnershipTypes, G!AccountsAreSingle

LEMMA OwnStep == ASSUME OwnInv, G!OwnershipNext PROVE OwnInv'
BY StartsKeep, VisitKeeps, BaseKeeps, AccountsKeep, DiesOrRecords, SessionWritesKeeps DEF G!OwnershipNext

LEMMA OwnStutter ==
    ASSUME OwnInv, UNCHANGED <<rootMode, uidBand, recorded, unread, owner, todo, group, passwd, startAt, starts>>
    PROVE  OwnInv'
BY DEF OwnInv, G!OwnershipTypes, G!AccountsAreSingle

\* Only a visit takes a file, and it spares who has a uid.
LEMMA OwnTakesNothing == ASSUME OwnInv, G!OwnershipNext PROVE G!TakesNothing
<1> SUFFICES ASSUME NEW e \in G!Entries, owner'[e] # owner[e], owner[e] # None
             PROVE  (owner[e] \in recorded => rootMode = "off" \/ unread) /\ e # "p" /\ e # "hard"
  BY DEF G!TakesNothing
<1>1. owner \in [G!Entries -> SessionUids \cup {G!App, G!RootUid, None}] /\ rootMode \in {"uid", "off"}
      /\ todo \subseteq G!Walked /\ owner["hard"] = G!RootUid /\ owner["base"] = G!App
  BY DEF OwnInv, G!OwnershipTypes
<1>2. CASE \E d \in G!Entries : G!Visit(d)
  <2>1. PICK d \in G!Entries : G!Visit(d) BY <1>2
  <2>2. /\ d \in todo /\ owner' = [owner EXCEPT ![d] = G!App] /\ owner[d] \notin G!SkipOwners
        /\ ~(d = "hard" /\ owner[d] # G!App)
    BY <2>1 DEF G!Visit
  <2>3. d = e BY <1>1, <2>2
  <2>4. e # "p" /\ e # "hard" BY <1>1, <2>2, <2>3 DEF G!Walked, G!App, G!RootUid
  <2>5. owner[e] \in recorded => rootMode # "uid" \/ unread BY <2>2, <2>3 DEF G!SkipOwners
  <2> QED BY <1>1, <2>4, <2>5
<1>3. CASE G!PrepareConfigBase BY <1>1, <1>3, OwnEntries DEF G!PrepareConfigBase, EntryNames
<1>4. CASE \E u \in SessionUids, d \in G!Entries : G!SessionWrites(u, d)
  BY <1>1, <1>4 DEF G!SessionWrites
<1> QED BY <1>2, <1>3, <1>4 DEF G!OwnershipNext, G!Start, G!WriteGroup, G!WritePasswd, G!Dies, G!Records

-----------------------------------------------------------------------------
(* The first creation of a workspace, and the sweep of the anonymous ones  *)
(* (WorkspaceDirs).                                                        *)

root == x1
claim == x2
resolverAt == x3
emptied == x4
back == x5
up == x6
registered == x7
dir == x8
sweep == x9
lost == x10

USE DEF root, claim, resolverAt, emptied, back, up, registered, dir, sweep, lost

Colors == {"blue", "green"}

\* Only who removed everything left a workspace that a publication replaces.
SeedingInv ==
    /\ V!SeededOnce /\ (root.there /\ ~root.seed /\ ~root.own => emptied)
    /\ root \in [there : BOOLEAN, seed : BOOLEAN, own : BOOLEAN] /\ emptied \in BOOLEAN /\ back \in BOOLEAN

\* What a sweep has found beside a live instance is its own, and a directory
\* keeps its instance.
SweepingInv ==
    /\ V!SweepSparesLive
    /\ sweep \in [Colors -> [pc : {"start", "list", "remove", "serving"}, others : SUBSET Colors,
                             found : SUBSET Members]]
    /\ dir \in [Members -> [there : BOOLEAN, by : Colors \cup {"none"}, live : BOOLEAN, old : BOOLEAN]]
    /\ registered \subseteq Colors
    /\ \A d \in Members : dir[d].by = "none" => ~dir[d].there /\ ~dir[d].live
    /\ \A i \in Colors :
          /\ i \notin sweep[i].others
          /\ sweep[i].pc \in {"start", "list", "serving"} => sweep[i].found = {}
          /\ \A d \in sweep[i].found : dir[d].by # "none" /\ (sweep[i].others # {} => dir[d].by = i)

LEMMA SeedingInit == V!Init => SeedingInv
<1> SUFFICES ASSUME V!Init PROVE SeedingInv OBVIOUS
<1>1. root = [there |-> FALSE, seed |-> FALSE, own |-> FALSE] /\ emptied = FALSE /\ back = FALSE
  BY DEF V!Init, V!Absent
<1> QED BY <1>1 DEF SeedingInv, V!SeededOnce

LEMMA SeedingKeeps == ASSUME SeedingInv, V!Seeding PROVE SeedingInv'
<1> USE DEF SeedingInv, V!SeededOnce
<1>1. CASE \E s, o \in BOOLEAN : V!Work([there |-> TRUE, seed |-> s, own |-> o])
  <2>1. PICK s \in BOOLEAN, o \in BOOLEAN : V!Work([there |-> TRUE, seed |-> s, own |-> o]) BY <1>1
  <2>2. /\ root' \in [there : BOOLEAN, seed : BOOLEAN, own : BOOLEAN] /\ root'.seed = s /\ root'.own = o
        /\ emptied' = (emptied \/ ~(s \/ o)) /\ back' = back
    BY <2>1 DEF V!Work
  <2>3. emptied' \in BOOLEAN /\ (emptied => emptied') /\ (~s /\ ~o => emptied') BY <2>2
  <2> QED BY <2>2, <2>3
<1>2. CASE V!ClaimAges BY <1>2 DEF V!ClaimAges
<1>3. CASE \E p \in Runs : V!Publish(p)
  <2>1. CASE UNCHANGED <<root, back, emptied>> BY <2>1
  <2>2. CASE /\ root' = [there |-> TRUE, seed |-> TRUE, own |-> FALSE] /\ back' = (back \/ root.there)
             /\ ~root.seed /\ ~root.own /\ emptied' = emptied
    BY <2>2
  <2> QED BY <1>3, <2>1, <2>2 DEF V!Publish
<1>4. CASE \E p \in Runs : \/ V!Look(p) \/ V!Claim(p) \/ V!Recheck(p) \/ V!PublishFails(p)
                           \/ V!Release(p) \/ V!Await(p) \/ V!Crash(p) \/ V!Again(p)
  <2>1. UNCHANGED <<root, emptied, back>>
    BY <1>4 DEF V!Look, V!Claim, V!Recheck, V!PublishFails, V!Release, V!Await, V!Crash, V!Again
  <2> QED BY <2>1
<1> QED BY <1>1, <1>2, <1>3, <1>4 DEF V!Seeding

LEMMA SeedingStutter == ASSUME SeedingInv, UNCHANGED <<root, claim, resolverAt, emptied, back>> PROVE SeedingInv'
BY DEF SeedingInv, V!SeededOnce

LEMMA SweepingInit == V!Init => SweepingInv
BY DEF V!Init, V!NoDir, V!Idle, SweepingInv, V!SweepSparesLive, Colors

\* One sweep changes.
LEMMA SweepChanges ==
    ASSUME SweepingInv, NEW i \in Colors, UNCHANGED <<dir, lost>>, registered' \subseteq Colors,
           NEW s \in [pc : {"start", "list", "remove", "serving"}, others : SUBSET Colors, found : SUBSET Members],
           sweep' = [sweep EXCEPT ![i] = s], i \notin s.others,
           s.pc \in {"start", "list", "serving"} => s.found = {},
           \A d \in s.found : dir[d].by # "none" /\ (s.others # {} => dir[d].by = i)
    PROVE  SweepingInv'
<1>1. \A j \in Colors : sweep'[j] = IF j = i THEN s ELSE sweep[j] BY DEF SweepingInv
<1> QED BY <1>1 DEF SweepingInv, V!SweepSparesLive

\* A directory changes and keeps its instance, or gets one.
LEMMA DirChanges ==
    ASSUME SweepingInv, sweep' = sweep, lost' = lost, registered' \subseteq Colors,
           dir' \in [Members -> [there : BOOLEAN, by : Colors \cup {"none"}, live : BOOLEAN, old : BOOLEAN]],
           \A d \in Members : dir'[d].by = dir[d].by \/ (dir[d].by = "none" /\ dir'[d].by # "none"),
           \A d \in Members : dir'[d].by = "none" => ~dir'[d].there /\ ~dir'[d].live
    PROVE  SweepingInv'
BY DEF SweepingInv, V!SweepSparesLive

LEMMA BesideOwn ==
    ASSUME NEW i \in Colors, NEW d \in Members, V!Sweepable(i, d)
    PROVE  dir[d].there /\ (sweep[i].others # {} => dir[d].by = i)
BY ONLY V!Sweepable(i, d), Zenon DEF V!Sweepable

LEMMA InstanceStarts == ASSUME SweepingInv, NEW i \in Colors, V!Start(i) PROVE SweepingInv'
<1>1. UNCHANGED <<dir, lost>> /\ sweep' = [sweep EXCEPT ![i] = V!Idle] BY DEF V!Start
<1>2. PICK none : registered' = registered \cup ({i} \ none) BY DEF V!Start
<1>3. registered' \subseteq Colors BY <1>2 DEF SweepingInv
<1>4. /\ V!Idle \in [pc : {"start", "list", "remove", "serving"}, others : SUBSET Colors, found : SUBSET Members]
      /\ V!Idle.found = {} /\ V!Idle.others = {}
  BY DEF V!Idle
<1> HIDE DEF V!Idle
<1> QED BY <1>1, <1>3, <1>4, SweepChanges

LEMMA LookAroundKeeps == ASSUME SweepingInv, NEW i \in Colors, V!LookAround(i) PROVE SweepingInv'
<1> DEFINE s == [sweep[i] EXCEPT !.pc = "list", !.others = registered \ {i}]
<1>1. UNCHANGED <<dir, lost, registered>> /\ sweep' = [sweep EXCEPT ![i] = s] /\ sweep[i].pc = "start"
  BY DEF V!LookAround, SweepingInv
<1>2. sweep[i].found = {} /\ sweep[i] \in [pc : {"start", "list", "remove", "serving"}, others : SUBSET Colors,
                                          found : SUBSET Members]
  BY <1>1 DEF SweepingInv
<1>3. /\ s \in [pc : {"start", "list", "remove", "serving"}, others : SUBSET Colors, found : SUBSET Members]
      /\ s.found = {} /\ s.others = registered \ {i}
  BY <1>2 DEF SweepingInv
<1> HIDE DEF s
<1> QED BY <1>1, <1>3, SweepChanges DEF SweepingInv

LEMMA SweepListKeeps == ASSUME SweepingInv, NEW i \in Colors, V!List(i) PROVE SweepingInv'
<1> DEFINE S == {d \in Members : V!Sweepable(i, d)}
           s == [sweep[i] EXCEPT !.pc = "remove", !.found = S]
<1>1. UNCHANGED <<dir, lost, registered>> /\ sweep' = [sweep EXCEPT ![i] = s]
  BY DEF V!List, SweepingInv
<1>2. \A d \in S : dir[d].there /\ (sweep[i].others # {} => dir[d].by = i) BY BesideOwn
<1>3. S \subseteq Members OBVIOUS
<1> HIDE DEF S
<1>4. sweep[i] \in [pc : {"start", "list", "remove", "serving"}, others : SUBSET Colors, found : SUBSET Members]
  BY DEF SweepingInv
<1>5. /\ s \in [pc : {"start", "list", "remove", "serving"}, others : SUBSET Colors, found : SUBSET Members]
      /\ s.found = S /\ s.others = sweep[i].others /\ s.pc = "remove"
  BY <1>3, <1>4
<1> HIDE DEF s
<1>6. \A d \in s.found : dir[d].by # "none" /\ (s.others # {} => dir[d].by = i)
  BY <1>2, <1>3, <1>5 DEF SweepingInv
<1>7. i \notin s.others /\ registered' \subseteq Colors BY <1>1, <1>5 DEF SweepingInv
<1> QED BY <1>1, <1>5, <1>6, <1>7, SweepChanges

LEMMA ServeKeeps == ASSUME SweepingInv, NEW i \in Colors, V!Serve(i) PROVE SweepingInv'
<1> DEFINE s == [sweep[i] EXCEPT !.pc = "serving"]
<1>1. UNCHANGED <<dir, lost, registered>> /\ sweep' = [sweep EXCEPT ![i] = s] /\ sweep[i].found = {}
  BY DEF V!Serve, SweepingInv
<1>2. sweep[i] \in [pc : {"start", "list", "remove", "serving"}, others : SUBSET Colors, found : SUBSET Members]
  BY DEF SweepingInv
<1>3. /\ s \in [pc : {"start", "list", "remove", "serving"}, others : SUBSET Colors, found : SUBSET Members]
      /\ s.found = {} /\ s.others = sweep[i].others
  BY <1>1, <1>2
<1> HIDE DEF s
<1> QED BY <1>1, <1>3, SweepChanges DEF SweepingInv

\* What a sweep beside a live instance removes is its own.
LEMMA SweepRemoveKeeps ==
    ASSUME SweepingInv, NEW i \in Colors, NEW d \in Members, V!Remove(i, d) PROVE SweepingInv'
<1>1. /\ d \in sweep[i].found /\ UNCHANGED registered
      /\ sweep' = [sweep EXCEPT ![i].found = @ \ {d}]
      /\ dir' = [dir EXCEPT ![d] = [dir[d] EXCEPT !.there = FALSE]]
      /\ lost' = IF ~dir[d].live THEN lost ELSE lost \cup {IF dir[d].by \in sweep[i].others THEN "seen" ELSE "new"}
  BY DEF V!Remove
<1>2. dir[d].by \notin sweep[i].others BY <1>1 DEF SweepingInv, Colors
<1>3. "seen" \notin lost' BY <1>1, <1>2 DEF SweepingInv, V!SweepSparesLive
<1>4. \A j \in Colors : /\ sweep'[j].pc = sweep[j].pc /\ sweep'[j].others = sweep[j].others
                        /\ sweep'[j].found \subseteq sweep[j].found
  BY <1>1 DEF SweepingInv
<1>5. \A e \in Members : dir'[e].by = dir[e].by /\ dir'[e].live = dir[e].live /\ (dir'[e].there => dir[e].there)
  BY <1>1 DEF SweepingInv
<1>6. sweep' \in [Colors -> [pc : {"start", "list", "remove", "serving"}, others : SUBSET Colors,
                             found : SUBSET Members]]
  BY <1>1 DEF SweepingInv
<1>7. dir' \in [Members -> [there : BOOLEAN, by : Colors \cup {"none"}, live : BOOLEAN, old : BOOLEAN]]
  BY <1>1 DEF SweepingInv
<1> QED BY <1>1, <1>3, <1>4, <1>5, <1>6, <1>7 DEF SweepingInv, V!SweepSparesLive

LEMMA RunsComeAndGo ==
    ASSUME SweepingInv, NEW i \in Colors, NEW d \in Members, V!Run(i, d) \/ V!EndRun(i, d) \/ V!DirAges(d) \/ V!Die(i)
    PROVE  SweepingInv'
<1>1. sweep' = sweep /\ lost' = lost BY DEF V!Run, V!EndRun, V!DirAges, V!Die
<1>4. registered' = registered \/ registered' = registered \ {i} BY DEF V!Run, V!EndRun, V!DirAges, V!Die
<1>2. dir' \in [Members -> [there : BOOLEAN, by : Colors \cup {"none"}, live : BOOLEAN, old : BOOLEAN]]
  <2>1. CASE V!Run(i, d) BY <2>1 DEF SweepingInv, V!Run
  <2>2. CASE V!EndRun(i, d)
    <3>1. dir[d] \in [there : BOOLEAN, by : Colors \cup {"none"}, live : BOOLEAN, old : BOOLEAN] BY DEF SweepingInv
    <3>2. PICK r \in [there : BOOLEAN, by : Colors \cup {"none"}, live : BOOLEAN, old : BOOLEAN] :
            dir' = [dir EXCEPT ![d] = r]
      BY <2>2, <3>1, Zenon DEF V!EndRun
    <3> QED BY <3>2 DEF SweepingInv
  <2>3. CASE V!DirAges(d) BY <2>3 DEF SweepingInv, V!DirAges
  <2>4. CASE V!Die(i)
    <3>1. \A e \in Members : [dir[e] EXCEPT !.live = FALSE] \in
            [there : BOOLEAN, by : Colors \cup {"none"}, live : BOOLEAN, old : BOOLEAN]
      BY DEF SweepingInv
    <3> QED BY <2>4, <3>1 DEF SweepingInv, V!Die
  <2> QED BY <2>1, <2>2, <2>3, <2>4
<1>3. \A e \in Members :
        \/ dir'[e].by = dir[e].by /\ (dir'[e].there => dir[e].there) /\ (dir'[e].live => dir[e].live)
        \/ dir[e].by = "none" /\ dir'[e].by # "none"
  BY DEF SweepingInv, V!Run, V!EndRun, V!DirAges, V!Die, Colors
<1>5. registered' \subseteq Colors BY <1>4 DEF SweepingInv
<1>6. \A e \in Members : dir'[e].by = "none" => ~dir'[e].there /\ ~dir'[e].live BY <1>3 DEF SweepingInv
<1>7. \A e \in Members : dir'[e].by = dir[e].by \/ (dir[e].by = "none" /\ dir'[e].by # "none")
  BY <1>3
<1> QED BY ONLY SweepingInv, <1>1, <1>2, <1>5, <1>6, <1>7, DirChanges

LEMMA SweepingKeeps == ASSUME SweepingInv, V!Sweeping PROVE SweepingInv'
<1>1. CASE \E i \in Colors : V!Start(i) \/ V!LookAround(i) \/ V!List(i) \/ V!Serve(i)
  BY <1>1, InstanceStarts, LookAroundKeeps, SweepListKeeps, ServeKeeps
<1>2. CASE \E i \in Colors : V!Die(i)
  <2>1. PICK i \in Colors : V!Die(i) BY <1>2
  <2>2. CASE Members = {} BY <2>1, <2>2 DEF V!Die, SweepingInv, V!SweepSparesLive
  <2> QED BY <2>1, <2>2, RunsComeAndGo
<1>3. CASE \E i \in Colors, d \in Members : V!Remove(i, d) \/ V!Run(i, d) \/ V!EndRun(i, d)
  BY <1>3, SweepRemoveKeeps, RunsComeAndGo
<1>4. CASE \E d \in Members : V!DirAges(d) BY <1>4, RunsComeAndGo DEF Colors
<1> QED BY <1>1, <1>2, <1>3, <1>4 DEF V!Sweeping, Colors

LEMMA SweepingStutter == ASSUME SweepingInv, UNCHANGED <<up, registered, dir, sweep, lost>> PROVE SweepingInv'
BY DEF SweepingInv, V!SweepSparesLive

-----------------------------------------------------------------------------
(* The mirror of a workspace's resources (WorkspaceDirs).                  *)

slot == x11
files == x12
mark == x13
mirrors == x14
wlock == x15
th == x16
inodes == x17
acts == x18

USE DEF slot, files, mark, mirrors, wlock, th, inodes, acts

Folders == {1, 2, 3}
Helpers == {"s", "t"}
Places == Folders \cup {0} \cup {-d : d \in Folders}
Thread == [pc : {"idle", "look", "migrate", "native", "mark", "open", "list", "sync", "clear", "grant"},
           v : Places, n : Folders \cup {0}, own : BOOLEAN, src : SUBSET {"a"}, dst : SUBSET {"a"}]

MirrorTyped ==
    /\ V!MirrorTypes
    /\ slot \in [{"vis", "nat"} -> Places] /\ th \in [Helpers -> Thread]

\* A thread works on directories while it has the lock; the one it changes is
\* one that carried the marker.
MirrorSafe ==
    /\ \A d \in Folders : mark[d] = "ours" => d \in mirrors
    /\ \A t \in Helpers :
          /\ th[t].pc = "idle" <=> wlock # t
          /\ th[t].pc \in {"list", "sync", "clear"} => th[t].n \in mirrors
          /\ th[t].pc \in {"list", "sync"} => th[t].v > 0

\* As long as the session does nothing: files are in the first directory and
\* in the mirror, and what a thread has seen of both is still so.
MirrorCalm == acts = 0 =>
    /\ \A d \in Folders : d # 1 /\ (d # slot["nat"] \/ mark[d] # "ours") => files[d]["a"] = 0
    /\ \A t \in Helpers :
          /\ th[t].pc \in {"list", "sync", "clear"} => th[t].n = slot["nat"] /\ mark[th[t].n] = "ours"
          /\ th[t].pc = "clear" => \A x \in {"a"} : files[th[t].n][x] # 0 => x \in th[t].dst
          /\ th[t].pc = "migrate" => th[t].n = slot["nat"] /\ th[t].own = V!Managed(slot["nat"])
          /\ th[t].pc = "grant" /\ th[t].v > 0 => th[t].n = slot["nat"] /\ V!Entries(slot["nat"]) = {}

MirrorInv == MirrorTyped /\ MirrorSafe /\ MirrorCalm

\* The constants of the instance are these.
LEMMA MirrorInit == ASSUME V!MirrorInit PROVE MirrorInv
<1>1. /\ slot \in {[vis |-> 0, nat |-> 0], [vis |-> 0, nat |-> 1], [vis |-> 1, nat |-> -1]}
      /\ files \in {[d \in Folders |-> [x \in {"a"} |-> 0]],
                    [d \in Folders |-> IF d = 1 THEN [x \in {"a"} |-> 1] ELSE [x \in {"a"} |-> 0]]}
      /\ mark = [d \in Folders |-> "none"] /\ mirrors = {} /\ wlock = "none"
      /\ th = [t \in Helpers |-> V!Resting] /\ inodes = 1 /\ acts = 0
  BY DEF V!MirrorInit, V!Empty, Folders, Helpers
<1>2. V!Resting \in Thread /\ V!Resting.pc = "idle" BY DEF V!Resting, Thread, Places, Folders
<1>3. slot \in [{"vis", "nat"} -> Places] /\ slot["vis"] \in Places /\ slot["nat"] \in Places
  BY <1>1 DEF Places, Folders
<1>4. files \in [Folders -> [{"a"} -> 0..3]] /\ \A d \in Folders : d # 1 => files[d]["a"] = 0 BY <1>1 DEF Folders
<1>5. th \in [Helpers -> Thread] /\ \A t \in Helpers : th[t].pc = "idle" BY <1>1, <1>2
<1>6. MirrorTyped BY <1>1, <1>3, <1>4, <1>5 DEF MirrorTyped, V!MirrorTypes, Folders, Helpers, Places
<1>7. MirrorSafe BY <1>1, <1>5 DEF MirrorSafe, Helpers, Folders
<1>8. MirrorCalm BY <1>1, <1>4, <1>5 DEF MirrorCalm, Helpers, Folders
<1> QED BY <1>6, <1>7, <1>8 DEF MirrorInv

LEMMA GrantMeets == ASSUME MirrorInv PROVE V!GrantSeesSingleNames
<1> SUFFICES ASSUME NEW t \in Helpers, th[t].pc = "grant", th[t].v > 0, acts = 0, NEW x \in V!Entries(th[t].v)
             PROVE  V!NamesOf(files[th[t].v][x]) = 1
  BY DEF V!GrantSeesSingleNames, Helpers
<1> DEFINE v == th[t].v
<1>1. v \in Folders BY DEF MirrorInv, MirrorTyped, Thread, Places, Folders
<1> HIDE DEF v
<1>2. x = "a" /\ files[v]["a"] # 0 BY <1>1 DEF V!Entries, v
<1>3. V!Entries(slot["nat"]) = {} BY DEF MirrorInv, MirrorCalm
<1>4. \A d \in Folders : d # 1 => files[d]["a"] = 0
  <2>1. \A d \in Folders : d = slot["nat"] => files[d]["a"] = 0 BY <1>3 DEF V!Entries
  <2> QED BY <2>1 DEF MirrorInv, MirrorCalm
<1>5. v = 1 BY <1>1, <1>2, <1>4
<1>6. {e \in Folders \X {"a"} : files[e[1]][e[2]] = files[v][x]} = {<<1, "a">>}
  BY <1>2, <1>4, <1>5 DEF Folders
<1>7. \A S : V!Cardinality(S) = Cardinality(S) BY DEF V!Cardinality, Cardinality
<1>8. Cardinality({<<1, "a">>}) = 1 BY FS_Singleton
<1> QED BY <1>6, <1>7, <1>8 DEF V!NamesOf, Folders, v

\* The threads are two, and one of them is at work.
LEMMA ThreadSteps ==
    ASSUME MirrorInv, NEW t \in Helpers, NEW r \in Thread, th' = [th EXCEPT ![t] = r]
    PROVE  th' \in [Helpers -> Thread] /\ th'[t] = r /\ \A h \in Helpers : h # t => th'[h] = th[h]
BY DEF MirrorInv, MirrorTyped

LEMMA OneAtWork ==
    ASSUME MirrorInv, NEW t \in Helpers, wlock \in {t, "none"}
    PROVE  \A h \in Helpers \ {t} : th[h].pc = "idle"
BY DEF MirrorInv, MirrorSafe, Helpers

\* A thread takes a step that leaves the directories as they are.
LEMMA ThreadTurns ==
    ASSUME MirrorInv, UNCHANGED <<slot, files, mark, mirrors, inodes, acts>>,
           NEW t \in Helpers, NEW r \in Thread, th' = [th EXCEPT ![t] = r], wlock \in {t, "none"},
           wlock' = IF r.pc = "idle" THEN "none" ELSE t,
           r.pc \in {"list", "sync", "clear"} => r.n \in mirrors,
           r.pc \in {"list", "sync"} => r.v > 0,
           acts = 0 =>
              /\ r.pc \in {"list", "sync", "clear"} => r.n = slot["nat"] /\ mark[r.n] = "ours"
              /\ r.pc = "clear" => (files[r.n]["a"] # 0 => "a" \in r.dst)
              /\ r.pc = "migrate" => r.n = slot["nat"] /\ r.own = V!Managed(slot["nat"])
              /\ r.pc = "grant" /\ r.v > 0 => r.n = slot["nat"] /\ V!Entries(slot["nat"]) = {}
    PROVE  MirrorInv'
<1>1. th' \in [Helpers -> Thread] /\ th'[t] = r /\ \A h \in Helpers : h # t => th'[h] = th[h] BY ThreadSteps
<1>2. \A h \in Helpers : h # t => th[h].pc = "idle" BY OneAtWork
<1>3. r.pc \in {"idle", "look", "migrate", "native", "mark", "open", "list", "sync", "clear", "grant"} BY DEF Thread
<1>4. MirrorTyped'
  <2>1. \A h \in Helpers : th'[h].pc \in {"idle", "look", "migrate", "native", "mark", "open", "list", "sync", "clear", "grant"}
    BY <1>1, <1>2, <1>3
  <2>2. wlock' \in Helpers \cup {"none"} OBVIOUS
  <2> QED BY <1>1, <2>1, <2>2 DEF MirrorInv, MirrorTyped, V!MirrorTypes, Helpers
<1>5. MirrorSafe'
  <2>1. \A h \in Helpers : th'[h].pc = "idle" <=> wlock' # h BY <1>1, <1>2 DEF Helpers
  <2> QED BY <1>1, <1>2, <2>1 DEF MirrorInv, MirrorSafe
<1>6. MirrorCalm'
  <2> SUFFICES ASSUME acts = 0 PROVE MirrorCalm' BY DEF MirrorCalm
  <2>1. V!Managed(slot["nat"])' = V!Managed(slot["nat"]) /\ V!Entries(slot["nat"])' = V!Entries(slot["nat"])
    BY DEF V!Managed, V!Entries
  <2> QED BY <1>1, <1>2, <2>1 DEF MirrorInv, MirrorCalm
<1> QED BY <1>4, <1>5, <1>6 DEF MirrorInv

LEMMA RestingThread ==
    /\ V!Resting \in Thread /\ V!Resting.pc = "idle" /\ V!Resting.v = 0 /\ V!Resting.n = 0 /\ V!Resting.own = FALSE
    /\ V!Resting.src = {} /\ V!Resting.dst = {}
BY DEF V!Resting, Thread, Places, Folders

LEMMA WhoWorks ==
    ASSUME MirrorInv, NEW t \in Helpers
    PROVE  /\ th[t] \in Thread /\ (th[t].pc # "idle" => wlock = t) /\ (wlock = "none" => th[t].pc = "idle")
           /\ slot["nat"] \in Places /\ slot["vis"] \in Places
BY DEF MirrorInv, MirrorTyped, MirrorSafe, Helpers

MirrorStages == {"idle", "look", "migrate", "native", "mark", "open", "list", "sync", "clear", "grant"}

LEMMA TakesLock ==
    ASSUME MirrorInv, NEW t \in Helpers, V!PrepareMirror(t) \/ V!Materialize(t) PROVE MirrorInv'
<1>1. PICK where \in MirrorStages : /\ where \in {"look", "open"}
        /\ UNCHANGED <<slot, files, mark, mirrors, inodes, acts>> /\ wlock = "none" /\ wlock' = t
        /\ th' = [th EXCEPT ![t] = [V!Resting EXCEPT !.pc = where]]
  BY DEF V!PrepareMirror, V!Materialize, V!TakeLock, V!Step, MirrorStages
<1> DEFINE q == [V!Resting EXCEPT !.pc = where]
<1>2. q \in Thread /\ q.pc = where BY RestingThread DEF Thread, MirrorStages
<1> HIDE DEF q
<1> QED BY <1>1, <1>2, ThreadTurns DEF q

LEMMA Rests ==
    ASSUME MirrorInv, NEW t \in Helpers, th[t].pc # "idle", UNCHANGED <<slot, files, mark, mirrors, inodes, acts>>,
           V!Unlock(t)
    PROVE  MirrorInv'
<1>1. wlock = t BY WhoWorks
<1>2. th' = [th EXCEPT ![t] = V!Resting] /\ wlock' = "none" BY DEF V!Unlock, V!Step
<1>3. PICK r \in Thread : r = V!Resting /\ r.pc = "idle" BY RestingThread
<1> QED BY <1>1, <1>2, <1>3, ThreadTurns

LEMMA OpenBothKeeps == ASSUME MirrorInv, NEW t \in Helpers, V!OpenBoth(t) PROVE MirrorInv'
<1>1. UNCHANGED <<slot, files, mark, mirrors, inodes, acts>> /\ th[t].pc = "open" /\ wlock = t
  BY WhoWorks DEF V!OpenBoth, V!At
<1>2. CASE V!Unlock(t) BY <1>1, <1>2, Rests
<1>3. CASE /\ slot.vis > 0 /\ V!Managed(slot.nat) /\ wlock' = wlock
           /\ V!Step(t, [V!Resting EXCEPT !.pc = "list", !.v = slot.vis, !.n = slot.nat, !.src = V!Entries(slot.vis)])
  <2>1. slot["nat"] \in Folders /\ mark[slot["nat"]] = "ours"
    BY <1>3, WhoWorks DEF V!Managed, Places, Folders
  <2>2. slot["nat"] \in mirrors BY <2>1 DEF MirrorInv, MirrorSafe
  <2>3. V!Entries(slot.vis) \subseteq {"a"} BY DEF V!Entries
  <2> DEFINE q == [V!Resting EXCEPT !.pc = "list", !.v = slot.vis, !.n = slot.nat, !.src = V!Entries(slot.vis)]
  <2>5. th' = [th EXCEPT ![t] = q] BY <1>3 DEF V!Step
  <2>4. q \in Thread /\ q.pc = "list" /\ q.n = slot.nat /\ q.v = slot.vis
    BY <2>1, <2>3, WhoWorks, RestingThread DEF Thread
  <2> HIDE DEF q
  <2> QED BY <1>1, <1>3, <2>1, <2>2, <2>4, <2>5, ThreadTurns
<1> QED BY <1>2, <1>3 DEF V!OpenBoth

LEMMA ListMirrorKeeps == ASSUME MirrorInv, NEW t \in Helpers, V!ListMirror(t) PROVE MirrorInv'
<1>1. /\ UNCHANGED <<slot, files, mark, mirrors, wlock, inodes, acts>> /\ th[t].pc = "list" /\ wlock = t
      /\ th' = [th EXCEPT ![t] = [th[t] EXCEPT !.pc = "sync", !.dst = V!Entries(th[t].n) \ th[t].src]]
  BY WhoWorks DEF V!ListMirror, V!At, V!Step
<1>2. V!Entries(th[t].n) \subseteq {"a"} BY DEF V!Entries
<1> DEFINE q == [th[t] EXCEPT !.pc = "sync", !.dst = V!Entries(th[t].n) \ th[t].src]
<1>3. q \in Thread /\ q.pc = "sync" /\ q.n = th[t].n /\ q.v = th[t].v
  BY <1>2, WhoWorks DEF Thread
<1> HIDE DEF q
<1>4. th[t].n \in mirrors /\ th[t].v > 0 BY <1>1 DEF MirrorInv, MirrorSafe
<1>5. acts = 0 => th[t].n = slot["nat"] /\ mark[th[t].n] = "ours" BY <1>1 DEF MirrorInv, MirrorCalm
<1> QED BY <1>1, <1>3, <1>4, <1>5, ThreadTurns DEF q

LEMMA EndSyncKeeps == ASSUME MirrorInv, NEW t \in Helpers, V!EndSync(t) PROVE MirrorInv'
BY Rests DEF V!EndSync, V!At

LEMMA ClearMirrorKeeps == ASSUME MirrorInv, NEW t \in Helpers, V!ClearMirror(t) PROVE MirrorInv'
<1>1. UNCHANGED <<slot, files, mark, mirrors, inodes, acts>> /\ wlock = "none" /\ wlock' = t
  BY DEF V!ClearMirror, V!TakeLock
<1>2. CASE V!Managed(slot.nat)
  <2> DEFINE q == [V!Resting EXCEPT !.pc = "clear", !.n = slot.nat, !.v = slot.vis, !.dst = V!Entries(slot.nat)]
  <2>1. slot["nat"] \in Folders /\ mark[slot["nat"]] = "ours"
    BY <1>2, WhoWorks DEF V!Managed, Places, Folders
  <2>2. slot["nat"] \in mirrors BY <2>1 DEF MirrorInv, MirrorSafe
  <2>3. V!Entries(slot.nat) \subseteq {"a"} /\ (files[slot["nat"]]["a"] # 0 => "a" \in V!Entries(slot.nat))
    BY DEF V!Entries
  <2>5. th' = [th EXCEPT ![t] = q] BY <1>2 DEF V!Step, V!ClearMirror
  <2>4. q \in Thread /\ q.pc = "clear" /\ q.n = slot.nat /\ q.dst = V!Entries(slot.nat)
    BY <2>1, <2>3, WhoWorks, RestingThread DEF Thread
  <2> HIDE DEF q
  <2> QED BY <1>1, <2>1, <2>2, <2>3, <2>4, <2>5, ThreadTurns
<1>3. CASE ~V!Managed(slot.nat)
  <2> DEFINE q == [V!Resting EXCEPT !.pc = "grant"]
  <2>2. th' = [th EXCEPT ![t] = q] BY <1>3 DEF V!Step, V!ClearMirror
  <2>1. q \in Thread /\ q.pc = "grant" /\ q.v = 0 BY RestingThread DEF Thread
  <2>3. ~(q.v > 0) BY <2>1
  <2> HIDE DEF q
  <2> QED BY <1>1, <2>1, <2>2, <2>3, ThreadTurns
<1> QED BY <1>2, <1>3

LEMMA ClearEndsKeeps == ASSUME MirrorInv, NEW t \in Helpers, V!ClearEnds(t) PROVE MirrorInv'
<1>1. /\ UNCHANGED <<slot, files, mark, mirrors, wlock, inodes, acts>> /\ th[t].pc = "clear" /\ wlock = t
      /\ th[t].dst = {} /\ th' = [th EXCEPT ![t] = [th[t] EXCEPT !.pc = "grant"]]
  BY WhoWorks DEF V!ClearEnds, V!At, V!Step
<1> DEFINE q == [th[t] EXCEPT !.pc = "grant"]
<1>2. q \in Thread /\ q.pc = "grant" /\ q.n = th[t].n BY WhoWorks DEF Thread
<1> HIDE DEF q
<1>3. acts = 0 => th[t].n = slot["nat"] /\ V!Entries(slot["nat"]) = {}
  BY <1>1 DEF MirrorInv, MirrorCalm, V!Entries
<1> QED BY <1>1, <1>2, <1>3, ThreadTurns DEF q

LEMMA GrantTreeKeeps == ASSUME MirrorInv, NEW t \in Helpers, V!GrantTree(t) PROVE MirrorInv'
<1>1. /\ UNCHANGED <<slot, files, mark, mirrors, wlock, inodes, acts>> /\ wlock = t
      /\ th' = [th EXCEPT ![t] = [V!Resting EXCEPT !.pc = "open"]]
  BY WhoWorks DEF V!GrantTree, V!At, V!Step
<1> DEFINE q == [V!Resting EXCEPT !.pc = "open"]
<1>2. q \in Thread /\ q.pc = "open" BY RestingThread DEF Thread
<1> HIDE DEF q
<1> QED BY <1>1, <1>2, ThreadTurns DEF q

\* A thread that prepares the directories renames or makes one.
LEMMA SlotTurns ==
    ASSUME MirrorInv, UNCHANGED <<files, mark, mirrors, inodes, acts>>,
           slot' \in [{"vis", "nat"} -> Places],
           NEW t \in Helpers, NEW r \in Thread, th' = [th EXCEPT ![t] = r], wlock = t,
           wlock' = IF r.pc = "idle" THEN "none" ELSE t, r.pc \in {"idle", "migrate", "native", "mark"},
           acts = 0 =>
              /\ \A d \in Folders : d # 1 /\ (d # slot'["nat"] \/ mark[d] # "ours") => files[d]["a"] = 0
              /\ r.pc = "migrate" => r.n = slot'["nat"] /\ r.own = V!Managed(slot["nat"])'
    PROVE  MirrorInv'
<1>1. th' \in [Helpers -> Thread] /\ th'[t] = r /\ \A h \in Helpers : h # t => th'[h] = th[h] BY ThreadSteps
<1>2. \A h \in Helpers : h # t => th[h].pc = "idle" BY OneAtWork
<1>3. MirrorTyped'
  <2>1. \A h \in Helpers : th'[h].pc \in {"idle", "look", "migrate", "native", "mark", "open", "list", "sync", "clear", "grant"}
    BY <1>1, <1>2
  <2>2. wlock' \in Helpers \cup {"none"} OBVIOUS
  <2>3. \A s \in {"vis", "nat"} : slot'[s] \in Folders \cup {0} \cup {-d : d \in Folders} BY DEF Places
  <2> QED BY <1>1, <2>1, <2>2, <2>3 DEF MirrorInv, MirrorTyped, V!MirrorTypes, Helpers, Folders
<1>4. MirrorSafe'
  <2>1. \A h \in Helpers : th'[h].pc = "idle" <=> wlock' # h BY <1>1, <1>2 DEF Helpers
  <2>2. \A h \in Helpers : th'[h].pc \notin {"list", "sync", "clear"} BY <1>1, <1>2
  <2> QED BY <2>1, <2>2 DEF MirrorInv, MirrorSafe
<1>5. MirrorCalm'
  <2>1. \A h \in Helpers : th'[h].pc \notin {"list", "sync", "clear", "grant"} BY <1>1, <1>2
  <2>2. \A h \in Helpers : th'[h].pc = "migrate" => h = t BY <1>1, <1>2
  <2> QED BY <1>1, <2>1, <2>2 DEF MirrorCalm
<1> QED BY <1>3, <1>4, <1>5 DEF MirrorInv

LEMMA LookBothKeeps == ASSUME MirrorInv, NEW t \in Helpers, V!LookAtBoth(t) PROVE MirrorInv'
<1> DEFINE bridge == slot.nat < 0 /\ slot.vis > 0 /\ slot.nat = -slot.vis
           n == IF bridge THEN 0 ELSE slot.nat
           own == V!Managed(n)
           q == [V!Resting EXCEPT !.n = n, !.own = own,
                   !.pc = IF slot.vis = 0 THEN "migrate" ELSE IF n = 0 THEN "native" ELSE "mark"]
<1>1. UNCHANGED <<files, mark, mirrors, inodes, acts>> /\ th[t].pc = "look" /\ wlock = t
  BY WhoWorks DEF V!LookAtBoth, V!At
<1>2. CASE V!Unlock(t) /\ UNCHANGED slot BY <1>1, <1>2, Rests
<1>3. CASE /\ ~(slot.vis < 0 \/ n < 0 \/ (slot.vis > 0 /\ n # 0 /\ ~own))
           /\ slot' = [slot EXCEPT !.nat = n] /\ V!Step(t, q) /\ wlock' = wlock
  <2>1. th' = [th EXCEPT ![t] = q] BY <1>3 DEF V!Step
  <2>2. n \in Folders \cup {0} /\ (n # slot.nat => n = 0 /\ slot.nat \notin Folders)
    BY <1>3, WhoWorks DEF Places, Folders
  <2>3. own \in BOOLEAN BY DEF V!Managed
  <2> HIDE DEF n, own
  <2>4. q \in Thread /\ q.pc \in {"migrate", "native", "mark"} /\ q.n = n /\ q.own = own
    BY <2>2, <2>3, RestingThread DEF Thread
  <2> HIDE DEF q
  <2>5. slot' \in [{"vis", "nat"} -> Places] /\ slot'["nat"] = n
    BY <1>3, <2>2 DEF MirrorInv, MirrorTyped, Places
  <2>6. own = V!Managed(slot["nat"])' BY <1>1, <2>5 DEF V!Managed, own
  <2>7. acts = 0 => \A d \in Folders : d # 1 /\ (d # slot'["nat"] \/ mark[d] # "ours") => files[d]["a"] = 0
    BY <2>2, <2>5 DEF MirrorInv, MirrorCalm
  <2> QED BY <1>1, <1>3, <2>1, <2>4, <2>5, <2>6, <2>7, SlotTurns
<1> QED BY <1>2, <1>3 DEF V!LookAtBoth

LEMMA MigrateKeeps == ASSUME MirrorInv, NEW t \in Helpers, V!Migrate(t) PROVE MirrorInv'
<1>1. UNCHANGED <<files, mark, mirrors, inodes, acts>> /\ th[t].pc = "migrate" /\ wlock = t /\ th[t] \in Thread
  BY WhoWorks DEF V!Migrate, V!At
<1>2. CASE V!Unlock(t) /\ UNCHANGED slot BY <1>1, <1>2, Rests
<1>3. CASE /\ th[t].n # 0 /\ ~th[t].own /\ slot' = [vis |-> slot.nat, nat |-> 0] /\ wlock' = wlock
           /\ V!Step(t, [V!Resting EXCEPT !.pc = "native"])
  <2> DEFINE q == [V!Resting EXCEPT !.pc = "native"]
  <2>1. th' = [th EXCEPT ![t] = q] BY <1>3 DEF V!Step
  <2>2. q \in Thread /\ q.pc = "native" BY RestingThread DEF Thread
  <2> HIDE DEF q
  <2>3. slot' \in [{"vis", "nat"} -> Places] /\ slot'["nat"] = 0 BY <1>3, WhoWorks DEF Places
  <2>4. acts = 0 => \A d \in Folders : d # 1 => files[d]["a"] = 0
    <3> SUFFICES ASSUME acts = 0, NEW d \in Folders, d # 1 PROVE files[d]["a"] = 0 OBVIOUS
    <3>1. ~V!Managed(slot["nat"]) BY <1>1, <1>3 DEF MirrorInv, MirrorCalm
    <3>2. d = slot["nat"] => mark[d] # "ours" BY <3>1 DEF V!Managed, Folders
    <3> QED BY <3>2 DEF MirrorInv, MirrorCalm
  <2> QED BY <1>1, <1>3, <2>1, <2>2, <2>3, <2>4, SlotTurns
<1>4. CASE /\ slot' = slot \/ \E d \in V!Spare : slot' = [slot EXCEPT !.vis = d]
           /\ V!Step(t, [th[t] EXCEPT !.pc = IF th[t].n = 0 THEN "native" ELSE "mark"]) /\ wlock' = wlock
  <2> DEFINE q == [th[t] EXCEPT !.pc = IF th[t].n = 0 THEN "native" ELSE "mark"]
  <2>1. th' = [th EXCEPT ![t] = q] BY <1>4 DEF V!Step
  <2>2. q \in Thread /\ q.pc \in {"native", "mark"} BY <1>1 DEF Thread
  <2> HIDE DEF q
  <2>3. V!Spare \subseteq Folders BY DEF V!Spare, Folders
  <2>4. slot' \in [{"vis", "nat"} -> Places] /\ slot'["nat"] = slot["nat"]
    BY <1>4, <2>3 DEF MirrorInv, MirrorTyped, Places
  <2> QED BY <1>1, <1>4, <2>1, <2>2, <2>4, SlotTurns DEF MirrorInv, MirrorCalm
<1> QED BY <1>2, <1>3, <1>4 DEF V!Migrate

LEMMA MakeNativeKeeps == ASSUME MirrorInv, NEW t \in Helpers, V!MakeNative(t) PROVE MirrorInv'
<1>1. UNCHANGED <<files, mark, mirrors, inodes, acts>> /\ th[t].pc = "native" /\ wlock = t /\ th[t] \in Thread
  BY WhoWorks DEF V!MakeNative, V!At
<1>2. CASE V!Unlock(t) /\ UNCHANGED slot BY <1>1, <1>2, Rests
<1>3. CASE /\ slot.nat = 0 /\ V!Step(t, [th[t] EXCEPT !.pc = "mark"]) /\ wlock' = wlock
           /\ \E d \in V!Spare : slot' = [slot EXCEPT !.nat = d]
  <2> DEFINE q == [th[t] EXCEPT !.pc = "mark"]
  <2>1. th' = [th EXCEPT ![t] = q] BY <1>3 DEF V!Step
  <2>2. q \in Thread /\ q.pc = "mark" BY <1>1 DEF Thread
  <2> HIDE DEF q
  <2>3. PICK d \in V!Spare : slot' = [slot EXCEPT !.nat = d] BY <1>3
  <2>4. d \in Folders BY DEF V!Spare, Folders
  <2>5. slot' \in [{"vis", "nat"} -> Places] BY <2>3, <2>4 DEF MirrorInv, MirrorTyped, Places
  <2>6. acts = 0 => \A e \in Folders : e # 1 => files[e]["a"] = 0
    BY <1>3 DEF MirrorInv, MirrorCalm, Folders
  <2> QED BY <1>1, <1>3, <2>1, <2>2, <2>5, <2>6, SlotTurns
<1> QED BY <1>2, <1>3 DEF V!MakeNative


LEMMA WriteMarkerKeeps == ASSUME MirrorInv, NEW t \in Helpers, V!WriteMarker(t) PROVE MirrorInv'
<1>1. /\ UNCHANGED <<slot, files, inodes, acts>> /\ th[t].pc = "mark" /\ wlock = t
      /\ th' = [th EXCEPT ![t] = V!Resting] /\ wlock' = "none"
  BY WhoWorks DEF V!WriteMarker, V!At, V!Unlock, V!Step
<1>2. PICK r \in Thread : r = V!Resting /\ r.pc = "idle" BY RestingThread
<1>3. \A h \in Helpers : th'[h].pc = "idle" BY <1>1, <1>2, ThreadSteps, OneAtWork
<1>4. CASE UNCHANGED <<mark, mirrors>>
  BY <1>1, <1>2, <1>4, ThreadTurns
<1>5. CASE /\ slot.nat > 0 /\ mark' = [mark EXCEPT ![slot.nat] = "ours"]
           /\ mirrors' = mirrors \cup {slot.nat}
  <2>1. slot["nat"] \in Folders BY <1>5, WhoWorks DEF Places, Folders
  <2>2. MirrorTyped'
    <3>1. mark' \in [Folders -> {"none", "ours", "spoiled"}] /\ mirrors' \subseteq Folders
      BY <1>5, <2>1 DEF MirrorInv, MirrorTyped, V!MirrorTypes, Folders
    <3>2. th' \in [Helpers -> Thread] BY <1>1, <1>2, ThreadSteps
    <3> QED BY <1>1, <1>3, <3>1, <3>2 DEF MirrorInv, MirrorTyped, V!MirrorTypes, Folders, Helpers
  <2>3. MirrorSafe'
    <3>1. \A d \in Folders : mark'[d] = "ours" => d \in mirrors'
      BY <1>5, <2>1 DEF MirrorInv, MirrorTyped, MirrorSafe, V!MirrorTypes, Folders
    <3> QED BY <1>1, <1>3, <3>1 DEF MirrorSafe, Helpers
  <2>4. MirrorCalm'
    <3>1. \A d \in Folders : d = slot["nat"] \/ mark'[d] = mark[d]
      BY <1>5, <2>1 DEF MirrorInv, MirrorTyped, V!MirrorTypes, Folders
    <3>2. mark'[slot["nat"]] = "ours"
      BY <1>5, <2>1 DEF MirrorInv, MirrorTyped, V!MirrorTypes, Folders
    <3> QED BY <1>1, <1>3, <2>1, <3>1, <3>2 DEF MirrorInv, MirrorCalm
  <2> QED BY <2>2, <2>3, <2>4 DEF MirrorInv
<1> QED BY <1>4, <1>5 DEF V!WriteMarker

\* A thread changes an entry of the mirror it has opened.
LEMMA EntryTurns ==
    ASSUME MirrorInv, UNCHANGED <<slot, mark, mirrors, wlock>>,
           NEW t \in Helpers, NEW r \in Thread, th' = [th EXCEPT ![t] = r],
           th[t].pc \in {"sync", "clear"}, r.pc = th[t].pc, r.n = th[t].n, r.v = th[t].v,
           inodes' \in 0..3, acts' \in 0..2, NEW i \in 0..3,
           files' = files \/ files' = [files EXCEPT ![th[t].n]["a"] = i],
           acts' = 0 =>
              /\ acts = 0
              /\ r.pc = "clear" => i = 0 /\ r.dst = th[t].dst \ {"a"}
                                   /\ files' = [files EXCEPT ![th[t].n]["a"] = i]
    PROVE  MirrorInv'
<1>1. th' \in [Helpers -> Thread] /\ th'[t] = r /\ \A h \in Helpers : h # t => th'[h] = th[h] BY ThreadSteps
<1>2. wlock = t /\ th[t].n \in mirrors /\ \A h \in Helpers : h # t => th[h].pc = "idle"
  BY WhoWorks, OneAtWork DEF MirrorInv, MirrorSafe
<1>3. files' \in [Folders -> [{"a"} -> 0..3]]
  BY DEF MirrorInv, MirrorTyped, V!MirrorTypes, Folders
<1>4. th[t].n \in Folders BY <1>2 DEF MirrorInv, MirrorTyped, V!MirrorTypes, Folders
<1>5. \A d \in Folders : d # th[t].n => files'[d] = files[d]
  BY DEF MirrorInv, MirrorTyped, V!MirrorTypes, Folders
<1>6. MirrorTyped'
  <2>1. \A h \in Helpers : th'[h].pc \in {"idle", "sync", "clear"} BY <1>1, <1>2
  <2> QED BY <1>1, <1>3, <2>1 DEF MirrorInv, MirrorTyped, V!MirrorTypes, Helpers, Folders
<1>7. MirrorSafe' BY <1>1, <1>2 DEF MirrorInv, MirrorSafe
<1>8. MirrorCalm'
  <2> SUFFICES ASSUME acts' = 0, acts = 0 PROVE MirrorCalm' BY DEF MirrorCalm
  <2>1. th[t].n = slot["nat"] /\ mark[th[t].n] = "ours" BY DEF MirrorInv, MirrorCalm
  <2>2. \A d \in Folders : d # 1 /\ (d # slot'["nat"] \/ mark'[d] # "ours") => files'[d]["a"] = 0
    BY <1>5, <2>1 DEF MirrorInv, MirrorCalm
  <2>3. r.pc = "clear" => \A x \in {"a"} : files'[r.n][x] # 0 => x \in r.dst
    BY <1>4 DEF MirrorInv, MirrorTyped, V!MirrorTypes, Folders
  <2>4. \A h \in Helpers : h # t => th'[h].pc = "idle" BY <1>1, <1>2
  <2> QED BY <1>1, <2>1, <2>2, <2>3, <2>4 DEF MirrorCalm
<1> QED BY <1>6, <1>7, <1>8 DEF MirrorInv

LEMMA Counts == ASSUME MirrorInv PROVE inodes \in 0..3 /\ acts \in 0..2
BY DEF MirrorInv, MirrorTyped, V!MirrorTypes

LEMMA RemoveEntryKeeps == ASSUME MirrorInv, NEW t \in Helpers, V!RemoveEntry(t, "a") PROVE MirrorInv'
<1>1. /\ UNCHANGED <<slot, mark, mirrors, wlock, inodes>> /\ th[t].pc \in {"sync", "clear"} /\ th[t] \in Thread
      /\ th' = [th EXCEPT ![t] = [th[t] EXCEPT !.dst = @ \ {"a"}]]
  BY WhoWorks DEF V!RemoveEntry, V!Step
<1> DEFINE q == [th[t] EXCEPT !.dst = @ \ {"a"}]
<1>2. q \in Thread /\ q.pc = th[t].pc /\ q.n = th[t].n /\ q.v = th[t].v /\ q.dst = th[t].dst \ {"a"}
  BY <1>1 DEF Thread
<1>3. th' = [th EXCEPT ![t] = q] BY <1>1
<1> HIDE DEF q
<1>4. CASE files' = [files EXCEPT ![th[t].n]["a"] = 0] /\ acts' = acts
  <2>1. PICK i \in 0..3 : i = 0 OBVIOUS
  <2>2. inodes' \in 0..3 /\ acts' \in 0..2 BY <1>1, <1>4, Counts
  <2>3. files' = [files EXCEPT ![th[t].n]["a"] = i] BY <1>4, <2>1
  <2> QED BY <1>1, <1>2, <1>3, <1>4, <2>1, <2>2, <2>3, EntryTurns
<1>5. CASE acts < 2 /\ acts' = acts + 1 /\ files' = files
  <2>1. acts' \in 0..2 /\ acts' # 0 BY <1>5, Counts
  <2> QED BY <1>1, <1>2, <1>3, <1>5, <2>1, Counts, EntryTurns
<1> QED BY <1>4, <1>5 DEF V!RemoveEntry, V!DirOf

LEMMA LinkFileKeeps ==
    ASSUME MirrorInv, NEW t \in Helpers, NEW link \in BOOLEAN, V!LinkFile(t, "a", link) PROVE MirrorInv'
<1>1. /\ UNCHANGED <<slot, mark, mirrors, wlock, acts>> /\ th[t].pc = "sync" /\ th[t] \in Thread
      /\ th' = [th EXCEPT ![t] = [th[t] EXCEPT !.src = @ \ {"a"}]]
  BY WhoWorks DEF V!LinkFile, V!Step, V!At
<1> DEFINE q == [th[t] EXCEPT !.src = @ \ {"a"}]
<1>2. q \in Thread /\ q.pc = th[t].pc /\ q.n = th[t].n /\ q.v = th[t].v
  BY <1>1 DEF Thread
<1>3. th' = [th EXCEPT ![t] = q] BY <1>1
<1> HIDE DEF q
<1>4. th[t].v \in Folders BY <1>1 DEF MirrorInv, MirrorSafe, Thread, Places, Folders
<1>5. files[th[t].v]["a"] \in 0..3 BY <1>4 DEF MirrorInv, MirrorTyped, V!MirrorTypes, Folders
<1>6. PICK i \in 0..3 : /\ files' = files \/ files' = [files EXCEPT ![th[t].n]["a"] = i]
                        /\ inodes' \in 0..3
  <2>1. CASE UNCHANGED <<files, inodes>> BY <2>1, <1>5, Counts
  <2>2. CASE files' = [files EXCEPT ![th[t].n]["a"] = files[th[t].v]["a"]] /\ inodes' = inodes
    BY <2>2, <1>5, Counts
  <2>3. CASE /\ inodes < 3 /\ inodes' = inodes + 1
             /\ files' = [files EXCEPT ![th[t].n]["a"] = inodes + 1]
    <3>1. inodes + 1 \in 0..3 BY <2>3, Counts
    <3> QED BY <2>3, <3>1
  <2> QED BY <2>1, <2>2, <2>3 DEF V!LinkFile, V!DirOf
<1> QED BY <1>1, <1>2, <1>3, <1>6, Counts, EntryTurns

\* The session moves, edits and marks what it likes, and from then on the
\* threads' observations may be old.
LEMMA SessionMeddles ==
    ASSUME MirrorInv, V!Act,
           slot' \in [{"vis", "nat"} -> Places], files' \in [Folders -> [{"a"} -> 0..3]],
           mark' \in [Folders -> {"none", "ours", "spoiled"}], mirrors' \subseteq Folders, mirrors \subseteq mirrors',
           \A d \in Folders : mark'[d] = "ours" => d \in mirrors', inodes' \in 0..3
    PROVE  MirrorInv'
<1>1. acts' \in 0..2 /\ acts' # 0 /\ UNCHANGED <<wlock, th>> BY Counts DEF V!Act
<1>2. MirrorTyped' BY <1>1 DEF MirrorInv, MirrorTyped, V!MirrorTypes, Folders, Helpers, Places
<1>3. MirrorSafe' BY <1>1 DEF MirrorInv, MirrorSafe
<1>4. MirrorCalm' BY <1>1 DEF MirrorCalm
<1> QED BY <1>2, <1>3, <1>4 DEF MirrorInv

LEMMA MirrorKinds ==
    ASSUME MirrorInv
    PROVE  /\ slot \in [{"vis", "nat"} -> Places] /\ files \in [Folders -> [{"a"} -> 0..3]]
           /\ mark \in [Folders -> {"none", "ours", "spoiled"}] /\ mirrors \subseteq Folders
           /\ \A d \in Folders : mark[d] = "ours" => d \in mirrors
BY DEF MirrorInv, MirrorTyped, MirrorSafe, V!MirrorTypes, Folders

LEMMA SessionActs ==
    ASSUME MirrorInv,
           \/ \E d \in Folders, x \in {"a"} : V!Edits(d, x) \/ V!Deletes(d, x)
           \/ \E s \in {"vis", "nat"}, to \in Places : V!Moves(s, to)
           \/ \E d \in Folders, m \in {"none", "ours", "spoiled"} : V!Marks(d, m)
    PROVE  MirrorInv'
<1>1. CASE \E d \in Folders, x \in {"a"} : V!Edits(d, x)
  <2>1. PICK d \in Folders : V!Edits(d, "a") BY <1>1
  <2>2. inodes + 1 \in 0..3 /\ inodes' = inodes + 1 BY <2>1, Counts DEF V!Edits
  <2> QED BY <2>1, <2>2, MirrorKinds, SessionMeddles DEF V!Edits
<1>2. CASE \E d \in Folders, x \in {"a"} : V!Deletes(d, x)
  <2>1. PICK d \in Folders : V!Deletes(d, "a") BY <1>2
  <2> QED BY <2>1, Counts, MirrorKinds, SessionMeddles DEF V!Deletes
<1>3. CASE \E s \in {"vis", "nat"}, to \in Places : V!Moves(s, to)
  BY <1>3, Counts, MirrorKinds, SessionMeddles DEF V!Moves
<1>4. CASE \E d \in Folders, m \in {"none", "ours", "spoiled"} : V!Marks(d, m)
  BY <1>4, Counts, MirrorKinds, SessionMeddles DEF V!Marks
<1> QED BY <1>1, <1>2, <1>3, <1>4

LEMMA MirrorKeeps == ASSUME MirrorInv, V!Mirroring PROVE MirrorInv'
<1>1. CASE \E t \in Helpers :
             \/ V!PrepareMirror(t) \/ V!LookAtBoth(t) \/ V!Migrate(t) \/ V!MakeNative(t) \/ V!WriteMarker(t)
             \/ V!Materialize(t) \/ V!OpenBoth(t) \/ V!ListMirror(t) \/ V!EndSync(t)
             \/ V!ClearMirror(t) \/ V!ClearEnds(t) \/ V!GrantTree(t)
  BY <1>1, TakesLock, LookBothKeeps, MigrateKeeps, MakeNativeKeeps, WriteMarkerKeeps, OpenBothKeeps,
     ListMirrorKeeps, EndSyncKeeps, ClearMirrorKeeps, ClearEndsKeeps, GrantTreeKeeps
<1>2. CASE \E t \in Helpers : V!RemoveEntry(t, "a") \/ \E link \in BOOLEAN : V!LinkFile(t, "a", link)
  BY <1>2, RemoveEntryKeeps, LinkFileKeeps
<1>3. CASE \/ \E d \in Folders, x \in {"a"} : V!Edits(d, x) \/ V!Deletes(d, x)
           \/ \E s \in {"vis", "nat"}, to \in Places : V!Moves(s, to)
           \/ \E d \in Folders, m \in {"none", "ours", "spoiled"} : V!Marks(d, m)
  BY <1>3, SessionActs
<1>4. Places = {0} \cup Folders \cup {-d : d \in Folders} BY DEF Places
<1> QED BY <1>1, <1>2, <1>3, <1>4 DEF V!Mirroring, Helpers, Folders

LEMMA MirrorStutter == ASSUME MirrorInv, UNCHANGED <<slot, files, mark, mirrors, wlock, th, inodes, acts>> PROVE MirrorInv'
BY DEF MirrorInv, MirrorTyped, MirrorSafe, MirrorCalm, V!MirrorTypes, V!Managed, V!Entries

\* What the gateway changes is a directory that carried its marker.
LEMMA MirrorsOnly == ASSUME MirrorInv, V!Mirroring PROVE V!ChangesMirrorsOnly
<1> SUFFICES ASSUME acts' = acts, NEW d \in Folders, files'[d] # files[d] PROVE d \in mirrors
  BY DEF V!ChangesMirrorsOnly, Folders
<1>1. acts' # acts + 1 BY Counts
<1>2. PICK t \in Helpers : V!RemoveEntry(t, "a") \/ \E link \in BOOLEAN : V!LinkFile(t, "a", link)
  BY <1>1 DEF V!Mirroring, Helpers, V!PrepareMirror, V!LookAtBoth, V!Migrate, V!MakeNative, V!WriteMarker,
     V!Materialize, V!OpenBoth, V!ListMirror, V!EndSync, V!ClearMirror, V!ClearEnds, V!GrantTree,
     V!Edits, V!Deletes, V!Moves, V!Marks, V!Act
<1>3. th[t].pc \in {"sync", "clear"} BY <1>2 DEF V!RemoveEntry, V!LinkFile, V!At
<1>4. th[t].n \in mirrors BY <1>3 DEF MirrorInv, MirrorSafe
<1>5. files' = files \/ \E i : files' = [files EXCEPT ![th[t].n]["a"] = i]
  BY <1>2 DEF V!RemoveEntry, V!LinkFile, V!DirOf
<1>6. d = th[t].n BY <1>5, MirrorKinds
<1> QED BY <1>4, <1>6

-----------------------------------------------------------------------------
(* The changes of plugins and their replay (PluginReplay).                 *)

plugsAdded == x1
plugsRemoved == x2
known == x3
inst == x4
source == x5
digest == x6
replayLock == x7
change == x8
boot == x9
overtaken == x10
made == x11
faulty == x12

USE DEF plugsAdded, plugsRemoved, known, inst, source, digest, replayLock, change, boot, overtaken, made, faulty

Manifests == [added : SUBSET Servers, removed : SUBSET Servers, source : 1..2]
Registries == [known : BOOLEAN, inst : [Servers -> 0..2]]

\* What an installed version is beside the one that was looked at.
UpToDate(in, versions) == \A p \in in.added \ in.removed : in.source <= versions[p] /\ versions[p] <= source

ReplayShape ==
    /\ P!ReplayTypes /\ overtaken \in BOOLEAN
    /\ change # None => replayLock = "admin" /\ change \in [kind : P!Ops, plugin : Servers, ran : BOOLEAN]
    /\ boot \in [pc : {"off", "wait", "replay", "done"}, entries : SUBSET Servers,
                 inputs : Manifests \cup {None}, failed : BOOLEAN]
    /\ boot.pc = "replay" => replayLock = "boot"
    /\ digest \in [in : Manifests, reg : Registries] \cup {None}

\* A manifest changes only under the lock: what the replay has not to do any
\* more is at the version of its inputs or at a later one, unless an entry of
\* the manifest came after the replay had collected them.
ReplayTrue ==
    /\ boot.pc = "replay" /\ boot.inputs # None =>
          boot.inputs.added = plugsAdded /\ boot.inputs.removed = plugsRemoved /\ boot.inputs.source <= source
    /\ ~overtaken /\ boot.pc = "wait" => boot.entries = plugsAdded
    /\ ~overtaken /\ boot.pc = "replay" /\ boot.inputs # None /\ ~boot.failed =>
          \A p \in boot.inputs.added \ (boot.inputs.removed \cup boot.entries) :
              boot.inputs.source <= inst[p] /\ inst[p] <= source

\* And so is what a digest vouches for.
DigestTrue == ~overtaken /\ digest # None => UpToDate(digest["in"], digest.reg.inst)

ReplayInv == ReplayShape /\ ReplayTrue /\ DigestTrue

LEMMA BootOff ==
    /\ P!NoBoot \in [pc : {"off", "wait", "replay", "done"}, entries : SUBSET Servers,
                    inputs : Manifests \cup {None}, failed : BOOLEAN]
    /\ P!NoBoot.pc = "off"
BY DEF P!NoBoot

LEMMA ReplayInit == ASSUME P!ReplayInit PROVE ReplayInv
<1>1. /\ plugsAdded = {} /\ plugsRemoved = {} /\ known = FALSE /\ inst = [p \in Servers |-> 0] /\ source = 1
      /\ digest = None /\ replayLock = None /\ change = None /\ boot = P!NoBoot /\ overtaken = FALSE
      /\ made = 0 /\ faulty = 0
  BY DEF P!ReplayInit
<1>3. P!ReplayTypes
  <2>1. inst \in [Servers -> 0..2] BY <1>1
  <2>2. known \in BOOLEAN BY <1>1
  <2> QED BY <1>1, <2>1, <2>2, BootOff DEF P!ReplayTypes
<1>2. ReplayShape BY <1>1, <1>3, BootOff DEF ReplayShape
<1> QED BY <1>1, <1>2, BootOff DEF ReplayInv, ReplayTrue, DigestTrue

\* A change is made while the replay has not the lock, or not at all: what
\* was found at its start stays.
LEMMA AdminStays ==
    ASSUME ReplayInv, boot' = boot, source' = source, overtaken' \in BOOLEAN, ~overtaken' => ~overtaken,
           digest' \in {digest, None}, boot.pc # "replay" \/ UNCHANGED <<plugsAdded, plugsRemoved, inst>>,
           ~overtaken' /\ boot.pc = "wait" => plugsAdded' = plugsAdded
    PROVE  ReplayTrue' /\ DigestTrue'
BY DEF ReplayInv, ReplayShape, ReplayTrue, DigestTrue, UpToDate

LEMMA BeginKeeps ==
    ASSUME ReplayInv, NEW kind \in P!Ops, NEW p \in Servers, P!Begin(kind, p) PROVE ReplayInv'
<1> USE PluginAssumption
<1>1. /\ UNCHANGED <<plugsAdded, plugsRemoved, known, inst, source, boot, overtaken, faulty>>
      /\ replayLock = None /\ replayLock' = "admin" /\ digest' = None
      /\ change' = [kind |-> kind, plugin |-> p, ran |-> FALSE] /\ made < 4 /\ made' = made + 1
  BY DEF P!Begin, P!manifest, P!registry
<1>2. ReplayTrue' /\ DigestTrue' BY <1>1, AdminStays DEF ReplayInv, ReplayShape
<1>3. ReplayShape' BY <1>1 DEF ReplayInv, ReplayShape, P!ReplayTypes
<1> QED BY <1>2, <1>3 DEF ReplayInv

\* The CLI runs under the lock.
LEMMA CliKeeps ==
    ASSUME ReplayInv,
           P!RunAdd \/ P!RunInstall \/ P!RunUninstall \/ P!RunRemove \/ \E S \in SUBSET Servers : P!RunRefresh(S)
    PROVE  ReplayInv'
<1>1. /\ UNCHANGED <<plugsAdded, plugsRemoved, source, digest, replayLock, boot, overtaken, made, faulty>>
      /\ change # None /\ change' = [change EXCEPT !.ran = TRUE]
  BY DEF P!RunAdd, P!RunInstall, P!RunUninstall, P!RunRemove, P!RunRefresh, P!Ran, P!others, P!manifest
<1>2. inst' \in [Servers -> 0..2]
  <2>0. inst \in [Servers -> 0..2] /\ source \in 0..2
    BY DEF ReplayInv, ReplayShape, P!ReplayTypes
  <2>1. CASE P!RunAdd BY <2>0, <2>1 DEF P!RunAdd
  <2>2. CASE P!RunInstall BY <2>0, <2>2 DEF P!RunInstall
  <2>3. CASE P!RunUninstall
    <3>1. PICK none : none = 0 OBVIOUS
    <3>2. inst' = [inst EXCEPT ![change.plugin] = none] BY <2>3, <3>1 DEF P!RunUninstall
    <3>3. none \in 0..2 BY <3>1
    <3> QED BY <2>0, <3>2, <3>3
  <2>4. CASE P!RunRemove BY <2>4 DEF P!RunRemove
  <2>5. CASE \E S \in SUBSET Servers : P!RunRefresh(S) BY <2>0, <2>5 DEF P!RunRefresh
  <2> QED BY <2>1, <2>2, <2>3, <2>4, <2>5
<1>7. known' = known \/ known' = TRUE \/ known' = FALSE
  BY DEF P!RunAdd, P!RunInstall, P!RunUninstall, P!RunRemove, P!RunRefresh
<1>3. boot.pc # "replay" BY <1>1 DEF ReplayInv, ReplayShape
<1>4. ReplayTrue' /\ DigestTrue' BY <1>1, <1>3, AdminStays DEF ReplayInv, ReplayShape
<1>5. change' \in [kind : P!Ops, plugin : Servers, ran : BOOLEAN] /\ replayLock = "admin"
  BY <1>1 DEF ReplayInv, ReplayShape
<1>6. ReplayShape' BY <1>1, <1>2, <1>3, <1>5, <1>7 DEF ReplayInv, ReplayShape, P!ReplayTypes
<1> QED BY <1>4, <1>6 DEF ReplayInv

\* What a change records, it records under the lock, and a replay that waits
\* for it is overtaken.
LEMMA RecordKeeps ==
    ASSUME ReplayInv, P!RecordInstall \/ P!RecordUninstall \/ P!RecordRemove \/ P!RecordMarketplace
    PROVE  ReplayInv'
<1>1. /\ UNCHANGED <<known, inst, source, digest, boot, made, faulty>>
      /\ change # None /\ change' = None /\ replayLock' = None
      /\ overtaken' = (overtaken \/ boot.pc = "wait")
  BY DEF P!RecordInstall, P!RecordUninstall, P!RecordRemove, P!RecordMarketplace, P!Recording, P!registry
<1>2. boot.pc # "replay" /\ change.plugin \in Servers BY <1>1 DEF ReplayInv, ReplayShape
<1>3. plugsAdded' \subseteq Servers /\ plugsRemoved' \subseteq Servers
  BY <1>2 DEF P!RecordInstall, P!RecordUninstall, P!RecordRemove, P!RecordMarketplace, P!manifest,
     ReplayInv, ReplayShape, P!ReplayTypes
<1>4. overtaken' \in BOOLEAN /\ (~overtaken' => ~overtaken /\ boot.pc # "wait")
  BY <1>1 DEF ReplayInv, ReplayShape
<1>5. ReplayTrue' /\ DigestTrue' BY <1>1, <1>2, <1>4, AdminStays
<1>6. ReplayShape' BY <1>1, <1>2, <1>3, <1>4 DEF ReplayInv, ReplayShape, P!ReplayTypes
<1> QED BY <1>5, <1>6 DEF ReplayInv

LEMMA GivenUp == ASSUME ReplayInv, P!OpFails \/ P!OpDies PROVE ReplayInv'
<1>1. /\ UNCHANGED <<plugsAdded, plugsRemoved, known, inst, source, digest, boot, overtaken, made>>
      /\ change # None /\ change' = None /\ replayLock' = None
      /\ faulty' = faulty \/ (faulty < 1 /\ faulty' = faulty + 1)
  BY DEF P!OpFails, P!OpDies, P!manifest, P!registry
<1>2. boot.pc # "replay" BY <1>1 DEF ReplayInv, ReplayShape
<1>3. ReplayTrue' /\ DigestTrue' BY <1>1, <1>2, AdminStays DEF ReplayInv, ReplayShape
<1>4. ReplayShape' BY <1>1, <1>2 DEF ReplayInv, ReplayShape, P!ReplayTypes
<1> QED BY <1>3, <1>4 DEF ReplayInv

\* The replay starts or is over.
LEMMA BootTurns ==
    ASSUME ReplayInv, P!Collect \/ P!BootDies \/ P!Again PROVE ReplayInv'
<1>1. /\ UNCHANGED <<plugsAdded, plugsRemoved, known, inst, source, digest, change, overtaken, made>>
      /\ faulty' \in 0..1
  BY DEF P!Collect, P!BootDies, P!Again, P!manifest, P!registry, ReplayInv, ReplayShape, P!ReplayTypes
<1>2. /\ boot' \in [pc : {"off", "wait", "replay", "done"}, entries : SUBSET Servers,
                    inputs : Manifests \cup {None}, failed : BOOLEAN]
      /\ boot'.pc # "replay" /\ (boot'.pc = "wait" => boot'.entries = plugsAdded)
  <2>1. CASE P!Collect
    <3>1. boot' = [P!NoBoot EXCEPT !.pc = IF plugsAdded = {} THEN "done" ELSE "wait", !.entries = plugsAdded]
      BY <2>1 DEF P!Collect
    <3>2. plugsAdded \subseteq Servers BY DEF ReplayInv, ReplayShape, P!ReplayTypes
    <3> QED BY <3>1, <3>2 DEF P!NoBoot
  <2>2. CASE P!BootDies \/ P!Again BY <2>2, BootOff DEF P!BootDies, P!Again
  <2> QED BY <2>1, <2>2
<1>3. replayLock' = replayLock \/ (replayLock = "boot" /\ replayLock' = None)
  BY DEF P!Collect, P!BootDies, P!Again
<1>4. ReplayShape' BY <1>1, <1>2, <1>3 DEF ReplayInv, ReplayShape, P!ReplayTypes
<1>5. ReplayTrue' /\ DigestTrue' BY <1>1, <1>2 DEF ReplayInv, ReplayTrue, DigestTrue, UpToDate
<1> QED BY <1>4, <1>5 DEF ReplayInv

\* The inputs are taken under the lock, or there is nothing to do.
LEMMA TakeKeeps == ASSUME ReplayInv, NEW ok \in BOOLEAN, P!TakeInputs(ok) PROVE ReplayInv'
<1>1. /\ UNCHANGED <<plugsAdded, plugsRemoved, known, inst, source, change, overtaken, made, faulty>>
      /\ boot.pc = "wait" /\ replayLock = None
  BY DEF P!TakeInputs, P!manifest, P!registry
<1>2. change = None BY <1>1, PluginAssumption DEF ReplayInv, ReplayShape
<1>3. CASE boot' = [boot EXCEPT !.pc = "done"] /\ UNCHANGED <<digest, replayLock>>
  <2>1. /\ boot' \in [pc : {"off", "wait", "replay", "done"}, entries : SUBSET Servers,
                      inputs : Manifests \cup {None}, failed : BOOLEAN]
        /\ boot'.pc = "done"
    BY <1>3 DEF ReplayInv, ReplayShape
  <2>2. ReplayShape' BY <1>1, <1>2, <1>3, <2>1 DEF ReplayInv, ReplayShape, P!ReplayTypes
  <2> QED BY <1>1, <1>3, <2>1, <2>2 DEF ReplayInv, ReplayTrue, DigestTrue, UpToDate
<1>4. CASE /\ boot' = [boot EXCEPT !.pc = "replay", !.inputs = IF ok THEN P!Inputs ELSE None]
           /\ digest' = None /\ replayLock' = "boot"
  <2>1. P!Inputs \in Manifests /\ P!Inputs.added = plugsAdded /\ P!Inputs.removed = plugsRemoved
        /\ P!Inputs.source = source /\ source \in Int
    BY DEF P!Inputs, Manifests, ReplayInv, ReplayShape, P!ReplayTypes
  <2> HIDE DEF P!Inputs
  <2>2. /\ boot' \in [pc : {"off", "wait", "replay", "done"}, entries : SUBSET Servers,
                      inputs : Manifests \cup {None}, failed : BOOLEAN]
        /\ boot'.pc = "replay" /\ boot'.inputs \in {P!Inputs, None} /\ boot'.entries = boot.entries
    BY <1>4, <2>1 DEF ReplayInv, ReplayShape
  <2>3. ReplayShape' BY <1>1, <1>2, <1>4, <2>2 DEF ReplayInv, ReplayShape, P!ReplayTypes
  <2>4. ~overtaken => boot.entries = plugsAdded BY <1>1 DEF ReplayInv, ReplayTrue
  <2> HIDE DEF Manifests
  <2>5. ReplayTrue' BY <1>1, <2>1, <2>2, <2>4 DEF ReplayTrue
  <2>6. DigestTrue' BY <1>4 DEF DigestTrue
  <2> QED BY <2>3, <2>5, <2>6 DEF ReplayInv
<1> QED BY <1>3, <1>4 DEF P!TakeInputs

\* A boot skips a replay over a digest of what is there now: what is to be
\* there is at the version of the source.
LEMMA NothingOwed == ASSUME ReplayInv, P!ReplayStep PROVE P!SkipsNothingOwed
<1> SUFFICES ASSUME boot.pc = "wait", boot'.pc = "done", ~overtaken, NEW p \in plugsAdded \ plugsRemoved
             PROVE  inst[p] = source
  BY DEF P!SkipsNothingOwed
<1>1. boot \in [pc : {"off", "wait", "replay", "done"}, entries : SUBSET Servers,
                inputs : Manifests \cup {None}, failed : BOOLEAN]
  BY DEF ReplayInv, ReplayShape
<1>2. PICK ok \in BOOLEAN : P!TakeInputs(ok)
  <2>1. boot' # boot /\ boot.pc # "off" /\ boot.pc # "done" /\ boot.pc # "replay" OBVIOUS
  <2>2. ~P!BootDies BY BootOff DEF P!BootDies
  <2> QED
    BY <2>1, <2>2 DEF P!ReplayStep, P!Begin, P!RunAdd, P!RunInstall, P!RunUninstall, P!RunRemove, P!RunRefresh,
       P!others, P!RecordInstall, P!RecordUninstall, P!RecordRemove, P!RecordMarketplace, P!Recording, P!OpFails,
       P!OpDies, P!Collect, P!EndReplay, P!Again, P!Process, P!Push, P!Wipe, P!Manual
<1>3. digest = P!DigestOf(P!Inputs, P!Registry)
  <2>1. CASE boot' = [boot EXCEPT !.pc = "replay", !.inputs = IF ok THEN P!Inputs ELSE None]
    <3>1. boot'.pc = "replay" BY <1>1, <2>1
    <3> QED BY <3>1
  <2> QED BY <1>2, <2>1 DEF P!TakeInputs
<1>4. /\ digest["in"].added = plugsAdded /\ digest["in"].removed = plugsRemoved /\ digest["in"].source = source
      /\ digest.reg.inst = inst
  BY <1>3 DEF P!DigestOf, P!Inputs, P!Registry
<1>5. digest # None
  <2>1. /\ P!Inputs \in [added : SUBSET Servers, removed : SUBSET Servers, source : 1..2]
        /\ P!Registry \in [known : BOOLEAN, inst : [Servers -> 0..2]]
    BY DEF P!Inputs, P!Registry, ReplayInv, ReplayShape, P!ReplayTypes
  <2> QED BY <1>3, <2>1, PluginAssumption DEF P!DigestOf
<1>6. source <= inst[p] /\ inst[p] <= source BY <1>4, <1>5 DEF ReplayInv, DigestTrue, UpToDate
<1>7. source \in Int /\ inst[p] \in Int BY DEF ReplayInv, ReplayShape, P!ReplayTypes
<1> QED BY <1>6, <1>7

\* One entry of the manifest is done.
LEMMA ProcessKeeps == ASSUME ReplayInv, NEW p \in Servers, NEW ok \in BOOLEAN, P!Process(p, ok) PROVE ReplayInv'
<1>1. /\ UNCHANGED <<plugsAdded, plugsRemoved, source, digest, replayLock, change, overtaken, made, faulty>>
      /\ boot.pc = "replay"
      /\ boot' = [boot EXCEPT !.entries = @ \ {p}, !.failed = @ \/ (p \notin plugsRemoved /\ ~ok)]
      /\ IF p \in plugsRemoved \/ ~ok THEN UNCHANGED <<known, inst>>
         ELSE known' = TRUE /\ inst' = [inst EXCEPT ![p] = source]
  BY DEF P!Process, P!manifest, P!registry
<1>2. /\ boot \in [pc : {"off", "wait", "replay", "done"}, entries : SUBSET Servers,
                   inputs : Manifests \cup {None}, failed : BOOLEAN]
      /\ known \in BOOLEAN /\ inst \in [Servers -> 0..2] /\ source \in 1..2
  BY DEF ReplayInv, ReplayShape, P!ReplayTypes
<1>3. inst' \in [Servers -> 0..2] /\ (known' = known \/ known' = TRUE)
  <2>1. inst' \in [Servers -> 0..2] BY <1>1, <1>2
  <2>2. known' = known \/ known' = TRUE BY <1>1
  <2> QED BY <2>1, <2>2
<1>4. /\ boot' \in [pc : {"off", "wait", "replay", "done"}, entries : SUBSET Servers,
                    inputs : Manifests \cup {None}, failed : BOOLEAN]
      /\ boot'.pc = "replay" /\ boot'.inputs = boot.inputs /\ boot'.entries = boot.entries \ {p}
      /\ (~boot'.failed => ~boot.failed /\ (p \in plugsRemoved \/ ok))
  BY <1>1, <1>2
<1>5. ReplayShape' BY <1>1, <1>3, <1>4 DEF ReplayInv, ReplayShape, P!ReplayTypes
<1>6. ReplayTrue'
  <2>1. CASE boot.inputs = None BY <1>4, <2>1 DEF ReplayTrue
  <2>2. CASE boot.inputs # None
    <3>1. /\ boot.inputs.added = plugsAdded /\ boot.inputs.removed = plugsRemoved /\ boot.inputs.source <= source
      BY <1>1, <2>2 DEF ReplayInv, ReplayTrue
    <3>2. ASSUME ~overtaken, ~boot'.failed, NEW q \in boot.inputs.added \ (boot.inputs.removed \cup boot'.entries)
          PROVE  boot.inputs.source <= inst'[q] /\ inst'[q] <= source
      <4>1. CASE q = p
        <5>1. p \notin plugsRemoved /\ ok /\ p \in Servers BY <1>4, <3>1, <3>2, <4>1
        <5>2. inst'[p] = source BY <1>1, <1>2, <5>1
        <5> QED BY <1>2, <3>1, <4>1, <5>2
      <4>2. CASE q # p
        <5>1. q \in Servers BY <3>1 DEF ReplayInv, ReplayShape, P!ReplayTypes
        <5>2. inst'[q] = inst[q] BY <1>1, <1>2, <4>2, <5>1
        <5>3. q \in boot.inputs.added \ (boot.inputs.removed \cup boot.entries) /\ ~boot.failed BY <1>4, <3>2, <4>2
        <5> QED BY <1>1, <2>2, <3>2, <5>2, <5>3 DEF ReplayInv, ReplayTrue
      <4> QED BY <4>1, <4>2
    <3> QED BY <1>1, <1>4, <3>1, <3>2 DEF ReplayTrue
  <2> QED BY <2>1, <2>2
<1>7. DigestTrue' BY <1>1 DEF ReplayInv, DigestTrue, UpToDate
<1> QED BY <1>5, <1>6, <1>7 DEF ReplayInv

\* The replay ends over the inputs it took at its start.
LEMMA ReplayEndKeeps == ASSUME ReplayInv, P!EndReplay PROVE ReplayInv'
<1> DEFINE versions == [p \in Servers |-> IF p \in plugsRemoved THEN 0 ELSE inst[p]]
           dig == [in |-> boot.inputs, reg |-> [known |-> known, inst |-> versions]]
<1>1. /\ UNCHANGED <<plugsAdded, plugsRemoved, known, source, change, overtaken, made, faulty>>
      /\ boot.pc = "replay" /\ boot.entries = {} /\ inst' = versions /\ replayLock' = None
      /\ digest' = IF boot.inputs # None /\ ~boot.failed THEN dig ELSE digest
      /\ boot' = [boot EXCEPT !.pc = "done"]
  BY DEF P!EndReplay, P!manifest, P!DigestOf, P!Recorded
<1>2. /\ boot \in [pc : {"off", "wait", "replay", "done"}, entries : SUBSET Servers,
                   inputs : Manifests \cup {None}, failed : BOOLEAN]
      /\ known \in BOOLEAN /\ inst \in [Servers -> 0..2] /\ replayLock = "boot" /\ change = None
  BY <1>1 DEF ReplayInv, ReplayShape, P!ReplayTypes
<1>3. versions \in [Servers -> 0..2] /\ \A p \in Servers \ plugsRemoved : versions[p] = inst[p] BY <1>2
<1> HIDE DEF versions
<1>4. /\ boot' \in [pc : {"off", "wait", "replay", "done"}, entries : SUBSET Servers,
                    inputs : Manifests \cup {None}, failed : BOOLEAN]
      /\ boot'.pc = "done"
  BY <1>1, <1>2
<1>5. boot.inputs # None => dig \in [in : Manifests, reg : Registries] BY <1>2, <1>3 DEF Registries
<1>6. dig["in"] = boot.inputs /\ dig.reg.inst = versions OBVIOUS
<1> HIDE DEF dig
<1>7. ReplayShape' BY <1>1, <1>2, <1>3, <1>4, <1>5 DEF ReplayInv, ReplayShape, P!ReplayTypes
<1>8. ReplayTrue' BY <1>4 DEF ReplayTrue
<1>9. DigestTrue'
  <2>1. CASE boot.inputs # None /\ ~boot.failed
    <3>1. boot.inputs.added = plugsAdded /\ boot.inputs.removed = plugsRemoved
      BY <1>1, <2>1 DEF ReplayInv, ReplayTrue
    <3>2. ASSUME ~overtaken, NEW p \in boot.inputs.added \ boot.inputs.removed
          PROVE  boot.inputs.source <= versions[p] /\ versions[p] <= source
      <4>1. p \in Servers \ plugsRemoved BY <3>1, <3>2 DEF ReplayInv, ReplayShape, P!ReplayTypes
      <4>2. boot.inputs.source <= inst[p] /\ inst[p] <= source
        BY <1>1, <2>1, <3>2 DEF ReplayInv, ReplayTrue
      <4> QED BY <1>3, <4>1, <4>2
    <3>3. digest' = dig BY <1>1, <2>1
    <3> QED BY <1>1, <1>6, <3>2, <3>3 DEF DigestTrue, UpToDate
  <2>2. CASE ~(boot.inputs # None /\ ~boot.failed)
    <3>1. digest' = digest /\ source' = source /\ overtaken' = overtaken BY <1>1, <2>2
    <3> QED BY <3>1 DEF ReplayInv, DigestTrue, UpToDate
  <2> QED BY <2>1, <2>2
<1> QED BY <1>7, <1>8, <1>9 DEF ReplayInv

\* The source only gets newer.
LEMMA PushKeeps == ASSUME ReplayInv, P!Push PROVE ReplayInv'
<1>1. /\ UNCHANGED <<plugsAdded, plugsRemoved, known, inst, digest, replayLock, change, boot, overtaken, made, faulty>>
      /\ source \in 1..2 /\ source < 2 /\ source' = source + 1 /\ inst \in [Servers -> 0..2]
  BY DEF P!Push, P!manifest, P!registry, ReplayInv, ReplayShape, P!ReplayTypes
<1>2. ReplayShape' BY <1>1 DEF ReplayInv, ReplayShape, P!ReplayTypes
<1>3. ReplayTrue'
  <2>1. /\ boot.inputs # None => boot.inputs.source \in Int
        /\ boot.inputs # None => boot.inputs.added \subseteq Servers
    BY DEF ReplayInv, ReplayShape, Manifests
  <2> QED BY <1>1, <2>1 DEF ReplayInv, ReplayTrue
<1>4. DigestTrue'
  <2>1. ASSUME ~overtaken, digest # None, NEW p \in digest["in"].added \ digest["in"].removed
        PROVE  digest["in"].source <= digest.reg.inst[p] /\ digest.reg.inst[p] <= source + 1
    <3>1. digest["in"].source <= digest.reg.inst[p] /\ digest.reg.inst[p] <= source
      BY <2>1 DEF ReplayInv, DigestTrue, UpToDate
    <3>2. digest["in"] \in Manifests /\ digest.reg \in Registries BY <2>1 DEF ReplayInv, ReplayShape
    <3>3. digest.reg.inst[p] \in Int BY <2>1, <3>2 DEF Manifests, Registries
    <3> QED BY <1>1, <3>1, <3>3
  <2> QED BY <1>1, <2>1 DEF DigestTrue, UpToDate
<1> QED BY <1>2, <1>3, <1>4 DEF ReplayInv

\* The volume is lost, or someone installs by hand, while no replay runs.
LEMMA AroundKeeps == ASSUME ReplayInv, P!Wipe \/ \E p \in Servers : P!Manual(p) PROVE ReplayInv'
<1>1. /\ UNCHANGED <<plugsAdded, plugsRemoved, source, digest, replayLock, change, boot, overtaken, made>>
      /\ boot.pc = "off" /\ faulty < 1 /\ faulty' = faulty + 1
  BY DEF P!Wipe, P!Manual, P!manifest
<1>2. known \in BOOLEAN /\ inst \in [Servers -> 0..2] /\ source \in 0..2
  BY DEF ReplayInv, ReplayShape, P!ReplayTypes
<1>3. inst' \in [Servers -> 0..2] /\ (known' = known \/ known' = FALSE)
  <2>1. inst' \in [Servers -> 0..2] BY <1>2 DEF P!Wipe, P!Manual
  <2>2. known' = known \/ known' = FALSE BY DEF P!Wipe, P!Manual
  <2> QED BY <2>1, <2>2
<1>4. ReplayTrue' /\ DigestTrue' BY <1>1, AdminStays DEF ReplayInv, ReplayShape
<1>6. known' \in BOOLEAN /\ faulty' \in 0..1
  <2>1. known' \in BOOLEAN BY <1>2, <1>3
  <2>2. faulty \in 0..1 BY DEF ReplayInv, ReplayShape, P!ReplayTypes
  <2>3. faulty' \in 0..1 BY <1>1, <2>2
  <2> QED BY <2>1, <2>3
<1>5. ReplayShape' BY <1>1, <1>3, <1>6 DEF ReplayInv, ReplayShape, P!ReplayTypes
<1> QED BY <1>4, <1>5 DEF ReplayInv

LEMMA ReplayKeeps == ASSUME ReplayInv, P!ReplayStep PROVE ReplayInv'
<1>1. CASE \E kind \in P!Ops, p \in Servers : P!Begin(kind, p) BY <1>1, BeginKeeps
<1>2. CASE \E ok \in BOOLEAN : P!TakeInputs(ok) BY <1>2, TakeKeeps
<1>3. CASE \E p \in Servers, ok \in BOOLEAN : P!Process(p, ok) BY <1>3, ProcessKeeps
<1>4. CASE P!Wipe \/ \E p \in Servers : P!Manual(p) BY <1>4, AroundKeeps
<1> QED BY <1>1, <1>2, <1>3, <1>4, CliKeeps, RecordKeeps, GivenUp, BootTurns, ReplayEndKeeps, PushKeeps DEF P!ReplayStep

LEMMA ReplayStutter ==
    ASSUME ReplayInv,
           UNCHANGED <<plugsAdded, plugsRemoved, known, inst, source, digest, replayLock, change, boot, overtaken,
                       made, faulty>>
    PROVE  ReplayInv'
BY DEF ReplayInv, ReplayShape, ReplayTrue, DigestTrue, UpToDate, P!ReplayTypes

-----------------------------------------------------------------------------
(* The replacement of a plugin tree (PluginReplay).                        *)

place == x13
whole == x14
staleTrees == x15
alive == x16
treeLock == x17
treeAt == x18
mine == x19
reads == x20

USE DEF place, whole, staleTrees, alive, treeLock, treeAt, mine, reads

\* Who works on a tree lives and has the lock; the tree it has in hand is
\* beside the one that is in place; a reader lives.
TreesInv ==
    /\ P!TreeTypes /\ P!Dest \subseteq whole
    /\ \A s, t \in P!Dest : s = t
    /\ (\E t \in Versions : place[t] = "old") => P!Dest # {}
    /\ \A i \in Parties :
          /\ treeAt[i] # "idle" => treeLock = i /\ i \in alive /\ mine[i] \in Versions /\ place[mine[i]] = "new"
          /\ treeAt[i] = "publish" => mine[i] \in whole
          /\ treeAt[i] = "park" => P!Dest # {}
          /\ reads[i] # None => i \in alive

LEMMA TreesInit == P!TreeInit => TreesInv
BY DEF P!TreeInit, TreesInv, P!TreeTypes, P!Dest

LEMMA TreesWhole == ASSUME TreesInv PROVE P!TreeTypes /\ P!DestIsWhole
<1>1. \A S : P!Cardinality(S) = Cardinality(S) BY DEF P!Cardinality, Cardinality
<1>2. P!Dest = {} \/ \E t : P!Dest = {t} BY DEF TreesInv
<1>3. Cardinality({}) = 0 /\ \A t : Cardinality({t}) = 1 BY FS_EmptySet, FS_Singleton
<1>4. P!Dest = {} => Cardinality(P!Dest) = 0 BY <1>3
<1>5. ASSUME NEW t, P!Dest = {t} PROVE Cardinality(P!Dest) = 1 BY <1>3, <1>5
<1>6. Cardinality(P!Dest) \in 0..1 BY <1>2, <1>3, <1>4, <1>5
<1> QED BY <1>1, <1>6 DEF TreesInv, P!DestIsWhole

\* The trees move, and nothing but what is beside the tree in place goes or
\* comes.
LEMMA ReadersMove ==
    ASSUME TreesInv, NEW i \in Parties, P!Start(i) \/ P!Enter(i) \/ P!Leave(i)
    PROVE  TreesInv'
<1>1. UNCHANGED <<place, whole, staleTrees, treeLock, treeAt, mine>> /\ alive \subseteq alive' /\ alive' \subseteq Parties
  BY DEF TreesInv, P!TreeTypes, P!Start, P!Enter, P!Leave
<1>2. /\ reads' \in [Parties -> Versions \cup {None}]
      /\ \A j \in Parties : reads'[j] # None => j \in alive'
  <2>1. CASE P!Start(i) BY <2>1 DEF TreesInv, P!TreeTypes, P!Start
  <2>2. CASE P!Leave(i) BY <2>2 DEF TreesInv, P!TreeTypes, P!Leave
  <2>3. CASE P!Enter(i)
    <3>1. PICK t \in Versions : reads' = [reads EXCEPT ![i] = t]
      <4>1. (CHOOSE t \in P!Dest : TRUE) \in P!Dest BY <2>3 DEF P!Enter
      <4> QED BY <4>1, <2>3 DEF P!Enter, P!Dest
    <3> QED BY <2>3, <3>1 DEF TreesInv, P!TreeTypes, P!Enter
  <2> QED BY <2>1, <2>2, <2>3
<1> QED BY <1>1, <1>2 DEF TreesInv, P!TreeTypes, P!Dest

LEMMA AgeKeeps == ASSUME TreesInv, NEW t \in Versions, P!Age(t) PROVE TreesInv'
<1>1. /\ UNCHANGED <<place, whole, alive, treeLock, treeAt, mine, reads>>
      /\ staleTrees' = staleTrees \cup {t}
  BY DEF P!Age
<1> QED BY <1>1 DEF TreesInv, P!TreeTypes, P!Dest

\* Nobody works while the lock is free, and then a sweep takes only what is
\* parked or left over.
LEMMA SweptStays ==
    ASSUME TreesInv, NEW i \in Parties, NEW t \in Versions, P!Swept(i, t)
    PROVE  place[t] \in {"old", "new"}
BY DEF P!Swept

LEMMA ParkedGo == ASSUME TreesInv, NEW i \in Parties, P!SweepParked(i) PROVE TreesInv'
<1>1. /\ UNCHANGED <<whole, staleTrees, alive, treeLock, treeAt, mine, reads>> /\ treeLock = None
      /\ place' = [u \in Versions |-> IF P!Swept(i, u) THEN "gone" ELSE place[u]]
  BY DEF P!SweepParked
<1>2. \A j \in Parties : treeAt[j] = "idle" BY <1>1, RegistryAssumption DEF TreesInv
<1>3. \A t \in Versions : \/ place'[t] = place[t]
                          \/ place'[t] = "gone" /\ place[t] \in {"old", "new"}
  BY <1>1, SweptStays
<1>4. place' \in [Versions -> {"none", "new", "dest", "old", "gone"}] BY <1>1 DEF TreesInv, P!TreeTypes
<1>5. P!Dest' = P!Dest /\ \A t \in Versions : place'[t] = "old" => place[t] = "old" BY <1>3 DEF P!Dest
<1> QED BY <1>1, <1>2, <1>4, <1>5 DEF TreesInv, P!TreeTypes

LEMMA BuildKeeps ==
    ASSUME TreesInv, NEW i \in Parties, NEW t \in Versions, P!Build(i, t) PROVE TreesInv'
<1>1. /\ UNCHANGED <<whole, staleTrees, alive, reads>> /\ treeLock = None /\ treeLock' = i /\ i \in alive
      /\ place[t] = "none" /\ treeAt' = [treeAt EXCEPT ![i] = "build"] /\ mine' = [mine EXCEPT ![i] = t]
      /\ place' = [u \in Versions |-> IF u = t THEN "new" ELSE IF P!Swept(i, u) THEN "gone" ELSE place[u]]
  BY DEF P!Build
<1>2. \A j \in Parties : treeAt[j] = "idle" BY <1>1, RegistryAssumption DEF TreesInv
<1>3. \A u \in Versions : \/ place'[u] = place[u]
                          \/ place'[u] = "gone" /\ place[u] \in {"old", "new"}
                          \/ u = t /\ place'[u] = "new"
  BY <1>1, SweptStays
<1>4. place' \in [Versions -> {"none", "new", "dest", "old", "gone"}] /\ place'[t] = "new"
  BY <1>1 DEF TreesInv, P!TreeTypes
<1>5. /\ treeAt' \in [Parties -> {"idle", "build", "publish", "park"}] /\ mine' \in [Parties -> Versions \cup {None}]
      /\ mine'[i] = t /\ treeAt'[i] = "build" /\ \A j \in Parties \ {i} : treeAt'[j] = "idle"
  BY <1>1, <1>2 DEF TreesInv, P!TreeTypes
<1>6. P!Dest' = P!Dest /\ \A u \in Versions : place'[u] = "old" => place[u] = "old" BY <1>1, <1>3 DEF P!Dest
<1> QED BY <1>1, <1>4, <1>5, <1>6 DEF TreesInv, P!TreeTypes

LEMMA FillKeeps == ASSUME TreesInv, NEW i \in Parties, P!Fill(i) PROVE TreesInv'
<1>1. /\ UNCHANGED <<place, staleTrees, alive, treeLock, mine, reads>> /\ treeAt[i] = "build"
      /\ whole' = whole \cup {mine[i]} /\ treeAt' = [treeAt EXCEPT ![i] = "publish"]
  BY DEF P!Fill
<1> QED BY <1>1 DEF TreesInv, P!TreeTypes, P!Dest

\* Who has the lock puts it down, with its tree where it now is.
LEMMA PutDown ==
    ASSUME TreesInv, NEW i \in Parties, treeAt[i] # "idle", UNCHANGED <<whole, alive, reads>>,
           place' \in [Versions -> {"none", "new", "dest", "old", "gone"}], staleTrees' \subseteq staleTrees,
           treeAt' = [treeAt EXCEPT ![i] = "idle"], mine' = [mine EXCEPT ![i] = None], treeLock' = None,
           P!Dest' \subseteq whole, \A s, t \in P!Dest' : s = t,
           (\E t \in Versions : place'[t] = "old") => P!Dest' # {}
    PROVE  TreesInv'
<1>1. \A j \in Parties : treeAt'[j] = "idle" BY DEF TreesInv, P!TreeTypes
<1> QED BY <1>1 DEF TreesInv, P!TreeTypes

LEMMA TreeFailsKeeps == ASSUME TreesInv, NEW i \in Parties, P!Fails(i) PROVE TreesInv'
<1>1. /\ UNCHANGED <<whole, staleTrees, alive, reads>> /\ treeAt[i] # "idle"
      /\ place' = [place EXCEPT ![mine[i]] = "gone"]
      /\ treeAt' = [treeAt EXCEPT ![i] = "idle"] /\ mine' = [mine EXCEPT ![i] = None] /\ treeLock' = None
  BY DEF P!Fails
<1>2. mine[i] \in Versions /\ place[mine[i]] = "new" BY <1>1 DEF TreesInv
<1>3. /\ place' \in [Versions -> {"none", "new", "dest", "old", "gone"}] /\ P!Dest' = P!Dest
      /\ \A t \in Versions : place'[t] = "old" => place[t] = "old"
  BY <1>1, <1>2 DEF TreesInv, P!TreeTypes, P!Dest
<1> QED BY <1>1, <1>3, PutDown DEF TreesInv

LEMMA ParkKeeps == ASSUME TreesInv, NEW i \in Parties, NEW ok \in BOOLEAN, P!Park(i, ok) PROVE TreesInv'
<1>1. /\ UNCHANGED <<whole, alive, reads>> /\ treeAt[i] = "park"
      /\ (place' = place \/ place' = [place EXCEPT ![mine[i]] = "old"]) /\ staleTrees' \subseteq staleTrees
      /\ treeAt' = [treeAt EXCEPT ![i] = "idle"] /\ mine' = [mine EXCEPT ![i] = None] /\ treeLock' = None
  BY DEF P!Park
<1>2. mine[i] \in Versions /\ place[mine[i]] = "new" /\ P!Dest # {} BY <1>1 DEF TreesInv
<1>3. place' \in [Versions -> {"none", "new", "dest", "old", "gone"}] /\ P!Dest' = P!Dest
  BY <1>1, <1>2 DEF TreesInv, P!TreeTypes, P!Dest
<1> QED BY <1>1, <1>2, <1>3, PutDown DEF TreesInv

LEMMA PublishTreeKeeps == ASSUME TreesInv, NEW i \in Parties, P!Publish(i) PROVE TreesInv'
<1>1. treeAt[i] = "publish" /\ UNCHANGED <<whole, staleTrees, alive, reads>> BY DEF P!Publish
<1>2. mine[i] \in Versions /\ place[mine[i]] = "new" /\ mine[i] \in whole BY <1>1 DEF TreesInv
<1>3. CASE P!Dest = {}
  <2>1. /\ place' = [place EXCEPT ![mine[i]] = "dest"]
        /\ treeAt' = [treeAt EXCEPT ![i] = "idle"] /\ mine' = [mine EXCEPT ![i] = None] /\ treeLock' = None
    BY <1>3 DEF P!Publish
  <2>2. place' \in [Versions -> {"none", "new", "dest", "old", "gone"}] /\ P!Dest' = {mine[i]}
    BY <1>2, <1>3, <2>1 DEF TreesInv, P!TreeTypes, P!Dest
  <2> QED BY <1>1, <1>2, <2>1, <2>2, PutDown
<1>4. CASE P!Dest # {}
  <2> DEFINE old == CHOOSE t \in P!Dest : TRUE
  <2>1. /\ place' = [t \in Versions |-> IF t = mine[i] THEN "dest" ELSE IF t \in P!Dest THEN "new" ELSE place[t]]
        /\ mine' = [mine EXCEPT ![i] = old] /\ treeAt' = [treeAt EXCEPT ![i] = "park"] /\ treeLock' = treeLock
    BY <1>4 DEF P!Publish
  <2>2. old \in P!Dest BY <1>4
  <2> HIDE DEF old
  <2>3. old \in Versions /\ old # mine[i] BY <1>2, <2>2 DEF P!Dest
  <2>4. /\ place' \in [Versions -> {"none", "new", "dest", "old", "gone"}] /\ P!Dest' = {mine[i]}
        /\ place'[old] = "new"
    BY <1>2, <2>1, <2>2, <2>3 DEF TreesInv, P!TreeTypes, P!Dest
  <2>5. treeLock = i /\ i \in alive /\ \A j \in Parties \ {i} : treeAt[j] = "idle"
    BY <1>1 DEF TreesInv
  <2>6. /\ mine' \in [Parties -> Versions \cup {None}] /\ mine'[i] = old
        /\ treeAt' \in [Parties -> {"idle", "build", "publish", "park"}] /\ treeAt'[i] = "park"
        /\ \A j \in Parties \ {i} : treeAt'[j] = "idle"
    BY <2>1, <2>3, <2>5 DEF TreesInv, P!TreeTypes
  <2> QED BY <1>1, <1>2, <2>1, <2>3, <2>4, <2>5, <2>6 DEF TreesInv, P!TreeTypes
<1> QED BY <1>3, <1>4

LEMMA TreeDieKeeps == ASSUME TreesInv, NEW i \in Parties, P!Die(i) PROVE TreesInv'
<1>1. /\ UNCHANGED <<place, whole, staleTrees>> /\ alive' = alive \ {i}
      /\ treeLock' = IF treeLock = i THEN None ELSE treeLock
      /\ treeAt' = [treeAt EXCEPT ![i] = "idle"] /\ mine' = [mine EXCEPT ![i] = None]
      /\ reads' = [reads EXCEPT ![i] = None]
  BY DEF P!Die
<1> QED BY <1>1 DEF TreesInv, P!TreeTypes, P!Dest

LEMMA TreesStep == ASSUME TreesInv, P!TreeStep PROVE TreesInv'
BY ReadersMove, AgeKeeps, ParkedGo, BuildKeeps, FillKeeps, TreeFailsKeeps, ParkKeeps, PublishTreeKeeps, TreeDieKeeps
DEF P!TreeStep

LEMMA TreesStutter ==
    ASSUME TreesInv, UNCHANGED <<place, whole, staleTrees, alive, treeLock, treeAt, mine, reads>> PROVE TreesInv'
BY DEF TreesInv, P!TreeTypes, P!Dest

\* Only a sweep makes a parked tree go.
LEMMA TreesSpared == ASSUME TreesInv, P!TreeStep PROVE P!KeepsReadTrees
<1> SUFFICES ASSUME NEW r \in Parties, NEW t \in Versions, reads[r] = t, place[t] = "old", place'[t] = "gone"
             PROVE  alive = {r}
  BY DEF P!KeepsReadTrees
<1>1. r \in alive BY PluginAssumption DEF TreesInv
<1>2. PICK i \in Parties :
        \/ P!SweepParked(i) \/ P!Build(i, t) \/ P!Fails(i) \/ P!Publish(i) \/ P!Park(i, TRUE) \/ P!Park(i, FALSE)
        \/ \E u \in Versions : P!Build(i, u)
        \/ place' = place
  BY DEF P!TreeStep, P!Start, P!Fill, P!Enter, P!Leave, P!Die, P!Age
<1>3. CASE P!SweepParked(i) BY <1>1, <1>3 DEF P!SweepParked, P!Swept
<1>4. CASE \E u \in Versions : P!Build(i, u) BY <1>1, <1>4 DEF P!Build, P!Swept
<1>5. CASE P!Fails(i) BY <1>5 DEF P!Fails, TreesInv, P!TreeTypes
<1>6. CASE P!Publish(i) BY <1>6 DEF P!Publish, TreesInv, P!TreeTypes
<1>7. CASE P!Park(i, TRUE) \/ P!Park(i, FALSE) BY <1>7 DEF P!Park, TreesInv, P!TreeTypes
<1> QED BY <1>2, <1>3, <1>4, <1>5, <1>6, <1>7

-----------------------------------------------------------------------------
(* The requests of the file routes (WorkspaceFiles).                       *)

fileAt == x1
entries == x2
agentSteps == x3
request == x4
quotaLock == x5
harmDone == x6

USE DEF fileAt, entries, agentSteps, request, quotaLock, harmDone

DirA == <<"dir", "a">>
DirB == <<"dir", "b">>
FileKinds == {"none", "file", "dir", "link", "fifo"}
RequestSteps == {"new", "lock", "fits", "open", "open2", "act", "copied", "placed", "done"}
FileRequests ==
    [op : F!Ops \cup {"none"}, src : {"a", "b", "none"}, dst : {"a", "b", "none"}, keep : BOOLEAN,
     pc : RequestSteps, fd : {DirA, DirB, F!NoDir}, to : {DirA, DirB, F!NoDir}, same : BOOLEAN, fresh : BOOLEAN]

BothFiles(e) == e[DirA] = "file" /\ e[DirB] = "file"
NoFiles(e) == e[DirA] # "file" /\ e[DirB] # "file"

\* The directory an upload will write, as its quota check saw it.
UploadDir(r) == IF request[r].pc = "open" THEN fileAt[request[r].dst] ELSE request[r].fd

\* What a request opened is in the workspace.  From its quota check on one that
\* grows is alone under the lock, and what it was granted still fits.
RequestOK(r) ==
    /\ request[r].keep => request[r].op \in {"upload", "move"}
    /\ request[r].pc \in {"copied", "placed"} => ~request[r].keep /\ request[r].op = "move"
    /\ request[r].pc \in {"open2", "act", "copied", "placed"} => request[r].fd \in {DirA, DirB}
    /\ request[r].pc \in {"act", "copied", "placed"} => request[r].to \in {DirA, DirB}
    /\ request[r].pc \in {"lock", "fits"} => F!Grows(r)
    /\ F!Grows(r) /\ request[r].pc \in {"fits", "open", "open2", "act"} => quotaLock = {r}
    /\ request[r].op = "upload" => request[r].src = request[r].dst /\ request[r].pc # "open2"
    /\ request[r].fresh =>
          /\ F!Grows(r) /\ request[r].pc \in {"open", "open2", "act"}
          /\ \/ NoFiles(entries)
             \/ /\ request[r].op = "upload" /\ ~BothFiles(entries)
                /\ UploadDir(r) \in {DirA, DirB} /\ entries[UploadDir(r)] = "file"

FilesTypes ==
    /\ entries \in [{DirA, DirB, F!Out} -> FileKinds] /\ request \in [Runs -> FileRequests]
    /\ quotaLock \subseteq Runs

FilesInv == FilesTypes /\ F!RequestsAreConfined /\ \A r \in Runs : RequestOK(r)

LEMMA FilePlaces ==
    /\ F!Dirs = {DirA, DirB} /\ DirA # DirB /\ F!Out \notin {DirA, DirB}
    /\ F!NoDir \notin {DirA, DirB} /\ F!Out # F!NoDir
<1>1. F!Dirs = {DirA, DirB} BY DEF F!Dirs, DirA, DirB
<1>2. DirA # DirB /\ F!Out \notin {DirA, DirB} BY DEF DirA, DirB, F!Out
<1>3. F!NoDir \notin {DirA, DirB} /\ F!Out # F!NoDir BY DEF DirA, DirB, F!Out, F!NoDir
<1> QED BY <1>1, <1>2, <1>3

\* Files counts the two entries.
LEMMA FileCount ==
    ASSUME NEW e
    PROVE  F!Files(e) \in Nat /\ (F!Files(e) =< 1 <=> ~BothFiles(e)) /\ (F!Files(e) =< 0 <=> NoFiles(e))
<1> DEFINE held == {d \in {DirA, DirB} : e[d] = "file"}
<1>1. \A S : F!Cardinality(S) = Cardinality(S) BY DEF F!Cardinality, Cardinality
<1>2. F!Files(e) = Cardinality(held) BY <1>1, FilePlaces DEF F!Files
<1>3. CASE NoFiles(e)
  <2>1. held = {} BY <1>3 DEF NoFiles
  <2> QED BY <1>2, <1>3, <2>1, FS_EmptySet DEF NoFiles, BothFiles
<1>4. CASE BothFiles(e)
  <2>1. held = {DirA} \cup {DirB} BY <1>4 DEF BothFiles
  <2>2. IsFiniteSet({DirA}) /\ Cardinality({DirA}) = 1 /\ DirB \notin {DirA} BY FS_Singleton, FilePlaces
  <2>3. Cardinality({DirA} \cup {DirB}) = 2 BY <2>2, FS_AddElement
  <2> QED BY <1>2, <1>4, <2>1, <2>3 DEF NoFiles, BothFiles
<1>5. CASE ~NoFiles(e) /\ ~BothFiles(e)
  <2>1. \E d : held = {d} BY <1>5, FilePlaces DEF NoFiles, BothFiles
  <2>2. Cardinality(held) = 1 BY <2>1, FS_Singleton
  <2> QED BY <1>2, <1>5, <2>2 DEF NoFiles, BothFiles
<1> QED BY <1>3, <1>4, <1>5

LEMMA NewRequest ==
    /\ F!NoReq \in FileRequests /\ F!NoReq.op = "none" /\ F!NoReq.pc = "new" /\ F!NoReq.keep = FALSE
    /\ F!NoReq.fresh = FALSE
BY DEF F!NoReq, FileRequests, RequestSteps

LEMMA FilesInit == ASSUME F!FilesInit PROVE FilesInv
<1>1. /\ entries \in [F!Dirs \cup {F!Out} -> {"none", "file"}] /\ request = [r \in Runs |-> F!NoReq]
      /\ quotaLock = {} /\ harmDone = {}
  BY DEF F!FilesInit
<1>2. FilesTypes
  <2>1. entries \in [{DirA, DirB, F!Out} -> FileKinds] BY <1>1, FilePlaces DEF FileKinds
  <2> QED BY <1>1, <2>1, NewRequest DEF FilesTypes
<1>3. ASSUME NEW r \in Runs PROVE RequestOK(r) BY <1>1, NewRequest DEF RequestOK, F!Grows
<1> QED BY <1>1, <1>2, <1>3 DEF FilesInv, F!RequestsAreConfined

\* No entry becomes a file.
Shrinks == \A d \in {DirA, DirB} : entries'[d] = "file" => entries[d] = "file"

\* A request that does not act stays sound, or has lost its quota check.
LEMMA OtherStays ==
    ASSUME FilesInv, NEW r \in Runs, request'[r] \in FileRequests,
           request'[r].op = request[r].op, request'[r].src = request[r].src, request'[r].dst = request[r].dst,
           request'[r].keep = request[r].keep, request'[r].pc = request[r].pc, request'[r].fd = request[r].fd,
           request'[r].to = request[r].to, quotaLock = {r} => quotaLock' = {r},
           request'[r].fresh => request[r].fresh /\ UNCHANGED fileAt /\ Shrinks
    PROVE  RequestOK(r)'
<1>1. RequestOK(r) BY DEF FilesInv
<1>2. request'[r].fresh => UploadDir(r)' = UploadDir(r) BY DEF UploadDir
<1>3. request'[r].fresh =>
          \/ NoFiles(entries)'
          \/ /\ request[r].op = "upload" /\ ~BothFiles(entries)'
             /\ UploadDir(r) \in {DirA, DirB} /\ entries'[UploadDir(r)] = "file"
  BY <1>1 DEF RequestOK, Shrinks, NoFiles, BothFiles
<1> QED BY <1>1, <1>2, <1>3 DEF RequestOK, F!Grows

\* The request ends.
LEMMA EndsRequest ==
    ASSUME FilesInv, NEW r \in Runs, F!Done(r), UNCHANGED fileAt,
           entries' \in [{DirA, DirB, F!Out} -> FileKinds], harmDone' \subseteq {"removed unseen"},
           Shrinks \/ quotaLock = {r}
    PROVE  FilesInv'
<1> DEFINE v == [F!NoReq EXCEPT !.pc = "done"]
<1>1. v \in FileRequests /\ v.op = "none" /\ v.pc = "done" /\ v.keep = FALSE /\ v.fresh = FALSE
  BY NewRequest DEF FileRequests, RequestSteps
<1>2. request' = [request EXCEPT ![r] = v] /\ quotaLock' = quotaLock \ {r} BY DEF F!Done
<1> HIDE DEF v
<1>3. request' \in [Runs -> FileRequests] /\ request'[r] = v /\ \A q \in Runs : q # r => request'[q] = request[q]
  BY <1>1, <1>2 DEF FilesInv, FilesTypes
<1>4. RequestOK(r)' BY <1>1, <1>3 DEF RequestOK, F!Grows
<1>5. ASSUME NEW q \in Runs, q # r PROVE RequestOK(q)'
  <2>1. quotaLock = {q} => quotaLock' = {q} BY <1>2, <1>5
  <2>2. request[q].fresh => Shrinks
    <3>1. CASE quotaLock = {r} BY <1>5, <3>1 DEF FilesInv, RequestOK
    <3> QED BY <3>1
  <2> QED BY <1>3, <1>5, <2>1, <2>2, OtherStays
<1>6. FilesTypes' BY <1>2, <1>3 DEF FilesInv, FilesTypes
<1> QED BY <1>4, <1>5, <1>6 DEF FilesInv, F!RequestsAreConfined

\* The request goes on; no file changes.
LEMMA RequestTurns ==
    ASSUME FilesInv, NEW r \in Runs, NEW v \in FileRequests, request' = [request EXCEPT ![r] = v],
           UNCHANGED <<fileAt, entries, harmDone>>, quotaLock' \subseteq Runs,
           \A q \in Runs : q # r /\ quotaLock = {q} => quotaLock' = {q}, RequestOK(r)'
    PROVE  FilesInv'
<1>1. request' \in [Runs -> FileRequests] /\ \A q \in Runs : q # r => request'[q] = request[q]
  BY DEF FilesInv, FilesTypes
<1>2. Shrinks BY DEF Shrinks
<1>3. \A q \in Runs : q # r => RequestOK(q)' BY <1>1, <1>2, OtherStays
<1>4. FilesTypes' BY <1>1 DEF FilesInv, FilesTypes
<1> QED BY <1>3, <1>4 DEF FilesInv, F!RequestsAreConfined

\* The request changes an entry outside the quota lock, or the agent does:
\* no quota check counts any more.
LEMMA ChecksLapse ==
    ASSUME FilesInv, request' \in [Runs -> FileRequests], UNCHANGED quotaLock,
           entries' \in [{DirA, DirB, F!Out} -> FileKinds], harmDone' \subseteq {"removed unseen"},
           NEW S \in SUBSET Runs, \A r \in S : RequestOK(r)',
           \A r \in Runs \ S : /\ request'[r].op = request[r].op /\ request'[r].src = request[r].src
                               /\ request'[r].dst = request[r].dst /\ request'[r].keep = request[r].keep
                               /\ request'[r].pc = request[r].pc /\ request'[r].fd = request[r].fd
                               /\ request'[r].to = request[r].to /\ ~request'[r].fresh
    PROVE  FilesInv'
<1>1. \A r \in Runs \ S : RequestOK(r)' BY OtherStays
<1>2. FilesTypes' BY DEF FilesInv, FilesTypes
<1> QED BY <1>1, <1>2 DEF FilesInv, F!RequestsAreConfined

LEMMA RequestKinds ==
    ASSUME FilesInv, NEW r \in Runs
    PROVE  /\ request[r] \in FileRequests /\ RequestOK(r) /\ FilesTypes
           /\ harmDone \subseteq {"removed unseen"} /\ entries \in [{DirA, DirB, F!Out} -> FileKinds]
BY DEF FilesInv, FilesTypes, F!RequestsAreConfined

LEMMA CheckKeeps ==
    ASSUME FilesInv, NEW r \in Runs, NEW what \in F!Ops, NEW s \in {"a", "b"}, NEW d \in {"a", "b"},
           NEW exclusive \in BOOLEAN, F!Check(r, what, s, d, exclusive)
    PROVE  FilesInv'
<1> DEFINE src == F!Real(s)
           dst == F!Real(d)
           v == [F!NoReq EXCEPT !.op = what, !.src = src, !.dst = dst, !.keep = exclusive,
                                !.pc = IF what \in {"upload", "copy"} THEN "lock" ELSE "open"]
<1>1. /\ request' = [request EXCEPT ![r] = v] /\ UNCHANGED <<fileAt, entries, quotaLock, harmDone>>
      /\ (exclusive => what \in {"upload", "move"}) /\ (what \notin {"move", "copy"} => d = s)
      /\ src # "none" /\ dst # "none" /\ request[r].pc = "new"
  BY DEF F!Check
<1>2. src \in {"a", "b", "none"} /\ dst \in {"a", "b", "none"} /\ (d = s => dst = src)
  <2>1. ASSUME NEW n \in {"a", "b"} PROVE F!Real(n) \in {"a", "b", "none"}
    <3>1. \A m : fileAt[n] = <<"link", m>> => fileAt[n][2] = m OBVIOUS
    <3> QED BY <3>1 DEF F!Real, F!Links
  <2> QED BY <2>1
<1> HIDE DEF src, dst
<1>3. /\ v \in FileRequests /\ v.op = what /\ v.src = src /\ v.dst = dst /\ v.keep = exclusive /\ v.fresh = FALSE
      /\ v.pc = IF what \in {"upload", "copy"} THEN "lock" ELSE "open"
  BY <1>2, NewRequest DEF FileRequests, RequestSteps
<1> HIDE DEF v
<1>4. request'[r] = v BY <1>1 DEF FilesInv, FilesTypes
<1>5. RequestOK(r)' BY <1>1, <1>2, <1>3, <1>4 DEF RequestOK, F!Grows, F!Ops
<1>6. quotaLock' \subseteq Runs BY <1>1 DEF FilesInv, FilesTypes
<1> QED BY <1>1, <1>3, <1>5, <1>6, RequestTurns

LEMMA TakeLockKeeps == ASSUME FilesInv, NEW r \in Runs, F!TakeLock(r) PROVE FilesInv'
<1> DEFINE v == [request[r] EXCEPT !.pc = "fits"]
<1>1. /\ request' = [request EXCEPT ![r] = v] /\ UNCHANGED <<fileAt, entries, harmDone>>
      /\ quotaLock = {} /\ quotaLock' = {r} /\ request[r].pc = "lock"
  BY DEF F!TakeLock
<1>2. /\ v \in FileRequests /\ v.op = request[r].op /\ v.src = request[r].src /\ v.dst = request[r].dst
      /\ v.keep = request[r].keep /\ v.pc = "fits" /\ v.fresh = request[r].fresh
  BY RequestKinds DEF FileRequests, RequestSteps
<1> HIDE DEF v
<1>3. request'[r] = v BY <1>1 DEF FilesInv, FilesTypes
<1>4. RequestOK(r)' BY <1>1, <1>2, <1>3, RequestKinds DEF RequestOK, F!Grows
<1> QED BY <1>1, <1>2, <1>4, RequestTurns

LEMMA FitsKeeps == ASSUME FilesInv, NEW r \in Runs, F!Fits(r) PROVE FilesInv'
<1> DEFINE replaces == request[r].op = "upload" /\ ~request[r].keep /\ F!Found(r) = "file"
<1>1. request[r].pc = "fits" /\ UNCHANGED <<fileAt, entries, harmDone>> BY DEF F!Fits
<1>2. CASE F!Done(r)
  <2>1. Shrinks BY <1>1 DEF Shrinks
  <2> QED BY <1>1, <1>2, <2>1, RequestKinds, EndsRequest
<1>3. CASE /\ request' = [request EXCEPT ![r].pc = "open", ![r].fresh = TRUE] /\ quotaLock' = quotaLock
           /\ ~(F!Files(entries) + 1 > 1 + (IF replaces THEN 1 ELSE 0))
  <2> DEFINE v == [request[r] EXCEPT !.pc = "open", !.fresh = TRUE]
  <2>1. request' = [request EXCEPT ![r] = v] BY <1>3 DEF FilesInv, FilesTypes
  <2>2. /\ v \in FileRequests /\ v.op = request[r].op /\ v.src = request[r].src /\ v.dst = request[r].dst
        /\ v.keep = request[r].keep /\ v.pc = "open" /\ v.fresh = TRUE
    BY RequestKinds DEF FileRequests, RequestSteps
  <2> HIDE DEF v
  <2>3. request'[r] = v BY <2>1 DEF FilesInv, FilesTypes
  <2>4. UploadDir(r)' = fileAt[request[r].dst] BY <1>1, <2>2, <2>3 DEF UploadDir
  <2>5. \/ NoFiles(entries)
        \/ /\ request[r].op = "upload" /\ ~BothFiles(entries)
           /\ UploadDir(r)' \in {DirA, DirB} /\ entries[UploadDir(r)'] = "file"
    <3>1. CASE replaces
      <4>1. F!Files(entries) =< 1 BY <1>3, <3>1, FileCount
      <4>2. ~BothFiles(entries) BY <4>1, FileCount
      <4> QED BY <2>4, <3>1, <4>2, FilePlaces DEF F!Found
    <3>2. CASE ~replaces
      <4>1. F!Files(entries) =< 0 BY <1>3, <3>2, FileCount
      <4> QED BY <4>1, FileCount
    <3> QED BY <3>1, <3>2
  <2>6. RequestOK(r)' BY <1>1, <1>3, <2>2, <2>3, <2>5, RequestKinds DEF RequestOK, F!Grows, NoFiles, BothFiles
  <2>7. quotaLock' \subseteq Runs BY <1>3 DEF FilesInv, FilesTypes
  <2> QED BY <1>1, <1>3, <2>1, <2>2, <2>6, <2>7, RequestTurns
<1> QED BY <1>2, <1>3 DEF F!Fits

LEMMA OpenDirKeeps == ASSUME FilesInv, NEW r \in Runs, F!Open(r) PROVE FilesInv'
<1>1. request[r].pc \in {"open", "open2"} /\ UNCHANGED <<fileAt, entries, harmDone>> BY DEF F!Open
<1>2. CASE F!Done(r)
  <2>1. Shrinks BY <1>1 DEF Shrinks
  <2> QED BY <1>1, <1>2, <2>1, RequestKinds, EndsRequest
<1>3. CASE request[r].pc = "open" /\ ~F!Done(r)
  <2> DEFINE dir1 == F!OpenDir(request[r].src)
             v == [request[r] EXCEPT !.fd = dir1, !.to = dir1, !.pc = IF F!TwoEnds(r) THEN "open2" ELSE "act"]
  <2>1. /\ request' = [request EXCEPT ![r].fd = dir1, ![r].to = dir1,
                                      ![r].pc = IF F!TwoEnds(r) THEN "open2" ELSE "act"]
        /\ quotaLock' = quotaLock /\ dir1 # F!NoDir
    BY <1>3 DEF F!Open
  <2>2. dir1 \in {DirA, DirB} /\ dir1 = fileAt[request[r].src] BY <2>1, FilePlaces DEF F!OpenDir
  <2>3. request' = [request EXCEPT ![r] = v] BY <2>1 DEF FilesInv, FilesTypes
  <2> HIDE DEF dir1
  <2>4. /\ v \in FileRequests /\ v.op = request[r].op /\ v.src = request[r].src /\ v.dst = request[r].dst
        /\ v.keep = request[r].keep /\ v.pc = (IF F!TwoEnds(r) THEN "open2" ELSE "act") /\ v.fresh = request[r].fresh
        /\ v.fd = dir1 /\ v.to = dir1
    BY <2>2, RequestKinds DEF FileRequests, RequestSteps
  <2> HIDE DEF v
  <2>5. request'[r] = v BY <2>3 DEF FilesInv, FilesTypes
  <2>6. UploadDir(r)' = dir1 /\ (request[r].op = "upload" => UploadDir(r) = dir1)
    BY <1>3, <2>2, <2>4, <2>5, RequestKinds DEF UploadDir, RequestOK
  <2>9. RequestOK(r) BY RequestKinds
  <2>10. request[r].fresh =>
           \/ NoFiles(entries)'
           \/ /\ request[r].op = "upload" /\ ~BothFiles(entries)'
              /\ UploadDir(r)' \in {DirA, DirB} /\ entries'[UploadDir(r)'] = "file"
    BY <1>1, <2>6, <2>9 DEF RequestOK, NoFiles, BothFiles
  <2>7. RequestOK(r)'
    BY <1>3, <2>1, <2>2, <2>4, <2>5, <2>9, <2>10 DEF RequestOK, F!Grows, F!TwoEnds
  <2>8. quotaLock' \subseteq Runs BY <2>1 DEF FilesInv, FilesTypes
  <2> QED BY <1>1, <2>1, <2>3, <2>4, <2>7, <2>8, RequestTurns
<1>4. CASE request[r].pc = "open2" /\ ~F!Done(r)
  <2> DEFINE dir2 == F!OpenDir(request[r].dst)
             v == [request[r] EXCEPT !.to = dir2, !.pc = "act"]
  <2>1. /\ request' = [request EXCEPT ![r].to = dir2, ![r].pc = "act"] /\ quotaLock' = quotaLock /\ dir2 # F!NoDir
    BY <1>4 DEF F!Open
  <2>2. dir2 \in {DirA, DirB} BY <2>1, FilePlaces DEF F!OpenDir
  <2>3. request' = [request EXCEPT ![r] = v] BY <2>1 DEF FilesInv, FilesTypes
  <2> HIDE DEF dir2
  <2>4. /\ v \in FileRequests /\ v.op = request[r].op /\ v.src = request[r].src /\ v.dst = request[r].dst
        /\ v.keep = request[r].keep /\ v.pc = "act" /\ v.fresh = request[r].fresh
        /\ v.fd = request[r].fd /\ v.to = dir2
    BY <2>2, RequestKinds DEF FileRequests, RequestSteps
  <2> HIDE DEF v
  <2>5. request'[r] = v BY <2>3 DEF FilesInv, FilesTypes
  <2>6. RequestOK(r)'
    BY <1>1, <1>4, <2>1, <2>2, <2>4, <2>5, RequestKinds
    DEF RequestOK, F!Grows, F!TwoEnds, NoFiles, BothFiles, UploadDir
  <2>7. quotaLock' \subseteq Runs BY <2>1 DEF FilesInv, FilesTypes
  <2> QED BY <1>1, <2>1, <2>3, <2>4, <2>6, <2>7, RequestTurns
<1> QED BY <1>1, <1>2, <1>3, <1>4

\* What a request does wrong, when what it opened is in the workspace: only an
\* upload or a copy can take the user over the quota, and these are granted.
LEMMA JudgedFair ==
    ASSUME FilesInv, NEW r \in Runs, NEW new, NEW d, request[r].pc \in {"act", "copied", "placed"},
           request[r].keep \/ request[r].op = "copy" => entries[d] = "none",
           F!Grows(r) /\ request[r].fresh => ~BothFiles(new) \/ BothFiles(entries)
    PROVE  F!Judge(r, new, d) = {}
<1>1. request[r].fd \in {DirA, DirB} /\ request[r].to \in {DirA, DirB} /\ RequestOK(r)
  BY RequestKinds DEF RequestOK
<1>2. F!Out \notin {request[r].fd, request[r].to} BY <1>1, FilePlaces
<1>3. F!Grows(r) /\ request[r].fresh => ~(F!Files(new) > 1)
  <2>1. F!Grows(r) /\ request[r].fresh => ~BothFiles(entries) BY <1>1 DEF RequestOK, NoFiles, BothFiles
  <2> QED BY <2>1, FileCount
<1> QED BY <1>2, <1>3 DEF F!Judge

\* The steps in which a request ends: the entry it writes becomes a file only
\* under the quota lock.
LEMMA ActsKeep ==
    ASSUME FilesInv, NEW r \in Runs,
           \/ F!ActRead(r) \/ F!ActList(r) \/ F!ActUpload(r) \/ F!ActMkdir(r) \/ F!ActDelete(r)
           \/ F!ActCopy(r) \/ F!MoveRemoves(r) \/ F!Fails(r)
    PROVE  FilesInv'
<1>0. RequestOK(r) /\ request[r] \in FileRequests /\ entries \in [{DirA, DirB, F!Out} -> FileKinds]
      /\ harmDone \subseteq {"removed unseen"}
  BY RequestKinds
<1>1. F!Done(r) /\ UNCHANGED fileAt
  BY DEF F!ActRead, F!ActList, F!ActUpload, F!ActMkdir, F!ActDelete, F!ActCopy, F!MoveRemoves, F!Fails
<1>2. CASE F!ActRead(r) \/ F!ActList(r) \/ F!Fails(r)
  <2>1. Shrinks /\ entries' = entries BY <1>2 DEF F!ActRead, F!ActList, F!Fails, Shrinks
  <2>2. harmDone' = harmDone
    BY <1>0, <1>2, FilePlaces DEF F!ActRead, F!ActList, F!Fails, RequestOK
  <2> QED BY <1>0, <1>1, <2>1, <2>2, EndsRequest
<1>3. CASE F!ActUpload(r) \/ F!ActCopy(r)
  <2>1. PICK d \in {DirA, DirB}, k \in FileKinds :
          /\ request[r].pc = "act" /\ F!Become(r, [entries EXCEPT ![d] = k], d)
          /\ (request[r].keep \/ request[r].op = "copy" => entries[d] = "none")
          /\ \/ request[r].op = "upload" /\ d = request[r].fd /\ k = "file"
             \/ request[r].op = "copy"
    BY <1>0, <1>3 DEF F!ActUpload, F!ActCopy, F!UploadOver, RequestOK, FileKinds
  <2> DEFINE new == [entries EXCEPT ![d] = k]
  <2>2. quotaLock = {r} BY <1>0, <2>1 DEF RequestOK, F!Grows
  <2>3. new \in [{DirA, DirB, F!Out} -> FileKinds] BY <1>0
  <2>4. request[r].fresh => ~BothFiles(new)
    <3>1. CASE request[r].fresh /\ NoFiles(entries) BY <1>0, <3>1, FilePlaces DEF NoFiles, BothFiles
    <3>2. CASE request[r].fresh /\ request[r].op = "upload" /\ ~BothFiles(entries) /\ entries[request[r].fd] = "file"
      <4>1. d = request[r].fd /\ k = "file" BY <2>1, <3>2
      <4>2. new = entries BY <1>0, <3>2, <4>1
      <4> QED BY <3>2, <4>2
    <3> QED BY <1>0, <2>1, <3>1, <3>2 DEF RequestOK, UploadDir
  <2>5. entries' = new /\ harmDone' = harmDone \cup F!Judge(r, new, d) BY <2>1 DEF F!Become
  <2> HIDE DEF new
  <2>6. F!Judge(r, new, d) = {} BY <2>1, <2>4, JudgedFair
  <2> QED BY <1>0, <1>1, <2>2, <2>3, <2>5, <2>6, EndsRequest
<1>4. CASE F!ActMkdir(r) \/ F!ActDelete(r)
  <2>1. PICK d \in {DirA, DirB}, k \in FileKinds :
          /\ request[r].pc = "act" /\ request[r].op \in {"mkdir", "delete"}
          /\ F!Become(r, [entries EXCEPT ![d] = k], d) /\ (k = "file" => entries[d] = "file")
    BY <1>0, <1>4 DEF F!ActMkdir, F!ActDelete, RequestOK, FileKinds
  <2> DEFINE new == [entries EXCEPT ![d] = k]
  <2>2. new \in [{DirA, DirB, F!Out} -> FileKinds] BY <1>0
  <2>3. entries' = new /\ harmDone' = harmDone \cup F!Judge(r, new, d) BY <2>1 DEF F!Become
  <2>4. Shrinks BY <1>0, <2>1, <2>3 DEF Shrinks
  <2> HIDE DEF new
  <2>5. ~(request[r].keep \/ request[r].op = "copy") /\ ~F!Grows(r) BY <1>0, <2>1 DEF RequestOK, F!Grows
  <2>6. F!Judge(r, new, d) = {} BY <2>1, <2>5, JudgedFair
  <2> QED BY <1>0, <1>1, <2>2, <2>3, <2>4, <2>6, EndsRequest
<1>5. CASE F!MoveRemoves(r)
  <2>1. /\ entries' = [entries EXCEPT ![request[r].fd] = "none"] /\ harmDone' \subseteq harmDone \cup {"removed unseen"}
    BY <1>5 DEF F!MoveRemoves
  <2>2. entries' \in [{DirA, DirB, F!Out} -> FileKinds] /\ Shrinks BY <1>0, <2>1 DEF FileKinds, Shrinks
  <2> QED BY <1>0, <1>1, <2>1, <2>2, EndsRequest
<1> QED BY <1>2, <1>3, <1>4, <1>5

LEMMA Lapsed ==
    ASSUME NEW q \in FileRequests, NEW p,
           p = [q EXCEPT !.fresh = FALSE] \/ p = [q EXCEPT !.fresh = FALSE, !.same = FALSE]
    PROVE  /\ p \in FileRequests /\ p.op = q.op /\ p.src = q.src /\ p.dst = q.dst /\ p.keep = q.keep
           /\ p.pc = q.pc /\ p.fd = q.fd /\ p.to = q.to /\ ~p.fresh
<1>1. CASE p = [q EXCEPT !.fresh = FALSE] BY <1>1 DEF FileRequests
<1>2. CASE p = [q EXCEPT !.fresh = FALSE, !.same = FALSE] BY <1>2 DEF FileRequests
<1> QED BY <1>1, <1>2

LEMMA CheckLapses ==
    ASSUME FilesInv, NEW q \in Runs,
           \/ request'[q] = [request[q] EXCEPT !.fresh = FALSE]
           \/ request'[q] = [request[q] EXCEPT !.fresh = FALSE, !.same = FALSE]
    PROVE  /\ request'[q] \in FileRequests /\ request'[q].op = request[q].op
           /\ request'[q].src = request[q].src /\ request'[q].dst = request[q].dst
           /\ request'[q].keep = request[q].keep /\ request'[q].pc = request[q].pc
           /\ request'[q].fd = request[q].fd /\ request'[q].to = request[q].to
           /\ ~request'[q].fresh
<1>1. PICK x \in FileRequests : x = request[q] BY RequestKinds
<1>2. PICK y : y = request'[q] OBVIOUS
<1>3. y = [x EXCEPT !.fresh = FALSE] \/ y = [x EXCEPT !.fresh = FALSE, !.same = FALSE] BY <1>1, <1>2
<1>4. /\ y \in FileRequests /\ y.op = x.op /\ y.src = x.src /\ y.dst = x.dst /\ y.keep = x.keep
      /\ y.pc = x.pc /\ y.fd = x.fd /\ y.to = x.to /\ ~y.fresh
  BY <1>3, Lapsed
<1> QED BY <1>1, <1>2, <1>4

LEMMA MoveKeeps == ASSUME FilesInv, NEW r \in Runs, F!ActMove(r) PROVE FilesInv'
<1>0. /\ RequestOK(r) /\ request[r] \in FileRequests /\ harmDone \subseteq {"removed unseen"}
      /\ entries \in [{DirA, DirB, F!Out} -> FileKinds] /\ request \in [Runs -> FileRequests]
  BY RequestKinds DEF FilesTypes
<1> DEFINE new == [entries EXCEPT ![request[r].to] = IF @ = "dir" THEN @ ELSE entries[request[r].fd],
                                  ![request[r].fd] = "none"]
           v == [F!NoReq EXCEPT !.pc = "done"]
<1>1. /\ request[r].pc = "act" /\ request[r].op = "move" /\ (request[r].keep => entries[request[r].to] = "none")
      /\ entries' = new /\ harmDone' = harmDone \cup F!Judge(r, new, request[r].to)
      /\ request' = [F!Unchecked EXCEPT ![r] = v] /\ UNCHANGED <<fileAt, quotaLock>>
  BY DEF F!ActMove, F!Become
<1>2. new \in [{DirA, DirB, F!Out} -> FileKinds]
  <2>1. request[r].fd \in {DirA, DirB} /\ request[r].to \in {DirA, DirB} BY <1>0, <1>1 DEF RequestOK
  <2> QED BY <1>0, <2>1 DEF FileKinds
<1> HIDE DEF new
<1>3. F!Judge(r, new, request[r].to) = {} BY <1>1, JudgedFair DEF F!Grows
<1>4. v \in FileRequests /\ v.op = "none" /\ v.pc = "done" /\ v.keep = FALSE /\ v.fresh = FALSE
  BY NewRequest DEF FileRequests, RequestSteps
<1> HIDE DEF v
<1>5. request'[r] = v /\ \A q \in Runs \ {r} : request'[q] = [request[q] EXCEPT !.fresh = FALSE, !.same = FALSE]
  BY <1>1 DEF F!Unchecked
<1>6. \A q \in Runs \ {r} : /\ request'[q] \in FileRequests /\ request'[q].op = request[q].op
                            /\ request'[q].src = request[q].src /\ request'[q].dst = request[q].dst
                            /\ request'[q].keep = request[q].keep /\ request'[q].pc = request[q].pc
                            /\ request'[q].fd = request[q].fd /\ request'[q].to = request[q].to
                            /\ ~request'[q].fresh
  BY <1>5, CheckLapses
<1>7. request' \in [Runs -> FileRequests]
  <2>1. DOMAIN request' = Runs /\ request' = [q \in Runs |-> request'[q]] BY <1>1 DEF F!Unchecked
  <2> QED BY <1>4, <1>5, <1>6, <2>1
<1>8. RequestOK(r)' BY <1>4, <1>5 DEF RequestOK, F!Grows
<1>9. harmDone' \subseteq {"removed unseen"} BY <1>0, <1>1, <1>3
<1>10. PICK S \in SUBSET Runs : S = {r} OBVIOUS
<1>11. \A q \in S : RequestOK(q)' BY <1>8, <1>10
<1> QED BY <1>1, <1>2, <1>6, <1>7, <1>9, <1>10, <1>11, ChecksLapse

LEMMA MoveCopiesKeeps == ASSUME FilesInv, NEW r \in Runs, F!MoveCopies(r) PROVE FilesInv'
<1> DEFINE v == [request[r] EXCEPT !.pc = "copied", !.same = TRUE]
<1>1. /\ request' = [request EXCEPT ![r].pc = "copied", ![r].same = TRUE]
      /\ request[r].pc = "act" /\ request[r].op = "move" /\ ~request[r].keep
      /\ UNCHANGED <<fileAt, entries, quotaLock, harmDone>>
  BY DEF F!MoveCopies
<1>2. request' = [request EXCEPT ![r] = v] BY <1>1 DEF FilesInv, FilesTypes
<1>3. /\ v \in FileRequests /\ v.op = request[r].op /\ v.src = request[r].src /\ v.dst = request[r].dst
      /\ v.keep = request[r].keep /\ v.pc = "copied" /\ v.fresh = request[r].fresh
      /\ v.fd = request[r].fd /\ v.to = request[r].to
  BY RequestKinds DEF FileRequests, RequestSteps
<1> HIDE DEF v
<1>4. request'[r] = v BY <1>2 DEF FilesInv, FilesTypes
<1>5. RequestOK(r)' BY <1>1, <1>3, <1>4, RequestKinds DEF RequestOK, F!Grows
<1>6. quotaLock' \subseteq Runs BY <1>1 DEF FilesInv, FilesTypes
<1> QED BY <1>1, <1>2, <1>3, <1>5, <1>6, RequestTurns

LEMMA MovePlacesKeeps == ASSUME FilesInv, NEW r \in Runs, F!MovePlaces(r) PROVE FilesInv'
<1>0. /\ RequestOK(r) /\ request[r] \in FileRequests /\ harmDone \subseteq {"removed unseen"}
      /\ entries \in [{DirA, DirB, F!Out} -> FileKinds] /\ request \in [Runs -> FileRequests]
  BY RequestKinds DEF FilesTypes
<1> DEFINE new == [entries EXCEPT ![request[r].to] = entries[request[r].fd]]
           v == [request[r] EXCEPT !.pc = "placed"]
<1>1. /\ request[r].pc = "copied" /\ request[r].op = "move" /\ ~request[r].keep
      /\ entries' = new /\ harmDone' = harmDone \cup F!Judge(r, new, request[r].to)
      /\ request' = [F!Unchecked EXCEPT ![r] = v] /\ UNCHANGED <<fileAt, quotaLock>>
  BY <1>0 DEF F!MovePlaces, F!Become, RequestOK
<1>2. new \in [{DirA, DirB, F!Out} -> FileKinds]
  <2>1. request[r].fd \in {DirA, DirB} BY <1>0, <1>1 DEF RequestOK
  <2> QED BY <1>0, <2>1
<1> HIDE DEF new
<1>3. F!Judge(r, new, request[r].to) = {} BY <1>1, JudgedFair DEF F!Grows
<1>4. /\ v \in FileRequests /\ v.op = request[r].op /\ v.src = request[r].src /\ v.dst = request[r].dst
      /\ v.keep = request[r].keep /\ v.pc = "placed" /\ v.fresh = request[r].fresh
      /\ v.fd = request[r].fd /\ v.to = request[r].to
  BY <1>0 DEF FileRequests, RequestSteps
<1> HIDE DEF v
<1>5. request'[r] = v /\ \A q \in Runs \ {r} : request'[q] = [request[q] EXCEPT !.fresh = FALSE, !.same = FALSE]
  BY <1>1 DEF F!Unchecked
<1>6. \A q \in Runs \ {r} : /\ request'[q] \in FileRequests /\ request'[q].op = request[q].op
                            /\ request'[q].src = request[q].src /\ request'[q].dst = request[q].dst
                            /\ request'[q].keep = request[q].keep /\ request'[q].pc = request[q].pc
                            /\ request'[q].fd = request[q].fd /\ request'[q].to = request[q].to
                            /\ ~request'[q].fresh
  BY <1>5, CheckLapses
<1>7. request' \in [Runs -> FileRequests]
  <2>1. DOMAIN request' = Runs /\ request' = [q \in Runs |-> request'[q]] BY <1>1 DEF F!Unchecked
  <2> QED BY <1>4, <1>5, <1>6, <2>1
<1>8. RequestOK(r)' BY <1>0, <1>1, <1>4, <1>5 DEF RequestOK, F!Grows
<1>9. harmDone' \subseteq {"removed unseen"} BY <1>0, <1>1, <1>3
<1>10. PICK S \in SUBSET Runs : S = {r} OBVIOUS
<1>11. \A q \in S : RequestOK(q)' BY <1>8, <1>10
<1> QED BY <1>1, <1>2, <1>6, <1>7, <1>9, <1>10, <1>11, ChecksLapse

\* The agent swaps a directory or an entry.
LEMMA AgentActs ==
    ASSUME FilesInv,
           \/ \E n \in {"a", "b"}, what \in F!Dirs \cup F!Links \cup {F!NoDir, F!Away} : F!Swap(n, what)
           \/ \E d \in F!Dirs, kind \in FileKinds : F!Touch(d, kind)
    PROVE  FilesInv'
<1>0. /\ request \in [Runs -> FileRequests] /\ harmDone \subseteq {"removed unseen"}
      /\ entries \in [{DirA, DirB, F!Out} -> FileKinds]
  BY DEF FilesInv, FilesTypes, F!RequestsAreConfined
<1>1. /\ UNCHANGED <<quotaLock, harmDone>> /\ entries' \in [{DirA, DirB, F!Out} -> FileKinds]
      /\ \/ request' = [q \in Runs |-> [request[q] EXCEPT !.fresh = FALSE]]
         \/ request' = [q \in Runs |-> [request[q] EXCEPT !.fresh = FALSE, !.same = FALSE]]
  BY <1>0 DEF F!Swap, F!Touch, F!Unchecked
<1>2. \A q \in Runs : /\ request'[q] \in FileRequests /\ request'[q].op = request[q].op
                      /\ request'[q].src = request[q].src /\ request'[q].dst = request[q].dst
                      /\ request'[q].keep = request[q].keep /\ request'[q].pc = request[q].pc
                      /\ request'[q].fd = request[q].fd /\ request'[q].to = request[q].to
                      /\ ~request'[q].fresh
  <2>1. ASSUME NEW q \in Runs
        PROVE  \/ request'[q] = [request[q] EXCEPT !.fresh = FALSE]
               \/ request'[q] = [request[q] EXCEPT !.fresh = FALSE, !.same = FALSE]
    BY <1>1
  <2> QED BY <2>1, CheckLapses
<1>3. request' \in [Runs -> FileRequests] BY <1>1, <1>2
<1>4. PICK S \in SUBSET Runs : S = {} OBVIOUS
<1> QED BY <1>0, <1>1, <1>2, <1>3, <1>4, ChecksLapse

LEMMA FilesKeep == ASSUME FilesInv, F!FilesNext PROVE FilesInv'
<1>1. CASE \E r \in Runs :
             \/ \E what \in F!Ops, s, d \in {"a", "b"}, exclusive \in BOOLEAN : F!Check(r, what, s, d, exclusive)
             \/ F!TakeLock(r) \/ F!Fits(r) \/ F!Open(r)
  BY <1>1, CheckKeeps, TakeLockKeeps, FitsKeeps, OpenDirKeeps
<1>2. CASE \E r \in Runs :
             \/ F!ActRead(r) \/ F!ActList(r) \/ F!ActUpload(r) \/ F!ActMkdir(r) \/ F!ActDelete(r)
             \/ F!ActMove(r) \/ F!MoveCopies(r) \/ F!MovePlaces(r) \/ F!MoveRemoves(r) \/ F!ActCopy(r) \/ F!Fails(r)
  BY <1>2, ActsKeep, MoveKeeps, MoveCopiesKeeps, MovePlacesKeeps
<1>3. CASE \/ \E n \in {"a", "b"}, what \in F!Dirs \cup F!Links \cup {F!NoDir, F!Away} : F!Swap(n, what)
           \/ \E d \in F!Dirs, kind \in FileKinds : F!Touch(d, kind)
  BY <1>3, AgentActs
<1> QED BY <1>1, <1>2, <1>3 DEF F!FilesNext, FileKinds

LEMMA FilesStutter ==
    ASSUME FilesInv, UNCHANGED <<fileAt, entries, request, quotaLock, harmDone>> PROVE FilesInv'
BY DEF FilesInv, FilesTypes, RequestOK, UploadDir, NoFiles, BothFiles, F!Grows, F!RequestsAreConfined

-----------------------------------------------------------------------------
(* The conditional save of a file (WorkspaceFiles).                        *)

savePath == x7
hidden == x8
conflicts == x9
versions == x10
filesMade == x11
newest == x12
openFiles == x13
saveLock == x14
saveStep == x15
startedFrom == x16
overwritten == x17
afterLook == x18

USE DEF savePath, hidden, conflicts, versions, filesMade, newest, openFiles, saveLock, saveStep,
        startedFrom, overwritten, afterLook

Locked == {"compare", "claim", "recheck", "install", "installed", "beaten", "drop", "give"}
Ended == {"saved", "conflict"}
SaveSteps == Locked \cup Ended \cup {"new", "sent", "refused", "error"}

SaveTypes ==
    /\ filesMade \in 0..3 /\ newest \in 0..4
    /\ savePath \in 0..filesMade /\ hidden \in [Parties -> 0..filesMade]
    /\ conflicts \subseteq 0..filesMade /\ openFiles \subseteq 1..filesMade
    /\ versions \in [1..3 -> 0..4] /\ saveLock \subseteq Parties
    /\ saveStep \in [Parties -> SaveSteps] /\ startedFrom \in [Parties -> 0..4]

\* A save has claimed nothing before its claim, and a file about to be dropped
\* holds what the client started from or what was written after the last look.
ClaimInv ==
    /\ \A w \in saveLock : saveStep[w] \in Locked
    /\ \A w \in Parties :
          /\ saveStep[w] \in {"new", "sent", "compare", "claim"} => hidden[w] = 0
          /\ saveStep[w] \in {"drop", "give"} /\ hidden[w] # 0 =>
                versions[hidden[w]] \in {startedFrom[w]} \cup afterLook

SaveInv == SaveTypes /\ ClaimInv /\ F!NothingIsLost

Named == ({savePath} \cup conflicts \cup {hidden[w] : w \in Parties}) \ {0}

LEMMA SaveInit == ASSUME F!SaveInit PROVE SaveInv
<1>1. /\ savePath = 1 /\ hidden = [w \in Parties |-> 0] /\ conflicts = {}
      /\ versions = [i \in 1..3 |-> IF i = 1 THEN 1 ELSE 0] /\ filesMade = 1 /\ newest = 1
      /\ openFiles = {} /\ saveLock = {} /\ saveStep = [w \in Parties |-> "new"]
      /\ startedFrom = [w \in Parties |-> 0] /\ overwritten = {} /\ afterLook = {}
  BY DEF F!SaveInit
<1>2. SaveTypes BY <1>1 DEF SaveTypes, SaveSteps, Ended, Locked
<1>3. ClaimInv BY <1>1 DEF ClaimInv
<1>4. 1 \in F!Kept
  <2>1. 1 \in ({savePath} \cup conflicts \cup {hidden[w] : w \in Parties}) \ {0} /\ versions[1] = 1 BY <1>1
  <2> QED BY <2>1 DEF F!Kept
<1>5. F!NothingIsLost
  <2>1. \A v \in 1..newest : v = 1 BY <1>1
  <2> QED BY <1>4, <2>1 DEF F!NothingIsLost
<1> QED BY <1>2, <1>3, <1>5 DEF SaveInv

\* A version stays where it was, or was overwritten by its own writer, or
\* replaced by the save of a client that had read it.
LEMMA StillThere ==
    ASSUME SaveInv, overwritten \subseteq overwritten', afterLook \subseteq afterLook',
           \A u \in Parties : saveStep[u] \in Ended => saveStep'[u] \in Ended /\ startedFrom'[u] = startedFrom[u],
           \A i \in Named : \/ i \in Named' /\ versions'[i] = versions[i]
                            \/ versions[i] \in overwritten' \cup afterLook'
                            \/ \E u \in Parties : saveStep'[u] \in Ended /\ startedFrom'[u] = versions[i],
           \/ newest' = newest
           \/ /\ newest' = newest + 1
              /\ newest + 1 \in overwritten' \cup afterLook' \/ \E i \in Named' : versions'[i] = newest + 1
    PROVE  F!NothingIsLost'
<1>1. F!Kept = {versions[i] : i \in Named} /\ F!Kept' = {versions'[i] : i \in Named'} BY DEF F!Kept, Named
<1>2. /\ F!Superseded = {startedFrom[u] : u \in {w \in Parties : saveStep[w] \in Ended}}
      /\ F!Superseded' = {startedFrom'[u] : u \in {w \in Parties : saveStep'[w] \in Ended}}
  BY DEF F!Superseded, Ended
<1>3. F!Superseded \subseteq F!Superseded' BY <1>2
<1>4. \A v \in F!Kept : v \in F!Kept' \cup overwritten' \cup F!Superseded' \cup afterLook'
  <2> SUFFICES ASSUME NEW i \in Named
               PROVE  versions[i] \in F!Kept' \cup overwritten' \cup F!Superseded' \cup afterLook'
    BY <1>1
  <2>1. CASE i \in Named' /\ versions'[i] = versions[i] BY <1>1, <2>1
  <2>2. CASE versions[i] \in overwritten' \cup afterLook' BY <2>2
  <2>3. CASE \E u \in Parties : saveStep'[u] \in Ended /\ startedFrom'[u] = versions[i] BY <1>2, <2>3
  <2> QED BY <2>1, <2>2, <2>3
<1>5. \A v \in 1..newest' : v \in 1..newest \/ (newest' = newest + 1 /\ v = newest + 1)
  BY DEF SaveInv, SaveTypes
<1>6. newest' = newest + 1 => newest + 1 \in F!Kept' \cup overwritten' \cup F!Superseded' \cup afterLook'
  BY <1>1 DEF SaveInv, SaveTypes
<1>7. \A v \in 1..newest : v \in F!Kept \cup overwritten \cup F!Superseded \cup afterLook
  BY DEF SaveInv, F!NothingIsLost
<1>8. \A v \in 1..newest' : v \in F!Kept' \cup overwritten' \cup F!Superseded' \cup afterLook'
  BY <1>3, <1>4, <1>5, <1>6, <1>7
<1> QED BY <1>8 DEF F!NothingIsLost

LEMMA SaveKinds ==
    ASSUME SaveInv
    PROVE  /\ SaveTypes /\ ClaimInv
           /\ \A w \in Parties : saveStep[w] \in SaveSteps /\ startedFrom[w] \in 0..4 /\ hidden[w] \in 0..filesMade
           /\ \A i \in Named : i \in 1..filesMade /\ versions[i] \in 0..4
           /\ \A w \in Parties : hidden[w] # 0 => hidden[w] \in Named
           /\ (savePath # 0 => savePath \in Named) /\ \A i \in conflicts : i # 0 => i \in Named
BY DEF SaveInv, SaveTypes, Named

\* One save goes on, and no file changes.
LEMMA SaveTurns ==
    ASSUME SaveInv, NEW w \in Parties, NEW s \in SaveSteps, saveStep[w] \notin Ended,
           saveStep' = [saveStep EXCEPT ![w] = s],
           UNCHANGED <<versions, filesMade, newest, openFiles, overwritten, afterLook>>,
           startedFrom' = startedFrom \/ (startedFrom' \in [Parties -> 0..4] /\ s = "sent"
                                    /\ \A u \in Parties : u # w => startedFrom'[u] = startedFrom[u]),
           saveLock' = {} \/ (s \in Locked /\ saveLock' \in {saveLock, {w}}),
           NEW p \in 0..filesMade, NEW c \in 0..filesMade, NEW k \in SUBSET (0..filesMade),
           savePath' = p, hidden' = [hidden EXCEPT ![w] = c], conflicts' = k, conflicts \subseteq k,
           savePath # 0 => savePath \in {p, c} \cup k,
           hidden[w] # 0 => \/ hidden[w] \in {p, c} \cup k
                            \/ versions[hidden[w]] \in afterLook
                            \/ (s \in Ended /\ startedFrom[w] = versions[hidden[w]]),
           s \in {"new", "sent", "compare", "claim"} => c = 0,
           s \in {"drop", "give"} /\ c # 0 => versions[c] \in {startedFrom[w]} \cup afterLook
    PROVE  SaveInv'
<1>0. \A u \in Parties : /\ saveStep'[u] = IF u = w THEN s ELSE saveStep[u]
                         /\ hidden'[u] = IF u = w THEN c ELSE hidden[u]
                         /\ u # w \/ s # "sent" => startedFrom'[u] = startedFrom[u]
  BY DEF SaveInv, SaveTypes
<1>1. SaveTypes'
  <2>1. startedFrom' \in [Parties -> 0..4] BY DEF SaveInv, SaveTypes
  <2>2. saveStep' \in [Parties -> SaveSteps] /\ hidden' \in [Parties -> 0..filesMade] BY DEF SaveInv, SaveTypes
  <2> QED BY <2>1, <2>2 DEF SaveInv, SaveTypes
<1>2. ClaimInv'
  <2>1. \A u \in saveLock' : saveStep'[u] \in Locked BY <1>0, <1>1 DEF SaveInv, ClaimInv, SaveTypes
  <2>2. ASSUME NEW u \in Parties
        PROVE  /\ saveStep'[u] \in {"new", "sent", "compare", "claim"} => hidden'[u] = 0
               /\ saveStep'[u] \in {"drop", "give"} /\ hidden'[u] # 0 =>
                     versions'[hidden'[u]] \in {startedFrom'[u]} \cup afterLook'
    BY <1>0 DEF SaveInv, ClaimInv
  <2> QED BY <2>1, <2>2 DEF ClaimInv
<1>3. F!NothingIsLost'
  <2>1. \A u \in Parties : saveStep[u] \in Ended => saveStep'[u] \in Ended /\ startedFrom'[u] = startedFrom[u]
    BY <1>0
  <2>2. ASSUME NEW i \in Named
        PROVE  \/ i \in Named' /\ versions'[i] = versions[i]
               \/ versions[i] \in overwritten' \cup afterLook'
               \/ \E u \in Parties : saveStep'[u] \in Ended /\ startedFrom'[u] = versions[i]
    <3>0. \A j : j # 0 /\ j \in {p, c} \cup k => j \in Named' BY <1>0 DEF Named
    <3>1. CASE i = savePath /\ i # 0 BY <3>0, <3>1
    <3>2. CASE i \in conflicts /\ i # 0 BY <3>0, <3>2
    <3>3. CASE i = hidden[w] /\ i # 0
      <4>1. CASE i \in {p, c} \cup k BY <3>0, <3>3, <4>1
      <4>2. CASE versions[i] \in afterLook BY <4>2
      <4>3. CASE s \in Ended /\ startedFrom[w] = versions[i]
        <5>1. s # "sent" BY <4>3 DEF Ended
        <5> QED BY <1>0, <4>3, <5>1
      <4> QED BY <3>3, <4>1, <4>2, <4>3
    <3>4. CASE i # 0 /\ \E u \in Parties : u # w /\ i = hidden[u]
      <4>1. i \in Named' BY <1>0, <3>4 DEF Named
      <4> QED BY <4>1
    <3> QED BY <3>1, <3>2, <3>3, <3>4 DEF Named
  <2> QED BY <2>1, <2>2, StillThere
<1> QED BY <1>1, <1>2, <1>3 DEF SaveInv

\* The client reads, sends, takes the lock and compares.
LEMMA BeforeClaim ==
    ASSUME SaveInv, NEW w \in Parties, F!Request(w) \/ F!Lock(w) \/ F!Compare(w) PROVE SaveInv'
<1>0. hidden[w] \in 0..filesMade /\ hidden = [hidden EXCEPT ![w] = hidden[w]] /\ savePath \in 0..filesMade
      /\ conflicts \in SUBSET (0..filesMade)
  BY SaveKinds DEF SaveTypes
<1>1. CASE F!Request(w)
  <2>1. /\ saveStep[w] = "new" /\ saveStep' = [saveStep EXCEPT ![w] = "sent"] /\ savePath # 0
        /\ startedFrom' = [startedFrom EXCEPT ![w] = versions[savePath]]
        /\ UNCHANGED <<savePath, hidden, conflicts, versions, filesMade, newest, openFiles, saveLock,
                       overwritten, afterLook>>
    BY <1>1 DEF F!Request, F!names, F!outer
  <2>2. hidden[w] = 0 BY <2>1 DEF SaveInv, ClaimInv
  <2>3. versions[savePath] \in 0..4 BY <1>0, <2>1 DEF SaveInv, SaveTypes
  <2>4. startedFrom' \in [Parties -> 0..4] /\ \A u \in Parties : u # w => startedFrom'[u] = startedFrom[u]
    BY <2>1, <2>3 DEF SaveInv, SaveTypes
  <2>5. \A u \in Parties : /\ saveStep'[u] = IF u = w THEN "sent" ELSE saveStep[u]
                           /\ u # w => startedFrom'[u] = startedFrom[u]
    BY <2>1, <2>4 DEF SaveInv, SaveTypes
  <2>6. SaveTypes'
    <3>1. saveStep' \in [Parties -> SaveSteps] BY <2>1 DEF SaveInv, SaveTypes, SaveSteps
    <3> QED BY <2>1, <2>4, <3>1 DEF SaveInv, SaveTypes
  <2>7. ClaimInv' BY <2>1, <2>2, <2>5 DEF SaveInv, SaveTypes, ClaimInv, Locked
  <2>8. F!NothingIsLost'
    <3>1. \A u \in Parties : saveStep[u] \in Ended => saveStep'[u] \in Ended /\ startedFrom'[u] = startedFrom[u]
      BY <2>1, <2>5 DEF Ended
    <3>2. \A i \in Named : i \in Named' /\ versions'[i] = versions[i] BY <2>1 DEF Named
    <3> QED BY <2>1, <3>1, <3>2, StillThere
  <2> QED BY <2>6, <2>7, <2>8 DEF SaveInv
<1>2. CASE F!Lock(w)
  <2>1. PICK s \in SaveSteps :
          /\ saveStep[w] = "sent" /\ saveStep' = [saveStep EXCEPT ![w] = s]
          /\ (s = "refused" /\ saveLock' = {}) \/ (s = "compare" /\ saveLock' = {w})
          /\ UNCHANGED <<savePath, hidden, conflicts, versions, filesMade, newest, openFiles, startedFrom,
                         overwritten, afterLook>>
    BY <1>2 DEF F!Lock, F!names, F!outer, SaveSteps, Locked
  <2>2. hidden[w] = 0 BY <2>1 DEF SaveInv, ClaimInv
  <2> QED BY <1>0, <2>1, <2>2, SaveTurns DEF Ended, Locked
<1>3. CASE F!Compare(w)
  <2>1. PICK s \in SaveSteps :
          /\ saveStep[w] = "compare" /\ saveStep' = [saveStep EXCEPT ![w] = s]
          /\ (s = "conflict" /\ saveLock' = {}) \/ (s = "claim" /\ saveLock' = saveLock)
          /\ UNCHANGED <<savePath, hidden, conflicts, versions, filesMade, newest, openFiles, startedFrom,
                         overwritten, afterLook>>
    BY <1>3 DEF F!Compare, F!names, F!outer, SaveSteps, Locked, Ended
  <2>2. hidden[w] = 0 BY <2>1 DEF SaveInv, ClaimInv
  <2> QED BY <1>0, <2>1, <2>2, SaveTurns DEF Ended, Locked
<1> QED BY <1>1, <1>2, <1>3

\* The file is claimed, looked at and dropped, or given a name again.
LEMMA SaveClaims == ASSUME SaveInv, NEW w \in Parties, F!Claim(w) PROVE SaveInv'
<1>0. SaveTypes /\ hidden[w] \in 0..filesMade /\ hidden = [hidden EXCEPT ![w] = hidden[w]]
      /\ savePath \in 0..filesMade /\ 0 \in 0..filesMade /\ conflicts \in SUBSET (0..filesMade)
  BY SaveKinds DEF SaveTypes
<1>1. /\ saveStep[w] = "claim" /\ hidden[w] = 0
      /\ UNCHANGED <<versions, filesMade, newest, openFiles, startedFrom, overwritten, afterLook>>
  BY DEF F!Claim, F!outer, SaveInv, ClaimInv
<1>2. CASE savePath = 0
  <2>1. PICK s \in SaveSteps : s = "conflict" /\ saveStep' = [saveStep EXCEPT ![w] = s] /\ saveLock' = {}
                               /\ UNCHANGED <<savePath, hidden, conflicts>>
    BY <1>2 DEF F!Claim, F!names, SaveSteps, Ended
  <2> QED BY <1>0, <1>1, <2>1, SaveTurns DEF Ended
<1>3. CASE savePath # 0
  <2>1. PICK s \in SaveSteps, p \in 0..filesMade :
          s = "recheck" /\ saveStep' = [saveStep EXCEPT ![w] = s] /\ p = 0 /\ savePath' = p
          /\ hidden' = [hidden EXCEPT ![w] = savePath] /\ UNCHANGED <<saveLock, conflicts>>
    BY <1>0, <1>3 DEF F!Claim, SaveSteps, Locked
  <2> QED BY <1>0, <1>1, <2>1, SaveTurns DEF Ended, Locked
<1> QED BY <1>2, <1>3

LEMMA RecheckKeeps == ASSUME SaveInv, NEW w \in Parties, F!Recheck(w) PROVE SaveInv'
<1>0. SaveTypes /\ hidden[w] \in 0..filesMade /\ hidden = [hidden EXCEPT ![w] = hidden[w]]
      /\ savePath \in 0..filesMade /\ 0 \in 0..filesMade /\ conflicts \in SUBSET (0..filesMade)
  BY SaveKinds DEF SaveTypes
<1>1. /\ saveStep[w] = "recheck"
      /\ UNCHANGED <<versions, filesMade, newest, openFiles, startedFrom, overwritten, afterLook>>
  BY DEF F!Recheck, F!outer
<1>2. CASE F!Digest(hidden[w]) = startedFrom[w]
  <2>1. PICK s \in SaveSteps : s = "install" /\ saveStep' = [saveStep EXCEPT ![w] = s]
                               /\ UNCHANGED <<savePath, hidden, conflicts, saveLock>>
    BY <1>2 DEF F!Recheck, F!names, SaveSteps, Locked
  <2>2. PICK c \in 0..filesMade : c = hidden[w] /\ hidden' = [hidden EXCEPT ![w] = c] BY <1>0, <2>1
  <2>3. saveStep[w] \notin Ended /\ s \in Locked /\ s \notin {"new", "sent", "compare", "claim", "drop", "give"}
    BY <1>1, <2>1 DEF Ended, Locked
  <2> QED BY <1>0, <1>1, <2>1, <2>2, <2>3, SaveTurns
<1>3. CASE F!Digest(hidden[w]) # startedFrom[w]
  <2>1. F!GiveBack(w, "conflict") BY <1>3 DEF F!Recheck
  <2>2. PICK s \in SaveSteps, c \in 0..filesMade :
          s = "conflict" /\ saveStep' = [saveStep EXCEPT ![w] = s] /\ saveLock' = {} /\ c = 0
          /\ hidden' = [hidden EXCEPT ![w] = c]
          /\ \/ savePath = 0 /\ savePath' = hidden[w] /\ UNCHANGED conflicts
             \/ savePath # 0 /\ savePath' = savePath /\ conflicts' = conflicts \cup {hidden[w]}
    BY <1>0, <2>1 DEF F!GiveBack, F!Leave, SaveSteps, Ended
  <2>3. conflicts \cup {hidden[w]} \in SUBSET (0..filesMade) BY <1>0
  <2>4. CASE savePath = 0 /\ savePath' = hidden[w] /\ UNCHANGED conflicts
    BY <1>0, <1>1, <2>2, <2>4, SaveTurns DEF Ended
  <2>5. CASE savePath # 0 /\ savePath' = savePath /\ conflicts' = conflicts \cup {hidden[w]}
    BY <1>0, <1>1, <2>2, <2>3, <2>5, SaveTurns DEF Ended
  <2> QED BY <2>2, <2>4, <2>5
<1> QED BY <1>2, <1>3

LEMMA VerifyKeeps == ASSUME SaveInv, NEW w \in Parties, F!Verify(w) PROVE SaveInv'
<1>0. SaveTypes /\ hidden[w] \in 0..filesMade /\ hidden = [hidden EXCEPT ![w] = hidden[w]]
      /\ savePath \in 0..filesMade /\ 0 \in 0..filesMade /\ conflicts \in SUBSET (0..filesMade)
  BY SaveKinds DEF SaveTypes
<1>1. /\ saveStep[w] \in {"installed", "beaten"}
      /\ UNCHANGED <<versions, filesMade, newest, openFiles, startedFrom, overwritten, afterLook>>
  BY DEF F!Verify, F!outer
<1>2. CASE F!Digest(hidden[w]) = startedFrom[w]
  <2>1. PICK s \in SaveSteps : s \in {"drop", "give"} /\ saveStep' = [saveStep EXCEPT ![w] = s]
                               /\ UNCHANGED <<savePath, hidden, conflicts, saveLock>>
    BY <1>2 DEF F!Verify, F!names, SaveSteps, Locked
  <2>2. hidden[w] # 0 => versions[hidden[w]] = startedFrom[w] BY <1>2 DEF F!Digest
  <2> QED BY <1>0, <1>1, <2>1, <2>2, SaveTurns DEF Ended, Locked
<1>3. CASE F!Digest(hidden[w]) # startedFrom[w]
  <2>1. PICK s \in SaveSteps, c \in 0..filesMade, k \in SUBSET (0..filesMade) :
          s \in Ended /\ saveStep' = [saveStep EXCEPT ![w] = s] /\ saveLock' = {} /\ c = 0
          /\ hidden' = [hidden EXCEPT ![w] = c] /\ savePath' = savePath
          /\ conflicts' = k /\ k = conflicts \cup {hidden[w]}
    BY <1>0, <1>3 DEF F!Verify, F!Leave, SaveSteps, Ended
  <2> QED BY <1>0, <1>1, <2>1, SaveTurns DEF Ended
<1> QED BY <1>2, <1>3

LEMMA DropKeeps == ASSUME SaveInv, NEW w \in Parties, F!Drop(w) PROVE SaveInv'
<1>0. SaveTypes /\ hidden[w] \in 0..filesMade
      /\ savePath \in 0..filesMade /\ 0 \in 0..filesMade /\ conflicts \in SUBSET (0..filesMade)
  BY SaveKinds DEF SaveTypes
<1>1. /\ saveStep[w] \in {"drop", "give"}
      /\ UNCHANGED <<savePath, conflicts, versions, filesMade, newest, openFiles, startedFrom, overwritten, afterLook>>
      /\ hidden' = [hidden EXCEPT ![w] = 0] /\ saveLock' = {}
  BY DEF F!Drop, F!outer
<1>2. PICK s \in SaveSteps : s \in Ended /\ saveStep' = [saveStep EXCEPT ![w] = s]
  BY <1>0, <1>1 DEF F!Drop, SaveSteps, Ended, SaveTypes
<1>3. hidden[w] # 0 => versions[hidden[w]] \in {startedFrom[w]} \cup afterLook
  BY <1>1 DEF SaveInv, ClaimInv
<1> QED BY <1>0, <1>1, <1>2, <1>3, SaveTurns DEF Ended

LEMMA EndsInError == ASSUME SaveInv, NEW w \in Parties, F!Error(w) \/ F!Crash(w) PROVE SaveInv'
<1>0. SaveTypes /\ hidden[w] \in 0..filesMade /\ hidden = [hidden EXCEPT ![w] = hidden[w]]
      /\ savePath \in 0..filesMade /\ 0 \in 0..filesMade /\ conflicts \in SUBSET (0..filesMade)
  BY SaveKinds DEF SaveTypes
<1>1. /\ saveStep[w] \in Locked /\ saveLock' = {} /\ saveStep' = [saveStep EXCEPT ![w] = "error"]
      /\ UNCHANGED <<conflicts, versions, filesMade, newest, openFiles, startedFrom, overwritten, afterLook>>
      /\ \/ UNCHANGED <<savePath, hidden>>
         \/ /\ savePath' = IF savePath = 0 THEN hidden[w] ELSE savePath
            /\ hidden' = [hidden EXCEPT ![w] = IF savePath = 0 THEN 0 ELSE hidden[w]]
  BY DEF F!Error, F!Crash, F!Leave, F!names, F!outer, Locked, SaveInv, ClaimInv
<1>2. PICK s \in SaveSteps : s = "error" BY DEF SaveSteps
<1>3. PICK p \in 0..filesMade, c \in 0..filesMade :
        savePath' = p /\ hidden' = [hidden EXCEPT ![w] = c]
        /\ (savePath # 0 => savePath \in {p, c}) /\ (hidden[w] # 0 => hidden[w] \in {p, c})
  <2>1. CASE UNCHANGED <<savePath, hidden>> BY <1>0, <2>1
  <2>2. CASE savePath = 0 /\ savePath' = hidden[w] /\ hidden' = [hidden EXCEPT ![w] = 0] BY <1>0, <2>2
  <2>3. CASE savePath # 0 /\ savePath' = savePath /\ hidden' = [hidden EXCEPT ![w] = hidden[w]] BY <1>0, <2>3
  <2> QED BY <1>1, <2>1, <2>2, <2>3
<1>4. saveStep[w] \notin Ended BY <1>1 DEF Locked, Ended
<1> QED BY <1>0, <1>1, <1>2, <1>3, <1>4, SaveTurns DEF Locked

\* A file is made under the path: by a save where there is none, or by an
\* outside writer, who overwrites what is there.
LEMMA NewFile ==
    ASSUME SaveInv, filesMade < 3, newest < 4, savePath' = filesMade + 1, filesMade' = filesMade + 1,
           newest' = newest + 1, versions' = [versions EXCEPT ![filesMade + 1] = newest + 1],
           UNCHANGED <<hidden, conflicts, openFiles, saveLock, startedFrom, afterLook>>,
           overwritten \subseteq overwritten', savePath # 0 => versions[savePath] \in overwritten',
           saveStep' = saveStep \/ \E w \in Parties : saveStep[w] = "install"
                                      /\ saveStep' = [saveStep EXCEPT ![w] = "installed"]
    PROVE  SaveInv'
<1>1. SaveTypes BY SaveKinds
<1>2. /\ filesMade + 1 \in 1..3 /\ filesMade' \in 0..3 /\ newest' \in 0..4 /\ 0..filesMade \subseteq 0..filesMade'
      /\ savePath' \in 0..filesMade' /\ 1..filesMade \subseteq 1..filesMade' /\ newest + 1 \in 0..4
  BY <1>1 DEF SaveTypes
<1>3. versions' \in [1..3 -> 0..4] /\ versions'[filesMade + 1] = newest + 1
      /\ \A i \in 1..filesMade : versions'[i] = versions[i]
  BY <1>1, <1>2 DEF SaveTypes
<1>4. saveStep' \in [Parties -> SaveSteps]
      /\ \A u \in Parties : \/ saveStep'[u] = saveStep[u]
                            \/ saveStep[u] = "install" /\ saveStep'[u] = "installed"
  BY <1>1 DEF SaveTypes, SaveSteps, Locked
<1>5. SaveTypes'
  <2>1. hidden' \in [Parties -> 0..filesMade'] BY <1>1, <1>2 DEF SaveTypes
  <2> QED BY <1>1, <1>2, <1>3, <1>4, <2>1 DEF SaveTypes
<1>6. ClaimInv'
  <2>1. \A u \in saveLock' : saveStep'[u] \in Locked BY <1>1, <1>4 DEF SaveInv, ClaimInv, SaveTypes, Locked
  <2>2. ASSUME NEW u \in Parties
        PROVE  /\ saveStep'[u] \in {"new", "sent", "compare", "claim"} => hidden'[u] = 0
               /\ saveStep'[u] \in {"drop", "give"} /\ hidden'[u] # 0 =>
                     versions'[hidden'[u]] \in {startedFrom'[u]} \cup afterLook'
    <3>1. hidden[u] \in 0..filesMade /\ filesMade \in Nat BY <1>1 DEF SaveTypes
    <3>2. hidden[u] # 0 => versions'[hidden[u]] = versions[hidden[u]] BY <1>3, <3>1
    <3> QED BY <1>4, <3>2 DEF SaveInv, ClaimInv
  <2> QED BY <2>1, <2>2 DEF ClaimInv
<1>7. F!NothingIsLost'
  <2>1. \A u \in Parties : saveStep[u] \in Ended => saveStep'[u] \in Ended /\ startedFrom'[u] = startedFrom[u]
    BY <1>4 DEF Ended
  <2>2. ASSUME NEW i \in Named
        PROVE  \/ i \in Named' /\ versions'[i] = versions[i]
               \/ versions[i] \in overwritten' \cup afterLook'
    <3>1. i \in 1..filesMade BY SaveKinds
    <3>2. CASE i # savePath BY <1>3, <3>1, <3>2 DEF Named
    <3>3. CASE i = savePath BY <3>1, <3>3
    <3> QED BY <3>2, <3>3
  <2>3. savePath' \in Named' BY <1>1 DEF Named, SaveTypes
  <2>4. \E i \in Named' : versions'[i] = newest + 1 BY <1>3, <2>3
  <2> QED BY <2>1, <2>2, <2>4, StillThere
<1> QED BY <1>5, <1>6, <1>7 DEF SaveInv

LEMMA InstallFileKeeps == ASSUME SaveInv, NEW w \in Parties, F!Install(w) PROVE SaveInv'
<1>0. SaveTypes /\ hidden[w] \in 0..filesMade /\ hidden = [hidden EXCEPT ![w] = hidden[w]]
      /\ savePath \in 0..filesMade /\ conflicts \in SUBSET (0..filesMade)
  BY SaveKinds DEF SaveTypes
<1>1. /\ saveStep[w] = "install" /\ filesMade < 3 /\ newest < 4
      /\ UNCHANGED <<hidden, conflicts, openFiles, saveLock, startedFrom, overwritten, afterLook>>
  BY DEF F!Install, F!outer
<1>2. CASE savePath = 0
  <2>1. /\ savePath' = filesMade + 1 /\ filesMade' = filesMade + 1 /\ newest' = newest + 1
        /\ versions' = [versions EXCEPT ![filesMade + 1] = newest + 1]
        /\ saveStep' = [saveStep EXCEPT ![w] = "installed"]
    BY <1>2 DEF F!Install
  <2> QED BY <1>1, <1>2, <2>1, NewFile
<1>3. CASE savePath # 0
  <2>1. PICK s \in SaveSteps : s = "beaten" /\ saveStep' = [saveStep EXCEPT ![w] = s]
                               /\ UNCHANGED <<savePath, filesMade, newest, versions>>
    BY <1>3 DEF F!Install, SaveSteps, Locked
  <2>2. PICK c \in 0..filesMade : c = hidden[w] /\ hidden' = [hidden EXCEPT ![w] = c] BY <1>0, <1>1
  <2>3. saveStep[w] \notin Ended /\ s \in Locked /\ s \notin {"new", "sent", "compare", "claim", "drop", "give"}
    BY <1>1, <2>1 DEF Ended, Locked
  <2> QED BY <1>0, <1>1, <2>1, <2>2, <2>3, SaveTurns
<1> QED BY <1>2, <1>3

LEMMA AgentReplaces == ASSUME SaveInv, F!Replace PROVE SaveInv'
<1>1. /\ filesMade < 3 /\ newest < 4 /\ savePath' = filesMade + 1 /\ filesMade' = filesMade + 1
      /\ newest' = newest + 1 /\ versions' = [versions EXCEPT ![filesMade + 1] = newest + 1]
      /\ UNCHANGED <<hidden, conflicts, openFiles, saveLock, startedFrom, afterLook, saveStep>>
      /\ overwritten' = IF savePath = 0 THEN overwritten ELSE overwritten \cup {versions[savePath]}
  BY DEF F!Replace
<1>2. overwritten \subseteq overwritten' /\ (savePath # 0 => versions[savePath] \in overwritten') BY <1>1
<1> QED BY <1>1, <1>2, NewFile

\* A name goes, or a descriptor is opened or closed.
LEMMA OutsideKeeps ==
    ASSUME SaveInv, F!Delete \/ F!OpensFile \/ \E i \in 1..3 : F!Close(i) PROVE SaveInv'
<1>1. /\ UNCHANGED <<hidden, conflicts, versions, filesMade, newest, afterLook, saveLock, saveStep, startedFrom>>
      /\ \/ UNCHANGED <<savePath, overwritten>>
         \/ savePath' = 0 /\ UNCHANGED openFiles /\ overwritten' = overwritten \cup {versions[savePath]}
  BY DEF F!Delete, F!OpensFile, F!Close, F!names
<1>2. openFiles' \subseteq 1..filesMade /\ savePath' \in 0..filesMade
  <2>1. SaveTypes BY SaveKinds
  <2>2. savePath # 0 => savePath \in 1..filesMade BY <2>1 DEF SaveTypes
  <2>3. CASE F!Delete BY <1>1, <2>1, <2>3 DEF F!Delete, SaveTypes
  <2>4. CASE F!OpensFile
    <3>1. savePath # 0 /\ openFiles' = openFiles \cup {savePath} /\ savePath' = savePath
      BY <2>4 DEF F!OpensFile, F!names
    <3> QED BY <2>1, <2>2, <3>1 DEF SaveTypes
  <2>5. CASE \E i \in 1..3 : F!Close(i)
    <3>1. openFiles' \subseteq openFiles /\ savePath' = savePath BY <2>5 DEF F!Close, F!names
    <3> QED BY <2>1, <3>1 DEF SaveTypes
  <2> QED BY <2>3, <2>4, <2>5
<1>3. SaveTypes' BY <1>1, <1>2 DEF SaveInv, SaveTypes
<1>4. ClaimInv' BY <1>1 DEF SaveInv, ClaimInv
<1>5. \A i \in Named : (i \in Named' /\ versions'[i] = versions[i]) \/ versions[i] \in overwritten'
  BY <1>1 DEF Named
<1>6. overwritten \subseteq overwritten' BY <1>1
<1>7. F!NothingIsLost' BY <1>1, <1>5, <1>6, StillThere
<1> QED BY <1>3, <1>4, <1>7 DEF SaveInv

\* Written through a descriptor: the version goes to a file that has a name,
\* or whose last one its own writer removed, or is written after the last look.
LEMMA WriteThroughKeeps == ASSUME SaveInv, NEW i \in 1..3, F!WriteThrough(i) PROVE SaveInv'
<1> DEFINE named == i \in {savePath} \cup conflicts \cup {hidden[w] : w \in Parties}
           dropping == \E w \in Parties : hidden[w] = i /\ saveStep[w] \in {"drop", "give"}
           unseen == ~named /\ versions[i] \in overwritten
<1>1. /\ i \in openFiles /\ newest < 4 /\ newest' = newest + 1
      /\ versions' = [versions EXCEPT ![i] = newest + 1]
      /\ overwritten' = overwritten \cup {versions[i]} \cup (IF unseen THEN {newest + 1} ELSE {})
      /\ afterLook' = IF dropping \/ ~(named \/ unseen) THEN afterLook \cup {newest + 1} ELSE afterLook
      /\ UNCHANGED <<savePath, hidden, conflicts, filesMade, openFiles, saveLock, saveStep, startedFrom>>
  BY DEF F!WriteThrough, F!names
<1>2. SaveTypes BY SaveKinds
<1>3. newest + 1 \in 0..4 /\ versions' \in [1..3 -> 0..4] /\ versions'[i] = newest + 1
      /\ \A j : j # i /\ j \in 1..3 => versions'[j] = versions[j]
  BY <1>1, <1>2 DEF SaveTypes
<1>4. SaveTypes' BY <1>1, <1>2, <1>3 DEF SaveTypes
<1>5. overwritten \subseteq overwritten' /\ afterLook \subseteq afterLook' /\ versions[i] \in overwritten' BY <1>1
<1>6. ClaimInv'
  <2>1. ASSUME NEW w \in Parties, saveStep[w] \in {"drop", "give"}, hidden[w] # 0
        PROVE  versions'[hidden[w]] \in {startedFrom[w]} \cup afterLook'
    <3>1. hidden[w] \in 1..3 BY <1>2, <2>1 DEF SaveTypes
    <3>2. CASE hidden[w] = i BY <1>1, <1>3, <2>1, <3>2
    <3>3. CASE hidden[w] # i BY <1>3, <1>5, <2>1, <3>1, <3>3 DEF SaveInv, ClaimInv
    <3> QED BY <3>2, <3>3
  <2> QED BY <1>1, <2>1 DEF SaveInv, ClaimInv
<1>7. F!NothingIsLost'
  <2>1. \A j \in Named : (j \in Named' /\ versions'[j] = versions[j]) \/ versions[j] \in overwritten'
    <3>1. \A j \in Named : j \in 1..3 BY SaveKinds DEF SaveTypes
    <3>2. Named' = Named BY <1>1 DEF Named
    <3> QED BY <1>3, <1>5, <3>1, <3>2
  <2>2. newest + 1 \in overwritten' \cup afterLook' \/ \E j \in Named' : versions'[j] = newest + 1
    <3>1. CASE named
      <4>1. i \in Named' BY <1>1, <3>1 DEF Named
      <4> QED BY <1>3, <4>1
    <3>2. CASE ~named BY <1>1, <3>2
    <3> QED BY <3>1, <3>2
  <2> QED BY <1>1, <1>5, <2>1, <2>2, StillThere
<1> QED BY <1>4, <1>6, <1>7 DEF SaveInv

LEMMA SaveKeeps == ASSUME SaveInv, F!SaveNext PROVE SaveInv'
BY BeforeClaim, SaveClaims, RecheckKeeps, InstallFileKeeps, VerifyKeeps, DropKeeps, EndsInError, AgentReplaces,
   OutsideKeeps, WriteThroughKeeps
DEF F!SaveNext

LEMMA SaveStutter ==
    ASSUME SaveInv, UNCHANGED <<savePath, hidden, conflicts, versions, filesMade, newest, openFiles, saveLock,
                                saveStep, startedFrom, overwritten, afterLook>>
    PROVE  SaveInv'
BY DEF SaveInv, SaveTypes, ClaimInv, F!NothingIsLost, F!Kept, F!Superseded

-----------------------------------------------------------------------------
(* What a confined CLI may reach (Confinement).                            *)

ownConfig == x1
links == x2
hardLink == x3
extraRoot == x4
spawnStep == x5
grants == x6
rules == x7

USE DEF ownConfig, links, hardLink, extraRoot, spawnStep, grants, rules

Paths == Seq(C!Words)
AfterName(a, n) == IF Append(a, n) \in DOMAIN links THEN links[Append(a, n)] ELSE Append(a, n)
IsResolution(f, p) == f = [i \in 0..Len(p) |-> IF i = 0 THEN <<>> ELSE AfterName(f[i - 1], p[i])]

LEMMA ResolveIs == ASSUME NEW p PROVE C!Resolve(p) = (CHOOSE f : IsResolution(f, p))[Len(p)]
BY DEF C!Resolve, IsResolution, AfterName

LinksOK == DOMAIN links \subseteq C!Plantable /\ \A q \in DOMAIN links : links[q] \in Paths

LEMMA LeastOf == ASSUME NEW S \in SUBSET Nat, S # {} PROVE \E u \in S : \A v \in S : u =< v
<1>1. PICK u \in S : \A v \in S : <<v, u>> \notin OpToRel(<, Nat)
  BY NatLessThanWellFounded, WFMin
<1>2. \A v \in S : ~(v < u)
  <2> SUFFICES ASSUME NEW v \in S, v < u PROVE FALSE OBVIOUS
  <2>1. <<v, u>> \in OpToRel(<, Nat) BY Zenon DEF OpToRel
  <2> QED BY <1>1, <2>1
<1>3. \A v \in S : u =< v BY <1>2
<1> QED BY <1>3

LEMMA AfterNameIsPath ==
    ASSUME LinksOK, NEW a \in Paths, NEW n \in C!Words PROVE AfterName(a, n) \in Paths
<1>1. Append(a, n) \in Paths BY AppendProperties DEF Paths
<1> QED BY <1>1 DEF AfterName, LinksOK

\* The resolution of a path exists, name by name.
WalkOf(p, n) ==
    \E f \in [0..n -> Paths] : f[0] = <<>> /\ \A i \in 1..n : f[i] = AfterName(f[i - 1], p[i])

LEMMA WalkGrows ==
    ASSUME LinksOK, NEW p \in Paths, NEW n \in Nat, n < Len(p), WalkOf(p, n) PROVE WalkOf(p, n + 1)
<1>1. PICK f \in [0..n -> Paths] : f[0] = <<>> /\ \A i \in 1..n : f[i] = AfterName(f[i - 1], p[i]) BY DEF WalkOf
<1> DEFINE g == [i \in 0..(n + 1) |-> IF i =< n THEN f[i] ELSE AfterName(f[n], p[n + 1])]
<1>2. p[n + 1] \in C!Words BY DEF Paths
<1>3. f[n] \in Paths BY <1>1
<1>4. AfterName(f[n], p[n + 1]) \in Paths BY <1>2, <1>3, AfterNameIsPath
<1>5. g \in [0..(n + 1) -> Paths] BY <1>1, <1>4
<1>6. \A i \in 0..n : g[i] = f[i] OBVIOUS
<1>7. g[n + 1] = AfterName(f[n], p[n + 1]) OBVIOUS
<1> HIDE DEF g
<1>8. \A i \in 1..(n + 1) : g[i] = AfterName(g[i - 1], p[i])
  <2> SUFFICES ASSUME NEW i \in 1..(n + 1) PROVE g[i] = AfterName(g[i - 1], p[i]) OBVIOUS
  <2>1. CASE i = n + 1
    <3>1. g[i - 1] = f[n] BY <2>1, <1>6
    <3> QED BY <2>1, <3>1, <1>7
  <2>2. CASE i # n + 1
    <3>1. i \in 1..n /\ i \in 0..n /\ i - 1 \in 0..n BY <2>2
    <3> QED BY <3>1, <1>1, <1>6
  <2> QED BY <2>1, <2>2
<1>9. g[0] = <<>> BY <1>1, <1>6
<1> QED BY <1>5, <1>8, <1>9 DEF WalkOf

LEMMA WalkExists == ASSUME LinksOK, NEW p \in Paths PROVE WalkOf(p, Len(p))
<1> DEFINE S == {n \in 0..Len(p) : ~WalkOf(p, n)}
<1>1. Len(p) \in Nat BY DEF Paths
<1>2. 0 \notin S
  <2>1. PICK z \in Nat : z = 0 OBVIOUS
  <2> DEFINE f == [i \in {0} |-> <<>>]
  <2>2. <<>> \in Paths BY DEF Paths
  <2>3. f \in [0..0 -> Paths] /\ f[0] = <<>> BY <2>2
  <2> HIDE DEF f
  <2>4. \A i \in 1..0 : f[i] = AfterName(f[i - 1], p[i]) OBVIOUS
  <2> QED BY <2>3, <2>4 DEF WalkOf
<1>3. SUFFICES S = {} BY <1>1, <1>3
<1>4. SUFFICES ASSUME S # {} PROVE FALSE OBVIOUS
<1>a. S \in SUBSET Nat BY <1>1
<1>5. PICK u \in S : \A v \in S : u =< v
  <2> HIDE DEF S
  <2> QED BY <1>a, <1>4, LeastOf
<1>6. u \in Nat /\ u - 1 \in Nat /\ u =< Len(p) /\ u - 1 \in 0..Len(p) /\ u - 1 \notin S
  BY <1>1, <1>2, <1>5
<1>7. WalkOf(p, u - 1) BY <1>6
<1>8. WalkOf(p, (u - 1) + 1) BY <1>1, <1>6, <1>7, WalkGrows
<1>9. (u - 1) + 1 = u BY <1>6
<1> QED BY <1>5, <1>8, <1>9

LEMMA ResolutionSteps ==
    ASSUME LinksOK, NEW p \in Paths
    PROVE  \E f : /\ C!Resolve(p) = f[Len(p)] /\ f[0] = <<>>
                  /\ \A i \in 1..Len(p) : f[i] = AfterName(f[i - 1], p[i])
<1> DEFINE r == CHOOSE f : IsResolution(f, p)
<1>1. Len(p) \in Nat BY DEF Paths
<1>2. PICK f \in [0..Len(p) -> Paths] : f[0] = <<>> /\ \A i \in 1..Len(p) : f[i] = AfterName(f[i - 1], p[i])
  BY WalkExists DEF WalkOf
<1>3. IsResolution(f, p)
  <2>1. \A i \in 0..Len(p) : f[i] = IF i = 0 THEN <<>> ELSE AfterName(f[i - 1], p[i]) BY <1>1, <1>2
  <2>2. f = [i \in 0..Len(p) |-> f[i]] BY <1>2
  <2> QED BY <2>1, <2>2 DEF IsResolution
<1>4. IsResolution(r, p) BY <1>3
<1>5. C!Resolve(p) = r[Len(p)] BY ResolveIs
<1> HIDE DEF r
<1>6. r[0] = <<>> /\ \A i \in 1..Len(p) : r[i] = AfterName(r[i - 1], p[i]) BY <1>1, <1>4 DEF IsResolution
<1> QED BY <1>5, <1>6

LEMMA ResolvedIsPath == ASSUME LinksOK, NEW p \in Paths PROVE C!Resolve(p) \in Paths
<1>1. PICK f : /\ C!Resolve(p) = f[Len(p)] /\ f[0] = <<>>
               /\ \A i \in 1..Len(p) : f[i] = AfterName(f[i - 1], p[i])
  BY ResolutionSteps
<1> DEFINE S == {n \in 0..Len(p) : f[n] \notin Paths}
<1>2. Len(p) \in Nat BY DEF Paths
<1>3. SUFFICES ASSUME S # {} PROVE FALSE BY <1>1, <1>2, <1>3
<1>a. S \in SUBSET Nat BY <1>2
<1>4. PICK u \in S : \A v \in S : u =< v
  <2> HIDE DEF S
  <2> QED BY <1>a, <1>3, LeastOf
<1>5. <<>> \in Paths BY DEF Paths
<1>6. u # 0 BY <1>1, <1>4, <1>5
<1>7. u \in 1..Len(p) /\ u - 1 \in 0..Len(p) /\ u - 1 \notin S BY <1>2, <1>4, <1>6
<1>8. f[u - 1] \in Paths /\ p[u] \in C!Words BY <1>7 DEF Paths
<1>9. f[u] \in Paths BY <1>1, <1>7, <1>8, AfterNameIsPath
<1> QED BY <1>4, <1>9

\* A name or two that no link replaces resolve to themselves.
LEMMA ResolveOne ==
    ASSUME LinksOK, NEW a \in C!Words, <<a>> \notin DOMAIN links PROVE C!Real(<<a>>) = <<a>>
<1>1. <<a>> \in Paths /\ Len(<<a>>) = 1 /\ <<a>>[1] = a BY DEF Paths
<1>2. PICK f : /\ C!Resolve(<<a>>) = f[1] /\ f[0] = <<>> /\ \A i \in 1..1 : f[i] = AfterName(f[i - 1], <<a>>[i])
  BY <1>1, ResolutionSteps
<1>3. f[1] = AfterName(f[0], a) BY <1>1, <1>2
<1>4. Append(<<>>, a) = <<a>> OBVIOUS
<1>5. C!Resolve(<<a>>) = <<a>> BY <1>2, <1>3, <1>4 DEF AfterName
<1> QED BY <1>5 DEF C!Real

LEMMA PairIs ==
    ASSUME NEW S, NEW a \in S, NEW b \in S, NEW p \in Seq(S), Len(p) = 2, p[1] = a, p[2] = b PROVE p = <<a, b>>
OBVIOUS

LEMMA ShortPaths ==
    ASSUME NEW a \in C!Words, NEW b \in C!Words
    PROVE  <<>> \in Paths /\ <<a>> \in Paths /\ <<a, b>> \in Paths /\ Append(<<a>>, b) = <<a, b>>
<1>1. <<>> \in Paths BY DEF Paths
<1>2. <<a>> \in Paths BY DEF Paths
<1>3. <<a, b>> \in Paths BY DEF Paths
<1>4. PICK p : p = Append(<<a>>, b) OBVIOUS
<1>5. p \in Paths /\ Len(p) = 2 /\ p[1] = a /\ p[2] = b
  <2>1. PICK q \in Paths : q = <<a>> BY <1>2
  <2>2. Len(q) = 1 /\ q[1] = a BY <2>1
  <2>3. p = Append(q, b) BY <1>4, <2>1
  <2>4. Append(q, b) \in Paths /\ Len(Append(q, b)) = Len(q) + 1 BY AppendProperties DEF Paths
  <2>5. Append(q, b)[Len(q) + 1] = b /\ \A i \in 1..Len(q) : Append(q, b)[i] = q[i] BY AppendProperties DEF Paths
  <2> QED BY <2>2, <2>3, <2>4, <2>5
<1>6. p = <<a, b>> BY <1>5, PairIs DEF Paths
<1> QED BY <1>1, <1>2, <1>3, <1>4, <1>6

LEMMA ResolveTwo ==
    ASSUME LinksOK, NEW a \in C!Words, NEW b \in C!Words, <<a>> \notin DOMAIN links, <<a, b>> \notin DOMAIN links
    PROVE  C!Real(<<a, b>>) = <<a, b>>
<1> DEFINE p == <<a, b>>
<1>1. p \in Paths /\ Len(p) = 2 /\ p[1] = a /\ p[2] = b BY ShortPaths
<1>2. Append(<<>>, a) = <<a>> /\ Append(<<a>>, b) = p BY ShortPaths
<1> HIDE DEF p
<1>3. PICK f : /\ C!Resolve(p) = f[2] /\ f[0] = <<>> /\ \A i \in 1..2 : f[i] = AfterName(f[i - 1], p[i])
  BY <1>1, ResolutionSteps
<1>4. f[1] = AfterName(f[0], a) /\ f[2] = AfterName(f[1], b) BY <1>1, <1>3
<1>5. f[1] = <<a>> BY <1>2, <1>3, <1>4 DEF AfterName
<1>6. p \notin DOMAIN links BY DEF p
<1>7. f[2] = p BY <1>2, <1>4, <1>5, <1>6 DEF AfterName
<1> QED BY <1>3, <1>7 DEF C!Real, p

\* One path lies beneath another when it begins with the other's names.
LEMMA BeneathIs ==
    ASSUME NEW p \in Paths, NEW r \in Paths
    PROVE  C!Beneath(p, r) <=> Len(r) =< Len(p) /\ \A i \in 1..Len(r) : p[i] = r[i]
<1>1. Len(p) \in Nat /\ Len(r) \in Nat BY DEF Paths
<1>2. ASSUME Len(r) =< Len(p)
      PROVE  /\ SubSeq(p, 1, Len(r)) \in Paths /\ Len(SubSeq(p, 1, Len(r))) = Len(r)
             /\ \A i \in 1..Len(r) : SubSeq(p, 1, Len(r))[i] = p[i]
  BY <1>1, <1>2 DEF Paths
<1>3. ASSUME Len(r) =< Len(p), \A i \in 1..Len(r) : p[i] = r[i] PROVE SubSeq(p, 1, Len(r)) = r
  <2> DEFINE q == SubSeq(p, 1, Len(r))
  <2>1. q \in Paths /\ Len(q) = Len(r) /\ \A i \in 1..Len(r) : q[i] = r[i] BY <1>2, <1>3
  <2> HIDE DEF q
  <2>2. q = r BY <2>1 DEF Paths
  <2> QED BY <2>2 DEF q
<1> QED BY <1>2, <1>3 DEF C!Beneath

\* The names of a path of the model, spelled out.
Spelled(p, l) == p \in Paths /\ Len(p) = Len(l) /\ \A i \in 1..Len(l) : p[i] = l[i]

LEMMA Joined ==
    ASSUME NEW S, NEW p \in Seq(S), NEW q \in Seq(S)
    PROVE  /\ p \o q \in Seq(S) /\ Len(p \o q) = Len(p) + Len(q)
           /\ \A i \in 1..Len(p) : (p \o q)[i] = p[i]
           /\ \A i \in 1..Len(q) : (p \o q)[Len(p) + i] = q[i]
BY ConcatProperties

LEMMA WordsHave ==
    /\ "home" \in C!Words /\ "cfg" \in C!Words /\ "base" \in C!Words /\ "ws" \in C!Words
    /\ "mine" \in C!Words /\ "app" \in C!Words /\ "tmp" \in C!Words /\ "clone" \in C!Words
    /\ "global" \in C!Words /\ "u" \in C!Words /\ "v" \in C!Words /\ "memo" \in C!Words
    /\ "projects" \in C!Words /\ "env" \in C!Words /\ "s" \in C!Words /\ "theirs" \in C!Words
    /\ "t" \in C!Words /\ "key" \in C!Words /\ "data" \in C!Words /\ "other" \in C!Words
    /\ "skills" \in C!Words /\ "plugins" \in C!Words /\ "state" \in C!Words /\ "opt" \in C!Words
BY DEF C!Words

One(p, a) == p \in Paths /\ Len(p) = 1 /\ p[1] = a
Two(p, a, b) == p \in Paths /\ Len(p) = 2 /\ p[1] = a /\ p[2] = b
Three(p, a, b, c) == p \in Paths /\ Len(p) = 3 /\ p[1] = a /\ p[2] = b /\ p[3] = c
Four(p, a, b, c, d) == p \in Paths /\ Len(p) = 4 /\ p[1] = a /\ p[2] = b /\ p[3] = c /\ p[4] = d

\* A path of two names and one or two more.
LEMMA Extended ==
    ASSUME NEW a \in C!Words, NEW b \in C!Words, NEW c \in C!Words, NEW d \in C!Words
    PROVE  Three(<<a, b>> \o <<c>>, a, b, c) /\ Four(<<a, b>> \o <<c, d>>, a, b, c, d)
<1>1. PICK x \in Paths : x = <<a, b>> BY ShortPaths
<1>2. PICK y \in Paths : y = <<c>> BY ShortPaths
<1>3. PICK z \in Paths : z = <<c, d>> BY ShortPaths
<1>4. /\ Len(x) = 2 /\ x[1] = a /\ x[2] = b /\ Len(y) = 1 /\ y[1] = c
      /\ Len(z) = 2 /\ z[1] = c /\ z[2] = d
  BY <1>1, <1>2, <1>3
<1>5. x \o y \in Paths /\ Len(x \o y) = 3 /\ (x \o y)[1] = a /\ (x \o y)[2] = b /\ (x \o y)[3] = c
  <2>1. /\ x \o y \in Paths /\ Len(x \o y) = Len(x) + Len(y) /\ \A i \in 1..Len(x) : (x \o y)[i] = x[i]
        /\ \A i \in 1..Len(y) : (x \o y)[Len(x) + i] = y[i]
    BY Joined DEF Paths
  <2> QED BY <1>4, <2>1
<1>6. /\ x \o z \in Paths /\ Len(x \o z) = 4 /\ (x \o z)[1] = a /\ (x \o z)[2] = b
      /\ (x \o z)[3] = c /\ (x \o z)[4] = d
  <2>1. /\ x \o z \in Paths /\ Len(x \o z) = Len(x) + Len(z) /\ \A i \in 1..Len(x) : (x \o z)[i] = x[i]
        /\ \A i \in 1..Len(z) : (x \o z)[Len(x) + i] = z[i]
    BY Joined DEF Paths
  <2> QED BY <1>4, <2>1
<1> QED BY <1>1, <1>2, <1>3, <1>5, <1>6 DEF Three, Four

\* Where the roots of the filter and the data of others are.
InConfig(p) == p \in Paths /\ (IF ownConfig THEN p[1] = "base" /\ p[2] = "u" ELSE p[1] = "home" /\ p[2] = "cfg")

LEMMA OneIs == ASSUME NEW a \in C!Words PROVE One(<<a>>, a)
BY ShortPaths DEF One

LEMMA TwoIs == ASSUME NEW a \in C!Words, NEW b \in C!Words PROVE Two(<<a, b>>, a, b)
BY ShortPaths DEF Two

LEMMA FixedPaths ==
    /\ One(C!Home, "home") /\ Two(C!Shared, "home", "cfg") /\ One(C!ConfigBase, "base") /\ One(C!Base, "ws")
    /\ Two(C!Workspace, "ws", "mine") /\ One(C!App, "app") /\ One(C!Temp, "tmp")
    /\ Two(C!Clone, "home", "clone") /\ Two(C!Global, "home", "global")
<1>1. One(C!Home, "home") /\ One(C!ConfigBase, "base") /\ One(C!Base, "ws")
      /\ One(C!App, "app") /\ One(C!Temp, "tmp")
  BY OneIs, WordsHave DEF C!Home, C!ConfigBase, C!Base, C!App, C!Temp
<1>2. /\ Two(C!Shared, "home", "cfg") /\ Two(C!Workspace, "ws", "mine")
      /\ Two(C!Clone, "home", "clone") /\ Two(C!Global, "home", "global")
  BY TwoIs, WordsHave DEF C!Shared, C!Workspace, C!Clone, C!Global
<1> QED BY <1>1, <1>2

LEMMA SharedPaths ==
    /\ Three(C!Memo, "home", "cfg", "memo") /\ Three(C!Shared \o <<"skills">>, "home", "cfg", "skills")
    /\ Three(C!Shared \o <<"projects">>, "home", "cfg", "projects")
    /\ Four(C!Shared \o <<"projects", "theirs">>, "home", "cfg", "projects", "theirs")
    /\ Four(C!Shared \o <<"env", "t">>, "home", "cfg", "env", "t")
<1>1. ASSUME NEW c \in C!Words PROVE Three(C!Shared \o <<c>>, "home", "cfg", c)
  BY Extended, WordsHave DEF C!Shared
<1>2. ASSUME NEW c \in C!Words, NEW d \in C!Words PROVE Four(C!Shared \o <<c, d>>, "home", "cfg", c, d)
  BY Extended, WordsHave DEF C!Shared
<1> QED BY <1>1, <1>2, WordsHave DEF C!Memo

LEMMA ConfigPaths ==
    /\ InConfig(C!Config) /\ Len(C!Config) = 2
    /\ InConfig(C!Project) /\ Len(C!Project) = 4 /\ C!Project[3] = "projects" /\ C!Project[4] = "mine"
    /\ InConfig(C!SessionEnv) /\ Len(C!SessionEnv) = 4 /\ C!SessionEnv[3] = "env" /\ C!SessionEnv[4] = "s"
    /\ \A n \in C!Words : /\ InConfig(C!Config \o <<n>>) /\ Len(C!Config \o <<n>>) = 3
                         /\ (C!Config \o <<n>>)[3] = n
<1>1. PICK a \in C!Words, b \in C!Words : C!Config = <<a, b>> /\ IF ownConfig THEN a = "base" /\ b = "u"
                                                            ELSE a = "home" /\ b = "cfg"
  BY WordsHave DEF C!Config, C!Shared
<1>2. Two(C!Config, a, b) BY <1>1, TwoIs
<1>3. Four(C!Project, a, b, "projects", "mine") BY <1>1, Extended, WordsHave DEF C!Project
<1>4. Four(C!SessionEnv, a, b, "env", "s") BY <1>1, Extended, WordsHave DEF C!SessionEnv
<1>5. ASSUME NEW n \in C!Words PROVE Three(C!Config \o <<n>>, a, b, n) BY <1>1, Extended
<1>6. InConfig(C!Config) /\ Len(C!Config) = 2 BY <1>1, <1>2 DEF InConfig, Two
<1>7. InConfig(C!Project) /\ Len(C!Project) = 4 /\ C!Project[3] = "projects" /\ C!Project[4] = "mine"
  BY <1>1, <1>3 DEF InConfig, Four
<1>8. InConfig(C!SessionEnv) /\ Len(C!SessionEnv) = 4 /\ C!SessionEnv[3] = "env" /\ C!SessionEnv[4] = "s"
  BY <1>1, <1>4 DEF InConfig, Four
<1>9. ASSUME NEW n \in C!Words
      PROVE  InConfig(C!Config \o <<n>>) /\ Len(C!Config \o <<n>>) = 3 /\ (C!Config \o <<n>>)[3] = n
  BY <1>1, <1>5 DEF InConfig, Three
<1> QED BY <1>6, <1>7, <1>8, <1>9

\* No link replaces a root of the filter or a name above one.
LEMMA NotPlanted ==
    ASSUME NEW q \in C!Plantable
    PROVE  q \in Paths /\ Len(q) >= 2 /\ (Len(q) = 2 => (q = C!Clone \/ q = C!Workspace))
<1>1. q \in {C!Shared \o <<"skills">>, C!Clone, C!Workspace, C!Project, C!Config \o <<"projects">>, C!SessionEnv}
  BY DEF C!Plantable
<1>2. CASE q = C!Shared \o <<"skills">>
  <2>1. Three(q, "home", "cfg", "skills") BY <1>2, SharedPaths
  <2> QED BY <2>1 DEF Three
<1>3. CASE q = C!Clone \/ q = C!Workspace
  <2>1. Two(q, "home", "clone") \/ Two(q, "ws", "mine") BY <1>3, FixedPaths
  <2> QED BY <1>3, <2>1 DEF Two
<1>4. CASE q = C!Project \/ q = C!SessionEnv
  <2>1. InConfig(q) /\ Len(q) = 4 BY <1>4, ConfigPaths
  <2> QED BY <2>1 DEF InConfig
<1>5. CASE q = C!Config \o <<"projects">> BY <1>5, ConfigPaths, WordsHave DEF InConfig
<1> QED BY <1>1, <1>2, <1>3, <1>4, <1>5

LEMMA RootsStay ==
    ASSUME LinksOK
    PROVE  /\ C!Real(C!Home) = C!Home /\ C!Real(C!Base) = C!Base /\ C!Real(C!App) = C!App
           /\ C!Real(C!Temp) = C!Temp /\ C!Real(C!ConfigBase) = C!ConfigBase
           /\ C!Real(C!Config) = C!Config /\ C!Real(C!Shared) = C!Shared
           /\ (C!Clone \notin DOMAIN links => C!Real(C!Clone) = C!Clone)
<1>1. ASSUME NEW a \in C!Words PROVE <<a>> \notin DOMAIN links
  <2>1. PICK q : q = <<a>> OBVIOUS
  <2>2. Len(q) = 1 BY <2>1
  <2>3. q \notin C!Plantable
    <3> SUFFICES ASSUME q \in C!Plantable PROVE FALSE OBVIOUS
    <3>1. Len(q) >= 2 BY NotPlanted
    <3> QED BY <2>2, <3>1
  <2> QED BY <2>1, <2>3 DEF LinksOK
<1>2. ASSUME NEW a \in C!Words, NEW b \in C!Words, <<a, b>> \notin {C!Clone, C!Workspace} PROVE <<a, b>> \notin DOMAIN links
  <2>1. PICK q : q = <<a, b>> OBVIOUS
  <2>2. Len(q) = 2 BY <2>1
  <2>3. q \notin C!Plantable BY <1>2, <2>1, <2>2, NotPlanted
  <2> QED BY <2>1, <2>3 DEF LinksOK
<1>3. /\ C!Real(C!Home) = C!Home /\ C!Real(C!Base) = C!Base /\ C!Real(C!App) = C!App
      /\ C!Real(C!Temp) = C!Temp /\ C!Real(C!ConfigBase) = C!ConfigBase
  BY <1>1, ResolveOne, WordsHave DEF C!Home, C!ConfigBase, C!Base, C!App, C!Temp
<1>4. C!Shared \notin {C!Clone, C!Workspace} /\ C!Config \notin {C!Clone, C!Workspace}
  BY FixedPaths, ConfigPaths DEF Two, InConfig
<1>5. C!Real(C!Shared) = C!Shared BY <1>1, <1>2, <1>4, ResolveTwo, WordsHave DEF C!Shared
<1>6. C!Real(C!Config) = C!Config
  <2>1. CASE ownConfig
    <3>1. C!Config = <<"base", "u">> BY <2>1 DEF C!Config
    <3> QED BY <3>1, <1>1, <1>2, <1>4, ResolveTwo, WordsHave
  <2>2. CASE ~ownConfig BY <2>2, <1>5 DEF C!Config
  <2> QED BY <2>1, <2>2
<1>7. ASSUME C!Clone \notin DOMAIN links PROVE C!Real(C!Clone) = C!Clone
  BY <1>1, <1>7, ResolveTwo, WordsHave DEF C!Clone
<1> QED BY <1>3, <1>5, <1>6, <1>7

\* The roots of the filter, whatever is linked.
LEMMA RootsAre ==
    ASSUME LinksOK
    PROVE  /\ [path |-> C!Home, kind |-> "home"] \in C!Roots /\ [path |-> C!Base, kind |-> "deny"] \in C!Roots
           /\ [path |-> C!App, kind |-> "deny"] \in C!Roots /\ [path |-> C!Temp, kind |-> "temp"] \in C!Roots
           /\ [path |-> C!Shared, kind |-> "config"] \in C!Roots
           /\ (ownConfig => [path |-> C!ConfigBase, kind |-> "deny"] \in C!Roots)
           /\ \A r \in C!Roots : r.kind # "contain" =>
                 r.path \in {C!Home, C!Base, C!App, C!Temp, C!Shared, C!Config} \cup
                            (IF ownConfig THEN {C!ConfigBase} ELSE {})
<1>1. C!Config = C!Shared \/ ownConfig BY DEF C!Config
<1> QED BY <1>1, RootsStay DEF C!Roots, C!Root

LEMMA OthersAre ==
    ASSUME NEW f \in C!Foreign
    PROVE  \/ Two(f, "ws", "theirs") \/ Two(f, "home", "key") \/ Two(f, "app", "data") \/ Two(f, "tmp", "other")
           \/ Four(f, "home", "cfg", "projects", "theirs") \/ Four(f, "home", "cfg", "env", "t")
           \/ ownConfig /\ Two(f, "base", "v")
<1>1. \/ f = <<"ws", "theirs">> \/ f = C!Shared \o <<"projects", "theirs">> \/ f = C!Shared \o <<"env", "t">>
      \/ f = <<"home", "key">> \/ f = <<"app", "data">> \/ f = <<"tmp", "other">>
      \/ ownConfig /\ f = <<"base", "v">>
  BY DEF C!Foreign
<1>2. /\ Two(<<"ws", "theirs">>, "ws", "theirs") /\ Two(<<"home", "key">>, "home", "key")
      /\ Two(<<"app", "data">>, "app", "data") /\ Two(<<"tmp", "other">>, "tmp", "other")
      /\ Two(<<"base", "v">>, "base", "v")
  BY TwoIs, WordsHave
<1> QED BY <1>1, <1>2, SharedPaths

LEMMA RootOver ==
    ASSUME LinksOK, NEW a, a \in {"ws", "app", "tmp", "home"} \/ (ownConfig /\ a = "base")
    PROVE  \E r \in C!Roots : One(r.path, a) /\ (a # "home" => r.kind \in {"deny", "temp"})
<1>1. CASE a = "ws"
  <2>1. PICK r \in C!Roots : r.path = C!Base /\ r.kind = "deny" BY RootsAre
  <2> QED BY <1>1, <2>1, FixedPaths
<1>2. CASE a = "app"
  <2>1. PICK r \in C!Roots : r.path = C!App /\ r.kind = "deny" BY RootsAre
  <2> QED BY <1>2, <2>1, FixedPaths
<1>3. CASE a = "tmp"
  <2>1. PICK r \in C!Roots : r.path = C!Temp /\ r.kind = "temp" BY RootsAre
  <2> QED BY <1>3, <2>1, FixedPaths
<1>4. CASE a = "home"
  <2>1. PICK r \in C!Roots : r.path = C!Home BY RootsAre
  <2> QED BY <1>4, <2>1, FixedPaths
<1>5. CASE ownConfig /\ a = "base"
  <2>1. PICK r \in C!Roots : r.path = C!ConfigBase /\ r.kind = "deny" BY <1>5, RootsAre
  <2> QED BY <1>5, <2>1, FixedPaths
<1> QED BY <1>1, <1>2, <1>3, <1>4, <1>5

LEMMA ShortRoots ==
    ASSUME NEW x, x \in {C!Home, C!Base, C!App, C!Temp, C!ConfigBase} PROVE Len(x) = 1
<1>1. Len(C!Home) = 1 /\ Len(C!Base) = 1 BY FixedPaths DEF One
<1>2. Len(C!App) = 1 /\ Len(C!Temp) = 1 /\ Len(C!ConfigBase) = 1 BY FixedPaths DEF One
<1>3. x = C!Home \/ x = C!Base \/ x = C!App \/ x = C!Temp \/ x = C!ConfigBase OBVIOUS
<1> QED BY <1>1, <1>2, <1>3

\* A path in a root where nothing is granted is misplaced.
LEMMA InNothing ==
    ASSUME LinksOK, NEW p \in Paths, NEW a, NEW b, Two(p, a, b),
           a \in {"ws", "app", "tmp"} \/ (ownConfig /\ a = "base" /\ b # "u")
    PROVE  C!Misplaced(p)
<1>0. Len(p) = 2 /\ p[1] = a /\ p[2] = b BY DEF Two
<1>1. PICK r \in C!Roots : One(r.path, p[1]) /\ r.kind \in {"deny", "temp"}
  <2>1. a \in {"ws", "app", "tmp", "home"} \/ (ownConfig /\ a = "base") OBVIOUS
  <2>2. a # "home" OBVIOUS
  <2>3. \E r \in C!Roots : One(r.path, a) /\ r.kind \in {"deny", "temp"} BY <2>1, <2>2, RootOver
  <2> QED BY <1>0, <2>3
<1>2. C!Beneath(p, r.path)
  <2>1. PICK q : q = r.path OBVIOUS
  <2>2. q \in Paths /\ Len(q) = 1 /\ q[1] = p[1] BY <1>1, <2>1 DEF One
  <2>3. 1 =< Len(p) /\ \A i \in 1..1 : p[i] = q[i] BY <1>0, <2>2
  <2>4. C!Beneath(p, q) BY <2>2, <2>3, BeneathIs
  <2> QED BY <2>1, <2>4
<1>3. r \in C!Containing(p) BY <1>1, <1>2 DEF C!Containing
<1>4. ASSUME NEW s \in C!Containing(p) PROVE Len(s.path) =< 1
  <2>1. s \in C!Roots /\ s.kind # "contain" /\ C!Beneath(p, s.path) BY DEF C!Containing
  <2>2. s.path \in {C!Home, C!Base, C!App, C!Temp, C!Shared, C!Config, C!ConfigBase} BY <2>1, RootsAre
  <2>3. CASE s.path \in {C!Home, C!Base, C!App, C!Temp, C!ConfigBase}
    <3>1. Len(s.path) = 1 BY <2>3, ShortRoots
    <3> QED BY <3>1
  <2>4. CASE s.path = C!Shared
    <3>1. C!Shared \in Paths /\ Len(C!Shared) = 2 /\ C!Shared[1] = "home" BY FixedPaths DEF Two
    <3>a. \A i \in 1..2 : p[i] = C!Shared[i] BY <2>1, <2>4, <3>1, BeneathIs
    <3>2. p[1] = "home" BY <3>1, <3>a
    <3> QED BY <1>0, <3>2
  <2>5. CASE s.path = C!Config
    <3>1. C!Config \in Paths /\ Len(C!Config) = 2 BY ConfigPaths DEF InConfig
    <3>2. p[1] = C!Config[1] /\ p[2] = C!Config[2] BY <2>1, <2>5, <3>1, BeneathIs
    <3>3. (ownConfig /\ p[1] = "base" /\ p[2] = "u") \/ p[1] = "home" BY <3>2, ConfigPaths DEF InConfig
    <3> QED BY <1>0, <3>3
  <2> QED BY <2>2, <2>3, <2>4, <2>5
<1>5. r \in C!Innermost(p)
  <2>1. Len(r.path) = 1 BY <1>1 DEF One
  <2> QED BY <1>3, <1>4, <2>1 DEF C!Innermost
<1> QED BY <1>1, <1>5 DEF C!Misplaced

\* In $HOME only the global file and the clones are read.
LEMMA InHome ==
    ASSUME LinksOK, NEW p \in Paths, Two(p, "home", "key") PROVE C!ReadRefused(p)
<1> DEFINE r == [path |-> C!Home, kind |-> "home"]
<1>1. r \in C!Roots /\ r.path = C!Home /\ r.kind = "home" BY RootsAre
<1> HIDE DEF r
<1>2. One(r.path, "home") BY <1>1, FixedPaths
<1>3. Len(p) = 2 /\ p[1] = "home" /\ p[2] = "key" BY DEF Two
<1>4. r \in C!Containing(p)
  <2>1. C!Beneath(p, r.path) BY <1>2, <1>3, BeneathIs DEF One
  <2> QED BY <1>1, <2>1 DEF C!Containing
<1>5. ASSUME NEW s \in C!Containing(p) PROVE Len(s.path) =< 1
  <2>1. s \in C!Roots /\ s.kind # "contain" /\ C!Beneath(p, s.path) BY DEF C!Containing
  <2>2. s.path \in {C!Home, C!Base, C!App, C!Temp, C!Shared, C!Config, C!ConfigBase} BY <2>1, RootsAre
  <2>3. CASE s.path \in {C!Home, C!Base, C!App, C!Temp, C!ConfigBase}
    <3>1. Len(s.path) = 1 BY <2>3, ShortRoots
    <3> QED BY <3>1
  <2>4. CASE s.path = C!Shared \/ s.path = C!Config
    <3>1. s.path \in Paths /\ Len(s.path) = 2 /\ (s.path[1] = "base" \/ s.path[2] = "cfg")
      <4>1. C!Shared \in Paths /\ Len(C!Shared) = 2 /\ C!Shared[2] = "cfg" BY FixedPaths DEF Two
      <4>2. C!Config \in Paths /\ Len(C!Config) = 2 /\ (C!Config[1] = "base" \/ C!Config[2] = "cfg")
        BY ConfigPaths DEF InConfig
      <4> QED BY <2>4, <4>1, <4>2
    <3>2. p[1] = s.path[1] /\ p[2] = s.path[2] BY <2>1, <3>1, BeneathIs
    <3> QED BY <1>3, <3>1, <3>2
  <2> QED BY <2>2, <2>3, <2>4
<1>6. r \in C!Innermost(p)
  <2>1. Len(r.path) = 1 BY <1>2 DEF One
  <2> QED BY <1>4, <1>5, <2>1 DEF C!Innermost
<1>7. p # C!Global BY <1>3, FixedPaths DEF Two
<1>8. ASSUME NEW c \in C!CloneRoots PROVE ~C!Beneath(p, c)
  <2>1. c = C!Clone BY RootsStay DEF C!CloneRoots
  <2>2. C!Clone \in Paths /\ Len(C!Clone) = 2 /\ C!Clone[2] = "clone" BY FixedPaths DEF Two
  <2> QED BY <1>3, <2>1, <2>2, BeneathIs
<1> QED BY <1>1, <1>6, <1>7, <1>8 DEF C!ReadRefused

\* In a config dir only what is meant to be read is.
LEMMA InConfigDir ==
    ASSUME LinksOK, NEW p \in Paths, Len(p) >= 3, p[1] = "home", p[2] = "cfg", p[3] \in {"projects", "env"}
    PROVE  C!ReadRefused(p)
<1> DEFINE r == [path |-> C!Shared, kind |-> "config"]
<1>1. r \in C!Roots /\ r.path = C!Shared /\ r.kind = "config" BY RootsAre
<1> HIDE DEF r
<1>2. Two(r.path, "home", "cfg") BY <1>1, FixedPaths
<1>3. r \in C!Containing(p)
  <2>1. C!Beneath(p, r.path) BY <1>2, BeneathIs DEF Two
  <2> QED BY <1>1, <2>1 DEF C!Containing
<1>4. ASSUME NEW s \in C!Containing(p) PROVE Len(s.path) =< 2
  <2>1. s \in C!Roots /\ s.kind # "contain" BY DEF C!Containing
  <2>2. s.path \in {C!Home, C!Base, C!App, C!Temp, C!Shared, C!Config, C!ConfigBase} BY <2>1, RootsAre
  <2>3. CASE s.path \in {C!Home, C!Base, C!App, C!Temp, C!ConfigBase}
    <3>1. Len(s.path) = 1 BY <2>3, ShortRoots
    <3> QED BY <3>1
  <2>4. CASE s.path = C!Shared BY <2>4, FixedPaths DEF Two
  <2>5. CASE s.path = C!Config BY <2>5, ConfigPaths
  <2> QED BY <2>2, <2>3, <2>4, <2>5
<1>5. r \in C!Innermost(p)
  <2>1. Len(r.path) = 2 BY <1>2 DEF Two
  <2> QED BY <1>3, <1>4, <2>1 DEF C!Innermost
<1>6. ASSUME NEW q \in C!Readable(r.path) PROVE ~C!Beneath(p, q)
  <2>1. PICK n \in {"skills", "memo", "plugins"} : q = C!Shared \o <<n>> BY <1>1 DEF C!Readable
  <2>2. Three(q, "home", "cfg", n) BY <2>1, Extended, WordsHave DEF C!Shared
  <2>3. q \in Paths /\ Len(q) = 3 /\ q[3] = n BY <2>2 DEF Three
  <2>4. q[3] # p[3] BY <2>1, <2>3
  <2>5. C!Beneath(p, q) => \A i \in 1..3 : p[i] = q[i] BY <2>3, BeneathIs
  <2> QED BY <2>4, <2>5
<1> QED BY <1>1, <1>5, <1>6 DEF C!ReadRefused

\* What is not refused reaches nothing of others.
LEMMA ReadsNoOther ==
    ASSUME LinksOK, NEW p \in Paths, ~C!ReadRefused(p), NEW f \in C!Foreign PROVE ~C!Beneath(f, p)
<1> SUFFICES ASSUME C!Beneath(f, p) PROVE FALSE OBVIOUS
<1>0. f \in Paths BY OthersAre DEF Two, Four
<1>1. PICK n \in Nat : n = Len(p) BY DEF Paths
<1>2. n =< Len(f) /\ \A i \in 1..n : f[i] = p[i] BY <1>0, <1>1, BeneathIs
<1>3. ~C!Misplaced(p) BY DEF C!ReadRefused
<1>4. \A r \in C!Roots : ~C!Beneath(r.path, p) BY <1>3 DEF C!Misplaced
<1>5. n # 0
  <2>1. p # <<>> BY <1>3 DEF C!Misplaced
  <2> QED BY <1>1, <2>1 DEF Paths
<1>6. ASSUME NEW r \in Paths, n =< Len(r), \A i \in 1..n : r[i] = p[i] PROVE C!Beneath(r, p)
  BY <1>1, <1>6, BeneathIs
<1>7. n # 1
  <2> SUFFICES ASSUME n = 1 PROVE FALSE OBVIOUS
  <2>1. PICK a : a = p[1] OBVIOUS
  <2>2. a = f[1] BY <1>2, <2>1
  <2>3. a \in {"ws", "home", "app", "tmp"} \/ (ownConfig /\ a = "base") BY <2>2, OthersAre DEF Two, Four
  <2>4. PICK r \in C!Roots : One(r.path, a) BY <2>3, RootOver
  <2>5. r.path \in Paths /\ Len(r.path) = 1 /\ r.path[1] = a BY <2>4 DEF One
  <2>6. C!Beneath(r.path, p) BY <1>6, <2>1, <2>5
  <2> QED BY <1>4, <2>6
<1>8. n >= 2 BY <1>5, <1>7
<1>9. p[1] = f[1] /\ p[2] = f[2] BY <1>2, <1>8
<1>10. CASE Two(f, "ws", "theirs") \/ Two(f, "app", "data") \/ Two(f, "tmp", "other") \/ (ownConfig /\ Two(f, "base", "v"))
  <2>1. Len(f) = 2 BY <1>10 DEF Two
  <2>2. n = 2 BY <1>2, <1>8, <2>1
  <2>3. PICK a, b : a = p[1] /\ b = p[2] OBVIOUS
  <2>4. a \in {"ws", "app", "tmp"} \/ (ownConfig /\ a = "base" /\ b = "v") BY <1>9, <1>10, <2>3 DEF Two
  <2>5. Two(p, a, b) BY <1>1, <2>2, <2>3 DEF Two
  <2>6. C!Misplaced(p) BY <2>4, <2>5, InNothing
  <2> QED BY <1>3, <2>6
<1>11. CASE Two(f, "home", "key")
  <2>1. Len(f) = 2 /\ f[1] = "home" /\ f[2] = "key" BY <1>11 DEF Two
  <2>2. n = 2 BY <1>2, <1>8, <2>1
  <2>3. Two(p, "home", "key") BY <1>1, <1>9, <2>1, <2>2 DEF Two
  <2> QED BY <2>3, InHome
<1>12. CASE Four(f, "home", "cfg", "projects", "theirs") \/ Four(f, "home", "cfg", "env", "t")
  <2>1. f[1] = "home" /\ f[2] = "cfg" /\ f[3] \in {"projects", "env"} BY <1>12 DEF Four
  <2>2. n # 2
    <3> SUFFICES ASSUME n = 2 PROVE FALSE OBVIOUS
    <3>1. PICK r \in C!Roots : r.path = C!Shared BY RootsAre
    <3>2. C!Shared \in Paths /\ Len(C!Shared) = 2 /\ C!Shared[1] = "home" /\ C!Shared[2] = "cfg"
      BY FixedPaths DEF Two
    <3>3. \A i \in 1..2 : C!Shared[i] = p[i] BY <1>9, <2>1, <3>2
    <3>4. C!Beneath(r.path, p) BY <1>6, <3>1, <3>2, <3>3
    <3> QED BY <1>4, <3>4
  <2>3. n >= 3 BY <1>8, <2>2
  <2>4. p[3] = f[3] BY <1>2, <2>3
  <2>5. Len(p) >= 3 /\ p[1] = "home" /\ p[2] = "cfg" /\ p[3] \in {"projects", "env"}
    BY <1>1, <1>9, <2>1, <2>3, <2>4
  <2> QED BY <2>5, InConfigDir
<1> QED BY <1>10, <1>11, <1>12, OthersAre

\* What the gateway wrote on its lists, until the rules are made from them.
WriteDirs == {C!Project, C!SessionEnv, C!Config \o <<"state">>}
ListsOK ==
    /\ grants.ws = C!Workspace /\ grants.rw \subseteq WriteDirs
    /\ \A p \in grants.ro : p \in Paths /\ \A f \in C!Foreign : ~C!Beneath(f, p)

BoundInv ==
    /\ C!ConfinementTypes /\ C!ConfinedToItsOwn /\ LinksOK
    /\ spawnStep \in {"checked", "spawned"} => ListsOK

LEMMA KnownPaths ==
    /\ \A e \in WriteDirs \cup {C!Workspace} : e \in Paths /\ \A f \in C!Foreign : ~C!Beneath(f, e)
    /\ \A e \in WriteDirs \cup {C!Workspace} :
          \E own \in {C!Workspace, C!Project, C!SessionEnv, C!Config \o <<"state">>} : C!Beneath(e, own)
<1>1. ASSUME NEW e \in WriteDirs \cup {C!Workspace}
      PROVE  /\ e \in Paths
             /\ \/ Two(e, "ws", "mine")
                \/ InConfig(e) /\ Len(e) = 4 /\ e[3] = "projects" /\ e[4] = "mine"
                \/ InConfig(e) /\ Len(e) = 4 /\ e[3] = "env" /\ e[4] = "s"
                \/ InConfig(e) /\ Len(e) = 3 /\ e[3] = "state"
  <2>1. CASE e = C!Workspace
    <3>1. Two(e, "ws", "mine") BY <2>1, FixedPaths
    <3> QED BY <3>1 DEF Two
  <2>2. CASE e = C!Project
    <3>1. InConfig(e) /\ Len(e) = 4 /\ e[3] = "projects" /\ e[4] = "mine" BY <2>2, ConfigPaths
    <3> QED BY <3>1 DEF InConfig
  <2>3. CASE e = C!SessionEnv
    <3>1. InConfig(e) /\ Len(e) = 4 /\ e[3] = "env" /\ e[4] = "s" BY <2>3, ConfigPaths
    <3> QED BY <3>1 DEF InConfig
  <2>4. CASE e = C!Config \o <<"state">>
    <3>1. InConfig(e) /\ Len(e) = 3 /\ e[3] = "state" BY <2>4, ConfigPaths, WordsHave
    <3> QED BY <3>1 DEF InConfig
  <2> QED BY <1>1, <2>1, <2>2, <2>3, <2>4 DEF WriteDirs
<1>2. ASSUME NEW e \in WriteDirs \cup {C!Workspace}, NEW f \in C!Foreign PROVE ~C!Beneath(f, e)
  <2> SUFFICES ASSUME C!Beneath(f, e) PROVE FALSE OBVIOUS
  <2>1. e \in Paths /\ f \in Paths BY <1>1, OthersAre DEF Two, Four
  <2>2. Len(e) =< Len(f) /\ \A i \in 1..Len(e) : f[i] = e[i] BY <2>1, BeneathIs
  <2>3. CASE Two(e, "ws", "mine")
    <3>1. Len(e) = 2 /\ e[1] = "ws" /\ e[2] = "mine" BY <2>3 DEF Two
    <3>2. f[1] = "ws" /\ f[2] = "mine" BY <2>2, <3>1
    <3> QED BY <3>2, OthersAre DEF Two, Four
  <2>4. CASE InConfig(e) /\ Len(e) = 4 /\ e[4] \in {"mine", "s"}
    <3>1. f[4] = e[4] /\ Len(f) >= 4 BY <2>2, <2>4
    <3>2. Len(f) # 2 /\ f[4] \notin {"theirs", "t"} BY <2>4, <3>1
    <3>3. Four(f, "home", "cfg", "projects", "theirs") \/ Four(f, "home", "cfg", "env", "t")
      BY <3>2, OthersAre DEF Two
    <3> QED BY <3>2, <3>3 DEF Four
  <2>5. CASE InConfig(e) /\ Len(e) = 3 /\ e[3] = "state"
    <3>1. f[3] = "state" /\ Len(f) >= 3 BY <2>2, <2>5
    <3>2. Len(f) # 2 BY <3>1
    <3>3. Four(f, "home", "cfg", "projects", "theirs") \/ Four(f, "home", "cfg", "env", "t")
      BY <3>2, OthersAre DEF Two
    <3> QED BY <3>1, <3>3 DEF Four
  <2> QED BY <1>1, <2>3, <2>4, <2>5
<1>3. ASSUME NEW e \in WriteDirs \cup {C!Workspace} PROVE C!Beneath(e, e)
  <2>1. e \in Paths BY <1>1
  <2>2. Len(e) =< Len(e) BY <2>1 DEF Paths
  <2> QED BY <2>1, <2>2, BeneathIs
<1>4. WriteDirs \cup {C!Workspace} = {C!Workspace, C!Project, C!SessionEnv, C!Config \o <<"state">>}
  BY DEF WriteDirs
<1> QED BY <1>1, <1>2, <1>3, <1>4

LEMMA TargetsArePaths == ASSUME NEW x \in C!Targets PROVE x \in Paths /\ x \in C!Places
<1>1. x \in Paths
  <2>1. <<>> \in Paths BY ShortPaths, WordsHave
  <2>2. C!Shared \in Paths /\ C!Base \in Paths BY FixedPaths DEF One, Two
  <2>3. C!Shared \o <<"projects", "theirs">> \in Paths BY SharedPaths DEF Four
  <2>4. /\ <<"ws", "theirs">> \in Paths /\ <<"home", "key">> \in Paths /\ <<"opt">> \in Paths
        /\ <<"base", "v">> \in Paths
    BY ShortPaths, WordsHave
  <2> QED BY <2>1, <2>2, <2>3, <2>4 DEF C!Targets
<1>2. x \in C!Places BY DEF C!Targets, C!Places, C!Foreign
<1> QED BY <1>1, <1>2

LEMMA RealIsPath == ASSUME LinksOK, NEW p \in Paths PROVE C!Real(p) \in Paths
BY ResolvedIsPath DEF C!Real

LEMMA BoundInit == ASSUME C!ConfinementInit PROVE BoundInv
<1>1. DOMAIN links = {} /\ spawnStep = "idle" /\ rules = {} BY DEF C!ConfinementInit
<1> QED BY <1>1 DEF C!ConfinementInit, BoundInv, C!ConfinementTypes, C!ConfinedToItsOwn, LinksOK

LEMMA ListsAreMade == ASSUME BoundInv, C!OptionsEnv PROVE BoundInv'
<1>1. /\ spawnStep = "idle" /\ spawnStep' \in {"checked", "refused"}
      /\ UNCHANGED <<ownConfig, links, hardLink, extraRoot, rules>> BY DEF C!OptionsEnv
<1>2. LinksOK BY DEF BoundInv
<1>3. LinksOK' BY <1>1, <1>2 DEF LinksOK, C!Plantable, C!Project, C!Config, C!SessionEnv
<1>4. C!ConfinementTypes' BY <1>1
  DEF BoundInv, C!ConfinementTypes, C!Plantable, C!Places, C!Foreign, C!Project, C!Config, C!SessionEnv
<1>5. ASSUME spawnStep' = "checked" PROVE ListsOK'
  <2>1. C!ConfinedWorkspace BY <1>1, <1>5 DEF C!OptionsEnv
  <2>2. C!Real(C!Workspace) = C!Workspace
    <3>1. C!Real(C!Workspace) = C!Base \o <<"mine">> BY <1>2, <2>1, RootsStay DEF C!ConfinedWorkspace
    <3>2. C!Base \o <<"mine">> = C!Workspace
      <4>1. PICK y \in Paths : y = <<"mine">> BY ShortPaths, WordsHave
      <4>2. Len(y) = 1 /\ y[1] = "mine" BY <4>1
      <4>3. One(C!Base, "ws") BY FixedPaths
      <4>4. PICK q : q = C!Base \o y OBVIOUS
      <4>5. /\ q \in Paths /\ Len(q) = Len(C!Base) + Len(y) /\ \A i \in 1..Len(C!Base) : q[i] = C!Base[i]
            /\ \A i \in 1..Len(y) : q[Len(C!Base) + i] = y[i]
        <5>1. C!Base \in Seq(C!Words) /\ y \in Seq(C!Words) BY <4>3 DEF One, Paths
        <5>2. /\ C!Base \o y \in Seq(C!Words) /\ Len(C!Base \o y) = Len(C!Base) + Len(y)
              /\ \A i \in 1..Len(C!Base) : (C!Base \o y)[i] = C!Base[i]
              /\ \A i \in 1..Len(y) : (C!Base \o y)[Len(C!Base) + i] = y[i]
          BY <5>1, Joined
        <5> QED BY <4>4, <5>2 DEF Paths
      <4>6. q \in Paths /\ Len(q) = 2 /\ q[1] = "ws" /\ q[2] = "mine" BY <4>2, <4>3, <4>5 DEF One
      <4>7. q = <<"ws", "mine">> BY <4>6, PairIs, WordsHave DEF Paths
      <4> QED BY <4>1, <4>4, <4>7 DEF C!Workspace
    <3> QED BY <3>1, <3>2
  <2>3. /\ grants'.ws = C!Real(C!Workspace)
        /\ grants'.ro = C!GrantRo(C!Shared \o <<"skills">>, FALSE) \cup C!GrantRo(C!Memo, TRUE)
                        \cup C!GrantRo(extraRoot, FALSE)
                        \cup (IF ownConfig THEN C!GrantRo(C!Config \o <<"plugins">>, FALSE) ELSE C!GrantRo(C!Global, TRUE))
        /\ grants'.rw = C!GrantRw(C!Project) \cup C!SessionDirs
                        \cup (IF ownConfig THEN C!GrantRw(C!Config \o <<"state">>) ELSE {})
    <3> DEFINE inDir == C!Real(C!Workspace)
               read == C!GrantRo(C!Shared \o <<"skills">>, FALSE) \cup C!GrantRo(C!Memo, TRUE)
                       \cup C!GrantRo(extraRoot, FALSE)
                       \cup (IF ownConfig THEN C!GrantRo(C!Config \o <<"plugins">>, FALSE)
                            ELSE C!GrantRo(C!Global, TRUE))
               written == C!GrantRw(C!Project) \cup C!SessionDirs
                          \cup (IF ownConfig THEN C!GrantRw(C!Config \o <<"state">>) ELSE {})
    <3>1. grants' = [ws |-> inDir, ro |-> read, rw |-> written] BY <2>1 DEF C!OptionsEnv
    <3> HIDE DEF inDir, read, written
    <3>2. grants'.ws = inDir /\ grants'.ro = read /\ grants'.rw = written BY <3>1
    <3> QED BY <3>2 DEF inDir, read, written
  <2>4. ASSUME NEW c \in Paths, NEW asFile, NEW p \in C!GrantRo(c, asFile)
        PROVE  p \in Paths /\ \A f \in C!Foreign : ~C!Beneath(f, p)
    <3>1. p = C!Real(c) /\ ~C!ReadRefused(p) BY DEF C!GrantRo
    <3>2. p \in Paths BY <1>2, <3>1, RealIsPath
    <3> QED BY <1>2, <3>1, <3>2, ReadsNoOther
  <2>5. C!Shared \o <<"skills">> \in Paths /\ C!Memo \in Paths BY SharedPaths DEF Three
  <2>6. C!Config \o <<"plugins">> \in Paths BY ConfigPaths, WordsHave DEF InConfig
  <2>7. C!Global \in Paths BY FixedPaths DEF Two
  <2>8. extraRoot \in Paths
    <3>1. extraRoot \in {<<"opt">>, C!Clone, C!Home} BY DEF BoundInv, C!ConfinementTypes, C!Extras
    <3>2. <<"opt">> \in Paths BY ShortPaths, WordsHave
    <3>3. C!Clone \in Paths /\ C!Home \in Paths BY FixedPaths DEF One, Two
    <3> QED BY <3>1, <3>2, <3>3
  <2>9. ASSUME NEW p \in grants'.ro PROVE p \in Paths /\ \A f \in C!Foreign : ~C!Beneath(f, p)
    <3>1. PICK c \in Paths, asFile \in BOOLEAN : p \in C!GrantRo(c, asFile) BY <2>3, <2>5, <2>6, <2>7, <2>8
    <3> QED BY <3>1, <2>4
  <2>10. grants'.rw \subseteq WriteDirs
    <3>1. \A e : C!GrantRw(e) \subseteq {e} BY DEF C!GrantRw
    <3>2. C!SessionDirs \subseteq {C!SessionEnv} BY <3>1 DEF C!SessionDirs
    <3> QED BY <2>3, <3>1, <3>2 DEF WriteDirs
  <2>11. WriteDirs' = WriteDirs /\ C!Foreign' = C!Foreign /\ C!Workspace' = C!Workspace
    BY <1>1 DEF WriteDirs, C!Foreign, C!Project, C!Config, C!SessionEnv
  <2>12. \A f, p : C!Beneath(f, p)' = C!Beneath(f, p) BY DEF C!Beneath
  <2> QED BY <2>2, <2>3, <2>9, <2>10, <2>11, <2>12 DEF ListsOK
<1>6. C!ConfinedToItsOwn' BY <1>1 DEF C!ConfinedToItsOwn
<1> QED BY <1>1, <1>3, <1>4, <1>5, <1>6 DEF BoundInv

LEMMA RulesAreMade == ASSUME BoundInv, C!RestrictSelf PROVE BoundInv'
<1>1. /\ spawnStep = "spawned" /\ spawnStep' = "run"
      /\ UNCHANGED <<ownConfig, links, hardLink, extraRoot, grants>> BY DEF C!RestrictSelf
<1>2. LinksOK /\ ListsOK BY <1>1 DEF BoundInv
<1>3. LinksOK' BY <1>1, <1>2 DEF LinksOK, C!Plantable, C!Project, C!Config, C!SessionEnv
<1>4. \A q, p : p \in C!OpenNofollow(q) => p = q /\ ~(p = C!Memo /\ hardLink) BY DEF C!OpenNofollow
<1>5. ASSUME NEW r \in rules'
      PROVE  /\ r.write \in BOOLEAN /\ r.path \in Paths /\ ~(hardLink /\ r.path = C!Memo)
             /\ \A f \in C!Foreign : ~C!Beneath(f, r.path)
             /\ r.write => \E own \in {C!Workspace, C!Project, C!SessionEnv, C!Config \o <<"state">>} :
                              C!Beneath(r.path, own)
  <2>1. \/ /\ r.write = FALSE
           /\ \E q \in grants.ro : r.path \in C!OpenNofollow(q)
        \/ /\ r.write = TRUE
           /\ \E q \in grants.rw \cup {grants.ws} : r.path \in C!OpenNofollow(q)
    BY DEF C!RestrictSelf
  <2>2. CASE r.write = FALSE /\ \E q \in grants.ro : r.path \in C!OpenNofollow(q)
    <3>1. r.path \in grants.ro /\ ~(hardLink /\ r.path = C!Memo) BY <2>2, <1>4
    <3> QED BY <1>2, <2>2, <3>1 DEF ListsOK
  <2>3. CASE r.write = TRUE /\ \E q \in grants.rw \cup {grants.ws} : r.path \in C!OpenNofollow(q)
    <3>1. r.path \in WriteDirs \cup {C!Workspace} /\ ~(hardLink /\ r.path = C!Memo)
      BY <1>2, <2>3, <1>4 DEF ListsOK
    <3> QED BY <2>3, <3>1, KnownPaths
  <2> QED BY <2>1, <2>2, <2>3
<1>6. C!ConfinementTypes' BY <1>1, <1>5
  DEF BoundInv, C!ConfinementTypes, C!Plantable, C!Places, C!Foreign, C!Project, C!Config, C!SessionEnv, Paths
<1>7. C!ConfinedToItsOwn' BY <1>1, <1>5
  DEF C!ConfinedToItsOwn, C!Foreign, C!Project, C!Config, C!SessionEnv, C!Beneath
<1> QED BY <1>1, <1>3, <1>6, <1>7 DEF BoundInv

LEMMA WriterPlants ==
    ASSUME BoundInv, \/ C!Enter \/ C!PlantHard
                     \/ \E p \in C!Plantable, target \in C!Targets : C!Plant(p, target)
    PROVE  BoundInv'
<1>1. /\ spawnStep # "run" /\ spawnStep' # "run" /\ UNCHANGED <<ownConfig, extraRoot, grants, rules>>
      /\ spawnStep' \in {"idle", "checked", "spawned", "run", "refused"} /\ hardLink' \in BOOLEAN
      /\ (spawnStep' \in {"checked", "spawned"} => spawnStep \in {"checked", "spawned"})
  BY DEF BoundInv, C!ConfinementTypes, C!Enter, C!PlantHard, C!Plant
<1>2. C!Plantable' = C!Plantable /\ C!Places' = C!Places /\ WriteDirs' = WriteDirs /\ C!Foreign' = C!Foreign
  BY <1>1 DEF C!Plantable, C!Places, WriteDirs, C!Foreign, C!Project, C!Config, C!SessionEnv
<1>3. DOMAIN links' \subseteq C!Plantable /\ \A q \in DOMAIN links' : links'[q] \in Paths /\ links'[q] \in C!Places
  <2>1. DOMAIN links \subseteq C!Plantable /\ \A q \in DOMAIN links : links[q] \in Paths /\ links[q] \in C!Places
    BY DEF BoundInv, LinksOK, C!ConfinementTypes
  <2>2. CASE UNCHANGED links BY <2>1, <2>2
  <2>3. CASE \E p \in C!Plantable, target \in C!Targets : C!Plant(p, target)
    <3>1. PICK p \in C!Plantable, target \in C!Targets : C!Plant(p, target) BY <2>3
    <3>2. links' = [q \in DOMAIN links \cup {p} |-> IF q = p THEN target ELSE links[q]] BY <3>1 DEF C!Plant
    <3>3. target \in Paths /\ target \in C!Places BY TargetsArePaths
    <3>4. DOMAIN links' = DOMAIN links \cup {p} BY <3>2
    <3>5. \A q \in DOMAIN links' : links'[q] = IF q = p THEN target ELSE links[q] BY <3>2, <3>4
    <3> QED BY <2>1, <3>3, <3>4, <3>5
  <2> QED BY <2>2, <2>3 DEF C!Enter, C!PlantHard
<1>4. C!ConfinementTypes' BY <1>1, <1>2, <1>3 DEF BoundInv, C!ConfinementTypes
<1>5. LinksOK' BY <1>2, <1>3 DEF LinksOK
<1>6. ListsOK => ListsOK' BY <1>1, <1>2 DEF ListsOK, C!Beneath
<1>7. C!ConfinedToItsOwn' BY <1>1 DEF C!ConfinedToItsOwn
<1> QED BY <1>1, <1>4, <1>5, <1>6, <1>7 DEF BoundInv

LEMMA BoundKeeps == ASSUME BoundInv, C!ConfinementStep PROVE BoundInv'
BY ListsAreMade, RulesAreMade, WriterPlants DEF C!ConfinementStep

LEMMA BoundStutter ==
    ASSUME BoundInv, UNCHANGED <<ownConfig, links, hardLink, extraRoot, spawnStep, grants, rules>> PROVE BoundInv'
BY DEF BoundInv, LinksOK, ListsOK, WriteDirs, C!ConfinementTypes, C!ConfinedToItsOwn, C!Plantable, C!Places,
       C!Foreign, C!Project, C!Config, C!SessionEnv, C!Beneath

-----------------------------------------------------------------------------
(* The tmp dir of a confined CLI (Confinement).                            *)

entry == x8
dirMode == x9
gitConfig == x10
dirsMade == x11
tmpStage == x12
held == x13
looks == x14
agentActs == x15
renamesFailed == x16

USE DEF entry, dirMode, gitConfig, dirsMade, tmpStage, held, looks, agentActs, renamesFailed

TmpDirs == 1..4

\* Left alone, a spawn finds at its first look what an earlier session left, has
\* put a directory of its own there by the third and opens it at the fourth.
Undisturbed ==
    /\ tmpStage = "open" =>
          \/ looks = 1 /\ dirsMade = 1
          \/ looks = 2 /\ ((entry = 0 /\ dirsMade = 1) \/ (entry \in TmpDirs /\ dirMode[entry] = "ours"))
          \/ looks = 3 /\ entry \in TmpDirs /\ dirMode[entry] = "ours"
    /\ tmpStage = "unlink" => looks = 1 /\ dirsMade = 1 /\ entry = -1
    /\ tmpStage = "repair" => looks = 1 /\ dirsMade = 1 /\ entry \in TmpDirs /\ dirMode[entry] = "locked"
    /\ tmpStage = "aside" => looks = 1 /\ dirsMade = 1
    /\ tmpStage \in {"root", "git", "install", "again", "done"} =>
          held = entry /\ entry \in TmpDirs /\ dirMode[entry] = "ours"
    /\ tmpStage # "gaveup"

TmpInv ==
    /\ C!TmpTypes /\ C!RepairsWhatWasLeft
    /\ \A d \in TmpDirs : d > dirsMade => dirMode[d] = "ours"
    /\ tmpStage \in {"root", "git", "install", "again", "done"} => held \in TmpDirs
    /\ agentActs = 0 => Undisturbed

LEMMA TmpInitially == ASSUME C!TmpInit PROVE TmpInv
<1>1. /\ entry \in {-1, 0, 1} /\ dirsMade = 1 /\ tmpStage = "open" /\ held = 0 /\ looks = 1
      /\ agentActs = 0 /\ renamesFailed = 0
  BY DEF C!TmpInit
<1>2. PICK k \in {"ours", "locked", "other"} : dirMode = [d \in TmpDirs |-> IF d = 1 THEN k ELSE "ours"]
  BY DEF C!TmpInit, C!D, TmpDirs
<1>3. PICK g \in {"none", "whole", "bad"} : gitConfig = [d \in TmpDirs |-> IF d = 1 THEN g ELSE "none"]
  BY DEF C!TmpInit, C!D, TmpDirs
<1> QED BY <1>1, <1>2, <1>3 DEF TmpInv, C!TmpTypes, C!RepairsWhatWasLeft, C!D, TmpDirs, Undisturbed

LEMMA TmpLooks == ASSUME TmpInv, C!MakeDir \/ C!OpenDir \/ C!UnlinkAt \/ C!RepairDirAt \/ C!RenameAside PROVE TmpInv'
<1>1. C!TmpTypes' BY DEF TmpInv, C!TmpTypes, C!D, C!MakeDir, C!OpenDir, C!UnlinkAt, C!RepairDirAt, C!RenameAside, C!Retry
<1>2. CASE C!MakeDir
  BY <1>1, <1>2 DEF TmpInv, C!TmpTypes, C!RepairsWhatWasLeft, C!D, TmpDirs, Undisturbed, C!MakeDir, C!Retry
<1>3. CASE C!OpenDir
  BY <1>1, <1>3 DEF TmpInv, C!TmpTypes, C!RepairsWhatWasLeft, C!D, TmpDirs, Undisturbed, C!OpenDir
<1>4. CASE C!UnlinkAt
  BY <1>1, <1>4 DEF TmpInv, C!TmpTypes, C!RepairsWhatWasLeft, C!D, TmpDirs, Undisturbed, C!UnlinkAt, C!Retry
<1>5. CASE C!RepairDirAt
  BY <1>1, <1>5 DEF TmpInv, C!TmpTypes, C!RepairsWhatWasLeft, C!D, TmpDirs, Undisturbed, C!RepairDirAt, C!Retry
<1>6. CASE C!RenameAside
  BY <1>1, <1>6 DEF TmpInv, C!TmpTypes, C!RepairsWhatWasLeft, C!D, TmpDirs, Undisturbed, C!RenameAside, C!Retry
<1> QED BY <1>2, <1>3, <1>4, <1>5, <1>6

LEMMA TmpPrepares ==
    ASSUME TmpInv, C!RepairCliRoot \/ C!LookAtGit \/ C!InstallGitConfig \/ C!LookAgain PROVE TmpInv'
<1>1. C!TmpTypes'
  BY DEF TmpInv, C!TmpTypes, C!D, C!RepairCliRoot, C!LookAtGit, C!InstallGitConfig, C!LookAgain, C!Retry
<1>2. CASE C!RepairCliRoot
  BY <1>1, <1>2 DEF TmpInv, C!TmpTypes, C!RepairsWhatWasLeft, C!D, TmpDirs, Undisturbed, C!RepairCliRoot
<1>3. CASE C!LookAtGit
  BY <1>1, <1>3 DEF TmpInv, C!TmpTypes, C!RepairsWhatWasLeft, C!D, TmpDirs, Undisturbed, C!LookAtGit
<1>4. CASE C!InstallGitConfig
  BY <1>1, <1>4 DEF TmpInv, C!TmpTypes, C!RepairsWhatWasLeft, C!D, TmpDirs, Undisturbed, C!InstallGitConfig
<1>5. CASE C!LookAgain
  BY <1>1, <1>5 DEF TmpInv, C!TmpTypes, C!RepairsWhatWasLeft, C!D, TmpDirs, Undisturbed, C!LookAgain, C!Retry
<1> QED BY <1>2, <1>3, <1>4, <1>5

LEMMA TmpDisturbed == ASSUME TmpInv, C!Swap \/ C!Spoil PROVE TmpInv'
<1>1. C!TmpTypes' BY DEF TmpInv, C!TmpTypes, C!D, C!Swap, C!Spoil, C!Act
<1>2. agentActs' > 0 /\ UNCHANGED <<tmpStage, held>> BY DEF TmpInv, C!TmpTypes, C!Swap, C!Spoil, C!Act
<1>3. \A d \in TmpDirs : d > dirsMade' => dirMode'[d] = "ours"
  BY DEF TmpInv, C!TmpTypes, C!D, TmpDirs, C!Swap, C!Spoil
<1>4. C!RepairsWhatWasLeft' BY <1>2 DEF TmpInv, C!TmpTypes, C!RepairsWhatWasLeft, C!D, C!Swap, C!Spoil
<1> QED BY <1>1, <1>2, <1>3, <1>4 DEF TmpInv, C!TmpTypes

LEMMA TmpKeeps == ASSUME TmpInv, C!TmpStep PROVE TmpInv'
BY TmpLooks, TmpPrepares, TmpDisturbed DEF C!TmpStep

LEMMA TmpStutter ==
    ASSUME TmpInv, UNCHANGED <<entry, dirMode, gitConfig, dirsMade, tmpStage, held, looks, agentActs, renamesFailed>>
    PROVE  TmpInv'
BY DEF TmpInv, C!TmpTypes, C!RepairsWhatWasLeft, C!D, Undisturbed

-----------------------------------------------------------------------------
(* The suite: each part has its invariant while it is chosen.              *)

SuiteInv ==
    /\ focus = "runs" => RunsInv
    /\ focus = "registry" => RegistryInv
    /\ focus = "config" => ConfigInv
    /\ focus = "settings" => SettingsInv
    /\ focus = "overlay" => OverlayInv
    /\ focus = "prompts" => PromptInv
    /\ focus = "walk" => WalkInv
    /\ focus = "data" => DataInv
    /\ focus = "ownership" => OwnInv
    /\ focus = "seeding" => SeedingInv
    /\ focus = "sweeping" => SweepingInv
    /\ focus = "mirror" => MirrorInv
    /\ focus = "plugins" => ReplayInv
    /\ focus = "trees" => TreesInv
    /\ focus = "files" => FilesInv
    /\ focus = "save" => SaveInv
    /\ focus = "confinement" => BoundInv
    /\ focus = "tmp" => TmpInv

Parts == {"runs", "registry", "config", "settings", "overlay", "prompts", "walk", "data",
           "ownership", "seeding", "sweeping", "mirror", "plugins", "trees",
           "files", "save", "confinement", "tmp"}

LEMMA SuiteStutter == ASSUME SuiteInv, UNCHANGED all PROVE SuiteInv'
<1>1. /\ UNCHANGED focus
      /\ UNCHANGED <<x1, x2, x3, x4, x5, x6, x7, x8, x9, x10, x11, x12, x13, x14, x15, x16, x17,
                     x18, x19, x20>>
  BY DEF all
<1>2. CASE focus = "runs" BY <1>1, <1>2, RunsStutter DEF SuiteInv
<1>3. CASE focus = "registry" BY <1>1, <1>3, RegistryStutter DEF SuiteInv
<1>4. CASE focus = "config" BY <1>1, <1>4, ConfigStutter DEF SuiteInv
<1>5. CASE focus = "settings" BY <1>1, <1>5, SettingsStutter DEF SuiteInv
<1>6. CASE focus = "overlay" BY <1>1, <1>6, OverlayStutter DEF SuiteInv
<1>7. CASE focus = "prompts" BY <1>1, <1>7, PromptsStutter DEF SuiteInv
<1>8. CASE focus = "walk" BY <1>1, <1>8, WalkStutter DEF SuiteInv
<1>9. CASE focus = "data" BY <1>1, <1>9, DataStutter DEF SuiteInv
<1>10. CASE focus = "ownership" BY <1>1, <1>10, OwnStutter DEF SuiteInv
<1>11. CASE focus = "seeding" BY <1>1, <1>11, SeedingStutter DEF SuiteInv
<1>12. CASE focus = "sweeping" BY <1>1, <1>12, SweepingStutter DEF SuiteInv
<1>13. CASE focus = "mirror" BY <1>1, <1>13, MirrorStutter DEF SuiteInv
<1>14. CASE focus = "plugins" BY <1>1, <1>14, ReplayStutter DEF SuiteInv
<1>15. CASE focus = "trees" BY <1>1, <1>15, TreesStutter DEF SuiteInv
<1>16. CASE focus = "files" BY <1>1, <1>16, FilesStutter DEF SuiteInv
<1>17. CASE focus = "save" BY <1>1, <1>17, SaveStutter DEF SuiteInv
<1>18. CASE focus = "confinement" BY <1>1, <1>18, BoundStutter DEF SuiteInv
<1>19. CASE focus = "tmp" BY <1>1, <1>19, TmpStutter DEF SuiteInv
<1>20. CASE focus \notin Parts BY <1>1, <1>20 DEF SuiteInv, Parts
<1> QED BY <1>2, <1>3, <1>4, <1>5, <1>6, <1>7, <1>8, <1>9, <1>10, <1>11, <1>12, <1>13, <1>14, <1>15, <1>16,
           <1>17, <1>18, <1>19, <1>20
  DEF Parts

\* What is on a uid, in the registry and in the stores is as each part's
\* invariant says, in every state (uid_isolation.py, isolation_broker.py,
\* runtime_config.py, claude_settings_env.py, mcp_plugin_overlay.py,
\* prompt_library.py).
THEOREM SharedStateInvariant == Spec => []SuiteInv
<1>1. Init => SuiteInv
  BY RunsInit, RegistryInit, ConfigInit, SettingsInit, OverlayInit, PromptsInit, WalkInit, DataInit,
     OwnInit, SeedingInit, SweepingInit, MirrorInit, ReplayInit, TreesInit,
     FilesInit, SaveInit, BoundInit, TmpInitially
  DEF Init, SuiteInv
<1>2. SuiteInv /\ [Next]_all => SuiteInv'
  <2> SUFFICES ASSUME SuiteInv, [Next]_all PROVE SuiteInv' OBVIOUS
  <2>1. CASE focus = "runs" /\ R!Next /\ Still(14) BY <2>1, RunsStep DEF SuiteInv, Still
  <2>2. CASE focus = "registry" /\ G!RegistryStep /\ Still(18)
    BY <2>2, RegistryStep DEF SuiteInv, Still, G!RegistryStep
  <2>3. CASE focus = "config" /\ N!Next /\ Still(7) BY <2>3, ConfigStep DEF SuiteInv, Still
  <2>4. CASE focus = "settings" /\ E!SettingsStep /\ Still(17)
    BY <2>4, SettingsStep DEF SuiteInv, Still, E!SettingsStep
  <2>5. CASE focus = "overlay" /\ E!OverlayStep /\ Still(17)
    BY <2>5, OverlayStep DEF SuiteInv, Still, E!OverlayStep
  <2>6. CASE focus = "prompts" /\ L!Next /\ Still(8) BY <2>6, PromptsStep DEF SuiteInv, Still
  <2>7. CASE focus = "walk" /\ W!Next /\ Still(11) BY <2>7, WalkStep DEF SuiteInv, Still
  <2>8. CASE focus = "data" /\ D!Next /\ Still(10) BY <2>8, DataStep DEF SuiteInv, Still
  <2>9. CASE focus = "ownership" /\ G!OwnershipStep /\ Still(18)
    BY <2>9, OwnStep DEF SuiteInv, Still, G!OwnershipStep
  <2>10. CASE focus = "seeding" /\ V!SeedingStep /\ Still(18)
    BY <2>10, SeedingKeeps DEF SuiteInv, Still, V!SeedingStep
  <2>11. CASE focus = "sweeping" /\ V!SweepingStep /\ Still(18)
    BY <2>11, SweepingKeeps DEF SuiteInv, Still, V!SweepingStep
  <2>12. CASE focus = "mirror" /\ V!MirrorStep /\ Still(18)
    BY <2>12, MirrorKeeps DEF SuiteInv, Still, V!MirrorStep
  <2>13. CASE focus = "plugins" /\ P!ReplayNext /\ Still(20)
    BY <2>13, ReplayKeeps DEF SuiteInv, Still, P!ReplayNext
  <2>14. CASE focus = "trees" /\ P!TreeNext /\ Still(20)
    BY <2>14, TreesStep DEF SuiteInv, Still, P!TreeNext
  <2>15. CASE focus = "files" /\ F!FilesStep /\ Still(18)
    BY <2>15, FilesKeep DEF SuiteInv, Still, F!FilesStep
  <2>16. CASE focus = "save" /\ F!SaveStep /\ Still(18)
    BY <2>16, SaveKeeps DEF SuiteInv, Still, F!SaveStep
  <2>17. CASE focus = "confinement" /\ C!ConfinementNext /\ Still(16)
    BY <2>17, BoundKeeps DEF SuiteInv, Still, C!ConfinementNext
  <2>18. CASE focus = "tmp" /\ C!TmpNext /\ Still(16)
    BY <2>18, TmpKeeps DEF SuiteInv, Still, C!TmpNext
  <2>19. CASE focus' = focus /\ focus \notin Parts BY <2>19 DEF SuiteInv, Parts
  <2>20. CASE UNCHANGED all BY <2>20, SuiteStutter
  <2> QED
    BY <2>1, <2>2, <2>3, <2>4, <2>5, <2>6, <2>7, <2>8, <2>9, <2>10, <2>11, <2>12, <2>13, <2>14, <2>15, <2>16,
       <2>17, <2>18, <2>19, <2>20
    DEF Next, Still, Parts
<1> QED BY <1>1, <1>2, PTL DEF Spec

\* A run's uid is its own: no two runs have a live process on one uid, no
\* cleanup works under a CLI, no uid is lost by the pool or handed out twice,
\* and a named user's uid and data are theirs whatever processes die.
THEOREM UidsStayApart == Spec => []UidsAreApart
<1>1. SuiteInv => UidsAreApart BY PoolCounts DEF SuiteInv, UidsAreApart, RunsInv, RegistryInv
<1> QED BY <1>1, SharedStateInvariant, PTL

\* No store loses another's change: a copy under the file's identity is the
\* file, the operator's keys stay, an overlay stays as it was given and reaches
\* its server, and the live prompt is the version it names.
THEOREM StoresStayTrue == Spec => []StoresKeepUpdates
<1>1. SuiteInv => StoresKeepUpdates
  BY OverlayReaches, PromptTypesImply
  DEF SuiteInv, StoresKeepUpdates, ConfigInv, SettingsInv, OverlayInv, PromptInv
<1> QED BY <1>1, SharedStateInvariant, PTL

\* A cleanup removes and clears only what is its own and says it is done only
\* when nothing it was to remove is left, and what a user is given from the
\* shared config directory is theirs alone (isolation_broker.py, user_leases.py).
THEOREM CleanupStaysTrue == Spec => []CleanupIsTrue
<1>1. SuiteInv => CleanupIsTrue
  BY DataImplies DEF SuiteInv, CleanupIsTrue, WalkInv, WalkTypes, InsideInv
<1> QED BY <1>1, SharedStateInvariant, PTL

\* Starter folders are made once, a sweep spares the live runs its instance
\* saw, a plugin tree is whole from its first publication on, and a grant that
\* nobody disturbs meets files of a single name (workspace_manager.py,
\* plugin_local_copy.py, workspace_resources.py).
THEOREM TreesStayWhole == Spec => []TreesAreWhole
<1>1. SuiteInv => TreesAreWhole
  BY TreesWhole, GrantMeets
  DEF SuiteInv, TreesAreWhole, SeedingInv, SweepingInv, MirrorInv, MirrorTyped, ReplayInv, ReplayShape
<1> QED BY <1>1, SharedStateInvariant, PTL

\* No step starts a session over whose transcript is there, takes a user's
\* file at a start of the container, removes a tree another instance reads,
\* skips a replay that is owed, changes a directory that is no mirror, or
\* rewrites the history of a prompt.
THEOREM NothingGoes == Spec => NothingIsTaken
<1> DEFINE Spares == /\ focus = "data" => D!StartsOverNothing
                     /\ focus = "ownership" => G!TakesNothing
                     /\ focus = "trees" => P!KeepsReadTrees
                     /\ focus = "plugins" => P!SkipsNothingOwed
                     /\ focus = "mirror" => V!ChangesMirrorsOnly
                     /\ focus = "prompts" => L!AppendsOnly
<1>1. SuiteInv /\ [Next]_all => [Spares]_all
  <2> SUFFICES ASSUME SuiteInv, Next PROVE Spares OBVIOUS
  <2>1. CASE focus = "data" BY <2>1, DataStartsOver DEF SuiteInv, Next
  <2>2. CASE focus = "ownership" BY <2>2, OwnTakesNothing DEF SuiteInv, Next, G!OwnershipStep
  <2>3. CASE focus = "trees" BY <2>3, TreesSpared DEF SuiteInv, Next, P!TreeNext
  <2>4. CASE focus = "plugins" BY <2>4, NothingOwed DEF SuiteInv, Next, P!ReplayNext
  <2>5. CASE focus = "mirror" BY <2>5, MirrorsOnly DEF SuiteInv, Next, V!MirrorStep
  <2>6. CASE focus = "prompts" BY <2>6, PromptsAppend DEF SuiteInv, Next
  <2>7. CASE focus \notin {"data", "ownership", "trees", "plugins", "mirror", "prompts"} BY <2>7
  <2> QED BY <2>1, <2>2, <2>3, <2>4, <2>5, <2>6, <2>7
<1> QED BY <1>1, SharedStateInvariant, PTL DEF Spec, NothingIsTaken

\* The file routes discard no version of a file unread, and no request follows
\* a link put in its way, nor a grant that no longer fits (terminal_files.py).
THEOREM FilesStayKept == Spec => []FilesAreKept
<1>1. SuiteInv => FilesAreKept BY DEF SuiteInv, FilesAreKept, FilesInv, SaveInv
<1> QED BY <1>1, SharedStateInvariant, PTL

\* Whatever was linked or left in their place, no rule of a confined CLI
\* reaches another's data, its tmp dir is had again, and no account is claimed
\* twice (landlock.py, _landlock_rules.py, entrypoint.py).
THEOREM BoundaryStays == Spec => []BoundaryIsKept
<1>1. SuiteInv => BoundaryIsKept BY DEF SuiteInv, BoundaryIsKept, BoundInv, TmpInv, OwnInv
<1> QED BY <1>1, SharedStateInvariant, PTL

=============================================================================

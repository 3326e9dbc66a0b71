------------------------ MODULE SessionManagerProofs ------------------------
(***************************************************************************)
(* Proofs about SessionManager for any ids, requests, number of Session    *)
(* objects, cap and eviction policy: what is in use is held, what is held  *)
(* has a party that releases it, a session handed over stays quiet, and a  *)
(* turn in progress keeps its session in the cache.                        *)
(*                                                                         *)
(* The invariant speaks of ids (what the cache says), of objects (what one *)
(* holds and who will release it) and of requests (whose lock they hold).  *)
(* The lock is what makes it work: between its preflight and its end a     *)
(* request is alone on its object, so nobody else ends its client start or *)
(* its turn; and a session that is taken out never comes back, because a   *)
(* rehydrated one is a new object.                                         *)
(*                                                                         *)
(* Every step lemma says first what the action leaves alone and what it    *)
(* changes, and then takes the parts of the invariant one by one.          *)
(***************************************************************************)
EXTENDS SessionManager, TLAPS, FiniteSetTheorems

\* A cached session is one that was made for its id, holds what it needs, is
\* not on its way out, and is not owned by another instance.
CacheOK(id) ==
    sessions[id] # None =>
       /\ sessions[id] \in 1..created /\ ident[sessions[id]] = id
       /\ sessions[id] \notin released /\ teardown[sessions[id]] = "none"
       /\ id \notin other
EnvOK(id) == sessions[id] \in client \cup starting => id \in env

\* An object has an id from the moment it is made; before, it has nothing.
MadeOK(o) == o \in 1..created => ident[o] \in Ids
UnmadeOK(o) ==
    o \notin 1..created =>
       /\ o \notin client /\ o \notin cli /\ o \notin starting /\ o \notin poisoned
       /\ o \notin released /\ ident[o] = None
       /\ turn[o] = "none" /\ teardown[o] = "none" /\ holder[o] = None
ClientOK(o) == o \in client => o \notin released /\ ident[o] \notin other /\ o \notin starting
HeldOK(o) ==
    o \in 1..created /\ o \notin released /\ teardown[o] = "none" /\ o \notin starting =>
       sessions[ident[o]] = o
StartOK(o) == o \in starting => turn[o] = "none"
QuietOK(o) == o \in poisoned => o \notin starting /\ turn[o] = "none" /\ holder[o] = None
CliOK(o) ==
    o \in cli => o \in client \/ o \in starting \/ \E q \in Requests : on[q] = o /\ pc[q] = "dropping"

\* A request has an object, and from its preflight to its end the object's lock.
OnOK(q) ==
    /\ pc[q] \notin {"idle", "done"} => want[q] \in Ids
    /\ pc[q] \notin {"idle", "reading", "done"} => on[q] \in 1..created
LockOK(q) == pc[q] \in {"locked", "starting", "stopping", "turn", "dropping"} => holder[on[q]] = q
StartsOK(q) ==
    /\ pc[q] \in {"starting", "stopping"} => on[q] \in starting
    /\ pc[q] = "stopping" => sessions[ident[on[q]]] # on[q]
    /\ pc[q] \in {"turn", "dropping"} => on[q] \notin starting

IdOK(id) == CacheOK(id) /\ EnvOK(id)
ObjectOK(o) ==
    /\ MadeOK(o) /\ UnmadeOK(o) /\ ClientOK(o) /\ HeldOK(o) /\ StartOK(o) /\ QuietOK(o) /\ CliOK(o)
RequestOK(q) == OnOK(q) /\ LockOK(q) /\ StartsOK(q)
IInv ==
    /\ TypeOK /\ WithinLimit
    /\ \A id \in Ids : IdOK(id)
    /\ \A o \in Objects : ObjectOK(o)
    /\ \A q \in Requests : RequestOK(q)

-----------------------------------------------------------------------------
(* The cache and its bound. *)

\* A cache holds finitely many objects.
LEMMA LiveIsFinite ==
    ASSUME NEW c \in [Ids -> Objects \cup {None}]
    PROVE  Live(c) \subseteq Objects /\ IsFiniteSet(Live(c)) /\ Cardinality(Live(c)) \in Nat
<1>1. Live(c) \in SUBSET Objects
  BY DEF Live
<1>2. IsFiniteSet(Objects)
  BY SessionAssumption, FS_Interval DEF Objects
<1>3. QED
  BY <1>1, <1>2, FS_Subset, FS_CardinalityType

\* A step that only takes sessions out keeps the cache within its bound.
LEMMA LiveShrinks ==
    ASSUME IInv, TypeOK', \A i \in Ids : sessions'[i] \in {None, sessions[i]}
    PROVE  WithinLimit'
<1>1. sessions \in [Ids -> Objects \cup {None}] /\ sessions' \in [Ids -> Objects \cup {None}]
  BY DEF IInv, TypeOK
<1>2. Live(sessions') \in SUBSET Live(sessions)
  BY DEF Live
<1>3. Cardinality(Live(sessions')) <= Cardinality(Live(sessions))
  BY <1>1, <1>2, LiveIsFinite, FS_Subset
<1>4. Cardinality(Live(sessions)) \in Nat /\ Cardinality(Live(sessions')) \in Nat
  BY <1>1, LiveIsFinite
<1>5. QED
  BY <1>3, <1>4, SessionAssumption DEF IInv, WithinLimit

\* None is neither an object nor a request nor an id.
LEMMA NoneIsNothing == None \notin Objects /\ None \notin Requests /\ None \notin Ids
  BY SessionAssumption DEF Objects

LEMMA MadeAreObjects == ASSUME TypeOK PROVE 1..created \subseteq Objects
  BY SessionAssumption DEF TypeOK, Objects

\* From its preflight on a request has an object, and its lock: it is alone on it.
HasLock(q) == pc[q] \in {"locked", "starting", "stopping", "turn", "dropping"}

LEMMA OwnObject ==
    ASSUME IInv, NEW q \in Requests, HasLock(q)
    PROVE  on[q] \in 1..created /\ on[q] \in Objects /\ holder[on[q]] = q /\ q # None
  BY SessionAssumption DEF IInv, HasLock, RequestOK, OnOK, LockOK, TypeOK, Objects

LEMMA Alone ==
    ASSUME IInv, NEW q \in Requests, HasLock(q), NEW r \in Requests \ {q}, HasLock(r)
    PROVE  on[r] # on[q] /\ on[r] \in Objects
  BY OwnObject

\* An object is cached when the cache has it under its own id.
LEMMA CachedById ==
    ASSUME IInv, NEW o \in Objects
    PROVE  Cached(o) <=> o \in 1..created /\ sessions[ident[o]] = o
<1>1. o # None
  BY SessionAssumption DEF Objects
<1>2. ASSUME Cached(o) PROVE o \in 1..created /\ sessions[ident[o]] = o
  <2>1. PICK i \in Ids : sessions[i] = o
    BY <1>2 DEF Cached, Live
  <2>2. CacheOK(i)
    BY DEF IInv, IdOK
  <2>3. QED
    BY <1>1, <2>1, <2>2 DEF CacheOK
<1>3. ASSUME o \in 1..created, sessions[ident[o]] = o PROVE Cached(o)
  <2>1. ident[o] \in Ids
    BY <1>3 DEF IInv, ObjectOK, MadeOK
  <2>2. QED
    BY <1>1, <1>3, <2>1 DEF Cached, Live
<1>4. QED
  BY <1>2, <1>3

-----------------------------------------------------------------------------
(* What leaves the cache. *)

Stages == {"none", "evict", "sweep", "cleanup", "delete", "handoff", "drain", "lost"}
Deferrals == {None, "kept", "finished"}

\* The objects R leave the cache, which is c afterwards.  Each has a teardown,
\* gave up what it held, or is still starting; who has a client gave up
\* nothing; and the session-env dirs of the cached ids stay.
Removal(R, c) ==
    /\ R \subseteq Objects /\ \A o \in R : o \in 1..created /\ sessions[ident[o]] = o
    /\ c = [i \in Ids |-> IF sessions[i] \in R THEN None ELSE sessions[i]]
    /\ teardown' \in [Objects -> Stages] /\ \A o \in Objects \ R : teardown'[o] = teardown[o]
    /\ deferred' \in [Objects -> Deferrals]
    /\ released \subseteq released'
    /\ \A o \in released' \ released : o \in R /\ o \notin client /\ o \notin starting
    /\ \A o \in R : teardown'[o] # "none" \/ o \in released' \/ o \in starting
    /\ env' \subseteq env /\ \A i \in env : c[i] # None => i \in env'

\* _release_session_dirs gives up what the objects that are not starting hold,
\* and pulls no session-env dir of an id that has another object in the cache.
LEMMA DropDirsEffect ==
    ASSUME NEW S, NEW finished, NEW c, DropDirs(S, finished, c)
    PROVE  /\ released' = released \cup S /\ env' \subseteq env
           /\ \A i \in env : c[i] # None /\ c[i] \notin S => i \in env'
  BY DEF DropDirs, EnvDropped

LEMMA ReleaseDirsEffect ==
    ASSUME TypeOK, NEW S, NEW finished, NEW c, ReleaseDirs(S, finished, c)
    PROVE  /\ released' = released \cup (S \ starting) /\ env' \subseteq env
           /\ \A i \in env : c[i] # None /\ c[i] \notin S => i \in env'
           /\ deferred' \in [Objects -> Deferrals]
<1>1. DropDirs(S \ starting, finished, c)
  BY DEF ReleaseDirs
<1>2. deferred' \in [Objects -> Deferrals]
  BY DEF ReleaseDirs, TypeOK, Deferrals
<1>3. QED
  BY <1>1, <1>2, DropDirsEffect

\* _cached_session_locked and _teardown_evicted: what TakeOut does is a removal.
LEMMA TakeOutIsRemoval ==
    ASSUME IInv, NEW R \in SUBSET Objects, \A o \in R : Cached(o),
           NEW c, c = Drop(sessions, R), TakeOut(R, c)
    PROVE  Removal(R, c)
<1>1. \A o \in R : o \in 1..created /\ sessions[ident[o]] = o
  BY CachedById
<1>2. c = [i \in Ids |-> IF sessions[i] \in R THEN None ELSE sessions[i]]
  BY DEF Drop
<1>3. /\ released' = released \cup ((R \ client) \ starting) /\ env' \subseteq env
      /\ \A i \in env : c[i] # None /\ c[i] \notin R \ client => i \in env'
      /\ deferred' \in [Objects -> Deferrals]
  BY ReleaseDirsEffect DEF TakeOut, IInv
<1>4. \A i \in env : c[i] # None => c[i] \notin R
  BY <1>2, SessionAssumption DEF IInv, TypeOK, Objects
<1>5. /\ teardown' \in [Objects -> Stages] /\ \A o \in Objects \ R : teardown'[o] = teardown[o]
      /\ \A o \in R : o \in client => teardown'[o] = "evict"
  BY DEF TakeOut, IInv, TypeOK, Stages
<1>6. QED
  BY <1>1, <1>2, <1>3, <1>4, <1>5 DEF Removal

\* delete_session_async.
LEMMA DeleteIsRemoval ==
    ASSUME IInv, NEW id \in Ids, NEW finished \in BOOLEAN, DeleteNow(id, finished)
    PROVE  Removal({sessions[id]}, sessions') /\ sessions[id] # None
<1> DEFINE o == sessions[id]
<1>1. o # None /\ o \in Objects /\ o \in 1..created /\ ident[o] = id /\ sessions \in [Ids -> Objects \cup {None}]
  BY SessionAssumption DEF DeleteNow, IInv, TypeOK, IdOK, CacheOK
<1>2. sessions' = [i \in Ids |-> IF sessions[i] \in {o} THEN None ELSE sessions[i]]
  <2>1. \A i \in Ids : sessions[i] = o => i = id
    BY <1>1 DEF IInv, IdOK, CacheOK
  <2>2. sessions' = [sessions EXCEPT ![id] = None]
    BY DEF DeleteNow
  <2>3. QED
    BY <1>1, <2>1, <2>2
<1>3. \A i \in env : sessions'[i] # None => sessions'[i] \notin {o}
  BY <1>2 DEF IInv, TypeOK
<1>4. CASE o \in client
  <2>1. teardown' = [teardown EXCEPT ![o] = "delete"] /\ UNCHANGED <<released, env, deferred>>
    BY <1>4 DEF DeleteNow
  <2>2. QED
    BY <1>1, <1>2, <2>1 DEF Removal, IInv, TypeOK, Stages, Deferrals
<1>5. CASE o \notin client
  <2>1. ReleaseDirs({o}, finished, sessions') /\ UNCHANGED teardown
    BY <1>5 DEF DeleteNow
  <2>2. /\ released' = released \cup ({o} \ starting) /\ env' \subseteq env
        /\ \A i \in env : sessions'[i] # None /\ sessions'[i] \notin {o} => i \in env'
        /\ deferred' \in [Objects -> Deferrals]
    BY <2>1, ReleaseDirsEffect DEF IInv
  <2>3. QED
    BY <1>1, <1>2, <1>3, <1>5, <2>1, <2>2 DEF Removal, IInv, TypeOK, Stages
<1>6. QED
  BY <1>1, <1>4, <1>5

-----------------------------------------------------------------------------
(* A request runs its turn. *)

LEMMA PreflightStep ==
    ASSUME IInv, NEW q \in Requests, Preflight(q) PROVE IInv'
<1>1. /\ TypeOK /\ (\A id \in Ids : CacheOK(id) /\ EnvOK(id))
      /\ (\A o \in Objects : ObjectOK(o)) /\ (\A r \in Requests : RequestOK(r))
      /\ 1..created \subseteq Objects
  BY MadeAreObjects DEF IInv, IdOK
<1>2. on[q] \in 1..created /\ on[q] \in Objects /\ holder[on[q]] = None /\ pc[q] = "has"
  BY <1>1, SessionAssumption DEF Preflight, RequestOK, OnOK, TypeOK, Objects
<1>3. UNCHANGED <<sessions, created, ident, client, cli, starting, deferred, turn, poisoned,
                expired, released, env, other, teardown, draining, sweepDue, phase, on, want, fresh>>
  BY DEF Preflight, ManagerUnchanged, objectVars
<1>4. \/ /\ pc' = [pc EXCEPT ![q] = "locked"] /\ on[q] \notin poisoned
         /\ holder' = [holder EXCEPT ![on[q]] = q]
      \/ pc' = [pc EXCEPT ![q] = "done"] /\ holder' = holder
  BY DEF Preflight, Finish
<1>5. TypeOK'
  <2>1. pc' \in [Requests -> {"idle", "reading", "has", "locked", "starting", "stopping", "turn",
                              "dropping", "done"}]
    BY <1>1, <1>2, <1>3, <1>4 DEF TypeOK
  <2>2. holder' \in [Objects -> Requests \cup {None}]
    BY <1>1, <1>2, <1>3, <1>4 DEF TypeOK
  <2>3. QED
    BY <1>1, <1>2, <1>3, <1>4, <2>1, <2>2 DEF TypeOK
<1>6. ASSUME NEW id \in Ids PROVE IdOK(id)'
  <2>1. CacheOK(id)'
    BY <1>1, <1>2, <1>3, <1>4 DEF CacheOK
  <2>2. EnvOK(id)'
    BY <1>1, <1>2, <1>3, <1>4 DEF EnvOK
  <2>3. QED
    BY <2>1, <2>2 DEF IdOK
<1>7. ASSUME NEW o \in Objects PROVE ObjectOK(o)'
  <2>1. MadeOK(o)'
    BY <1>1, <1>2, <1>3, <1>4 DEF MadeOK, ObjectOK
  <2>2. UnmadeOK(o)'
    BY <1>1, <1>2, <1>3, <1>4, NoneIsNothing DEF UnmadeOK, ObjectOK, TypeOK
  <2>3. ClientOK(o)'
    BY <1>1, <1>2, <1>3, <1>4 DEF ClientOK, ObjectOK
  <2>4. HeldOK(o)'
    BY <1>1, <1>2, <1>3, <1>4 DEF HeldOK, ObjectOK
  <2>5. StartOK(o)'
    BY <1>1, <1>2, <1>3, <1>4 DEF StartOK, ObjectOK
  <2>6. QuietOK(o)'
    BY <1>1, <1>2, <1>3, <1>4, NoneIsNothing DEF QuietOK, ObjectOK, TypeOK
  <2>7. CliOK(o)'
    BY <1>1, <1>2, <1>3, <1>4, NoneIsNothing DEF CliOK, ObjectOK, UnmadeOK, RequestOK, LockOK,
       StartsOK, OnOK, TypeOK
  <2>8. QED
    BY <2>1, <2>2, <2>3, <2>4, <2>5, <2>6, <2>7 DEF ObjectOK
<1>8. ASSUME NEW r \in Requests PROVE RequestOK(r)'
  <2>1. OnOK(r)'
    BY <1>1, <1>2, <1>3, <1>4, NoneIsNothing DEF OnOK, RequestOK, CacheOK, HasLock, TypeOK
  <2>2. LockOK(r)'
    <3>1. CASE r = q
      BY <1>1, <1>2, <1>3, <1>4, <3>1 DEF LockOK, RequestOK, TypeOK
    <3>2. CASE r # q
      <4>1. SUFFICES ASSUME pc[r] \in {"locked", "starting", "stopping", "turn", "dropping"}
                     PROVE  holder'[on[r]] = r
        BY <1>1, <1>3, <1>4, <3>2 DEF LockOK, TypeOK
      <4>2. holder[on[r]] = r /\ on[r] \in Objects /\ r # None
        BY <4>1, OwnObject DEF HasLock
      <4>3. QED
        BY <1>1, <1>2, <1>4, <4>2 DEF TypeOK
    <3>3. QED
      BY <3>1, <3>2
  <2>3. StartsOK(r)'
    BY <1>1, <1>2, <1>3, <1>4, NoneIsNothing DEF StartsOK, RequestOK, OnOK, LockOK, ObjectOK,
       ClientOK, UnmadeOK, MadeOK, CacheOK, HasLock, TypeOK
  <2>4. QED
    BY <2>1, <2>2, <2>3 DEF RequestOK
<1>9. WithinLimit'
  BY <1>1, <1>2, <1>3, <1>4 DEF IInv, WithinLimit
<1>10. QED
  BY <1>5, <1>6, <1>7, <1>8, <1>9 DEF IInv

LEMMA BeginClientStartStep ==
    ASSUME IInv, NEW q \in Requests, BeginClientStart(q) PROVE IInv'
<1>1. /\ TypeOK /\ (\A id \in Ids : CacheOK(id) /\ EnvOK(id))
      /\ (\A o \in Objects : ObjectOK(o)) /\ (\A r \in Requests : RequestOK(r))
      /\ 1..created \subseteq Objects
  BY MadeAreObjects DEF IInv, IdOK
<1>2. /\ on[q] \in 1..created /\ on[q] \in Objects /\ holder[on[q]] = q /\ pc[q] = "locked"
      /\ \A r \in Requests \ {q} : HasLock(r) => on[r] # on[q] /\ on[r] \in Objects
  BY OwnObject, Alone DEF BeginClientStart, HasLock
<1>3. UNCHANGED <<sessions, created, ident, client, deferred, poisoned, expired, released,
                other, teardown, draining, sweepDue, phase, on, want, fresh, holder>>
  BY DEF BeginClientStart, ManagerUnchanged
<1>4. /\ starting' = starting \cup {on[q]} /\ cli' = cli \cup {on[q]} /\ on[q] \notin client
      /\ env' = env \cup {ident[on[q]]} /\ turn' = [turn EXCEPT ![on[q]] = "none"]
      /\ pc' = [pc EXCEPT ![q] = "starting"]
  BY DEF BeginClientStart
<1>5. ident[on[q]] \in Ids
  BY <1>1, <1>2 DEF ObjectOK, MadeOK
<1>6. TypeOK'
  BY <1>1, <1>2, <1>3, <1>4, <1>5, NoneIsNothing DEF TypeOK
<1>7. ASSUME NEW id \in Ids PROVE IdOK(id)'
  <2>1. CacheOK(id)'
    BY <1>1, <1>2, <1>3, <1>4, <1>5 DEF CacheOK
  <2>2. EnvOK(id)'
    BY <1>1, <1>2, <1>3, <1>4, <1>5, NoneIsNothing DEF EnvOK, CacheOK, TypeOK
  <2>3. QED
    BY <2>1, <2>2 DEF IdOK
<1>8. ASSUME NEW o \in Objects PROVE ObjectOK(o)'
  <2>1. MadeOK(o)'
    BY <1>1, <1>2, <1>3, <1>4, <1>5 DEF MadeOK, ObjectOK
  <2>2. UnmadeOK(o)'
    BY <1>1, <1>2, <1>3, <1>4, <1>5, NoneIsNothing DEF UnmadeOK, ObjectOK, TypeOK
  <2>3. ClientOK(o)'
    BY <1>1, <1>2, <1>3, <1>4, <1>5, NoneIsNothing DEF ClientOK, ObjectOK, UnmadeOK, MadeOK,
       RequestOK, StartsOK, CacheOK, TypeOK
  <2>4. HeldOK(o)'
    BY <1>1, <1>2, <1>3, <1>4, <1>5, NoneIsNothing DEF HeldOK, ObjectOK, UnmadeOK, MadeOK,
       CacheOK, RequestOK, StartsOK, TypeOK
  <2>5. StartOK(o)'
    BY <1>1, <1>2, <1>3, <1>4, <1>5, NoneIsNothing DEF StartOK, ObjectOK, TypeOK
  <2>6. QuietOK(o)'
    BY <1>1, <1>2, <1>3, <1>4, <1>5, NoneIsNothing DEF QuietOK, ObjectOK, TypeOK
  <2>7. CliOK(o)'
    BY <1>1, <1>2, <1>3, <1>4, <1>5, NoneIsNothing DEF CliOK, ObjectOK, UnmadeOK, RequestOK,
       LockOK, StartsOK, OnOK, TypeOK
  <2>8. QED
    BY <2>1, <2>2, <2>3, <2>4, <2>5, <2>6, <2>7 DEF ObjectOK
<1>9. ASSUME NEW r \in Requests PROVE RequestOK(r)'
  <2>1. OnOK(r)'
    BY <1>1, <1>2, <1>3, <1>4, <1>5, NoneIsNothing DEF OnOK, RequestOK, CacheOK, HasLock, TypeOK
  <2>2. LockOK(r)'
    BY <1>1, <1>2, <1>3, <1>4, <1>5, NoneIsNothing DEF LockOK, RequestOK, HasLock, TypeOK
  <2>3. StartsOK(r)'
    BY <1>1, <1>2, <1>3, <1>4, <1>5, NoneIsNothing DEF StartsOK, RequestOK, OnOK, LockOK,
       ObjectOK, ClientOK, UnmadeOK, MadeOK, CacheOK, HasLock, TypeOK
  <2>4. QED
    BY <2>1, <2>2, <2>3 DEF RequestOK
<1>10. WithinLimit'
  BY <1>1, <1>2, <1>3, <1>4, <1>5 DEF IInv, WithinLimit
<1>11. QED
  BY <1>6, <1>7, <1>8, <1>9, <1>10 DEF IInv

LEMMA ClientUpStep ==
    ASSUME IInv, NEW q \in Requests, ClientUp(q) PROVE IInv'
<1>1. /\ TypeOK /\ (\A id \in Ids : CacheOK(id) /\ EnvOK(id))
      /\ (\A o \in Objects : ObjectOK(o)) /\ (\A r \in Requests : RequestOK(r))
      /\ 1..created \subseteq Objects
  BY MadeAreObjects DEF IInv, IdOK
<1>2. /\ on[q] \in 1..created /\ on[q] \in Objects /\ holder[on[q]] = q /\ pc[q] = "starting"
      /\ \A r \in Requests \ {q} : HasLock(r) => on[r] # on[q] /\ on[r] \in Objects
  BY OwnObject, Alone DEF ClientUp, HasLock
<1>3. UNCHANGED <<sessions, created, ident, cli, turn, poisoned, expired, released, env, other,
                teardown, draining, sweepDue, phase, on, want, fresh, holder>>
  BY DEF ClientUp, ManagerUnchanged
<1>4. \/ /\ Cached(on[q]) /\ client' = client \cup {on[q]} /\ starting' = starting \ {on[q]}
         /\ deferred' = [deferred EXCEPT ![on[q]] = None] /\ pc' = [pc EXCEPT ![q] = "locked"]
      \/ /\ ~Cached(on[q]) /\ pc' = [pc EXCEPT ![q] = "stopping"]
         /\ UNCHANGED <<client, starting, deferred>>
  BY DEF ClientUp
<1>5. Cached(on[q]) <=> sessions[ident[on[q]]] = on[q]
  BY <1>2, CachedById
<1>6. on[q] \in starting
  BY <1>1, <1>2 DEF RequestOK, StartsOK
<1>7. TypeOK'
  BY <1>1, <1>2, <1>3, <1>4, <1>5, <1>6, NoneIsNothing DEF TypeOK
<1>8. ASSUME NEW id \in Ids PROVE IdOK(id)'
  <2>1. CacheOK(id)'
    BY <1>1, <1>2, <1>3, <1>4, <1>5, <1>6 DEF CacheOK
  <2>2. EnvOK(id)'
    BY <1>1, <1>2, <1>3, <1>4, <1>5, <1>6, NoneIsNothing DEF EnvOK, CacheOK, TypeOK
  <2>3. QED
    BY <2>1, <2>2 DEF IdOK
<1>9. ASSUME NEW o \in Objects PROVE ObjectOK(o)'
  <2>1. MadeOK(o)'
    BY <1>1, <1>2, <1>3, <1>4, <1>5, <1>6 DEF MadeOK, ObjectOK
  <2>2. UnmadeOK(o)'
    BY <1>1, <1>2, <1>3, <1>4, <1>5, <1>6, NoneIsNothing DEF UnmadeOK, ObjectOK
  <2>3. ClientOK(o)'
    BY <1>1, <1>2, <1>3, <1>4, <1>5, <1>6, NoneIsNothing DEF ClientOK, ObjectOK, UnmadeOK, MadeOK,
       RequestOK, StartsOK, CacheOK, TypeOK
  <2>4. HeldOK(o)'
    BY <1>1, <1>2, <1>3, <1>4, <1>5, <1>6, NoneIsNothing DEF HeldOK, ObjectOK, UnmadeOK, MadeOK,
       CacheOK, RequestOK, StartsOK, TypeOK
  <2>5. StartOK(o)'
    BY <1>1, <1>2, <1>3, <1>4, <1>5, <1>6, NoneIsNothing DEF StartOK, ObjectOK
  <2>6. QuietOK(o)'
    BY <1>1, <1>2, <1>3, <1>4, <1>5, <1>6, NoneIsNothing DEF QuietOK, ObjectOK, TypeOK
  <2>7. CliOK(o)'
    BY <1>1, <1>2, <1>3, <1>4, <1>5, <1>6, NoneIsNothing DEF CliOK, ObjectOK, TypeOK
  <2>8. QED
    BY <2>1, <2>2, <2>3, <2>4, <2>5, <2>6, <2>7 DEF ObjectOK
<1>10. ASSUME NEW r \in Requests PROVE RequestOK(r)'
  <2>1. OnOK(r)'
    BY <1>1, <1>2, <1>3, <1>4, <1>5, <1>6, NoneIsNothing DEF OnOK, RequestOK, CacheOK, HasLock,
       TypeOK
  <2>2. LockOK(r)'
    BY <1>1, <1>2, <1>3, <1>4, <1>5, <1>6, NoneIsNothing DEF LockOK, RequestOK, HasLock, TypeOK
  <2>3. StartsOK(r)'
    BY <1>1, <1>2, <1>3, <1>4, <1>5, <1>6, NoneIsNothing DEF StartsOK, RequestOK, OnOK, LockOK,
       ObjectOK, ClientOK, UnmadeOK, MadeOK, CacheOK, HasLock, TypeOK
  <2>4. QED
    BY <2>1, <2>2, <2>3 DEF RequestOK
<1>11. WithinLimit'
  BY <1>1, <1>2, <1>3, <1>4, <1>5, <1>6 DEF IInv, WithinLimit
<1>12. QED
  BY <1>7, <1>8, <1>9, <1>10, <1>11 DEF IInv

LEMMA BeginTurnStep ==
    ASSUME IInv, NEW q \in Requests, BeginTurn(q) PROVE IInv'
<1>1. /\ TypeOK /\ (\A id \in Ids : CacheOK(id) /\ EnvOK(id))
      /\ (\A o \in Objects : ObjectOK(o)) /\ (\A r \in Requests : RequestOK(r))
      /\ 1..created \subseteq Objects
  BY MadeAreObjects DEF IInv, IdOK
<1>2. /\ on[q] \in 1..created /\ on[q] \in Objects /\ holder[on[q]] = q /\ pc[q] = "locked" /\ on[q] \in client
      /\ \A r \in Requests \ {q} : HasLock(r) => on[r] # on[q] /\ on[r] \in Objects
  BY OwnObject, Alone DEF BeginTurn, HasLock
<1>3. UNCHANGED <<sessions, created, ident, client, cli, starting, deferred, poisoned, expired,
                released, env, other, teardown, draining, sweepDue, phase, on, want, fresh, holder>>
  BY DEF BeginTurn, ManagerUnchanged
<1>4. turn' = [turn EXCEPT ![on[q]] = "active"] /\ pc' = [pc EXCEPT ![q] = "turn"]
  BY DEF BeginTurn
<1>5. TypeOK'
  BY <1>1, <1>2, <1>3, <1>4, NoneIsNothing DEF TypeOK
<1>6. ASSUME NEW id \in Ids PROVE IdOK(id)'
  <2>1. CacheOK(id)'
    BY <1>1, <1>2, <1>3, <1>4 DEF CacheOK
  <2>2. EnvOK(id)'
    BY <1>1, <1>2, <1>3, <1>4 DEF EnvOK
  <2>3. QED
    BY <2>1, <2>2 DEF IdOK
<1>7. ASSUME NEW o \in Objects PROVE ObjectOK(o)'
  <2>1. MadeOK(o)'
    BY <1>1, <1>2, <1>3, <1>4 DEF MadeOK, ObjectOK
  <2>2. UnmadeOK(o)'
    BY <1>1, <1>2, <1>3, <1>4, NoneIsNothing DEF UnmadeOK, ObjectOK, TypeOK
  <2>3. ClientOK(o)'
    BY <1>1, <1>2, <1>3, <1>4 DEF ClientOK, ObjectOK
  <2>4. HeldOK(o)'
    BY <1>1, <1>2, <1>3, <1>4 DEF HeldOK, ObjectOK
  <2>5. StartOK(o)'
    BY <1>1, <1>2, <1>3, <1>4, NoneIsNothing DEF StartOK, ObjectOK, UnmadeOK, ClientOK, RequestOK,
       StartsOK, TypeOK
  <2>6. QuietOK(o)'
    BY <1>1, <1>2, <1>3, <1>4, NoneIsNothing DEF QuietOK, ObjectOK, TypeOK
  <2>7. CliOK(o)'
    BY <1>1, <1>2, <1>3, <1>4, NoneIsNothing DEF CliOK, ObjectOK, UnmadeOK, RequestOK, LockOK,
       StartsOK, OnOK, TypeOK
  <2>8. QED
    BY <2>1, <2>2, <2>3, <2>4, <2>5, <2>6, <2>7 DEF ObjectOK
<1>8. ASSUME NEW r \in Requests PROVE RequestOK(r)'
  <2>1. OnOK(r)'
    BY <1>1, <1>2, <1>3, <1>4, NoneIsNothing DEF OnOK, RequestOK, CacheOK, HasLock, TypeOK
  <2>2. LockOK(r)'
    BY <1>1, <1>2, <1>3, <1>4, NoneIsNothing DEF LockOK, RequestOK, HasLock, TypeOK
  <2>3. StartsOK(r)'
    BY <1>1, <1>2, <1>3, <1>4, NoneIsNothing DEF StartsOK, RequestOK, OnOK, LockOK, ObjectOK,
       ClientOK, UnmadeOK, MadeOK, CacheOK, HasLock, TypeOK
  <2>4. QED
    BY <2>1, <2>2, <2>3 DEF RequestOK
<1>9. WithinLimit'
  BY <1>1, <1>2, <1>3, <1>4 DEF IInv, WithinLimit
<1>10. QED
  BY <1>5, <1>6, <1>7, <1>8, <1>9 DEF IInv

LEMMA DropClientStep ==
    ASSUME IInv, NEW q \in Requests, DropClient(q) PROVE IInv'
<1>1. /\ TypeOK /\ (\A id \in Ids : CacheOK(id) /\ EnvOK(id))
      /\ (\A o \in Objects : ObjectOK(o)) /\ (\A r \in Requests : RequestOK(r))
      /\ 1..created \subseteq Objects
  BY MadeAreObjects DEF IInv, IdOK
<1>2. /\ on[q] \in 1..created /\ on[q] \in Objects /\ holder[on[q]] = q /\ pc[q] = "turn"
      /\ \A r \in Requests \ {q} : HasLock(r) => on[r] # on[q] /\ on[r] \in Objects
  BY OwnObject, Alone DEF DropClient, HasLock
<1>3. UNCHANGED <<sessions, created, ident, cli, starting, deferred, turn, poisoned, expired,
                released, env, other, teardown, draining, sweepDue, phase, on, want, fresh, holder>>
  BY DEF DropClient, ManagerUnchanged
<1>4. client' = client \ {on[q]} /\ pc' = [pc EXCEPT ![q] = "dropping"]
  BY DEF DropClient
<1>5. TypeOK'
  BY <1>1, <1>2, <1>3, <1>4, NoneIsNothing DEF TypeOK
<1>6. ASSUME NEW id \in Ids PROVE IdOK(id)'
  <2>1. CacheOK(id)'
    BY <1>1, <1>2, <1>3, <1>4 DEF CacheOK
  <2>2. EnvOK(id)'
    BY <1>1, <1>2, <1>3, <1>4, NoneIsNothing DEF EnvOK, CacheOK, TypeOK
  <2>3. QED
    BY <2>1, <2>2 DEF IdOK
<1>7. ASSUME NEW o \in Objects PROVE ObjectOK(o)'
  <2>1. MadeOK(o)'
    BY <1>1, <1>2, <1>3, <1>4 DEF MadeOK, ObjectOK
  <2>2. UnmadeOK(o)'
    BY <1>1, <1>2, <1>3, <1>4, NoneIsNothing DEF UnmadeOK, ObjectOK, TypeOK
  <2>3. ClientOK(o)'
    BY <1>1, <1>2, <1>3, <1>4, NoneIsNothing DEF ClientOK, ObjectOK, UnmadeOK, MadeOK, RequestOK,
       StartsOK, CacheOK, TypeOK
  <2>4. HeldOK(o)'
    BY <1>1, <1>2, <1>3, <1>4 DEF HeldOK, ObjectOK
  <2>5. StartOK(o)'
    BY <1>1, <1>2, <1>3, <1>4 DEF StartOK, ObjectOK
  <2>6. QuietOK(o)'
    BY <1>1, <1>2, <1>3, <1>4 DEF QuietOK, ObjectOK
  <2>7. CliOK(o)'
    BY <1>1, <1>2, <1>3, <1>4, NoneIsNothing DEF CliOK, ObjectOK, UnmadeOK, RequestOK, LockOK,
       StartsOK, OnOK, TypeOK
  <2>8. QED
    BY <2>1, <2>2, <2>3, <2>4, <2>5, <2>6, <2>7 DEF ObjectOK
<1>8. ASSUME NEW r \in Requests PROVE RequestOK(r)'
  <2>1. OnOK(r)'
    BY <1>1, <1>2, <1>3, <1>4, NoneIsNothing DEF OnOK, RequestOK, CacheOK, HasLock, TypeOK
  <2>2. LockOK(r)'
    BY <1>1, <1>2, <1>3, <1>4, NoneIsNothing DEF LockOK, RequestOK, HasLock, TypeOK
  <2>3. StartsOK(r)'
    BY <1>1, <1>2, <1>3, <1>4, NoneIsNothing DEF StartsOK, RequestOK, OnOK, LockOK, ObjectOK,
       ClientOK, UnmadeOK, MadeOK, CacheOK, HasLock, TypeOK
  <2>4. QED
    BY <2>1, <2>2, <2>3 DEF RequestOK
<1>9. WithinLimit'
  BY <1>1, <1>2, <1>3, <1>4 DEF IInv, WithinLimit
<1>10. QED
  BY <1>5, <1>6, <1>7, <1>8, <1>9 DEF IInv

LEMMA EndTurnStep ==
    ASSUME IInv, NEW q \in Requests, EndTurn(q) PROVE IInv'
<1>1. /\ TypeOK /\ (\A id \in Ids : CacheOK(id) /\ EnvOK(id))
      /\ (\A o \in Objects : ObjectOK(o)) /\ (\A r \in Requests : RequestOK(r))
      /\ 1..created \subseteq Objects
  BY MadeAreObjects DEF IInv, IdOK
<1>2. /\ on[q] \in 1..created /\ on[q] \in Objects /\ holder[on[q]] = q
      /\ \A r \in Requests \ {q} : HasLock(r) => on[r] # on[q] /\ on[r] \in Objects
  BY OwnObject, Alone DEF EndTurn, HasLock
<1>3. UNCHANGED <<sessions, created, ident, client, starting, deferred, poisoned, released,
                env, other, teardown, draining, sweepDue, phase, on, want, fresh>>
  BY DEF EndTurn, ManagerUnchanged
<1>4. /\ expired' = expired \ {on[q]} /\ holder' = [holder EXCEPT ![on[q]] = None]
      /\ pc' = [pc EXCEPT ![q] = "done"]
  BY DEF EndTurn, Unlock, Finish
<1>5. PICK t \in {"none", "card"} : turn' = [turn EXCEPT ![on[q]] = t]
  BY DEF EndTurn
<1>6. (pc[q] = "turn" /\ cli' = cli) \/ (pc[q] = "dropping" /\ cli' = cli \ {on[q]})
  BY DEF EndTurn
<1>7. TypeOK'
  BY <1>1, <1>2, <1>3, <1>4, <1>5, <1>6, NoneIsNothing DEF TypeOK
<1>8. ASSUME NEW id \in Ids PROVE IdOK(id)'
  <2>1. CacheOK(id)'
    BY <1>1, <1>2, <1>3, <1>4, <1>5, <1>6 DEF CacheOK
  <2>2. EnvOK(id)'
    BY <1>1, <1>2, <1>3, <1>4, <1>5, <1>6 DEF EnvOK
  <2>3. QED
    BY <2>1, <2>2 DEF IdOK
<1>9. ASSUME NEW o \in Objects PROVE ObjectOK(o)'
  <2>1. MadeOK(o)'
    BY <1>1, <1>2, <1>3, <1>4, <1>5, <1>6 DEF MadeOK, ObjectOK
  <2>2. UnmadeOK(o)'
    BY <1>1, <1>2, <1>3, <1>4, <1>5, <1>6, NoneIsNothing DEF UnmadeOK, ObjectOK, TypeOK
  <2>3. ClientOK(o)'
    BY <1>1, <1>2, <1>3, <1>4, <1>5, <1>6 DEF ClientOK, ObjectOK
  <2>4. HeldOK(o)'
    BY <1>1, <1>2, <1>3, <1>4, <1>5, <1>6 DEF HeldOK, ObjectOK
  <2>5. StartOK(o)'
    BY <1>1, <1>2, <1>3, <1>4, <1>5, <1>6, NoneIsNothing DEF StartOK, ObjectOK, UnmadeOK,
       ClientOK, RequestOK, StartsOK, TypeOK
  <2>6. QuietOK(o)'
    BY <1>1, <1>2, <1>3, <1>4, <1>5, <1>6, NoneIsNothing DEF QuietOK, ObjectOK, TypeOK
  <2>7. CliOK(o)'
    BY <1>1, <1>2, <1>3, <1>4, <1>5, <1>6, NoneIsNothing DEF CliOK, ObjectOK, TypeOK
  <2>8. QED
    BY <2>1, <2>2, <2>3, <2>4, <2>5, <2>6, <2>7 DEF ObjectOK
<1>10. ASSUME NEW r \in Requests PROVE RequestOK(r)'
  <2>1. OnOK(r)'
    BY <1>1, <1>2, <1>3, <1>4, <1>5, <1>6, NoneIsNothing DEF OnOK, RequestOK, CacheOK, HasLock,
       TypeOK
  <2>2. LockOK(r)'
    BY <1>1, <1>2, <1>3, <1>4, <1>5, <1>6, NoneIsNothing DEF LockOK, RequestOK, HasLock, TypeOK
  <2>3. StartsOK(r)'
    BY <1>1, <1>2, <1>3, <1>4, <1>5, <1>6, NoneIsNothing DEF StartsOK, RequestOK, OnOK, LockOK,
       ObjectOK, ClientOK, UnmadeOK, MadeOK, CacheOK, HasLock, TypeOK
  <2>4. QED
    BY <2>1, <2>2, <2>3 DEF RequestOK
<1>11. WithinLimit'
  BY <1>1, <1>2, <1>3, <1>4, <1>5, <1>6 DEF IInv, WithinLimit
<1>12. QED
  BY <1>7, <1>8, <1>9, <1>10, <1>11 DEF IInv

LEMMA NewClientStoppedStep ==
    ASSUME IInv, NEW q \in Requests, NewClientStopped(q) PROVE IInv'
<1>1. /\ TypeOK /\ (\A id \in Ids : CacheOK(id) /\ EnvOK(id))
      /\ (\A o \in Objects : ObjectOK(o)) /\ (\A r \in Requests : RequestOK(r))
      /\ 1..created \subseteq Objects
  BY MadeAreObjects DEF IInv, IdOK
<1>2. /\ on[q] \in 1..created /\ on[q] \in Objects /\ holder[on[q]] = q /\ pc[q] = "stopping"
      /\ \A r \in Requests \ {q} : HasLock(r) => on[r] # on[q] /\ on[r] \in Objects
  BY OwnObject, Alone DEF NewClientStopped, HasLock
<1>3. UNCHANGED <<sessions, created, ident, client, turn, poisoned, expired, other, teardown,
                draining, sweepDue, phase, on, want, fresh>>
  BY DEF NewClientStopped, ManagerUnchanged
<1>4. /\ cli' = cli \ {on[q]} /\ starting' = starting \ {on[q]}
      /\ deferred' = [deferred EXCEPT ![on[q]] = None] /\ pc' = [pc EXCEPT ![q] = "done"]
      /\ holder' = [holder EXCEPT ![on[q]] = None]
  BY DEF NewClientStopped, EndStart, Unlock, Finish
<1>5. on[q] \in starting /\ sessions[ident[on[q]]] # on[q]
  BY <1>1, <1>2 DEF RequestOK, StartsOK
<1>6. /\ released' = released \cup {on[q]} /\ env' \subseteq env
      /\ \A i \in env : sessions[i] # None /\ sessions[i] # on[q] => i \in env'
  BY DropDirsEffect DEF NewClientStopped
<1>7. TypeOK'
  BY <1>1, <1>2, <1>3, <1>4, <1>5, <1>6, NoneIsNothing DEF TypeOK
<1>8. ASSUME NEW id \in Ids PROVE IdOK(id)'
  <2>1. CacheOK(id)'
    BY <1>1, <1>2, <1>3, <1>4, <1>5, <1>6, NoneIsNothing DEF CacheOK, ObjectOK, UnmadeOK, MadeOK,
       RequestOK, OnOK, StartsOK, TypeOK
  <2>2. EnvOK(id)'
    BY <1>1, <1>2, <1>3, <1>4, <1>5, <1>6, NoneIsNothing DEF EnvOK, CacheOK, TypeOK
  <2>3. QED
    BY <2>1, <2>2 DEF IdOK
<1>9. ASSUME NEW o \in Objects PROVE ObjectOK(o)'
  <2>1. MadeOK(o)'
    BY <1>1, <1>2, <1>3, <1>4, <1>5, <1>6 DEF MadeOK, ObjectOK
  <2>2. UnmadeOK(o)'
    BY <1>1, <1>2, <1>3, <1>4, <1>5, <1>6, NoneIsNothing DEF UnmadeOK, ObjectOK, TypeOK
  <2>3. ClientOK(o)'
    BY <1>1, <1>2, <1>3, <1>4, <1>5, <1>6, NoneIsNothing DEF ClientOK, ObjectOK, UnmadeOK, MadeOK,
       RequestOK, StartsOK, CacheOK, TypeOK
  <2>4. HeldOK(o)'
    BY <1>1, <1>2, <1>3, <1>4, <1>5, <1>6, NoneIsNothing DEF HeldOK, ObjectOK, UnmadeOK, MadeOK,
       CacheOK, RequestOK, StartsOK, TypeOK
  <2>5. StartOK(o)'
    BY <1>1, <1>2, <1>3, <1>4, <1>5, <1>6, NoneIsNothing DEF StartOK, ObjectOK, UnmadeOK,
       ClientOK, RequestOK, StartsOK, TypeOK
  <2>6. QuietOK(o)'
    BY <1>1, <1>2, <1>3, <1>4, <1>5, <1>6, NoneIsNothing DEF QuietOK, ObjectOK, TypeOK
  <2>7. CliOK(o)'
    BY <1>1, <1>2, <1>3, <1>4, <1>5, <1>6, NoneIsNothing DEF CliOK, ObjectOK, UnmadeOK, RequestOK,
       LockOK, StartsOK, OnOK, TypeOK
  <2>8. QED
    BY <2>1, <2>2, <2>3, <2>4, <2>5, <2>6, <2>7 DEF ObjectOK
<1>10. ASSUME NEW r \in Requests PROVE RequestOK(r)'
  <2>1. OnOK(r)'
    BY <1>1, <1>2, <1>3, <1>4, <1>5, <1>6, NoneIsNothing DEF OnOK, RequestOK, CacheOK, HasLock,
       TypeOK
  <2>2. LockOK(r)'
    BY <1>1, <1>2, <1>3, <1>4, <1>5, <1>6, NoneIsNothing DEF LockOK, RequestOK, HasLock, TypeOK
  <2>3. StartsOK(r)'
    BY <1>1, <1>2, <1>3, <1>4, <1>5, <1>6, NoneIsNothing DEF StartsOK, RequestOK, OnOK, LockOK,
       ObjectOK, ClientOK, UnmadeOK, MadeOK, CacheOK, HasLock, TypeOK
  <2>4. QED
    BY <2>1, <2>2, <2>3 DEF RequestOK
<1>11. WithinLimit'
  BY <1>1, <1>2, <1>3, <1>4, <1>5, <1>6 DEF IInv, WithinLimit
<1>12. QED
  BY <1>7, <1>8, <1>9, <1>10, <1>11 DEF IInv

LEMMA ClientFailsStep ==
    ASSUME IInv, NEW q \in Requests, ClientFails(q) PROVE IInv'
<1>1. /\ TypeOK /\ (\A id \in Ids : CacheOK(id) /\ EnvOK(id))
      /\ (\A o \in Objects : ObjectOK(o)) /\ (\A r \in Requests : RequestOK(r))
      /\ 1..created \subseteq Objects
  BY MadeAreObjects DEF IInv, IdOK
<1>2. /\ on[q] \in 1..created /\ on[q] \in Objects /\ holder[on[q]] = q /\ pc[q] = "starting"
      /\ \A r \in Requests \ {q} : HasLock(r) => on[r] # on[q] /\ on[r] \in Objects
  BY OwnObject, Alone DEF ClientFails, HasLock
<1>3. UNCHANGED <<created, ident, client, turn, poisoned, expired, other, teardown, draining,
                sweepDue, phase, on, want, fresh>>
  BY DEF ClientFails
<1>4. /\ cli' = cli \ {on[q]} /\ starting' = starting \ {on[q]}
      /\ deferred' = [deferred EXCEPT ![on[q]] = None] /\ pc' = [pc EXCEPT ![q] = "done"]
      /\ holder' = [holder EXCEPT ![on[q]] = None]
  BY DEF ClientFails, EndStart, Unlock, Finish
<1>5. on[q] \in starting
  BY <1>1, <1>2 DEF RequestOK, StartsOK
<1>6. sessions' = [i \in Ids |-> IF sessions[i] = on[q] THEN None ELSE sessions[i]]
  BY DEF ClientFails, Drop
<1>7. /\ released' = released \cup {on[q]} /\ env' \subseteq env
      /\ \A i \in env : sessions'[i] # None /\ sessions'[i] # on[q] => i \in env'
  BY DropDirsEffect DEF ClientFails
<1>8. TypeOK'
  BY <1>1, <1>2, <1>3, <1>4, <1>5, <1>6, <1>7, NoneIsNothing DEF TypeOK
<1>9. ASSUME NEW id \in Ids PROVE IdOK(id)'
  <2>1. CacheOK(id)'
    BY <1>1, <1>2, <1>3, <1>4, <1>5, <1>6, <1>7, NoneIsNothing DEF CacheOK, ObjectOK, UnmadeOK,
       MadeOK, RequestOK, OnOK, StartsOK, TypeOK
  <2>2. EnvOK(id)'
    <3>1. SUFFICES ASSUME sessions'[id] \in client \cup starting PROVE id \in env'
      BY <1>3, <1>4 DEF EnvOK
    <3>2. sessions'[id] = sessions[id] /\ sessions[id] # on[q] /\ sessions[id] # None
      BY <1>1, <1>6, <3>1, NoneIsNothing DEF TypeOK
    <3>3. QED
      BY <1>1, <1>7, <3>1, <3>2 DEF EnvOK
  <2>3. QED
    BY <2>1, <2>2 DEF IdOK
<1>10. ASSUME NEW o \in Objects PROVE ObjectOK(o)'
  <2>1. MadeOK(o)'
    BY <1>1, <1>2, <1>3, <1>4, <1>5, <1>6, <1>7 DEF MadeOK, ObjectOK
  <2>2. UnmadeOK(o)'
    BY <1>1, <1>2, <1>3, <1>4, <1>5, <1>6, <1>7, NoneIsNothing DEF UnmadeOK, ObjectOK, TypeOK
  <2>3. ClientOK(o)'
    BY <1>1, <1>2, <1>3, <1>4, <1>5, <1>6, <1>7, NoneIsNothing DEF ClientOK, ObjectOK, UnmadeOK,
       MadeOK, RequestOK, StartsOK, CacheOK, TypeOK
  <2>4. HeldOK(o)'
    BY <1>1, <1>2, <1>3, <1>4, <1>5, <1>6, <1>7, NoneIsNothing DEF HeldOK, ObjectOK, UnmadeOK,
       MadeOK, CacheOK, RequestOK, StartsOK, TypeOK
  <2>5. StartOK(o)'
    BY <1>1, <1>2, <1>3, <1>4, <1>5, <1>6, <1>7, NoneIsNothing DEF StartOK, ObjectOK, UnmadeOK,
       ClientOK, RequestOK, StartsOK, TypeOK
  <2>6. QuietOK(o)'
    BY <1>1, <1>2, <1>3, <1>4, <1>5, <1>6, <1>7, NoneIsNothing DEF QuietOK, ObjectOK, TypeOK
  <2>7. CliOK(o)'
    BY <1>1, <1>2, <1>3, <1>4, <1>5, <1>6, <1>7, NoneIsNothing DEF CliOK, ObjectOK, UnmadeOK,
       RequestOK, LockOK, StartsOK, OnOK, TypeOK
  <2>8. QED
    BY <2>1, <2>2, <2>3, <2>4, <2>5, <2>6, <2>7 DEF ObjectOK
<1>11. ASSUME NEW r \in Requests PROVE RequestOK(r)'
  <2>1. OnOK(r)'
    BY <1>1, <1>2, <1>3, <1>4, <1>5, <1>6, <1>7, NoneIsNothing DEF OnOK, RequestOK, CacheOK,
       HasLock, TypeOK
  <2>2. LockOK(r)'
    BY <1>1, <1>2, <1>3, <1>4, <1>5, <1>6, <1>7, NoneIsNothing DEF LockOK, RequestOK, HasLock,
       TypeOK
  <2>3. StartsOK(r)'
    BY <1>1, <1>2, <1>3, <1>4, <1>5, <1>6, <1>7, NoneIsNothing DEF StartsOK, RequestOK, OnOK,
       LockOK, ObjectOK, ClientOK, UnmadeOK, MadeOK, CacheOK, HasLock, TypeOK
  <2>4. QED
    BY <2>1, <2>2, <2>3 DEF RequestOK
<1>12. WithinLimit'
  <2>1. \A i \in Ids : sessions'[i] \in {None, sessions[i]}
    BY <1>1, <1>2, <1>3, <1>4, <1>5, <1>6, <1>7 DEF TypeOK
  <2>2. QED
    BY <1>8, <2>1, LiveShrinks
<1>13. QED
  BY <1>8, <1>9, <1>10, <1>11, <1>12 DEF IInv

LEMMA ClientCancelledStep ==
    ASSUME IInv, NEW q \in Requests, ClientCancelled(q) PROVE IInv'
<1>1. /\ TypeOK /\ (\A id \in Ids : CacheOK(id) /\ EnvOK(id))
      /\ (\A o \in Objects : ObjectOK(o)) /\ (\A r \in Requests : RequestOK(r))
      /\ 1..created \subseteq Objects
  BY MadeAreObjects DEF IInv, IdOK
<1>2. /\ on[q] \in 1..created /\ on[q] \in Objects /\ holder[on[q]] = q /\ pc[q] = "starting"
      /\ \A r \in Requests \ {q} : HasLock(r) => on[r] # on[q] /\ on[r] \in Objects
  BY OwnObject, Alone DEF ClientCancelled, HasLock
<1>3. UNCHANGED <<sessions, created, ident, client, turn, poisoned, expired, other, teardown,
                draining, sweepDue, phase, on, want, fresh>>
  BY DEF ClientCancelled, ManagerUnchanged
<1>4. /\ cli' = cli \ {on[q]} /\ starting' = starting \ {on[q]}
      /\ deferred' = [deferred EXCEPT ![on[q]] = None] /\ pc' = [pc EXCEPT ![q] = "done"]
  BY DEF ClientCancelled, EndStart, Finish
<1>5. holder' = [holder EXCEPT ![on[q]] = None] \/ holder' = holder
  BY DEF ClientCancelled, Unlock
<1>6. on[q] \in starting
  BY <1>1, <1>2 DEF RequestOK, StartsOK
<1>7. \/ sessions[ident[on[q]]] = on[q] /\ released' = released /\ env' = env
      \/ /\ sessions[ident[on[q]]] # on[q] /\ released' = released \cup {on[q]} /\ env' \subseteq env
         /\ \A i \in env : sessions[i] # None /\ sessions[i] # on[q] => i \in env'
  <2>1. Cached(on[q]) <=> sessions[ident[on[q]]] = on[q]
    BY <1>2, CachedById
  <2>2. QED
    BY <2>1, DropDirsEffect DEF ClientCancelled
<1>8. TypeOK'
  BY <1>1, <1>2, <1>3, <1>4, <1>5, <1>6, <1>7, NoneIsNothing DEF TypeOK
<1>9. ASSUME NEW id \in Ids PROVE IdOK(id)'
  <2>1. CacheOK(id)'
    BY <1>1, <1>2, <1>3, <1>4, <1>5, <1>6, <1>7, NoneIsNothing DEF CacheOK, ObjectOK, UnmadeOK,
       MadeOK, RequestOK, OnOK, StartsOK, TypeOK
  <2>2. EnvOK(id)'
    BY <1>1, <1>2, <1>3, <1>4, <1>5, <1>6, <1>7, NoneIsNothing DEF EnvOK, CacheOK, TypeOK
  <2>3. QED
    BY <2>1, <2>2 DEF IdOK
<1>10. ASSUME NEW o \in Objects PROVE ObjectOK(o)'
  <2>1. MadeOK(o)'
    BY <1>1, <1>2, <1>3, <1>4, <1>5, <1>6, <1>7 DEF MadeOK, ObjectOK
  <2>2. UnmadeOK(o)'
    BY <1>1, <1>2, <1>3, <1>4, <1>5, <1>6, <1>7, NoneIsNothing DEF UnmadeOK, ObjectOK, TypeOK
  <2>3. ClientOK(o)'
    BY <1>1, <1>2, <1>3, <1>4, <1>5, <1>6, <1>7, NoneIsNothing DEF ClientOK, ObjectOK, UnmadeOK,
       MadeOK, RequestOK, StartsOK, CacheOK, TypeOK
  <2>4. HeldOK(o)'
    BY <1>1, <1>2, <1>3, <1>4, <1>5, <1>6, <1>7, NoneIsNothing DEF HeldOK, ObjectOK, UnmadeOK,
       MadeOK, CacheOK, RequestOK, StartsOK, TypeOK
  <2>5. StartOK(o)'
    BY <1>1, <1>2, <1>3, <1>4, <1>5, <1>6, <1>7, NoneIsNothing DEF StartOK, ObjectOK, UnmadeOK,
       ClientOK, RequestOK, StartsOK, TypeOK
  <2>6. QuietOK(o)'
    BY <1>1, <1>2, <1>3, <1>4, <1>5, <1>6, <1>7, NoneIsNothing DEF QuietOK, ObjectOK, TypeOK
  <2>7. CliOK(o)'
    BY <1>1, <1>2, <1>3, <1>4, <1>5, <1>6, <1>7, NoneIsNothing DEF CliOK, ObjectOK, UnmadeOK,
       RequestOK, LockOK, StartsOK, OnOK, TypeOK
  <2>8. QED
    BY <2>1, <2>2, <2>3, <2>4, <2>5, <2>6, <2>7 DEF ObjectOK
<1>11. ASSUME NEW r \in Requests PROVE RequestOK(r)'
  <2>1. OnOK(r)'
    BY <1>1, <1>2, <1>3, <1>4, <1>5, <1>6, <1>7, NoneIsNothing DEF OnOK, RequestOK, CacheOK,
       HasLock, TypeOK
  <2>2. LockOK(r)'
    BY <1>1, <1>2, <1>3, <1>4, <1>5, <1>6, <1>7, NoneIsNothing DEF LockOK, RequestOK, HasLock,
       TypeOK
  <2>3. StartsOK(r)'
    BY <1>1, <1>2, <1>3, <1>4, <1>5, <1>6, <1>7, NoneIsNothing DEF StartsOK, RequestOK, OnOK,
       LockOK, ObjectOK, ClientOK, UnmadeOK, MadeOK, CacheOK, HasLock, TypeOK
  <2>4. QED
    BY <2>1, <2>2, <2>3 DEF RequestOK
<1>12. WithinLimit'
  BY <1>1, <1>2, <1>3, <1>4, <1>5, <1>6, <1>7 DEF IInv, WithinLimit
<1>13. QED
  BY <1>8, <1>9, <1>10, <1>11, <1>12 DEF IInv

-----------------------------------------------------------------------------
(* Sessions leave the cache. *)

\* The empty removal.
LEMMA NothingRemoved ==
    ASSUME TypeOK, UNCHANGED <<sessions, teardown, released, env, deferred>>
    PROVE  Removal({}, sessions')
<1>1. sessions' = [i \in Ids |-> IF sessions[i] \in {} THEN None ELSE sessions[i]]
  BY DEF TypeOK
<1>2. QED
  BY <1>1 DEF Removal, TypeOK, Stages, Deferrals

\* release_for_handoff.
LEMMA HandOffIsRemoval ==
    ASSUME IInv, NEW id \in Ids, NEW by \in {"drain", "handoff"}, HandOff(id, by)
    PROVE  Removal({sessions[id]}, sessions') /\ sessions[id] # None
<1> DEFINE o == sessions[id]
<1>1. /\ o # None /\ o \in Objects /\ o \in 1..created /\ ident[o] = id
      /\ sessions \in [Ids -> Objects \cup {None}]
  BY DEF HandOff, IInv, TypeOK, IdOK, CacheOK
<1>2. sessions' = [i \in Ids |-> IF sessions[i] \in {o} THEN None ELSE sessions[i]]
  <2>1. \A i \in Ids : sessions[i] = o => i = id
    BY <1>1 DEF IInv, IdOK, CacheOK
  <2>2. sessions' = [sessions EXCEPT ![id] = None]
    BY DEF HandOff
  <2>3. QED
    BY <1>1, <2>1, <2>2
<1>3. \A i \in env : sessions'[i] # None => sessions'[i] \notin {o}
  BY <1>2 DEF IInv, TypeOK
<1>4. CASE o \in client
  <2>1. teardown' = [teardown EXCEPT ![o] = by] /\ UNCHANGED <<released, env, deferred>>
    BY <1>4 DEF HandOff
  <2>2. QED
    BY <1>1, <1>2, <2>1 DEF Removal, IInv, TypeOK, Stages, Deferrals
<1>5. CASE o \notin client
  <2>1. ReleaseDirs({o}, FALSE, sessions') /\ UNCHANGED teardown
    BY <1>5 DEF HandOff
  <2>2. /\ released' = released \cup ({o} \ starting) /\ env' \subseteq env
        /\ \A i \in env : sessions'[i] # None /\ sessions'[i] \notin {o} => i \in env'
        /\ deferred' \in [Objects -> Deferrals]
    BY <2>1, ReleaseDirsEffect DEF IInv
  <2>3. QED
    BY <1>1, <1>2, <1>3, <1>5, <2>1, <2>2 DEF Removal, IInv, TypeOK, Stages
<1>6. QED
  BY <1>1, <1>4, <1>5

\* _purge_all_expired takes out the expired sessions, those that are starting too.
LEMMA PurgeIsRemoval ==
    ASSUME IInv, NEW by \in {"sweep", "cleanup"}, Purge(by), UNCHANGED <<deferred, released, env>>
    PROVE  \E R : Removal(R, sessions') /\ \A o \in R : IsExpired(o)
<1> DEFINE R == {o \in Live(sessions) : IsExpired(o)}
<1>1. R \subseteq Objects /\ \A o \in R : o \in 1..created /\ sessions[ident[o]] = o
  <2>1. Live(sessions) \subseteq Objects
    BY LiveIsFinite DEF IInv, TypeOK
  <2>2. QED
    BY <2>1, CachedById DEF Cached
<1>2. /\ sessions' = [i \in Ids |-> IF sessions[i] \in R THEN None ELSE sessions[i]]
      /\ teardown' = [o \in Objects |-> IF o \in R THEN by ELSE teardown[o]]
  BY DEF Purge, Drop
<1>3. \A o \in R : IsExpired(o)
  OBVIOUS
<1> HIDE DEF R
<1>4. Removal(R, sessions')
  BY <1>1, <1>2 DEF Removal, IInv, TypeOK, Stages, Deferrals
<1>5. QED
  BY <1>3, <1>4

LEMMA DeleteStep ==
    ASSUME IInv, NEW i0 \in Ids, Delete(i0) PROVE IInv'
<1>1. /\ TypeOK /\ (\A id \in Ids : CacheOK(id) /\ EnvOK(id))
      /\ (\A o \in Objects : ObjectOK(o)) /\ (\A r \in Requests : RequestOK(r))
      /\ 1..created \subseteq Objects
  BY MadeAreObjects DEF IInv, IdOK
<1>2. UNCHANGED <<created, ident, client, cli, starting, turn, poisoned, expired, other,
                draining, sweepDue, phase, pc, on, want, fresh, holder>>
  BY DEF Delete, TeardownFrame, requestVars
<1>3. Removal({sessions[i0]}, sessions')
  BY DeleteIsRemoval DEF Delete
<1>4. TypeOK'
  BY <1>1, <1>2, <1>3 DEF TypeOK, Removal, Stages, Deferrals
<1>5. ASSUME NEW id \in Ids PROVE IdOK(id)'
  <2>1. CacheOK(id)'
    BY <1>1, <1>2, <1>3, NoneIsNothing DEF CacheOK, Removal, TypeOK
  <2>2. EnvOK(id)'
    <3>1. SUFFICES ASSUME sessions'[id] \in client \cup starting PROVE id \in env'
      BY <1>2 DEF EnvOK
    <3>2. sessions'[id] = sessions[id] /\ sessions[id] # None
      BY <1>1, <1>3, <3>1, NoneIsNothing DEF TypeOK, Removal
    <3>3. QED
      BY <1>1, <1>3, <3>1, <3>2 DEF EnvOK, Removal
  <2>3. QED
    BY <2>1, <2>2 DEF IdOK
<1>6. ASSUME NEW o \in Objects PROVE ObjectOK(o)'
  <2>1. MadeOK(o)'
    BY <1>1, <1>2, <1>3 DEF MadeOK, ObjectOK
  <2>2. UnmadeOK(o)'
    BY <1>1, <1>2, <1>3, NoneIsNothing DEF UnmadeOK, ObjectOK, Removal, TypeOK
  <2>3. ClientOK(o)'
    BY <1>1, <1>2, <1>3, NoneIsNothing DEF ClientOK, ObjectOK, Removal, TypeOK
  <2>4. HeldOK(o)'
    BY <1>1, <1>2, <1>3, NoneIsNothing DEF HeldOK, ObjectOK, CacheOK, MadeOK, Removal, TypeOK
  <2>5. StartOK(o)'
    BY <1>1, <1>2, <1>3 DEF StartOK, ObjectOK
  <2>6. QuietOK(o)'
    BY <1>1, <1>2, <1>3 DEF QuietOK, ObjectOK
  <2>7. CliOK(o)'
    BY <1>1, <1>2, <1>3 DEF CliOK, ObjectOK
  <2>8. QED
    BY <2>1, <2>2, <2>3, <2>4, <2>5, <2>6, <2>7 DEF ObjectOK
<1>7. ASSUME NEW r \in Requests PROVE RequestOK(r)'
  <2>1. OnOK(r)'
    BY <1>1, <1>2, <1>3 DEF OnOK, RequestOK
  <2>2. LockOK(r)'
    BY <1>1, <1>2, <1>3 DEF LockOK, RequestOK
  <2>3. StartsOK(r)'
    BY <1>1, <1>2, <1>3, NoneIsNothing DEF StartsOK, RequestOK, ObjectOK, MadeOK, OnOK, Removal,
       TypeOK
  <2>4. QED
    BY <2>1, <2>2, <2>3 DEF RequestOK
<1>8. WithinLimit'
  <2>1. \A i \in Ids : sessions'[i] \in {None, sessions[i]}
    BY <1>3 DEF Removal
  <2>2. QED
    BY <1>4, <2>1, LiveShrinks
<1>9. QED
  BY <1>4, <1>5, <1>6, <1>7, <1>8 DEF IInv

LEMMA RefuseFirstStep ==
    ASSUME IInv, NEW q \in Requests, RefuseFirst(q) PROVE IInv'
<1>1. /\ TypeOK /\ (\A id \in Ids : CacheOK(id) /\ EnvOK(id))
      /\ (\A o \in Objects : ObjectOK(o)) /\ (\A r \in Requests : RequestOK(r))
      /\ 1..created \subseteq Objects
  BY MadeAreObjects DEF IInv, IdOK
<1>2. UNCHANGED <<created, ident, client, cli, starting, turn, poisoned, expired, other,
                draining, sweepDue, phase, on, want, fresh, holder>>
  BY DEF RefuseFirst
<1>3. PICK R : Removal(R, sessions')
  <2>1. want[q] \in Ids
    BY <1>1 DEF RefuseFirst, RequestOK, OnOK
  <2>2. CASE DeleteNow(want[q], TRUE)
    BY <2>1, <2>2, DeleteIsRemoval
  <2>3. CASE UNCHANGED <<sessions, teardown, released, env, deferred>>
    BY <1>1, <2>3, NothingRemoved
  <2>4. QED
    BY <2>2, <2>3 DEF RefuseFirst
<1>4. pc[q] = "has" /\ pc' = [pc EXCEPT ![q] = "done"]
  BY DEF RefuseFirst, Finish
<1>5. TypeOK'
  BY <1>1, <1>2, <1>3, <1>4 DEF TypeOK, Removal, Stages, Deferrals
<1>6. ASSUME NEW id \in Ids PROVE IdOK(id)'
  <2>1. CacheOK(id)'
    BY <1>1, <1>2, <1>3, <1>4, NoneIsNothing DEF CacheOK, Removal, TypeOK
  <2>2. EnvOK(id)'
    <3>1. SUFFICES ASSUME sessions'[id] \in client \cup starting PROVE id \in env'
      BY <1>2 DEF EnvOK
    <3>2. sessions'[id] = sessions[id] /\ sessions[id] # None
      BY <1>1, <1>3, <3>1, NoneIsNothing DEF TypeOK, Removal
    <3>3. QED
      BY <1>1, <1>3, <3>1, <3>2 DEF EnvOK, Removal
  <2>3. QED
    BY <2>1, <2>2 DEF IdOK
<1>7. ASSUME NEW o \in Objects PROVE ObjectOK(o)'
  <2>1. MadeOK(o)'
    BY <1>1, <1>2, <1>3, <1>4 DEF MadeOK, ObjectOK
  <2>2. UnmadeOK(o)'
    BY <1>1, <1>2, <1>3, <1>4, NoneIsNothing DEF UnmadeOK, ObjectOK, Removal, TypeOK
  <2>3. ClientOK(o)'
    BY <1>1, <1>2, <1>3, <1>4, NoneIsNothing DEF ClientOK, ObjectOK, Removal, TypeOK
  <2>4. HeldOK(o)'
    BY <1>1, <1>2, <1>3, <1>4, NoneIsNothing DEF HeldOK, ObjectOK, CacheOK, MadeOK, Removal,
       TypeOK
  <2>5. StartOK(o)'
    BY <1>1, <1>2, <1>3, <1>4 DEF StartOK, ObjectOK
  <2>6. QuietOK(o)'
    BY <1>1, <1>2, <1>3, <1>4 DEF QuietOK, ObjectOK
  <2>7. CliOK(o)'
    BY <1>1, <1>2, <1>3, <1>4, NoneIsNothing DEF CliOK, ObjectOK, UnmadeOK, RequestOK, LockOK,
       StartsOK, OnOK, TypeOK
  <2>8. QED
    BY <2>1, <2>2, <2>3, <2>4, <2>5, <2>6, <2>7 DEF ObjectOK
<1>8. ASSUME NEW r \in Requests PROVE RequestOK(r)'
  <2>1. OnOK(r)'
    BY <1>1, <1>2, <1>3, <1>4, NoneIsNothing DEF OnOK, RequestOK, CacheOK, HasLock, TypeOK
  <2>2. LockOK(r)'
    BY <1>1, <1>2, <1>3, <1>4, NoneIsNothing DEF LockOK, RequestOK, HasLock, TypeOK
  <2>3. StartsOK(r)'
    BY <1>1, <1>2, <1>3, <1>4, NoneIsNothing DEF StartsOK, RequestOK, ObjectOK, MadeOK, OnOK,
       Removal, TypeOK
  <2>4. QED
    BY <2>1, <2>2, <2>3 DEF RequestOK
<1>9. WithinLimit'
  <2>1. \A i \in Ids : sessions'[i] \in {None, sessions[i]}
    BY <1>3 DEF Removal
  <2>2. QED
    BY <1>5, <2>1, LiveShrinks
<1>10. QED
  BY <1>5, <1>6, <1>7, <1>8, <1>9 DEF IInv

LEMMA HandOffStep ==
    ASSUME IInv, NEW i0 \in Ids, NEW by \in {"drain", "handoff"}, HandOff(i0, by) PROVE IInv'
<1>1. /\ TypeOK /\ (\A id \in Ids : CacheOK(id) /\ EnvOK(id))
      /\ (\A o \in Objects : ObjectOK(o)) /\ (\A r \in Requests : RequestOK(r))
      /\ 1..created \subseteq Objects
  BY MadeAreObjects DEF IInv, IdOK
<1>2. UNCHANGED <<created, ident, client, cli, starting, turn, expired, other, draining,
                sweepDue, phase, pc, on, want, fresh, holder>>
  BY DEF HandOff, TeardownFrame, requestVars
<1>3. Removal({sessions[i0]}, sessions') /\ sessions[i0] # None
  BY HandOffIsRemoval
<1>4. /\ poisoned' = poisoned \cup {sessions[i0]} /\ holder[sessions[i0]] = None
      /\ turn[sessions[i0]] = "none" /\ sessions[i0] \notin starting
  BY DEF HandOff
<1>5. TypeOK'
  BY <1>1, <1>2, <1>3, <1>4 DEF TypeOK, Removal, Stages, Deferrals
<1>6. ASSUME NEW id \in Ids PROVE IdOK(id)'
  <2>1. CacheOK(id)'
    BY <1>1, <1>2, <1>3, <1>4, NoneIsNothing DEF CacheOK, Removal, TypeOK
  <2>2. EnvOK(id)'
    <3>1. SUFFICES ASSUME sessions'[id] \in client \cup starting PROVE id \in env'
      BY <1>2 DEF EnvOK
    <3>2. sessions'[id] = sessions[id] /\ sessions[id] # None
      BY <1>1, <1>3, <3>1, NoneIsNothing DEF TypeOK, Removal
    <3>3. QED
      BY <1>1, <1>3, <3>1, <3>2 DEF EnvOK, Removal
  <2>3. QED
    BY <2>1, <2>2 DEF IdOK
<1>7. ASSUME NEW o \in Objects PROVE ObjectOK(o)'
  <2>1. MadeOK(o)'
    BY <1>1, <1>2, <1>3, <1>4 DEF MadeOK, ObjectOK
  <2>2. UnmadeOK(o)'
    BY <1>1, <1>2, <1>3, <1>4, NoneIsNothing DEF UnmadeOK, ObjectOK, Removal, TypeOK
  <2>3. ClientOK(o)'
    BY <1>1, <1>2, <1>3, <1>4, NoneIsNothing DEF ClientOK, ObjectOK, Removal, TypeOK
  <2>4. HeldOK(o)'
    BY <1>1, <1>2, <1>3, <1>4, NoneIsNothing DEF HeldOK, ObjectOK, CacheOK, MadeOK, Removal,
       TypeOK
  <2>5. StartOK(o)'
    BY <1>1, <1>2, <1>3, <1>4 DEF StartOK, ObjectOK
  <2>6. QuietOK(o)'
    BY <1>1, <1>2, <1>3, <1>4, NoneIsNothing DEF QuietOK, ObjectOK, TypeOK
  <2>7. CliOK(o)'
    BY <1>1, <1>2, <1>3, <1>4 DEF CliOK, ObjectOK
  <2>8. QED
    BY <2>1, <2>2, <2>3, <2>4, <2>5, <2>6, <2>7 DEF ObjectOK
<1>8. ASSUME NEW r \in Requests PROVE RequestOK(r)'
  <2>1. OnOK(r)'
    BY <1>1, <1>2, <1>3, <1>4 DEF OnOK, RequestOK
  <2>2. LockOK(r)'
    BY <1>1, <1>2, <1>3, <1>4 DEF LockOK, RequestOK
  <2>3. StartsOK(r)'
    BY <1>1, <1>2, <1>3, <1>4, NoneIsNothing DEF StartsOK, RequestOK, ObjectOK, MadeOK, OnOK,
       Removal, TypeOK
  <2>4. QED
    BY <2>1, <2>2, <2>3 DEF RequestOK
<1>9. WithinLimit'
  <2>1. \A i \in Ids : sessions'[i] \in {None, sessions[i]}
    BY <1>3 DEF Removal
  <2>2. QED
    BY <1>5, <2>1, LiveShrinks
<1>10. QED
  BY <1>5, <1>6, <1>7, <1>8, <1>9 DEF IInv

LEMMA SweepRunsStep ==
    ASSUME IInv, SweepRuns PROVE IInv'
<1>1. /\ TypeOK /\ (\A id \in Ids : CacheOK(id) /\ EnvOK(id))
      /\ (\A o \in Objects : ObjectOK(o)) /\ (\A r \in Requests : RequestOK(r))
      /\ 1..created \subseteq Objects
  BY MadeAreObjects DEF IInv, IdOK
<1>2. UNCHANGED <<created, ident, client, cli, starting, deferred, turn, poisoned, expired,
                released, env, other, draining, phase, pc, on, want, fresh, holder>>
  BY DEF SweepRuns, TeardownFrame, requestVars
<1>3. PICK R : Removal(R, sessions')
  BY <1>2, PurgeIsRemoval DEF SweepRuns
<1>4. sweepDue' \in BOOLEAN
  BY DEF SweepRuns
<1>5. TypeOK'
  BY <1>1, <1>2, <1>3, <1>4 DEF TypeOK, Removal, Stages, Deferrals
<1>6. ASSUME NEW id \in Ids PROVE IdOK(id)'
  <2>1. CacheOK(id)'
    BY <1>1, <1>2, <1>3, <1>4, NoneIsNothing DEF CacheOK, Removal, TypeOK
  <2>2. EnvOK(id)'
    <3>1. SUFFICES ASSUME sessions'[id] \in client \cup starting PROVE id \in env'
      BY <1>2 DEF EnvOK
    <3>2. sessions'[id] = sessions[id] /\ sessions[id] # None
      BY <1>1, <1>3, <3>1, NoneIsNothing DEF TypeOK, Removal
    <3>3. QED
      BY <1>1, <1>3, <3>1, <3>2 DEF EnvOK, Removal
  <2>3. QED
    BY <2>1, <2>2 DEF IdOK
<1>7. ASSUME NEW o \in Objects PROVE ObjectOK(o)'
  <2>1. MadeOK(o)'
    BY <1>1, <1>2, <1>3, <1>4 DEF MadeOK, ObjectOK
  <2>2. UnmadeOK(o)'
    BY <1>1, <1>2, <1>3, <1>4, NoneIsNothing DEF UnmadeOK, ObjectOK, Removal, TypeOK
  <2>3. ClientOK(o)'
    BY <1>1, <1>2, <1>3, <1>4, NoneIsNothing DEF ClientOK, ObjectOK, Removal, TypeOK
  <2>4. HeldOK(o)'
    BY <1>1, <1>2, <1>3, <1>4, NoneIsNothing DEF HeldOK, ObjectOK, CacheOK, MadeOK, Removal,
       TypeOK
  <2>5. StartOK(o)'
    BY <1>1, <1>2, <1>3, <1>4 DEF StartOK, ObjectOK
  <2>6. QuietOK(o)'
    BY <1>1, <1>2, <1>3, <1>4 DEF QuietOK, ObjectOK
  <2>7. CliOK(o)'
    BY <1>1, <1>2, <1>3, <1>4 DEF CliOK, ObjectOK
  <2>8. QED
    BY <2>1, <2>2, <2>3, <2>4, <2>5, <2>6, <2>7 DEF ObjectOK
<1>8. ASSUME NEW r \in Requests PROVE RequestOK(r)'
  <2>1. OnOK(r)'
    BY <1>1, <1>2, <1>3, <1>4 DEF OnOK, RequestOK
  <2>2. LockOK(r)'
    BY <1>1, <1>2, <1>3, <1>4 DEF LockOK, RequestOK
  <2>3. StartsOK(r)'
    BY <1>1, <1>2, <1>3, <1>4, NoneIsNothing DEF StartsOK, RequestOK, ObjectOK, MadeOK, OnOK,
       Removal, TypeOK
  <2>4. QED
    BY <2>1, <2>2, <2>3 DEF RequestOK
<1>9. WithinLimit'
  <2>1. \A i \in Ids : sessions'[i] \in {None, sessions[i]}
    BY <1>3 DEF Removal
  <2>2. QED
    BY <1>5, <2>1, LiveShrinks
<1>10. QED
  BY <1>5, <1>6, <1>7, <1>8, <1>9 DEF IInv

LEMMA CleanupRunsStep ==
    ASSUME IInv, CleanupRuns PROVE IInv'
<1>1. /\ TypeOK /\ (\A id \in Ids : CacheOK(id) /\ EnvOK(id))
      /\ (\A o \in Objects : ObjectOK(o)) /\ (\A r \in Requests : RequestOK(r))
      /\ 1..created \subseteq Objects
  BY MadeAreObjects DEF IInv, IdOK
<1>2. UNCHANGED <<created, ident, client, cli, starting, deferred, turn, poisoned, expired,
                released, env, other, draining, sweepDue, phase, pc, on, want, fresh, holder>>
  BY DEF CleanupRuns, TeardownFrame, requestVars
<1>3. PICK R : Removal(R, sessions')
  BY <1>2, PurgeIsRemoval DEF CleanupRuns
<1>4. TypeOK'
  BY <1>1, <1>2, <1>3 DEF TypeOK, Removal, Stages, Deferrals
<1>5. ASSUME NEW id \in Ids PROVE IdOK(id)'
  <2>1. CacheOK(id)'
    BY <1>1, <1>2, <1>3, NoneIsNothing DEF CacheOK, Removal, TypeOK
  <2>2. EnvOK(id)'
    <3>1. SUFFICES ASSUME sessions'[id] \in client \cup starting PROVE id \in env'
      BY <1>2 DEF EnvOK
    <3>2. sessions'[id] = sessions[id] /\ sessions[id] # None
      BY <1>1, <1>3, <3>1, NoneIsNothing DEF TypeOK, Removal
    <3>3. QED
      BY <1>1, <1>3, <3>1, <3>2 DEF EnvOK, Removal
  <2>3. QED
    BY <2>1, <2>2 DEF IdOK
<1>6. ASSUME NEW o \in Objects PROVE ObjectOK(o)'
  <2>1. MadeOK(o)'
    BY <1>1, <1>2, <1>3 DEF MadeOK, ObjectOK
  <2>2. UnmadeOK(o)'
    BY <1>1, <1>2, <1>3, NoneIsNothing DEF UnmadeOK, ObjectOK, Removal, TypeOK
  <2>3. ClientOK(o)'
    BY <1>1, <1>2, <1>3, NoneIsNothing DEF ClientOK, ObjectOK, Removal, TypeOK
  <2>4. HeldOK(o)'
    BY <1>1, <1>2, <1>3, NoneIsNothing DEF HeldOK, ObjectOK, CacheOK, MadeOK, Removal, TypeOK
  <2>5. StartOK(o)'
    BY <1>1, <1>2, <1>3 DEF StartOK, ObjectOK
  <2>6. QuietOK(o)'
    BY <1>1, <1>2, <1>3 DEF QuietOK, ObjectOK
  <2>7. CliOK(o)'
    BY <1>1, <1>2, <1>3 DEF CliOK, ObjectOK
  <2>8. QED
    BY <2>1, <2>2, <2>3, <2>4, <2>5, <2>6, <2>7 DEF ObjectOK
<1>7. ASSUME NEW r \in Requests PROVE RequestOK(r)'
  <2>1. OnOK(r)'
    BY <1>1, <1>2, <1>3 DEF OnOK, RequestOK
  <2>2. LockOK(r)'
    BY <1>1, <1>2, <1>3 DEF LockOK, RequestOK
  <2>3. StartsOK(r)'
    BY <1>1, <1>2, <1>3, NoneIsNothing DEF StartsOK, RequestOK, ObjectOK, MadeOK, OnOK, Removal,
       TypeOK
  <2>4. QED
    BY <2>1, <2>2, <2>3 DEF RequestOK
<1>8. WithinLimit'
  <2>1. \A i \in Ids : sessions'[i] \in {None, sessions[i]}
    BY <1>3 DEF Removal
  <2>2. QED
    BY <1>4, <2>1, LiveShrinks
<1>9. QED
  BY <1>4, <1>5, <1>6, <1>7, <1>8 DEF IInv

LEMMA ExpireStep ==
    ASSUME IInv, NEW o0 \in Objects, Expire(o0) PROVE IInv'
<1>1. /\ TypeOK /\ (\A id \in Ids : CacheOK(id) /\ EnvOK(id))
      /\ (\A o \in Objects : ObjectOK(o)) /\ (\A r \in Requests : RequestOK(r))
      /\ 1..created \subseteq Objects
  BY MadeAreObjects DEF IInv, IdOK
<1>2. UNCHANGED <<sessions, created, ident, client, cli, starting, deferred, turn, poisoned,
                released, env, other, teardown, draining, sweepDue, phase, pc, on, want, fresh,
                holder>>
  BY DEF Expire, ClockUnchanged, requestVars
<1>3. expired' = expired \cup {o0}
  BY DEF Expire
<1>4. TypeOK'
  BY <1>1, <1>2, <1>3, NoneIsNothing DEF TypeOK
<1>5. ASSUME NEW id \in Ids PROVE IdOK(id)'
  <2>1. CacheOK(id)'
    BY <1>1, <1>2, <1>3 DEF CacheOK
  <2>2. EnvOK(id)'
    BY <1>1, <1>2, <1>3 DEF EnvOK
  <2>3. QED
    BY <2>1, <2>2 DEF IdOK
<1>6. ASSUME NEW o \in Objects PROVE ObjectOK(o)'
  <2>1. MadeOK(o)'
    BY <1>1, <1>2, <1>3 DEF MadeOK, ObjectOK
  <2>2. UnmadeOK(o)'
    BY <1>1, <1>2, <1>3 DEF UnmadeOK, ObjectOK
  <2>3. ClientOK(o)'
    BY <1>1, <1>2, <1>3 DEF ClientOK, ObjectOK
  <2>4. HeldOK(o)'
    BY <1>1, <1>2, <1>3 DEF HeldOK, ObjectOK
  <2>5. StartOK(o)'
    BY <1>1, <1>2, <1>3 DEF StartOK, ObjectOK
  <2>6. QuietOK(o)'
    BY <1>1, <1>2, <1>3 DEF QuietOK, ObjectOK
  <2>7. CliOK(o)'
    BY <1>1, <1>2, <1>3 DEF CliOK, ObjectOK
  <2>8. QED
    BY <2>1, <2>2, <2>3, <2>4, <2>5, <2>6, <2>7 DEF ObjectOK
<1>7. ASSUME NEW r \in Requests PROVE RequestOK(r)'
  <2>1. OnOK(r)'
    BY <1>1, <1>2, <1>3 DEF OnOK, RequestOK
  <2>2. LockOK(r)'
    BY <1>1, <1>2, <1>3 DEF LockOK, RequestOK
  <2>3. StartsOK(r)'
    BY <1>1, <1>2, <1>3 DEF StartsOK, RequestOK
  <2>4. QED
    BY <2>1, <2>2, <2>3 DEF RequestOK
<1>8. WithinLimit'
  BY <1>1, <1>2, <1>3 DEF IInv, WithinLimit
<1>9. QED
  BY <1>4, <1>5, <1>6, <1>7, <1>8 DEF IInv

LEMMA ChangeTurnStep ==
    ASSUME IInv, NEW o0 \in Objects, ChangeTurn(o0) PROVE IInv'
<1>1. /\ TypeOK /\ (\A id \in Ids : CacheOK(id) /\ EnvOK(id))
      /\ (\A o \in Objects : ObjectOK(o)) /\ (\A r \in Requests : RequestOK(r))
      /\ 1..created \subseteq Objects
  BY MadeAreObjects DEF IInv, IdOK
<1>2. UNCHANGED <<sessions, created, ident, client, cli, starting, deferred, poisoned, expired,
                released, env, other, teardown, draining, sweepDue, phase, pc, on, want, fresh,
                holder>>
  BY DEF ChangeTurn, ClockUnchanged, requestVars
<1>3. PICK t \in {"none", "active", "silent"} : turn' = [turn EXCEPT ![o0] = t]
  BY DEF ChangeTurn
<1>4. turn[o0] # "none"
  BY DEF ChangeTurn
<1>5. TypeOK'
  BY <1>1, <1>2, <1>3, <1>4, NoneIsNothing DEF TypeOK
<1>6. ASSUME NEW id \in Ids PROVE IdOK(id)'
  <2>1. CacheOK(id)'
    BY <1>1, <1>2, <1>3, <1>4 DEF CacheOK
  <2>2. EnvOK(id)'
    BY <1>1, <1>2, <1>3, <1>4 DEF EnvOK
  <2>3. QED
    BY <2>1, <2>2 DEF IdOK
<1>7. ASSUME NEW o \in Objects PROVE ObjectOK(o)'
  <2>1. MadeOK(o)'
    BY <1>1, <1>2, <1>3, <1>4 DEF MadeOK, ObjectOK
  <2>2. UnmadeOK(o)'
    BY <1>1, <1>2, <1>3, <1>4, NoneIsNothing DEF UnmadeOK, ObjectOK, TypeOK
  <2>3. ClientOK(o)'
    BY <1>1, <1>2, <1>3, <1>4 DEF ClientOK, ObjectOK
  <2>4. HeldOK(o)'
    BY <1>1, <1>2, <1>3, <1>4 DEF HeldOK, ObjectOK
  <2>5. StartOK(o)'
    BY <1>1, <1>2, <1>3, <1>4, NoneIsNothing DEF StartOK, ObjectOK, UnmadeOK, ClientOK, RequestOK,
       StartsOK, TypeOK
  <2>6. QuietOK(o)'
    BY <1>1, <1>2, <1>3, <1>4, NoneIsNothing DEF QuietOK, ObjectOK, TypeOK
  <2>7. CliOK(o)'
    BY <1>1, <1>2, <1>3, <1>4 DEF CliOK, ObjectOK
  <2>8. QED
    BY <2>1, <2>2, <2>3, <2>4, <2>5, <2>6, <2>7 DEF ObjectOK
<1>8. ASSUME NEW r \in Requests PROVE RequestOK(r)'
  <2>1. OnOK(r)'
    BY <1>1, <1>2, <1>3, <1>4 DEF OnOK, RequestOK
  <2>2. LockOK(r)'
    BY <1>1, <1>2, <1>3, <1>4 DEF LockOK, RequestOK
  <2>3. StartsOK(r)'
    BY <1>1, <1>2, <1>3, <1>4 DEF StartsOK, RequestOK
  <2>4. QED
    BY <2>1, <2>2, <2>3 DEF RequestOK
<1>9. WithinLimit'
  BY <1>1, <1>2, <1>3, <1>4 DEF IInv, WithinLimit
<1>10. QED
  BY <1>5, <1>6, <1>7, <1>8, <1>9 DEF IInv

LEMMA DrainStep ==
    ASSUME IInv, Drain PROVE IInv'
<1>1. /\ TypeOK /\ (\A id \in Ids : CacheOK(id) /\ EnvOK(id))
      /\ (\A o \in Objects : ObjectOK(o)) /\ (\A r \in Requests : RequestOK(r))
      /\ 1..created \subseteq Objects
  BY MadeAreObjects DEF IInv, IdOK
<1>2. UNCHANGED <<sessions, created, ident, client, cli, starting, deferred, turn, poisoned,
                expired, released, env, other, teardown, sweepDue, phase, pc, on, want, fresh,
                holder>>
  BY DEF Drain, TeardownFrame, requestVars
<1>3. draining' \in BOOLEAN
  BY DEF Drain
<1>4. TypeOK'
  BY <1>1, <1>2, <1>3, NoneIsNothing DEF TypeOK
<1>5. ASSUME NEW id \in Ids PROVE IdOK(id)'
  <2>1. CacheOK(id)'
    BY <1>1, <1>2, <1>3 DEF CacheOK
  <2>2. EnvOK(id)'
    BY <1>1, <1>2, <1>3 DEF EnvOK
  <2>3. QED
    BY <2>1, <2>2 DEF IdOK
<1>6. ASSUME NEW o \in Objects PROVE ObjectOK(o)'
  <2>1. MadeOK(o)'
    BY <1>1, <1>2, <1>3 DEF MadeOK, ObjectOK
  <2>2. UnmadeOK(o)'
    BY <1>1, <1>2, <1>3 DEF UnmadeOK, ObjectOK
  <2>3. ClientOK(o)'
    BY <1>1, <1>2, <1>3 DEF ClientOK, ObjectOK
  <2>4. HeldOK(o)'
    BY <1>1, <1>2, <1>3 DEF HeldOK, ObjectOK
  <2>5. StartOK(o)'
    BY <1>1, <1>2, <1>3 DEF StartOK, ObjectOK
  <2>6. QuietOK(o)'
    BY <1>1, <1>2, <1>3 DEF QuietOK, ObjectOK
  <2>7. CliOK(o)'
    BY <1>1, <1>2, <1>3 DEF CliOK, ObjectOK
  <2>8. QED
    BY <2>1, <2>2, <2>3, <2>4, <2>5, <2>6, <2>7 DEF ObjectOK
<1>7. ASSUME NEW r \in Requests PROVE RequestOK(r)'
  <2>1. OnOK(r)'
    BY <1>1, <1>2, <1>3 DEF OnOK, RequestOK
  <2>2. LockOK(r)'
    BY <1>1, <1>2, <1>3 DEF LockOK, RequestOK
  <2>3. StartsOK(r)'
    BY <1>1, <1>2, <1>3 DEF StartsOK, RequestOK
  <2>4. QED
    BY <2>1, <2>2, <2>3 DEF RequestOK
<1>8. WithinLimit'
  BY <1>1, <1>2, <1>3 DEF IInv, WithinLimit
<1>9. QED
  BY <1>4, <1>5, <1>6, <1>7, <1>8 DEF IInv

LEMMA DrainStopStep ==
    ASSUME IInv, DrainStop PROVE IInv'
<1>1. /\ TypeOK /\ (\A id \in Ids : CacheOK(id) /\ EnvOK(id))
      /\ (\A o \in Objects : ObjectOK(o)) /\ (\A r \in Requests : RequestOK(r))
      /\ 1..created \subseteq Objects
  BY MadeAreObjects DEF IInv, IdOK
<1>2. UNCHANGED <<sessions, created, ident, client, cli, starting, deferred, turn, poisoned,
                expired, released, env, other, sweepDue, phase, pc, on, want, fresh, holder>>
  BY DEF DrainStop, TeardownFrame, requestVars
<1>3. draining' \in BOOLEAN
  BY DEF DrainStop
<1>4. /\ teardown' \in [Objects -> Stages]
      /\ \A p \in Objects : teardown'[p] = teardown[p] \/ (teardown[p] # "none" /\ teardown'[p] = "lost")
  BY <1>1 DEF DrainStop, Cancelled, TypeOK, Stages
<1>5. TypeOK'
  BY <1>1, <1>2, <1>3, <1>4 DEF TypeOK, Stages
<1>6. ASSUME NEW id \in Ids PROVE IdOK(id)'
  <2>1. CacheOK(id)'
    BY <1>1, <1>2, <1>3, <1>4, NoneIsNothing DEF CacheOK, ObjectOK, UnmadeOK, MadeOK, RequestOK,
       OnOK, StartsOK, TypeOK
  <2>2. EnvOK(id)'
    BY <1>1, <1>2, <1>3, <1>4 DEF EnvOK
  <2>3. QED
    BY <2>1, <2>2 DEF IdOK
<1>7. ASSUME NEW o \in Objects PROVE ObjectOK(o)'
  <2>1. MadeOK(o)'
    BY <1>1, <1>2, <1>3, <1>4 DEF MadeOK, ObjectOK
  <2>2. UnmadeOK(o)'
    BY <1>1, <1>2, <1>3, <1>4, NoneIsNothing DEF UnmadeOK, ObjectOK, TypeOK
  <2>3. ClientOK(o)'
    BY <1>1, <1>2, <1>3, <1>4 DEF ClientOK, ObjectOK
  <2>4. HeldOK(o)'
    BY <1>1, <1>2, <1>3, <1>4, NoneIsNothing DEF HeldOK, ObjectOK, UnmadeOK, MadeOK, CacheOK,
       RequestOK, StartsOK, TypeOK
  <2>5. StartOK(o)'
    BY <1>1, <1>2, <1>3, <1>4 DEF StartOK, ObjectOK
  <2>6. QuietOK(o)'
    BY <1>1, <1>2, <1>3, <1>4 DEF QuietOK, ObjectOK
  <2>7. CliOK(o)'
    BY <1>1, <1>2, <1>3, <1>4 DEF CliOK, ObjectOK
  <2>8. QED
    BY <2>1, <2>2, <2>3, <2>4, <2>5, <2>6, <2>7 DEF ObjectOK
<1>8. ASSUME NEW r \in Requests PROVE RequestOK(r)'
  <2>1. OnOK(r)'
    BY <1>1, <1>2, <1>3, <1>4 DEF OnOK, RequestOK
  <2>2. LockOK(r)'
    BY <1>1, <1>2, <1>3, <1>4 DEF LockOK, RequestOK
  <2>3. StartsOK(r)'
    BY <1>1, <1>2, <1>3, <1>4 DEF StartsOK, RequestOK
  <2>4. QED
    BY <2>1, <2>2, <2>3 DEF RequestOK
<1>9. WithinLimit'
  BY <1>1, <1>2, <1>3, <1>4 DEF IInv, WithinLimit
<1>10. QED
  BY <1>5, <1>6, <1>7, <1>8, <1>9 DEF IInv

LEMMA ShutdownBeginStep ==
    ASSUME IInv, ShutdownBegin PROVE IInv'
<1>1. /\ TypeOK /\ (\A id \in Ids : CacheOK(id) /\ EnvOK(id))
      /\ (\A o \in Objects : ObjectOK(o)) /\ (\A r \in Requests : RequestOK(r))
      /\ 1..created \subseteq Objects
  BY MadeAreObjects DEF IInv, IdOK
<1>2. UNCHANGED <<sessions, created, ident, client, cli, starting, deferred, turn, poisoned,
                expired, released, env, other, sweepDue, pc, on, want, fresh, holder>>
  BY DEF ShutdownBegin, objectVars, requestVars
<1>3. draining' \in BOOLEAN /\ phase' = "settling"
  BY DEF ShutdownBegin
<1>4. /\ teardown' \in [Objects -> Stages]
      /\ \A p \in Objects : teardown'[p] = teardown[p] \/ (teardown[p] # "none" /\ teardown'[p] = "lost")
  BY <1>1 DEF ShutdownBegin, Cancelled, TypeOK, Stages
<1>5. TypeOK'
  BY <1>1, <1>2, <1>3, <1>4 DEF TypeOK, Stages
<1>6. ASSUME NEW id \in Ids PROVE IdOK(id)'
  <2>1. CacheOK(id)'
    BY <1>1, <1>2, <1>3, <1>4, NoneIsNothing DEF CacheOK, ObjectOK, UnmadeOK, MadeOK, RequestOK,
       OnOK, StartsOK, TypeOK
  <2>2. EnvOK(id)'
    BY <1>1, <1>2, <1>3, <1>4 DEF EnvOK
  <2>3. QED
    BY <2>1, <2>2 DEF IdOK
<1>7. ASSUME NEW o \in Objects PROVE ObjectOK(o)'
  <2>1. MadeOK(o)'
    BY <1>1, <1>2, <1>3, <1>4 DEF MadeOK, ObjectOK
  <2>2. UnmadeOK(o)'
    BY <1>1, <1>2, <1>3, <1>4, NoneIsNothing DEF UnmadeOK, ObjectOK, TypeOK
  <2>3. ClientOK(o)'
    BY <1>1, <1>2, <1>3, <1>4 DEF ClientOK, ObjectOK
  <2>4. HeldOK(o)'
    BY <1>1, <1>2, <1>3, <1>4, NoneIsNothing DEF HeldOK, ObjectOK, UnmadeOK, MadeOK, CacheOK,
       RequestOK, StartsOK, TypeOK
  <2>5. StartOK(o)'
    BY <1>1, <1>2, <1>3, <1>4 DEF StartOK, ObjectOK
  <2>6. QuietOK(o)'
    BY <1>1, <1>2, <1>3, <1>4 DEF QuietOK, ObjectOK
  <2>7. CliOK(o)'
    BY <1>1, <1>2, <1>3, <1>4 DEF CliOK, ObjectOK
  <2>8. QED
    BY <2>1, <2>2, <2>3, <2>4, <2>5, <2>6, <2>7 DEF ObjectOK
<1>8. ASSUME NEW r \in Requests PROVE RequestOK(r)'
  <2>1. OnOK(r)'
    BY <1>1, <1>2, <1>3, <1>4 DEF OnOK, RequestOK
  <2>2. LockOK(r)'
    BY <1>1, <1>2, <1>3, <1>4 DEF LockOK, RequestOK
  <2>3. StartsOK(r)'
    BY <1>1, <1>2, <1>3, <1>4 DEF StartsOK, RequestOK
  <2>4. QED
    BY <2>1, <2>2, <2>3 DEF RequestOK
<1>9. WithinLimit'
  BY <1>1, <1>2, <1>3, <1>4 DEF IInv, WithinLimit
<1>10. QED
  BY <1>5, <1>6, <1>7, <1>8, <1>9 DEF IInv

LEMMA OtherTakesStep ==
    ASSUME IInv, NEW i0 \in Ids, OtherTakes(i0) PROVE IInv'
<1>1. /\ TypeOK /\ (\A id \in Ids : CacheOK(id) /\ EnvOK(id))
      /\ (\A o \in Objects : ObjectOK(o)) /\ (\A r \in Requests : RequestOK(r))
      /\ 1..created \subseteq Objects
  BY MadeAreObjects DEF IInv, IdOK
<1>2. UNCHANGED <<sessions, created, ident, client, cli, starting, deferred, turn, poisoned,
                expired, released, env, teardown, draining, sweepDue, phase, pc, on, want, fresh,
                holder>>
  BY DEF OtherTakes, objectVars, requestVars
<1>3. other' = other \cup {i0}
  BY DEF OtherTakes
<1>4. \A o \in Objects : o \in 1..created /\ o \notin released => ident[o] # i0
  BY DEF OtherTakes, Held
<1>5. TypeOK'
  BY <1>1, <1>2, <1>3, <1>4, NoneIsNothing DEF TypeOK
<1>6. ASSUME NEW id \in Ids PROVE IdOK(id)'
  <2>1. CacheOK(id)'
    BY <1>1, <1>2, <1>3, <1>4, NoneIsNothing DEF CacheOK, TypeOK
  <2>2. EnvOK(id)'
    BY <1>1, <1>2, <1>3, <1>4 DEF EnvOK
  <2>3. QED
    BY <2>1, <2>2 DEF IdOK
<1>7. ASSUME NEW o \in Objects PROVE ObjectOK(o)'
  <2>1. MadeOK(o)'
    BY <1>1, <1>2, <1>3, <1>4 DEF MadeOK, ObjectOK
  <2>2. UnmadeOK(o)'
    BY <1>1, <1>2, <1>3, <1>4 DEF UnmadeOK, ObjectOK
  <2>3. ClientOK(o)'
    BY <1>1, <1>2, <1>3, <1>4, NoneIsNothing DEF ClientOK, ObjectOK, UnmadeOK, TypeOK
  <2>4. HeldOK(o)'
    BY <1>1, <1>2, <1>3, <1>4 DEF HeldOK, ObjectOK
  <2>5. StartOK(o)'
    BY <1>1, <1>2, <1>3, <1>4 DEF StartOK, ObjectOK
  <2>6. QuietOK(o)'
    BY <1>1, <1>2, <1>3, <1>4 DEF QuietOK, ObjectOK
  <2>7. CliOK(o)'
    BY <1>1, <1>2, <1>3, <1>4 DEF CliOK, ObjectOK
  <2>8. QED
    BY <2>1, <2>2, <2>3, <2>4, <2>5, <2>6, <2>7 DEF ObjectOK
<1>8. ASSUME NEW r \in Requests PROVE RequestOK(r)'
  <2>1. OnOK(r)'
    BY <1>1, <1>2, <1>3, <1>4 DEF OnOK, RequestOK
  <2>2. LockOK(r)'
    BY <1>1, <1>2, <1>3, <1>4 DEF LockOK, RequestOK
  <2>3. StartsOK(r)'
    BY <1>1, <1>2, <1>3, <1>4 DEF StartsOK, RequestOK
  <2>4. QED
    BY <2>1, <2>2, <2>3 DEF RequestOK
<1>9. WithinLimit'
  BY <1>1, <1>2, <1>3, <1>4 DEF IInv, WithinLimit
<1>10. QED
  BY <1>5, <1>6, <1>7, <1>8, <1>9 DEF IInv

LEMMA OtherReleasesStep ==
    ASSUME IInv, NEW i0 \in Ids, OtherReleases(i0) PROVE IInv'
<1>1. /\ TypeOK /\ (\A id \in Ids : CacheOK(id) /\ EnvOK(id))
      /\ (\A o \in Objects : ObjectOK(o)) /\ (\A r \in Requests : RequestOK(r))
      /\ 1..created \subseteq Objects
  BY MadeAreObjects DEF IInv, IdOK
<1>2. UNCHANGED <<sessions, created, ident, client, cli, starting, deferred, turn, poisoned,
                expired, released, env, teardown, draining, sweepDue, phase, pc, on, want, fresh,
                holder>>
  BY DEF OtherReleases, objectVars, requestVars
<1>3. other' = other \ {i0}
  BY DEF OtherReleases
<1>4. TypeOK'
  BY <1>1, <1>2, <1>3, NoneIsNothing DEF TypeOK
<1>5. ASSUME NEW id \in Ids PROVE IdOK(id)'
  <2>1. CacheOK(id)'
    BY <1>1, <1>2, <1>3, NoneIsNothing DEF CacheOK, ObjectOK, UnmadeOK, MadeOK, RequestOK, OnOK,
       StartsOK, TypeOK
  <2>2. EnvOK(id)'
    BY <1>1, <1>2, <1>3 DEF EnvOK
  <2>3. QED
    BY <2>1, <2>2 DEF IdOK
<1>6. ASSUME NEW o \in Objects PROVE ObjectOK(o)'
  <2>1. MadeOK(o)'
    BY <1>1, <1>2, <1>3 DEF MadeOK, ObjectOK
  <2>2. UnmadeOK(o)'
    BY <1>1, <1>2, <1>3 DEF UnmadeOK, ObjectOK
  <2>3. ClientOK(o)'
    BY <1>1, <1>2, <1>3, NoneIsNothing DEF ClientOK, ObjectOK, UnmadeOK, MadeOK, RequestOK,
       StartsOK, CacheOK, TypeOK
  <2>4. HeldOK(o)'
    BY <1>1, <1>2, <1>3 DEF HeldOK, ObjectOK
  <2>5. StartOK(o)'
    BY <1>1, <1>2, <1>3 DEF StartOK, ObjectOK
  <2>6. QuietOK(o)'
    BY <1>1, <1>2, <1>3 DEF QuietOK, ObjectOK
  <2>7. CliOK(o)'
    BY <1>1, <1>2, <1>3 DEF CliOK, ObjectOK
  <2>8. QED
    BY <2>1, <2>2, <2>3, <2>4, <2>5, <2>6, <2>7 DEF ObjectOK
<1>7. ASSUME NEW r \in Requests PROVE RequestOK(r)'
  <2>1. OnOK(r)'
    BY <1>1, <1>2, <1>3 DEF OnOK, RequestOK
  <2>2. LockOK(r)'
    BY <1>1, <1>2, <1>3 DEF LockOK, RequestOK
  <2>3. StartsOK(r)'
    BY <1>1, <1>2, <1>3 DEF StartsOK, RequestOK
  <2>4. QED
    BY <2>1, <2>2, <2>3 DEF RequestOK
<1>8. WithinLimit'
  BY <1>1, <1>2, <1>3 DEF IInv, WithinLimit
<1>9. QED
  BY <1>4, <1>5, <1>6, <1>7, <1>8 DEF IInv

LEMMA TeardownDoneStep ==
    ASSUME IInv, NEW o0 \in Objects, TeardownDone(o0) PROVE IInv'
<1>1. /\ TypeOK /\ (\A id \in Ids : CacheOK(id) /\ EnvOK(id))
      /\ (\A o \in Objects : ObjectOK(o)) /\ (\A r \in Requests : RequestOK(r))
      /\ 1..created \subseteq Objects
  BY MadeAreObjects DEF IInv, IdOK
<1>2. UNCHANGED <<sessions, created, ident, starting, turn, poisoned, expired, other, draining,
                sweepDue, phase, pc, on, want, fresh, holder>>
  BY DEF TeardownDone, requestVars
<1>3. /\ client' = client \ {o0} /\ cli' = IF o0 \in client THEN cli \ {o0} ELSE cli
      /\ teardown' = [teardown EXCEPT ![o0] = "none"] /\ teardown[o0] # "none"
  BY DEF TeardownDone
<1>4. o0 \in 1..created /\ \A i \in Ids : sessions[i] # o0
  BY <1>1, <1>3, NoneIsNothing DEF ObjectOK, UnmadeOK, CacheOK
<1>5. /\ released' = released \cup ({o0} \ starting) /\ env' \subseteq env
      /\ \A i \in env : sessions[i] # None /\ sessions[i] \notin {o0} => i \in env'
      /\ deferred' \in [Objects -> Deferrals]
  BY <1>1, ReleaseDirsEffect DEF TeardownDone
<1>6. TypeOK'
  BY <1>1, <1>2, <1>3, <1>4, <1>5 DEF TypeOK, Deferrals
<1>7. ASSUME NEW id \in Ids PROVE IdOK(id)'
  <2>1. CacheOK(id)'
    BY <1>1, <1>2, <1>3, <1>4, <1>5, NoneIsNothing DEF CacheOK, ObjectOK, UnmadeOK, MadeOK,
       RequestOK, OnOK, StartsOK, TypeOK
  <2>2. EnvOK(id)'
    <3>1. SUFFICES ASSUME sessions[id] \in client \cup starting PROVE id \in env'
      BY <1>2, <1>3 DEF EnvOK
    <3>2. sessions[id] # None /\ sessions[id] # o0
      BY <1>1, <1>4, <3>1, NoneIsNothing DEF TypeOK
    <3>3. QED
      BY <1>1, <1>5, <3>1, <3>2 DEF EnvOK
  <2>3. QED
    BY <2>1, <2>2 DEF IdOK
<1>8. ASSUME NEW o \in Objects PROVE ObjectOK(o)'
  <2>1. MadeOK(o)'
    BY <1>1, <1>2, <1>3, <1>4, <1>5 DEF MadeOK, ObjectOK
  <2>2. UnmadeOK(o)'
    BY <1>1, <1>2, <1>3, <1>4, <1>5, NoneIsNothing DEF UnmadeOK, ObjectOK, TypeOK
  <2>3. ClientOK(o)'
    BY <1>1, <1>2, <1>3, <1>4, <1>5, NoneIsNothing DEF ClientOK, ObjectOK, UnmadeOK, MadeOK,
       RequestOK, StartsOK, CacheOK, TypeOK
  <2>4. HeldOK(o)'
    BY <1>1, <1>2, <1>3, <1>4, <1>5, NoneIsNothing DEF HeldOK, ObjectOK, UnmadeOK, MadeOK,
       CacheOK, RequestOK, StartsOK, TypeOK
  <2>5. StartOK(o)'
    BY <1>1, <1>2, <1>3, <1>4, <1>5 DEF StartOK, ObjectOK
  <2>6. QuietOK(o)'
    BY <1>1, <1>2, <1>3, <1>4, <1>5 DEF QuietOK, ObjectOK
  <2>7. CliOK(o)'
    BY <1>1, <1>2, <1>3, <1>4, <1>5, NoneIsNothing DEF CliOK, ObjectOK, UnmadeOK, RequestOK,
       LockOK, StartsOK, OnOK, TypeOK
  <2>8. QED
    BY <2>1, <2>2, <2>3, <2>4, <2>5, <2>6, <2>7 DEF ObjectOK
<1>9. ASSUME NEW r \in Requests PROVE RequestOK(r)'
  <2>1. OnOK(r)'
    BY <1>1, <1>2, <1>3, <1>4, <1>5 DEF OnOK, RequestOK
  <2>2. LockOK(r)'
    BY <1>1, <1>2, <1>3, <1>4, <1>5 DEF LockOK, RequestOK
  <2>3. StartsOK(r)'
    BY <1>1, <1>2, <1>3, <1>4, <1>5 DEF StartsOK, RequestOK
  <2>4. QED
    BY <2>1, <2>2, <2>3 DEF RequestOK
<1>10. WithinLimit'
  BY <1>1, <1>2, <1>3, <1>4, <1>5 DEF IInv, WithinLimit
<1>11. QED
  BY <1>6, <1>7, <1>8, <1>9, <1>10 DEF IInv

LEMMA ShutdownEndStep ==
    ASSUME IInv, ShutdownEnd PROVE IInv'
<1>1. /\ TypeOK /\ (\A id \in Ids : CacheOK(id) /\ EnvOK(id))
      /\ (\A o \in Objects : ObjectOK(o)) /\ (\A r \in Requests : RequestOK(r))
      /\ 1..created \subseteq Objects
  BY MadeAreObjects DEF IInv, IdOK
<1>2. UNCHANGED <<created, ident, starting, turn, poisoned, expired, other, teardown, draining,
                sweepDue, pc, on, want, fresh, holder>>
  BY DEF ShutdownEnd, requestVars
<1>3. /\ phase' = "down" /\ sessions' = [i \in Ids |-> None]
      /\ cli' = cli \ (Live(sessions) \cap client) /\ client' = client \ Live(sessions)
  BY DEF ShutdownEnd
<1>4. Live(sessions) \subseteq 1..created /\ \A i \in Ids : sessions[i] # None => sessions[i] \in Live(sessions)
  BY <1>1 DEF CacheOK, Live
<1>5. /\ released' = released \cup (Live(sessions) \ starting) /\ env' \subseteq env
      /\ deferred' \in [Objects -> Deferrals]
  BY <1>1, ReleaseDirsEffect DEF ShutdownEnd
<1>6. TypeOK'
  BY <1>1, <1>2, <1>3, <1>4, <1>5 DEF TypeOK, Deferrals
<1>7. ASSUME NEW id \in Ids PROVE IdOK(id)'
  <2>1. CacheOK(id)'
    BY <1>1, <1>2, <1>3, <1>4, <1>5, NoneIsNothing DEF CacheOK, ObjectOK, UnmadeOK, MadeOK,
       RequestOK, OnOK, StartsOK, TypeOK
  <2>2. EnvOK(id)'
    BY <1>1, <1>2, <1>3, <1>4, <1>5, NoneIsNothing DEF EnvOK, CacheOK, TypeOK
  <2>3. QED
    BY <2>1, <2>2 DEF IdOK
<1>8. ASSUME NEW o \in Objects PROVE ObjectOK(o)'
  <2>1. MadeOK(o)'
    BY <1>1, <1>2, <1>3, <1>4, <1>5 DEF MadeOK, ObjectOK
  <2>2. UnmadeOK(o)'
    BY <1>1, <1>2, <1>3, <1>4, <1>5, NoneIsNothing DEF UnmadeOK, ObjectOK, TypeOK
  <2>3. ClientOK(o)'
    BY <1>1, <1>2, <1>3, <1>4, <1>5, NoneIsNothing DEF ClientOK, ObjectOK, UnmadeOK, MadeOK,
       RequestOK, StartsOK, CacheOK, TypeOK
  <2>4. HeldOK(o)'
    BY <1>1, <1>2, <1>3, <1>4, <1>5, NoneIsNothing DEF HeldOK, ObjectOK, UnmadeOK, MadeOK,
       CacheOK, RequestOK, StartsOK, TypeOK
  <2>5. StartOK(o)'
    BY <1>1, <1>2, <1>3, <1>4, <1>5 DEF StartOK, ObjectOK
  <2>6. QuietOK(o)'
    BY <1>1, <1>2, <1>3, <1>4, <1>5 DEF QuietOK, ObjectOK
  <2>7. CliOK(o)'
    BY <1>1, <1>2, <1>3, <1>4, <1>5, NoneIsNothing DEF CliOK, ObjectOK, UnmadeOK, RequestOK,
       LockOK, StartsOK, OnOK, TypeOK
  <2>8. QED
    BY <2>1, <2>2, <2>3, <2>4, <2>5, <2>6, <2>7 DEF ObjectOK
<1>9. ASSUME NEW r \in Requests PROVE RequestOK(r)'
  <2>1. OnOK(r)'
    BY <1>1, <1>2, <1>3, <1>4, <1>5 DEF OnOK, RequestOK
  <2>2. LockOK(r)'
    BY <1>1, <1>2, <1>3, <1>4, <1>5 DEF LockOK, RequestOK
  <2>3. StartsOK(r)'
    BY <1>1, <1>2, <1>3, <1>4, <1>5, NoneIsNothing DEF StartsOK, RequestOK, OnOK, LockOK,
       ObjectOK, ClientOK, UnmadeOK, MadeOK, CacheOK, HasLock, TypeOK
  <2>4. QED
    BY <2>1, <2>2, <2>3 DEF RequestOK
<1>10. WithinLimit'
  <2>1. \A i \in Ids : sessions'[i] \in {None, sessions[i]}
    BY <1>1, <1>2, <1>3, <1>4, <1>5 DEF TypeOK
  <2>2. QED
    BY <1>6, <2>1, LiveShrinks
<1>11. QED
  BY <1>6, <1>7, <1>8, <1>9, <1>10 DEF IInv

-----------------------------------------------------------------------------
(* A request reaches the cache. *)

\* The session that is stale when id is looked up is cached, and no turn of it
\* is active.
LEMMA StaleIsCached ==
    ASSUME IInv, NEW id \in Ids
    PROVE  /\ Stale(id) \subseteq Live(sessions) /\ Stale(id) \in SUBSET Objects
           /\ \A o \in Stale(id) : Cached(o) /\ IsExpired(o)
<1>1. Live(sessions) \subseteq Objects
  BY LiveIsFinite DEF IInv, TypeOK
<1>2. Stale(id) \subseteq Live(sessions) /\ \A o \in Stale(id) : IsExpired(o)
  BY DEF Stale, Live
<1>3. QED
  BY <1>1, <1>2 DEF Cached

\* The cache without the objects of R.
LEMMA DropLive ==
    ASSUME NEW c \in [Ids -> Objects \cup {None}], NEW R \in SUBSET Objects
    PROVE  /\ Drop(c, R) \in [Ids -> Objects \cup {None}]
           /\ Live(Drop(c, R)) = Live(c) \ R
  BY NoneIsNothing DEF Drop, Live

\* A lookup that misses: an expired session leaves.
LEMMA MissIsRemoval ==
    ASSUME IInv, NEW q \in Requests, NEW id \in Ids, NEW next, Miss(q, id, next)
    PROVE  \E R : Removal(R, sessions') /\ \A o \in R : IsExpired(o)
<1>1. Stale(id) \in SUBSET Objects /\ \A o \in Stale(id) : Cached(o) /\ IsExpired(o)
  BY StaleIsCached
<1>2. sessions' = Drop(sessions, Stale(id)) /\ TakeOut(Stale(id), sessions')
  BY DEF Miss
<1>3. Removal(Stale(id), sessions')
  BY <1>1, <1>2, TakeOutIsRemoval
<1>4. QED
  BY <1>1, <1>3

\* Whom _try_evict_lru_locked may choose: nobody, or one idle session, and then
\* the cache was full.
LEMMA VictimsAreIdle ==
    ASSUME NEW c, NEW V \in Victims(c)
    PROVE  /\ V \subseteq Live(c) /\ \A o \in V : turn[o] = "none"
           /\ V = {} \/ \E o \in Live(c) : V = {o}
  BY DEF Victims

\* get_or_create_session and _admit_rehydrated: some sessions without an active
\* turn leave, and then a new object enters within the cap, or none does.
LEMMA EnterEffect ==
    ASSUME IInv, NEW q \in Requests, NEW id \in Ids, sessions[id] \in {None} \cup Stale(id),
           Enter(q, id)
    PROVE  \E R, c :
             /\ Removal(R, c) /\ (\A o \in R : turn[o] # "active") /\ c[id] = None
             /\ sweepDue' \in BOOLEAN
             /\ \/ /\ created < NumObjects /\ created' = created + 1 /\ id \notin other
                   /\ sessions' = [c EXCEPT ![id] = created + 1]
                   /\ ident' = [ident EXCEPT ![created + 1] = id]
                   /\ pc' = [pc EXCEPT ![q] = "has"] /\ on' = [on EXCEPT ![q] = created + 1]
                   /\ Limit > 0 => Cardinality(Live(c)) < Limit
                \/ /\ sessions' = c /\ pc' = [pc EXCEPT ![q] = "done"]
                   /\ UNCHANGED <<created, ident, on>>
<1> DEFINE c1 == Drop(sessions, Stale(id))
           c2 == Drop(c1, Purged(c1))
           Admitted(V) == (~Full(c2) \/ V # {}) /\ ~draining /\ id \notin other
<1>1. PICK V \in Victims(c2) :
        /\ TakeOut(Stale(id) \cup Purged(c1) \cup V, Drop(c2, V))
        /\ sweepDue' = (sweepDue \/ (/\ Full(c2) /\ \E o \in Live(Drop(c2, V)) : IsExpired(o)
                                     /\ \A o \in Objects : teardown[o] # "sweep"))
        /\ \/ /\ Admitted(V) /\ created < NumObjects /\ created' = created + 1
              /\ sessions' = [Drop(c2, V) EXCEPT ![id] = created + 1]
              /\ ident' = [ident EXCEPT ![created + 1] = id]
              /\ pc' = [pc EXCEPT ![q] = "has"] /\ on' = [on EXCEPT ![q] = created + 1]
           \/ /\ ~Admitted(V) /\ sessions' = Drop(c2, V) /\ pc' = [pc EXCEPT ![q] = "done"]
              /\ UNCHANGED <<created, ident, on>>
  BY DEF Enter
<1> DEFINE c3 == Drop(c2, V)
           R == Stale(id) \cup Purged(c1) \cup V
<1>2. sessions \in [Ids -> Objects \cup {None}] /\ Live(sessions) \subseteq Objects
  BY LiveIsFinite DEF IInv, TypeOK
<1>3. Stale(id) \subseteq Live(sessions) /\ Stale(id) \in SUBSET Objects /\ \A o \in Stale(id) : IsExpired(o)
  BY StaleIsCached
<1>4. c1 \in [Ids -> Objects \cup {None}] /\ Live(c1) = Live(sessions) \ Stale(id)
  BY <1>2, <1>3, DropLive
<1>5. Purged(c1) \subseteq Live(c1) /\ \A o \in Purged(c1) : IsExpired(o)
  BY DEF Purged
<1>6. c2 \in [Ids -> Objects \cup {None}] /\ Live(c2) = Live(c1) \ Purged(c1)
  <2>1. Purged(c1) \in SUBSET Objects
    BY <1>2, <1>4, <1>5
  <2>2. QED
    BY <1>4, <2>1, DropLive
<1>7. V \subseteq Live(c2) /\ (\A o \in V : turn[o] = "none") /\ (V = {} \/ \E o \in Live(c2) : V = {o})
  BY <1>1, VictimsAreIdle
<1>8. c3 \in [Ids -> Objects \cup {None}] /\ Live(c3) = Live(c2) \ V
  <2>1. V \in SUBSET Objects
    BY <1>2, <1>4, <1>6, <1>7
  <2>2. QED
    BY <1>6, <2>1, DropLive
<1>9. R \in SUBSET Objects /\ \A o \in R : Cached(o) /\ turn[o] # "active"
  <2>1. R \subseteq Live(sessions)
    BY <1>3, <1>4, <1>5, <1>6, <1>7
  <2>2. \A o \in R : turn[o] # "active"
    BY <1>3, <1>5, <1>7 DEF IsExpired
  <2>3. QED
    BY <1>2, <2>1, <2>2 DEF Cached
<1>10. c3 = Drop(sessions, R) /\ c3[id] = None
  <2>1. \A i \in Ids : c3[i] = IF sessions[i] \in R THEN None ELSE sessions[i]
    <3>1. None \notin R
      BY <1>9, NoneIsNothing
    <3>2. QED
      BY <3>1 DEF Drop
  <2>2. c3 = [i \in Ids |-> IF sessions[i] \in R THEN None ELSE sessions[i]]
    BY <1>8, <2>1
  <2>3. QED
    BY <2>1, <2>2 DEF Drop
<1>11. Removal(R, c3)
  BY <1>1, <1>9, <1>10, TakeOutIsRemoval
<1>12. ASSUME Admitted(V), Limit > 0 PROVE Cardinality(Live(c3)) < Limit
  <2>1. Live(c2) \in SUBSET Live(sessions)
    BY <1>4, <1>6
  <2>2. /\ IsFiniteSet(Live(c2)) /\ Cardinality(Live(c2)) \in Nat /\ Limit \in Nat
        /\ Cardinality(Live(c3)) \in Nat /\ IsFiniteSet(Live(sessions))
        /\ Cardinality(Live(sessions)) \in Nat
    BY <1>2, <1>6, <1>8, LiveIsFinite, SessionAssumption
  <2>3. Cardinality(Live(c2)) <= Limit
    BY <1>12, <2>1, <2>2, FS_Subset DEF IInv, WithinLimit
  <2>4. CASE V = {}
    BY <1>8, <1>12, <2>2, <2>4 DEF Full
  <2>5. CASE V # {}
    <3>1. PICK o \in Live(c2) : V = {o}
      BY <1>7, <2>5
    <3>2. Cardinality(Live(c2) \ {o}) = Cardinality(Live(c2)) - 1
      BY <2>2, FS_RemoveElement
    <3>3. QED
      BY <1>8, <2>2, <2>3, <3>1, <3>2
  <2>6. QED
    BY <2>4, <2>5
<1>13. sweepDue' \in BOOLEAN
  BY <1>1
<1> HIDE DEF c1, c2, c3, R
<1>14. \/ /\ Admitted(V) /\ created < NumObjects /\ created' = created + 1
          /\ sessions' = [c3 EXCEPT ![id] = created + 1]
          /\ ident' = [ident EXCEPT ![created + 1] = id]
          /\ pc' = [pc EXCEPT ![q] = "has"] /\ on' = [on EXCEPT ![q] = created + 1]
       \/ /\ ~Admitted(V) /\ sessions' = c3 /\ pc' = [pc EXCEPT ![q] = "done"]
          /\ UNCHANGED <<created, ident, on>>
  BY <1>1 DEF c3
<1>15. QED
  BY <1>9, <1>10, <1>11, <1>12, <1>13, <1>14

\* A lookup that ends without a session, or reads the transcript next.
LEMMA LeaveStep ==
    ASSUME IInv, NEW q \in Requests, pc[q] \in {"idle", "reading"}, want' \in [Requests -> Ids
       \cup {None}], (\A r \in Requests \ {q} : want'[r] = want[r]), want'[q] \in Ids, fresh'
       \subseteq Requests, sweepDue' \in BOOLEAN, NEW R, Removal(R, sessions'), NEW label \in
       {"reading", "done"}, pc' = [pc EXCEPT ![q] = label], UNCHANGED <<created, ident, client,
       cli, starting, turn, poisoned, other, draining, phase, on, holder>>, expired' \subseteq
       Objects PROVE IInv'
<1>1. /\ TypeOK /\ (\A id \in Ids : CacheOK(id) /\ EnvOK(id))
      /\ (\A o \in Objects : ObjectOK(o)) /\ (\A r \in Requests : RequestOK(r))
      /\ 1..created \subseteq Objects
  BY MadeAreObjects DEF IInv, IdOK
<1>2. UNCHANGED <<created, ident, client, cli, starting, turn, poisoned, other, draining,
                phase, on, holder>>
  OBVIOUS
<1>3. Removal(R, sessions')
  OBVIOUS
<1>4. pc' = [pc EXCEPT ![q] = label] /\ pc[q] \in {"idle", "reading"}
  OBVIOUS
<1>5. /\ want' \in [Requests -> Ids \cup {None}] /\ \A r \in Requests \ {q} : want'[r] = want[r]
      /\ want'[q] \in Ids /\ fresh' \subseteq Requests /\ sweepDue' \in BOOLEAN
  OBVIOUS
<1>6. TypeOK'
  BY <1>1, <1>2, <1>3, <1>4, <1>5 DEF TypeOK, Removal, Stages, Deferrals
<1>7. ASSUME NEW id \in Ids PROVE IdOK(id)'
  <2>1. CacheOK(id)'
    BY <1>1, <1>2, <1>3, <1>4, <1>5, NoneIsNothing DEF CacheOK, Removal, TypeOK
  <2>2. EnvOK(id)'
    <3>1. SUFFICES ASSUME sessions'[id] \in client \cup starting PROVE id \in env'
      BY <1>2 DEF EnvOK
    <3>2. sessions'[id] = sessions[id] /\ sessions[id] # None
      BY <1>1, <1>3, <3>1, NoneIsNothing DEF TypeOK, Removal
    <3>3. QED
      BY <1>1, <1>3, <3>1, <3>2 DEF EnvOK, Removal
  <2>3. QED
    BY <2>1, <2>2 DEF IdOK
<1>8. ASSUME NEW o \in Objects PROVE ObjectOK(o)'
  <2>1. MadeOK(o)'
    BY <1>1, <1>2, <1>3, <1>4, <1>5 DEF MadeOK, ObjectOK
  <2>2. UnmadeOK(o)'
    BY <1>1, <1>2, <1>3, <1>4, <1>5, NoneIsNothing DEF UnmadeOK, ObjectOK, Removal, TypeOK
  <2>3. ClientOK(o)'
    BY <1>1, <1>2, <1>3, <1>4, <1>5, NoneIsNothing DEF ClientOK, ObjectOK, Removal, TypeOK
  <2>4. HeldOK(o)'
    BY <1>1, <1>2, <1>3, <1>4, <1>5, NoneIsNothing DEF HeldOK, ObjectOK, CacheOK, MadeOK, Removal,
       TypeOK
  <2>5. StartOK(o)'
    BY <1>1, <1>2, <1>3, <1>4, <1>5 DEF StartOK, ObjectOK
  <2>6. QuietOK(o)'
    BY <1>1, <1>2, <1>3, <1>4, <1>5 DEF QuietOK, ObjectOK
  <2>7. CliOK(o)'
    BY <1>1, <1>2, <1>3, <1>4, <1>5, NoneIsNothing DEF CliOK, ObjectOK, UnmadeOK, RequestOK,
       LockOK, StartsOK, OnOK, TypeOK
  <2>8. QED
    BY <2>1, <2>2, <2>3, <2>4, <2>5, <2>6, <2>7 DEF ObjectOK
<1>9. ASSUME NEW r \in Requests PROVE RequestOK(r)'
  <2>1. OnOK(r)'
    BY <1>1, <1>2, <1>3, <1>4, <1>5, NoneIsNothing DEF OnOK, RequestOK, CacheOK, HasLock, TypeOK
  <2>2. LockOK(r)'
    BY <1>1, <1>2, <1>3, <1>4, <1>5, NoneIsNothing DEF LockOK, RequestOK, HasLock, TypeOK
  <2>3. StartsOK(r)'
    BY <1>1, <1>2, <1>3, <1>4, <1>5, NoneIsNothing DEF StartsOK, RequestOK, ObjectOK, MadeOK,
       OnOK, Removal, TypeOK
  <2>4. QED
    BY <2>1, <2>2, <2>3 DEF RequestOK
<1>10. WithinLimit'
  <2>1. \A i \in Ids : sessions'[i] \in {None, sessions[i]}
    BY <1>3 DEF Removal
  <2>2. QED
    BY <1>6, <2>1, LiveShrinks
<1>11. QED
  BY <1>6, <1>7, <1>8, <1>9, <1>10 DEF IInv

\* A lookup that finds the session.
LEMMA HitStep ==
    ASSUME IInv, NEW q \in Requests, pc[q] \in {"idle", "reading"}, want' \in [Requests -> Ids
       \cup {None}], (\A r \in Requests \ {q} : want'[r] = want[r]), want'[q] \in Ids, fresh'
       \subseteq Requests, sweepDue' \in BOOLEAN, NEW i0 \in Ids, sessions[i0] # None, expired' =
       expired \ {sessions[i0]}, pc' = [pc EXCEPT ![q] = "has"], on' = [on EXCEPT ![q] =
       sessions[i0]], UNCHANGED <<sessions, created, ident, client, cli, starting, deferred, turn,
       poisoned, released, env, other, teardown, draining, phase, holder>> PROVE IInv'
<1>1. /\ TypeOK /\ (\A id \in Ids : CacheOK(id) /\ EnvOK(id))
      /\ (\A o \in Objects : ObjectOK(o)) /\ (\A r \in Requests : RequestOK(r))
      /\ 1..created \subseteq Objects
  BY MadeAreObjects DEF IInv, IdOK
<1>2. UNCHANGED <<sessions, created, ident, client, cli, starting, deferred, turn, poisoned,
                released, env, other, teardown, draining, phase, holder>>
  OBVIOUS
<1>3. /\ pc' = [pc EXCEPT ![q] = "has"] /\ on' = [on EXCEPT ![q] = sessions[i0]]
      /\ expired' = expired \ {sessions[i0]} /\ pc[q] \in {"idle", "reading"}
  OBVIOUS
<1>4. /\ want' \in [Requests -> Ids \cup {None}] /\ \A r \in Requests \ {q} : want'[r] = want[r]
      /\ want'[q] \in Ids /\ fresh' \subseteq Requests /\ sweepDue' \in BOOLEAN
  OBVIOUS
<1>5. sessions[i0] \in Objects /\ sessions[i0] \in 1..created
  BY <1>1 DEF CacheOK, TypeOK
<1>6. TypeOK'
  BY <1>1, <1>2, <1>3, <1>4, <1>5, NoneIsNothing DEF TypeOK
<1>7. ASSUME NEW id \in Ids PROVE IdOK(id)'
  <2>1. CacheOK(id)'
    BY <1>1, <1>2, <1>3, <1>4, <1>5 DEF CacheOK
  <2>2. EnvOK(id)'
    BY <1>1, <1>2, <1>3, <1>4, <1>5 DEF EnvOK
  <2>3. QED
    BY <2>1, <2>2 DEF IdOK
<1>8. ASSUME NEW o \in Objects PROVE ObjectOK(o)'
  <2>1. MadeOK(o)'
    BY <1>1, <1>2, <1>3, <1>4, <1>5 DEF MadeOK, ObjectOK
  <2>2. UnmadeOK(o)'
    BY <1>1, <1>2, <1>3, <1>4, <1>5 DEF UnmadeOK, ObjectOK
  <2>3. ClientOK(o)'
    BY <1>1, <1>2, <1>3, <1>4, <1>5 DEF ClientOK, ObjectOK
  <2>4. HeldOK(o)'
    BY <1>1, <1>2, <1>3, <1>4, <1>5 DEF HeldOK, ObjectOK
  <2>5. StartOK(o)'
    BY <1>1, <1>2, <1>3, <1>4, <1>5 DEF StartOK, ObjectOK
  <2>6. QuietOK(o)'
    BY <1>1, <1>2, <1>3, <1>4, <1>5 DEF QuietOK, ObjectOK
  <2>7. CliOK(o)'
    BY <1>1, <1>2, <1>3, <1>4, <1>5, NoneIsNothing DEF CliOK, ObjectOK, UnmadeOK, RequestOK,
       LockOK, StartsOK, OnOK, TypeOK
  <2>8. QED
    BY <2>1, <2>2, <2>3, <2>4, <2>5, <2>6, <2>7 DEF ObjectOK
<1>9. ASSUME NEW r \in Requests PROVE RequestOK(r)'
  <2>1. OnOK(r)'
    BY <1>1, <1>2, <1>3, <1>4, <1>5, NoneIsNothing DEF OnOK, RequestOK, CacheOK, HasLock, TypeOK
  <2>2. LockOK(r)'
    BY <1>1, <1>2, <1>3, <1>4, <1>5, NoneIsNothing DEF LockOK, RequestOK, HasLock, TypeOK
  <2>3. StartsOK(r)'
    BY <1>1, <1>2, <1>3, <1>4, <1>5, NoneIsNothing DEF StartsOK, RequestOK, OnOK, LockOK,
       ObjectOK, ClientOK, UnmadeOK, MadeOK, CacheOK, HasLock, TypeOK
  <2>4. QED
    BY <2>1, <2>2, <2>3 DEF RequestOK
<1>10. WithinLimit'
  BY <1>1, <1>2, <1>3, <1>4, <1>5 DEF IInv, WithinLimit
<1>11. QED
  BY <1>6, <1>7, <1>8, <1>9, <1>10 DEF IInv

\* A lookup that opens a session: a new object enters the cache.
LEMMA EnterStep ==
    ASSUME IInv, NEW q \in Requests, pc[q] \in {"idle", "reading"}, want' \in [Requests -> Ids
       \cup {None}], (\A r \in Requests \ {q} : want'[r] = want[r]), want'[q] \in Ids, fresh'
       \subseteq Requests, sweepDue' \in BOOLEAN, NEW i0 \in Ids, NEW R, NEW c, Removal(R, c),
       c[i0] = None, created < NumObjects, created' = created + 1, i0 \notin other, sessions' = [c
       EXCEPT ![i0] = created + 1], ident' = [ident EXCEPT ![created + 1] = i0], pc' = [pc EXCEPT
       ![q] = "has"], on' = [on EXCEPT ![q] = created + 1], Limit > 0 => Cardinality(Live(c)) <
       Limit, UNCHANGED <<client, cli, starting, turn, poisoned, expired, other, draining, phase,
       holder>> PROVE IInv'
<1>1. /\ TypeOK /\ (\A id \in Ids : CacheOK(id) /\ EnvOK(id))
      /\ (\A o \in Objects : ObjectOK(o)) /\ (\A r \in Requests : RequestOK(r))
      /\ 1..created \subseteq Objects
  BY MadeAreObjects DEF IInv, IdOK
<1>2. UNCHANGED <<client, cli, starting, turn, poisoned, expired, other, draining, phase,
                holder>>
  OBVIOUS
<1>3. PICK n \in Objects : n \notin 1..created /\ 1..created' = 1..created \cup {n} /\ n = created + 1
  BY <1>1, SessionAssumption DEF TypeOK, Objects
<1>4. /\ c \in [Ids -> Objects \cup {None}] /\ c[i0] = None /\ i0 \notin other
      /\ sessions' = [c EXCEPT ![i0] = n] /\ ident' = [ident EXCEPT ![n] = i0]
  BY <1>1, <1>3 DEF Removal, TypeOK
<1>5. /\ pc' = [pc EXCEPT ![q] = "has"] /\ on' = [on EXCEPT ![q] = n] /\ pc[q] \in {"idle", "reading"}
  BY <1>3
<1>6. /\ want' \in [Requests -> Ids \cup {None}] /\ \A r \in Requests \ {q} : want'[r] = want[r]
      /\ want'[q] \in Ids /\ fresh' \subseteq Requests /\ sweepDue' \in BOOLEAN
  OBVIOUS
<1>7. /\ R \subseteq 1..created /\ teardown' \in [Objects -> Stages] /\ deferred' \in [Objects -> Deferrals]
      /\ \A o \in Objects \ R : teardown'[o] = teardown[o]
      /\ \A o \in R : teardown'[o] # "none" \/ o \in released' \/ o \in starting
  BY DEF Removal
<1>8. /\ \A i \in Ids : c[i] = IF sessions[i] \in R THEN None ELSE sessions[i]
      /\ released \subseteq released' /\ released' \subseteq Objects
      /\ \A o \in released' \ released : o \in R /\ o \notin client /\ o \notin starting
  BY <1>1 DEF Removal, TypeOK
<1>9. env' \subseteq env /\ \A i \in env : c[i] # None => i \in env'
  BY DEF Removal
<1>10. TypeOK'
  <2>1. created' \in 0..NumObjects /\ sessions' \in [Ids -> Objects \cup {None}]
    BY <1>1, <1>3, <1>4, SessionAssumption DEF TypeOK
  <2>2. ident' \in [Objects -> Ids \cup {None}] /\ on' \in [Requests -> Objects \cup {None}]
    BY <1>1, <1>4, <1>5 DEF TypeOK
  <2>3. QED
    BY <1>1, <1>2, <1>5, <1>6, <1>7, <1>8, <1>9, <2>1, <2>2 DEF TypeOK, Stages, Deferrals
<1>11. ASSUME NEW id \in Ids PROVE IdOK(id)'
  <2>1. CacheOK(id)'
    BY <1>1, <1>2, <1>3, <1>4, <1>5, <1>6, <1>7, <1>8, <1>9, NoneIsNothing DEF CacheOK, ObjectOK,
       UnmadeOK, MadeOK, RequestOK, OnOK, StartsOK, TypeOK
  <2>2. EnvOK(id)'
    <3>1. SUFFICES ASSUME sessions'[id] \in client \cup starting PROVE id \in env'
      BY <1>2 DEF EnvOK
    <3>2. n \notin client \cup starting
      BY <1>1, <1>3 DEF ObjectOK, UnmadeOK
    <3>3. sessions'[id] = sessions[id] /\ c[id] = sessions[id] /\ c[id] # None
      BY <1>1, <1>4, <1>8, <3>1, <3>2, NoneIsNothing DEF TypeOK
    <3>4. QED
      BY <1>1, <1>9, <3>1, <3>3 DEF EnvOK
  <2>3. QED
    BY <2>1, <2>2 DEF IdOK
<1>12. ASSUME NEW o \in Objects PROVE ObjectOK(o)'
  <2>1. MadeOK(o)'
    BY <1>1, <1>2, <1>3, <1>4, <1>5, <1>6, <1>7, <1>8, <1>9, NoneIsNothing DEF MadeOK, ObjectOK,
       TypeOK
  <2>2. UnmadeOK(o)'
    BY <1>1, <1>2, <1>3, <1>4, <1>5, <1>6, <1>7, <1>8, <1>9, NoneIsNothing DEF UnmadeOK, ObjectOK,
       TypeOK
  <2>3. ClientOK(o)'
    BY <1>1, <1>2, <1>3, <1>4, <1>5, <1>6, <1>7, <1>8, <1>9, NoneIsNothing DEF ClientOK, ObjectOK,
       UnmadeOK, MadeOK, RequestOK, StartsOK, CacheOK, TypeOK
  <2>4. HeldOK(o)'
    BY <1>1, <1>2, <1>3, <1>4, <1>5, <1>6, <1>7, <1>8, <1>9, NoneIsNothing DEF HeldOK, ObjectOK,
       UnmadeOK, MadeOK, CacheOK, RequestOK, StartsOK, TypeOK
  <2>5. StartOK(o)'
    BY <1>1, <1>2, <1>3, <1>4, <1>5, <1>6, <1>7, <1>8, <1>9 DEF StartOK, ObjectOK
  <2>6. QuietOK(o)'
    BY <1>1, <1>2, <1>3, <1>4, <1>5, <1>6, <1>7, <1>8, <1>9 DEF QuietOK, ObjectOK
  <2>7. CliOK(o)'
    BY <1>1, <1>2, <1>3, <1>4, <1>5, <1>6, <1>7, <1>8, <1>9, NoneIsNothing DEF CliOK, ObjectOK,
       UnmadeOK, RequestOK, LockOK, StartsOK, OnOK, TypeOK
  <2>8. QED
    BY <2>1, <2>2, <2>3, <2>4, <2>5, <2>6, <2>7 DEF ObjectOK
<1>13. ASSUME NEW r \in Requests PROVE RequestOK(r)'
  <2>1. OnOK(r)'
    BY <1>1, <1>2, <1>3, <1>4, <1>5, <1>6, <1>7, <1>8, <1>9, NoneIsNothing DEF OnOK, RequestOK,
       CacheOK, HasLock, TypeOK
  <2>2. LockOK(r)'
    BY <1>1, <1>2, <1>3, <1>4, <1>5, <1>6, <1>7, <1>8, <1>9, NoneIsNothing DEF LockOK, RequestOK,
       HasLock, TypeOK
  <2>3. StartsOK(r)'
    BY <1>1, <1>2, <1>3, <1>4, <1>5, <1>6, <1>7, <1>8, <1>9, NoneIsNothing DEF StartsOK,
       RequestOK, OnOK, LockOK, ObjectOK, ClientOK, UnmadeOK, MadeOK, CacheOK, HasLock, TypeOK
  <2>4. QED
    BY <2>1, <2>2, <2>3 DEF RequestOK
<1>14. WithinLimit'
  <2>1. Live(sessions') = Live(c) \cup {n}
    BY <1>3, <1>4, NoneIsNothing DEF Live
  <2>2. IsFiniteSet(Live(c)) /\ Cardinality(Live(c)) \in Nat
    BY <1>4, LiveIsFinite
  <2>3. Cardinality(Live(c) \cup {n}) = IF n \in Live(c) THEN Cardinality(Live(c)) ELSE Cardinality(Live(c)) + 1
    BY <2>2, FS_AddElement
  <2>4. ASSUME Limit > 0 PROVE Cardinality(Live(sessions')) <= Limit
    <3>1. Cardinality(Live(c)) < Limit /\ Limit \in Nat
      BY <2>4, SessionAssumption
    <3>2. \A k, m \in Nat : k < m => k <= m /\ k + 1 <= m
      OBVIOUS
    <3>3. QED
      BY <2>1, <2>2, <2>3, <3>1, <3>2
  <2>5. QED
    BY <2>4 DEF WithinLimit
<1>15. QED
  BY <1>10, <1>11, <1>12, <1>13, <1>14 DEF IInv

\* A session with an active turn that is cached stays cached.
Pinned == \A o \in Objects : Cached(o) /\ turn[o] = "active" => Cached(o)'

LEMMA RemovalPins ==
    ASSUME NEW R, Removal(R, sessions'), \A o \in R : turn[o] # "active" PROVE Pinned
<1>1. \A i \in Ids : sessions[i] \notin R => sessions'[i] = sessions[i]
  BY DEF Removal
<1>2. QED
  BY <1>1 DEF Pinned, Cached, Live

LEMMA EnterPins ==
    ASSUME IInv, NEW R, NEW c, Removal(R, c), \A o \in R : turn[o] # "active",
           NEW i0 \in Ids, c[i0] = None, NEW n, sessions' = [c EXCEPT ![i0] = n]
    PROVE  Pinned
<1>1. ASSUME NEW o \in Objects, NEW i \in Ids, sessions[i] = o, turn[o] = "active"
      PROVE  sessions'[i] = o
  <2>1. c[i] = o /\ c \in [Ids -> Objects \cup {None}]
    BY <1>1 DEF Removal, IInv, TypeOK
  <2>2. i # i0
    BY <1>1, <2>1, NoneIsNothing
  <2>3. QED
    BY <2>1, <2>2
<1>2. QED
  BY <1>1, NoneIsNothing DEF Pinned, Cached, Live

\* A request that enters the cache under id, or is refused.
LEMMA EnterKeeps ==
    ASSUME IInv, NEW q \in Requests, pc[q] \in {"idle", "reading"}, NEW i0 \in Ids,
           sessions[i0] \in {None} \cup Stale(i0), Enter(q, i0),
           want' \in [Requests -> Ids \cup {None}],
           (\A r \in Requests \ {q} : want'[r] = want[r]), want'[q] \in Ids,
           fresh' \subseteq Requests,
           UNCHANGED <<client, cli, starting, turn, poisoned, expired, other, draining, phase, holder>>
    PROVE  IInv' /\ Pinned
<1>1. PICK R, c :
        /\ Removal(R, c) /\ (\A o \in R : turn[o] # "active") /\ c[i0] = None
        /\ sweepDue' \in BOOLEAN
        /\ \/ /\ created < NumObjects /\ created' = created + 1 /\ i0 \notin other
              /\ sessions' = [c EXCEPT ![i0] = created + 1]
              /\ ident' = [ident EXCEPT ![created + 1] = i0]
              /\ pc' = [pc EXCEPT ![q] = "has"] /\ on' = [on EXCEPT ![q] = created + 1]
              /\ Limit > 0 => Cardinality(Live(c)) < Limit
           \/ /\ sessions' = c /\ pc' = [pc EXCEPT ![q] = "done"]
              /\ UNCHANGED <<created, ident, on>>
  BY EnterEffect
<1>2. expired' \subseteq Objects /\ sweepDue' \in BOOLEAN
  BY <1>1 DEF IInv, TypeOK
<1>3. CASE /\ created < NumObjects /\ created' = created + 1 /\ i0 \notin other
           /\ sessions' = [c EXCEPT ![i0] = created + 1]
           /\ ident' = [ident EXCEPT ![created + 1] = i0]
           /\ pc' = [pc EXCEPT ![q] = "has"] /\ on' = [on EXCEPT ![q] = created + 1]
           /\ (Limit > 0 => Cardinality(Live(c)) < Limit)
  <2>1. IInv'
    BY <1>1, <1>2, <1>3, EnterStep
  <2>2. Pinned
    BY <1>1, <1>3, EnterPins
  <2>3. QED
    BY <2>1, <2>2
<1>4. CASE sessions' = c /\ pc' = [pc EXCEPT ![q] = "done"] /\ UNCHANGED <<created, ident, on>>
  BY <1>1, <1>2, <1>4, LeaveStep, RemovalPins
<1>5. QED
  BY <1>1, <1>3, <1>4

\* A lookup that hits or misses the cache.
LEMMA LookupKeeps ==
    ASSUME IInv, NEW q \in Requests, pc[q] \in {"idle", "reading"}, NEW i0 \in Ids,
           NEW label \in {"reading", "done"}, Hit(q, i0) \/ Miss(q, i0, label),
           want' \in [Requests -> Ids \cup {None}],
           (\A r \in Requests \ {q} : want'[r] = want[r]), want'[q] \in Ids,
           UNCHANGED <<client, cli, starting, turn, poisoned, other, draining, phase, fresh, holder>>
    PROVE  IInv' /\ Pinned
<1>1. fresh' \subseteq Requests /\ sweepDue' \in BOOLEAN
  BY DEF Hit, Miss, IInv, TypeOK
<1>2. CASE Hit(q, i0)
  <2>1. IInv'
    BY <1>1, <1>2, HitStep DEF Hit
  <2>2. Pinned
    BY <1>2 DEF Hit, Pinned, Cached
  <2>3. QED
    BY <2>1, <2>2
<1>3. CASE Miss(q, i0, label)
  <2>1. PICK R : Removal(R, sessions') /\ \A o \in R : IsExpired(o)
    BY <1>3, MissIsRemoval
  <2>2. UNCHANGED <<created, ident, expired, on, sweepDue>> /\ pc' = [pc EXCEPT ![q] = label]
    BY <1>3 DEF Miss
  <2>3. expired' \subseteq Objects
    BY <2>2 DEF IInv, TypeOK
  <2>4. IInv'
    BY <1>1, <2>1, <2>2, <2>3, LeaveStep
  <2>5. Pinned
    BY <2>1, RemovalPins DEF IsExpired
  <2>6. QED
    BY <2>4, <2>5
<1>4. QED
  BY <1>2, <1>3

LEMMA NewSessionStep ==
    ASSUME IInv, NEW q \in Requests, NewSession(q) PROVE IInv' /\ Pinned
<1>1. PICK id \in Ids : /\ \A o \in Objects : ident[o] # id
                        /\ want' = [want EXCEPT ![q] = id] /\ Enter(q, id)
  BY DEF NewSession
<1>2. sessions[id] = None
  BY <1>1 DEF IInv, TypeOK, IdOK, CacheOK
<1>3. /\ want' \in [Requests -> Ids \cup {None}] /\ (\A r \in Requests \ {q} : want'[r] = want[r])
      /\ want'[q] \in Ids /\ fresh' \subseteq Requests
  BY <1>1 DEF NewSession, IInv, TypeOK
<1>4. QED
  BY <1>1, <1>2, <1>3, EnterKeeps DEF NewSession

LEMMA ContinueStep ==
    ASSUME IInv, NEW q \in Requests, Continue(q) PROVE IInv' /\ Pinned
<1>1. PICK id \in {ident[o] : o \in 1..created} :
        want' = [want EXCEPT ![q] = id] /\ (Hit(q, id) \/ Miss(q, id, AfterMiss(id)))
  BY DEF Continue
<1>2. id \in Ids /\ AfterMiss(id) \in {"reading", "done"}
  BY <1>1, MadeAreObjects DEF IInv, ObjectOK, MadeOK, AfterMiss
<1>3. /\ want' \in [Requests -> Ids \cup {None}] /\ (\A r \in Requests \ {q} : want'[r] = want[r])
      /\ want'[q] \in Ids
  BY <1>1, <1>2 DEF IInv, TypeOK
<1>4. QED
  BY <1>1, <1>2, <1>3, LookupKeeps DEF Continue

LEMMA RehydrateStep ==
    ASSUME IInv, NEW q \in Requests, Rehydrate(q) PROVE IInv' /\ Pinned
<1>1. want[q] \in Ids
  BY DEF Rehydrate, IInv, RequestOK, OnOK
<1>2. /\ want' \in [Requests -> Ids \cup {None}] /\ (\A r \in Requests \ {q} : want'[r] = want[r])
      /\ want'[q] \in Ids /\ fresh' \subseteq Requests
  BY <1>1 DEF Rehydrate, IInv, TypeOK
<1>3. CASE Hit(q, want[q]) \/ Miss(q, want[q], "done")
  BY <1>1, <1>2, <1>3, LookupKeeps DEF Rehydrate
<1>4. CASE sessions[want[q]] \in {None} \cup Stale(want[q]) /\ Enter(q, want[q]) /\ UNCHANGED expired
  BY <1>1, <1>2, <1>4, EnterKeeps DEF Rehydrate
<1>5. QED
  BY <1>3, <1>4 DEF Rehydrate

-----------------------------------------------------------------------------
(* All together. *)

LEMMA InitHolds == Init => IInv
<1>1. SUFFICES ASSUME Init PROVE IInv
  OBVIOUS
<1>2. TypeOK
  <2>1. created \in 0..NumObjects
    BY <1>1, SessionAssumption DEF Init
  <2>2. /\ sessions \in [Ids -> Objects \cup {None}]
        /\ ident \in [Objects -> Ids \cup {None}]
        /\ on \in [Requests -> Objects \cup {None}]
        /\ want \in [Requests -> Ids \cup {None}]
        /\ holder \in [Objects -> Requests \cup {None}]
    BY <1>1 DEF Init
  <2>3. deferred \in [Objects -> {None, "kept", "finished"}]
    BY <1>1 DEF Init
  <2>4. QED
    BY <1>1, <2>1, <2>2, <2>3 DEF Init, TypeOK
<1>3. WithinLimit
  <2>1. Live(sessions) = {}
    BY <1>1 DEF Init, Live
  <2>2. QED
    BY <2>1, FS_EmptySet, SessionAssumption DEF WithinLimit
<1>4. \A id \in Ids : IdOK(id)
  BY <1>1, NoneIsNothing DEF Init, IdOK, CacheOK, EnvOK
<1>5. 1..created = {}
  BY <1>1 DEF Init
<1>6. \A o \in Objects : ObjectOK(o)
  BY <1>1, <1>5, NoneIsNothing
     DEF Init, ObjectOK, MadeOK, UnmadeOK, ClientOK, HeldOK, StartOK, QuietOK, CliOK
<1>7. \A q \in Requests : RequestOK(q)
  BY <1>1 DEF Init, RequestOK, OnOK, LockOK, StartsOK
<1>8. QED
  BY <1>2, <1>3, <1>4, <1>6, <1>7 DEF IInv

LEMMA RequestStepKeeps == ASSUME IInv, NEW q \in Requests, RequestStep(q) PROVE IInv'
  BY NewSessionStep, ContinueStep, RehydrateStep, PreflightStep, RefuseFirstStep, BeginClientStartStep,
     ClientUpStep, NewClientStoppedStep, ClientFailsStep, ClientCancelledStep, BeginTurnStep,
     DropClientStep, EndTurnStep DEF RequestStep

LEMMA NextKeeps == ASSUME IInv, Next PROVE IInv'
<1>1. ASSUME NEW o \in Objects, Expire(o) \/ ChangeTurn(o) \/ TeardownDone(o) PROVE IInv'
  BY <1>1, ExpireStep, ChangeTurnStep, TeardownDoneStep
<1>2. ASSUME NEW id \in Ids, Delete(id) \/ HandOff(id, "drain") \/ HandOff(id, "handoff") PROVE IInv'
  BY <1>2, DeleteStep, HandOffStep
<1>3. ASSUME NEW id \in Named, OtherTakes(id) \/ OtherReleases(id) PROVE IInv'
  BY <1>3, OtherTakesStep, OtherReleasesStep, SessionAssumption
<1>4. ASSUME SweepRuns \/ CleanupRuns \/ Drain \/ DrainStop \/ ShutdownBegin \/ ShutdownEnd PROVE IInv'
  BY <1>4, SweepRunsStep, CleanupRunsStep, DrainStep, DrainStopStep, ShutdownBeginStep, ShutdownEndStep
<1>5. QED
  BY <1>1, <1>2, <1>3, <1>4, RequestStepKeeps DEF Next

LEMMA Unmoved == ASSUME IInv, UNCHANGED vars PROVE IInv'
<1>1. UNCHANGED <<sessions, created, ident, client, cli, starting, deferred, turn, poisoned, expired,
                  released, env, other, teardown, draining, sweepDue, phase, pc, on, want, fresh, holder>>
  BY DEF vars, objectVars, requestVars
<1>2. TypeOK' /\ WithinLimit'
  BY <1>1 DEF IInv, TypeOK, WithinLimit
<1>3. \A id \in Ids : IdOK(id)'
  BY <1>1 DEF IInv, IdOK, CacheOK, EnvOK
<1>4. \A o \in Objects : ObjectOK(o)'
  BY <1>1 DEF IInv, ObjectOK, MadeOK, UnmadeOK, ClientOK, HeldOK, StartOK, QuietOK, CliOK
<1>5. \A q \in Requests : RequestOK(q)'
  BY <1>1 DEF IInv, RequestOK, OnOK, LockOK, StartsOK
<1>6. QED
  BY <1>2, <1>3, <1>4, <1>5 DEF IInv

\* The inductive invariant of the session manager.
THEOREM SessionInvariant == Spec => []IInv
<1>1. IInv /\ [Next]_vars => IInv'
  BY NextKeeps, Unmoved
<1>2. QED
  BY InitHolds, <1>1, PTL DEF Spec

\* _take_ownership_locked, _release_session_dirs, _remove_session_env_locked,
\* _has_room_for_new_session: a session in the cache, and one whose client is
\* installed, holds its dirs and the owner lock, which no other instance has;
\* the session-env dir of a live client stays; and the cap bounds the cache.
THEOREM WhatIsUsedIsHeld == Spec => []InUseIsHeld
<1>1. IInv => InUseIsHeld
  <2>1. SUFFICES ASSUME IInv PROVE InUseIsHeld
    OBVIOUS
  <2>2. \A o \in Live(sessions) : \E i \in Ids : sessions[i] = o /\ o # None
    BY DEF Live
  <2>3. LiveKeepsEnv
    BY <2>1, <2>2 DEF LiveKeepsEnv, IInv, IdOK, CacheOK, EnvOK
  <2>4. ASSUME NEW o \in Live(sessions) PROVE o \in Held /\ ident[o] \notin other
    BY <2>1, <2>2 DEF Held, IInv, IdOK, CacheOK
  <2>5. ASSUME NEW o \in client PROVE o \in Held /\ ident[o] \notin other
    BY <2>1 DEF Held, IInv, TypeOK, ObjectOK, ClientOK, UnmadeOK
  <2>6. QED
    BY <2>1, <2>3, <2>4, <2>5 DEF IInv, InUseIsHeld
<1>2. QED
  BY <1>1, SessionInvariant, PTL

\* finish_client_start, _release_session_dirs, _stop_client: what a session that
\* left the cache still holds has a party that releases it, and a CLI that may
\* run has a client, a start in progress or a disconnect that ends it.
THEOREM EveryCliIsOwned == Spec => []CliHasOwner
<1>1. IInv => CliHasOwner
  <2>1. SUFFICES ASSUME IInv PROVE CliHasOwner
    OBVIOUS
  <2>2. 1..created \subseteq Objects
    BY <2>1, MadeAreObjects DEF IInv
  <2>3. ASSUME NEW o \in Held \ Live(sessions) PROVE teardown[o] # "none" \/ o \in starting
    <3>1. o \in Objects /\ o \in 1..created /\ o \notin released /\ ~Cached(o)
      BY <2>2 DEF Held, Cached
    <3>2. sessions[ident[o]] # o
      BY <2>1, <3>1, CachedById
    <3>3. QED
      BY <2>1, <3>1, <3>2 DEF IInv, ObjectOK, HeldOK
  <2>4. ASSUME NEW o \in cli, o \in client PROVE Cached(o) \/ teardown[o] # "none"
    <3>1. o \in Objects /\ o \in 1..created /\ o \notin released /\ o \notin starting
      BY <2>1, <2>4 DEF IInv, TypeOK, ObjectOK, ClientOK, UnmadeOK
    <3>2. QED
      BY <2>1, <3>1, CachedById DEF IInv, ObjectOK, HeldOK
  <2>5. ASSUME NEW o \in cli
        PROVE  o \in client \/ o \in starting \/ \E q \in Requests : on[q] = o /\ pc[q] = "dropping"
    BY <2>1 DEF IInv, TypeOK, ObjectOK, CliOK
  <2>6. NoOrphan
    BY <2>3 DEF NoOrphan
  <2>7. QED
    BY <2>4, <2>5, <2>6 DEF CliHasOwner
<1>2. QED
  BY <1>1, SessionInvariant, PTL

\* release_for_handoff: on a session that was handed over no client starts and
\* no turn runs, whoever got hold of the object before.
THEOREM HandedOverStaysQuiet == Spec => []HandedOffIsQuiet
<1>1. IInv => HandedOffIsQuiet
  BY DEF IInv, TypeOK, ObjectOK, QuietOK, HandedOffIsQuiet
<1>2. QED
  BY <1>1, SessionInvariant, PTL

-----------------------------------------------------------------------------
(* What a turn in progress may count on. *)

LEMMA SameCachePins == ASSUME UNCHANGED sessions PROVE Pinned
  BY DEF Pinned, Cached

LEMMA ClientFailsPins == ASSUME IInv, NEW q \in Requests, ClientFails(q) PROVE Pinned
<1>1. on[q] \in Objects /\ on[q] \in starting
  BY OwnObject DEF ClientFails, HasLock, IInv, RequestOK, StartsOK
<1>2. turn[on[q]] = "none"
  BY <1>1 DEF IInv, ObjectOK, StartOK
<1>3. \A i \in Ids : sessions'[i] = IF sessions[i] \in {on[q]} THEN None ELSE sessions[i]
  BY DEF ClientFails, Drop
<1>4. QED
  BY <1>2, <1>3 DEF Pinned, Cached, Live

\* A request pins the sessions of the others, except when it refuses its first turn.
LEMMA RequestPins ==
    ASSUME IInv, NEW q \in Requests, RequestStep(q) PROVE Pinned \/ RefuseFirst(q)
<1>1. CASE Preflight(q) \/ BeginClientStart(q) \/ ClientUp(q) \/ NewClientStopped(q)
           \/ ClientCancelled(q) \/ BeginTurn(q) \/ DropClient(q) \/ EndTurn(q)
  <2>1. UNCHANGED sessions
    BY <1>1 DEF Preflight, BeginClientStart, ClientUp, NewClientStopped, ClientCancelled, BeginTurn,
                DropClient, EndTurn, ManagerUnchanged
  <2>2. QED
    BY <2>1, SameCachePins
<1>2. QED
  BY <1>1, NewSessionStep, ContinueStep, RehydrateStep, ClientFailsPins DEF RequestStep

LEMMA PurgePins ==
    ASSUME IInv, SweepRuns \/ CleanupRuns PROVE Pinned
<1>1. PICK by \in {"sweep", "cleanup"} : Purge(by) /\ UNCHANGED <<deferred, released, env>>
  BY DEF SweepRuns, CleanupRuns
<1>2. PICK R : Removal(R, sessions') /\ \A o \in R : IsExpired(o)
  BY <1>1, PurgeIsRemoval
<1>3. QED
  BY <1>2, RemovalPins DEF IsExpired

LEMMA HandOffPins ==
    ASSUME IInv, NEW id \in Ids, NEW by \in {"drain", "handoff"}, HandOff(id, by) PROVE Pinned
<1>1. Removal({sessions[id]}, sessions') /\ turn[sessions[id]] = "none"
  BY HandOffIsRemoval DEF HandOff
<1>2. QED
  BY <1>1, RemovalPins

\* A delete takes out the session it names, and no other.
LEMMA DeletePins ==
    ASSUME IInv, NEW id \in Ids, Delete(id)
    PROVE  \A o \in Objects : Cached(o) /\ ~Cached(o)' => ident[o] = id
<1>1. sessions' = [sessions EXCEPT ![id] = None] /\ sessions[id] # None
  BY DEF Delete, DeleteNow
<1>2. sessions \in [Ids -> Objects \cup {None}] /\ ident[sessions[id]] = id
  BY <1>1 DEF IInv, TypeOK, IdOK, CacheOK
<1>3. ASSUME NEW o \in Objects, o # sessions[id], Cached(o) PROVE Cached(o)'
  <2>1. PICK i \in Ids : sessions[i] = o /\ o # None
    BY <1>3 DEF Cached, Live
  <2>2. sessions'[i] = o
    BY <1>1, <1>2, <1>3, <2>1
  <2>3. QED
    BY <2>1, <2>2 DEF Cached, Live
<1>4. QED
  BY <1>2, <1>3

\* is_expired, _try_evict_lru_locked, release_for_handoff: no expiry, eviction,
\* sweep, drain or hand-off, and no failing request, takes a session with an
\* active turn out of the cache.
THEOREM ActiveTurnsArePinned == Spec => PinnedStays
<1>1. ASSUME IInv, Next, NEW o \in Objects, Cached(o), turn[o] = "active", ~Cached(o)'
      PROVE  Delete(ident[o]) \/ (\E q \in Requests : RefuseFirst(q)) \/ ShutdownEnd
  <2>1. ~Pinned
    BY <1>1 DEF Pinned
  <2>2. ASSUME NEW q \in Requests, RequestStep(q) PROVE RefuseFirst(q)
    BY <1>1, <2>1, <2>2, RequestPins
  <2>3. ASSUME NEW p \in Objects, Expire(p) \/ ChangeTurn(p) \/ TeardownDone(p) PROVE FALSE
    <3>1. UNCHANGED sessions
      BY <2>3 DEF Expire, ChangeTurn, TeardownDone, ClockUnchanged
    <3>2. QED
      BY <2>1, <3>1, SameCachePins
  <2>4. ASSUME SweepRuns \/ CleanupRuns PROVE FALSE
    BY <1>1, <2>1, <2>4, PurgePins
  <2>5. ASSUME NEW id \in Ids, Delete(id) PROVE Delete(ident[o])
    BY <1>1, <2>5, DeletePins
  <2>6. ASSUME NEW id \in Ids, NEW by \in {"drain", "handoff"}, HandOff(id, by) PROVE FALSE
    BY <1>1, <2>1, <2>6, HandOffPins
  <2>7. ASSUME Drain \/ DrainStop \/ ShutdownBegin PROVE FALSE
    <3>1. UNCHANGED sessions
      BY <2>7 DEF Drain, DrainStop, ShutdownBegin
    <3>2. QED
      BY <2>1, <3>1, SameCachePins
  <2>8. ASSUME NEW id \in Named, OtherTakes(id) \/ OtherReleases(id) PROVE FALSE
    <3>1. UNCHANGED sessions
      BY <2>8 DEF OtherTakes, OtherReleases
    <3>2. QED
      BY <2>1, <3>1, SameCachePins
  <2>9. QED
    BY <1>1, <2>2, <2>3, <2>4, <2>5, <2>6, <2>7, <2>8 DEF Next
<1>2. ASSUME IInv, [Next]_vars
      PROVE  [\A o \in Objects :
                Cached(o) /\ turn[o] = "active" /\ ~Cached(o)' =>
                   Delete(ident[o]) \/ (\E q \in Requests : RefuseFirst(q)) \/ ShutdownEnd]_vars
  BY <1>1, <1>2
<1>3. QED
  BY <1>2, SessionInvariant, PTL DEF Spec, PinnedStays
=============================================================================

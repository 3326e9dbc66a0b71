----------------------------- MODULE UidRegistry ------------------------------
(***************************************************************************)
(* Named users under uid isolation: the persisted user -> uid registry     *)
(* with its one-process lock (UidRegistry, get_registry of                 *)
(* backends/claude/uid_isolation.py) and the owner marker of a uid's       *)
(* config dir (_start_clean, _claim of uid_layout.py).                     *)
(*                                                                         *)
(* Gateway processes start, allocate from a copy in memory, and die at any *)
(* point of a write.  Between two processes an operator may move the bands *)
(* or remove the registry, so that a uid changes hands with data on it.    *)
(*                                                                         *)
(* What the root entrypoint changes on the volumes at every start          *)
(* (docker/entrypoint.py): it hands the gateway's trees to the app uid,    *)
(* except what session uids own, and adds accounts for the session uids to *)
(* the passwd and group files.  Between two starts users get uids, their   *)
(* sessions make files, and the operator changes the mode and the band; a  *)
(* peer container's sessions write on while this one walks.                *)
(***************************************************************************)
EXTENDS Integers, FiniteSets

CONSTANTS
    Procs,          \* gateway processes
    Keys,           \* named users
    MaxUid,         \* the highest uid
    Reserved,       \* ids no session may get
    Bands,          \* settings: [lo, mid, hi], stable lo..mid, ephemeral mid+1..hi
    Anon,           \* the data of anonymous runs
    MaxChange,      \* settings changes and registry removals
    None,
    SessionUids,    \* uids a band may hold, at a start of the container
    MaxStart        \* bound on the starts

Uids == 1..MaxUid

VARIABLES
    file,           \* the registry on disk: user -> uid or None
    lock,           \* the process that holds <registry>.lock
    mem,            \* per process: None or its _map
    band,           \* the settings the next process reads
    marker,         \* owner marker of a uid's config dir
    data,           \* whose data lies in a uid's config dir
    session,        \* who runs on a uid now
    changes,
    mode,
    uidBand,        \* the settings of this start
    registry,       \* the uids the registry file records
    lost,           \* the registry cannot be read at this start
    owner,          \* of each entry its owner, None while it is not there
    todo,           \* entries the walk has still to visit
    group,
    passwd,         \* the lines of the account files: [name, id]
    pc,
    starts

disk == <<file, marker, data>>
registryVars == <<file, lock, mem, band, marker, data, session, changes>>

RegistryInit ==
    /\ file = [k \in Keys |-> None] /\ lock = None
    /\ mem = [p \in Procs |-> None]
    /\ band \in Bands
    /\ marker = [u \in Uids |-> None] /\ data = [u \in Uids |-> {}]
    /\ session = [u \in Uids |-> None]
    /\ changes = 0

Stable == band.lo .. band.mid
Ephemeral == (band.mid + 1) .. band.hi
Used(map) == {map[k] : k \in Keys} \ {None}

\* _load: entries the band or the reserved ids do not allow, or that share a
\* uid, are held; uid-mode startup refuses while there is one.
Held == {k \in Keys : file[k] # None
            /\ (file[k] \notin Stable \ Reserved \/ \E j \in Keys \ {k} : file[j] = file[k])}

\* get_registry at startup: the lock first, then the file.
StartUp(p) ==
    /\ mem[p] = None /\ lock = None /\ Held = {}
    /\ lock' = p /\ mem' = [mem EXCEPT ![p] = file]
    /\ UNCHANGED <<disk, band, session, changes>>

\* UidRegistry.resolve of a new user: the lowest free uid, persisted before
\* it is granted.  The write fails and the grant is rolled back, succeeds, or
\* the process dies once the file is replaced.
Free(p) == Stable \ (Reserved \cup Used(mem[p]))
Lowest(S) == CHOOSE u \in S : \A v \in S : u <= v

Allocate(p, k) ==
    /\ mem[p] # None /\ mem[p][k] = None /\ Free(p) # {}
    /\ LET grown == [mem[p] EXCEPT ![k] = Lowest(Free(p))] IN
       \/ file' = grown /\ mem' = [mem EXCEPT ![p] = grown] /\ UNCHANGED <<lock, session>>
       \/ /\ file' = grown /\ mem' = [mem EXCEPT ![p] = None]
          /\ lock' = None /\ session' = [u \in Uids |-> None]
    /\ UNCHANGED <<band, marker, data, changes>>

\* Mutant: the config dir is claimed for the user without a clean start.
SpawnNamedUnchecked(p, k) ==
    /\ mem[p] # None /\ mem[p][k] # None
    /\ LET u == mem[p][k] IN
       /\ session[u] = None
       /\ data' = [data EXCEPT ![u] = @ \cup {k}]
       /\ marker' = [marker EXCEPT ![u] = k]
       /\ session' = [session EXCEPT ![u] = k]
    /\ UNCHANGED <<file, lock, mem, band, changes>>

\* _start_clean of a named user: a config dir not marked as theirs is emptied
\* before it is claimed, and claimed before their session writes to it.
SpawnNamed(p, k) ==
    /\ mem[p] # None /\ mem[p][k] # None
    /\ LET u == mem[p][k] IN
       /\ session[u] = None
       /\ data' = [data EXCEPT ![u] = (IF marker[u] = k THEN @ ELSE {}) \cup {k}]
       /\ marker' = [marker EXCEPT ![u] = k]
       /\ session' = [session EXCEPT ![u] = k]
    /\ UNCHANGED <<file, lock, mem, band, changes>>

\* The process dies between the wipe and the claim, or before the session
\* writes anything: the marker decides at the next spawn.
SpawnCutShort(p, k) ==
    /\ mem[p] # None /\ mem[p][k] # None
    /\ LET u == mem[p][k] IN
       /\ session[u] = None /\ marker[u] # k
       /\ data' = [data EXCEPT ![u] = {}]
       /\ marker' \in {marker, [marker EXCEPT ![u] = k]}
    /\ mem' = [mem EXCEPT ![p] = None] /\ lock' = None
    /\ session' = [u \in Uids |-> None]
    /\ UNCHANGED <<file, band, changes>>

\* get_ephemeral_pool excludes what the registry holds; the run's clean start
\* empties the dir and drops the marker.
SpawnAnonymous(p, u) ==
    /\ mem[p] # None /\ u \in Ephemeral \ (Reserved \cup Used(mem[p]))
    /\ session[u] = None
    /\ data' = [data EXCEPT ![u] = {Anon}]
    /\ marker' = [marker EXCEPT ![u] = None]
    /\ session' = [session EXCEPT ![u] = Anon]
    /\ UNCHANGED <<file, lock, mem, band, changes>>

SessionEnds(u) ==
    /\ session[u] # None
    /\ session' = [session EXCEPT ![u] = None]
    /\ UNCHANGED <<file, lock, mem, band, marker, data, changes>>

\* The process ends; closing its descriptor drops the lock.
Exit(p) ==
    /\ mem[p] # None
    /\ mem' = [mem EXCEPT ![p] = None] /\ lock' = None
    /\ session' = [u \in Uids |-> None]
    /\ UNCHANGED <<disk, band, changes>>

\* The operator, with the gateway stopped: other bands, or a fresh registry.
Reconfigure ==
    /\ \A p \in Procs : mem[p] = None
    /\ changes < MaxChange /\ changes' = changes + 1
    /\ \/ band' \in Bands \ {band} /\ UNCHANGED file
       \/ file' = [k \in Keys |-> None] /\ UNCHANGED band
    /\ UNCHANGED <<lock, mem, marker, data, session>>

RegistryNext ==
    \/ \E p \in Procs : StartUp(p) \/ Exit(p)
    \/ \E p \in Procs, k \in Keys : Allocate(p, k) \/ SpawnNamed(p, k) \/ SpawnCutShort(p, k)
    \/ \E p \in Procs, u \in Uids : SpawnAnonymous(p, u)
    \/ \E u \in Uids : SessionEnds(u)
    \/ Reconfigure

RegistrySpec == RegistryInit /\ [][RegistryNext]_registryVars

-----------------------------------------------------------------------------
\* Whoever runs on a uid finds only their own data there, and a named user's
\* own data is never taken for a previous owner's: a uid belongs to one user
\* in the file and in every process's copy, however processes overlap, die
\* in mid-write or are reconfigured (resolve, _hold_registry_lock,
\* get_ephemeral_pool, _start_clean).
UidIsOwn ==
    /\ \A u \in Uids : session[u] # None => data[u] = {session[u]}
    /\ \A u \in Uids, k \in Keys : k \in data[u] => marker[u] = k
    /\ \A p \in Procs : mem[p] # None => mem[p] = file
    /\ \A j, k \in Keys : j # k /\ file[j] # None => file[j] # file[k]
    /\ Used(file) \cap Reserved = {}

-----------------------------------------------------------------------------
(* What the root entrypoint does with the uids at every start.             *)

App == -1
RootUid == -2
Broker == 0

ownershipVars == <<mode, uidBand, registry, lost, owner, todo, group, passwd, pc, starts>>

\* cfg is a tree handed to the app; proj is a session's directory in it, with
\* a log; hard is a file with another name elsewhere; base holds the per-uid
\* dirs, of which p is one.
Up == [cfg |-> "none", proj |-> "cfg", log |-> "proj", hard |-> "cfg", base |-> "none", p |-> "base"]
Entries == DOMAIN Up
Walked == {"cfg", "proj", "log", "hard"}

OwnershipTypes ==
  /\ mode \in {"uid", "off"} /\ uidBand \subseteq SessionUids /\ registry \subseteq SessionUids /\ lost \in BOOLEAN
  /\ owner \in [Entries -> SessionUids \cup {App, RootUid, None}] /\ todo \subseteq Walked
  /\ pc \in {"walk", "group", "passwd", "up"} /\ starts \in 0..MaxStart
  /\ \A l \in group \cup passwd : l.id \in SessionUids \cup {Broker} /\ l.name \in SessionUids \cup {Broker}

OwnershipInit ==
  /\ mode = "uid" /\ uidBand = SessionUids /\ registry = {} /\ lost = FALSE
  /\ owner = [e \in Entries |-> CASE e = "hard" -> RootUid [] e \in {"cfg", "base"} -> App [] OTHER -> None]
  /\ todo = {} /\ pc = "up" /\ starts = 0
  \* An operator's own line may claim the name or the id of a session uid.
  /\ \E u, v \in SessionUids : group \in {{}, {[name |-> u, id |-> v]}}
  /\ passwd = {}

\* main: a start, with whatever mode and band the operator has set by now.
Start(m, b) ==
  /\ pc = "up" /\ starts < MaxStart /\ starts' = starts + 1
  /\ mode' = m /\ uidBand' = b /\ lost' \in BOOLEAN
  /\ todo' = {e \in Walked : owner[e] # None} /\ pc' = "walk"
  /\ UNCHANGED <<registry, owner, group, passwd>>

\* Mutant: only the uids of the band are spared.
SkipBand == IF mode = "uid" THEN uidBand ELSE {}

\* _session_owned_uids: the band and every recorded uid, in uid mode.
SkipOwners == IF mode # "uid" THEN {} ELSE uidBand \cup (IF lost THEN {} ELSE registry)

Below(e) == {x \in Entries : Up[x] = e \/ (Up[x] # "none" /\ Up[Up[x]] = e)}

\* _chown in _chown_tree: a session's entry is left alone and not entered,
\* and so is what a read-only mount holds; a file with another name stays as
\* it is unless it is the app's.
Visit(e) ==
  /\ pc = "walk" /\ e \in todo /\ Up[e] \notin todo
  /\ IF owner[e] \in SkipOwners THEN todo' = todo \ ({e} \cup Below(e)) /\ UNCHANGED owner
     ELSE IF e = "hard" /\ owner[e] # App THEN todo' = todo \ {e} /\ UNCHANGED owner
     ELSE \/ owner' = [owner EXCEPT ![e] = App] /\ todo' = todo \ {e}
          \/ todo' = todo \ ({e} \cup Below(e)) /\ UNCHANGED owner
  /\ UNCHANGED <<mode, uidBand, registry, lost, group, passwd, pc, starts>>

\* The base itself is the app's; nothing in it is walked.
PrepareConfigBase ==
  /\ pc = "walk" /\ todo = {}
  /\ owner' = IF mode = "uid" THEN [owner EXCEPT !["base"] = App] ELSE owner
  /\ pc' = IF mode = "uid" THEN "group" ELSE "up"
  /\ UNCHANGED <<mode, uidBand, registry, lost, todo, group, passwd, starts>>

Ids(lines) == {l.id : l \in lines}
Titles(lines) == {l.name : l \in lines}

\* Mutant: an id that is claimed is not looked for.
MissingByName(lines) == {[name |-> u, id |-> u] : u \in {u \in uidBand \cup {Broker} : u \notin Titles(lines)}}

\* No line is added whose name or id a line claims.
Missing(lines) == {[name |-> u, id |-> u] : u \in {u \in uidBand \cup {Broker} : u \notin Ids(lines) \cup Titles(lines)}}

\* provision_session_accounts: each file is replaced whole or not at all,
\* groups first.
WriteGroup ==
  /\ pc = "group" /\ pc' = "passwd"
  /\ group' \in {group, group \cup Missing(group)}
  /\ UNCHANGED <<mode, uidBand, registry, lost, owner, todo, passwd, starts>>

WritePasswd ==
  /\ pc = "passwd" /\ pc' = "up"
  /\ passwd' \in {passwd, passwd \cup Missing(passwd)}
  /\ UNCHANGED <<mode, uidBand, registry, lost, owner, todo, group, starts>>

\* The container stops in the middle of a start.
Dies ==
  /\ pc # "up" /\ pc' = "up" /\ todo' = {}
  /\ UNCHANGED <<mode, uidBand, registry, lost, owner, group, passwd, starts>>

(* The gateway and its sessions (external to the entrypoint). *)

Records(u) ==
  /\ mode = "uid" /\ pc = "up" /\ u \in uidBand \ registry /\ registry' = registry \cup {u}
  /\ UNCHANGED <<mode, uidBand, lost, owner, todo, group, passwd, pc, starts>>

SessionWrites(u, e) ==
  /\ mode = "uid" /\ u \in registry /\ e \in {"proj", "log", "p"} /\ owner[e] = None
  /\ e = "log" => owner["proj"] # None
  /\ owner' = [owner EXCEPT ![e] = u]
  /\ UNCHANGED <<mode, uidBand, registry, lost, todo, group, passwd, pc, starts>>

OwnershipNext ==
  \/ \E m \in {"uid", "off"}, b \in SUBSET SessionUids : Start(m, b)
  \/ \E e \in Entries : Visit(e)
  \/ PrepareConfigBase \/ WriteGroup \/ WritePasswd \/ Dies
  \/ \E u \in SessionUids : Records(u) \/ \E e \in Entries : SessionWrites(u, e)

OwnershipSpec == OwnershipInit /\ [][OwnershipNext]_ownershipVars

\* In uid mode no start takes a file from a user who has a uid, not even after
\* the band was narrowed past it; nothing in the config base is taken in any
\* mode, and a file with a foreign owner and another name is never taken.
TakesNothing ==
  \A e \in Entries :
    owner'[e] # owner[e] /\ owner[e] # None =>
      /\ owner[e] \in registry => mode = "off" \/ lost
      /\ e # "p" /\ e # "hard"

\* However often a start dies half way, no name and no id is claimed by two
\* lines of a file, an operator's own lines included.
AccountsAreSingle ==
  \A f \in {group, passwd} : \A k, l \in f : k.name = l.name \/ k.id = l.id => k = l

-----------------------------------------------------------------------------
\* The two parts share no state.
RegistryStep == RegistryNext /\ UNCHANGED ownershipVars
OwnershipStep == OwnershipNext /\ UNCHANGED registryVars
=============================================================================

----------------------------- MODULE PluginReplay -----------------------------
(***************************************************************************)
(* Plugins: the admin's changes at run time (plugin_admin_service.py,      *)
(* plugin_manifest.py, plugin_autorefresh.py) and their replay when a      *)
(* gateway starts (docker/install_plugins.py).  A change runs the claude   *)
(* CLI on the registry and then records itself in the manifest; the replay *)
(* installs what the manifest lists, unless a digest over its inputs and   *)
(* the registry shows that nothing has changed.  During a deploy the other *)
(* color boots while this one serves; a lock keeps their changes apart.    *)
(*                                                                         *)
(* One marketplace, whose source has a version.  The registry gives the    *)
(* version of each plugin that is installed, or 0.                         *)
(*                                                                         *)
(* How a marketplace tree in the clone root is replaced                    *)
(* (plugin_local_copy.py, replace_tree): built beside it under a lock,     *)
(* exchanged with it in one system call, and the tree it replaced parked   *)
(* for readers that are still inside.  Two gateways share the clone root   *)
(* during a deploy.                                                        *)
(***************************************************************************)
EXTENDS Integers, FiniteSets

CONSTANTS
    Plugins,
    MaxSource,   \* bound on the versions of the source
    MaxChange,   \* bound on the admin's changes
    MaxFault,    \* bound on crashes, wipes and manual installs
    None,
    Instances, Trees

VARIABLES
    added, removed,  \* the manifest
    known,       \* the marketplace is registered with the CLI
    inst,        \* installed_plugins.json
    source,      \* the version of the source
    digest,      \* plugin-replay.digest
    lock,        \* .plugin-replay.lock: None, "admin" or "boot"
    op,          \* the admin's change under way
    boot,        \* the replay under way
    overtaken,   \* a change was made while a replay waited for the lock
    changes, faults,
    place,     \* of each tree: "none", "new", "dest", "old" or "gone"
    whole,     \* the trees whose build is complete
    aged,      \* the trees past the limit of the place they are in
    alive,     \* the instances that hold their liveness lock
    treeLock,      \* the flock on <dest>.lock
    pc,        \* "idle", "build", "publish" or "park"
    mine,      \* the tree an instance has in hand
    reads      \* the tree a reader of the instance is inside

replaying == <<added, removed, known, inst, source, digest, lock, op, boot, overtaken, changes, faults>>
swapping == <<place, whole, aged, alive, treeLock, pc, mine, reads>>
vars == <<replaying, swapping>>

manifest == <<added, removed>>
registry == <<known, inst>>

Ops == {"add", "install", "uninstall", "remove", "refresh"}
NoBoot == [pc |-> "off", entries |-> {}, inputs |-> None, failed |-> FALSE]

Registry == [known |-> known, inst |-> inst]
Inputs == [added |-> added, removed |-> removed, source |-> source]

ReplayTypes ==
  /\ added \subseteq Plugins /\ removed \subseteq Plugins
  /\ known \in BOOLEAN /\ inst \in [Plugins -> 0..MaxSource]
  /\ source \in 1..MaxSource
  /\ lock \in {None, "admin", "boot"}
  /\ boot.pc \in {"off", "wait", "replay", "done"}
  /\ changes \in 0..MaxChange /\ faults \in 0..MaxFault

ReplayInit ==
  /\ added = {} /\ removed = {}
  /\ known = FALSE /\ inst = [p \in Plugins |-> 0]
  /\ source = 1 /\ digest = None /\ lock = None
  /\ op = None /\ boot = NoBoot /\ overtaken = FALSE /\ changes = 0 /\ faults = 0

(* The admin's changes. *)

\* _replay_locked: the digest goes first.
Begin(kind, p) ==
  /\ lock = None /\ op = None /\ changes < MaxChange
  /\ kind = "install" => known
  /\ kind \in {"remove", "refresh"} => known
  /\ kind = "uninstall" => inst[p] # 0
  /\ lock' = "admin"
  /\ digest' = None
  /\ op' = [kind |-> kind, plugin |-> p, ran |-> FALSE]
  /\ changes' = changes + 1
  /\ UNCHANGED <<manifest, registry, source, boot, overtaken, faults>>

\* The claude CLI, on the registry.
Ran(kind) == op # None /\ op.kind = kind /\ ~op.ran /\ op' = [op EXCEPT !.ran = TRUE]
others == <<manifest, source, digest, lock, boot, overtaken, changes, faults>>

\* add_marketplace: a fresh clone is published, then added.
RunAdd == Ran("add") /\ known' = TRUE /\ UNCHANGED <<inst, others>>

\* install_plugin, and an update to the latest.
RunInstall == /\ Ran("install")
              /\ inst' = [inst EXCEPT ![op.plugin] = source]
              /\ UNCHANGED <<known, others>>

RunUninstall == /\ Ran("uninstall")
                /\ inst' = [inst EXCEPT ![op.plugin] = 0]
                /\ UNCHANGED <<known, others>>

\* remove_marketplace takes its plugins along.
RunRemove == /\ Ran("remove")
             /\ known' = FALSE /\ inst' = [p \in Plugins |-> 0]
             /\ UNCHANGED others

\* refresh_marketplace: what is installed is updated; an update may fail.
RunRefresh(P) == /\ Ran("refresh")
                 /\ inst' = [p \in Plugins |-> IF inst[p] # 0 /\ p \in P THEN source ELSE inst[p]]
                 /\ UNCHANGED <<known, others>>

\* plugin_manifest: what was done is recorded, and the lock given back.
Recording(kind) == /\ op # None /\ op.kind = kind /\ op.ran
                   /\ lock' = None /\ op' = None
                   /\ overtaken' = (overtaken \/ boot.pc = "wait")
                   /\ UNCHANGED <<registry, source, digest, boot, changes, faults>>

RecordInstall == /\ Recording("install")
                 /\ added' = added \cup {op.plugin} /\ removed' = removed \ {op.plugin}

RecordUninstall == /\ Recording("uninstall")
                   /\ added' = added \ {op.plugin} /\ removed' = removed \cup {op.plugin}

RecordRemove == Recording("remove") /\ added' = {} /\ UNCHANGED removed

RecordMarketplace == (Recording("add") \/ Recording("refresh")) /\ UNCHANGED manifest

\* A git or CLI call fails: nothing is recorded.
OpFails ==
  /\ op # None /\ ~op.ran
  /\ lock' = None /\ op' = None
  /\ UNCHANGED <<manifest, registry, source, digest, boot, overtaken, changes, faults>>

\* The gateway dies between the CLI and the manifest.
OpDies ==
  /\ op # None /\ faults < MaxFault
  /\ lock' = None /\ op' = None /\ faults' = faults + 1
  /\ UNCHANGED <<manifest, registry, source, digest, boot, overtaken, changes>>

(* The replay at start. *)

\* main: the entries are collected before the lock is asked for; with none of
\* them there is nothing to do.
Collect ==
  /\ boot.pc = "off"
  /\ boot' = [NoBoot EXCEPT !.pc = IF added = {} THEN "done" ELSE "wait", !.entries = added]
  /\ UNCHANGED <<manifest, registry, source, digest, lock, op, overtaken, changes, faults>>

\* Mutant: the registry is no part of the digest.
DigestInputsOnly(in, reg) == [in |-> in, reg |-> None]

DigestOf(in, reg) == [in |-> in, reg |-> reg]

\* _replay: under the lock, the inputs are taken and compared, or could not
\* be taken (ok is FALSE); a replay that begins forgets the digest.
TakeInputs(ok) ==
  /\ boot.pc = "wait" /\ lock = None
  /\ IF ok /\ digest = DigestOf(Inputs, Registry) THEN
       /\ boot' = [boot EXCEPT !.pc = "done"]
       /\ UNCHANGED <<digest, lock>>
     ELSE
       /\ boot' = [boot EXCEPT !.pc = "replay", !.inputs = IF ok THEN Inputs ELSE None]
       /\ digest' = None /\ lock' = "boot"
  /\ UNCHANGED <<manifest, registry, source, op, overtaken, changes, faults>>

\* process_entry: what the admin has removed is passed over; the rest is
\* cloned, added, installed and updated.
Process(p, ok) ==
  /\ boot.pc = "replay" /\ p \in boot.entries
  /\ IF p \in removed \/ ~ok THEN UNCHANGED registry
     ELSE known' = TRUE /\ inst' = [inst EXCEPT ![p] = source]
  /\ boot' = [boot EXCEPT !.entries = @ \ {p}, !.failed = @ \/ (p \notin removed /\ ~ok)]
  /\ UNCHANGED <<manifest, source, digest, lock, op, overtaken, changes, faults>>

\* Mutant: the inputs are taken again at the end.
RecordedLate == IF boot.inputs = None THEN None ELSE Inputs

\* apply_removed, and the digest of what was found at the start.
Recorded == boot.inputs

EndReplay ==
  /\ boot.pc = "replay" /\ boot.entries = {}
  /\ inst' = [p \in Plugins |-> IF p \in removed THEN 0 ELSE inst[p]]
  /\ digest' = IF boot.inputs # None /\ ~boot.failed
               THEN DigestOf(Recorded, [known |-> known, inst |-> inst']) ELSE digest
  /\ lock' = None
  /\ boot' = [boot EXCEPT !.pc = "done"]
  /\ UNCHANGED <<manifest, known, source, op, overtaken, changes, faults>>

BootDies ==
  /\ boot.pc \in {"wait", "replay"} /\ faults < MaxFault
  /\ lock' = IF lock = "boot" THEN None ELSE lock
  /\ boot' = NoBoot /\ faults' = faults + 1
  /\ UNCHANGED <<manifest, registry, source, digest, op, overtaken, changes>>

Again == /\ boot.pc = "done" /\ boot' = NoBoot
         /\ UNCHANGED <<manifest, registry, source, digest, lock, op, overtaken, changes, faults>>

(* What happens around them. *)

Push == /\ source < MaxSource /\ source' = source + 1
        /\ UNCHANGED <<manifest, registry, digest, lock, op, boot, overtaken, changes, faults>>

\* The plugin volume is lost.
Wipe == /\ lock = None /\ boot.pc = "off" /\ faults < MaxFault
        /\ known' = FALSE /\ inst' = [p \in Plugins |-> 0]
        /\ faults' = faults + 1
        /\ UNCHANGED <<manifest, source, digest, lock, op, boot, overtaken, changes>>

\* claude plugin install, by hand, in the container.
Manual(p) == /\ lock = None /\ boot.pc = "off" /\ faults < MaxFault /\ known /\ inst[p] = 0
             /\ inst' = [inst EXCEPT ![p] = source]
             /\ faults' = faults + 1
             /\ UNCHANGED <<manifest, known, source, digest, lock, op, boot, overtaken, changes>>

ReplayStep ==
  \/ \E kind \in Ops, p \in Plugins : Begin(kind, p)
  \/ RunAdd \/ RunInstall \/ RunUninstall \/ RunRemove \/ \E P \in SUBSET Plugins : RunRefresh(P)
  \/ RecordInstall \/ RecordUninstall \/ RecordRemove \/ RecordMarketplace \/ OpFails \/ OpDies
  \/ Collect \/ EndReplay \/ BootDies \/ Again
  \/ \E ok \in BOOLEAN : TakeInputs(ok)
  \/ \E p \in Plugins, ok \in BOOLEAN : Process(p, ok)
  \/ Push \/ Wipe
  \/ \E p \in Plugins : Manual(p)

\* A boot that skips the replay has nothing to do: every plugin of the
\* manifest is installed at the version the source had, whatever crashes,
\* lost volumes and pushes came between the digest and the boot (unless a
\* change overtook a replay that had collected its entries: its digest then
\* vouches for an entry it never replayed).
SkipsNothingOwed ==
  boot.pc = "wait" /\ boot'.pc = "done" /\ ~overtaken =>
    \A p \in added \ removed : inst[p] = source
-----------------------------------------------------------------------------
TreeTypes ==
  /\ place \in [Trees -> {"none", "new", "dest", "old", "gone"}]
  /\ whole \subseteq Trees /\ aged \subseteq Trees
  /\ alive \subseteq Instances /\ treeLock \in Instances \cup {None}
  /\ pc \in [Instances -> {"idle", "build", "publish", "park"}]
  /\ mine \in [Instances -> Trees \cup {None}] /\ reads \in [Instances -> Trees \cup {None}]

TreeInit ==
  /\ place = [t \in Trees |-> "none"] /\ whole = {} /\ aged = {}
  /\ alive = {} /\ treeLock = None
  /\ pc = [i \in Instances |-> "idle"]
  /\ mine = [i \in Instances |-> None] /\ reads = [i \in Instances |-> None]

Dest == {t \in Trees : place[t] = "dest"}

Start(i) ==
  /\ i \notin alive
  /\ alive' = alive \cup {i}
  /\ UNCHANGED <<place, whole, aged, treeLock, pc, mine, reads>>

\* Mutant: a sweep does not ask who else is alive.
SweptAny(i, t) == t \in aged /\ place[t] \in {"old", "new"}

\* _sweep: replaced trees past their grace go, unless another instance is
\* alive; staging directories a dead build left go when they are stale.
Swept(i, t) == /\ t \in aged
               /\ \/ place[t] = "old" /\ alive \ {i} = {}
                  \/ place[t] = "new"

\* replace_tree: the lock is taken, what is left over swept, and a fresh
\* staging directory made.
Build(i, t) ==
  /\ i \in alive /\ pc[i] = "idle" /\ treeLock = None /\ place[t] = "none"
  /\ treeLock' = i
  /\ place' = [u \in Trees |-> IF u = t THEN "new" ELSE IF Swept(i, u) THEN "gone" ELSE place[u]]
  /\ pc' = [pc EXCEPT ![i] = "build"] /\ mine' = [mine EXCEPT ![i] = t]
  /\ UNCHANGED <<whole, aged, alive, reads>>

\* sweep_parked_trees, when an instance starts.
SweepParked(i) ==
  /\ i \in alive /\ pc[i] = "idle" /\ treeLock = None /\ alive = {i}
  /\ \E u \in Trees : Swept(i, u)
  /\ place' = [u \in Trees |-> IF Swept(i, u) THEN "gone" ELSE place[u]]
  /\ UNCHANGED <<whole, aged, alive, treeLock, pc, mine, reads>>

Fill(i) ==
  /\ pc[i] = "build"
  /\ whole' = whole \cup {mine[i]}
  /\ pc' = [pc EXCEPT ![i] = "publish"]
  /\ UNCHANGED <<place, aged, alive, treeLock, mine, reads>>

\* The clone or the copy fails, or the exchange is refused: the staging
\* directory goes and the tree stays.
Fails(i) ==
  /\ pc[i] \in {"build", "publish"}
  /\ place' = [place EXCEPT ![mine[i]] = "gone"]
  /\ pc' = [pc EXCEPT ![i] = "idle"] /\ mine' = [mine EXCEPT ![i] = None] /\ treeLock' = None
  /\ UNCHANGED <<whole, aged, alive, reads>>

\* Mutant: two renames instead of the exchange.
PublishByRename(i) ==
  /\ pc[i] = "publish"
  /\ IF Dest = {} THEN
       /\ place' = [place EXCEPT ![mine[i]] = "dest"]
       /\ pc' = [pc EXCEPT ![i] = "idle"] /\ mine' = [mine EXCEPT ![i] = None] /\ treeLock' = None
     ELSE
       /\ place' = [t \in Trees |-> IF t \in Dest THEN "old" ELSE place[t]]
       /\ UNCHANGED <<pc, mine, treeLock>>
  /\ UNCHANGED <<whole, aged, alive, reads>>

\* _publish: the first tree is renamed into place; later ones are exchanged,
\* which leaves the old tree under the staging name.
Publish(i) ==
  /\ pc[i] = "publish"
  /\ IF Dest = {} THEN
       /\ place' = [place EXCEPT ![mine[i]] = "dest"]
       /\ pc' = [pc EXCEPT ![i] = "idle"] /\ mine' = [mine EXCEPT ![i] = None] /\ treeLock' = None
     ELSE
       /\ place' = [t \in Trees |-> IF t = mine[i] THEN "dest" ELSE IF t \in Dest THEN "new" ELSE place[t]]
       /\ mine' = [mine EXCEPT ![i] = CHOOSE t \in Dest : TRUE]
       /\ pc' = [pc EXCEPT ![i] = "park"] /\ UNCHANGED treeLock
  /\ UNCHANGED <<whole, aged, alive, reads>>

\* The replaced tree is parked, its grace counted from now; or that fails,
\* and it stays under the staging name, as old as it is.
Park(i, ok) ==
  /\ pc[i] = "park"
  /\ place' = IF ok THEN [place EXCEPT ![mine[i]] = "old"] ELSE place
  /\ aged' = IF ok THEN aged \ {mine[i]} ELSE aged
  /\ pc' = [pc EXCEPT ![i] = "idle"] /\ mine' = [mine EXCEPT ![i] = None] /\ treeLock' = None
  /\ UNCHANGED <<whole, alive, reads>>

\* A session of the instance works inside the tree dest names.
Enter(i) ==
  /\ i \in alive /\ reads[i] = None /\ Dest # {}
  /\ reads' = [reads EXCEPT ![i] = CHOOSE t \in Dest : TRUE]
  /\ UNCHANGED <<place, whole, aged, alive, treeLock, pc, mine>>

Leave(i) ==
  /\ reads[i] # None
  /\ reads' = [reads EXCEPT ![i] = None]
  /\ UNCHANGED <<place, whole, aged, alive, treeLock, pc, mine>>

\* Time passes.  A session of this instance does not stay inside a parked
\* tree for longer than the grace; one of a color that drains may.
Age(t) ==
  /\ place[t] \in {"old", "new", "dest"} /\ t \notin aged
  /\ \A i \in Instances : reads[i] = t => Cardinality(alive) > 1 /\ pc[i] = "idle"
  /\ aged' = aged \cup {t}
  /\ UNCHANGED <<place, whole, alive, treeLock, pc, mine, reads>>

\* A drained instance ends, or one dies: its lock is the kernel's to drop.
Die(i) ==
  /\ i \in alive
  /\ alive' = alive \ {i}
  /\ treeLock' = IF treeLock = i THEN None ELSE treeLock
  /\ pc' = [pc EXCEPT ![i] = "idle"] /\ mine' = [mine EXCEPT ![i] = None]
  /\ reads' = [reads EXCEPT ![i] = None]
  /\ UNCHANGED <<place, whole, aged>>

TreeStep ==
  \E i \in Instances :
    \/ Start(i) \/ SweepParked(i) \/ Fill(i) \/ Fails(i) \/ Publish(i) \/ Enter(i) \/ Leave(i) \/ Die(i)
    \/ \E t \in Trees : Build(i, t) \/ Age(t)
    \/ \E ok \in BOOLEAN : Park(i, ok)

\* dest names one whole tree from the first publication on, across failed and
\* crashed replacements by either instance.
DestIsWhole ==
  /\ Cardinality(Dest) <= 1 /\ Dest \subseteq whole
  /\ (\E t \in Trees : place[t] = "old") => Dest # {}

\* A parked tree goes only when no other instance may have a session inside:
\* the sweeper's own sessions had the grace, another color's are waited for.
KeepsReadTrees ==
  \A i \in Instances, t \in Trees :
    reads[i] = t /\ place[t] = "old" /\ place'[t] = "gone" => alive = {i}

-----------------------------------------------------------------------------
\* The two have no state in common.
Init == ReplayInit /\ TreeInit
ReplayNext == ReplayStep /\ UNCHANGED swapping
TreeNext == TreeStep /\ UNCHANGED replaying
Next == ReplayNext \/ TreeNext

Spec == Init /\ [][Next]_vars
=============================================================================

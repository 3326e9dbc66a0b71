---------------------------- MODULE WorkspaceDirs ----------------------------
(***************************************************************************)
(* The directories of the workspace volume (workspace_manager.py).         *)
(*                                                                         *)
(* The first creation of a user's workspace (resolve with                  *)
(* WORKSPACE_INITIAL_DIRS): a claim file picks one publisher, which builds *)
(* the folders aside and renames them into place; a claim that outlives    *)
(* its holder is taken over.  The starter folder is made once: one the     *)
(* user deleted stays away.                                                *)
(*                                                                         *)
(* The anonymous workspaces of two gateway instances on one volume and the *)
(* sweep of the ones a dead process left behind, with the liveness locks   *)
(* of instance_registry.py.                                                *)
(*                                                                         *)
(* The Claude mirror of a workspace's skills/ and agents/                  *)
(* (backends/claude/workspace_resources.py): the visible directory is the  *)
(* user's, the one under .claude a mirror of hard links that carries a     *)
(* marker.  Preparing, materializing and the clear-grant-materialize of a  *)
(* legacy workspace run on threads, while the session moves, links and     *)
(* edits both directories.  One of the two resources stands for both.      *)
(***************************************************************************)
EXTENDS Integers, FiniteSets

CONSTANTS
    Resolvers,      \* threads that resolve the user's workspace
    Instances,      \* colors; "" stands for a gateway without one
    Dirs,           \* anonymous workspaces
    PerUid,         \* uid isolation with per-uid config dirs
    Threads,        \* threads that prepare, materialize or grant a workspace
    Trees,          \* directories, by number
    Names,          \* entries of a directory
    MaxInode,       \* bound on the files made
    MaxActs         \* bound on the session's acts

VARIABLES
    root,           \* absent, or the workspace: [seed, own]
    claim,          \* the claim file: none, fresh or old (past _STALE_CLAIM_SECONDS)
    pc,             \* step of each resolver
    emptied,        \* the user removed everything from the root
    back,           \* the starter folder the user deleted was there again
    up,             \* instances that run
    registered,     \* instances that hold their liveness lock
    dir,            \* each workspace: [there, by, live, old]
    sweep,          \* sweep of each instance: [pc, others, found]
    lost,           \* whose live runs lost their workspace: seen at the look, or new
    slot,           \* what "vis" and "nat" name: 0, a directory, or minus one for a link to it
    files,          \* of each directory, the inode each name has; 0 is none
    mark,           \* what is in the marker's place in each directory
    managed,        \* the directories that ever carried the marker
    wlock,          \* the workspace lock
    th,             \* where each thread is, the directories it opened, what it listed
    inodes,         \* inodes made so far
    acts            \* what the session did so far

seeding == <<root, claim, pc, emptied, back>>
sweeping == <<up, registered, dir, sweep, lost>>
mirror == <<slot, files, mark, managed, wlock, th, inodes, acts>>

Absent == [there |-> FALSE, seed |-> FALSE, own |-> FALSE]
NoDir == [there |-> FALSE, by |-> "none", live |-> FALSE, old |-> FALSE]
Idle  == [pc |-> "start", others |-> {}, found |-> {}]

Init ==
    /\ root = Absent /\ claim = "none"
    /\ pc = [p \in Resolvers |-> "look"] /\ emptied = FALSE /\ back = FALSE
    /\ up = {} /\ registered = {} /\ lost = {}
    /\ dir = [d \in Dirs |-> NoDir]
    /\ sweep = [i \in Instances |-> Idle]

-----------------------------------------------------------------------------
(* resolve, for a user. *)

Goto(p, where) == pc' = [pc EXCEPT ![p] = where]

\* The loop of resolve: a root that is there is complete.
Look(p) ==
    /\ pc[p] = "look"
    /\ Goto(p, IF root.there THEN "done" ELSE "claim")
    /\ UNCHANGED <<root, claim, emptied, back>>

\* _claim_initialization: O_EXCL
Claim(p) ==
    /\ pc[p] = "claim"
    /\ IF claim = "none" THEN claim' = "fresh" /\ Goto(p, "recheck")
       ELSE claim' = claim /\ Goto(p, "wait")
    /\ UNCHANGED <<root, emptied, back>>

\* The root may have appeared between the look and the claim.
Recheck(p) ==
    /\ pc[p] = "recheck"
    /\ IF root.there THEN claim' = "none" /\ Goto(p, "done")
       ELSE claim' = claim /\ Goto(p, "publish")
    /\ UNCHANGED <<root, emptied, back>>

\* Mutant: the folders are made in the workspace itself.
PublishInPlace(p) ==
    /\ pc[p] = "publish"
    /\ root' = [root EXCEPT !.there = TRUE, !.seed = TRUE]
    /\ back' = (back \/ (root.there /\ ~root.seed))
    /\ Goto(p, "release") /\ UNCHANGED <<claim, emptied>>

\* _publish_workspace: rename replaces an empty directory and fails on any other.
Publish(p) ==
    /\ pc[p] = "publish"
    /\ IF root.seed \/ root.own THEN UNCHANGED <<root, back>>
       ELSE /\ root' = [there |-> TRUE, seed |-> TRUE, own |-> FALSE]
            /\ back' = (back \/ root.there)
    /\ Goto(p, "release") /\ UNCHANGED <<claim, emptied>>

\* The build fails (no space, no permission): resolve raises.
PublishFails(p) ==
    /\ pc[p] = "publish" /\ claim' = "none" /\ Goto(p, "done")
    /\ UNCHANGED <<root, emptied, back>>

\* _release_claim, whoever's claim it is by now
Release(p) ==
    /\ pc[p] = "release" /\ claim' = "none" /\ Goto(p, "done")
    /\ UNCHANGED <<root, emptied, back>>

\* _await_publication: the root, a released claim or an old one end the wait.
Await(p) ==
    /\ pc[p] = "wait"
    /\ root.there \/ claim # "fresh"
    /\ claim' = IF ~root.there /\ claim = "old" THEN "none" ELSE claim
    /\ Goto(p, "look") /\ UNCHANGED <<root, emptied, back>>

\* 60 seconds pass; the holder may be dead or only slow.
ClaimAges == claim = "fresh" /\ claim' = "old" /\ UNCHANGED <<root, pc, emptied, back>>

Crash(p) ==
    /\ pc[p] # "done" /\ Goto(p, "done") /\ UNCHANGED <<root, claim, emptied, back>>

\* The next request of the user.
Again(p) ==
    /\ pc[p] = "done" /\ Goto(p, "look") /\ UNCHANGED <<root, claim, emptied, back>>

\* The user works in the workspace: makes a file, deletes the starter folder.
Work(what) ==
    /\ root.there /\ root' = what /\ what.there
    /\ what.seed => root.seed
    /\ emptied' = (emptied \/ ~(what.seed \/ what.own))
    /\ UNCHANGED <<claim, pc, back>>

\* The steps of the resolvers and of the user.
Seeding ==
    \/ \E p \in Resolvers : \/ Look(p) \/ Claim(p) \/ Recheck(p) \/ Publish(p) \/ PublishFails(p)
                            \/ Release(p) \/ Await(p) \/ Crash(p) \/ Again(p)
    \/ ClaimAges
    \/ \E s, o \in BOOLEAN : Work([there |-> TRUE, seed |-> s, own |-> o])

-----------------------------------------------------------------------------
(* The start of an instance, its sweep, and its runs. *)

\* register: refused while another process holds the name; a gateway without
\* a color takes no lock.
Start(i) ==
    /\ i \notin up
    /\ up' = up \cup {i} /\ registered' = registered \cup ({i} \ {""})
    /\ sweep' = [sweep EXCEPT ![i] = Idle]
    /\ UNCHANGED <<dir, lost>>

\* other_live_instances, read once
LookAround(i) ==
    /\ i \in up /\ sweep[i].pc = "start"
    /\ sweep' = [sweep EXCEPT ![i].pc = "list", ![i].others = registered \ {i}]
    /\ UNCHANGED <<up, registered, dir, lost>>

\* Mutant: a live neighbour is not asked about.
SweepableAny(i, d) == dir[d].there /\ (PerUid \/ dir[d].old)

\* sweep_orphan_temp_workspaces: beside a live instance only the own prefix,
\* and nothing for a gateway without a color; the start-up sweep in uid mode
\* takes any age when nobody else lives.
Sweepable(i, d) ==
    /\ dir[d].there
    /\ sweep[i].others # {} => i # "" /\ dir[d].by = i
    /\ dir[d].old \/ (PerUid /\ sweep[i].others = {})

List(i) ==
    /\ i \in up /\ sweep[i].pc = "list"
    /\ sweep' = [sweep EXCEPT ![i].pc = "remove", ![i].found = {d \in Dirs : Sweepable(i, d)}]
    /\ UNCHANGED <<up, registered, dir, lost>>

Remove(i, d) ==
    /\ i \in up /\ sweep[i].pc = "remove" /\ d \in sweep[i].found
    /\ sweep' = [sweep EXCEPT ![i].found = @ \ {d}]
    /\ dir' = [dir EXCEPT ![d] = [dir[d] EXCEPT !.there = FALSE]]
    /\ lost' = IF ~dir[d].live THEN lost
                ELSE lost \cup {IF dir[d].by \in sweep[i].others THEN "seen" ELSE "new"}
    /\ UNCHANGED <<up, registered>>

\* The sweep is over before the gateway serves.
Serve(i) ==
    /\ i \in up /\ sweep[i].pc = "remove" /\ sweep[i].found = {}
    /\ sweep' = [sweep EXCEPT ![i].pc = "serving"]
    /\ UNCHANGED <<up, registered, dir, lost>>

\* resolve without a user: a name of its own, with the instance in it
Run(i, d) ==
    /\ i \in up /\ sweep[i].pc = "serving" /\ dir[d].by = "none"
    /\ dir' = [dir EXCEPT ![d] = [there |-> TRUE, by |-> i, live |-> TRUE, old |-> FALSE]]
    /\ UNCHANGED <<up, registered, sweep, lost>>

\* cleanup_temp_workspace after the run, or what it could not remove stays.
EndRun(i, d) ==
    /\ i \in up /\ dir[d].live /\ dir[d].by = i
    /\ \/ dir' = [dir EXCEPT ![d].live = FALSE, ![d].there = FALSE]
       \/ dir' = [dir EXCEPT ![d].live = FALSE]
    /\ UNCHANGED <<up, registered, sweep, lost>>

\* The directory's mtime passes the cutoff, while its run may still live.
DirAges(d) ==
    /\ dir[d].there /\ ~dir[d].old
    /\ dir' = [dir EXCEPT ![d].old = TRUE]
    /\ UNCHANGED <<up, registered, sweep, lost>>

\* A stop or a crash: the runs end, their workspaces stay.
Die(i) ==
    /\ i \in up
    /\ up' = up \ {i} /\ registered' = registered \ {i}
    /\ dir' = [d \in Dirs |-> IF dir[d].by = i THEN [dir[d] EXCEPT !.live = FALSE] ELSE dir[d]]
    /\ UNCHANGED <<sweep, lost>>

\* The steps of the instances and of their runs.
Sweeping ==
    \/ \E i \in Instances : \/ Start(i) \/ LookAround(i) \/ List(i) \/ Serve(i) \/ Die(i)
                            \/ \E d \in Dirs : Remove(i, d) \/ Run(i, d) \/ EndRun(i, d)
    \/ \E d \in Dirs : DirAges(d)

SeedingStep == Seeding /\ UNCHANGED <<sweeping, mirror>>
SweepingStep == Sweeping /\ UNCHANGED <<seeding, mirror>>

Next == SeedingStep \/ SweepingStep

Spec == Init /\ [][Next]_<<seeding, sweeping>>

-----------------------------------------------------------------------------
(* The Claude mirror of a workspace's skills/ and agents/                  *)
(* (backends/claude/workspace_resources.py).                               *)

Empty == [x \in Names |-> 0]
Resting == [pc |-> "idle", v |-> 0, n |-> 0, own |-> FALSE, src |-> {}, dst |-> {}]

MirrorTypes ==
    /\ \A s \in {"vis", "nat"} : slot[s] \in Trees \cup {0} \cup {-d : d \in Trees}
    /\ files \in [Trees -> [Names -> 0..MaxInode]]
    /\ mark \in [Trees -> {"none", "ours", "spoiled"}] /\ managed \subseteq Trees
    /\ wlock \in Threads \cup {"none"} /\ inodes \in 0..MaxInode /\ acts \in 0..MaxActs
    /\ \A t \in Threads : th[t].pc \in {"idle", "look", "migrate", "native", "mark", "open", "list",
                                        "sync", "clear", "grant"}

\* A new workspace, or one with a legacy native directory or the symlink of
\* the first version of the bridge.
MirrorInit ==
    /\ slot \in {[vis |-> 0, nat |-> 0], [vis |-> 0, nat |-> 1], [vis |-> 1, nat |-> -1]}
    /\ files \in {[d \in Trees |-> Empty],
                  [d \in Trees |-> IF d = 1 THEN [x \in Names |-> 1] ELSE Empty]}
    /\ mark = [d \in Trees |-> "none"] /\ managed = {} /\ wlock = "none"
    /\ th = [t \in Threads |-> Resting] /\ inodes = 1 /\ acts = 0

At(t, pc1) == th[t].pc = pc1
Step(t, r) == th' = [th EXCEPT ![t] = r]
Entries(d) == {x \in Names : files[d][x] # 0}
Spare == {d \in Trees : /\ d \notin {slot.vis, slot.nat, -slot.vis, -slot.nat}
                        /\ files[d] = Empty /\ mark[d] = "none"
                        /\ \A t \in Threads : d \notin {th[t].v, th[t].n}}
NamesOf(i) == Cardinality({e \in Trees \X Names : files[e[1]][e[2]] = i})

\* _marker_status: a regular file with a single name counts.
Managed(d) == d > 0 /\ mark[d] = "ours"

\* _workspace_lock_if_free: preparing never waits, and is skipped while the
\* workspace is locked; the others wait for the lock.
TakeLock(t) == wlock = "none" /\ wlock' = t
Unlock(t) == Step(t, Resting) /\ wlock' = "none"

\* prepare_workspace_resources
PrepareMirror(t) ==
    /\ At(t, "idle") /\ TakeLock(t) /\ Step(t, [Resting EXCEPT !.pc = "look"])
    /\ UNCHANGED <<slot, files, mark, managed, inodes, acts>>

\* Both paths are looked at.  An unsafe one ends it, except the old bridge's
\* link to the visible directory, which is removed; so does unmanaged data on
\* both sides.  What was seen of the native side is kept.
LookAtBoth(t) ==
    /\ At(t, "look")
    /\ LET bridge == slot.nat < 0 /\ slot.vis > 0 /\ slot.nat = -slot.vis
           n == IF bridge THEN 0 ELSE slot.nat
           own == Managed(n)
       IN IF slot.vis < 0 \/ n < 0 \/ (slot.vis > 0 /\ n # 0 /\ ~own)
          THEN Unlock(t) /\ UNCHANGED slot
          ELSE /\ slot' = [slot EXCEPT !.nat = n]
               /\ Step(t, [Resting EXCEPT !.n = n, !.own = own,
                             !.pc = IF slot.vis = 0 THEN "migrate" ELSE IF n = 0 THEN "native" ELSE "mark"])
               /\ UNCHANGED wlock
    /\ UNCHANGED <<files, mark, managed, inodes, acts>>

\* rename(2) of whatever is now at the native path to the visible one.
Renames ==
    \/ slot.vis = 0 /\ slot.nat # 0
    \/ slot.vis < 0 /\ slot.nat < 0
    \/ slot.vis > 0 /\ slot.nat > 0 /\ files[slot.vis] = Empty /\ mark[slot.vis] = "none"

\* There was no visible directory: the unmanaged native one moves there, or a
\* new one is made unless the session has made one by now.
Migrate(t) ==
    /\ At(t, "migrate")
    /\ IF th[t].n # 0 /\ ~th[t].own
       THEN IF Renames
            THEN /\ slot' = [vis |-> slot.nat, nat |-> 0]
                 /\ Step(t, [Resting EXCEPT !.pc = "native"]) /\ UNCHANGED wlock
            ELSE Unlock(t) /\ UNCHANGED slot
       ELSE /\ IF slot.vis # 0 THEN UNCHANGED slot
               ELSE \E d \in Spare : slot' = [slot EXCEPT !.vis = d]
            /\ Step(t, [th[t] EXCEPT !.pc = IF th[t].n = 0 THEN "native" ELSE "mark"])
            /\ UNCHANGED wlock
    /\ UNCHANGED <<files, mark, managed, inodes, acts>>

\* The native directory is made; a name taken meanwhile ends it.
MakeNative(t) ==
    /\ At(t, "native")
    /\ IF slot.nat # 0 THEN Unlock(t) /\ UNCHANGED slot
       ELSE /\ \E d \in Spare : slot' = [slot EXCEPT !.nat = d]
            /\ Step(t, [th[t] EXCEPT !.pc = "mark"]) /\ UNCHANGED wlock
    /\ UNCHANGED <<files, mark, managed, inodes, acts>>

\* _write_marker, in the directory that is opened without following a link;
\* something else in the marker's place is left alone.
WriteMarker(t) ==
    /\ At(t, "mark") /\ Unlock(t)
    /\ IF slot.nat > 0 /\ mark[slot.nat] # "spoiled"
       THEN mark' = [mark EXCEPT ![slot.nat] = "ours"] /\ managed' = managed \cup {slot.nat}
       ELSE UNCHANGED <<mark, managed>>
    /\ UNCHANGED <<slot, files, inodes, acts>>

\* materialize_workspace_resources
Materialize(t) ==
    /\ At(t, "idle") /\ TakeLock(t) /\ Step(t, [Resting EXCEPT !.pc = "open"])
    /\ UNCHANGED <<slot, files, mark, managed, inodes, acts>>

\* Both directories are opened, the mirror must be managed, and the visible
\* one is listed; an unprepared layout is left alone.
OpenBoth(t) ==
    /\ At(t, "open")
    /\ IF slot.vis > 0 /\ Managed(slot.nat)
       THEN /\ Step(t, [Resting EXCEPT !.pc = "list", !.v = slot.vis, !.n = slot.nat, !.src = Entries(slot.vis)])
            /\ UNCHANGED wlock
       ELSE Unlock(t)
    /\ UNCHANGED <<slot, files, mark, managed, inodes, acts>>

\* _sync_dir: what the mirror has and the visible directory had not is stale.
ListMirror(t) ==
    /\ At(t, "list")
    /\ Step(t, [th[t] EXCEPT !.pc = "sync", !.dst = Entries(th[t].n) \ th[t].src])
    /\ UNCHANGED <<slot, files, mark, managed, wlock, inodes, acts>>

\* Mutant: a removal goes through the path again.
DirByPath(t) == IF slot.nat > 0 THEN slot.nat ELSE IF slot.nat < 0 THEN -slot.nat ELSE th[t].n

\* _open_dir_at: the directory that was opened, whatever its name leads to now
DirOf(t) == th[t].n

\* _remove_at: an entry of the mirror goes; the session may have made the
\* directory read-only, and then it stays.
RemoveEntry(t, x) ==
    /\ th[t].pc \in {"sync", "clear"} /\ x \in th[t].dst
    /\ Step(t, [th[t] EXCEPT !.dst = @ \ {x}])
    /\ \/ files' = [files EXCEPT ![DirOf(t)][x] = 0] /\ UNCHANGED acts
       \/ acts < MaxActs /\ acts' = acts + 1 /\ UNCHANGED files
    /\ UNCHANGED <<slot, mark, managed, wlock, inodes>>

\* _materialize_file: a file is linked over whatever has its name in the
\* mirror, or copied where the kernel refuses the link; one that is gone by
\* now is skipped.
LinkFile(t, x, link) ==
    /\ At(t, "sync") /\ th[t].dst = {} /\ x \in th[t].src
    /\ LET i == files[th[t].v][x] IN
         IF i = 0 \/ files[DirOf(t)][x] = i THEN UNCHANGED <<files, inodes>>
         ELSE IF link THEN files' = [files EXCEPT ![DirOf(t)][x] = i] /\ UNCHANGED inodes
         ELSE inodes < MaxInode /\ inodes' = inodes + 1 /\ files' = [files EXCEPT ![DirOf(t)][x] = inodes + 1]
    /\ Step(t, [th[t] EXCEPT !.src = @ \ {x}])
    /\ UNCHANGED <<slot, mark, managed, wlock, acts>>

EndSync(t) ==
    /\ At(t, "sync") /\ th[t].dst = {} /\ th[t].src = {} /\ Unlock(t)
    /\ UNCHANGED <<slot, files, mark, managed, inodes, acts>>

\* clear_managed_mirrors in grant_workspace: a managed mirror is opened and
\* listed; the lock is held until the tree is linked again.
ClearMirror(t) ==
    /\ At(t, "idle") /\ TakeLock(t)
    /\ Step(t, IF Managed(slot.nat)
               THEN [Resting EXCEPT !.pc = "clear", !.n = slot.nat, !.v = slot.vis, !.dst = Entries(slot.nat)]
               ELSE [Resting EXCEPT !.pc = "grant"])
    /\ UNCHANGED <<slot, files, mark, managed, inodes, acts>>

ClearEnds(t) ==
    /\ At(t, "clear") /\ th[t].dst = {} /\ Step(t, [th[t] EXCEPT !.pc = "grant"])
    /\ UNCHANGED <<slot, files, mark, managed, wlock, inodes, acts>>

\* Mutant: the lock is given back before the grant.
GrantUnlocked(t) ==
    /\ At(t, "grant") /\ wlock' = "none" /\ Step(t, th[t])
    /\ UNCHANGED <<slot, files, mark, managed, inodes, acts>>

\* The ACL grant has walked the tree; then the mirror is made again.
GrantTree(t) ==
    /\ At(t, "grant") /\ Step(t, [Resting EXCEPT !.pc = "open"])
    /\ UNCHANGED <<slot, files, mark, managed, wlock, inodes, acts>>

(* The session: it moves, edits and links its own files at any time. *)

Act == acts < MaxActs /\ acts' = acts + 1 /\ UNCHANGED <<wlock, th>>

Edits(d, x) ==
    /\ Act /\ inodes < MaxInode /\ inodes' = inodes + 1 /\ d \in {slot.vis, slot.nat}
    /\ files' = [files EXCEPT ![d][x] = inodes + 1] /\ UNCHANGED <<slot, mark, managed>>
Deletes(d, x) ==
    /\ Act /\ files[d][x] # 0 /\ files' = [files EXCEPT ![d][x] = 0]
    /\ UNCHANGED <<slot, mark, managed, inodes>>
Moves(s, to) ==
    /\ Act /\ slot[s] # to /\ (to > 0 => to \notin {slot.vis, slot.nat})
    /\ slot' = [slot EXCEPT ![s] = to] /\ UNCHANGED <<files, mark, managed, inodes>>
Marks(d, m) ==
    /\ Act /\ mark[d] # m /\ mark' = [mark EXCEPT ![d] = m]
    /\ managed' = IF m = "ours" THEN managed \cup {d} ELSE managed
    /\ UNCHANGED <<slot, files, inodes>>

Mirroring ==
    \/ \E t \in Threads :
         \/ PrepareMirror(t) \/ LookAtBoth(t) \/ Migrate(t) \/ MakeNative(t) \/ WriteMarker(t)
         \/ Materialize(t) \/ OpenBoth(t) \/ ListMirror(t) \/ EndSync(t)
         \/ ClearMirror(t) \/ ClearEnds(t) \/ GrantTree(t)
         \/ \E x \in Names : RemoveEntry(t, x) \/ \E link \in BOOLEAN : LinkFile(t, x, link)
    \/ \E d \in Trees, x \in Names : Edits(d, x) \/ Deletes(d, x)
    \/ \E s \in {"vis", "nat"}, to \in {0} \cup Trees \cup {-d : d \in Trees} : Moves(s, to)
    \/ \E d \in Trees, m \in {"none", "ours", "spoiled"} : Marks(d, m)

MirrorStep == Mirroring /\ UNCHANGED <<seeding, sweeping>>

MirrorSpec == MirrorInit /\ [][Mirroring]_mirror

-----------------------------------------------------------------------------
\* Whatever the resolvers observed before they waited, died or took a claim
\* over: a starter folder the user deleted does not come back, as long as
\* something else is in the workspace.
SeededOnce == back => emptied

\* A start-up sweep never removes the workspace of a live run, whichever
\* instance's it is and whatever its age, when that instance was up at the
\* sweep's look around.
SweepSparesLive == "seen" \notin lost
\* The gateway changes entries only of a directory in which it has seen its
\* marker, never of the visible one, nor of what the session put in the
\* mirror's place meanwhile.
ChangesMirrorsOnly ==
    acts' = acts => \A d \in Trees : files'[d] # files[d] => d \in managed

\* Undisturbed by the session, the grant meets every visible file with one
\* name: nobody links the mirror again while the tree is granted.
GrantSeesSingleNames ==
    \A t \in Threads : th[t].pc = "grant" /\ th[t].v > 0 /\ acts = 0 =>
        \A x \in Entries(th[t].v) : NamesOf(files[th[t].v][x]) = 1
=============================================================================

---------------------------- MODULE MCSharedState -----------------------------
(***************************************************************************)
(* One run over what several processes share on disk: the uids of sessions *)
(* and their cleanup, the data of users, the paths and accounts a confined *)
(* CLI works with, the files of workspaces, and the stores and plugin      *)
(* trees of the gateway instances. They share no state, so the suite runs  *)
(* one at a time over the same variables: the initial state chooses it     *)
(* (focus).                                                                *)
(***************************************************************************)
EXTENDS Naturals, Sequences, FiniteSets, TLC

CONSTANTS
    Runs, NumUids, Backoff, MaxFail, MaxCrash,                         \* UidRuns
    Parties, Members, MaxUid, Reserved, Bands, Anon, MaxMove, SessionUids, MaxStart, \* UidRegistry
    Savers, ProcOf, Known, Settings, Values, MaxWrite,                 \* RuntimeConfig
    MaxAdmin, MaxEdit,                                                 \* AdminLayers
    Servers, MaxText, MaxFault,                                        \* PromptLibrary
    Versions,                                                          \* PluginReplay
    None

\* No run and no uid is None.
ASSUME RunsAssumption == NumUids \in Nat /\ None \notin Nat /\ None \notin Runs
\* A band is an interval of uids, and anonymous data is no user's.
ASSUME RegistryAssumption ==
    /\ MaxUid \in Nat
    /\ \A b \in Bands : b.lo \in Nat \ {0} /\ b.mid \in Nat /\ b.hi \in Nat /\ b.mid <= b.hi /\ b.hi <= MaxUid
    /\ None \notin Parties \cup Members \cup {Anon} /\ Anon \notin Members
\* No thread and no prompt is None.
ASSUME ConfigAssumption == MaxWrite \in Nat /\ None \notin Savers
\* What bounds a count is a number.
ASSUME AdminAssumption == MaxAdmin \in Nat /\ MaxCrash \in Nat /\ MaxEdit \in Nat
ASSUME PromptAssumption == MaxText \in Nat /\ MaxFault \in Nat /\ None \notin Servers

VARIABLES
    focus,
    x1, x2, x3, x4, x5, x6, x7, x8, x9, x10, x11, x12, x13, x14, x15, x16, x17, x18, x19, x20

all == <<focus, x1, x2, x3, x4, x5, x6, x7, x8, x9, x10, x11, x12, x13, x14, x15, x16, x17, x18,
         x19, x20>>

\* Anonymous runs.
R == INSTANCE UidRuns WITH
        leases <- x1, fresh <- x2, released <- x3, cleanFor <- x4, phase <- x5, ws <- x6,
        acl <- x7, job <- x8, op <- x9, cli <- x10, orphans <- x11, dirt <- x12, fails <- x13,
        crashes <- x14

\* Gateways and users; an operator who moves the band.
G == INSTANCE UidRegistry WITH
        Procs <- Parties, Keys <- Members, MaxChange <- MaxMove, file <- x1, lock <- x2,
        mem <- x3, band <- x4, marker <- x5, data <- x6, session <- x7, changes <- x8,
        mode <- x9, uidBand <- x10, registry <- x11, lost <- x12, owner <- x13, todo <- x14,
        group <- x15, passwd <- x16, pc <- x17, starts <- x18

\* Trees three deep, and two moves of whoever works in them.
W == INSTANCE CleanupWalk WITH
        MaxDepth <- 1, MaxAgent <- 2, op <- x1, at <- x2, keep <- x3, stack <- x4, seen <- x5,
        state <- x6, fails <- x7, deeper <- x8, removed <- x9, inside <- x10, agent <- x11

\* Two users who share a legacy config dir; one failure.
D == INSTANCE UserData WITH
        MaxFault <- 1, legacy <- x1, homes <- x2, copy <- x3, marked <- x4, failed <- x5,
        job <- x6, session <- x7, old <- x8, sweep <- x9, faults <- x10

\* Two links, planted at any time; two acts of the agent in its tmp dir, and
\* one failure.
C == INSTANCE Confinement WITH
        MaxPlant <- 2, Attempts <- 4, MaxDir <- 4, MaxActs <- 2, MaxFault <- 1, perUid <- x1,
        link <- x2, hard <- x3, extra <- x4, pc <- x5, lists <- x6, rules <- x7, slot <- x8,
        mode <- x9, git <- x10, dirs <- x11, stage <- x12, fd <- x13, tries <- x14, acts <- x15,
        faults <- x16

\* Two requests, two directories and one act of the agent; two clients that
\* save one file.
F == INSTANCE WorkspaceFiles WITH
        Requests <- Runs, Names <- {"a", "b"}, Limit <- 1, MaxAgent <- 1, Writers <- Parties,
        MaxInode <- 3, MaxVersion <- 4, at <- x1, ent <- x2, steps <- x3, req <- x4, lock <- x5,
        harm <- x6, path <- x7, claim <- x8, copies <- x9, body <- x10, made <- x11,
        last <- x12, open <- x13, flock <- x14, pc <- x15, expected <- x16, gone <- x17,
        late <- x18

\* Two threads that resolve one workspace; two instances with two anonymous
\* workspaces; a spawn that mirrors a workspace beside a turn, and two acts
\* of its session.
V == INSTANCE WorkspaceDirs WITH
        Resolvers <- Runs, Instances <- {"blue", "green"}, Dirs <- Members, PerUid <- TRUE,
        Threads <- {"s", "t"}, Trees <- {1, 2, 3}, Names <- {"a"}, MaxInode <- 3, MaxActs <- 2,
        root <- x1, claim <- x2, pc <- x3, emptied <- x4, back <- x5, up <- x6,
        registered <- x7, dir <- x8, sweep <- x9, lost <- x10, slot <- x11, files <- x12,
        mark <- x13, managed <- x14, wlock <- x15, th <- x16, inodes <- x17, acts <- x18

\* Two plugins, two versions of their source and four changes; two instances
\* replace a tree of which three versions exist.
P == INSTANCE PluginReplay WITH
        Trees <- Versions, Plugins <- Servers, MaxSource <- 2, MaxChange <- 4, MaxFault <- 1,
        Instances <- Parties, added <- x1, removed <- x2, known <- x3, inst <- x4, source <- x5,
        digest <- x6, lock <- x7, op <- x8, boot <- x9, overtaken <- x10, changes <- x11,
        faults <- x12, place <- x13, whole <- x14, aged <- x15, alive <- x16, treeLock <- x17,
        pc <- x18, mine <- x19, reads <- x20

\* Threads of instances whose builds may know different keys.
N == INSTANCE RuntimeConfig WITH
        Threads <- Savers, Keys <- Settings, file <- x1, mem <- x2, stamp <- x3, dirty <- x4,
        flock <- x5, th <- x6, saved <- x7

\* Admin calls on threads, and MCP servers.
E == INSTANCE AdminLayers WITH
        EnvKeys <- Members, Threads <- Parties, MaxChange <- MaxAdmin, Names <- Servers,
        file <- x1, store <- x2, mem <- x3, layer <- x4, th <- x5, hand <- x6, managed <- x7,
        changes <- x8, crashes <- x9, disk <- x10, loaded <- x11, envLayer <- x12,
        plugins <- x13, gateway <- x14, ov <- x15, given <- x16, edits <- x17

\* Admins and prompts.
L == INSTANCE PromptLibrary WITH
        Names <- Servers, Admins <- Parties, lib <- x1, live <- x2, disk <- x3, seen <- x4,
        deleting <- x5, cut <- x6, texts <- x7, faults <- x8

-----------------------------------------------------------------------------
\* The variables after the first n are not used, and stay as they are.
Unused(n) ==
    /\ (n < 8 => x8 = "unused") /\ (n < 9 => x9 = "unused") /\ (n < 10 => x10 = "unused")
    /\ (n < 11 => x11 = "unused") /\ (n < 12 => x12 = "unused") /\ (n < 13 => x13 = "unused")
    /\ (n < 14 => x14 = "unused") /\ (n < 15 => x15 = "unused") /\ (n < 16 => x16 = "unused")
    /\ (n < 17 => x17 = "unused") /\ (n < 18 => x18 = "unused") /\ (n < 19 => x19 = "unused")
    /\ (n < 20 => x20 = "unused")
Still(n) ==
    /\ UNCHANGED focus
    /\ (n < 8 => UNCHANGED x8) /\ (n < 9 => UNCHANGED x9) /\ (n < 10 => UNCHANGED x10)
    /\ (n < 11 => UNCHANGED x11) /\ (n < 12 => UNCHANGED x12) /\ (n < 13 => UNCHANGED x13)
    /\ (n < 14 => UNCHANGED x14) /\ (n < 15 => UNCHANGED x15) /\ (n < 16 => UNCHANGED x16)
    /\ (n < 17 => UNCHANGED x17) /\ (n < 18 => UNCHANGED x18) /\ (n < 19 => UNCHANGED x19)
    /\ (n < 20 => UNCHANGED x20)

Init ==
    \/ focus = "runs" /\ R!Init /\ Unused(14)
    \/ focus = "registry" /\ G!RegistryInit
          /\ x9 = "unused" /\ x10 = "unused" /\ x11 = "unused" /\ x12 = "unused"
          /\ x13 = "unused" /\ x14 = "unused" /\ x15 = "unused" /\ x16 = "unused"
          /\ x17 = "unused" /\ x18 = "unused"
          /\ Unused(18)
    \/ focus = "ownership" /\ G!OwnershipInit
          /\ x1 = "unused" /\ x2 = "unused" /\ x3 = "unused" /\ x4 = "unused"
          /\ x5 = "unused" /\ x6 = "unused" /\ x7 = "unused" /\ x8 = "unused"
          /\ Unused(18)
    \/ focus = "walk" /\ W!Init /\ Unused(11)
    \/ focus = "data" /\ D!Init /\ Unused(10)
    \/ focus = "confinement" /\ C!ConfinementInit
          /\ x8 = "unused" /\ x9 = "unused" /\ x10 = "unused" /\ x11 = "unused"
          /\ x12 = "unused" /\ x13 = "unused" /\ x14 = "unused" /\ x15 = "unused"
          /\ x16 = "unused"
          /\ Unused(16)
    \/ focus = "tmp" /\ C!TmpInit
          /\ x1 = "unused" /\ x2 = "unused" /\ x3 = "unused" /\ x4 = "unused"
          /\ x5 = "unused" /\ x6 = "unused" /\ x7 = "unused"
          /\ Unused(16)
    \/ focus = "files" /\ F!FilesInit
          /\ x7 = "unused" /\ x8 = "unused" /\ x9 = "unused" /\ x10 = "unused"
          /\ x11 = "unused" /\ x12 = "unused" /\ x13 = "unused" /\ x14 = "unused"
          /\ x15 = "unused" /\ x16 = "unused" /\ x17 = "unused" /\ x18 = "unused"
          /\ Unused(18)
    \/ focus = "save" /\ F!SaveInit
          /\ x1 = "unused" /\ x2 = "unused" /\ x3 = "unused" /\ x4 = "unused"
          /\ x5 = "unused" /\ x6 = "unused"
          /\ Unused(18)
    \/ focus = "seeding" /\ V!Init
          /\ x11 = "unused" /\ x12 = "unused" /\ x13 = "unused" /\ x14 = "unused"
          /\ x15 = "unused" /\ x16 = "unused" /\ x17 = "unused" /\ x18 = "unused"
          /\ Unused(18)
    \/ focus = "sweeping" /\ V!Init
          /\ x11 = "unused" /\ x12 = "unused" /\ x13 = "unused" /\ x14 = "unused"
          /\ x15 = "unused" /\ x16 = "unused" /\ x17 = "unused" /\ x18 = "unused"
          /\ Unused(18)
    \/ focus = "mirror" /\ V!MirrorInit
          /\ x1 = "unused" /\ x2 = "unused" /\ x3 = "unused" /\ x4 = "unused"
          /\ x5 = "unused" /\ x6 = "unused" /\ x7 = "unused" /\ x8 = "unused"
          /\ x9 = "unused" /\ x10 = "unused"
          /\ Unused(18)
    \/ focus = "plugins" /\ P!ReplayInit
          /\ x13 = "unused" /\ x14 = "unused" /\ x15 = "unused" /\ x16 = "unused"
          /\ x17 = "unused" /\ x18 = "unused" /\ x19 = "unused" /\ x20 = "unused"
          /\ Unused(20)
    \/ focus = "trees" /\ P!TreeInit
          /\ x1 = "unused" /\ x2 = "unused" /\ x3 = "unused" /\ x4 = "unused"
          /\ x5 = "unused" /\ x6 = "unused" /\ x7 = "unused" /\ x8 = "unused"
          /\ x9 = "unused" /\ x10 = "unused" /\ x11 = "unused" /\ x12 = "unused"
          /\ Unused(20)
    \/ focus = "config" /\ N!Init /\ Unused(7)
    \/ focus = "settings" /\ E!SettingsInit
          /\ x10 = "unused" /\ x11 = "unused" /\ x12 = "unused" /\ x13 = "unused"
          /\ x14 = "unused" /\ x15 = "unused" /\ x16 = "unused" /\ x17 = "unused"
          /\ Unused(17)
    \/ focus = "overlay" /\ E!OverlayInit
          /\ x1 = "unused" /\ x2 = "unused" /\ x3 = "unused" /\ x4 = "unused"
          /\ x5 = "unused" /\ x6 = "unused" /\ x7 = "unused" /\ x8 = "unused"
          /\ x9 = "unused"
          /\ Unused(17)
    \/ focus = "prompts" /\ L!Init /\ Unused(8)

Next ==
    \/ focus = "runs" /\ R!Next /\ Still(14)
    \/ focus = "registry" /\ G!RegistryStep /\ Still(18)
    \/ focus = "ownership" /\ G!OwnershipStep /\ Still(18)
    \/ focus = "walk" /\ W!Next /\ Still(11)
    \/ focus = "data" /\ D!Next /\ Still(10)
    \/ focus = "confinement" /\ C!ConfinementNext /\ Still(16)
    \/ focus = "tmp" /\ C!TmpNext /\ Still(16)
    \/ focus = "files" /\ F!FilesStep /\ Still(18)
    \/ focus = "save" /\ F!SaveStep /\ Still(18)
    \/ focus = "seeding" /\ V!SeedingStep /\ Still(18)
    \/ focus = "sweeping" /\ V!SweepingStep /\ Still(18)
    \/ focus = "mirror" /\ V!MirrorStep /\ Still(18)
    \/ focus = "plugins" /\ P!ReplayNext /\ Still(20)
    \/ focus = "trees" /\ P!TreeNext /\ Still(20)
    \/ focus = "config" /\ N!Next /\ Still(7)
    \/ focus = "settings" /\ E!SettingsStep /\ Still(17)
    \/ focus = "overlay" /\ E!OverlayStep /\ Still(17)
    \/ focus = "prompts" /\ L!Next /\ Still(8)

Spec == Init /\ [][Next]_all

-----------------------------------------------------------------------------
\* No entry of a directory, no place and no name is None.
ASSUME WalkAssumption ==
    None \notin W!Nodes \cup W!Names \cup W!Slots \cup [name : W!Names, node : W!Nodes]
\* No tree is None, no lock of the plugins is, and no digest; a uid is no
\* other account.
ASSUME PluginAssumption ==
    /\ None \notin Versions \cup {"admin", "boot"}
    /\ None \notin [in : [added : SUBSET Servers, removed : SUBSET Servers, source : 1..2],
                   reg : [known : BOOLEAN, inst : [Servers -> 0..2]]]
ASSUME AccountAssumption == SessionUids \subseteq Nat \ {0} /\ MaxStart \in Nat

\* A band that is moved, with a reserved uid in it; two threads of one build
\* and one of a newer build, which knows one more key.
MCBands == {[lo |-> 1, mid |-> 2, hi |-> 3], [lo |-> 1, mid |-> 3, hi |-> 4]}
MCProcOf == [b1 |-> "blue", b2 |-> "blue", g |-> "green"]
MCKnown == [blue |-> {"k"}, green |-> {"k", "n"}]

-----------------------------------------------------------------------------
\* Nobody meets another's processes or data on a uid: two runs never share a
\* live uid, no cleanup works under a CLI, no uid is lost or handed out twice,
\* and a named user's uid is theirs in every process (uid_isolation.py,
\* uid_layout.py, isolation_broker.py).
UidsAreApart ==
    /\ focus = "runs" => R!RunsAreApart /\ R!NoWipeUnderCli /\ R!PoolIsExact
    /\ focus = "registry" => G!UidIsOwn

\* A cleanup removes nothing but what it was sent for, however directories
\* are swapped under it, and what it reports as clean is; a user receives
\* from the shared config dir only what is theirs (isolation_broker.py,
\* uid_layout.py).
CleanupIsTrue ==
    /\ focus = "walk" => W!TypeOK /\ W!RemovesOnlyItsOwn /\ W!CleanIsTrue
    /\ focus = "data" => D!TypeOK /\ D!MigratedIsOwn

\* The paths and accounts of a confined CLI are its own, whatever was linked
\* or left in their place: no rule reaches another's data, the tmp dir is
\* repaired, and no account is claimed twice (landlock.py, _landlock_rules.py,
\* entrypoint.py).
BoundaryIsKept ==
    /\ focus = "confinement" => C!ConfinementTypes /\ C!ConfinedToItsOwn
    /\ focus = "tmp" => C!TmpTypes /\ C!RepairsWhatWasLeft
    /\ focus = "ownership" => G!OwnershipTypes /\ G!AccountsAreSingle

\* The file routes lose nothing and leave nothing but the workspace: no
\* version of a file is discarded unread, and no request follows a link that
\* was put in its way (terminal_files.py).
FilesAreKept ==
    /\ focus = "save" => F!NothingIsLost
    /\ focus = "files" => F!RequestsAreConfined

\* Directories appear whole and go only when nobody lives in them: starter
\* folders are made once, a sweep spares live runs, a plugin tree is whole
\* from its first publication on, and a grant meets files of a single name
\* (workspace_manager.py, plugin_local_copy.py, workspace_resources.py).
TreesAreWhole ==
    /\ focus = "seeding" => V!SeededOnce
    /\ focus = "sweeping" => V!SweepSparesLive
    /\ focus = "trees" => P!TreeTypes /\ P!DestIsWhole
    /\ focus = "mirror" => V!MirrorTypes /\ V!GrantSeesSingleNames
    /\ focus = "plugins" => P!ReplayTypes

\* A store that several threads and instances change loses no change of
\* another: a copy under the file's identity is that file, no key goes with
\* another's, hand-written keys stay, the overlay keeps every admin's entry,
\* and the live prompt is the version it names (runtime_config.py,
\* claude_settings_env.py, mcp_plugin_overlay.py, prompt_library.py).
StoresKeepUpdates ==
    /\ focus = "config" => N!TypeOK /\ N!StampIsHonest /\ N!NoUpdateIsLost
    /\ focus = "settings" => E!SettingsTypes /\ E!HandKeysStay
    /\ focus = "overlay" => E!OverlayTypes /\ E!OverlayIsKept /\ E!ProbeIsSession
    /\ focus = "prompts" => L!TypeOK /\ L!LiveIsItsVersion

\* What a step may never do: start a session over whose transcript is there,
\* take a file from a user, remove a tree another instance reads, skip a
\* replay that is owed, change a directory that is no mirror, or rewrite the
\* history of a prompt.
NothingIsTaken ==
    [][/\ focus = "data" => D!StartsOverNothing
       /\ focus = "ownership" => G!TakesNothing
       /\ focus = "trees" => P!KeepsReadTrees
       /\ focus = "plugins" => P!SkipsNothingOwed
       /\ focus = "mirror" => V!ChangesMirrorsOnly
       /\ focus = "prompts" => L!AppendsOnly]_all
=============================================================================

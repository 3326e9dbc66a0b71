----------------------------- MODULE Confinement ------------------------------
(***************************************************************************)
(* What a confined CLI may reach: the gateway resolves and filters every   *)
(* path it grants (_GrantFilter, _confined_workspace, _ro_rw_roots in      *)
(* landlock.py), and the launcher or the broker's child turns the lists    *)
(* into Landlock rules (_landlock_rules.py).  Between the two an           *)
(* unconfined writer (off-mode history, a co-resident backend, an          *)
(* operator) may put links in place of the paths.  A path is a sequence    *)
(* of names; one path stands for each kind the filter tells apart.         *)
(*                                                                         *)
(* The tmp dir of a confined CLI (session_tmpdir in _landlock_rules.py):   *)
(* <workspace>/.cli-tmp and the git config in it are repaired before every *)
(* spawn, while the agent, whose workspace it is, may swap either.  An     *)
(* entry is nothing, a file or link, or a directory: usable, locked (its   *)
(* owner bits are gone) or another uid's.                                  *)
(***************************************************************************)
EXTENDS Integers, Sequences, FiniteSets

CONSTANTS
    MaxPlant,
    Attempts, MaxDir, MaxActs, MaxFault

VARIABLES
    perUid,    \* whether the session has a config dir of its own (uid mode)
    link,      \* the links planted so far: path -> resolved target
    hard,      \* CLAUDE.md is another name of a foreign transcript
    extra,     \* a plugin root the registry names
    pc, lists, rules,
    slot,      \* the directory (1..MaxDir) the entry names, 0 for none, -1 for a file or link
    mode,      \* of each directory: "ours", "locked" or "other"
    git,       \* of each directory its gitconfig: "none", "whole", "torn" or "bad"
    dirs, stage, fd, tries, acts, faults

confinement == <<perUid, link, hard, extra, pc, lists, rules>>
tmpdir == <<slot, mode, git, dirs, stage, fd, tries, acts, faults>>
vars == <<confinement, tmpdir>>

Words == {"home", "cfg", "base", "ws", "mine", "app", "tmp", "clone", "global", "u", "v", "memo", "projects", "env",
          "s", "theirs", "t", "key", "data", "other", "skills", "plugins", "state", "opt"}
Home == <<"home">>
Shared == <<"home", "cfg">>             \* the gateway's config dir
ConfigBase == <<"base">>                \* holds every uid's config dir
Base == <<"ws">>                        \* the workspace base
Workspace == <<"ws", "mine">>
App == <<"app">>
Temp == <<"tmp">>
Clone == <<"home", "clone">>            \* CLAUDE_PLUGIN_CLONE_ROOT
Global == <<"home", "global">>
Config == IF perUid THEN <<"base", "u">> ELSE Shared
Memo == Shared \o <<"memo">>            \* CLAUDE.md, a file
Project == Config \o <<"projects", "mine">>
SessionEnv == Config \o <<"env", "s">>
Files == {Memo, Global, <<"home", "key">>}

\* What belongs to others: no rule may reach it.
Foreign == {<<"ws", "theirs">>, Shared \o <<"projects", "theirs">>, Shared \o <<"env", "t">>,
            <<"home", "key">>, <<"app", "data">>, <<"tmp", "other">>}
           \cup (IF perUid THEN {<<"base", "v">>} ELSE {})
Places == Foreign \cup {<<>>, Home, Shared, Shared \o <<"skills">>, Shared \o <<"projects">>, Memo, Global,
                        Clone, Base, Workspace, App, Temp, <<"opt">>, Config, Project, SessionEnv}
                    \cup (IF perUid THEN {ConfigBase} ELSE {})
Plantable == {Shared \o <<"skills">>, Clone, Workspace, Project, Config \o <<"projects">>, SessionEnv}
\* Where a link may lead, and what a registry may name.
Targets == {<<>>, Shared, Shared \o <<"projects", "theirs">>, Base, <<"ws", "theirs">>, <<"home", "key">>, <<"opt">>}
           \cup (IF perUid THEN {<<"base", "v">>} ELSE {})
Extras == {<<"opt">>, Clone, Home}

Beneath(p, root) == Len(root) =< Len(p) /\ SubSeq(p, 1, Len(root)) = root

\* realpath, with chains of two links at most (MaxPlant).
Resolve(p) ==
  LET at[i \in 0..Len(p)] ==
        IF i = 0 THEN <<>>
        ELSE LET q == Append(at[i - 1], p[i]) IN IF q \in DOMAIN link THEN link[q] ELSE q
  IN at[Len(p)]
Real(p) == Resolve(Resolve(p))
HasLink(p) == \E q \in DOMAIN link : Beneath(p, q)

ConfinementTypes ==
  /\ perUid \in BOOLEAN /\ hard \in BOOLEAN /\ extra \in Extras
  /\ DOMAIN link \subseteq Plantable /\ \A p \in DOMAIN link : link[p] \in Places
  /\ pc \in {"idle", "checked", "spawned", "run", "refused"}
  /\ \A r \in rules : r.path \in Seq(Words) /\ r.write \in BOOLEAN

ConfinementInit ==
  /\ perUid \in BOOLEAN /\ extra \in Extras
  /\ link = <<>> /\ hard = FALSE /\ pc = "idle"
  /\ lists = [ro |-> {}, rw |-> {}, ws |-> <<>>] /\ rules = {}

(* _GrantFilter *)

Root(p, kind) == [path |-> Real(p), kind |-> kind]
Roots ==
  {Root(Config, "config"), Root(Home, "home"), Root(Base, "deny"), Root(App, "deny"),
   Root(Temp, "temp"), Root(Workspace, "contain")}
  \cup (IF perUid THEN {Root(Shared, "config"), Root(ConfigBase, "deny")} ELSE {})

Readable(root) ==
  {root \o <<n>> : n \in {"skills", "memo"} \cup (IF perUid /\ root = Real(Config) THEN {"plugins"} ELSE {})}

Containing(p) == {r \in Roots : r.kind # "contain" /\ Beneath(p, r.path)}
Innermost(p) == {r \in Containing(p) : \A s \in Containing(p) : Len(s.path) <= Len(r.path)}

\* It is or contains a protected root, or lies in one where nothing is granted.
Misplaced(p) ==
  \/ p = <<>>
  \/ \E r \in Roots : Beneath(r.path, p)
  \/ \E r \in Innermost(p) : r.kind \in {"deny", "temp"}

\* The one anchor in $HOME: never a link, never misplaced.
CloneRoots == IF Clone \in DOMAIN link \/ Misplaced(Real(Clone)) THEN {} ELSE {Real(Clone)}

ReadRefused(p) ==
  \/ Misplaced(p)
  \/ \E r \in Innermost(p) :
       IF r.kind = "config" THEN ~\E q \in Readable(r.path) : Beneath(p, q)
       ELSE \/ p # Global /\ ~\E c \in CloneRoots : Beneath(p, c)
            \/ \E s \in Containing(p) : s.kind = "deny"

\* A file has one name; what is read as a file is no directory.
TargetRefused(p, file) ==
  p \in Places /\ IF p \in Files THEN p = Memo /\ hard ELSE file

GrantRo(c, file) == IF ReadRefused(Real(c)) \/ TargetRefused(Real(c), file) THEN {} ELSE {Real(c)}

GrantRw(e) ==
  IF Real(e) = e /\ Beneath(e, Real(Config)) /\ ~Misplaced(e) /\ (e \notin Files) THEN {e} ELSE {}

\* A session's own dir is made without following a link below the config dir.
SessionDirs == IF \E q \in DOMAIN link : Beneath(SessionEnv, q) /\ q # Config THEN {} ELSE GrantRw(SessionEnv)

(* _confined_workspace *)

WorkspaceRefused(p) ==
  \/ p = <<>>
  \/ \E r \in Roots : r.kind # "contain" /\ Beneath(r.path, p)
  \/ \E r \in Containing(p) : r.kind \notin {"home", "temp"} /\ ~Beneath(Real(Base), r.path)

ConfinedWorkspace == Real(Workspace) = Real(Base) \o <<"mine">> /\ ~WorkspaceRefused(Real(Workspace))

(* The spawn: lists, chdir, rules. *)

\* options_env: the lists are built, or the working directory is refused.
OptionsEnv ==
  /\ pc = "idle"
  /\ IF ConfinedWorkspace
     THEN /\ pc' = "checked"
          /\ lists' = [ws |-> Real(Workspace),
                       ro |-> GrantRo(Shared \o <<"skills">>, FALSE) \cup GrantRo(Memo, TRUE) \cup GrantRo(extra, FALSE)
                              \cup (IF perUid THEN GrantRo(Config \o <<"plugins">>, FALSE) ELSE GrantRo(Global, TRUE)),
                       rw |-> GrantRw(Project) \cup SessionDirs
                              \cup (IF perUid THEN GrantRw(Config \o <<"state">>) ELSE {})]
     ELSE pc' = "refused" /\ UNCHANGED lists
  /\ UNCHANGED <<perUid, link, hard, extra, rules>>

\* The launcher (or the broker's child) finds itself in the directory the
\* chdir led to; it must be the workspace the gateway named.
Enter ==
  /\ pc = "checked"
  /\ pc' = IF Real(Workspace) = lists.ws THEN "spawned" ELSE "refused"
  /\ UNCHANGED <<perUid, link, hard, extra, lists, rules>>

\* Mutant: an entry is opened through links.
OpenFollowing(p) == IF Real(p) = Memo /\ hard THEN {} ELSE {Real(p)}

\* A gateway entry is opened from the root without following a link; a file
\* with several names is refused.
OpenNofollow(p) == IF HasLink(p) \/ (p = Memo /\ hard) THEN {} ELSE {p}

RestrictSelf ==
  /\ pc = "spawned" /\ pc' = "run"
  /\ rules' = {[path |-> p, write |-> FALSE] : p \in UNION {OpenNofollow(q) : q \in lists.ro}}
              \cup {[path |-> p, write |-> TRUE] : p \in UNION {OpenNofollow(q) : q \in lists.rw \cup {lists.ws}}}
  /\ UNCHANGED <<perUid, link, hard, extra, lists>>

\* An unconfined writer replaces a path by a link, at any time.
Plant(p, target) ==
  /\ pc # "run" /\ Cardinality(DOMAIN link) < MaxPlant
  /\ p \in Plantable \ DOMAIN link /\ ~HasLink(p) /\ ~Beneath(Real(target), p)
  /\ link' = [q \in DOMAIN link \cup {p} |-> IF q = p THEN target ELSE link[q]]
  /\ UNCHANGED <<perUid, hard, extra, pc, lists, rules>>

PlantHard ==
  /\ pc # "run" /\ ~hard /\ hard' = TRUE
  /\ UNCHANGED <<perUid, link, extra, pc, lists, rules>>

ConfinementStep ==
  \/ OptionsEnv \/ Enter \/ RestrictSelf \/ PlantHard
  \/ \E p \in Plantable, target \in Targets : Plant(p, target)

\* A running confined CLI reaches nothing of another user, session or the
\* gateway, and writes only below its own workspace, project and session
\* dirs, whatever was linked before or after the gateway looked.
ConfinedToItsOwn ==
  pc = "run" =>
    \A r \in rules :
      /\ ~\E f \in Foreign : Beneath(f, r.path)
      /\ ~(hard /\ r.path = Memo)
      /\ r.write => \E own \in {Workspace, Project, SessionEnv, Config \o <<"state">>} : Beneath(r.path, own)

-----------------------------------------------------------------------------
D == 1..MaxDir

TmpTypes ==
  /\ slot \in D \cup {0, -1} /\ mode \in [D -> {"ours", "locked", "other"}]
  /\ git \in [D -> {"none", "whole", "torn", "bad"}] /\ dirs \in 0..MaxDir
  /\ stage \in {"open", "unlink", "repair", "aside", "root", "git", "install", "again", "done", "gaveup", "refused"}
  /\ fd \in D \cup {0} /\ tries \in 0..Attempts /\ acts \in 0..MaxActs /\ faults \in 0..MaxFault

TmpInit ==
  /\ slot \in {-1, 0, 1} /\ dirs = 1 /\ stage = "open" /\ fd = 0 /\ tries = 1 /\ acts = 0 /\ faults = 0
  /\ \E k \in {"ours", "locked", "other"} : mode = [d \in D |-> IF d = 1 THEN k ELSE "ours"]
  /\ \E g \in {"none", "whole", "bad"} : git = [d \in D |-> IF d = 1 THEN g ELSE "none"]

\* One more look, or the last one was made.
Retry == IF tries < Attempts THEN stage' = "open" /\ tries' = tries + 1 ELSE stage' = "gaveup" /\ UNCHANGED tries

(* _dir_at: one look, one repair *)

MakeDir ==
  /\ stage = "open" /\ slot = 0 /\ dirs < MaxDir
  /\ dirs' = dirs + 1 /\ slot' = dirs + 1 /\ Retry
  /\ UNCHANGED <<mode, git, fd, acts, faults>>

OpenDir ==
  /\ stage = "open" /\ slot # 0
  /\ IF slot = -1 THEN stage' = "unlink" /\ UNCHANGED fd
     ELSE IF mode[slot] = "locked" THEN stage' = "repair" /\ UNCHANGED fd
     ELSE IF mode[slot] = "other" THEN stage' = "aside" /\ UNCHANGED fd
     ELSE stage' = "root" /\ fd' = slot
  /\ UNCHANGED <<slot, mode, git, dirs, tries, acts, faults>>

\* A non-directory goes; a directory that took its place stays.
UnlinkAt ==
  /\ stage = "unlink" /\ slot' = (IF slot = -1 THEN 0 ELSE slot) /\ Retry
  /\ UNCHANGED <<mode, git, dirs, fd, acts, faults>>

\* _repair_dir_at: the entry as it is by now, through a handle on it.
RepairDirAt ==
  /\ stage = "repair"
  /\ IF slot \in D /\ mode[slot] = "other" THEN stage' = "aside" /\ UNCHANGED <<slot, mode, tries>>
     ELSE /\ slot' = (IF slot = -1 THEN 0 ELSE slot)
          /\ mode' = (IF slot \in D THEN [mode EXCEPT ![slot] = "ours"] ELSE mode)
          /\ Retry
  /\ UNCHANGED <<git, dirs, fd, acts, faults>>

\* _rename_aside, which fails where the workspace is not ours to write.
RenameAside ==
  /\ stage = "aside"
  /\ \/ slot' = 0 /\ Retry /\ UNCHANGED faults
     \/ faults < MaxFault /\ faults' = faults + 1 /\ stage' = "refused" /\ UNCHANGED <<slot, tries>>
  /\ UNCHANGED <<mode, git, dirs, fd, acts>>

(* session_tmpdir, once it holds the directory *)

RepairCliRoot ==
  /\ stage = "root" /\ stage' = "git"
  /\ UNCHANGED <<slot, mode, git, dirs, fd, tries, acts, faults>>

\* A usable git config stays, any other moves aside.
LookAtGit ==
  /\ stage = "git"
  /\ stage' = (IF git[fd] = "whole" THEN "again" ELSE "install")
  /\ git' = [git EXCEPT ![fd] = IF @ = "whole" THEN @ ELSE "none"]
  /\ UNCHANGED <<slot, mode, dirs, fd, tries, acts, faults>>

\* Mutant: the file is written under its own name.
InstallInPlace ==
  /\ stage = "install" /\ stage' = "again"
  /\ \/ git' = [git EXCEPT ![fd] = "whole"] /\ UNCHANGED faults
     \/ faults < MaxFault /\ faults' = faults + 1 /\ git' = [git EXCEPT ![fd] = "torn"]
  /\ UNCHANGED <<slot, mode, dirs, fd, tries, acts>>

\* Written under another name and renamed: it fails whole or not at all, and
\* a failure does not fail the spawn.
InstallGitConfig ==
  /\ stage = "install" /\ stage' = "again"
  /\ \/ git' = [git EXCEPT ![fd] = "whole"] /\ UNCHANGED faults
     \/ faults < MaxFault /\ faults' = faults + 1 /\ UNCHANGED git
  /\ UNCHANGED <<slot, mode, dirs, fd, tries, acts>>

\* The path is answered only when it still names the directory prepared.
LookAgain ==
  /\ stage = "again"
  /\ IF slot = fd THEN stage' = "done" /\ UNCHANGED <<fd, tries>> ELSE Retry /\ fd' = 0
  /\ UNCHANGED <<slot, mode, git, dirs, acts, faults>>

(* The agent, in its own workspace. *)

Act == stage \notin {"done", "gaveup", "refused"} /\ acts < MaxActs /\ acts' = acts + 1

Swap ==
  /\ Act
  /\ \/ slot' \in {-1, 0} /\ UNCHANGED <<dirs, mode>>
     \/ dirs < MaxDir /\ dirs' = dirs + 1 /\ slot' = dirs + 1
        /\ \E k \in {"ours", "locked"} : mode' = [mode EXCEPT ![dirs + 1] = k]
  /\ UNCHANGED <<git, stage, fd, tries, faults>>

Spoil ==
  /\ Act /\ slot \in D /\ mode[slot] # "other" /\ git' = [git EXCEPT ![slot] = "bad"]
  /\ UNCHANGED <<slot, mode, dirs, stage, fd, tries, faults>>

TmpStep ==
  \/ MakeDir \/ OpenDir \/ UnlinkAt \/ RepairDirAt \/ RenameAside
  \/ RepairCliRoot \/ LookAtGit \/ InstallGitConfig \/ LookAgain \/ Swap \/ Spoil

\* Whatever an earlier session left in its place, the tmp dir is had again:
\* only swaps while it is repaired use up the attempts, and the git config is
\* never left half written.
RepairsWhatWasLeft ==
  /\ stage = "gaveup" => acts > 0
  /\ stage = "done" /\ acts = 0 => slot = fd /\ mode[fd] = "ours"
  /\ \A d \in D : git[d] # "torn"

-----------------------------------------------------------------------------
\* The two have no state in common.
Init == ConfinementInit /\ TmpInit
ConfinementNext == ConfinementStep /\ UNCHANGED tmpdir
TmpNext == TmpStep /\ UNCHANGED confinement
Next == ConfinementNext \/ TmpNext

Spec == Init /\ [][Next]_vars
=============================================================================

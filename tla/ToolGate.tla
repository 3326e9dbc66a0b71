------------------------------ MODULE ToolGate ------------------------------
(***************************************************************************)
(* What a Claude session may do and who is asked: the approval of tool     *)
(* calls and the permission mode (src/backends/claude/client.py,           *)
(* tool_approval.py and the continuation of src/routes/responses.py), and  *)
(* the selection of skills and subagents with the catalog it is read from  *)
(* (client.py, skill_names.py, slash_commands.py).                         *)
(*                                                                         *)
(* A session has one decision slot.  Calls that need a person park on it,  *)
(* beside each other, beside timeouts and interrupts, and beside a client  *)
(* whose answer is taken, refreshed and committed in steps between which   *)
(* anything may happen.  Each action is a stretch of code in which asyncio *)
(* runs nothing else.                                                      *)
(*                                                                         *)
(* The hooks that judge the paths of file tools, and the soft quota, are   *)
(* those of src/backends/claude/workspace_sandbox.py.                      *)
(***************************************************************************)
EXTENDS Naturals, FiniteSets, FiniteSetsExt, TLC

CONSTANTS
    Calls,       \* tool calls of the session, each made once
    Starts,      \* requests that start a session or send a prompt in one workspace
    MaxInstall,  \* bound: changes of what is installed
    MaxTick,     \* bound: passes of the catalog's refresh age
    Writers,     \* sessions of one user that write, each its own file
    Limit,       \* USER_WORKSPACE_QUOTA_MB
    None

VARIABLES
    boundary,   \* read_boundary_enabled
    standing,   \* PERMISSION_MODE of the operator
    mode,       \* the mode the CLI runs in
    call,       \* each call: its tool, its arguments and what became of it
    slot,       \* pending_tool_call
    event,      \* input_event: whose event it is
    response,   \* input_response
    lock,       \* session.lock: None, a "turn", or the answer that is taken
    said,       \* the calls the user approved
    \* the selection
    installed,  \* the skills and commands the CLI registers in the workspace
    settled,    \* those that were there when the refresh age last passed
    cache,      \* _PerCwdCache.entries: names and age
    slots,      \* _PerCwdCache.locks: who reads the catalog
    hidden,     \* HIDDEN_SKILLS and BLOCKED_COMMANDS
    req,        \* each request: what it asks for and where it is
    changes, ticks,
    \* the paths
    conf,       \* the operator's configuration
    linkTo,     \* where a link in the workspace leads
    job,        \* the file tool call that was allowed and is about to run
    touched,    \* what it touched
    \* the quota
    size,       \* the file of each writer
    writer,     \* its write: the new size, the usage it was judged on
    raced       \* a write landed on another usage, or could not be judged

decisionVars == <<boundary, standing, mode, call, slot, event, response, lock, said>>
selectionVars == <<installed, settled, cache, slots, hidden, req, changes, ticks>>
guardVars == <<conf, linkTo, job, touched>>
quotaVars == <<size, writer, raced>>

-----------------------------------------------------------------------------
(* Decisions. *)

Modes == {"default", "bypassPermissions", "plan"}
\* acceptEdits is treated as default everywhere.
Execution == Modes \ {"plan"}

\* approvalTools of an MCP server: no key, a list of names, "*", "*" with every
\* tool read-only by "*", and a value that is neither.  A tool of it: one the
\* list names, one that is declared read-only, and any other.
Servers == {"absent", "list", "star", "starAll", "typo"}
McpTools == {"listed", "readOnly", "other"}

\* split_approval, ApprovalPolicy.target: a malformed value gates every tool,
\* and only tools that are read-only by name are exempt from "*".
Gated(server, t) ==
    CASE server = "absent" -> FALSE
      [] server = "list" -> t = "listed"
      [] server = "starAll" -> TRUE
      [] OTHER -> t # "readOnly"

\* Two different sets of arguments.
Digests == {1, 2}

\* effective_permission_mode
Effective(m) ==
    IF boundary /\ m = "default" THEN "bypassPermissions" ELSE m

\* plan_execution_mode: the operator's mode, never plan.
PlanExecution == Effective(IF standing \in Execution THEN standing ELSE "default")

\* What a client may send as function_call_output: an approval with the digest
\* it was shown (of this or of an earlier card), a plan's, or anything else.
Outputs == [form : {"approve"}, digest : Digests] \cup [form : {"planYes", "other"}, digest : {None}]

\* is_approved and the answers plan_decision_result reads as approval; an
\* answer to a question is no approval.
IsApproved(c, o) ==
    /\ o # None
    /\ \/ call[c].tool = "plan" /\ o.form = "planYes"
       \/ call[c].tool = "gated" /\ o.form = "approve" /\ o.digest = call[c].digest

NewCall == [tool |-> None, digest |-> None, st |-> "new"]

DecisionInit ==
    /\ boundary \in BOOLEAN /\ standing \in {"default", "plan"}
    /\ \E m \in {"default", "plan"} : mode = Effective(m)
    /\ call = [c \in Calls |-> NewCall]
    /\ slot = None /\ event = None /\ response = None /\ lock = "turn" /\ said = {}

Waiting(c) == call[c].st \in {"waiting", "fired"}

\* A call ends: what it was is kept if it ran.
Ended(t, s) == [tool |-> IF s = "ran" THEN t ELSE None, digest |-> None, st |-> s]
End(c, t, s) == call' = [call EXCEPT ![c] = Ended(t, s)]

\* _park_for_decision: the session has one decision slot.
Busy == slot # None \/ event # None

\* The rest of _park_for_decision, up to its wait.
Park(c, t, d) ==
    /\ call' = [call EXCEPT ![c] = [tool |-> t, digest |-> d, st |-> "waiting"]]
    /\ slot' = c /\ event' = c
    /\ UNCHANGED response

\* make_tool_approval_hook: a gated call is denied when the client cannot show
\* it (tool_approval_capable, which every request sets anew, before it has the
\* lock), or when another decision is pending; the others are left to the CLI,
\* whose callback approves them.
CallMcp(c) ==
    \E s \in Servers, t \in McpTools, d \in Digests, capable \in BOOLEAN :
       /\ call[c].st = "new"
       /\ IF ~Gated(s, t)
          THEN End(c, "free", "ran") /\ UNCHANGED <<slot, event, response>>
          ELSE IF ~capable \/ Busy
          THEN End(c, "gated", "denied") /\ UNCHANGED <<slot, event, response>>
          ELSE Park(c, "gated", d)
       /\ UNCHANGED <<boundary, standing, mode, lock, said>>

\* can_use_tool on AskUserQuestion and ExitPlanMode, which a CLI in plan mode calls.
CallHuman(c) ==
    \E t \in {"question", "plan"} :
       /\ call[c].st = "new" /\ (t = "plan" => mode = "plan")
       /\ IF Busy
          THEN End(c, t, "denied") /\ UNCHANGED <<slot, event, response>>
          ELSE Park(c, t, None)
       /\ UNCHANGED <<boundary, standing, mode, lock, said>>

\* The CLI asks about a command unless it bypasses permissions; the read block
\* asks in every mode about what leaves the workspace.
Asks(t) == mode # "bypassPermissions" \/ (boundary /\ t = "bashOut")

\* can_use_tool on Bash: with the boundary every ask is refused, without it none is.
CallBash(c) ==
    \E t \in {"bashIn", "bashOut"} :
       /\ call[c].st = "new"
       /\ End(c, t, IF Asks(t) /\ boundary THEN "denied" ELSE "ran")
       /\ UNCHANGED <<boundary, standing, mode, slot, event, response, lock, said>>

\* The end of _park_for_decision: it releases what this call itself has set.
Release(c) ==
    /\ slot' = IF slot = c THEN None ELSE slot
    /\ event' = IF event = c THEN None ELSE event
    /\ response' = IF event = c THEN None ELSE response

\* ASK_USER_TIMEOUT_SECONDS, or the interrupt that cancels the call.
GiveUp(c) ==
    /\ Waiting(c)
    /\ End(c, None, "denied") /\ Release(c)
    /\ UNCHANGED <<boundary, standing, mode, lock, said>>

\* The call wakes: a gated call and a plan go ahead only on an approval, a plan
\* moves the session out of plan mode, a question is always answered by a denial.
Wake(c) ==
    /\ call[c].st = "fired"
    /\ LET yes == IsApproved(c, response) IN
       /\ End(c, call[c].tool, IF yes THEN "ran" ELSE "denied")
       /\ mode' = IF yes /\ call[c].tool = "plan" THEN PlanExecution ELSE mode
    /\ Release(c)
    /\ UNCHANGED <<boundary, standing, lock, said>>

\* A turn ends, at a question or on its own; another begins, which is refused
\* while a decision is pending and refreshes the mode of the client.
TurnEnds ==
    /\ lock = "turn" /\ lock' = None
    /\ UNCHANGED <<boundary, standing, mode, call, slot, event, response, said>>

TurnBegins ==
    /\ lock = None /\ slot = None
    /\ lock' = "turn"
    /\ \E m \in Modes : mode' = Effective(m)
    /\ UNCHANGED <<boundary, standing, call, slot, event, response, said>>

\* _unblock_pending_tool_call: the answer is for the call that is pending.
Reserve(c, o) ==
    /\ lock = None /\ slot = c /\ event # None
    /\ lock' = c /\ response' = o
    /\ said' = IF IsApproved(c, o) THEN said \cup {c} ELSE said
    /\ UNCHANGED <<boundary, standing, mode, call, slot, event>>

\* _refresh_existing_client_policy, update_request_policy: a mode the SDK
\* refuses ends the request, the call stays parked.
RefreshFails ==
    /\ lock \in Calls /\ lock' = None
    /\ UNCHANGED <<boundary, standing, mode, call, slot, event, response, said>>

Refresh ==
    /\ lock \in Calls
    /\ \E m \in Modes : mode' = Effective(m) 
    /\ UNCHANGED <<boundary, standing, call, slot, event, response, lock, said>>

\* _commit_pending_tool_call_locked, after the policy was accepted and the
\* backlog drained: it wakes whoever waits by then.
Commit ==
    /\ lock \in Calls /\ lock' = "turn"
    /\ slot' = None
    /\ call' = [c \in Calls |-> IF c = event THEN [call[c] EXCEPT !.st = "fired"] ELSE call[c]]
    /\ UNCHANGED <<boundary, standing, mode, event, response, said>>

\* _clear_stale_pending_tool_call: the client is dropped, and its calls with it.
ClearStale ==
    /\ lock = "turn"
    /\ call' = [c \in Calls |-> IF Waiting(c) THEN Ended(None, "denied") ELSE call[c]]
    /\ slot' = None /\ event' = None /\ response' = None
    /\ UNCHANGED <<boundary, standing, mode, lock, said>>

DecisionStep ==
    /\ \/ \E c \in Calls :
             \/ CallMcp(c) \/ CallHuman(c) \/ CallBash(c) \/ GiveUp(c) \/ Wake(c)
             \/ \E o \in Outputs : Reserve(c, o)
       \/ TurnEnds \/ TurnBegins \/ RefreshFails \/ Refresh \/ Commit \/ ClearStale
    /\ UNCHANGED <<selectionVars, guardVars, quotaVars>>

\* A call that needs a decision, and a plan, runs only if the user approved
\* that call with those arguments, whatever was answered to the calls before
\* it, timed out while its answer was taken, or was parked in between
\* (make_tool_approval_hook, plan_decision_result).
OnlyApprovedRuns ==
    \A c \in Calls : call[c].st = "ran" /\ call[c].tool \in {"gated", "plan"} => c \in said

\* Whoever waits is the one the slot shows or the one whose answer is on its
\* way: no call waits on an event that nobody can answer (_park_for_decision).
WaitersAreHeard ==
    /\ \A c \in Calls : Waiting(c) => event = c /\ (call[c].st = "waiting" => slot = c)
    /\ slot # None => event = slot /\ Waiting(slot)

\* With the read boundary no command leaves the workspace, and in an execution
\* mode none that stays in it is refused (effective_permission_mode).
ReadsStayInside ==
    boundary =>
       /\ mode \in {"plan", "bypassPermissions"}
       /\ \A c \in Calls : call[c].tool = "bashOut" => call[c].st # "ran"

-----------------------------------------------------------------------------
(* Selection. *)

\* Skills: two of a plugin, which are asked for as "a" and "h", and one whose
\* directory name the SDK refuses.
Names == {"p:a", "p:h", "odd"}
TailOf == [n \in Names \cup {"a", "h"} |-> CASE n = "p:a" -> "a" [] n = "p:h" -> "h" [] OTHER -> n]

\* skill_name_problem, _drop_unusable_skill_names
Usable(n) == n # "odd"

\* d == r or d.endswith(":" + r)
Matches(d, r) == d = r \/ TailOf[d] = r

\* keep: a hidden skill is hidden in its plugin-qualified form too.
Keep(n) == n \notin hidden /\ TailOf[n] \notin hidden

Agents == {"general-purpose", "x"}

\* What is asked: a session with named skills (Skill(<name>)), with every skill
\* (Skill, or none named), with a choice of subagents, or a slash command.
Granular == [kind : {"granular"}, want : {{"a"}, {"a", "h"}, {"odd"}}]
Every == [kind : {"all"}, want : {{}}]
Prompts == [kind : {"prompt"}, want : {{"p:a"}, {"h"}}, at : BOOLEAN]
AgentChoices == [kind : {"agents"}, want : {{}, {"x"}}, off : {{}, {"general-purpose"}}]
Asked == Granular \cup Every \cup Prompts \cup AgentChoices

\* age: 0 before FORCE_REFRESH_MIN_AGE_SECONDS, 1 before CACHE_TTL_SECONDS, 2 after it.
NoCatalog == [names |-> {}, age |-> 2]

SelectionInit ==
    /\ installed \in {{}, {"p:h", "odd"}} /\ settled = installed
    /\ cache = NoCatalog /\ slots = None
    /\ hidden \in {{}, {"h"}}
    /\ req = [r \in Starts |-> [pc |-> "new"]]
    /\ changes = 0 /\ ticks = 0

Sets(r, f) == req' = [req EXCEPT ![r] = f @@ @]

\* agent_allowlist: None, here every agent, for a bare Task or without a rule.
Allowed(a) == IF a.want = {} THEN Agents ELSE a.want

\* _validate_skill_rules, and validate_prompt before it needs the catalog: a
\* blocked command, or an argument with a file mention.
RefusedAtOnce(a) ==
    \/ a.kind = "granular" /\ \E n \in a.want : ~Usable(n)
    \/ a.kind = "prompt" /\ (a.at \/ a.want \subseteq hidden)

\* _set_allowed_tools, _apply_skills_allowlist: a session with every
\* skill and nothing hidden reads no catalog.  settled is noted for what is promised about the request.
Ask(r) ==
    /\ req[r].pc = "new"
    /\ \E a \in Asked :
          LET bad == RefusedAtOnce(a)
              idle == a.kind = "agents" \/ (a.kind = "all" /\ hidden = {})
          IN req' = [req EXCEPT ![r] =
                [pc |-> IF bad THEN "refused" ELSE IF idle THEN "ready" ELSE "looking",
                 asked |-> a, force |-> FALSE, old |-> settled, seen |-> {}, failed |-> FALSE,
                 skills |-> IF a.kind = "all" /\ ~bad THEN Names ELSE {}, ran |-> None]]
    /\ UNCHANGED <<installed, settled, cache, slots, hidden, changes, ticks>>

\* What a request does with the catalog it got: it looks once more, by force,
\* when a name it asks for is not there (_apply_skills_allowlist, validate_prompt).
Use(r, names) ==
    LET a == req[r].asked
        missing == \E w \in a.want : \A d \in names :
                      IF a.kind = "prompt" THEN d # w ELSE ~Matches(d, w)
    IN CASE a.kind # "all" /\ missing /\ ~req[r].force ->
              Sets(r, [pc |-> "looking", force |-> TRUE])
         [] a.kind = "prompt" ->
              Sets(r, [pc |-> IF missing THEN "refused" ELSE "ready", seen |-> names])
         [] a.kind = "granular" ->
              Sets(r, [pc |-> "ready", seen |-> names,
                       skills |-> {n \in a.want \cup {d \in names : \E w \in a.want : Matches(d, w)} :
                                     Keep(n) /\ Usable(n)}])
         [] OTHER ->
              Sets(r, [pc |-> "ready", seen |-> names,
                       skills |-> {n \in names : Keep(n) /\ Usable(n)}])

\* _cached_preflight before the lock.
Look(r) ==
    /\ req[r].pc = "looking"
    /\ IF cache.age < 2 /\ ~req[r].force
       THEN Use(r, cache.names)
       ELSE Sets(r, [pc |-> "queued"])
    /\ UNCHANGED <<installed, settled, cache, slots, hidden, changes, ticks>>

\* Someone may have read the catalog while r waited: a forced read takes it if
\* it is younger than FORCE_REFRESH_MIN_AGE_SECONDS.
CatalogServes(r) == cache.age < (IF req[r].force THEN 1 ELSE 2)

Locked(r) ==
    /\ req[r].pc = "queued" /\ slots = None
    /\ IF CatalogServes(r)
       THEN Use(r, cache.names) /\ UNCHANGED slots
       ELSE slots' = r /\ Sets(r, [pc |-> "fetching"])
    /\ UNCHANGED <<installed, settled, cache, hidden, changes, ticks>>

\* The preflight CLI has answered.
Fetched(r) ==
    /\ req[r].pc = "fetching"
    /\ cache' = [names |-> installed, age |-> 0] /\ slots' = None
    /\ Use(r, installed)
    /\ UNCHANGED <<installed, settled, hidden, changes, ticks>>

\* It has failed: named skills stay as they were asked for, anything else is
\* an error of the request.
FetchFails(r) ==
    /\ req[r].pc = "fetching"
    /\ slots' = None
    /\ IF req[r].asked.kind = "granular"
       THEN Sets(r, [pc |-> "ready", failed |-> TRUE,
                     skills |-> {n \in req[r].asked.want : Keep(n) /\ Usable(n)}])
       ELSE Sets(r, [pc |-> "refused", failed |-> TRUE])
    /\ UNCHANGED <<installed, settled, cache, hidden, changes, ticks>>

\* _make_task_hook judges the subagent the CLI will run.
Judged(t) == IF t = None THEN "general-purpose" ELSE t

\* The CLI calls a subagent, in the background unless it says otherwise, and the
\* hook denies it or rewrites it into the foreground (FORCE_FOREGROUND_SUBAGENTS).
CallAgent(r) ==
    /\ req[r].pc = "ready" /\ req[r].asked.kind = "agents" /\ req[r].ran = None
    /\ \E t \in Agents \cup {None} :
          LET a == req[r].asked
              no == (Allowed(a) # Agents /\ Judged(t) \notin Allowed(a)) \/ Judged(t) \in a.off
          IN Sets(r, [ran |-> IF no THEN "denied"
                              ELSE IF t = None THEN "general-purpose" ELSE t])
    /\ UNCHANGED <<installed, settled, cache, slots, hidden, changes, ticks>>

\* A plugin or a skill directory comes or goes.
Install ==
    /\ changes < MaxInstall /\ changes' = changes + 1
    /\ \E n \in Names : installed' = (installed \ {n}) \cup ({n} \ installed)
    /\ settled' = settled \cap installed'
    /\ req' = [r \in Starts |-> IF req[r].pc = "new" THEN req[r]
                                ELSE [req[r] EXCEPT !.old = @ \cap installed']]
    /\ UNCHANGED <<cache, slots, hidden, ticks>>

Tick ==
    /\ ticks < MaxTick /\ ticks' = ticks + 1
    /\ cache' = [cache EXCEPT !.age = IF @ = 2 THEN 2 ELSE @ + 1]
    /\ settled' = installed
    /\ UNCHANGED <<installed, slots, hidden, req, changes>>

SelectionStep ==
    /\ \/ \E r \in Starts :
             Ask(r) \/ Look(r) \/ Locked(r) \/ Fetched(r) \/ FetchFails(r) \/ CallAgent(r)
       \/ Install \/ Tick
    /\ UNCHANGED <<decisionVars, guardVars, quotaVars>>

Ready(r, k) == req[r].pc = "ready" /\ req[r].asked.kind = k

\* What a session may use is what was selected: named skills only, in any
\* qualified form of theirs, none that is hidden or that the SDK refuses; a
\* subagent that runs is enabled and not switched off, also the one that runs
\* when none is named
\* (_apply_skills_allowlist, _set_allowed_tools, _make_task_hook).
SelectionHolds ==
    /\ \A r \in Starts : Ready(r, "granular") =>
          \A n \in req[r].skills :
             /\ Usable(n)
             /\ \E w \in req[r].asked.want : Matches(n, w)
    /\ \A r \in Starts : req[r].pc = "ready" => \A n \in req[r].skills : TailOf[n] \notin hidden
    /\ \A r \in Starts : Ready(r, "agents") /\ req[r].ran \in Agents =>
          req[r].ran \in Allowed(req[r].asked) \ req[r].asked.off

\* A skill that has been installed for the refresh age when it is asked for,
\* and stays, is found, whatever older catalog is cached or is being read for
\* another request, unless the preflight fails (_cached_preflight).
InstalledIsFound ==
    \A r \in Starts :
       /\ Ready(r, "granular") /\ ~req[r].failed =>
             \A w \in req[r].asked.want : (\E d \in req[r].old : Matches(d, w)) =>
                \E d \in req[r].seen : Matches(d, w)
       /\ req[r].pc = "refused" /\ req[r].asked.kind = "prompt" /\ ~RefusedAtOnce(req[r].asked)
             => req[r].failed \/ ~(req[r].asked.want \subseteq req[r].old)

-----------------------------------------------------------------------------
(* Paths. *)

\* The tree: workspaces under their base, the shared config dir S with the
\* session's project, another's and the shared assets, a per-uid config dir P,
\* and two directories elsewhere.
ParentOf == [ws |-> "base", wsOther |-> "base", S |-> "root", own |-> "S", other |-> "S",
             assets |-> "S", P |-> "root", ownP |-> "P", base |-> "root", plugin |-> "root",
             add |-> "root", root |-> "root"]
Dirs == DOMAIN ParentOf

\* _is_within
Within(d, r) == r \in {d, ParentOf[d], ParentOf[ParentOf[d]]} \cup {"root"}
WithinAny(d, rs) == \E r \in rs : Within(d, r)

\* Paths a tool may name: directories, a link in the workspace, and the name of
\* the assets in P, which is a link to those of S.
Targets == Dirs \cup {"link", "assetsP"}
Resolve(t) == CASE t = "link" -> linkTo [] t = "assetsP" -> "assets" [] OTHER -> t

Config == [sandbox : BOOLEAN, perUid : BOOLEAN, outside : {{}, {"read"}, {"write"}},
           plugin : {"plugin", "base"}, add : {"add", "S"}, addReadOnly : BOOLEAN]

GuardInit ==
    /\ conf \in Config /\ linkTo = "ws" /\ job = None /\ touched = None

\* _operator_add_dir_roots: a writable entry, and one that overlaps the config
\* dir, the workspaces or contains the session's workspace, is not granted.
AddDirRoots ==
    LET d == conf.add IN
    IF /\ conf.addReadOnly
       /\ \A p \in {"S", "base"} : ~Within(d, p) /\ ~Within(p, d)
       /\ ~Within("ws", d)
    THEN {d} ELSE {}

\* _writable_extra_roots and the two tiers of make_workspace_sandbox_hook.
WriteRoots == {"ws", "own"}
ReadRoots == WriteRoots \cup {"assets", conf.plugin} \cup AddDirRoots

\* make_workspace_sandbox_hook: the path-boundary policy.
SandboxDenies(tool, d) ==
    /\ conf.sandbox /\ tool \notin conf.outside
    /\ ~WithinAny(d, IF tool = "read" THEN ReadRoots ELSE WriteRoots)

\* make_claude_home_guard_hook: the protected config dirs, the session's own
\* project, and what it may read.
Protected == {"S"} \cup (IF conf.perUid THEN {"P"} ELSE {})
OwnProject == IF conf.perUid THEN "ownP" ELSE "own"
Readable == {OwnProject, "assets", conf.plugin}

\* violation: the shared roots are read-only wherever they are, except for the
\* workspace and the own project; the rest of a config dir is closed.
GuardDenies(tool, d) ==
    \/ /\ tool = "write" /\ ~WithinAny(d, {"ws", OwnProject})
       /\ WithinAny(d, Readable \ {OwnProject})
    \/ WithinAny(d, Protected) /\ ~WithinAny(d, IF tool = "write" THEN {OwnProject} ELSE Readable)

\* The hooks on a file tool: every one runs, and one denial is enough.
Hook ==
    /\ job = None
    /\ \E tool \in {"read", "write"}, t \in Targets :
          /\ ~SandboxDenies(tool, Resolve(t)) /\ ~GuardDenies(tool, Resolve(t))
          /\ job' = [tool |-> tool, target |-> t, judged |-> Resolve(t)]
    /\ touched' = None
    /\ UNCHANGED <<conf, linkTo>>

\* The tool runs, on what its path is by then.
RunTool ==
    /\ job # None
    /\ touched' = [tool |-> job.tool, dir |-> Resolve(job.target),
                   moved |-> Resolve(job.target) # job.judged]
    /\ job' = None
    /\ UNCHANGED <<conf, linkTo>>

\* A command of the session replaces the link in its workspace.
Relink ==
    /\ \E d \in {"ws", "wsOther", "other", "assets", "base", "plugin"} \ {linkTo} : linkTo' = d
    /\ UNCHANGED <<conf, job, touched>>

GuardStep ==
    /\ Hook \/ RunTool \/ Relink
    /\ UNCHANGED <<decisionVars, selectionVars, quotaVars>>

\* A file tool touches of the config dirs only the session's project and, to
\* read, the shared assets; it writes to no shared root, not even to one that
\* contains the workspace; and with the sandbox on it meets another user's
\* workspace only if the operator put a plugin root around it.  A link that is
\* replaced between the hook and the tool is not seen by the hooks.
SharedIsKept ==
    touched # None /\ ~touched.moved =>
       LET d == touched.dir IN
       /\ WithinAny(d, Protected) =>
             d = OwnProject \/ (touched.tool = "read" /\ d = "assets")
       /\ touched.tool = "write" => d \notin {"assets", conf.plugin}
       /\ touched.tool = "write" /\ conf.plugin = "base" => d # "wsOther"
       /\ conf.sandbox /\ touched.tool \notin conf.outside /\ d = "wsOther" =>
             touched.tool = "read" /\ conf.plugin = "base"

-----------------------------------------------------------------------------
(* Quota. *)

\* logical_size_bytes of the user's root.
Used == MapThenSumSet(LAMBDA w : size[w], Writers)

QuotaInit ==
    /\ size = [w \in Writers |-> 0]
    /\ writer = [w \in Writers |-> None]
    /\ raced = FALSE

\* ensure_growth_fits: what is replaced is given back, never more than is used.
Fits(w, n) ==
    Used - (IF size[w] > Used THEN Used ELSE size[w]) + n <= Limit

\* _quota_preflight_reason: a predictable write is projected; one that is not is
\* refused only when the workspace is full already.
Preflight(w) ==
    /\ writer[w] = None
    /\ \E n \in 0..Limit + 1, opaque \in BOOLEAN :
          /\ IF opaque THEN Used < Limit ELSE Fits(w, n)
          /\ writer' = [writer EXCEPT ![w] = [new |-> n, opaque |-> opaque, used |-> Used]]
    /\ UNCHANGED <<size, raced>>

\* The write itself, after the hook.
Land(w) ==
    /\ writer[w] # None
    /\ size' = [size EXCEPT ![w] = writer[w].new]
    /\ writer' = [writer EXCEPT ![w] = None]
    /\ raced' = (raced \/ writer[w].opaque \/ writer[w].used # Used)

QuotaStep ==
    /\ \E w \in Writers : Preflight(w) \/ Land(w)
    /\ UNCHANGED <<decisionVars, selectionVars, guardVars>>

\* The quota is soft in the ways its module says and in no other: it is passed
\* only after a write that could not be predicted or that landed on another
\* usage than it was judged on.
SoftInKnownWays == Used > Limit => raced
=============================================================================

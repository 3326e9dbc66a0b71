------------------------------- MODULE CodexRpc -------------------------------
(***************************************************************************)
(* The Codex backend whose sessions share one app-server process:          *)
(* CodexClient and CodexJsonRpcClient of backends/codex/client.py.         *)
(*                                                                         *)
(* One lock serves every session's turn.  A turn that asks for approval    *)
(* leaves the lock and its thread behind in the process; the process may   *)
(* be replaced before the answer comes, by a failure of another session's  *)
(* turn or because another session brings a different environment.         *)
(*                                                                         *)
(* The tool policy of a Codex session: what a request's allow and deny     *)
(* lists, the operator's global deny list and the permission mode make of  *)
(* the sandbox and of the approvals Codex asks for.                        *)
(* backends/appserver/policy.py and interactions.py, with create_client    *)
(* and update_request_policy of client.py.                                 *)
(*                                                                         *)
(* Names stands for tool names by what they can be turned into: "write"    *)
(* and "network" are what a read-only sandbox denies, "shell" and "mcp"    *)
(* have no setting that denies them.                                       *)
(***************************************************************************)
EXTENDS Naturals, Sequences, FiniteSets

CONSTANTS
    Sessions,
    EnvOf,          \* session -> the environment its process must have
    MaxProc,        \* processes started
    MaxTurn,        \* turns of a session
    MaxAsk,         \* approval requests
    MaxQueue,       \* notifications not yet read
    None

Asks == 1..MaxAsk

VARIABLES
    proc,           \* number of the shared process (_rpc), 0 when there is none
    count,          \* processes started so far
    env,            \* _rpc_env
    lock,           \* holder of _rpc_lock
    st,             \* where a session's turn is
    tries,          \* attempts of turn/start
    no,             \* number of a session's current turn, for its turn id
    native,         \* turn ids the process is working on
    queue,          \* notifications of the process, in order
    ask,            \* approval requests: [proc, st, by]
    asked,
    pend,           \* pending_approval_request_id, with the process that asked
    told,           \* how a session's turn ended
    global,         \* DISALLOWED_TOOLS
    handle,         \* the session's handle, None before create_client
    wanted,         \* the request the handle was last told of
    question,       \* the approval Codex asks for
    verdict         \* what was answered, and who decided

rpc  == <<proc, count, env>>
turn == <<st, tries, no, told>>
rpcVars == <<rpc, lock, turn, native, queue, ask, asked, pend>>

RpcInit ==
    /\ proc = 0 /\ count = 0 /\ env = None /\ lock = None
    /\ st = [s \in Sessions |-> "idle"] /\ tries = [s \in Sessions |-> 0]
    /\ no = [s \in Sessions |-> 0] /\ native = {} /\ queue = <<>>
    /\ ask = [a \in Asks |-> [proc |-> 0, st |-> "none", by |-> None]] /\ asked = 0
    /\ pend = [s \in Sessions |-> None] /\ told = [s \in Sessions |-> None]

\* The end of a process takes its turns and its requests with it.
Gone ==
    /\ native' = {} /\ queue' = <<>>
    /\ ask' = [a \in Asks |-> IF ask[a].st = "open" THEN [ask[a] EXCEPT !.st = "dead"] ELSE ask[a]]

\* _close_rpc_locked
CloseRpc == proc' = 0 /\ env' = None /\ Gone /\ UNCHANGED count

\* _ensure_rpc_locked: the running process, or a new one when there is none or
\* its environment is not the session's.
Usable(s) == proc # 0 /\ env = EnvOf[s]
EnsureRpc(s) ==
    IF Usable(s) THEN UNCHANGED <<rpc, native, queue, ask>>
    ELSE /\ count < MaxProc /\ count' = count + 1 /\ proc' = count + 1 /\ env' = EnvOf[s]
         /\ Gone

End(s, how) ==
    /\ lock' = None /\ st' = [st EXCEPT ![s] = "idle"] /\ told' = [told EXCEPT ![s] = how]

-----------------------------------------------------------------------------
(* run_completion_with_client                                              *)

Begin(s) ==
    /\ st[s] = "idle" /\ no[s] < MaxTurn /\ no' = [no EXCEPT ![s] = @ + 1]
    /\ pend[s] = None /\ lock = None /\ EnsureRpc(s)
    /\ lock' = s /\ st' = [st EXCEPT ![s] = "starting"]
    /\ tries' = [tries EXCEPT ![s] = 0] /\ told' = [told EXCEPT ![s] = None]
    /\ UNCHANGED <<asked, pend>>

\* turn/start is answered.
Started(s) ==
    /\ st[s] = "starting" /\ proc # 0
    /\ st' = [st EXCEPT ![s] = "driving"] /\ native' = native \cup {<<s, no[s]>>}
    /\ UNCHANGED <<rpc, lock, tries, no, told, queue, ask, asked, pend>>

\* _start_turn_with_retry: turn/start fails.  Nothing of the turn was heard:
\* once, a fresh process is tried; otherwise the turn fails.
StartFails(s) ==
    /\ st[s] = "starting"
    /\ \/ /\ tries[s] = 0 /\ count < MaxProc
          /\ count' = count + 1 /\ proc' = count + 1 /\ env' = EnvOf[s] /\ Gone
          /\ tries' = [tries EXCEPT ![s] = 1] /\ UNCHANGED <<lock, st, told>>
       \/ CloseRpc /\ End(s, "error") /\ UNCHANGED tries
    /\ UNCHANGED <<no, asked, pend>>

Reading(s, kind) == st[s] = "driving" /\ lock = s /\ queue # <<>> /\ Head(queue).kind = kind

\* _chunks_from_notification: what is another turn's is dropped.
ReadNote(s) ==
    /\ Reading(s, "note")
    /\ queue' = Tail(queue)
    /\ UNCHANGED <<rpc, lock, turn, native, ask, asked, pend>>

\* Mutant: the first turn/completed ends the turn.
ReadDoneAny(s) ==
    /\ Reading(s, "done") /\ queue' = Tail(queue)
    /\ End(s, "ok")
    /\ UNCHANGED <<rpc, tries, no, native, ask, asked, pend>>

\* _is_terminal_notification
ReadDone(s) ==
    /\ Reading(s, "done") /\ queue' = Tail(queue)
    /\ IF Head(queue).of = <<s, no[s]>> THEN End(s, "ok") ELSE UNCHANGED <<lock, st, told>>
    /\ UNCHANGED <<rpc, tries, no, native, ask, asked, pend>>

\* The tool policy decides an approval before anybody is shown it.
AutoDecide(s) ==
    /\ Reading(s, "ask") /\ queue' = Tail(queue)
    /\ ask' = [ask EXCEPT ![Head(queue).ask] = [@ EXCEPT !.st = "answered", !.by = proc]]
    /\ UNCHANGED <<rpc, lock, turn, native, asked, pend>>

\* _store_pending_approval: the turn pauses and leaves the lock.
Park(s) ==
    /\ Reading(s, "ask") /\ queue' = Tail(queue)
    /\ pend' = [pend EXCEPT ![s] = [ask |-> Head(queue).ask, proc |-> proc]]
    /\ lock' = None /\ st' = [st EXCEPT ![s] = "parked"]
    /\ UNCHANGED <<rpc, tries, no, told, native, ask, asked>>

\* The read times out, the pipe ends or the turn's budget is spent.
DriveFails(s) ==
    /\ st[s] = "driving" /\ lock = s
    /\ CloseRpc /\ End(s, "error")
    /\ UNCHANGED <<tries, no, asked, pend>>

\* The consumer closes the generator: the turn goes on in the process.
Leave(s) ==
    /\ st[s] = "driving" /\ lock = s
    /\ End(s, "left")
    /\ UNCHANGED <<rpc, tries, no, native, queue, ask, asked, pend>>

\* Mutant: the process that asked is not compared with the one there now.
ResumeAnywhere(s) ==
    /\ st[s] = "parked" /\ lock = None /\ EnsureRpc(s)
    /\ lock' = s /\ st' = [st EXCEPT ![s] = "answering"]
    /\ UNCHANGED <<tries, no, told, asked, pend>>

\* resume_approval_with_client up to the answer: an approval of a process
\* that is gone is not answered.
Resume(s) ==
    /\ st[s] = "parked" /\ lock = None /\ EnsureRpc(s)
    /\ IF proc' = pend[s].proc
       THEN lock' = s /\ st' = [st EXCEPT ![s] = "answering"] /\ UNCHANGED <<told, pend>>
       ELSE /\ pend' = [pend EXCEPT ![s] = None] /\ st' = [st EXCEPT ![s] = "idle"]
            /\ told' = [told EXCEPT ![s] = "error"] /\ UNCHANGED lock
    /\ UNCHANGED <<tries, no, asked>>

Respond(s) ==
    /\ st[s] = "answering" /\ proc # 0
    /\ ask' = [ask EXCEPT ![pend[s].ask] = [@ EXCEPT !.st = "answered", !.by = proc]]
    /\ pend' = [pend EXCEPT ![s] = None] /\ st' = [st EXCEPT ![s] = "driving"]
    /\ UNCHANGED <<rpc, lock, tries, no, told, native, queue, asked>>

RespondFails(s) ==
    /\ st[s] = "answering" /\ proc = 0
    /\ End(s, "error") /\ pend' = [pend EXCEPT ![s] = None]
    /\ UNCHANGED <<rpc, tries, no, native, queue, ask, asked>>

-----------------------------------------------------------------------------
(* The app-server: external.                                               *)

Emit(item) == Len(queue) < MaxQueue /\ queue' = Append(queue, item)

Says(t) ==
    /\ t \in native
    /\ \/ Emit([kind |-> "note", of |-> t]) /\ UNCHANGED native
       \/ Emit([kind |-> "done", of |-> t]) /\ native' = native \ {t}
    /\ UNCHANGED <<rpc, lock, turn, ask, asked, pend>>

AsksFor(t) ==
    /\ t \in native /\ asked < MaxAsk /\ asked' = asked + 1
    /\ Emit([kind |-> "ask", of |-> t, ask |-> asked + 1])
    /\ ask' = [ask EXCEPT ![asked + 1] = [proc |-> proc, st |-> "open", by |-> None]]
    /\ UNCHANGED <<rpc, lock, turn, native, pend>>

\* The process exits; the reader finds its stdout closed.
Exits ==
    /\ proc # 0 /\ \A s \in Sessions : st[s] # "starting"
    /\ proc' = 0 /\ env' = None /\ Gone
    /\ UNCHANGED <<count, lock, turn, asked, pend>>

Step(s) == \/ Begin(s) \/ Started(s) \/ StartFails(s) \/ ReadNote(s) \/ ReadDone(s)
           \/ AutoDecide(s) \/ Park(s) \/ DriveFails(s) \/ Respond(s) \/ RespondFails(s)

RpcNext == \/ Exits
        \/ \E s \in Sessions : Step(s) \/ Leave(s) \/ Resume(s)
        \/ \E t \in Sessions \X (1..MaxTurn) : Says(t) \/ AsksFor(t)

RpcSpec == RpcInit /\ [][RpcNext]_rpcVars

-----------------------------------------------------------------------------
\* Sharing one process never mixes turns up: an approval is answered in the
\* process that asked for it and nowhere else, however often the process was
\* replaced in between, and a turn that ended well was completed by the
\* server, whoever read the notifications (resume_approval_with_client,
\* _is_terminal_notification).
SharedRpcIsSound ==
    /\ \A a \in Asks : ask[a].st = "answered" => ask[a].by = ask[a].proc
    /\ \A s \in Sessions : told[s] = "ok" => <<s, no[s]>> \notin native
    /\ \A s \in Sessions : st[s] \in {"starting", "driving", "answering"} => lock = s

-----------------------------------------------------------------------------
(* The tool policy of a session.                                           *)

Names == {"write", "network", "shell", "mcp"}
Modes == {None, "bypassPermissions", "acceptEdits", "unheardOf"}
Tools == {"file", "command", "permissions"}
Answers == {"accept", "yes", "always", "no", "listed", "other"}

Requests == [mode : Modes, allowed : {None, {}, {"write"}}, denied : SUBSET Names]

policyVars == <<global, handle, wanted, question, verdict>>

PolicyInit ==
    /\ global \in SUBSET Names
    /\ handle = None /\ wanted = None /\ question = None /\ verdict = None

\* requested_denies and unenforceable_denies
Sandboxed == {"write", "network"}
Unenforceable(r) == (r.denied \cup global) \ Sandboxed

\* has_tool_policy: an empty allow list is a policy.
HasToolPolicy(r) == r.allowed # None \/ r.denied # {} \/ global # {}

\* resolve_approval_policy: an unknown mode never bypasses, a tool policy
\* turns approvals on.
Approval(r) ==
    IF r.mode \in {None, "bypassPermissions"} /\ ~HasToolPolicy(r) THEN "never" ELSE "on-request"

Sandbox(r) == IF r.denied \cap Sandboxed # {} THEN "read-only" ELSE "workspace-write"

\* resolve_runtime_policy: what cannot be enforced is refused.
Refused(r) == r.allowed # None \/ Unenforceable(r) # {}

Policy(r) == [sandbox |-> Sandbox(r), approval |-> Approval(r), mode |-> r.mode,
              allowed |-> r.allowed, denied |-> r.denied]

\* create_client resolves the policy before it spawns anything.
Create(r) ==
    /\ handle = None /\ ~Refused(r)
    /\ handle' = Policy(r) /\ wanted' = r
    /\ UNCHANGED <<global, question, verdict>>

\* update_request_policy of a continuation: validated as a whole before any
\* field of the handle changes; the sandbox is fixed.
Continue(r) ==
    /\ handle # None /\ question = None
    /\ ~Refused(r) /\ Sandbox(r) = handle.sandbox
    /\ handle' = [Policy(r) EXCEPT !.sandbox = handle.sandbox] /\ wanted' = r
    /\ verdict' = None
    /\ UNCHANGED <<global, question>>

AskFor(tool) ==
    /\ handle # None /\ handle.approval # "never" /\ question = None
    /\ question' = tool /\ verdict' = None
    /\ UNCHANGED <<global, handle, wanted>>

\* should_auto_deny_approval: by the names the approval stands for.
Identity(tool) == CASE tool = "file" -> {"write"} [] tool = "command" -> {"shell"}
                    [] OTHER -> {}
AutoDeny(tool) ==
    /\ Identity(tool) # {}
    /\ \/ Identity(tool) \cap (handle.denied \cup global) # {}
       \/ handle.allowed # None /\ Identity(tool) \cap handle.allowed = {}
AutoAccept(tool) == handle.mode = "acceptEdits" /\ tool = "file"

\* Mutant: the permission mode is asked before the deny lists.
DecideByMode ==
    /\ question # None /\ (AutoDeny(question) \/ AutoAccept(question))
    /\ verdict' = [tool |-> question, by |-> "policy", grant |-> AutoAccept(question)]
    /\ question' = None
    /\ UNCHANGED <<global, handle, wanted>>

\* _auto_decide_interaction: a deny goes before acceptEdits.
Decide ==
    /\ question # None /\ (AutoDeny(question) \/ AutoAccept(question))
    /\ verdict' = [tool |-> question, by |-> "policy", grant |-> AutoAccept(question) /\ ~AutoDeny(question)]
    /\ question' = None
    /\ UNCHANGED <<global, handle, wanted>>

\* answer_result_from_output: one of the offered decisions, an alias of one,
\* or a refusal.
Grants(answer) == answer \in {"accept", "yes", "always", "listed"}
Offered(tool) == IF tool = "permissions" THEN Answers \ {"listed"} ELSE Answers

\* interaction_arguments shows the rest to the user.
UserAnswers(answer) ==
    /\ question # None /\ ~AutoDeny(question) /\ ~AutoAccept(question) /\ answer \in Offered(question)
    /\ verdict' = [tool |-> question, by |-> answer, grant |-> Grants(answer)]
    /\ question' = None
    /\ UNCHANGED <<global, handle, wanted>>

PolicyNext ==
    \/ \E r \in Requests : Create(r) \/ Continue(r)
    \/ \E tool \in Tools : AskFor(tool)
    \/ Decide
    \/ \E answer \in Answers : UserAnswers(answer)

PolicySpec == PolicyInit /\ [][PolicyNext]_policyVars

-----------------------------------------------------------------------------
\* A request's deny holds for as long as its policy does, over continuations
\* that change it: what the sandbox can deny is denied by the sandbox, a
\* policy never runs without approvals, and no approval of a denied tool is
\* granted, by the mode or by the user (resolve_runtime_policy,
\* update_request_policy, should_auto_deny_approval).
DenyIsEnforced ==
    /\ handle # None =>
        /\ handle.denied \cap Sandboxed # {} <=> handle.sandbox = "read-only"
        /\ HasToolPolicy(wanted) => handle.approval # "never"
        /\ wanted.denied \cup global \subseteq Sandboxed
    /\ verdict # None /\ verdict.grant =>
        Identity(verdict.tool) \cap (wanted.denied \cup global) = {}

-----------------------------------------------------------------------------
\* The two parts share no state.
RpcStep == RpcNext /\ UNCHANGED policyVars
PolicyStep == PolicyNext /\ UNCHANGED rpcVars
=============================================================================

---------------------------- MODULE AgentMessages ----------------------------
(***************************************************************************)
(* POST /v1/agents/messages: one stateless Claude turn in a workspace of   *)
(* its own, streamed as SDK envelopes (routes/agent_messages.py).          *)
(*                                                                         *)
(* The consumer may leave at any await.  The generator then hands the CLI  *)
(* and the workspace to a detached task, which stops the turn by degrees.  *)
(* A message is reduced to its leaves: what a field is called and what its *)
(* text holds.                                                             *)
(***************************************************************************)
EXTENDS FiniteSets

\* Fields by name and place, texts by what they hold.
Keys  == {"text", "thinking", "input", "inputSecret", "id", "toolOutput", "sessionId",
          "inputDelta", "unlisted"}
Texts == {"plain", "credential"}
Types == {"assistant", "user", "stream_event", "system", "unknownSystem", "result"}
Leaves == Keys \X Texts

VARIABLES
    gen,        \* the generator: new, ready, reading, over; cancelled
    ws,         \* the workspace directory
    cli,        \* the CLI process: none, up, gone
    handle,     \* the generator knows its client
    result,     \* saw_result
    stage,      \* teardown: none, disconnect, kill, clean, done
    told,       \* the last frame
    out         \* leaves that were sent

vars == <<gen, ws, cli, handle, result, stage, told, out>>

Init ==
    /\ gen = "new" /\ ws = FALSE /\ cli = "none" /\ handle = FALSE
    /\ result = FALSE /\ stage = "none" /\ told = "none" /\ out = {}

-----------------------------------------------------------------------------
(* _prepare_sdk_message                                                    *)

\* _normalize_sdk_value on a leaf: dropped by its key, redacted by its key,
\* or with the credentials in its text redacted.
Dropped(key) == key = "sessionId"
Sensitive(key) == key = "inputSecret"
Normalize(leaf) ==
    IF Sensitive(leaf[1]) \/ leaf[2] = "credential" THEN <<leaf[1], "redacted">> ELSE leaf

\* The _project functions and field lists: what each envelope keeps.
Projected(type) ==
    CASE type = "assistant" -> {"text", "thinking", "input", "inputSecret", "id"}
      [] type = "user" -> {"id"}
      [] type = "stream_event" -> {"text", "thinking", "id"}
      [] type = "system" -> {"text", "id"}
      [] type = "result" -> {"text"}
      [] OTHER -> {}

\* Mutant: a user message is forwarded with its tool results.
PrepareUser(type, leaves) ==
    {Normalize(l) : l \in {l \in leaves : ~Dropped(l[1])
                              /\ (type = "user" \/ l[1] \in Projected(type))}}

Prepare(type, leaves) ==
    {Normalize(l) : l \in {l \in leaves : ~Dropped(l[1]) /\ l[1] \in Projected(type)}}

-----------------------------------------------------------------------------
(* _stream_agent_messages                                                  *)

MakeWorkspace ==
    /\ gen = "new" /\ gen' = "ready" /\ ws' = TRUE
    /\ UNCHANGED <<cli, handle, result, stage, told, out>>

\* create_client starts the CLI, and has it only when it returns.
StartCli ==
    /\ gen = "ready" /\ cli = "none" /\ cli' = "up"
    /\ UNCHANGED <<gen, ws, handle, result, stage, told, out>>

CreateClient ==
    /\ gen = "ready" /\ cli = "up"
    /\ gen' = "reading" /\ handle' = TRUE
    /\ UNCHANGED <<ws, cli, result, stage, told, out>>

Over(how) == gen' = "over" /\ told' = how /\ stage' = "disconnect"

\* A failure of create_client takes back what it started.
CreateFails ==
    /\ gen = "ready" /\ Over("error") /\ cli' = IF cli = "up" THEN "gone" ELSE cli
    /\ UNCHANGED <<ws, handle, result, out>>

Forward(type, leaves) ==
    /\ gen = "reading"
    /\ out' = out \cup Prepare(type, leaves)
    /\ result' = (result \/ type = "result")
    /\ UNCHANGED <<gen, ws, cli, handle, stage, told>>

\* The backend's stream ends, or fails, or a question is pending.
Finish ==
    /\ gen = "reading"
    /\ \/ Over(IF result THEN "stop" ELSE "error")
       \/ Over("error")
    /\ UNCHANGED <<ws, cli, handle, result, out>>

\* CancelledError or GeneratorExit: nothing is awaited, a fresh task takes over.
Cancel ==
    /\ gen \in {"ready", "reading"}
    /\ gen' = "cancelled" /\ stage' = "disconnect"
    /\ cli' = IF handle \/ cli = "none" THEN cli ELSE "gone"
    /\ UNCHANGED <<ws, handle, result, told, out>>

\* _disconnect_client: bounded, its failure is swallowed.
Disconnect ==
    /\ stage = "disconnect"
    /\ cli' \in IF handle /\ cli = "up" THEN {"up", "gone"} ELSE {cli}
    /\ stage' = IF gen = "cancelled" THEN "kill" ELSE "clean"
    /\ UNCHANGED <<gen, ws, handle, result, told, out>>

\* Mutant: the turn's process is taken for gone after the disconnect.
KillSkipped ==
    /\ stage = "kill" /\ stage' = "clean"
    /\ UNCHANGED <<gen, ws, cli, handle, result, told, out>>

\* _kill_client_process: SIGTERM, then SIGKILL, and waited for.
Kill ==
    /\ stage = "kill"
    /\ cli' = IF handle THEN "gone" ELSE cli
    /\ stage' = "clean"
    /\ UNCHANGED <<gen, ws, handle, result, told, out>>

\* _cleanup_sdk_transcript, cleanup_temp_workspace
CleanUp ==
    /\ stage = "clean" /\ stage' = "done" /\ ws' = FALSE
    /\ UNCHANGED <<gen, cli, handle, result, told, out>>

Next ==
    \/ MakeWorkspace \/ StartCli \/ CreateClient \/ CreateFails \/ Finish \/ Cancel
    \/ \E type \in Types, leaf \in Leaves : Forward(type, {leaf})
    \/ Disconnect \/ Kill \/ CleanUp

Spec == Init /\ [][Next]_vars

-----------------------------------------------------------------------------
\* Nothing leaves in an envelope but what it is for: no credential of a text,
\* no secret argument, no tool output, no partial tool input and no session
\* id, whatever messages the CLI sends (_normalize_sdk_value, _project_*).
EnvelopeIsClean ==
    \A l \in out : /\ l[2] # "credential"
                   /\ l[1] \notin {"toolOutput", "sessionId", "inputDelta", "unlisted"}
                   /\ l[1] = "inputSecret" => l[2] = "redacted"

\* A cancelled turn's workspace goes only when its CLI is gone
\* (_spawn_cancelled_turn_teardown).
CwdOutlivesCli == gen = "cancelled" /\ stage = "done" => cli # "up"

=============================================================================

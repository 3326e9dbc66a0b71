-------------------------- MODULE IsolationStartup --------------------------
(***************************************************************************)
(* The start of a container with process isolation: the entrypoint forks   *)
(* the broker and hands the ticket secret over (docker/entrypoint.py), the *)
(* gateway captures it, waits for the broker, probes and settles the mode  *)
(* (landlock.py), checks its configuration and serves; every CLI is then   *)
(* spawned in the settled mode (landlock_launcher.py).  The broker may die *)
(* or stay slow at any time.                                               *)
(***************************************************************************)
EXTENDS Integers, FiniteSets

CONSTANT None

VARIABLES env,       \* what the container was started with
          stage, broker, secret,
          probe,     \* the startup probe: None (not run), "ok" or "problem"
          cached,    \* the effective mode once settled
          ran        \* how spawns ended so far

vars == <<env, stage, broker, secret, probe, cached, ran>>

Modes == {"off", "landlock", "uid"}
Envs == [want : Modes \cup {"typo"}, fallback : BOOLEAN, root : BOOLEAN, abi : BOOLEAN, skip : BOOLEAN, given : BOOLEAN]

TypeOK ==
  /\ env \in Envs /\ broker \in {"none", "starting", "up", "dead"}
  /\ stage \in {"entry", "hold", "secret", "cmd", "capture", "wait", "probe", "settle", "check", "serving", "refused"}
  /\ secret \in {"none", "env", "pipe", "memory"} /\ probe \in {None, "ok", "problem"}
  /\ cached \in Modes \cup {"typo", None} /\ ran \subseteq {"open", "landlock", "uid", "failed"}

Init ==
  /\ env \in Envs /\ stage = "entry" /\ broker = "none" /\ probe = None /\ cached = None /\ ran = {}
  /\ secret = IF env.given THEN "env" ELSE "none"

(* docker/entrypoint.py *)

\* No broker without root, a real CLI and a private socket directory; the
\* secret is made before the last two are looked at.
LaunchIsolationBroker ==
  /\ stage = "entry"
  /\ IF env.want = "uid" /\ env.root
     THEN /\ secret' = "env"
          /\ \/ broker' = "starting" /\ stage' = "hold"
             \/ broker' = "none" /\ stage' = "secret"
     ELSE stage' = "secret" /\ UNCHANGED <<broker, secret>>
  /\ UNCHANGED <<env, probe, cached, ran>>

\* Mutant: the start waits for the broker for ever.
WaitUntilUp == stage = "hold" /\ broker # "starting" /\ stage' = "secret"
               /\ UNCHANGED <<env, broker, secret, probe, cached, ran>>

\* Until the broker accepts or exits, or for so long.
EntrypointWait == stage = "hold" /\ stage' = "secret" /\ UNCHANGED <<env, broker, secret, probe, cached, ran>>

\* Mutant: the secret stays when the start is not root.
HandOffAsRoot ==
  /\ stage = "secret" /\ stage' = "cmd"
  /\ secret' = IF secret = "env" /\ env.root THEN "pipe" ELSE secret
  /\ UNCHANGED <<env, broker, probe, cached, ran>>

\* The secret leaves the environment, whoever put it there.
HandOffTicketSecret ==
  /\ stage = "secret" /\ stage' = "cmd"
  /\ secret' = IF secret = "env" THEN "pipe" ELSE secret
  /\ UNCHANGED <<env, broker, probe, cached, ran>>

\* The steps before the gateway (GATEWAY_STARTUP_SCRIPT, plugin installs),
\* one of which may read the pipe by mistake.
CmdSteps ==
  /\ stage = "cmd" /\ stage' = "capture"
  /\ secret' \in {secret, IF secret = "pipe" THEN "none" ELSE secret}
  /\ UNCHANGED <<env, broker, probe, cached, ran>>

(* The gateway's start: main.lifespan *)

CaptureTicketSecret ==
  /\ stage = "capture"
  /\ secret' = IF secret = "none" THEN "none" ELSE "memory"
  /\ stage' = IF env.want = "uid" /\ env.root /\ env.abi THEN "wait" ELSE "settle"
  /\ UNCHANGED <<env, broker, probe, cached, ran>>

\* install_process_env: the broker answers in time, or is waited for no more.
WaitForBroker ==
  /\ stage = "wait"
  /\ \/ broker = "up" /\ stage' = "probe"
     \/ stage' = "settle"
  /\ UNCHANGED <<env, broker, secret, probe, cached, ran>>

\* One real spawn as a session uid; not run without a secret.
ProbeUidSessions ==
  /\ stage = "probe" /\ stage' = "settle"
  /\ IF secret = "none" THEN probe' = None
     ELSE \/ broker = "up" /\ probe' = "ok"
          \/ probe' = "problem"
  /\ UNCHANGED <<env, broker, secret, cached, ran>>

UidModeAvailable == env.abi /\ broker = "up" /\ probe # "problem"
Resolved == IF env.want = "uid" /\ ~UidModeAvailable /\ env.fallback THEN "landlock" ELSE env.want

\* Mutant: the mode is resolved at every spawn.
ModeNow == Resolved

\* effective_mode: resolved once.
EffectiveMode == IF cached # None THEN cached ELSE Resolved

Settle ==
  /\ stage = "settle" /\ stage' = "check" /\ cached' = EffectiveMode
  /\ UNCHANGED <<env, broker, secret, probe, ran>>

\* check_config of landlock.py, and what SKIP_CONFIG_CHECK leaves of it.
ConfigErrors ==
  \/ env.want \notin Modes
  \/ /\ ~env.skip /\ EffectiveMode # "off"
     /\ \/ EffectiveMode = "uid" /\ (~UidModeAvailable \/ secret = "none")
        \/ ~env.abi

CheckConfig ==
  /\ stage = "check" /\ stage' = IF ConfigErrors THEN "refused" ELSE "serving"
  /\ UNCHANGED <<env, broker, secret, probe, cached, ran>>

(* Serving: options_env and the launcher. *)

\* The launcher fails where it has no ticket, no broker or no Landlock.
Launched(mode) ==
  CASE mode = "off" -> "open"
    [] mode = "landlock" -> IF env.abi THEN "landlock" ELSE "failed"
    [] mode = "uid" -> IF secret = "memory" /\ broker = "up" THEN "uid" ELSE "failed"

Spawn ==
  /\ stage = "serving" /\ ran' = ran \cup {Launched(EffectiveMode)}
  /\ UNCHANGED <<env, stage, broker, secret, probe, cached>>

BrokerBinds == broker = "starting" /\ broker' = "up" /\ UNCHANGED <<env, stage, secret, probe, cached, ran>>
BrokerDies == broker \in {"starting", "up"} /\ broker' = "dead" /\ UNCHANGED <<env, stage, secret, probe, cached, ran>>

StartStep ==
  \/ LaunchIsolationBroker \/ EntrypointWait \/ HandOffTicketSecret \/ CmdSteps
  \/ CaptureTicketSecret \/ WaitForBroker \/ ProbeUidSessions \/ Settle \/ CheckConfig

Next == StartStep \/ Spawn \/ BrokerBinds \/ BrokerDies

Spec == Init /\ [][Next]_vars
FairSpec == Spec /\ WF_vars(StartStep)

\* No CLI runs unconfined where a boundary was asked for, none runs under a
\* weaker one than the operator allowed, and one gateway runs all its
\* sessions under the same one, whatever becomes of the broker.
FailsClosed ==
  /\ env.want # "off" => "open" \notin ran
  /\ env.want = "uid" /\ ~env.fallback => "landlock" \notin ran
  /\ Cardinality(ran \ {"failed"}) <= 1

\* Nothing started after the entrypoint finds the secret in its environment.
SecretLeavesEnv == stage \notin {"entry", "hold", "secret"} => secret # "env"

\* The start ends, with a slow broker too: the gateway serves or refuses.
StartEnds == <>(stage \in {"serving", "refused"})
=============================================================================

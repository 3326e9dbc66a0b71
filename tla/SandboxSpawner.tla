--------------------------- MODULE SandboxSpawner ---------------------------
(***************************************************************************)
(* The spawner of per-user containers (docker/sandbox/sandbox_spawner.py)  *)
(* and its stub (sandbox_launcher.py).  A stub passes its descriptors over *)
(* a socket; the spawner runs the CLI in the user's container (unit        *)
(* "user") or in one of its own (unit "session"), relays signals, stops    *)
(* the CLI of a stub that is gone, and sweeps what the CLI left behind.    *)
(* Docker is external: a command takes effect or fails.                    *)
(***************************************************************************)
EXTENDS Naturals

CONSTANTS Spawns, None, MaxFault   \* MaxFault bounds the failures of docker

VARIABLES
    unit,    \* SANDBOX_UNIT
    step,    \* where the handler thread of a connection is
    stub,    \* the stub: up, has sent SIGTERM (a record to be read), gone
    fds,     \* the passed descriptors: none, held, closed, closed again
    watch,   \* the watcher thread: none, relay, grace, over
    sig,     \* stopping["sig"]
    cli,     \* the docker client and the CLI in it: none, starting, running, exited
    jobs,    \* processes the CLI left running, old or forked behind the sweep
    reply,   \* the record sent to the stub
    lock,    \* _user_lock; all the spawns are of one user
    box,     \* the user's container
    net,     \* the networks of containers of the unit "session"
    faults,
    past     \* history: CLIs that a stop killed, stops that came before their
             \* CLI, and whether a container's name was taken

vars == <<unit, step, stub, fds, watch, sig, cli, jobs, reply, lock, box, net, faults, past>>

Init ==
    /\ unit \in {"user", "session"}
    /\ step = [s \in Spawns |-> "accepted"] /\ stub = [s \in Spawns |-> "up"]
    /\ fds = [s \in Spawns |-> "none"] /\ watch = [s \in Spawns |-> "none"]
    /\ sig = [s \in Spawns |-> FALSE] /\ cli = [s \in Spawns |-> "none"]
    /\ jobs = [s \in Spawns |-> {}] /\ reply = [s \in Spawns |-> None]
    /\ lock = None /\ box = "absent" /\ net = {} /\ faults = 0
    /\ past = [killed |-> {}, early |-> {}, taken |-> FALSE]

Set(f, s, v) == [f EXCEPT ![s] = v]
Closes(s) == IF fds[s] = "held" THEN Set(fds, s, "closed")
             ELSE IF fds[s] = "closed" THEN Set(fds, s, "twice") ELSE fds
Fault == faults < MaxFault /\ faults' = faults + 1

-----------------------------------------------------------------------------
\* The header and its descriptors arrive, before the handshake's timeout; what
\* is malformed or late has its descriptors closed where they were received.
RecvHeader(s) ==
    /\ step[s] = "accepted" /\ stub[s] # "gone"
    /\ step' = Set(step, s, "asked") /\ fds' = Set(fds, s, "held")
    /\ UNCHANGED <<unit, stub, watch, sig, cli, jobs, reply, lock, box, net, faults, past>>

BadHeader(s) ==
    /\ step[s] = "accepted"
    /\ step' = Set(step, s, "done") /\ reply' = Set(reply, s, "refused")
    /\ fds' \in {fds, Set(fds, s, "closed")}
    /\ UNCHANGED <<unit, stub, watch, sig, cli, jobs, lock, box, net, faults, past>>

\* What handle does when _spawn raises: the finally closes the descriptors
\* that _spawn has not.
Refused(s) ==
    /\ step' = Set(step, s, "done") /\ reply' = Set(reply, s, "refused")
    /\ fds' = Closes(s)

\* No runtime, a bad header field, a directory that is not the user's.
Validate(s) ==
    /\ step[s] = "asked"
    /\ \/ step' = Set(step, s, IF unit = "user" THEN "ensure" ELSE "network") /\ UNCHANGED <<reply, fds>>
       \/ Refused(s)
    /\ UNCHANGED <<unit, stub, watch, sig, cli, jobs, lock, box, net, faults, past>>

\* ensure_container: under the user's lock, inspect and then start or create.
Inspect(s) ==
    /\ step[s] = "ensure" /\ lock = None
    /\ IF box = "running" THEN step' = Set(step, s, "ready") /\ UNCHANGED lock
       ELSE /\ step' = Set(step, s, IF box = "absent" THEN "create" ELSE "restart")
            /\ lock' = s
    /\ UNCHANGED <<unit, stub, fds, watch, sig, cli, jobs, reply, box, net, faults, past>>

\* docker start, or docker run under the container's name.
Ensure(s) ==
    /\ step[s] \in {"create", "restart"}
    /\ lock' = IF lock = s THEN None ELSE lock
    /\ \/ /\ step[s] = "create" => box = "absent"
          /\ box' = "running" /\ step' = Set(step, s, "ready")
          /\ UNCHANGED <<fds, reply, faults, past>>
       \/ step[s] = "create" /\ box # "absent" /\ past' = [past EXCEPT !.taken = TRUE]
          /\ Refused(s) /\ UNCHANGED <<box, faults>>
       \/ Fault /\ Refused(s) /\ UNCHANGED <<box, past>>
    /\ UNCHANGED <<unit, stub, watch, sig, cli, jobs, net>>

\* _own_network: the network is made; attaching the gateway to it may fail.
OwnNetwork(s) ==
    /\ step[s] = "network"
    /\ \/ step' = Set(step, s, "ready") /\ net' = net \cup {s} /\ UNCHANGED <<fds, reply, faults>>
       \/ Fault /\ Refused(s) /\ net' \in {net, net \cup {s}}
    /\ UNCHANGED <<unit, stub, watch, sig, cli, jobs, lock, box, past>>

\* The docker client starts on the descriptors; ours are closed and forgotten.
HandOver(s) == Closes(s)

Popen(s) ==
    /\ step[s] = "ready"
    /\ \/ /\ step' = Set(step, s, "wait") /\ cli' = Set(cli, s, "starting") /\ fds' = HandOver(s)
          /\ watch' = Set(watch, s, "relay") /\ UNCHANGED <<reply, faults>>
       \/ Fault /\ Refused(s) /\ UNCHANGED <<cli, watch>>
    /\ UNCHANGED <<unit, stub, sig, jobs, lock, box, net, past>>

-----------------------------------------------------------------------------
\* A stop reaches the processes that carry the tag of this spawn, or the
\* container of this session: nothing before the CLI has started.
Stop(s, kill) ==
    LET dies == cli[s] = "running"
    IN  \/ /\ dies
           /\ cli' = Set(cli, s, "exited") /\ past' = [past EXCEPT !.killed = @ \cup {s}]
           /\ jobs' = IF kill THEN Set(jobs, s, {}) ELSE jobs
        \/ /\ ~(kill /\ dies)
           /\ past' = IF kill /\ cli[s] = "starting" THEN [past EXCEPT !.early = @ \cup {s}] ELSE past
           /\ UNCHANGED <<cli, jobs>>

\* The watcher: a record is SIGTERM; the end of the stream is a stub that died.
Relay(s) ==
    /\ watch[s] = "relay" /\ step[s] = "wait" /\ stub[s] = "signal"
    /\ stub' = Set(stub, s, "up") /\ sig' = Set(sig, s, TRUE) /\ Stop(s, FALSE)
    /\ UNCHANGED <<unit, step, fds, watch, reply, lock, box, net, faults>>

StubGone(s) ==
    /\ watch[s] = "relay" /\ cli[s] # "exited" /\ stub[s] = "gone"
    /\ watch' = Set(watch, s, "grace") /\ sig' = Set(sig, s, TRUE) /\ Stop(s, FALSE)
    /\ UNCHANGED <<unit, step, stub, fds, reply, lock, box, net, faults>>

\* After the grace: SIGKILL, which for a session removes container and network.
GraceOver(s) ==
    /\ watch[s] = "grace" /\ watch' = Set(watch, s, "over")
    /\ Stop(s, TRUE)
    /\ net' = IF cli[s] = "exited" THEN net ELSE net \ {s}
    /\ UNCHANGED <<unit, step, stub, fds, sig, reply, lock, box, faults>>

\* Mutant: a CLI that was stopped is reported as one that exited.
ReportExit(s) == "exited"

\* Mutant: what the CLI left is not swept.
WaitOnly(s) ==
    /\ step[s] = "wait" /\ cli[s] = "exited"
    /\ step' = Set(step, s, "done") /\ reply' = Set(reply, s, IF sig[s] THEN "signaled" ELSE "exited")
    /\ UNCHANGED <<unit, stub, fds, watch, sig, cli, jobs, lock, box, net, faults, past>>

\* The CLI has exited: sweep its jobs by their tag (one pass over /proc, which
\* a job may fork behind), or remove its container and network; then report.
Report(s) == IF sig[s] THEN "signaled" ELSE "exited"

Wait(s) ==
    /\ step[s] = "wait" /\ cli[s] = "exited"
    /\ step' = Set(step, s, "done") /\ reply' = Set(reply, s, Report(s))
    /\ IF unit = "user"
       THEN /\ \E left \in {{}, {"young"}} :
                  (jobs[s] = {} => left = {}) /\ jobs' = Set(jobs, s, left)
            /\ UNCHANGED net
       ELSE jobs' = Set(jobs, s, {}) /\ net' = net \ {s}
    /\ UNCHANGED <<unit, stub, fds, watch, sig, cli, lock, box, faults, past>>

-----------------------------------------------------------------------------
\* The stub: signals it relays, and its end (killed, or its SDK is gone).
StubSignals(s) ==
    /\ stub[s] = "up" /\ step[s] # "done"
    /\ stub' = Set(stub, s, "signal")
    /\ UNCHANGED <<unit, step, fds, watch, sig, cli, jobs, reply, lock, box, net, faults, past>>

StubDies(s) ==
    /\ stub[s] # "gone" /\ step[s] # "done" /\ stub' = Set(stub, s, "gone")
    /\ UNCHANGED <<unit, step, fds, watch, sig, cli, jobs, reply, lock, box, net, faults, past>>

\* Docker starts the CLI, if its container and network are there.
CliStarts(s) ==
    /\ cli[s] = "starting"
    /\ cli' = Set(cli, s, IF (unit = "user" /\ box = "running") \/ s \in net THEN "running" ELSE "exited")
    /\ UNCHANGED <<unit, step, stub, fds, watch, sig, jobs, reply, lock, box, net, faults, past>>

CliForks(s) ==
    /\ cli[s] = "running" /\ jobs' = Set(jobs, s, {"old"})
    /\ UNCHANGED <<unit, step, stub, fds, watch, sig, cli, reply, lock, box, net, faults, past>>

CliExits(s) ==
    /\ cli[s] = "running" /\ cli' = Set(cli, s, "exited")
    /\ UNCHANGED <<unit, step, stub, fds, watch, sig, jobs, reply, lock, box, net, faults, past>>

\* The user's container stops, with all that runs in it.
BoxStops ==
    /\ box = "running" /\ box' = "stopped" /\ Fault
    /\ cli' = [s \in Spawns |-> IF cli[s] = "running" THEN "exited" ELSE cli[s]]
    /\ jobs' = [s \in Spawns |-> {}]
    /\ UNCHANGED <<unit, step, stub, fds, watch, sig, reply, lock, net, past>>

Handler(s) ==
    RecvHeader(s) \/ BadHeader(s) \/ Validate(s) \/ Inspect(s) \/ Ensure(s) \/ OwnNetwork(s) \/ Popen(s)
Watcher(s) == Relay(s) \/ StubGone(s) \/ GraceOver(s)

Next ==
    \/ \E s \in Spawns : \/ Handler(s) \/ Watcher(s) \/ Wait(s)
                         \/ StubSignals(s) \/ StubDies(s) \/ CliStarts(s) \/ CliForks(s) \/ CliExits(s)
    \/ BoxStops

\* Threads run on, docker starts what it was asked to start; that a CLI ends
\* by itself is not assumed.
Fairness ==
    \A s \in Spawns : /\ WF_vars(Handler(s)) /\ WF_vars(Watcher(s)) /\ WF_vars(Wait(s))
                      /\ WF_vars(CliStarts(s))

Spec == Init /\ [][Next]_vars /\ Fairness

-----------------------------------------------------------------------------
\* A spawn that is over has left nothing behind: its descriptors were closed
\* once, on every path; no CLI runs under a refusal or after its status; no
\* job that the CLI left is alive, and none at all nor a network when the
\* session had its own container.  A CLI that was stopped is reported as
\* signaled, and two spawns never both create the user's container.
SpawnsAreSettled ==
    /\ ~past.taken
    /\ \A s \in Spawns : step[s] = "done" =>
          /\ fds[s] # "held" /\ fds[s] # "twice"
          /\ cli[s] \in {"none", "exited"}
          /\ "old" \notin jobs[s]
          /\ unit = "session" => jobs[s] = {} /\ (s \in net => reply[s] = "refused")
          /\ s \in past.killed => reply[s] = "signaled"

\* The handler of a stub that is gone ends, unless both stops came before the
\* CLI had been started: then nobody stops the CLI any more.  (A stub that is
\* gone stays gone: this says it of each spawn.)
SpawnEnds == []<>(\A s \in Spawns : stub[s] = "gone" => step[s] = "done" \/ s \in past.early)
=============================================================================

------------------------------ MODULE Supervisor ------------------------------
(***************************************************************************)
(* One spawn of the isolation broker (docker/isolation_broker.py): the     *)
(* supervisor, the CLI child it forks, the jobs the CLI leaves behind, the *)
(* launcher's link and the resident broker's backstop.                     *)
(*                                                                         *)
(* The CLI child goes through its setup step by step and execs; a job may  *)
(* start another and outlive its parent.  Who a process is a child of      *)
(* decides who may kill and reap it.                                       *)
(***************************************************************************)
EXTENDS Integers, FiniteSets, Sequences

CONSTANT Jobs           \* processes the CLI may start

VARIABLES
    sup,        \* the supervisor: starting, supervising, sweeping, gone, crashed
    cli,        \* the CLI child: none, a step of its setup, running, exited, reaped
    armed,      \* PR_SET_PDEATHSIG
    jobs,       \* parent of each: none, cli, a job, sup, broker, dead
    link,       \* to the launcher: up, eof; and the status it was sent
    term,       \* first_term: the CLI had a SIGTERM
    killAt,     \* the grace: none, set, passed
    broker      \* orphan_check; pids it gave up on

vars == <<sup, cli, armed, jobs, link, term, killAt, broker>>

\* _exec_cli, in its order; each may fail, which ends the child.
Setup == <<"switch", "setsid", "pdeathsig", "ppid", "chdir", "tmpdir", "landlock", "umask", "exec">>
Steps == {Setup[i] : i \in DOMAIN Setup}
Following(step) == LET i == CHOOSE i \in DOMAIN Setup : Setup[i] = step
                   IN  IF i = Len(Setup) THEN "running" ELSE Setup[i + 1]

Alive(j) == jobs[j] \notin {"none", "dead"}
CliAlive == cli \in Steps \cup {"running"}

Init ==
    /\ sup = "starting" /\ cli = "none" /\ armed = FALSE
    /\ jobs = [j \in Jobs |-> "none"]
    /\ link = [up |-> TRUE, told |-> "none"]
    /\ term = FALSE /\ killAt = "none"
    /\ broker = [check |-> FALSE, gaveUp |-> {}]

\* Children of a process that dies go to the nearest subreaper.
Orphaned(js, parent, to) == [j \in Jobs |-> IF js[j] = parent THEN to ELSE js[j]]

-----------------------------------------------------------------------------
(* The supervisor.                                                         *)

\* _run_supervisor: the uid, the subreaper, then the fork; or a refusal.
Fork ==
    /\ sup = "starting" /\ sup' = "supervising" /\ cli' = Setup[1]
    /\ UNCHANGED <<armed, jobs, link, term, killAt, broker>>

Refuse ==
    /\ sup = "starting" /\ sup' = "gone" /\ link' = [link EXCEPT !.told = "refused"]
    /\ UNCHANGED <<cli, armed, jobs, term, killAt, broker>>

\* A relay record: SIGTERM counts towards the grace.
Relay ==
    /\ sup = "supervising" /\ link.up /\ CliAlive /\ ~term
    /\ term' = TRUE
    /\ UNCHANGED <<sup, cli, armed, jobs, link, killAt, broker>>

\* The launcher is gone: SIGTERM unless it was relayed, and the deadline.
LauncherDies == /\ link.up /\ link' = [link EXCEPT !.up = FALSE]
                /\ UNCHANGED <<sup, cli, armed, jobs, term, killAt, broker>>

\* Mutant: a SIGTERM that was relayed leaves the CLI without a deadline.
TeardownSoft ==
    /\ sup = "supervising" /\ ~link.up /\ killAt = "none" /\ CliAlive /\ ~term
    /\ term' = TRUE /\ killAt' = "set"
    /\ UNCHANGED <<sup, cli, armed, jobs, link, broker>>

Teardown ==
    /\ sup = "supervising" /\ ~link.up /\ killAt = "none" /\ CliAlive
    /\ term' = TRUE /\ killAt' = "set"
    /\ UNCHANGED <<sup, cli, armed, jobs, link, broker>>

\* SIGKILL to the CLI's group once the grace has passed.
GracePasses ==
    /\ sup = "supervising" /\ killAt = "set" /\ CliAlive
    /\ killAt' = "passed" /\ cli' = "exited"
    /\ jobs' = Orphaned(jobs, "cli", "sup")
    /\ UNCHANGED <<sup, armed, link, term, broker>>

Reap ==
    /\ sup = "supervising" /\ cli = "exited"
    /\ cli' = "reaped" /\ sup' = "sweeping"
    /\ UNCHANGED <<armed, jobs, link, term, killAt, broker>>

\* Mutant: one pass over the children there are.
SweepOnce ==
    /\ sup = "sweeping"
    /\ jobs' = [j \in Jobs |-> IF jobs[j] = "sup" THEN "dead"
                               ELSE IF jobs[j] \in Jobs /\ jobs[jobs[j]] = "sup" THEN "sup" ELSE jobs[j]]
    /\ sup' = "gone" /\ link' = [link EXCEPT !.told = "status"]
    /\ UNCHANGED <<cli, armed, term, killAt, broker>>

\* _sweep: every direct child is killed; theirs re-parent here and are
\* caught on the next pass; with none left the status goes out.
Sweep ==
    /\ sup = "sweeping"
    /\ IF \E j \in Jobs : jobs[j] = "sup"
       THEN /\ jobs' = [j \in Jobs |-> IF jobs[j] = "sup" THEN "dead"
                               ELSE IF jobs[j] \in Jobs /\ jobs[jobs[j]] = "sup" THEN "sup" ELSE jobs[j]]
            /\ UNCHANGED <<sup, link>>
       ELSE sup' = "gone" /\ link' = [link EXCEPT !.told = "status"] /\ UNCHANGED jobs
    /\ UNCHANGED <<cli, armed, term, killAt, broker>>

\* It dies on its own, or the sweep raised: its children are the broker's.
Crash ==
    /\ sup \in {"supervising", "sweeping"} /\ sup' = "crashed"
    /\ cli' = IF CliAlive /\ armed THEN "reaped" ELSE IF cli = "exited" THEN "reaped" ELSE cli
    /\ jobs' = Orphaned(IF CliAlive /\ armed THEN Orphaned(jobs, "cli", "broker") ELSE jobs, "sup", "broker")
    /\ broker' = [broker EXCEPT !.check = TRUE]
    /\ link' = [link EXCEPT !.up = FALSE]
    /\ UNCHANGED <<armed, term, killAt>>

-----------------------------------------------------------------------------
(* The CLI child and what it starts.                                       *)

\* Mutant: the child does not look whether its supervisor is still there.
CliStepUnchecked ==
    /\ cli \in Steps
    /\ cli' = Following(cli)
    /\ armed' = (armed \/ cli = "pdeathsig")
    /\ UNCHANGED <<sup, jobs, link, term, killAt, broker>>

CliStep ==
    /\ cli \in Steps
    /\ cli' = IF cli = "ppid" /\ sup = "crashed" THEN "reaped" ELSE Following(cli)
    /\ armed' = (armed \/ cli = "pdeathsig")
    /\ UNCHANGED <<sup, jobs, link, term, killAt, broker>>

\* A step of the setup fails, or the CLI ends, of itself or on SIGTERM.
CliExits ==
    /\ CliAlive
    /\ cli' = IF sup = "crashed" THEN "reaped" ELSE "exited"
    /\ jobs' = Orphaned(jobs, "cli", IF sup = "crashed" THEN "broker" ELSE "sup")
    /\ UNCHANGED <<sup, armed, link, term, killAt, broker>>

\* The CLI, or a job that is alive, starts a job in a session of its own.
Start(parent, j) ==
    /\ jobs[j] = "none"
    /\ IF parent = "cli" THEN cli = "running" ELSE Alive(parent)
    /\ jobs' = [jobs EXCEPT ![j] = parent]
    /\ UNCHANGED <<sup, cli, armed, link, term, killAt, broker>>

\* A job ends, or detaches by a double fork.
JobEnds(j) ==
    /\ Alive(j)
    /\ LET up == IF sup = "crashed" THEN "broker" ELSE "sup"
       IN  jobs' = [Orphaned(jobs, j, up) EXCEPT ![j] = "dead"]
    /\ UNCHANGED <<sup, cli, armed, link, term, killAt, broker>>

-----------------------------------------------------------------------------
(* The broker's backstop.                                                  *)

\* _sweep_orphans: a killer as the orphans' uid, again on a later tick; what
\* a killer could not kill is not tried again.
KillOrphans(works) ==
    /\ broker.check
    /\ LET mine == {j \in Jobs : jobs[j] = "broker"} \ broker.gaveUp
           child == sup = "crashed" /\ CliAlive /\ cli # "switch"
       IN  IF mine = {} /\ ~child THEN broker' = [broker EXCEPT !.check = FALSE] /\ UNCHANGED <<cli, jobs>>
           ELSE IF works
           THEN /\ jobs' = [j \in Jobs |-> IF j \in mine THEN "dead"
                                           ELSE IF jobs[j] \in mine THEN "broker" ELSE jobs[j]]
                /\ cli' = IF child THEN "reaped" ELSE cli
                /\ UNCHANGED broker
           ELSE broker' = [broker EXCEPT !.gaveUp = @ \cup mine] /\ UNCHANGED <<cli, jobs>>
    /\ UNCHANGED <<sup, armed, link, term, killAt>>

Next ==
    \/ Fork \/ Refuse \/ Relay \/ LauncherDies \/ Teardown \/ GracePasses \/ Reap \/ Sweep \/ Crash
    \/ CliStep \/ CliExits
    \/ \E p \in Jobs \cup {"cli"}, j \in Jobs : Start(p, j)
    \/ \E j \in Jobs : JobEnds(j)
    \/ \E works \in BOOLEAN : KillOrphans(works)

\* The supervisor and the broker run; nothing the CLI or a job does is owed.
\* The child's setup is straight-line code.
Fairness ==
    /\ WF_vars(Fork \/ Refuse) /\ WF_vars(Teardown) /\ WF_vars(GracePasses) /\ WF_vars(Reap)
    /\ WF_vars(Sweep) /\ WF_vars(CliStep) /\ WF_vars(\E w \in BOOLEAN : KillOrphans(w))

Spec == Init /\ [][Next]_vars /\ Fairness

-----------------------------------------------------------------------------
\* No CLI runs without the supervisor that tears it down, whenever that dies;
\* and once the launcher has the session's status, no process of it is left,
\* however its jobs have detached.
SessionIsHeld ==
    /\ sup = "crashed" => cli # "running"
    /\ link.told # "none" => ~CliAlive /\ \A j \in Jobs : ~Alive(j)

\* A launcher that is gone takes the session with it, all but what the broker
\* gave up killing.
SessionGoesAway ==
    ~link.up ~> (~CliAlive /\ \A j \in Jobs : Alive(j) => broker.gaveUp # {})

=============================================================================

------------------------------- MODULE UidRuns -------------------------------
(***************************************************************************)
(* Anonymous runs under uid isolation: the ephemeral uid pool              *)
(* (backends/claude/uid_isolation.py), the clean start of a uid            *)
(* (uid_layout.py), the wipe that precedes the end of a lease              *)
(* (uid_cleanup.py), and the broker that forks each CLI as its uid and     *)
(* runs the wipes (docker/isolation_broker.py).                            *)
(*                                                                         *)
(* A run has a workspace of its own and leases a uid for as long as that   *)
(* workspace exists.  A uid's config dir and IPC objects outlive the run   *)
(* (dirt) and the gateway: the next run on the uid must find none of them. *)
(* Gateway, broker and CLIs share one container and die together (Crash);  *)
(* workspaces, their ACLs and the config dirs stay.                        *)
(***************************************************************************)
EXTENDS Naturals, Sequences, FiniteSets

CONSTANTS
    Runs,           \* anonymous runs
    NumUids,        \* the ephemeral band is 1..NumUids
    Backoff,        \* retries of a failed job before keep is asked
    MaxFail,        \* cleanups or removals that may fail
    MaxCrash,       \* container restarts
    None

Uids == 1..NumUids

VARIABLES
    leases,     \* _EphemeralPool._leases
    fresh,      \* _EphemeralPool._next
    released,   \* _EphemeralPool._released
    cleanFor,   \* uid_layout._clean_for
    phase,      \* where the gateway is with a run
    ws,         \* runs whose workspace root exists
    acl,        \* the uid the workspace's ACL names
    job,        \* the run's Reclaimer job
    op,         \* the broker operation asked for on the run's behalf
    cli,        \* the run's CLI as the broker sees it
    orphans,    \* runs with processes left by a supervisor that died
    dirt,       \* per uid: the runs whose data its dirs and IPC objects hold
    fails, crashes

pool == <<leases, fresh, released>>
broker == <<op, cli, orphans>>
vars == <<pool, cleanFor, phase, ws, acl, job, broker, dirt, fails, crashes>>

Init ==
    /\ leases = [r \in Runs |-> None] /\ fresh = 1 /\ released = <<>>
    /\ cleanFor = [u \in Uids |-> None]
    /\ phase = [r \in Runs |-> "new"]
    /\ ws = {} /\ acl = [r \in Runs |-> None]
    /\ job = [r \in Runs |-> None] /\ op = [r \in Runs |-> None]
    /\ cli = [r \in Runs |-> None] /\ orphans = {}
    /\ dirt = [u \in Uids |-> {}]
    /\ fails = 0 /\ crashes = 0

Holder(u) == {r \in Runs : leases[r] = u}
Go(r, p) == phase' = [phase EXCEPT ![r] = p]

-----------------------------------------------------------------------------
(* The pool and the clean start.                                           *)

Start(r) ==
    /\ phase[r] = "new"
    /\ ws' = ws \cup {r} /\ Go(r, "placed")
    /\ UNCHANGED <<pool, cleanFor, acl, job, broker, dirt, fails, crashes>>

\* _reclaim_stale_locked: leases whose workspace is gone come back.
Stale == {r \in Runs : leases[r] # None /\ r \notin ws}
Queued(S) == LET n == Cardinality(S) IN
             CHOOSE f \in [1..n -> S] : \A i, j \in 1..n : f[i] = f[j] => i = j

\* _EphemeralPool.resolve: the lease held, a uid never used, one released, or
\* one reclaimed; refused when every uid is leased to a live run.
Lease(r) ==
    /\ phase[r] = "placed"
    /\ \/ /\ leases[r] # None /\ Go(r, "leased") /\ UNCHANGED pool
       \/ /\ leases[r] = None /\ fresh <= NumUids
          /\ leases' = [leases EXCEPT ![r] = fresh] /\ fresh' = fresh + 1
          /\ Go(r, "leased") /\ UNCHANGED released
       \/ /\ leases[r] = None /\ fresh > NumUids /\ released # <<>>
          /\ leases' = [leases EXCEPT ![r] = Head(released)] /\ released' = Tail(released)
          /\ Go(r, "leased") /\ UNCHANGED fresh
       \/ /\ leases[r] = None /\ fresh > NumUids /\ released = <<>>
          /\ \E s \in Stale :
                /\ leases' = [t \in Runs |-> IF t = r THEN leases[s]
                                             ELSE IF t \in Stale THEN None ELSE leases[t]]
                /\ released' = Queued({leases[t] : t \in Stale \ {s}})
          /\ Go(r, "leased") /\ UNCHANGED fresh
       \/ /\ leases[r] = None /\ fresh > NumUids /\ released = <<>> /\ Stale = {}
          /\ Go(r, "over") /\ UNCHANGED pool
    /\ UNCHANGED <<cleanFor, ws, acl, job, broker, dirt, fails, crashes>>

Ready(r) ==
    /\ cleanFor' = [cleanFor EXCEPT ![leases[r]] = r]
    /\ acl' = [acl EXCEPT ![r] = leases[r]]
    /\ Go(r, "ready")

\* Mutant: a uid found clean once is not looked at again.
PrepareOnce(r) ==
    /\ phase[r] = "leased"
    /\ IF cleanFor[leases[r]] # None \/ dirt[leases[r]] = {}
       THEN Ready(r) /\ UNCHANGED op
       ELSE /\ op' = [op EXCEPT ![r] = [kind |-> "clean", uid |-> leases[r], st |-> "sent"]]
            /\ Go(r, "cleaning") /\ UNCHANGED <<cleanFor, acl>>
    /\ UNCHANGED <<pool, ws, job, cli, orphans, dirt, fails, crashes>>

\* prepare_spawn: ensure_clean_ephemeral once per (uid, run), then the grant.
Prepare(r) ==
    /\ phase[r] = "leased"
    /\ IF cleanFor[leases[r]] = r \/ dirt[leases[r]] = {}
       THEN Ready(r) /\ UNCHANGED op
       ELSE /\ op' = [op EXCEPT ![r] = [kind |-> "clean", uid |-> leases[r], st |-> "sent"]]
            /\ Go(r, "cleaning") /\ UNCHANGED <<cleanFor, acl>>
    /\ UNCHANGED <<pool, ws, job, cli, orphans, dirt, fails, crashes>>

Answered(r) == op[r] # None /\ op[r].st \in {"ok", "failed", "refused"}

Cleaned(r) ==
    /\ phase[r] = "cleaning" /\ Answered(r)
    /\ IF op[r].st = "ok" /\ dirt[leases[r]] = {}
       THEN Ready(r)
       ELSE Go(r, "over") /\ UNCHANGED <<cleanFor, acl>>
    /\ op' = [op EXCEPT ![r] = None]
    /\ UNCHANGED <<pool, ws, job, cli, orphans, dirt, fails, crashes>>

-----------------------------------------------------------------------------
(* The broker.                                                             *)

Live(u) == {r \in Runs : cli[r] # None /\ cli[r].uid = u}
Wiping(u) == \E r \in Runs : op[r] # None /\ op[r].uid = u /\ op[r].kind = "wipe"
                             /\ op[r].st = "running"
OrphanOf(u) == \E r \in orphans : acl[r] = u

\* _check_uid_free: the backstop at every spawn.
CheckUidFree(u, r) == Live(u) \subseteq {r} /\ ~Wiping(u) /\ ~OrphanOf(u)

\* The ticket of a ready run reaches the broker, which forks a supervisor.
Spawn(r) ==
    /\ phase[r] = "ready"
    /\ IF CheckUidFree(leases[r], r)
       THEN /\ cli' = [cli EXCEPT ![r] = [uid |-> leases[r], st |-> "running"]]
            /\ dirt' = [dirt EXCEPT ![leases[r]] = @ \cup {r}]
            /\ Go(r, "up")
       ELSE Go(r, "over") /\ UNCHANGED <<cli, dirt>>
    /\ UNCHANGED <<pool, cleanFor, ws, acl, job, op, orphans, fails, crashes>>

\* A session's client is created anew in the same workspace.
Respawn(r) ==
    /\ phase[r] = "up" /\ cli[r] = None /\ r \in ws
    /\ Go(r, "placed")
    /\ UNCHANGED <<pool, cleanFor, ws, acl, job, broker, dirt, fails, crashes>>

\* _supervise: the launcher's link ends or a relayed SIGTERM starts the teardown.
LinkEnds(r) ==
    /\ cli[r] # None /\ cli[r].st = "running"
    /\ cli' = [cli EXCEPT ![r].st = "ending"]
    /\ UNCHANGED <<pool, cleanFor, phase, ws, acl, job, op, orphans, dirt, fails, crashes>>

\* _run_supervisor and _reap: every descendant is swept and the supervisor
\* reaped, or it dies first and leaves them to the resident broker.
SupervisorEnds(r) ==
    /\ cli[r] # None
    /\ cli' = [cli EXCEPT ![r] = None]
    /\ orphans' \in {orphans, orphans \cup {r}}
    /\ UNCHANGED <<pool, cleanFor, phase, ws, acl, job, op, dirt, fails, crashes>>

\* _sweep_orphans, or an orphan it could not kill ends by itself.
OrphanEnds(r) ==
    /\ r \in orphans /\ orphans' = orphans \ {r}
    /\ UNCHANGED <<pool, cleanFor, phase, ws, acl, job, op, cli, dirt, fails, crashes>>

\* Mutant: only another cleanup keeps a cleanup waiting.
BusyWithCleanup(r) == Wiping(op[r].uid)

\* _cleanup_busy: the uid may still be in use, or is being wiped already.  The
\* clearing of a workspace alone does not concern the uid's other sessions.
Busy(r) ==
    \/ op[r].kind # "clear" /\ Live(op[r].uid) # {}
    \/ Wiping(op[r].uid)
    \/ OrphanOf(op[r].uid)

\* _advance, _park and _unpark: run, wait while busy, or refuse.
OpStarts(r) ==
    /\ op[r] # None /\ op[r].st \in {"sent", "parked"} /\ ~Busy(r)
    /\ op' = [op EXCEPT ![r].st = "running"]
    /\ UNCHANGED <<pool, cleanFor, phase, ws, acl, job, cli, orphans, dirt, fails, crashes>>

OpWaits(r) ==
    /\ op[r] # None /\ op[r].st \in {"sent", "parked"} /\ Busy(r)
    /\ op' = [op EXCEPT ![r].st =
                IF op[r].st = "sent" /\ op[r].kind # "clear" THEN "parked" ELSE "refused"]
    /\ UNCHANGED <<pool, cleanFor, phase, ws, acl, job, cli, orphans, dirt, fails, crashes>>

\* _run_cleanup: every step runs; one that failed leaves some of the data.
OpEnds(r) ==
    /\ op[r] # None /\ op[r].st = "running"
    /\ LET u == op[r].uid IN
       \/ /\ op' = [op EXCEPT ![r].st = "ok"]
          /\ dirt' = IF op[r].kind = "clear" THEN dirt ELSE [dirt EXCEPT ![u] = {}]
          /\ UNCHANGED fails
       \/ /\ fails < MaxFail /\ fails' = fails + 1
          /\ op' = [op EXCEPT ![r].st = "failed"]
          /\ UNCHANGED dirt
    /\ UNCHANGED <<pool, cleanFor, phase, ws, acl, job, cli, orphans, crashes>>

-----------------------------------------------------------------------------
(* The end of a run: reclaim_temp_workspace and the Reclaimer.             *)

\* _orphan_uid: a workspace without a lease is wiped as the uid its ACL names
\* when nobody holds that uid now.
WipeUid(r) == IF leases[r] # None THEN leases[r]
              ELSE IF acl[r] # None /\ Holder(acl[r]) = {} THEN acl[r] ELSE None

NewJob(r) == [uid |-> WipeUid(r), leased |-> leases[r] # None, tries |-> 0, st |-> "due"]

\* cleanup_temp_workspace: the disconnect may have been given up on, so the
\* CLI may still be there.
End(r) ==
    /\ phase[r] \in {"placed", "leased", "ready", "up", "over", "stale"}
    /\ IF WipeUid(r) = None
       THEN ws' = ws \ {r} /\ Go(r, "gone") /\ UNCHANGED job
       ELSE job' = [job EXCEPT ![r] = NewJob(r)] /\ Go(r, "wiping") /\ UNCHANGED ws
    /\ UNCHANGED <<pool, cleanFor, acl, broker, dirt, fails, crashes>>

\* _wipe_workspace up to the broker: the uid's own dirs only while it is this
\* run's.
Own(r) == Holder(job[r].uid) \subseteq {r}

WipeBegins(r) ==
    /\ job[r] # None /\ job[r].st = "due"
    /\ op' = [op EXCEPT ![r] = [kind |-> IF Own(r) THEN "wipe" ELSE "clear",
                                uid |-> job[r].uid, st |-> "sent"]]
    /\ job' = [job EXCEPT ![r].st = "op"]
    /\ UNCHANGED <<pool, cleanFor, phase, ws, acl, cli, orphans, dirt, fails, crashes>>

\* What the broker's answer is worth: a step that failed is forgiven only when
\* nothing of the uid is left.
WipePassed(r) ==
    \/ op[r].st = "ok"
    \/ op[r].st = "failed" /\ (op[r].kind = "clear" \/ dirt[op[r].uid] = {})

ReleaseLease(r) ==
    /\ leases' = [leases EXCEPT ![r] = None]
    /\ released' = IF leases[r] = None THEN released ELSE Append(released, leases[r])

\* Mutant: the job's uid is released whoever holds it now.
WipeDoneTwice(r) ==
    /\ job[r] # None /\ job[r].st = "op" /\ Answered(r) /\ WipePassed(r)
    /\ ws' = ws \ {r}
    /\ leases' = [leases EXCEPT ![r] = None]
    /\ released' = Append(released, job[r].uid)
    /\ job' = [job EXCEPT ![r] = None] /\ op' = [op EXCEPT ![r] = None]
    /\ Go(r, "gone")
    /\ UNCHANGED <<fresh, cleanFor, acl, cli, orphans, dirt, fails, crashes>>

\* The root goes, then the lease ends.
WipeDone(r) ==
    /\ job[r] # None /\ job[r].st = "op" /\ Answered(r) /\ WipePassed(r)
    /\ ws' = ws \ {r}
    /\ ReleaseLease(r)
    /\ job' = [job EXCEPT ![r] = None] /\ op' = [op EXCEPT ![r] = None]
    /\ Go(r, "gone")
    /\ UNCHANGED <<fresh, cleanFor, acl, cli, orphans, dirt, fails, crashes>>

\* _wipe_still_needed, and _finish_locked of a failed job: another try after a
\* backoff, then parked for as long as it is needed, or given up.
StillNeeded(r) == r \in ws /\ (job[r].leased => leases[r] = job[r].uid)

WipeFails(r) ==
    /\ job[r] # None /\ job[r].st = "op" /\ Answered(r)
    /\ \/ ~WipePassed(r) /\ UNCHANGED fails
       \/ fails < MaxFail /\ fails' = fails + 1        \* the root stays
    /\ IF job[r].tries < Backoff \/ StillNeeded(r)
       THEN /\ job' = [job EXCEPT ![r].st = "due",
                                  ![r].tries = IF @ < Backoff THEN @ + 1 ELSE @]
            /\ UNCHANGED phase
       ELSE job' = [job EXCEPT ![r] = None] /\ Go(r, "gone")
    /\ op' = [op EXCEPT ![r] = None]
    /\ UNCHANGED <<pool, cleanFor, ws, acl, cli, orphans, dirt, crashes>>

\* Something other than the gateway removes a workspace root.  (While a spawn
\* is prepared there it makes the grant of the workspace fail.)
RootVanishes(r) ==
    /\ r \in ws /\ phase[r] \in {"up", "over", "wiping"}
    /\ fails < MaxFail /\ fails' = fails + 1
    /\ ws' = ws \ {r}
    /\ UNCHANGED <<pool, cleanFor, phase, acl, job, broker, dirt, crashes>>

\* The container dies with every process in it; the gateway that starts next
\* finds the workspaces left behind.
Crash ==
    /\ crashes < MaxCrash /\ crashes' = crashes + 1
    /\ leases' = [r \in Runs |-> None] /\ fresh' = 1 /\ released' = <<>>
    /\ cleanFor' = [u \in Uids |-> None]
    /\ phase' = [r \in Runs |-> CASE r \in ws -> "stale"
                                  [] r \notin ws /\ phase[r] = "new" -> "new"
                                  [] OTHER -> "gone"]
    /\ job' = [r \in Runs |-> None] /\ op' = [r \in Runs |-> None]
    /\ cli' = [r \in Runs |-> None] /\ orphans' = {}
    /\ UNCHANGED <<ws, acl, dirt, fails>>

-----------------------------------------------------------------------------
Run(r) == Start(r) \/ Lease(r) \/ Prepare(r) \/ Cleaned(r) \/ Spawn(r) \/ Respawn(r) \/ End(r)
Broker(r) == LinkEnds(r) \/ SupervisorEnds(r) \/ OrphanEnds(r) \/ OpStarts(r) \/ OpWaits(r)
             \/ OpEnds(r)
Reclaimer(r) == WipeBegins(r) \/ WipeDone(r) \/ WipeFails(r)

Next == Crash \/ \E r \in Runs : RootVanishes(r) \/ Run(r) \/ Broker(r) \/ Reclaimer(r)

Spec == Init /\ [][Next]_vars

-----------------------------------------------------------------------------
(* Properties.                                                             *)

\* Two runs never share a uid while processes of both are alive, and a CLI
\* never runs on a uid that still holds another run's data, across leases,
\* failed wipes, stragglers and restarts (_check_uid_free, _cleanup_busy,
\* ensure_clean_ephemeral, _wipe_workspace).
RunsAreApart == \A r \in Runs : cli[r] # None =>
    /\ Live(cli[r].uid) = {r}
    /\ dirt[cli[r].uid] \subseteq {r}
    /\ \A s \in orphans \ {r} : acl[s] # cli[r].uid

\* A cleanup never works on a uid's dirs while a CLI of that uid runs.
NoWipeUnderCli == \A r \in Runs :
    op[r] # None /\ op[r].st = "running" /\ op[r].kind # "clear" => Live(op[r].uid) = {}

\* No uid of the pool is lost or handed out twice: each one is unused, leased
\* to one run or on the released queue (_take_free_locked, release,
\* _reclaim_stale_locked).
PoolIsExact ==
    /\ \A u \in Uids : Cardinality(Holder(u))
                       + Cardinality({i \in DOMAIN released : released[i] = u})
                       = IF u < fresh THEN 1 ELSE 0

=============================================================================

--------------------------- MODULE SessionManager ---------------------------
(***************************************************************************)
(* The life of sessions in one gateway process: src/session_manager.py     *)
(* (SessionManager, Session), with the parts of its users that change the  *)
(* same state: the client start of src/routes/responses.py, the drain loop *)
(* of src/handoff/drain.py, and the owner locks of src/handoff/owners.py.  *)
(*                                                                         *)
(* A session id may have several Session objects over time: an old one     *)
(* whose teardown still waits for its CLI to stop beside a new one, built  *)
(* from the transcript.  An object is out of the cache as soon as a delete,*)
(* an eviction, an expiry or a hand-off takes it out; what it holds (its   *)
(* workspace, its uid lease, its hold on the cross-instance owner lock) is *)
(* released later, after an await.                                         *)
(*                                                                         *)
(* Each action is one stretch of code without an await: asyncio runs it    *)
(* whole, and SessionManager.lock keeps worker threads out of it.  Time is *)
(* abstract: a TTL may pass, and a turn may fall silent for longer than    *)
(* ACTIVE_TURN_MAX_AGE_SECONDS, at any moment.                             *)
(***************************************************************************)
EXTENDS Naturals, FiniteSets, FiniteSetsExt

CONSTANTS
    Ids,         \* session ids
    Named,       \* ids of sessions that have a user: their transcript can be resumed
    NumObjects,  \* bound: Session objects made in one behaviour
    Requests,    \* turn requests (each handles one turn)
    Limit,       \* MAX_LIVE_SESSIONS; 0 disables the cap
    Lru,         \* SESSION_EVICTION_POLICY = "lru"
    None

ASSUME SessionAssumption ==
    /\ IsFiniteSet(Ids) /\ Named \subseteq Ids
    /\ NumObjects \in Nat /\ Limit \in Nat /\ Lru \in BOOLEAN
    /\ None \notin Ids /\ None \notin Nat /\ None \notin Requests

Objects == 1..NumObjects

VARIABLES
    sessions,  \* the cache: sessions[id] is its object, or None
    created,   \* Session objects made so far
    ident,     \* session_id of each object
    client,    \* objects whose client is not None
    cli,       \* objects for which a CLI process may run
    starting,  \* client_starting
    deferred,  \* deferred_release: None, "kept" (False) or "finished" (True)
    expired,   \* objects whose expires_at has passed
    turn,      \* "none", "active" or "silent" (active_response_id), "card" (pending_tool_call)
    poisoned,  \* objects whose SessionLock is poisoned
    released,  \* objects that gave up their dirs and their owner-lock token
    env,       \* ids whose session-env dir is on disk
    other,     \* ids whose owner lock another instance holds
    teardown,  \* who is tearing the object down, across an await
    draining,  \* drain_state.draining
    sweepDue,  \* _sweep_task exists and has not run yet
    phase,     \* "up", "settling" (async_shutdown awaits) or "down"
    pc, on, want, fresh,  \* each request: where it is, its object, the id it asked for,
                          \* and whether it opened the session itself
    holder     \* the request that holds session.lock

objectVars == <<client, cli, starting, deferred, turn, poisoned>>
requestVars == <<pc, on, want, fresh, holder>>
vars == <<sessions, created, ident, objectVars, expired, released, env, other,
          teardown, draining, sweepDue, phase, requestVars>>

-----------------------------------------------------------------------------
(* Reading the cache. *)

Live(c) == {c[i] : i \in Ids} \ {None}
Cached(o) == o \in Live(sessions)

\* The objects that hold their dirs and a token of the owner lock of their id.
Held == (1..created) \ released

\* Mutant: only the TTL counts.
IsExpiredUnpinned(o) == o \in expired

\* is_expired: a turn in flight pins its session until it falls silent.
IsExpired(o) ==
    IF turn[o] \in {"active", "silent"} THEN turn[o] = "silent" ELSE o \in expired

Drop(c, S) == [i \in Ids |-> IF c[i] \in S THEN None ELSE c[i]]

\* Mutant: off by one.
FullLate(c) == Limit > 0 /\ Cardinality(Live(c)) > Limit

Full(c) == Limit > 0 /\ Cardinality(Live(c)) >= Limit

-----------------------------------------------------------------------------
(* Releasing what an object holds. *)

\* Mutant: the id is not asked for a newer object.
DropDirsBlind(S, finished, c) ==
    /\ released' = released \cup S
    /\ env' = env \ {ident[o] : o \in {p \in S : finished \/ ident[p] \notin Named}}

\* _remove_session_env_locked: unless another object has the id in cache c.
EnvDropped(o, c) == c[ident[o]] \in {None, o}

\* The body of _release_session_dirs once nothing is starting: the temp
\* workspace, the owner-lock token, and the session-env dir of a finished or
\* anonymous session.
DropDirs(S, finished, c) ==
    /\ released' = released \cup S
    /\ env' = env \ {ident[o] : o \in
                       {p \in S : (finished \/ ident[p] \notin Named) /\ EnvDropped(p, c)}}

\* _release_session_dirs, _defer_release_locked included.
ReleaseDirs(S, finished, c) ==
    /\ DropDirs(S \ starting, finished, c)
    /\ deferred' = [o \in Objects |->
          IF o \in S \cap starting
          THEN IF finished \/ deferred[o] = "finished" THEN "finished" ELSE "kept"
          ELSE deferred[o]]

-----------------------------------------------------------------------------
Init ==
    /\ sessions = [i \in Ids |-> None]
    /\ created = 0
    /\ ident = [o \in Objects |-> None]
    /\ client = {} /\ cli = {} /\ starting = {} /\ poisoned = {}
    /\ deferred = [o \in Objects |-> None]
    /\ turn = [o \in Objects |-> "none"]
    /\ expired = {} /\ released = {} /\ env = {} /\ other = {}
    /\ teardown = [o \in Objects |-> "none"]
    /\ draining = FALSE /\ sweepDue = FALSE /\ phase = "up"
    /\ pc = [q \in Requests |-> "idle"]
    /\ on = [q \in Requests |-> None]
    /\ want = [q \in Requests |-> None]
    /\ fresh = {}
    /\ holder = [o \in Objects |-> None]

-----------------------------------------------------------------------------
(* A request reaches the cache. *)

\* The object _remove_if_expired takes out when id is looked up.
Stale(id) == {o \in {sessions[id]} \ {None} : IsExpired(o)}

\* What leaves the cache when id is looked up and R goes with it: objects with
\* a client get a background _teardown_evicted, the others are released here.
TakeOut(R, c) ==
    /\ teardown' = [o \in Objects |-> IF o \in R \cap client THEN "evict" ELSE teardown[o]]
    /\ ReleaseDirs(R \ client, FALSE, c)

\* _purge_all_expired_sync.
Purged(c) == IF Full(c) THEN {o \in Live(c) : IsExpired(o) /\ o \notin client} ELSE {}

\* The choices of _try_evict_lru_locked: one idle session, an expired one if
\* there is one; or none, when every live one is under the idle floor.
Victims(c) ==
    LET idle == {o \in Live(c) : turn[o] = "none" /\ o \notin starting}
        dead == {o \in idle : IsExpired(o)}
    IN  IF ~(Full(c) /\ Lru) THEN {{}}
        ELSE IF dead # {} THEN {{o} : o \in dead}
        ELSE {{o} : o \in idle} \cup {{}}

\* _has_room_for_new_session, then _take_ownership_locked, then the insert:
\* the tail of get_or_create_session and of _admit_rehydrated.  Making room
\* comes first, so a request that cannot take the owner lock may already have
\* evicted another session.
Enter(q, id) ==
    LET c1 == Drop(sessions, Stale(id))
        c2 == Drop(c1, Purged(c1))
        n == created + 1
    IN  \E V \in Victims(c2) :
          LET c3 == Drop(c2, V)
              R == Stale(id) \cup Purged(c1) \cup V
              admitted == (~Full(c2) \/ V # {}) /\ ~draining /\ id \notin other
          IN  /\ TakeOut(R, c3)
              /\ sweepDue' = (sweepDue \/ (/\ Full(c2) /\ \E o \in Live(c3) : IsExpired(o)
                                           /\ \A o \in Objects : teardown[o] # "sweep"))
              /\ \/ /\ admitted
                    /\ created < NumObjects
                    /\ created' = n
                    /\ sessions' = [c3 EXCEPT ![id] = n]
                    /\ ident' = [ident EXCEPT ![n] = id]
                    /\ pc' = [pc EXCEPT ![q] = "has"]
                    /\ on' = [on EXCEPT ![q] = n]
                 \/ /\ ~admitted
                    /\ sessions' = c3
                    /\ pc' = [pc EXCEPT ![q] = "done"]
                    /\ UNCHANGED <<created, ident, on>>

\* get_or_create_session: a request without previous_response_id, under an id
\* of its own.
NewSession(q) ==
    /\ phase = "up" /\ pc[q] = "idle"
    /\ \E id \in Ids :
         /\ \A o \in Objects : ident[o] # id
         /\ want' = [want EXCEPT ![q] = id]
         /\ Enter(q, id)
    /\ fresh' = fresh \cup {q}
    /\ UNCHANGED <<client, cli, starting, turn, poisoned, expired, other, draining, phase, holder>>

\* _cached_session_locked finds the session alive and touches it.
Hit(q, id) ==
    /\ sessions[id] # None
    /\ ~IsExpired(sessions[id])
    /\ expired' = expired \ {sessions[id]}
    /\ pc' = [pc EXCEPT ![q] = "has"]
    /\ on' = [on EXCEPT ![q] = sessions[id]]
    /\ UNCHANGED <<sessions, created, ident, deferred, released, env, teardown, sweepDue>>

\* It does not, and takes an expired one out.
Miss(q, id, next) ==
    /\ sessions[id] \in {None} \cup Stale(id)
    /\ sessions' = Drop(sessions, Stale(id))
    /\ TakeOut(Stale(id), sessions')
    /\ pc' = [pc EXCEPT ![q] = next]
    /\ UNCHANGED <<created, ident, expired, on, sweepDue>>

\* get_session_async: a worker thread reads the transcript; without a user there
\* is nothing to read.
AfterMiss(id) == IF id \in Named THEN "reading" ELSE "done"

\* _resolve_response_session up to the transcript read.
Continue(q) ==
    /\ phase = "up" /\ pc[q] = "idle"
    /\ \E id \in {ident[o] : o \in 1..created} :
         /\ want' = [want EXCEPT ![q] = id]
         /\ Hit(q, id) \/ Miss(q, id, AfterMiss(id))
    /\ UNCHANGED <<client, cli, starting, turn, poisoned, other, draining, phase, fresh, holder>>

\* _admit_rehydrated: the cache is asked again; a transcript that is missing,
\* unreadable or too short for the turn ends the request.
Rehydrate(q) ==
    /\ phase = "up" /\ pc[q] = "reading"
    /\ \/ Hit(q, want[q])
       \/ Miss(q, want[q], "done")
       \/ /\ sessions[want[q]] \in {None} \cup Stale(want[q])
          /\ Enter(q, want[q])
          /\ UNCHANGED expired
    /\ UNCHANGED <<client, cli, starting, turn, poisoned, other, draining, phase, want, fresh, holder>>

-----------------------------------------------------------------------------
(* A request runs its turn on the object it got. *)

Finish(q) == pc' = [pc EXCEPT ![q] = "done"]
Unlock(o) == holder' = [holder EXCEPT ![o] = None]
ManagerUnchanged == UNCHANGED <<sessions, created, ident, other, draining, sweepDue, phase>>

\* Mutant: the lock is a plain asyncio.Lock.
PreflightUnpoisoned(q) ==
    /\ pc[q] = "has"
    /\ holder[on[q]] = None
    /\ holder' = [holder EXCEPT ![on[q]] = q]
    /\ pc' = [pc EXCEPT ![q] = "locked"]
    /\ ManagerUnchanged
    /\ UNCHANGED <<objectVars, expired, released, env, teardown, on, want, fresh>>

\* acquire_session_preflight: the lock, unless a hand-off poisoned it, then the
\* turn guards, which may refuse.
Preflight(q) ==
    LET o == on[q] IN
    /\ pc[q] = "has"
    /\ holder[o] = None
    /\ \/ /\ o \notin poisoned
          /\ holder' = [holder EXCEPT ![o] = q]
          /\ pc' = [pc EXCEPT ![q] = "locked"]
       \/ /\ Finish(q)
          /\ UNCHANGED holder
    /\ ManagerUnchanged
    /\ UNCHANGED <<objectVars, expired, released, env, teardown, on, want, fresh>>

\* delete_session_async up to its await.
DeleteNow(id, finished) ==
    LET o == sessions[id] IN
    /\ o # None
    /\ sessions' = [sessions EXCEPT ![id] = None]
    /\ IF o \in client
       THEN /\ teardown' = [teardown EXCEPT ![o] = "delete"]
            /\ UNCHANGED <<released, env, deferred>>
       ELSE /\ ReleaseDirs({o}, finished, sessions')
            /\ UNCHANGED teardown

\* A refused first turn drops the session it opened (create_response,
\* _resolve_response_workspace).
RefuseFirst(q) ==
    /\ pc[q] = "has" /\ q \in fresh
    /\ Finish(q)
    /\ \/ DeleteNow(want[q], TRUE)
       \/ /\ sessions[want[q]] = None
          /\ UNCHANGED <<sessions, teardown, released, env, deferred>>
    /\ UNCHANGED <<created, ident, client, cli, starting, turn, poisoned, expired, other,
                   draining, sweepDue, phase, on, want, fresh, holder>>

\* _ensure_response_session_client without a client: begin_client_start, then
\* create_client is awaited.  Its CLI may run from here on.
BeginClientStart(q) ==
    LET o == on[q] IN
    /\ pc[q] = "locked" /\ o \notin client
    /\ starting' = starting \cup {o}
    /\ cli' = cli \cup {o}
    /\ env' = env \cup {ident[o]}
    /\ turn' = [turn EXCEPT ![o] = "none"]
    /\ pc' = [pc EXCEPT ![q] = "starting"]
    /\ ManagerUnchanged
    /\ UNCHANGED <<client, deferred, poisoned, expired, released, teardown, on, want, fresh, holder>>

\* Mutant: the client is installed without asking the cache.
ClientUpUnchecked(q) ==
    /\ pc[q] = "starting"
    /\ client' = client \cup {on[q]}
    /\ starting' = starting \ {on[q]}
    /\ deferred' = [deferred EXCEPT ![on[q]] = None]
    /\ pc' = [pc EXCEPT ![q] = "locked"]
    /\ ManagerUnchanged
    /\ UNCHANGED <<cli, turn, poisoned, expired, released, env, teardown, on, want, fresh, holder>>

\* create_client returns: finish_client_start installs the client if the
\* manager still holds the session, and else goes on to stop it.
ClientUp(q) ==
    LET o == on[q] IN
    /\ pc[q] = "starting"
    /\ \/ /\ Cached(o)
          /\ client' = client \cup {o}
          /\ starting' = starting \ {o}
          /\ deferred' = [deferred EXCEPT ![o] = None]
          /\ pc' = [pc EXCEPT ![q] = "locked"]
       \/ /\ ~Cached(o)
          /\ pc' = [pc EXCEPT ![q] = "stopping"]
          /\ UNCHANGED <<client, starting, deferred>>
    /\ ManagerUnchanged
    /\ UNCHANGED <<cli, turn, poisoned, expired, released, env, teardown, on, want, fresh, holder>>

\* The tail of finish_client_start for an object that left the cache.
EndStart(o) ==
    /\ cli' = cli \ {o}
    /\ starting' = starting \ {o}
    /\ deferred' = [deferred EXCEPT ![o] = None]

\* Mutant: the deferred release is forgotten.
NewClientStoppedOnly(q) ==
    /\ pc[q] = "stopping"
    /\ EndStart(on[q])
    /\ Unlock(on[q])
    /\ Finish(q)
    /\ ManagerUnchanged
    /\ UNCHANGED <<client, turn, poisoned, expired, released, env, teardown, on, want, fresh>>

\* _stop_client returns: the route answers 409 session_ended.
NewClientStopped(q) ==
    LET o == on[q] IN
    /\ pc[q] = "stopping"
    /\ EndStart(o)
    /\ DropDirs({o}, deferred[o] = "finished", sessions)
    /\ Unlock(o)
    /\ Finish(q)
    /\ ManagerUnchanged
    /\ UNCHANGED <<client, turn, poisoned, expired, teardown, on, want, fresh>>

\* create_client raises: the session goes too.
ClientFails(q) ==
    LET o == on[q] IN
    /\ pc[q] = "starting"
    /\ EndStart(o)
    /\ sessions' = Drop(sessions, {o})
    /\ DropDirs({o}, IF Cached(o) THEN q \in fresh ELSE deferred[o] = "finished", sessions')
    /\ Unlock(o)
    /\ Finish(q)
    /\ UNCHANGED <<created, ident, client, turn, poisoned, expired, other, teardown, draining,
                   sweepDue, phase, on, want, fresh>>

\* create_client is cancelled: the session stays if it is still cached.  Only
\* the non-streaming path gives session.lock back.
ClientCancelled(q) ==
    LET o == on[q] IN
    /\ pc[q] = "starting"
    /\ EndStart(o)
    /\ IF Cached(o) THEN UNCHANGED <<released, env>>
       ELSE DropDirs({o}, deferred[o] = "finished", sessions)
    /\ Unlock(o) \/ UNCHANGED holder
    /\ Finish(q)
    /\ ManagerUnchanged
    /\ UNCHANGED <<client, turn, poisoned, expired, teardown, on, want, fresh>>

\* _begin_active_response.
BeginTurn(q) ==
    LET o == on[q] IN
    /\ pc[q] = "locked" /\ o \in client
    /\ turn' = [turn EXCEPT ![o] = "active"]
    /\ pc' = [pc EXCEPT ![q] = "turn"]
    /\ ManagerUnchanged
    /\ UNCHANGED <<client, cli, starting, deferred, poisoned, expired, released, env, teardown,
                   on, want, fresh, holder>>

\* _disconnect_session_client after a failed turn: the client is taken off the
\* session, then its disconnect is awaited.
DropClient(q) ==
    /\ pc[q] = "turn"
    /\ client' = client \ {on[q]}
    /\ pc' = [pc EXCEPT ![q] = "dropping"]
    /\ ManagerUnchanged
    /\ UNCHANGED <<cli, starting, deferred, turn, poisoned, expired, released, env, teardown,
                   on, want, fresh, holder>>

\* _finish_active_response and the release of session.lock: a turn that
\* paused leaves a card behind, a dropped client is gone by now.
EndTurn(q) ==
    LET o == on[q] IN
    /\ \/ /\ pc[q] = "turn"
          /\ \E t \in {"none", "card"} : turn' = [turn EXCEPT ![o] = t]
          /\ UNCHANGED cli
       \/ /\ pc[q] = "dropping"
          /\ turn' = [turn EXCEPT ![o] = "none"]
          /\ cli' = cli \ {o}
    /\ expired' = expired \ {o}
    /\ Unlock(o)
    /\ Finish(q)
    /\ ManagerUnchanged
    /\ UNCHANGED <<client, starting, deferred, poisoned, released, env, teardown, on, want, fresh>>

-----------------------------------------------------------------------------
(* Time. *)

ClockUnchanged ==
    UNCHANGED <<sessions, created, ident, client, cli, starting, deferred, poisoned, released,
                env, other, teardown, draining, sweepDue, phase, requestVars>>

\* A cached session's TTL runs out; a turn falls silent or speaks again; a card
\* times out.
Expire(o) ==
    /\ phase = "up" /\ Cached(o) /\ o \notin expired
    /\ expired' = expired \cup {o}
    /\ UNCHANGED turn
    /\ ClockUnchanged
ChangeTurn(o) ==
    /\ \/ turn[o] = "active" /\ turn' = [turn EXCEPT ![o] = "silent"]
       \/ turn[o] = "silent" /\ turn' = [turn EXCEPT ![o] = "active"]
       \/ turn[o] = "card" /\ turn' = [turn EXCEPT ![o] = "none"]
    /\ UNCHANGED expired
    /\ ClockUnchanged

-----------------------------------------------------------------------------
(* Teardown. *)

TeardownFrame == UNCHANGED <<created, ident, cli, starting, turn, expired, other, phase, requestVars>>

\* _purge_all_expired up to its await, from the out-of-band sweep task or from
\* the periodic cleanup loop.
Purge(by) ==
    LET doomed == {o \in Live(sessions) : IsExpired(o)} IN
    /\ sessions' = Drop(sessions, doomed)
    /\ teardown' = [o \in Objects |-> IF o \in doomed THEN by ELSE teardown[o]]
SweepRuns ==
    /\ sweepDue
    /\ Purge("sweep")
    /\ sweepDue' = FALSE
    /\ TeardownFrame
    /\ UNCHANGED <<client, deferred, poisoned, released, env, draining>>
CleanupRuns ==
    /\ phase = "up"
    /\ \A o \in Objects : teardown[o] # "cleanup"
    /\ Purge("cleanup")
    /\ TeardownFrame
    /\ UNCHANGED <<client, deferred, poisoned, released, env, draining, sweepDue>>

\* delete_session_async, from a route.
Delete(id) ==
    /\ phase = "up"
    /\ DeleteNow(id, TRUE)
    /\ TeardownFrame
    /\ UNCHANGED <<client, poisoned, draining, sweepDue>>

\* release_for_handoff up to its await, asked for by a peer or by the loop of
\* a drain (one session at a time).  A busy session is left alone.
HandOff(id, by) ==
    LET o == sessions[id] IN
    /\ phase = "up" /\ o # None
    /\ by = "drain" => draining /\ \A p \in Objects : teardown[p] # "drain"
    /\ holder[o] = None /\ turn[o] = "none" /\ o \notin starting
    /\ sessions' = [sessions EXCEPT ![id] = None]
    /\ poisoned' = poisoned \cup {o}
    /\ IF o \in client
       THEN /\ teardown' = [teardown EXCEPT ![o] = by]
            /\ UNCHANGED <<released, env, deferred>>
       ELSE /\ ReleaseDirs({o}, FALSE, sessions')
            /\ UNCHANGED teardown
    /\ TeardownFrame
    /\ UNCHANGED <<client, draining, sweepDue>>

\* Mutant: the client is forgotten, not stopped.
TeardownDoneNoStop(o) ==
    /\ teardown[o] \notin {"none", "lost"}
    /\ client' = client \ {o}
    /\ ReleaseDirs({o}, teardown[o] = "delete", sessions)
    /\ teardown' = [teardown EXCEPT ![o] = "none"]
    /\ UNCHANGED <<sessions, created, ident, cli, starting, turn, poisoned, expired, other,
                   draining, sweepDue, phase, requestVars>>

\* Mutant: the dirs of a deferred teardown are left to nobody.
TeardownDoneNoRelease(o) ==
    /\ teardown[o] \notin {"none", "lost"}
    /\ client' = client \ {o}
    /\ cli' = IF o \in client THEN cli \ {o} ELSE cli
    /\ teardown' = [teardown EXCEPT ![o] = "evict"]
    /\ UNCHANGED <<sessions, created, ident, starting, deferred, turn, poisoned, expired, released,
                   env, other, draining, sweepDue, phase, requestVars>>

\* The end of every teardown: _stop_client returns, client = None,
\* _release_session_dirs.
TeardownDone(o) ==
    /\ teardown[o] \notin {"none", "lost"}
    /\ client' = client \ {o}
    /\ cli' = IF o \in client THEN cli \ {o} ELSE cli
    /\ ReleaseDirs({o}, teardown[o] = "delete", sessions)
    /\ teardown' = [teardown EXCEPT ![o] = "none"]
    /\ UNCHANGED <<sessions, created, ident, starting, turn, poisoned, expired, other, draining,
                   sweepDue, phase, requestVars>>

\* A cancelled task drops its teardown where it was.
Cancelled(kinds) ==
    teardown' = [o \in Objects |-> IF teardown[o] \in kinds THEN "lost" ELSE teardown[o]]

\* DrainState.start and stop.
Drain ==
    /\ phase = "up" /\ ~draining
    /\ draining' = TRUE
    /\ TeardownFrame
    /\ UNCHANGED <<sessions, client, deferred, poisoned, released, env, teardown, sweepDue>>
DrainStop ==
    /\ phase = "up" /\ draining
    /\ draining' = FALSE
    /\ Cancelled({"drain"})
    /\ TeardownFrame
    /\ UNCHANGED <<sessions, client, deferred, poisoned, released, env, sweepDue>>

\* Shutdown.  The server has finished its HTTP requests; only background runs
\* are left.  drain_state.stop and the cancelled cleanup task come first, then
\* async_shutdown settles the sweep and the evictions...
ShutdownBegin ==
    /\ phase = "up"
    /\ \A q \in Requests : pc[q] \in {"idle", "done", "turn", "dropping"}
    /\ \A o \in Objects : teardown[o] \notin {"delete", "handoff"}
    /\ phase' = "settling"
    /\ draining' = FALSE
    /\ Cancelled({"drain", "cleanup"})
    /\ UNCHANGED <<sessions, created, ident, objectVars, expired, released, env, other, sweepDue,
                   requestVars>>

\* ...then disconnects every cached session, releases its dirs and clears the
\* cache.
ShutdownEnd ==
    /\ phase = "settling"
    /\ ~sweepDue
    /\ \A o \in Objects : teardown[o] \notin {"sweep", "evict"}
    /\ phase' = "down"
    /\ cli' = cli \ (Live(sessions) \cap client)
    /\ client' = client \ Live(sessions)
    /\ ReleaseDirs(Live(sessions), FALSE, sessions)
    /\ sessions' = [i \in Ids |-> None]
    /\ UNCHANGED <<created, ident, starting, turn, poisoned, expired, other, teardown, draining,
                   sweepDue, requestVars>>

-----------------------------------------------------------------------------
(* The other instance takes and gives up owner locks (OwnerLocks.acquire    *)
(* fails while a token of this process holds the id).                       *)
OtherTakes(id) ==
    /\ id \notin other
    /\ \A o \in Held : ident[o] # id
    /\ other' = other \cup {id}
    /\ UNCHANGED <<sessions, created, ident, objectVars, expired, released, env, teardown,
                   draining, sweepDue, phase, requestVars>>
OtherReleases(id) ==
    /\ id \in other
    /\ other' = other \ {id}
    /\ UNCHANGED <<sessions, created, ident, objectVars, expired, released, env, teardown,
                   draining, sweepDue, phase, requestVars>>

-----------------------------------------------------------------------------
RequestStep(q) ==
    \/ NewSession(q) \/ Continue(q) \/ Rehydrate(q) \/ Preflight(q) \/ RefuseFirst(q)
    \/ BeginClientStart(q) \/ ClientUp(q) \/ NewClientStopped(q) \/ ClientFails(q)
    \/ ClientCancelled(q) \/ BeginTurn(q) \/ DropClient(q) \/ EndTurn(q)

Next ==
    \/ \E q \in Requests : RequestStep(q)
    \/ \E o \in Objects : Expire(o) \/ ChangeTurn(o) \/ TeardownDone(o)
    \/ SweepRuns \/ CleanupRuns
    \/ \E id \in Ids : Delete(id) \/ HandOff(id, "drain") \/ HandOff(id, "handoff")
    \/ Drain \/ DrainStop \/ ShutdownBegin \/ ShutdownEnd
    \/ \E id \in Named : OtherTakes(id) \/ OtherReleases(id)

Spec == Init /\ [][Next]_vars

\* Fairness: every awaited stop ends (_stop_client is capped and then kills),
\* and so does every create_client.
ClientStartEnds(q) == ClientUp(q) \/ ClientFails(q) \/ NewClientStopped(q)
Fairness ==
    /\ \A o \in Objects : WF_vars(TeardownDone(o))
    /\ \A q \in Requests : WF_vars(ClientStartEnds(q))
FairSpec == Spec /\ Fairness

-----------------------------------------------------------------------------
(* Properties. *)

\* The cache, the objects of Session and the requests that hold them.
TypeOK ==
    /\ sessions \in [Ids -> Objects \cup {None}]
    /\ created \in 0..NumObjects
    /\ ident \in [Objects -> Ids \cup {None}]
    /\ client \subseteq Objects /\ cli \subseteq Objects
    /\ starting \subseteq Objects /\ poisoned \subseteq Objects
    /\ deferred \in [Objects -> {None, "kept", "finished"}]
    /\ expired \subseteq Objects /\ released \subseteq Objects
    /\ turn \in [Objects -> {"none", "active", "silent", "card"}]
    /\ env \subseteq Ids /\ other \subseteq Ids
    /\ teardown \in [Objects -> {"none", "evict", "sweep", "cleanup", "delete", "handoff",
                                 "drain", "lost"}]
    /\ draining \in BOOLEAN /\ sweepDue \in BOOLEAN /\ phase \in {"up", "settling", "down"}
    /\ pc \in [Requests -> {"idle", "reading", "has", "locked", "starting", "stopping", "turn",
                            "dropping", "done"}]
    /\ on \in [Requests -> Objects \cup {None}]
    /\ want \in [Requests -> Ids \cup {None}]
    /\ fresh \subseteq Requests
    /\ holder \in [Objects -> Requests \cup {None}]

\* _remove_session_env_locked: the session-env dir of a cached session that has
\* a client is never pulled by the teardown of an older object of its id.
LiveKeepsEnv ==
    \A o \in Live(sessions) \cap client : ident[o] \in env

\* MAX_LIVE_SESSIONS bounds the cache whichever way sessions enter it.
WithinLimit == Limit > 0 => Cardinality(Live(sessions)) <= Limit

\* _take_ownership_locked and _release_session_dirs: a session in the cache, and
\* any session whose client is installed, still holds its workspace and its
\* token of the owner lock, and no other instance holds its id; it keeps its
\* session-env dir, and the cache its bound.
InUseIsHeld ==
    /\ TypeOK /\ LiveKeepsEnv /\ WithinLimit
    /\ \A o \in Live(sessions) \cup client : o \in Held /\ ident[o] \notin other

\* finish_client_start, _release_session_dirs: a session that left the cache
\* and still holds its dirs or its owner lock has a party that will release
\* them: its teardown, or the request that starts its client.  Only a teardown
\* that was cancelled has none.
NoOrphan ==
    \A o \in Held \ Live(sessions) : teardown[o] # "none" \/ o \in starting

\* finish_client_start: when the start is over, no CLI runs for a session
\* nobody holds, except the one a cancelled teardown or a turn's own
\* disconnect left behind; and what is held has a party that releases it.
CliHasOwner ==
    /\ NoOrphan
    /\ \A o \in cli :
       \/ o \in client /\ (Cached(o) \/ teardown[o] # "none")
       \/ o \in starting
       \/ \E q \in Requests : on[q] = o /\ pc[q] = "dropping"

\* The release of a session to another instance (release_for_handoff): nobody
\* starts a client or runs a turn on it afterwards, although a request may have
\* got the object before.
HandedOffIsQuiet ==
    \A o \in poisoned : o \notin starting /\ turn[o] = "none" /\ holder[o] = None

\* is_expired, _try_evict_lru_locked: a session whose turn makes progress leaves
\* the cache only by an explicit delete or at shutdown.
PinnedStays ==
    [][\A o \in Objects :
          Cached(o) /\ turn[o] = "active" /\ ~Cached(o)' =>
             Delete(ident[o]) \/ (\E q \in Requests : RefuseFirst(q)) \/ ShutdownEnd]_vars

\* _teardown_evicted, _purge_all_expired, delete_session_async,
\* release_for_handoff, finish_client_start: what a session that left the cache
\* holds is released in the end, unless its teardown was cancelled.
RemovedIsReleased ==
    \A o \in Objects :
       (o \in Held /\ ~Cached(o)) ~> (o \in released \/ teardown[o] = "lost")

\* Stated by docs/zero-downtime-deploy.md and _release_session_dirs: the owner
\* lock of a session is held until a client that was up has stopped.
RunningClientIsHeld == \A o \in cli \ starting : o \in Held
=============================================================================

----------------------------- MODULE MCProgress -----------------------------
(***************************************************************************)
(* One run over the services in which something is owed: the outbox of a   *)
(* session, the archive slots, the supervisor of a CLI, the broker's       *)
(* requests, the start of the container and the spawner of per-user        *)
(* containers.  They share no state: the initial state chooses the one     *)
(* that runs (focus) and the others keep their initial values.             *)
(***************************************************************************)
EXTENDS Naturals, Sequences, FiniteSets

CONSTANTS
    MaxMsg, MaxTurn, MaxBuf, Keep,                      \* Outbox
    Requests, UserOf, MaxTotal, MaxUser, Depth, Chunks, \* Archive
    Jobs,                                               \* Supervisor
    Conns, Tickets, OpOf, ExpOf, MaxTime, MaxPending, MaxParked,  \* BrokerTickets
    Spawns, MaxFault,                                   \* SandboxSpawner
    None

ASSUME OutboxAssumption == Keep \in Nat \ {0}
ASSUME ArchiveAssumption ==
    /\ IsFiniteSet(Requests) /\ MaxTotal \in Nat /\ MaxUser \in Nat
    /\ Depth \in Nat /\ Chunks \in Nat
ASSUME SupervisorAssumption ==
    Jobs \cap {"none", "cli", "sup", "broker", "dead"} = {}
ASSUME BrokerAssumption ==
    /\ IsFiniteSet(Conns) /\ MaxPending \in Nat /\ MaxParked \in Nat /\ MaxTime \in Nat
    /\ OpOf \in [Tickets -> {"spawn", "wait", "cleanup", "transcript"}]
    /\ ExpOf \in [Tickets -> Nat]
ASSUME NoneAssumption ==
    None \notin {"ok", "problem", "off", "landlock", "uid", "typo"} \cup Spawns

VARIABLES
    focus,
    oClient, oStream, oCount, oTask, oTurn, oPhase, oShown, oReader, oBox, oActive, oLog, oCursor,
    aHeld, aTotal, aPerUser, aWalk, aBody, aWorker, aQueue, aLeft, aCancel,
    sSup, sCli, sArmed, sJobs, sLink, sTerm, sKillAt, sBroker,
    bConn, bTicket, bLate, bTracked, bOpen, bWall, bClock, bSeen, bStarted, bLive,
    iEnv, iStage, iBroker, iSecret, iProbe, iCached, iRan,
    cUnit, cStep, cStub, cFds, cWatch, cSig, cCli, cJobs, cReply, cLock, cBox, cNet, cFaults, cPast

outbox == <<oClient, oStream, oCount, oTask, oTurn, oPhase, oShown, oReader, oBox, oActive,
            oLog, oCursor>>
archive == <<aHeld, aTotal, aPerUser, aWalk, aBody, aWorker, aQueue, aLeft, aCancel>>
session == <<sSup, sCli, sArmed, sJobs, sLink, sTerm, sKillAt, sBroker>>
requests == <<bConn, bTicket, bLate, bTracked, bOpen, bWall, bClock, bSeen, bStarted, bLive>>
startup == <<iEnv, iStage, iBroker, iSecret, iProbe, iCached, iRan>>
sandbox == <<cUnit, cStep, cStub, cFds, cWatch, cSig, cCli, cJobs, cReply,
             cLock, cBox, cNet, cFaults, cPast>>
all == <<focus, outbox, archive, session, requests, startup, sandbox>>

O == INSTANCE Outbox WITH
        client <- oClient, stream <- oStream, count <- oCount, task <- oTask, turn <- oTurn,
        phase <- oPhase, shown <- oShown, reader <- oReader, box <- oBox, active <- oActive,
        log <- oLog, cursor <- oCursor
A == INSTANCE Archive WITH
        held <- aHeld, total <- aTotal, perUser <- aPerUser, walk <- aWalk, body <- aBody,
        worker <- aWorker, queue <- aQueue, left <- aLeft, cancel <- aCancel
S == INSTANCE Supervisor WITH
        sup <- sSup, cli <- sCli, armed <- sArmed, jobs <- sJobs, link <- sLink, term <- sTerm,
        killAt <- sKillAt, broker <- sBroker
B == INSTANCE BrokerTickets WITH
        conn <- bConn, ticket <- bTicket, late <- bLate, tracked <- bTracked, open <- bOpen,
        wall <- bWall, clock <- bClock, seen <- bSeen, started <- bStarted, live <- bLive
I == INSTANCE IsolationStartup WITH
        env <- iEnv, stage <- iStage, broker <- iBroker, secret <- iSecret, probe <- iProbe,
        cached <- iCached, ran <- iRan
C == INSTANCE SandboxSpawner WITH
        unit <- cUnit, step <- cStep, stub <- cStub, fds <- cFds, watch <- cWatch, sig <- cSig, cli <- cCli,
        jobs <- cJobs, reply <- cReply, lock <- cLock, box <- cBox, net <- cNet, faults <- cFaults, past <- cPast

\* The run's values of the constants that are functions: three downloads, two
\* of one user, and the tickets of a spawn, a wait and a transcript.
MCUserOf ==
    LET v == CHOOSE r \in Requests : TRUE
    IN  [r \in Requests |-> IF r = v THEN "v" ELSE "u"]
MCOpOf == [s |-> "spawn", w |-> "wait", t |-> "transcript"]
MCExpOf == [s |-> 1, w |-> 2, t |-> 2]

-----------------------------------------------------------------------------
Init ==
    /\ focus \in {"outbox", "archive", "session", "requests", "startup", "sandbox"}
    /\ O!Init /\ A!Init /\ S!Init /\ B!Init
    /\ I!Init /\ (focus # "startup" => iEnv = CHOOSE e \in I!Envs : TRUE)
    /\ C!Init /\ (focus # "sandbox" => cUnit = "user")

Next ==
    \/ focus = "outbox" /\ O!Next /\ UNCHANGED <<focus, archive, session, requests, startup, sandbox>>
    \/ focus = "archive" /\ A!Next /\ UNCHANGED <<focus, outbox, session, requests, startup, sandbox>>
    \/ focus = "session" /\ S!Next /\ UNCHANGED <<focus, outbox, archive, requests, startup, sandbox>>
    \/ focus = "requests" /\ B!Next /\ UNCHANGED <<focus, outbox, archive, session, startup, sandbox>>
    \/ focus = "startup" /\ I!Next /\ UNCHANGED <<focus, outbox, archive, session, requests, sandbox>>
    \/ focus = "sandbox" /\ C!Next
       /\ UNCHANGED <<focus, outbox, archive, session, requests, startup>>

\* The fairness each module states, of the component that runs.
Fairness ==
    /\ WF_outbox(focus = "outbox" /\ O!Ready) /\ WF_outbox(focus = "outbox" /\ O!Watch)
    /\ \A r \in Requests : /\ WF_archive(focus = "archive" /\ A!WalkEnds(r))
                           /\ WF_archive(focus = "archive" /\ A!WorkerEnds(r))
                           /\ WF_archive(focus = "archive" /\ A!Stops(r))
    /\ WF_session(focus = "session" /\ (S!Fork \/ S!Refuse))
    /\ WF_session(focus = "session" /\ S!Teardown)
    /\ WF_session(focus = "session" /\ S!GracePasses)
    /\ WF_session(focus = "session" /\ S!Reap)
    /\ WF_session(focus = "session" /\ S!Sweep)
    /\ WF_session(focus = "session" /\ S!CliStep)
    /\ WF_session(focus = "session" /\ \E w \in BOOLEAN : S!KillOrphans(w))
    /\ WF_requests(focus = "requests" /\ B!Expire)
    /\ \A c \in Conns : /\ WF_requests(focus = "requests" /\ B!Deadline(c))
                        /\ WF_requests(focus = "requests" /\ B!GiveUp(c))
                        /\ WF_requests(focus = "requests" /\ \E f \in BOOLEAN : B!Unpark(c, f))
    /\ WF_startup(focus = "startup" /\ I!StartStep)
    /\ \A s \in Spawns : /\ WF_sandbox(focus = "sandbox" /\ C!Handler(s))
                       /\ WF_sandbox(focus = "sandbox" /\ C!Watcher(s))
                       /\ WF_sandbox(focus = "sandbox" /\ C!Wait(s))
                       /\ WF_sandbox(focus = "sandbox" /\ C!CliStarts(s))

Spec == Init /\ [][Next]_all /\ Fairness

-----------------------------------------------------------------------------
\* What a session's outbox tells a client: the stream is read once and in
\* order, a turn's result by the turn that waits for it, and a task listed as
\* running runs or has its end still unread (session_outbox.py).
OutboxIsFaithful == O!StreamIsWhole /\ O!TaskRowsAreTrue

\* What holds processes and descriptors for a caller: no CLI or job outlives
\* the session that is reported as ended or whose supervisor died, a ticket
\* starts one process though the clock is set back, every descriptor that was
\* passed is closed, and no cleanup runs beside a session (isolation_broker.py);
\* an archive's slot is held as long as its walk, its producer or its queue is
\* (terminal_files.py); a spawn in a user's container leaves no CLI, old job,
\* network or descriptor behind and reports how its CLI ended
\* (sandbox_spawner.py).
ProcessesAreHeld ==
    /\ S!SessionIsHeld /\ B!TicketIsSpentOnce /\ B!NothingLeaks /\ A!SlotsBound
    /\ C!SpawnsAreSettled

\* No CLI runs outside the boundary that was asked for, whatever becomes of
\* the broker, and the ticket secret is in no environment after the start
\* (landlock.py, entrypoint.py).
FailsClosed == I!TypeOK /\ I!FailsClosed /\ I!SecretLeavesEnv

\* The rows of a CLI that is gone do not read as running for ever while the
\* session is polled, and an archive's slot comes back once its client is gone
\* (session_outbox.py, terminal_files.py).
WatchersAreFreed == O!RowsGoAway /\ A!SlotsComeBack

\* A session whose launcher is gone ends, every request of the broker is
\* answered, the start of the container ends, and the spawn of a stub that is
\* gone ends unless its stop came before its CLI (isolation_broker.py,
\* entrypoint.py, sandbox_spawner.py).
SessionsAndRequestsEnd ==
    S!SessionGoesAway /\ B!RequestsEnd /\ (focus = "startup" => I!StartEnds) /\ C!SpawnEnds
=============================================================================

------------------------------ MODULE CodexTurn ------------------------------
(***************************************************************************)
(* The turns of one Codex session over its app-server process:             *)
(* AppServerCodexClient of backends/appserver/client.py with the mapping   *)
(* of notifications of events.py and subagents.py.  The transport below is *)
(* AppServer, taken here by what it promises: a request that was accepted  *)
(* is answered to its caller, or, when the caller left, reported once to   *)
(* the subscription as an orphaned response or, when the generation ends   *)
(* first, as ambiguous ahead of the terminal event.                        *)
(*                                                                         *)
(* The route that consumes a turn disconnects the client after any end but *)
(* a success or an interrupt, and after a consumer that leaves.            *)
(***************************************************************************)
EXTENDS Naturals, Sequences, FiniteSets

CONSTANTS
    MaxTurn,        \* turns of the session
    MaxAsk,         \* interactions the server may open
    HardLimit       \* Subscription.hard_limit

Turns == 1..MaxTurn
Asks  == 1..MaxAsk

VARIABLES
    up,         \* the generation is live
    turn,       \* the gateway's turn, 0 before the first
    stage,      \* what the handle is doing
    req,        \* turn/start of this turn
    native,     \* per turn: what became of it in the server
    stopped,    \* turns an interrupt was sent for
    sub,        \* the subscription's queue
    holder,     \* who reads it: "handle", "owner" (detached task) or "none"
    ask,        \* the interactions, as the transport has them
    asked,
    pend,       \* pending_interaction: the parked occurrence or 0
    cancelling, \* session.active_response_state
    child,      \* a subagent is open: in the server, the mapper, the UI
    durable,    \* session.codex_thread_id is set
    told        \* per turn: how it ended for the route

link  == <<up, req, native, stopped>>
inter == <<ask, asked, pend>>
view  == <<sub, holder>>
vars  == <<turn, stage, link, view, inter, cancelling, child, durable, told>>

NoChild == [server |-> FALSE, mapper |-> FALSE, row |-> FALSE]

Init ==
    /\ up = TRUE /\ turn = 0 /\ stage = "idle" /\ req = "none"
    /\ native = [t \in Turns |-> "none"] /\ stopped = {}
    /\ sub = <<>> /\ holder = "none"
    /\ ask = [o \in Asks |-> "none"] /\ asked = 0 /\ pend = 0
    /\ cancelling = FALSE /\ child = NoChild /\ durable = FALSE
    /\ told = [t \in Turns |-> "none"]

\* Subscription._offer: one item too many disconnects the subscriber.
Disconnected(q) == q # <<>> /\ q[Len(q)] = <<"overflow">>
Offer(q, item) ==
    IF Disconnected(q) THEN q
    ELSE Append(q, IF Len(q) >= HardLimit THEN <<"overflow">> ELSE item)
Fan(item) == sub' = IF holder = "none" THEN sub ELSE Offer(sub, item)

Orphaned == req = "sent" /\ stage # "starting"

\* What the end of the generation puts on the subscription.
LastWords == LET q == IF Orphaned THEN Offer(sub, <<"ambiguous">>) ELSE sub
             IN  IF holder = "none" THEN sub ELSE Offer(q, <<"terminal">>)

Lost(n) == [t \in Turns |-> IF n[t] = "running" THEN "lost" ELSE n[t]]
Withdrawn == [o \in Asks |-> IF ask[o] = "open" THEN "withdrawn" ELSE ask[o]]

\* transport.interrupt: best effort, the server may not be reached.
Interrupt(t) ==
    /\ stopped' = stopped \cup {t}
    /\ native' \in {native, [native EXCEPT ![t] = IF up /\ @ = "running" THEN "stopped" ELSE @]}

Tell(how) == told' = [told EXCEPT ![turn] = how]

\* _end_turn, and what the route does then: the client goes on only after a
\* success or an interrupt.
EndTurn(how) ==
    /\ sub' = <<>> /\ holder' = "none" /\ pend' = 0
    /\ Tell(how)
    /\ stage' = IF how \in {"ok", "interrupted"} THEN "idle" ELSE "broken"

\* drain_open_subagents ahead of the terminal chunk.
Drained == child' = [child EXCEPT !.mapper = FALSE, !.row = child.row /\ ~child.mapper]
Ending == IF cancelling THEN "interrupted" ELSE "error"

-----------------------------------------------------------------------------
(* run_completion_with_client: turn/start and its outcomes.                *)

StartTurn ==
    /\ stage = "idle" /\ turn < MaxTurn
    /\ turn' = turn + 1 /\ stage' = "starting" /\ req' = "none"
    /\ sub' = <<>> /\ holder' = "handle" /\ cancelling' = FALSE
    /\ child' = NoChild
    /\ UNCHANGED <<up, native, stopped, inter, durable, told>>

Commit ==
    /\ stage = "starting" /\ req = "none" /\ up
    /\ req' = "sent"
    /\ UNCHANGED <<turn, stage, up, native, stopped, view, inter, cancelling, child,
                   durable, told>>

\* Known not sent, refused by the server, lost with an unknown outcome, or a
\* cancellation before the bytes were taken.
StartFails ==
    /\ stage = "starting"
    /\ req \in {"none", "refused"} \/ (req = "sent" /\ ~up)
    /\ EndTurn("error")
    /\ UNCHANGED <<turn, link, ask, asked, cancelling, child, durable>>

StartAnswered ==
    /\ stage = "starting" /\ req = "answered"
    /\ stage' = "driving"
    /\ UNCHANGED <<turn, link, view, inter, cancelling, child, durable, told>>

\* The response deadline: the handle keeps the subscription and waits for the
\* orphan.
StartDeadline ==
    /\ stage = "starting" /\ req = "sent" /\ up
    /\ stage' = "reconciling"
    /\ UNCHANGED <<turn, link, view, inter, cancelling, child, durable, told>>

\* Mutant: the subscription is given up with the cancelled generator.
StartCancelledEnds ==
    /\ stage = "starting" /\ req \in {"sent", "answered"}
    /\ holder' = "none" /\ sub' = <<>>
    /\ Tell("left") /\ stage' = "idle"
    /\ UNCHANGED <<turn, link, inter, cancelling, child, durable>>

\* CommittedRequestCancelled, _detach_orphan_owner: a task of the handle's own
\* takes the subscription, with the response in it if that came first.
StartCancelled ==
    /\ stage = "starting" /\ req \in {"sent", "answered"}
    /\ holder' = "owner"
    /\ sub' = IF req = "answered" THEN Offer(sub, <<"orphan", TRUE>>) ELSE sub
    /\ Tell("left") /\ stage' = "broken"
    /\ UNCHANGED <<turn, link, inter, cancelling, child, durable>>

\* _await_turn_start_outcome: what is not the outcome is dropped.
Outcome(item) == item[1] \in {"orphan", "ambiguous", "terminal", "overflow"}

DropItem ==
    /\ sub # <<>> /\ ~Outcome(Head(sub))
    /\ stage = "reconciling" \/ holder = "owner"
    /\ sub' = Tail(sub)
    /\ UNCHANGED <<turn, stage, link, holder, inter, cancelling, child, durable, told>>

\* _reconcile_orphaned_turn_start, with the caller still there.
Reconcile ==
    /\ stage = "reconciling" /\ sub # <<>> /\ Outcome(Head(sub))
    /\ IF Head(sub) = <<"orphan", TRUE>>
       THEN IF cancelling
            THEN Interrupt(turn) /\ EndTurn("interrupted")
            ELSE /\ stage' = "driving" /\ sub' = Tail(sub)
                 /\ UNCHANGED <<holder, pend, told, native, stopped>>
       ELSE EndTurn("error") /\ UNCHANGED <<native, stopped>>
    /\ UNCHANGED <<turn, up, req, ask, asked, cancelling, child, durable>>

\* The last resort: the generation is ended, and its outcome still awaited.
HealthBound ==
    /\ stage = "reconciling" /\ up /\ sub = <<>>
    /\ up' = FALSE /\ native' = Lost(native) /\ ask' = Withdrawn
    /\ sub' = LastWords
    /\ UNCHANGED <<turn, stage, req, stopped, holder, asked, pend, cancelling, child,
                   durable, told>>

\* _own_orphaned_turn_start: a recovered turn is interrupted, nobody wants it.
OwnerEnds ==
    /\ holder = "owner" /\ sub # <<>> /\ Outcome(Head(sub))
    /\ IF Head(sub) = <<"orphan", TRUE>> THEN Interrupt(turn) ELSE UNCHANGED <<native, stopped>>
    /\ holder' = "none" /\ sub' = <<>>
    /\ UNCHANGED <<turn, stage, up, req, inter, cancelling, child, durable, told>>

-----------------------------------------------------------------------------
(* _drive_turn.                                                            *)

Driving(kind) == stage = "driving" /\ sub # <<>> /\ Head(sub)[1] = kind

\* Mutant: any completion that is not a cancelled one is a success.
DriveDoneAny ==
    /\ Driving("done")
    /\ LET t == Head(sub)[2] IN
       \/ t # turn /\ sub' = Tail(sub) /\ UNCHANGED <<holder, pend, told, stage, child, durable>>
       \/ /\ t = turn /\ Drained
          /\ EndTurn(IF cancelling THEN "interrupted" ELSE "ok")
          /\ durable' = (durable \/ ~cancelling)
    /\ UNCHANGED <<turn, link, ask, asked, cancelling>>

\* turn/completed.  Of another turn it is ignored; while cancelling it is an
\* interrupt; only a clean end makes the thread durable.
DriveDone ==
    /\ Driving("done")
    /\ LET t == Head(sub)[2] IN
       \/ t # turn /\ sub' = Tail(sub) /\ UNCHANGED <<holder, pend, told, stage, child, durable>>
       \/ /\ t = turn /\ Drained
          /\ EndTurn(CASE cancelling -> "interrupted"
                       [] ~cancelling /\ Head(sub)[3] -> "ok"
                       [] OTHER -> "error")
          /\ durable' = (durable \/ (~cancelling /\ Head(sub)[3]))
    /\ UNCHANGED <<turn, link, ask, asked, cancelling>>

\* thread/status/changed to idle: the end of a turn that never said it was
\* completed.  The notice names no turn.
DriveIdle ==
    /\ Driving("idle")
    /\ Drained /\ EndTurn("ok") /\ durable' = TRUE
    /\ UNCHANGED <<turn, link, ask, asked, cancelling>>

\* Subagent rows: spawned and terminal events, before the turn id is looked at.
DriveChild ==
    /\ Driving("child")
    /\ LET open == Head(sub)[2]
       IN  child' = [child EXCEPT !.mapper = open, !.row = open]
    /\ sub' = Tail(sub)
    /\ UNCHANGED <<turn, stage, link, holder, inter, cancelling, durable, told>>

\* _auto_decide_interaction and _fail_interaction_closed: answered at once.
DecideAlone ==
    /\ Driving("ask")
    /\ LET o == Head(sub)[2]
       IN  ask' = [ask EXCEPT ![o] = IF @ = "open" THEN "answered" ELSE @]
    /\ sub' = Tail(sub)
    /\ UNCHANGED <<turn, stage, link, holder, asked, pend, cancelling, child, durable, told>>

\* _park_interaction: the card carries an id of this occurrence.
Park ==
    /\ Driving("ask")
    /\ pend' = Head(sub)[2] /\ stage' = "parked"
    /\ sub' = Tail(sub)
    /\ UNCHANGED <<turn, link, holder, ask, asked, cancelling, child, durable, told>>

DriveOrphan ==
    /\ Driving("orphan")
    /\ sub' = Tail(sub)
    /\ UNCHANGED <<turn, stage, link, holder, inter, cancelling, child, durable, told>>

\* An ambiguous request, the end of the generation, an overflow.
DriveLost ==
    /\ \E kind \in {"ambiguous", "terminal", "overflow"} :
          /\ Driving(kind)
          /\ EndTurn(IF kind = "terminal" THEN Ending ELSE "error")
    /\ Drained
    /\ UNCHANGED <<turn, link, ask, asked, cancelling, durable>>

\* Nothing comes for request_timeout_s.
Stall ==
    /\ stage = "driving" /\ sub = <<>>
    /\ Drained /\ EndTurn(Ending)
    /\ UNCHANGED <<turn, link, ask, asked, cancelling, durable>>

\* The consumer closes the generator; on a park that is how the stream ends.
Leave ==
    /\ stage \in {"driving", "reconciling"}
    /\ EndTurn("left")
    /\ UNCHANGED <<turn, link, ask, asked, cancelling, child, durable>>

\* resume_approval_with_client with the id of occurrence o.
Resume(o) ==
    /\ stage = "parked" /\ o <= asked
    /\ IF o = pend /\ ask[o] = "open" /\ up
       THEN /\ ask' = [ask EXCEPT ![o] = "answered"]
            /\ stage' = "driving" /\ pend' = 0 /\ UNCHANGED <<view, told>>
       ELSE EndTurn("error") /\ UNCHANGED ask
    /\ UNCHANGED <<turn, link, asked, cancelling, child, durable>>

\* POST cancel: the flag, then interrupt_client for a turn whose id is known.
Cancel ==
    /\ stage \in {"starting", "reconciling", "driving"} /\ ~cancelling
    /\ cancelling' = TRUE
    /\ IF stage = "driving" THEN Interrupt(turn) ELSE UNCHANGED <<native, stopped>>
    /\ UNCHANGED <<turn, stage, up, req, view, inter, child, durable, told>>

\* The route's teardown after a failure, or a session that expires while
\* parked: the transport closes, and the owner is waited for.
Disconnect ==
    /\ stage \in {"broken", "parked", "idle"}
    /\ up' = FALSE /\ native' = Lost(native) /\ ask' = Withdrawn
    /\ sub' = LastWords /\ stage' = "closed"
    /\ UNCHANGED <<turn, req, stopped, holder, asked, pend, cancelling, child, durable, told>>

-----------------------------------------------------------------------------
(* The app-server behind the transport: external.                          *)

Accept ==
    /\ up /\ req = "sent"
    /\ \E ok \in BOOLEAN :
          /\ native' = [native EXCEPT ![turn] = IF ok THEN "running" ELSE "refused"]
          /\ req' = IF ok THEN "answered" ELSE "refused"
          /\ IF stage = "starting" THEN UNCHANGED sub ELSE Fan(<<"orphan", ok>>)
    /\ UNCHANGED <<turn, stage, up, stopped, holder, inter, cancelling, child, durable, told>>

\* The turn ends by itself and says so, or the thread is only said to be idle.
Complete(t) ==
    /\ up /\ native[t] = "running"
    /\ \E ok \in BOOLEAN :
          /\ native' = [native EXCEPT ![t] = IF ok THEN "ok" ELSE "failed"]
          /\ \/ Fan(<<"done", t, ok>>)
             \/ ok /\ (\A s \in Turns \ {t} : native[s] # "running") /\ Fan(<<"idle">>)
    /\ UNCHANGED <<turn, stage, up, req, stopped, holder, inter, cancelling, child, durable, told>>

\* An interrupted turn says so.
Settle(t) ==
    /\ up /\ native[t] = "stopped"
    /\ native' = [native EXCEPT ![t] = "over"]
    /\ Fan(<<"done", t, FALSE>>)
    /\ UNCHANGED <<turn, stage, up, req, stopped, holder, inter, cancelling, child, durable,
                   told>>

Spawn ==
    /\ up /\ turn > 0 /\ native[turn] = "running"
    /\ child' = [child EXCEPT !.server = ~@]
    /\ Fan(<<"child", ~child.server>>)
    /\ UNCHANGED <<turn, stage, link, holder, inter, cancelling, durable, told>>

AskUser ==
    /\ up /\ turn > 0 /\ native[turn] = "running" /\ asked < MaxAsk
    /\ asked' = asked + 1 /\ ask' = [ask EXCEPT ![asked + 1] = "open"]
    /\ Fan(<<"ask", asked + 1>>)
    /\ UNCHANGED <<turn, stage, link, holder, pend, cancelling, child, durable, told>>

Withdraw(o) ==
    /\ up /\ ask[o] = "open" /\ ask' = [ask EXCEPT ![o] = "withdrawn"]
    /\ UNCHANGED <<turn, stage, link, view, asked, pend, cancelling, child, durable, told>>

Die ==
    /\ up /\ up' = FALSE /\ native' = Lost(native) /\ ask' = Withdrawn
    /\ sub' = LastWords
    /\ UNCHANGED <<turn, stage, req, stopped, holder, asked, pend, cancelling, child, durable,
                   told>>

-----------------------------------------------------------------------------
Handle == \/ StartTurn \/ Commit \/ StartFails \/ StartAnswered \/ StartDeadline
          \/ StartCancelled \/ DropItem \/ Reconcile \/ HealthBound \/ OwnerEnds
          \/ DriveDone \/ DriveIdle \/ DriveChild \/ DecideAlone \/ Park \/ DriveOrphan
          \/ DriveLost \/ Stall

User == Leave \/ Cancel \/ Disconnect \/ \E o \in Asks : Resume(o)

Server == \/ Accept \/ Spawn \/ AskUser \/ Die
          \/ \E t \in Turns : Complete(t) \/ Settle(t)
          \/ \E o \in Asks : Withdraw(o)

Next == Handle \/ User \/ Server

Spec == Init /\ [][Next]_vars

-----------------------------------------------------------------------------
(* Properties.                                                             *)

\* Accepted work is never abandoned: a turn/start the server has, or a turn
\* it runs, in a live generation has the handle or the detached owner behind
\* it, unless the client is about to be disconnected, or a cancel came before:
\* the session goes on then with a turn that may still run
\* (_reconcile_orphaned_turn_start, _detach_orphan_owner, _end_turn).
TurnIsOwned == \A t \in Turns :
    up /\ (native[t] = "running" \/ (t = turn /\ req = "sent")) =>
        \/ holder # "none" /\ t = turn
        \/ stage = "broken"
        \/ \E s \in 1..t : told[s] = "interrupted"

\* A turn is a success for the route, and its thread durable, only when the
\* server completed that turn (_drive_turn, TurnMapper.finish).  The session
\* goes on after an interrupt, so an interrupted turn may still run when the
\* next one starts, and its idle notice names no turn.
SuccessIsReal ==
    /\ \A t \in Turns : told[t] = "ok" =>
            native[t] = "ok" \/ \E s \in 1..(t - 1) : told[s] = "interrupted"
    /\ durable => \E t \in Turns : told[t] = "ok"

=============================================================================

------------------------------ MODULE Dispatch ------------------------------
(***************************************************************************)
(* Forwarding a request to the instance that owns its session: the dispatch*)
(* ids and the admission ledger of src/handoff/ledger.py, the sender's     *)
(* _forward, _settle_or_report and retry loop and the owner's              *)
(* _serve_forwarded of src/handoff/middleware.py.                          *)
(*                                                                         *)
(* One instance sends, the other (the target) serves.  Which of the two a  *)
(* request should go to is the routing's business (_attempt) and is left   *)
(* open here: every attempt may be local or forwarded.  The request bytes  *)
(* may arrive long after the sender's connection broke, and may arrive     *)
(* again for a while; a reply or a settle answer may be lost; the target   *)
(* may crash and come back as another boot with an empty ledger.           *)
(*                                                                         *)
(* Time is in ticks of the host's clock, which both instances read.        *)
(***************************************************************************)
EXTENDS Integers

CONSTANTS
    Requests,      \* client requests that reach the sender
    MaxDispatch,   \* bound: dispatch ids made in one behaviour
    MaxBoot,       \* bound: boots of the target
    MaxTime,       \* bound: ticks of the clock
    AcceptWindow,  \* ACCEPT_WINDOW
    Retention,     \* RETENTION
    Deadline,      \* HANDOFF_DEADLINE
    ReplayFor,     \* bound: age up to which a copy of a dispatch may arrive again
    None

\* RETENTION = max(..., 3 * ACCEPT_WINDOW + 1).
ASSUME DispatchAssumption ==
    /\ AcceptWindow \in Nat /\ Retention \in Nat /\ Deadline \in Nat /\ ReplayFor \in Nat
    /\ Retention >= 3 * AcceptWindow + 1
    /\ MaxDispatch \in Nat /\ MaxBoot \in Nat /\ MaxTime \in Nat
    /\ None \notin Int

Dispatches == 1..MaxDispatch

VARIABLES
    now,       \* time.time()
    boot,      \* BOOT_ID of the target
    made,      \* dispatch ids made so far; of each one:
    of,        \*   the request it carries,
    tboot,     \*   the boot it names,
    issued,    \*   the time it names
    arrived,   \* dispatches whose bytes the target has received once
    entry,     \* Ledger._entries: "absent", "admitted", "refused" or "finished"
    written,   \*   and written_at
    serving,   \* admitted dispatches in the app, before any of their work
    working,   \* dispatches whose work runs
    reply,     \* the reply on the dispatch's connection: "none", "reroute" or "result"
    settle,    \* "none", "asked", or the verdict the target gave
    ran,       \* how often the work of a request was done...
    by,        \* ...and by which dispatch last (0: by the sender itself)
    start,     \* when the request entered the sender's loop
    pc,        \* where the request is in the sender
    cur,       \* its current dispatch
    answer     \* what the client was told

ledgerVars == <<entry, written>>
targetVars == <<boot, arrived, ledgerVars, serving, working, ran, by>>
idVars == <<made, of, tboot, issued>>
senderVars == <<start, pc, cur, answer>>
vars == <<now, targetVars, idVars, reply, settle, senderVars>>

Made == 1..made

Init ==
    /\ now = 0 /\ boot = 1 /\ made = 0
    /\ of = [d \in Dispatches |-> None]
    /\ tboot = [d \in Dispatches |-> 0]
    /\ issued = [d \in Dispatches |-> 0]
    /\ arrived = {} /\ serving = {} /\ working = {}
    /\ entry = [d \in Dispatches |-> "absent"]
    /\ written = [d \in Dispatches |-> 0]
    /\ reply = [d \in Dispatches |-> "none"]
    /\ settle = [d \in Dispatches |-> "none"]
    /\ ran = [q \in Requests |-> 0]
    /\ by = [q \in Requests |-> None]
    /\ start = [q \in Requests |-> 0]
    /\ pc = [q \in Requests |-> "idle"]
    /\ cur = [q \in Requests |-> None]
    /\ answer = [q \in Requests |-> "none"]

-----------------------------------------------------------------------------
(* The ledger. *)

\* _gc: what is left of d's entry.
Gc(d) ==
    IF entry[d] \in {"refused", "finished"} /\ now - written[d] > Retention
    THEN "absent" ELSE entry[d]

\* Mutant: any age will do.
InWindowAlways(d) == tboot[d] = boot

\* What admit asks of a dispatch the ledger does not know.  (Clocks agree, so
\* no id is from the future.)
InWindow(d) == tboot[d] = boot /\ now - issued[d] <= AcceptWindow

\* settle: the verdict and the entry it leaves behind.
Verdict(d) ==
    IF Gc(d) # "absent"
    THEN [says |-> IF Gc(d) = "refused" THEN "refused" ELSE "received", leaves |-> Gc(d)]
    ELSE IF tboot[d] = boot /\ now - issued[d] < Retention
    THEN [says |-> "refused", leaves |-> "refused"]
    ELSE [says |-> "unknown", leaves |-> "absent"]

\* The ledger after _gc, with d's entry set to e now.
Write(d, e) ==
    /\ entry' = [x \in Dispatches |-> IF x = d THEN e ELSE Gc(x)]
    /\ written' = [x \in Dispatches |-> IF x = d THEN now ELSE written[x]]

-----------------------------------------------------------------------------
(* The target. *)

\* _serve_forwarded: the bytes of d arrive, for the first time or again; only
\* the first arrival has the sender at the other end of its connection.
Receive(d) ==
    /\ d \in Made
    /\ d \in arrived => now - issued[d] <= ReplayFor
    /\ arrived' = arrived \cup {d}
    /\ LET refuse == reply' = IF d \in arrived THEN reply ELSE [reply EXCEPT ![d] = "reroute"]
       IN  \/ /\ Gc(d) = "absent" /\ InWindow(d)
              /\ Write(d, "admitted")
              /\ serving' = serving \cup {d}
              /\ UNCHANGED reply
           \/ /\ Gc(d) = "absent" /\ ~InWindow(d)
              /\ Write(d, "refused")
              /\ refuse
              /\ UNCHANGED serving
           \/ /\ Gc(d) # "absent"
              /\ entry' = [x \in Dispatches |-> Gc(x)]
              /\ refuse
              /\ UNCHANGED <<written, serving>>
    /\ UNCHANGED <<now, boot, working, ran, by, idVars, settle, senderVars>>

\* Ledger.finish (completed and failed read alike).
FinishEntry(d) ==
    /\ entry' = [entry EXCEPT ![d] = IF @ = "admitted" THEN "finished" ELSE @]
    /\ written' = [written EXCEPT ![d] = IF entry[d] = "admitted" THEN now ELSE @]

\* The app refuses before any work (SessionOwnedElsewhere, 421).
AppReroutes(d) ==
    /\ d \in serving
    /\ serving' = serving \ {d}
    /\ FinishEntry(d)
    /\ reply' = [reply EXCEPT ![d] = "reroute"]
    /\ UNCHANGED <<now, boot, arrived, working, ran, by, idVars, settle, senderVars>>

\* The app does the request's work; a streamed answer starts, or not yet.
Work(d) ==
    /\ d \in serving
    /\ serving' = serving \ {d}
    /\ working' = working \cup {d}
    /\ ran' = [ran EXCEPT ![of[d]] = @ + 1]
    /\ by' = [by EXCEPT ![of[d]] = d]
    /\ \E r \in {"none", "result"} : reply' = [reply EXCEPT ![d] = r]
    /\ UNCHANGED <<now, boot, arrived, ledgerVars, idVars, settle, senderVars>>
AppDone(d) ==
    /\ d \in working
    /\ working' = working \ {d}
    /\ FinishEntry(d)
    /\ reply' = [reply EXCEPT ![d] = "result"]
    /\ UNCHANGED <<now, boot, arrived, serving, ran, by, idVars, settle, senderVars>>

\* The settle request arrives.  One for another boot is not answered (404).
SettleArrives(d) ==
    /\ settle[d] = "asked"
    /\ \/ /\ tboot[d] = boot
          /\ settle' = [settle EXCEPT ![d] = Verdict(d).says]
          /\ IF Verdict(d).leaves = Gc(d)
             THEN entry' = [x \in Dispatches |-> Gc(x)] /\ UNCHANGED written
             ELSE Write(d, Verdict(d).leaves)
       \/ /\ tboot[d] # boot
          /\ settle' = [settle EXCEPT ![d] = "unknown"]
          /\ UNCHANGED ledgerVars
    /\ UNCHANGED <<now, boot, arrived, serving, working, ran, by, idVars, reply, senderVars>>

\* The target dies, with what runs in it, and starts again.
Restart ==
    /\ boot < MaxBoot
    /\ boot' = boot + 1
    /\ serving' = {} /\ working' = {}
    /\ entry' = [d \in Dispatches |-> "absent"]
    /\ UNCHANGED <<now, written, arrived, ran, by, idVars, reply, settle, senderVars>>

-----------------------------------------------------------------------------
(* The sender. *)

Goto(q, label) == pc' = [pc EXCEPT ![q] = label]
Tell(q, a) == Goto(q, "answered") /\ answer' = [answer EXCEPT ![q] = a]
SenderOnly == UNCHANGED <<now, targetVars, idVars, reply>>

\* _route starts its loop (the clock's bound leaves room for the deadline).
Arrive(q) ==
    /\ pc[q] = "idle" /\ now + Deadline <= MaxTime
    /\ start' = [start EXCEPT ![q] = now]
    /\ Goto(q, "route")
    /\ SenderOnly /\ UNCHANGED <<settle, cur, answer>>

\* _local: the request runs here, or is rerouted before any work.
Local(q) ==
    /\ pc[q] = "route"
    /\ ran' = [ran EXCEPT ![q] = @ + 1]
    /\ by' = [by EXCEPT ![q] = 0]
    /\ Tell(q, "result")
    /\ UNCHANGED <<now, boot, arrived, ledgerVars, serving, working, idVars, reply, settle, start, cur>>
LocalReroutes(q) ==
    /\ pc[q] = "route"
    /\ Goto(q, "wait")
    /\ SenderOnly /\ UNCHANGED <<settle, start, cur, answer>>

\* _forward: the record of the target read just before may still name the boot
\* before the current one.
Forward(q) ==
    /\ pc[q] = "route" /\ made < MaxDispatch
    /\ made' = made + 1
    /\ of' = [of EXCEPT ![made + 1] = q]
    /\ \E b \in {boot - 1, boot} : tboot' = [tboot EXCEPT ![made + 1] = b]
    /\ issued' = [issued EXCEPT ![made + 1] = now]
    /\ cur' = [cur EXCEPT ![q] = made + 1]
    /\ Goto(q, "sent")
    /\ UNCHANGED <<now, targetVars, reply, settle, start, answer>>

\* ConnectError, ConnectTimeout, PoolTimeout: no byte left, and no later
\* attempt uses this id.  The target gone has the same effect ("unavailable").
NoConnection(q) ==
    /\ pc[q] = "route"
    /\ Goto(q, "wait")
    /\ SenderOnly /\ UNCHANGED <<settle, start, cur, answer>>

GetReply(q) ==
    /\ pc[q] = "sent"
    /\ \/ /\ reply[cur[q]] = "reroute"
          /\ Goto(q, "wait")
          /\ UNCHANGED answer
       \/ /\ reply[cur[q]] = "result"
          /\ Tell(q, "result")
    /\ SenderOnly /\ UNCHANGED <<settle, start, cur>>

\* Mutant: the request is sent again without asking.
BreakRetries(q) ==
    /\ pc[q] = "sent"
    /\ Goto(q, "wait")
    /\ SenderOnly /\ UNCHANGED <<settle, start, cur, answer>>

\* Any other HTTPError: ask the target.
Break(q) ==
    /\ pc[q] = "sent"
    /\ Goto(q, "settling")
    /\ settle' = [settle EXCEPT ![cur[q]] = "asked"]
    /\ SenderOnly /\ UNCHANGED <<start, cur, answer>>

\* The client disconnects first.
ClientLeaves(q) ==
    /\ pc[q] = "sent"
    /\ Tell(q, "gone")
    /\ SenderOnly /\ UNCHANGED <<settle, start, cur>>

\* Mutant: only "received" is definite.
GetVerdictHopeful(q) ==
    /\ pc[q] = "settling"
    /\ \/ /\ settle[cur[q]] \in {"refused", "unknown"}
          /\ Goto(q, "wait")
          /\ UNCHANGED answer
       \/ /\ settle[cur[q]] # "refused"
          /\ Tell(q, "unknown")
    /\ SenderOnly /\ UNCHANGED <<settle, start, cur>>

\* _settle_or_report: a refusal is retried, everything else (no answer in time
\* included) is reported.
GetVerdict(q) ==
    /\ pc[q] = "settling"
    /\ \/ /\ settle[cur[q]] = "refused"
          /\ Goto(q, "wait")
          /\ UNCHANGED answer
       \/ Tell(q, "unknown")
    /\ SenderOnly /\ UNCHANGED <<settle, start, cur>>

\* Mutant: the deadline is never looked at.
BackoffForever(q) ==
    /\ pc[q] = "wait"
    /\ Goto(q, "route")
    /\ SenderOnly /\ UNCHANGED <<settle, start, cur, answer>>

\* The end of the loop's body: 503 once the backoff would pass the deadline,
\* else another round.
Backoff(q) ==
    /\ pc[q] = "wait"
    /\ \/ /\ now < start[q] + Deadline
          /\ Goto(q, "route")
          /\ UNCHANGED answer
       \/ /\ now >= start[q] + Deadline
          /\ Tell(q, "retry")
    /\ SenderOnly /\ UNCHANGED <<settle, start, cur>>

Tick ==
    /\ now < MaxTime
    /\ now' = now + 1
    /\ UNCHANGED <<targetVars, idVars, reply, settle, senderVars>>

-----------------------------------------------------------------------------
TargetStep(d) ==
    Receive(d) \/ AppReroutes(d) \/ Work(d) \/ AppDone(d) \/ SettleArrives(d)
SenderStep(q) ==
    \/ Arrive(q) \/ Local(q) \/ LocalReroutes(q) \/ Forward(q) \/ NoConnection(q)
    \/ GetReply(q) \/ Break(q) \/ ClientLeaves(q) \/ GetVerdict(q) \/ Backoff(q)
Next ==
    \/ \E d \in Dispatches : TargetStep(d)
    \/ \E q \in Requests : SenderStep(q)
    \/ Restart \/ Tick

Spec == Init /\ [][Next]_vars

\* Fairness: the clock runs; a started request takes its next step; a sent
\* dispatch arrives, the app ends what it serves, and the sender hears of it
\* (of a crash by the connection's end).
Dropped(q) ==
    /\ Break(q)
    /\ reply[cur[q]] = "none" /\ cur[q] \in arrived \ (serving \cup working)
Fairness ==
    /\ WF_vars(Tick)
    /\ \A d \in Dispatches :
         /\ WF_vars(d \notin arrived /\ Receive(d))
         /\ WF_vars(AppReroutes(d) \/ Work(d)) /\ WF_vars(AppDone(d))
    /\ \A q \in Requests :
         /\ WF_vars(Local(q) \/ LocalReroutes(q) \/ Forward(q) \/ NoConnection(q))
         /\ WF_vars(GetReply(q) \/ Dropped(q)) /\ WF_vars(GetVerdict(q)) /\ WF_vars(Backoff(q))
FairSpec == Spec /\ Fairness

-----------------------------------------------------------------------------
(* Properties. *)

\* The ledger, the dispatch ids and the sender's loop (Ledger, _route, _forward).
TypeOK ==
    /\ now \in Nat /\ boot \in Nat \ {0} /\ made \in 0..MaxDispatch
    /\ of \in [Dispatches -> Requests \cup {None}]
    /\ tboot \in [Dispatches -> Nat] /\ issued \in [Dispatches -> Nat]
    /\ arrived \subseteq Made /\ serving \subseteq Made /\ working \subseteq Made
    /\ entry \in [Dispatches -> {"absent", "admitted", "refused", "finished"}]
    /\ written \in [Dispatches -> Nat]
    /\ reply \in [Dispatches -> {"none", "reroute", "result"}]
    /\ settle \in [Dispatches -> {"none", "asked", "received", "refused", "unknown"}]
    /\ ran \in [Requests -> Nat] /\ by \in [Requests -> 0..MaxDispatch \cup {None}]
    /\ start \in [Requests -> Nat]
    /\ pc \in [Requests -> {"idle", "route", "sent", "settling", "wait", "answered"}]
    /\ cur \in [Requests -> Dispatches \cup {None}]
    /\ answer \in [Requests -> {"none", "result", "retry", "unknown", "gone"}]

\* Ledger.admit, Ledger.settle, _forward: the work of a request is done at most
\* once, by whichever instance, however often its bytes arrive and its
\* dispatches are given up and made anew.
AtMostOnce == \A q \in Requests : ran[q] <= 1

\* _route, _settle_or_report: a client that is told to retry (503), or whose
\* request is decided anew, has had no work done for it, and none is done
\* later.
RetryMeansNotRun ==
    \A q \in Requests : pc[q] \in {"route", "wait"} \/ answer[q] = "retry" => ran[q] = 0

\* Stated by docs/zero-downtime-deploy.md, 5.3 (settle): a dispatch that was
\* taken is never settled as refused.
RefusalIsTrue ==
    \A d \in Made : settle[d] = "refused" => by[of[d]] # d

\* The protocol implements the promise of OnceOnly.
Promise == INSTANCE OnceOnly
KeepsPromise == Promise!Spec

\* _route: every request gets an answer.
Answered == \A q \in Requests : pc[q] = "route" ~> pc[q] = "answered"
=============================================================================

--------------------------- MODULE BrokerTickets ---------------------------
(***************************************************************************)
(* The resident loop of the isolation broker (docker/isolation_broker.py): *)
(* one connection per request, read without blocking, with the descriptors *)
(* it passes; a signed ticket that is good for one use until it expires;   *)
(* spawns, transcript reads, and cleanups that may be parked until their   *)
(* uid is free.                                                            *)
(*                                                                         *)
(* All requests are for one uid.  A ticket is a model of what the gateway  *)
(* signed: its operation and the second in which it expires.  The wall     *)
(* clock may be set back; deadlines are taken from the monotonic clock.    *)
(***************************************************************************)
EXTENDS Integers, FiniteSets, FiniteSetsExt

CONSTANTS Conns,        \* connections of the gateway
          Tickets,      \* tickets it has signed
          OpOf,         \* "spawn", "wait", "cleanup" or "transcript", by ticket
          ExpOf,        \* the ticket's exp
          MaxTime,      \* bound on the wall clock
          MaxPending,   \* _MAX_PENDING
          MaxParked,    \* _MAX_PARKED
          None

VARIABLES conn,       \* "none", "pending", "parked" or "closed"
          ticket,     \* the ticket of a parked request
          late,       \* connections whose deadline has passed
          tracked,    \* len(pending.fds)
          open,       \* descriptors of the connection open in the broker
          wall,       \* time.time()
          clock,      \* self.clock
          seen,       \* the spent nonces that are still kept
          started,    \* what each ticket has started
          live        \* self.supervisors, self.cleaners: how many of each

vars == <<conn, ticket, late, tracked, open, wall, clock, seen, started, live>>
times == <<wall, clock>>

\* Descriptors in one message: none, the three of a spawn, or one too many.
Passed == {0, 3, 4}

Fds(c, n) == [open EXCEPT ![c] = @ + n]

TypeOK ==
  /\ conn \in [Conns -> {"none", "pending", "parked", "closed"}]
  /\ ticket \in [Conns -> Tickets \cup {None}]
  /\ late \subseteq Conns
  /\ tracked \in [Conns -> 0..8] /\ open \in [Conns -> 0..8]
  /\ wall \in 0..MaxTime /\ clock \in 0..MaxTime
  /\ seen \subseteq Tickets
  /\ started \in [Tickets -> Nat]
  /\ live \in [{"supervisor", "cleaner"} -> Nat]

Init ==
  /\ conn = [c \in Conns |-> "none"]
  /\ ticket = [c \in Conns |-> None]
  /\ late = {}
  /\ tracked = [c \in Conns |-> 0] /\ open = [c \in Conns |-> 0]
  /\ wall = 0 /\ clock = 0
  /\ seen = {}
  /\ started = [t \in Tickets |-> 0]
  /\ live = [k \in {"supervisor", "cleaner"} |-> 0]

Pending == {c \in Conns : conn[c] = "pending"}
Parked == {c \in Conns : conn[c] = "parked"}

\* The listener is polled only below the bound; a stranger is closed at once.
Accept(c) ==
  /\ conn[c] = "none"
  /\ Cardinality(Pending) < MaxPending
  /\ conn' = [conn EXCEPT ![c] = "pending"]
  /\ UNCHANGED <<ticket, late, tracked, open, times, seen, started, live>>

\* _Pending.close closes what was tracked, whatever else was received.
Close(C, rcvd, trk) ==
  /\ conn' = [c \in Conns |-> IF c \in C THEN "closed" ELSE conn[c]]
  /\ open' = [c \in Conns |-> IF c \in C THEN rcvd[c] - trk[c] ELSE rcvd[c]]
  /\ tracked' = [c \in Conns |-> IF c \in C THEN 0 ELSE trk[c]]
  /\ late' = late \ C
  /\ ticket' = [c \in Conns |-> IF c \in C THEN None ELSE ticket[c]]

\* Mutant: descriptors beyond the limit are not tracked.
TrackChecked(c, n) == IF tracked[c] + n > 3 THEN tracked ELSE [tracked EXCEPT ![c] = @ + n]

Track(c, n) == [tracked EXCEPT ![c] = @ + n]
TooMany(c, n) == open[c] + n > 3

\* A part of the header, with n descriptors.
Part(c, n) ==
  /\ conn[c] = "pending" /\ ~TooMany(c, n)
  /\ tracked' = Track(c, n) /\ open' = Fds(c, n)
  /\ UNCHANGED <<conn, ticket, late, times, seen, started, live>>

\* Too many descriptors, a header beyond its limit or one that does not
\* parse, the link closed: all before the ticket is looked at.
Bad(c, n) ==
  /\ conn[c] = "pending"
  /\ Close({c}, Fds(c, n), Track(c, n))
  /\ UNCHANGED <<times, seen, started, live>>

Verify(t, now) == now <= ExpOf[t] /\ t \notin {s \in seen : ExpOf[s] >= now}

\* Mutant: tickets are judged by the wall clock.
NowByWall == wall

\* The clock verify_ticket is given: it never runs backwards.
Now == Max({clock, wall})
\* _check_uid_free, _cleanup_busy
Busy(t) == CASE OpOf[t] = "spawn" -> live["cleaner"] > 0
             [] OpOf[t] = "transcript" -> FALSE
             [] OTHER -> live["supervisor"] + live["cleaner"] > 0

Kind(t) == CASE OpOf[t] = "spawn" -> {"supervisor"}
             [] OpOf[t] = "transcript" -> {}
             [] OTHER -> {"cleaner"}

\* _spawn, _run_op: the child has its own copies of the descriptors, and the
\* fork may fail.
Start(t, forked) ==
  IF forked THEN
    /\ started' = [started EXCEPT ![t] = @ + 1]
    /\ live' = [k \in DOMAIN live |-> live[k] + Cardinality({k} \cap Kind(t))]
  ELSE UNCHANGED <<started, live>>

\* The header is whole.  The nonce is spent before the rest is validated:
\* valid stands for the schema of the operation (no data after the header of
\* one that is no spawn) and for _authorize.
Header(c, t, n, valid, forked) ==
  LET fds == tracked[c] + n
      fresh == Verify(t, Now)
      allowed == /\ valid
                 /\ IF OpOf[t] = "spawn" THEN fds = 3 ELSE fds = 0
      parks == OpOf[t] = "wait" /\ Busy(t) /\ Cardinality(Parked) < MaxParked IN
  /\ conn[c] = "pending" /\ ~TooMany(c, n)
  /\ clock' = Now
  /\ seen' = CASE Now > ExpOf[t] -> seen
               [] OTHER -> {s \in seen : ExpOf[s] >= Now} \cup {t}
  /\ IF fresh /\ allowed /\ parks THEN
       /\ conn' = [conn EXCEPT ![c] = "parked"]
       /\ ticket' = [ticket EXCEPT ![c] = t]
       /\ late' = late \ {c}
       /\ UNCHANGED <<tracked, open, started, live>>
     ELSE
       /\ Close({c}, Fds(c, n), Track(c, n))
       /\ IF fresh /\ allowed /\ ~Busy(t) THEN Start(t, forked) ELSE UNCHANGED <<started, live>>
  /\ UNCHANGED wall

\* _drop_parked: the client of a parked cleanup went away.
HangUp(c) ==
  /\ conn[c] = "parked"
  /\ Close({c}, open, tracked)
  /\ UNCHANGED <<times, seen, started, live>>

\* _expire
Expire ==
  /\ Pending \cap late # {}
  /\ Close(Pending \cap late, open, tracked)
  /\ UNCHANGED <<times, seen, started, live>>

\* Mutant: a parked cleanup outlives its deadline.
OverdueNever(c) == FALSE

\* _unpark: one parked cleanup runs if the uid is free, and those that wait
\* after it find it busy; the ones that are late are refused.
Overdue(c) == c \in late
Unpark(c, forked) ==
  /\ conn[c] = "parked" /\ ~Busy(ticket[c])
  /\ Close({c}, open, tracked)
  /\ Start(ticket[c], forked)
  /\ UNCHANGED <<times, seen>>

GiveUp(c) ==
  /\ conn[c] = "parked" /\ Busy(ticket[c]) /\ Overdue(c)
  /\ Close({c}, open, tracked)
  /\ UNCHANGED <<times, seen, started, live>>

\* A supervisor or a helper ends and is reaped.
Reap(k) ==
  /\ live[k] > 0
  /\ live' = [live EXCEPT ![k] = @ - 1]
  /\ UNCHANGED <<conn, ticket, late, tracked, open, times, seen, started>>

\* The monotonic deadline of a connection passes.
Deadline(c) ==
  /\ conn[c] \in {"pending", "parked"} /\ c \notin late
  /\ late' = late \cup {c}
  /\ UNCHANGED <<conn, ticket, tracked, open, times, seen, started, live>>

\* The wall clock moves on, or is set back.
Clock ==
  /\ wall' \in 0..MaxTime /\ wall' # wall
  /\ UNCHANGED <<conn, ticket, late, tracked, open, clock, seen, started, live>>

Next ==
  \/ \E c \in Conns : \/ Accept(c) \/ HangUp(c) \/ GiveUp(c) \/ Deadline(c)
                      \/ \E n \in Passed : Part(c, n) \/ Bad(c, n)
                      \/ \E f \in BOOLEAN : Unpark(c, f)
                      \/ \E t \in Tickets, n \in Passed, valid, forked \in BOOLEAN :
                           Header(c, t, n, valid, forked)
  \/ \E k \in DOMAIN live : Reap(k)
  \/ Expire \/ Clock

\* The loop polls with a timeout, so deadlines are noticed.
Fairness == \A c \in Conns : /\ WF_vars(Deadline(c)) /\ WF_vars(Expire)
                             /\ WF_vars(GiveUp(c)) /\ WF_vars(\E f \in BOOLEAN : Unpark(c, f))

Spec == Init /\ [][Next]_vars /\ Fairness

\* A ticket starts at most one process, though its nonce is forgotten once it
\* has expired and the wall clock may later be set back before that moment.
TicketIsSpentOnce == \A t \in Tickets : started[t] <= 1

\* Every descriptor a connection passed is closed in the broker once the
\* connection is done with, on every path; the connections that are read and
\* the cleanups that wait are bounded; a cleanup never runs beside a session.
NothingLeaks ==
  /\ \A c \in Conns : conn[c] \notin {"pending"} => open[c] = 0
  /\ Cardinality(Pending) <= MaxPending /\ Cardinality(Parked) <= MaxParked
  /\ live["cleaner"] <= 1 /\ (live["cleaner"] = 1 => live["supervisor"] = 0)

\* Every request that was accepted is answered in the end: a peer that sends
\* half a header and a cleanup whose uid stays busy are given up.  (A closed
\* connection stays closed, so this says it of each one.)
RequestsEnd == []<>(\A c \in Conns : conn[c] \in {"none", "closed"})
============================================================================

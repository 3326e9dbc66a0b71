------------------------------ MODULE UserData ------------------------------
(***************************************************************************)
(* A named user's data under per-uid config directories                    *)
(* (backends/claude/uid_layout.py, uid_cleanup.py, transcript_turns.py):   *)
(* the one-time copy of what is theirs out of the shared config directory, *)
(* the decision to resume a session from its transcript, and the retention *)
(* sweep that has the broker expire what is old.                           *)
(*                                                                         *)
(* Two users' workspaces map to one name under projects/, so that one      *)
(* legacy directory holds transcripts of both.                             *)
(***************************************************************************)
EXTENDS Integers, Sequences, FiniteSets

CONSTANT MaxFault      \* bound on crashes and failures

Users == {"a", "b"}
Transcripts == {"ta", "tb", "mixed", "torn"}
Entries == Transcripts \cup {"memory"}
Session == [a |-> "ta", b |-> "tb"]     \* the session each user comes back to

VARIABLES legacy,     \* the entries of the shared project directory
          homes,      \* the users whose workspace directory exists
          copy,       \* P(uid)/projects/<name>: "none", "part", "cut", "whole", "cli"
          marked,     \* users whose migration is recorded in P
          failed,     \* _migrate_failed, of this process
          job,        \* the migration under way: entries still to copy, or NoJob
          session,    \* "none", "new", "resumed" or "refused"
          old,        \* users whose session data is older than the cutoff
          sweep,      \* users whose expiry helper runs
          faults

vars == <<legacy, homes, copy, marked, failed, job, session, old, sweep, faults>>
migration == <<legacy, homes, copy, marked, failed, job>>
retention == <<old, sweep>>

NoJob == {"nothing"}

(* The lines of each transcript: its recorded cwd and its type. *)
Line(cwd, type) == [cwd |-> cwd, type |-> type]
LinesOf == [ta    |-> <<Line("a", "user"), Line("a", "tool_result"), Line("", "other"), Line("a", "user")>>,
            tb    |-> <<Line("b", "user"), Line("b", "meta")>>,
            mixed |-> <<Line("a", "user"), Line("b", "user")>>,
            torn  |-> <<Line("a", "user"), Line("a", "bad")>>]

Corrupt == -1
Mismatch == -2

\* count_transcript_turns: the first bad line or foreign cwd decides.
Bars(line, cwd) == line.type = "bad" \/ line.cwd \notin {"", cwd}
Count(lines, cwd) ==
  LET bars == {i \in DOMAIN lines : Bars(lines[i], cwd)} IN
  IF bars = {} THEN Cardinality({i \in DOMAIN lines : lines[i].type = "user"})
  ELSE IF \E i \in bars : lines[i].type = "bad" /\ \A j \in bars : i <= j THEN Corrupt ELSE Mismatch

TypeOK ==
  /\ legacy \subseteq Entries /\ homes \subseteq Users
  /\ copy \in [Users -> [Entries -> {"none", "part", "cut", "whole", "cli"}]]
  /\ marked \subseteq Users /\ failed \subseteq Users
  /\ job \in [Users -> SUBSET (Entries \cup NoJob)]
  /\ session \in [Users -> {"none", "new", "resumed", "refused"}]
  /\ old \subseteq Users /\ sweep \subseteq Users /\ faults \in 0..MaxFault

Init ==
  /\ legacy \in SUBSET Entries
  /\ homes \in SUBSET Users
  \* who has data in the shared directory had a workspace
  /\ \A u \in Users : Session[u] \in legacy \/ "mixed" \in legacy => u \in homes
  /\ copy = [u \in Users |-> [e \in Entries |-> "none"]]
  /\ marked = {} /\ failed = {}
  /\ job = [u \in Users |-> NoJob]
  /\ session = [u \in Users |-> "none"]
  /\ old = {} /\ sweep = {} /\ faults = 0

Own(u) == {t \in legacy \cap Transcripts : Count(LinesOf[t], u) >= 0}
Foreign(u) == \E t \in legacy \cap Transcripts : Count(LinesOf[t], u) = Mismatch

\* Mutant: memory is copied whoever may own it.
TakesMemoryUnowned(u) == "memory" \in legacy

\* memory/ has no recorded owner: only when nobody else may own it
\* (_name_is_shared: another workspace maps to the name).
TakesMemory(u) == "memory" \in legacy /\ ~Foreign(u) /\ homes \subseteq {u}

\* migrate_legacy begins, unless it is done or has failed in this process; a
\* directory that cannot be read is tried again at the next spawn.
Scan(u) ==
  /\ job[u] = NoJob /\ u \notin marked \cup failed /\ session[u] = "none"
  /\ homes' = homes \cup {u}
  /\ job' = [job EXCEPT ![u] = Own(u) \cup (IF TakesMemory(u) THEN {"memory"} ELSE {})]
  /\ UNCHANGED <<legacy, copy, marked, failed, session, retention, faults>>

\* _copy_file_at: the destination is created exclusively, then filled; what
\* exists already, or is over the budget, is passed over.
CopyBegins(u, e) ==
  /\ job[u] # NoJob /\ e \in job[u] /\ copy[u][e] = "none"
  /\ \A f \in Entries : copy[u][f] # "part"
  /\ copy' = [copy EXCEPT ![u][e] = "part"]
  /\ UNCHANGED <<legacy, homes, marked, failed, job, session, retention, faults>>

CopyEnds(u, e) ==
  /\ job[u] # NoJob /\ e \in job[u] /\ copy[u][e] = "part"
  /\ copy' = [copy EXCEPT ![u][e] = "whole"]
  /\ job' = [job EXCEPT ![u] = @ \ {e}]
  /\ UNCHANGED <<legacy, homes, marked, failed, session, retention, faults>>

PassOver(u, e) ==
  /\ job[u] # NoJob /\ e \in job[u] /\ copy[u][e] # "part"
  /\ job' = [job EXCEPT ![u] = @ \ {e}]
  /\ UNCHANGED <<legacy, homes, copy, marked, failed, session, retention, faults>>

Mark(u) ==
  /\ job[u] = {}
  /\ marked' = marked \cup {u}
  /\ job' = [job EXCEPT ![u] = NoJob]
  /\ UNCHANGED <<legacy, homes, copy, failed, session, retention, faults>>

\* What is left of the copies of the users in U when they stop.
CutOff(U) == [u \in Users |-> [e \in Entries |->
                IF u \in U /\ copy[u][e] = "part" THEN "cut" ELSE copy[u][e]]]

\* An error while copying, or writing the marker: no retry in this process.
MigrationFails(u) ==
  /\ job[u] # NoJob /\ faults < MaxFault
  /\ failed' = failed \cup {u}
  /\ job' = [job EXCEPT ![u] = NoJob]
  /\ copy' = CutOff({u})
  /\ faults' = faults + 1
  /\ UNCHANGED <<legacy, homes, marked, session, retention>>

\* The gateway dies: what was copied stays, even half a file, which is later
\* taken for copied, and the rest of the list is forgotten.
Crash ==
  /\ faults < MaxFault
  /\ job' = [u \in Users |-> NoJob]
  /\ failed' = {}
  /\ session' = [u \in Users |-> "none"]
  /\ copy' = CutOff(Users)
  /\ faults' = faults + 1
  /\ UNCHANGED <<legacy, homes, marked, retention>>

Exists(u) == copy[u][Session[u]] # "none"

\* Mutant: a transcript that cannot be read is missing.
AnswersMissing(u, readable, broker) ==
  IF readable \/ broker = "answers" THEN (IF Exists(u) THEN "resumed" ELSE "new") ELSE "new"

\* transcript_exists, read_transcript_turns: a transcript the gateway may not
\* look at is asked of the broker, and one that neither can read is no reason
\* to start over.
Answers(u, readable, broker) ==
  IF readable \/ broker = "answers" THEN (IF Exists(u) THEN "resumed" ELSE "new") ELSE "refused"

\* The spawn goes on whether or not the migration succeeded.  The broker does
\* not start a session while a cleanup of a workspace of the uid runs; an
\* expiry names none.
StartSession(u, readable, broker) ==
  /\ session[u] \in {"none", "refused"} /\ job[u] = NoJob /\ u \in marked \cup failed
  /\ session' = [session EXCEPT ![u] = Answers(u, readable, broker)]
  /\ UNCHANGED <<migration, retention, faults>>

\* The CLI writes its transcript.
Turn(u) ==
  /\ session[u] \in {"new", "resumed"}
  /\ copy' = [copy EXCEPT ![u][Session[u]] = IF @ = "none" THEN "cli" ELSE @]
  /\ old' = old \ {u}
  /\ UNCHANGED <<legacy, homes, marked, failed, job, session, sweep, faults>>

EndSession(u) ==
  /\ session[u] \in {"new", "resumed"}
  /\ session' = [session EXCEPT ![u] = "none"]
  /\ UNCHANGED <<migration, retention, faults>>

\* remove_transcript: a stateless run's transcript goes, as the uid if need be.
RemoveTranscript(u) ==
  /\ session[u] = "none" /\ copy[u][Session[u]] = "cli"
  /\ copy' = [copy EXCEPT ![u][Session[u]] = "none"]
  /\ UNCHANGED <<legacy, homes, marked, failed, job, session, retention, faults>>

Age(u) ==
  /\ Exists(u) /\ u \notin old \cup sweep /\ session[u] = "none"
  /\ old' = old \cup {u}
  /\ UNCHANGED <<migration, session, sweep, faults>>

\* retention_sweep: refused while a session of the uid is live.
SweepBegins(u) ==
  /\ session[u] \notin {"new", "resumed"} /\ u \in marked \cup failed /\ u \notin sweep
  /\ sweep' = sweep \cup {u}
  /\ UNCHANGED <<migration, session, old, faults>>

SweepEnds(u) ==
  /\ u \in sweep
  /\ sweep' = sweep \ {u}
  /\ copy' = IF u \in old THEN [copy EXCEPT ![u][Session[u]] = "none"] ELSE copy
  /\ old' = old \ {u}
  /\ UNCHANGED <<legacy, homes, marked, failed, job, session, faults>>

Next ==
  \/ Crash
  \/ \E u \in Users :
       \/ Scan(u) \/ Mark(u) \/ MigrationFails(u)
       \/ Turn(u) \/ EndSession(u) \/ RemoveTranscript(u)
       \/ Age(u) \/ SweepBegins(u) \/ SweepEnds(u)
       \/ \E e \in Entries : CopyBegins(u, e) \/ CopyEnds(u, e) \/ PassOver(u, e)
       \/ \E r \in BOOLEAN, b \in {"answers", "refuses", "away"} : StartSession(u, r, b)

Spec == Init /\ [][Next]_vars

\* A user's directory receives only what is certainly theirs: no transcript
\* with another's workspace in it, and no memory that two users may claim,
\* in whatever order the two come back and wherever their copies are cut off.
MigratedIsOwn ==
  /\ \A u \in Users, t \in Transcripts :
       copy[u][t] # "none" => {LinesOf[t][i].cwd : i \in DOMAIN LinesOf[t]} \subseteq {u, ""}
  /\ ~\A u \in Users : copy[u]["memory"] # "none"
  /\ \A u \in Users : copy[u]["memory"] # "none" => ~Foreign(u)

\* A session whose transcript is there is resumed or refused, never started
\* over, however the gateway and the broker fail to read it.
StartsOverNothing ==
  \A u \in Users : session'[u] = "new" /\ session[u] # "new" => ~Exists(u)

\* Stated by migrate_legacy: the first spawn "copies what is theirs", and what
\* failed is "retried after a restart": what is recorded as migrated is whole.
MigrationIsWhole == \A u \in Users, e \in Entries : u \in marked => copy[u][e] # "cut"
=============================================================================

---------------------------- MODULE CleanupWalk ----------------------------
(***************************************************************************)
(* The cleanup helper of the isolation broker (docker/isolation_broker.py):*)
(* it empties or removes a directory the gateway named, or removes from it *)
(* what is old or what the uid owns, through directory descriptors and     *)
(* without following a link, while another process of the same uid may     *)
(* still rename entries and plant links.  At most MaxDepth + 1 directories *)
(* are open: a deeper one is first moved up into the top one.              *)
(*                                                                         *)
(* Operations: "clear" empties the target, "remove" removes it too,        *)
(* "units" and "nested" expire what has not changed since the cutoff (the  *)
(* projects directory holds its sessions one level down), "sweep" takes    *)
(* the entries the uid owns (/dev/shm).                                    *)
(***************************************************************************)
EXTENDS Integers, Sequences, FiniteSets

CONSTANTS MaxDepth,    \* _MAX_DEPTH
          MaxAgent,    \* bound on the steps of the other process
          None

Dirs == {"top", "d1", "d2", "d3", "out"}
Nodes == {"d1", "d2", "d3", "file", "link", "alien"}   \* link names out, where alien is
Names == {"x", "y", "m1", "m2"}               \* m1, m2: .isolation-cleanup-n

VARIABLES op,        \* the operation
          at,        \* where each node is: <<directory, name>>, or None
          keep,      \* what the selection spares: young nodes, another's nodes
          stack,     \* the frames: directory, its name in the frame below, names left
          seen,      \* the name being worked on and what lstat saw there
          state,     \* "walk" or "done"
          fails,     \* log.count
          deeper,    \* frames opened because a move up failed
          removed, inside, agent

vars == <<op, at, keep, stack, seen, state, fails, deeper, removed, inside, agent>>

Slots == Dirs \X Names
Entry(d, n) == IF \E k \in Nodes : at[k] = <<d, n>>
               THEN CHOOSE k \in Nodes : at[k] = <<d, n>> ELSE None
In(d) == {k \in Nodes : at[k] # None /\ at[k][1] = d}

\* n and everything below it: no path is longer than four names.
Under(S) == S \cup UNION {In(d) : d \in S \cap Dirs}
Below(n) == Under(Under(Under(Under({n}))))

TypeOK ==
  /\ op \in {"clear", "remove", "units", "nested", "sweep"}
  /\ at \in [Nodes -> Slots \cup {None}]
  /\ keep \subseteq Nodes /\ removed \subseteq Nodes \cup {"top"} /\ inside \subseteq Nodes
  /\ state \in {"walk", "done"} /\ fails \in Nat /\ deeper \in Nat /\ agent \in 0..MaxAgent

Frame(d, name) == [dir |-> d, name |-> name, todo |-> {}, listed |-> FALSE]

Trees ==
  {a \in [Nodes -> {None, <<"top", "x">>, <<"top", "y">>, <<"d1", "x">>, <<"d2", "x">>, <<"d3", "x">>,
                       <<"out", "x">>}] :
     /\ a["alien"] = <<"out", "x">> /\ a["d1"] = <<"top", "x">> /\ a["link"] = None
     /\ a["d2"] \in {<<"d1", "x">>, <<"top", "y">>}
     /\ a["d3"] = <<"d2", "x">>
     /\ a["file"] \in {<<"d3", "x">>, <<"top", "y">>} /\ a["file"] # a["d2"]}

Init ==
  /\ op \in {"clear", "remove", "units", "nested", "sweep"}
  /\ at \in Trees
  /\ keep \in SUBSET (IF op = "sweep" THEN In("top") ELSE {"d1", "d3", "file"})
  /\ op \in {"clear", "remove"} => keep = {}
  /\ stack = <<Frame("top", None)>>
  /\ seen = None /\ state = "walk" /\ fails = 0 /\ deeper = 0
  /\ removed = {} /\ inside = Below("top") \cap Nodes /\ agent = 0

Cur == stack[Len(stack)]
Work(f) == stack' = [stack EXCEPT ![Len(stack)] = f]
Levels(n) == IF n \in Dirs /\ In(n) \cap Dirs # {} THEN 2 ELSE 1

\* _sweep_owned: the uid's own entries.
Owned(n) == n \notin keep

\* _is_old: which entries of the directory the operation takes.  One
\* too deep to be read through stays.
Old(n) == Below(n) \cap keep = {} /\ Levels(n) <= MaxDepth
Selected(n, name) ==
  CASE op = "units" /\ Len(stack) = 1 -> Old(n)
    [] op = "nested" /\ Len(stack) = 1 -> n \in Dirs
    [] op = "nested" /\ Len(stack) = 2 -> name # "y" /\ Old(n)   \* y: memory
    [] op = "sweep" /\ Len(stack) = 1 -> Owned(n)
    [] OTHER -> TRUE

\* _listed
List ==
  /\ state = "walk" /\ seen = None /\ ~Cur.listed
  /\ Work([Cur EXCEPT !.todo = {at[k][2] : k \in In(Cur.dir)}, !.listed = TRUE])
  /\ UNCHANGED <<op, at, keep, seen, state, fails, deeper, removed, inside, agent>>

\* The next name, and what lstat sees there.
Look ==
  /\ state = "walk" /\ seen = None /\ Cur.todo # {}
  /\ LET n == CHOOSE m \in Cur.todo : TRUE
         k == Entry(Cur.dir, n) IN
     /\ Work([Cur EXCEPT !.todo = @ \ {n}])
     /\ seen' = IF k # None /\ Selected(k, n) THEN [name |-> n, node |-> k] ELSE None
  /\ UNCHANGED <<op, at, keep, state, fails, deeper, removed, inside, agent>>

Fail == fails' = fails + 1

\* A name that was no directory is unlinked, whatever is there now.
Unlink ==
  /\ seen # None /\ seen.node \notin Dirs
  /\ seen' = None
  /\ LET k == Entry(Cur.dir, seen.name) IN
     IF k = None THEN UNCHANGED <<at, removed, fails>>
     ELSE IF k \in Dirs THEN Fail /\ UNCHANGED <<at, removed>>
     ELSE /\ at' = [at EXCEPT ![k] = None]
          /\ removed' = removed \cup {k}
          /\ UNCHANGED fails
  /\ UNCHANGED <<op, keep, stack, state, deeper, inside, agent>>

\* Mutant: the open follows a link.
OpenDirFollowing(k, node) == IF k = "link" THEN "out" ELSE IF k \in Dirs THEN k ELSE None

\* The directory an open reaches, if it is the one lstat saw.
OpenDir(k, node) == IF k = node THEN k ELSE None

Deep == Len(stack) > MaxDepth
Fresh == {m \in {"m1", "m2"} : Entry("top", m) = None}

\* Mutant: what is moved up is not walked.
QueuedNot(m) == stack

Queued(m) == [stack EXCEPT ![1].todo = @ \cup {m}]
\* _move_up
MoveUp ==
  /\ seen # None /\ seen.node \in Dirs /\ Deep
  /\ Entry(Cur.dir, seen.name) # None /\ Fresh # {}
  /\ LET m == CHOOSE f \in Fresh : TRUE IN
     /\ at' = [at EXCEPT ![Entry(Cur.dir, seen.name)] = <<"top", m>>]
     /\ stack' = Queued(m)
  /\ seen' = None
  /\ UNCHANGED <<op, keep, state, fails, deeper, removed, inside, agent>>

Descend ==
  /\ seen # None /\ seen.node \in Dirs
  /\ Deep => Entry(Cur.dir, seen.name) = None \/ Fresh = {}
  /\ LET d == OpenDir(Entry(Cur.dir, seen.name), seen.node) IN
     IF d = None THEN Fail /\ UNCHANGED <<stack, deeper>>
     ELSE /\ stack' = Append(stack, Frame(d, seen.name))
          /\ deeper' = deeper + (IF Deep THEN 1 ELSE 0)
          /\ UNCHANGED fails
  /\ seen' = None
  /\ UNCHANGED <<op, at, keep, state, removed, inside, agent>>

\* A project directory goes only if it was old before the sweep, and that it
\* is not empty is no failure.
Rmdir(f) == ~(op = "nested" /\ Len(stack) = 2 /\ f.dir \in keep)

\* An emptied directory is removed from the frame below.
Up ==
  /\ state = "walk" /\ seen = None /\ Len(stack) > 1 /\ Cur.listed /\ Cur.todo = {}
  /\ stack' = SubSeq(stack, 1, Len(stack) - 1)
  /\ LET k == Entry(stack[Len(stack) - 1].dir, Cur.name)
         gone == k # None /\ k \in Dirs /\ In(k) = {} IN
     IF ~Rmdir(Cur) THEN UNCHANGED <<at, removed, fails>>
     ELSE IF gone THEN /\ at' = [at EXCEPT ![k] = None]
                       /\ removed' = removed \cup {k}
                       /\ UNCHANGED fails
     ELSE /\ fails' = fails + (IF k = None \/ (op = "nested" /\ Len(stack) = 2) THEN 0 ELSE 1)
          /\ UNCHANGED <<at, removed>>
  /\ UNCHANGED <<op, keep, seen, state, deeper, inside, agent>>

\* The walk of the target ends.  A remove target goes too; one that was
\* emptied but whose parent the uid may not write counts as done.
Done(writable) ==
  /\ state = "walk" /\ seen = None /\ Len(stack) = 1 /\ Cur.listed /\ Cur.todo = {}
  /\ state' = "done"
  /\ IF op = "remove" /\ In("top") # {} THEN Fail /\ UNCHANGED removed
     ELSE /\ removed' = IF op = "remove" /\ writable THEN removed \cup {"top"} ELSE removed
          /\ fails' = fails + (IF op = "remove" /\ ~writable /\ fails > 0 THEN 1 ELSE 0)
  /\ UNCHANGED <<op, at, keep, stack, seen, deeper, inside, agent>>

\* Another process of the uid renames an entry, or plants its link.  A cleanup
\* that expires or sweeps is not started while one lives.
Agent(k, slot) ==
  /\ state = "walk" /\ agent < MaxAgent /\ op \in {"clear", "remove"}
  /\ k \notin removed \cup {"alien"} /\ Entry(slot[1], slot[2]) = None /\ at[k] # slot
  /\ slot[1] \notin Below(k) /\ slot[1] \notin removed
  /\ at[k] = None => k = "link"
  /\ slot[2] \in {"x", "y"}
  /\ at' = [at EXCEPT ![k] = slot]
  /\ inside' = inside \cup (IF slot[1] \in Below("top") \cup inside THEN Below(k) \cap Nodes ELSE {})
  /\ agent' = agent + 1
  /\ UNCHANGED <<op, keep, stack, seen, state, fails, deeper, removed>>

Next ==
  \/ List \/ Look \/ Unlink \/ MoveUp \/ Descend \/ Up
  \/ \E w \in BOOLEAN : Done(w)
  \/ \E k \in Nodes, slot \in Slots : Agent(k, slot)

Spec == Init /\ [][Next]_vars

\* Whatever the other process does, nothing is removed that was never below
\* the target or in a directory that had been, however links and directories are swapped under the walk; an
\* expiry removes nothing that changed since the cutoff, and a sweep nothing
\* of another owner.
RemovesOnlyItsOwn == removed \cap Nodes \subseteq inside \ keep

\* A cleanup that reports no failure left nothing: what was below the target
\* is gone unless the other process moved it.  No more than MaxDepth + 1
\* directories are open, but for those whose move up failed.
CleanIsTrue ==
  /\ Len(stack) <= MaxDepth + 1 + deeper
  /\ state = "done" /\ fails = 0 /\ agent = 0 /\ op \in {"clear", "remove"} => In("top") = {}
============================================================================

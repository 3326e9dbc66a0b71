---------------------------- MODULE RuntimeConfig ----------------------------
(***************************************************************************)
(* The runtime overrides (runtime_config.py): one file shared by the       *)
(* gateway processes of a deploy, changed a key at a time under a file     *)
(* lock and read through a copy in memory that a stat keeps fresh.  The    *)
(* threads of a process share its copy.                                    *)
(***************************************************************************)
EXTENDS Integers, FiniteSets

CONSTANTS Threads, ProcOf, Keys, Values, MaxWrite, None

\* Of each process, the keys its build knows (EDITABLE_KEYS).
CONSTANT Known

Procs == {ProcOf[t] : t \in Threads}
Empty == [k \in Keys |-> None]
Maps == [Keys -> Values \cup {None}]

VARIABLES file,      \* identity of the file (0: there is none), its overrides, whether it parses
          mem,       \* the overrides a process serves
          stamp,     \* the identity they were read from or written as
          dirty,     \* the processes whose last write failed
          flock,     \* the holder of <file>.lock
          th,        \* where each thread is, what it loaded and from which file
          saved      \* the value each key was last given

vars == <<file, mem, stamp, dirty, flock, th, saved>>

Idle == [pc |-> "idle", stamp |-> 0, loaded |-> Empty]

TypeOK ==
  /\ file \in [id : 0..MaxWrite, map : Maps, ok : BOOLEAN]
  /\ mem \in [Procs -> Maps] /\ stamp \in [Procs -> 0..MaxWrite] /\ dirty \subseteq Procs
  /\ flock \in Threads \cup {None} /\ saved \in Maps
  /\ th \in [Threads -> [pc : {"idle", "read", "install", "write", "commit"}, stamp : 0..MaxWrite, loaded : Maps]]

Init ==
  /\ file = [id |-> 0, map |-> Empty, ok |-> TRUE]
  /\ mem = [p \in Procs |-> Empty] /\ stamp = [p \in Procs |-> 0] /\ dirty = {}
  /\ flock = None /\ th = [t \in Threads |-> Idle] /\ saved = Empty

Go(t, r) == th' = [th EXCEPT ![t] = r]

\* _validated: what the build of the process knows of a file.
Validated(t, map) == [k \in Keys |-> IF k \in Known[ProcOf[t]] THEN map[k] ELSE None]

(* refresh, before every get. *)

\* The file is looked at; a copy of that identity is served as it is.
Stat(t) ==
  /\ th[t].pc = "idle" /\ stamp[ProcOf[t]] # file.id
  /\ Go(t, [Idle EXCEPT !.pc = "read", !.stamp = file.id])
  /\ UNCHANGED <<file, mem, stamp, dirty, flock, saved>>

\* The file is read, whichever is there by now; one that does not parse is
\* passed over until it changes.
Read(t) ==
  /\ th[t].pc = "read"
  /\ IF file.ok THEN Go(t, [th[t] EXCEPT !.pc = "install", !.loaded = Validated(t, file.map)]) /\ UNCHANGED stamp
     ELSE Go(t, Idle) /\ stamp' = [stamp EXCEPT ![ProcOf[t]] = th[t].stamp]
  /\ UNCHANGED <<file, mem, dirty, flock, saved>>

\* Mutant: the stamp is taken after the read.
InstallRestamped(t) ==
  /\ th[t].pc = "install"
  /\ mem' = [mem EXCEPT ![ProcOf[t]] = th[t].loaded]
  /\ stamp' = [stamp EXCEPT ![ProcOf[t]] = file.id]
  /\ dirty' = dirty \ {ProcOf[t]}
  /\ Go(t, Idle)
  /\ UNCHANGED <<file, flock, saved>>

\* The copy is replaced, under the identity the file had when it was looked at.
Install(t) ==
  /\ th[t].pc = "install"
  /\ mem' = [mem EXCEPT ![ProcOf[t]] = th[t].loaded]
  /\ stamp' = [stamp EXCEPT ![ProcOf[t]] = th[t].stamp]
  /\ dirty' = dirty \ {ProcOf[t]}
  /\ Go(t, Idle)
  /\ UNCHANGED <<file, flock, saved>>

(* _mutate: set, reset and reset_all. *)

Lock(t) ==
  /\ th[t].pc = "idle" /\ flock = None
  /\ flock' = t /\ Go(t, [Idle EXCEPT !.pc = "write"])
  /\ UNCHANGED <<file, mem, stamp, dirty, saved>>

\* One key changes, or every key this build manages.
Applied(t, K, v, map) == [k \in Keys |-> IF k \in K THEN v ELSE map[k]]
Changes(t) == {<<{k}, v>> : k \in Known[ProcOf[t]], v \in Values \cup {None}} \cup {<<Known[ProcOf[t]], None>>}

\* Mutant: a change is applied to the copy in memory.
BaseMem(t) == mem[ProcOf[t]]

\* What a change is applied to: the latest file, or nothing if it does not parse.
Base(t) == IF file.ok THEN file.map ELSE Empty

Write(t, K, v) ==
  /\ th[t].pc = "write" /\ file.id < MaxWrite
  /\ LET new == Applied(t, K, v, Base(t)) IN
       /\ file' = [id |-> file.id + 1, map |-> new, ok |-> TRUE]
       /\ Go(t, [th[t] EXCEPT !.pc = "commit", !.loaded = Validated(t, new), !.stamp = file.id + 1])
  /\ saved' = Applied(t, K, v, IF file.ok THEN saved ELSE Empty)
  /\ UNCHANGED <<mem, stamp, dirty, flock>>

Commit(t) ==
  /\ th[t].pc = "commit"
  /\ mem' = [mem EXCEPT ![ProcOf[t]] = th[t].loaded]
  /\ stamp' = [stamp EXCEPT ![ProcOf[t]] = th[t].stamp]
  /\ dirty' = dirty \ {ProcOf[t]}
  /\ flock' = None /\ Go(t, Idle)
  /\ UNCHANGED <<file, saved>>

\* The write fails: the change is live in this process only.
WriteFails(t, K, v) ==
  /\ th[t].pc = "write"
  /\ mem' = [mem EXCEPT ![ProcOf[t]] = Applied(t, K, v, @)]
  /\ dirty' = dirty \cup {ProcOf[t]}
  /\ flock' = None /\ Go(t, Idle)
  /\ UNCHANGED <<file, stamp, saved>>

\* The file is edited by hand, or broken, while nobody writes it.
Edit(map, ok) ==
  /\ flock = None /\ file.id < MaxWrite /\ map # file.map
  /\ file' = [id |-> file.id + 1, map |-> map, ok |-> ok] /\ saved' = map
  /\ UNCHANGED <<mem, stamp, dirty, flock, th>>

Next ==
  \/ \E t \in Threads : \/ Stat(t) \/ Read(t) \/ Install(t) \/ Lock(t) \/ Commit(t)
                        \/ \E c \in Changes(t) : Write(t, c[1], c[2]) \/ WriteFails(t, c[1], c[2])
  \/ \E map \in {[Empty EXCEPT ![k] = v] : k \in Keys, v \in Values}, ok \in BOOLEAN : Edit(map, ok)

Spec == Init /\ [][Next]_vars

\* A copy under the identity of the file is that file: no refresh that was
\* overtaken by a write of either process leaves an old copy for fresh.  A
\* change whose write failed is live beside it.
StampIsHonest ==
  \A p \in Procs :
    stamp[p] = file.id /\ file.ok /\ p \notin dirty
      => mem[p] = [k \in Keys |-> IF k \in Known[p] THEN file.map[k] ELSE None]

\* A change of one key takes no other key with it: neither what the other
\* color saved since, nor the keys of another build.
NoUpdateIsLost == file.ok => file.map = saved
=============================================================================

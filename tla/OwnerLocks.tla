----------------------------- MODULE OwnerLocks -----------------------------
(***************************************************************************)
(* The owner lock of one session id, src/handoff/owners.py (OwnerLocks):   *)
(* an flock on data/session-owners/<id>.lock, a file that its holder       *)
(* removes before it unlocks it and that a process may die and leave.      *)
(*                                                                         *)
(* One system call is one step; the processes interleave between them, and *)
(* die between any two.  An inode number is used again once the file has   *)
(* no name and no descriptor.  In one process the calls run one at a time: *)
(* acquire and release hold _mutex, and they and owner run on the event    *)
(* loop.                                                                   *)
(***************************************************************************)
EXTENDS Naturals, TLC

CONSTANTS
    Procs,   \* gateway processes (a restarted one comes back under its name)
    Tokens,  \* Session objects of one process that share its lock
    Inodes,  \* inode numbers of the directory's file system
    Tries,   \* range(8) in acquire
    None

ASSUME OwnerAssumption ==
    None \notin Procs /\ None \notin Inodes /\ Tries \in Nat

VARIABLES
    path,     \* the inode the lock file's name leads to
    content,  \* of each inode: the name in the file (None: empty)
    excl,     \* of each inode: who has it locked LOCK_EX
    shared,   \* of each inode: who has it locked LOCK_SH
    tokens,   \* of each process: the tokens in _held
    pc, fd,   \* where its call is, and the inode its descriptor leads to
    tries,    \* rounds of acquire's loop
    said,     \* what its last call answered
    name,     \* the name owner answered
    seen      \* history: who held the lock during its last call

fileVars == <<path, content, excl, shared>>
procVars == <<tokens, pc, fd, tries, said, name>>
vars == <<fileVars, procVars, seen>>

Labels == {"idle", "open", "lock", "check", "truncate", "write", "unlink", "close",
           "find", "probe", "read", "free"}
Answers == {"nothing", "refused", "nobody", "unreadable", "named"}

\* Whose lock file it is: the process that has the named inode locked.
Holder == IF path = None THEN None ELSE excl[path]

Init ==
    /\ path = None
    /\ content = [i \in Inodes |-> None]
    /\ excl = [i \in Inodes |-> None]
    /\ shared = [i \in Inodes |-> {}]
    /\ tokens = [p \in Procs |-> {}]
    /\ pc = [p \in Procs |-> "idle"]
    /\ fd = [p \in Procs |-> None]
    /\ tries = [p \in Procs |-> 0]
    /\ said = [p \in Procs |-> "nothing"]
    /\ name = [p \in Procs |-> None]
    /\ seen = [p \in Procs |-> {}]

Goto(p, label) == pc' = [pc EXCEPT ![p] = label]
Begin(p, label) ==
    /\ Goto(p, label)
    /\ said' = [said EXCEPT ![p] = "nothing"] /\ name' = [name EXCEPT ![p] = None]
    /\ UNCHANGED tries
Return(p, answer) ==
    /\ Goto(p, "idle")
    /\ said' = [said EXCEPT ![p] = answer] /\ tries' = [tries EXCEPT ![p] = 0]
CloseFd(p) == fd' = [fd EXCEPT ![p] = None]

-----------------------------------------------------------------------------
(* acquire. *)

\* The process has the lock: one token more.
AddToken(p, t) ==
    /\ pc[p] = "idle" /\ tokens[p] # {}
    /\ tokens' = [tokens EXCEPT ![p] = @ \cup {t}]
    /\ UNCHANGED <<fileVars, pc, fd, tries, said, name>>

Acquire(p) ==
    /\ pc[p] = "idle" /\ tokens[p] = {}
    /\ Begin(p, "open")
    /\ UNCHANGED <<fileVars, tokens, fd>>

\* The loop ends with OSError(EAGAIN).
OutOfTries(p) == tries[p] >= Tries

GiveUp(p) ==
    /\ pc[p] = "open" /\ OutOfTries(p)
    /\ Return(p, "nothing")
    /\ UNCHANGED <<fileVars, tokens, fd, name>>

Unused(i) == i # path /\ \A p \in Procs : fd[p] # i

\* os.open with O_CREAT.
Open(p) ==
    /\ pc[p] = "open" /\ ~OutOfTries(p)
    /\ tries' = [tries EXCEPT ![p] = @ + 1]
    /\ \/ path # None /\ fd' = [fd EXCEPT ![p] = path] /\ UNCHANGED <<path, content>>
       \/ path = None /\ \E i \in Inodes :
             /\ Unused(i)
             /\ path' = i /\ fd' = [fd EXCEPT ![p] = i]
             /\ content' = [content EXCEPT ![i] = None]
    /\ Goto(p, "lock")
    /\ UNCHANGED <<excl, shared, tokens, said, name>>

\* Mutant: the BlockingIOError of another holder is ignored.
LockBlind(p) ==
    /\ pc[p] = "lock"
    /\ excl' = [excl EXCEPT ![fd[p]] = p]
    /\ Goto(p, "check")
    /\ UNCHANGED <<path, content, shared, tokens, fd, tries, said, name>>

\* flock(LOCK_EX | LOCK_NB).
Lock(p) ==
    /\ pc[p] = "lock"
    /\ \/ /\ excl[fd[p]] = None /\ shared[fd[p]] = {}
          /\ excl' = [excl EXCEPT ![fd[p]] = p]
          /\ Goto(p, "check") /\ UNCHANGED <<fd, tries, said>>
       \/ /\ ~(excl[fd[p]] = None /\ shared[fd[p]] = {})
          /\ CloseFd(p) /\ Return(p, "refused") /\ UNCHANGED excl
    /\ UNCHANGED <<path, content, shared, tokens, name>>

\* Mutant: a locked descriptor is enough.
SameAlways(p) == TRUE

\* fstat and stat: does the name still lead to the inode that is locked?
Same(p) == path = fd[p]

Check(p) ==
    /\ pc[p] = "check"
    /\ \/ Same(p) /\ Goto(p, "truncate") /\ UNCHANGED <<excl, fd>>
       \/ /\ ~Same(p)
          /\ excl' = [excl EXCEPT ![fd[p]] = None]
          /\ CloseFd(p) /\ Goto(p, "open")
    /\ UNCHANGED <<path, content, shared, tokens, tries, said, name>>

Truncate(p) ==
    /\ pc[p] = "truncate"
    /\ content' = [content EXCEPT ![fd[p]] = None]
    /\ Goto(p, "write")
    /\ UNCHANGED <<path, excl, shared, tokens, fd, tries, said, name>>

\* Mutant: the name is not written.
NameOfNobody(p) == None

\* instance_name.
NameOf(p) == p

Write(p, t) ==
    /\ pc[p] = "write"
    /\ content' = [content EXCEPT ![fd[p]] = NameOf(p)]
    /\ tokens' = [tokens EXCEPT ![p] = {t}]
    /\ Return(p, "nothing")
    /\ UNCHANGED <<path, excl, shared, fd, name>>

-----------------------------------------------------------------------------
(* release. *)

\* The last token takes the lock with it.
Release(p, t) ==
    /\ pc[p] = "idle" /\ t \in tokens[p]
    /\ tokens' = [tokens EXCEPT ![p] = @ \ {t}]
    /\ Begin(p, IF tokens[p] = {t} THEN "unlink" ELSE "idle")
    /\ UNCHANGED <<fileVars, fd>>

\* os.unlink, whose failure is ignored, then os.close.
LetGo(p) ==
    /\ \/ /\ pc[p] = "unlink" /\ Goto(p, "close")
          /\ path' \in {None, path} /\ UNCHANGED <<excl, fd, tries, said>>
       \/ /\ pc[p] = "close" /\ Return(p, "nothing")
          /\ excl' = [excl EXCEPT ![fd[p]] = None]
          /\ CloseFd(p) /\ UNCHANGED path
    /\ UNCHANGED <<content, shared, tokens, name>>

-----------------------------------------------------------------------------
(* owner, asked by a process that does not hold the lock itself. *)

Owner(p) ==
    /\ pc[p] = "idle" /\ tokens[p] = {}
    /\ Begin(p, "find")
    /\ UNCHANGED <<fileVars, tokens, fd>>

\* os.open without O_CREAT.
Find(p) ==
    /\ pc[p] = "find"
    /\ \/ path = None /\ Return(p, "nobody") /\ UNCHANGED fd
       \/ path # None /\ fd' = [fd EXCEPT ![p] = path] /\ Goto(p, "probe") /\ UNCHANGED <<tries, said>>
    /\ UNCHANGED <<fileVars, tokens, name>>

\* flock(LOCK_SH | LOCK_NB).
Probe(p) ==
    /\ pc[p] = "probe"
    /\ \/ /\ excl[fd[p]] = None
          /\ shared' = [shared EXCEPT ![fd[p]] = @ \cup {p}]
          /\ Goto(p, "free")
       \/ excl[fd[p]] # None /\ Goto(p, "read") /\ UNCHANGED shared
    /\ UNCHANGED <<path, content, excl, tokens, fd, tries, said, name>>

\* Mutant: an empty file is nobody's.
ReadingHopeful(p) == IF content[fd[p]] = None THEN "nobody" ELSE "named"

\* "" when the file is empty.
Reading(p) == IF content[fd[p]] = None THEN "unreadable" ELSE "named"

\* os.pread and os.close.
Read(p) ==
    /\ pc[p] = "read"
    /\ Return(p, Reading(p))
    /\ name' = [name EXCEPT ![p] = content[fd[p]]]
    /\ CloseFd(p)
    /\ UNCHANGED <<fileVars, tokens>>

\* The lock was free: os.close drops the shared one.
SayNobody(p) ==
    /\ pc[p] = "free"
    /\ shared' = [shared EXCEPT ![fd[p]] = @ \ {p}]
    /\ CloseFd(p) /\ Return(p, "nobody")
    /\ UNCHANGED <<path, content, excl, tokens, name>>

-----------------------------------------------------------------------------
\* The process dies: the kernel closes its descriptors.  The file stays.
Crash(p) ==
    /\ excl' = [i \in Inodes |-> IF excl[i] = p THEN None ELSE excl[i]]
    /\ shared' = [i \in Inodes |-> shared[i] \ {p}]
    /\ tokens' = [tokens EXCEPT ![p] = {}]
    /\ name' = [name EXCEPT ![p] = None]
    /\ Return(p, "nothing") /\ CloseFd(p)
    /\ UNCHANGED <<path, content>>

Step(p) ==
    \/ \E t \in Tokens : AddToken(p, t) \/ Write(p, t) \/ Release(p, t)
    \/ Acquire(p) \/ GiveUp(p) \/ Open(p) \/ Lock(p) \/ Check(p) \/ Truncate(p)
    \/ LetGo(p)
    \/ Owner(p) \/ Find(p) \/ Probe(p) \/ Read(p) \/ SayNobody(p)
    \/ Crash(p)

\* The history of each call: the holders from its first state to its last.
Watch ==
    seen' = [p \in Procs |->
       IF pc'[p] = "idle" /\ said'[p] = "nothing" THEN {}
       ELSE IF pc'[p] = "idle" /\ pc[p] = "idle" THEN seen[p]
       ELSE (IF pc[p] = "idle" THEN {Holder} ELSE seen[p]) \cup {Holder'}]

Next == (\E p \in Procs : Step(p)) /\ Watch

Spec == Init /\ [][Next]_vars

-----------------------------------------------------------------------------
(* Properties. *)

\* The file, its locks and the state of each process's call (OwnerLocks).
TypeOK ==
    /\ path \in Inodes \cup {None}
    /\ content \in [Inodes -> Procs \cup {None}]
    /\ excl \in [Inodes -> Procs \cup {None}]
    /\ shared \in [Inodes -> SUBSET Procs]
    /\ tokens \in [Procs -> SUBSET Tokens]
    /\ pc \in [Procs -> Labels] /\ fd \in [Procs -> Inodes \cup {None}]
    /\ tries \in [Procs -> 0..Tries]
    /\ said \in [Procs -> Answers] /\ name \in [Procs -> Procs \cup {None}]
    /\ seen \in [Procs -> SUBSET (Procs \cup {None})]

\* acquire, release: a process with a token holds the lock of the file that the
\* name leads to, whatever was unlinked, replaced or left by the dead.  Two
\* processes never own the session at once.
OwnedIsLocked == \A p \in Procs : tokens[p] # {} => Holder = p

\* acquire: whoever finds the session owned finds the owner's name.
OwnerIsNamed ==
    \A p \in Procs : tokens[p] # {} => path = fd[p] /\ content[fd[p]] = p

\* owner: "nobody" is the truth of some moment of the call.
NobodyIsTrue == \A p \in Procs : said[p] = "nobody" => None \in seen[p]

\* OwnerLocks implements OneOwner.
Promise == INSTANCE OneOwner WITH holder <- Holder
KeepsPromise == Promise!Spec

-----------------------------------------------------------------------------
\* Nothing tells processes, tokens or inodes apart: TLC may permute them.
Symmetry == Permutations(Procs) \cup Permutations(Tokens) \cup Permutations(Inodes)
=============================================================================

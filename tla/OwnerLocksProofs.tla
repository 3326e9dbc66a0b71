-------------------------- MODULE OwnerLocksProofs --------------------------
(***************************************************************************)
(* Proofs about OwnerLocks for any number of processes, tokens, inodes and *)
(* tries: the lock file protocol implements OneOwner, a process with a     *)
(* token is the holder and is named in the file, and owner's "nobody" is   *)
(* true.                                                                   *)
(*                                                                         *)
(* The invariant: an exclusive lock is its process's, which has that inode *)
(* open; and from the moment acquire has compared the inodes until release *)
(* has removed the file, the name leads to the inode that is locked.  Two  *)
(* holders would share the inode, and so the lock.                         *)
(***************************************************************************)
EXTENDS OwnerLocks, TLAPS

\* The calls in which p has an inode open, has it locked, and has compared it.
HasFd(p) ==
    tokens[p] # {} \/ pc[p] \in {"lock", "check", "truncate", "write", "unlink", "close",
                                 "probe", "read", "free"}
Locking(p) ==
    tokens[p] # {} \/ pc[p] \in {"check", "truncate", "write", "unlink", "close"}
Owning(p) == tokens[p] # {} \/ pc[p] \in {"truncate", "write", "unlink"}

FdOK(p) ==
    /\ HasFd(p) => fd[p] \in Inodes
    /\ pc[p] # "idle" => tokens[p] = {} /\ said[p] = "nothing"
LockOK(p) == Locking(p) => excl[fd[p]] = p
NameOK(p) == Owning(p) => path = fd[p]
ContentOK(p) == tokens[p] # {} => content[fd[p]] = p
HeldOK(p) == \A i \in Inodes : excl[i] = p => fd[p] = i /\ Locking(p)

\* The history of a call holds what its answer rests on.
SeenOK(p) ==
    /\ pc[p] # "idle" => Holder \in seen[p]
    /\ pc[p] = "probe" => path = fd[p] \/ None \in seen[p]
    /\ pc[p] = "free" \/ said[p] = "nobody" => None \in seen[p]

ProcOK(p) == FdOK(p) /\ LockOK(p) /\ NameOK(p) /\ ContentOK(p) /\ HeldOK(p)

IInv == TypeOK /\ \A p \in Procs : ProcOK(p) /\ SeenOK(p)

\* What a step of p may do to the holder.
HolderStep(p) ==
    \/ Holder' = Holder
    \/ Holder = None /\ Holder' = p
    \/ Holder = p /\ Holder' = None

-----------------------------------------------------------------------------
\* Watch: a history follows the holder, for whatever keeps the locks right.
LEMMA WatchStep ==
    ASSUME IInv, Watch, NEW r \in Procs,
           Holder' \in Procs \cup {None}, FdOK(r)',
           pc'[r] = "probe" => path' = fd'[r] \/ Holder' = None
                               \/ (pc[r] = "probe" /\ None \in seen[r]),
           pc'[r] = "free" => None \in seen[r] /\ pc[r] # "idle",
           said'[r] = "nobody" => \/ pc[r] # "idle" /\ None \in seen[r]
                                  \/ pc[r] = "idle" /\ pc'[r] = "idle" /\ said[r] = "nobody"
    PROVE  SeenOK(r)' /\ seen' \in [Procs -> SUBSET (Procs \cup {None})]
<1>1. Holder \in Procs \cup {None}
  BY DEF IInv, TypeOK, Holder
<1>2. seen' \in [Procs -> SUBSET (Procs \cup {None})]
  BY <1>1 DEF IInv, TypeOK, Watch
<1>3. seen'[r] = IF pc'[r] = "idle" /\ said'[r] = "nothing" THEN {}
                 ELSE IF pc'[r] = "idle" /\ pc[r] = "idle" THEN seen[r]
                 ELSE (IF pc[r] = "idle" THEN {Holder} ELSE seen[r]) \cup {Holder'}
  BY DEF Watch
<1>4. SeenOK(r)
  BY DEF IInv
<1>5. (pc[r] # "idle" => Holder \in seen[r])'
  BY <1>3
<1>6. (pc[r] = "probe" => path = fd[r] \/ None \in seen[r])'
  BY <1>3
<1>7. (pc[r] = "free" \/ said[r] = "nobody" => None \in seen[r])'
  BY <1>3, <1>4 DEF SeenOK, FdOK
<1>8. QED
  BY <1>2, <1>5, <1>6, <1>7 DEF SeenOK

\* A token more changes nothing of the lock.
LEMMA AddTokenStep ==
    ASSUME IInv, NEW p \in Procs, NEW t \in Tokens, AddToken(p, t), Watch
    PROVE  IInv' /\ HolderStep(p)
<1> USE OwnerAssumption
<1>1. TypeOK /\ \A r \in Procs : ProcOK(r) /\ SeenOK(r)
  BY DEF IInv
<1>2. /\ path' \in Inodes \cup {None} /\ content' \in [Inodes -> Procs \cup {None}]
      /\ excl' \in [Inodes -> Procs \cup {None}] /\ shared' \in [Inodes -> SUBSET Procs]
  BY <1>1 DEF TypeOK, AddToken, Goto, fileVars
<1>3. /\ tokens' \in [Procs -> SUBSET Tokens] /\ pc' \in [Procs -> Labels]
      /\ fd' \in [Procs -> Inodes \cup {None}] /\ tries' \in [Procs -> 0..Tries]
  BY <1>1 DEF TypeOK, AddToken, Goto, fileVars
<1>4. said' \in [Procs -> Answers] /\ name' \in [Procs -> Procs \cup {None}]
  BY <1>1 DEF TypeOK, AddToken, Goto, fileVars
<1>5. ASSUME NEW r \in Procs PROVE ProcOK(r)'
  <2>1. FdOK(r)'
    BY <1>1 DEF TypeOK, ProcOK, FdOK, HasFd, AddToken, Goto, fileVars
  <2>2. LockOK(r)'
    BY <1>1 DEF TypeOK, ProcOK, LockOK, Locking, AddToken, Goto, fileVars
  <2>3. NameOK(r)'
    BY <1>1 DEF TypeOK, ProcOK, NameOK, Owning, AddToken, Goto, fileVars
  <2>4. ContentOK(r)'
    BY <1>1 DEF TypeOK, ProcOK, ContentOK, AddToken, Goto, fileVars
  <2>5. HeldOK(r)'
    BY <1>1 DEF TypeOK, ProcOK, HeldOK, Locking, AddToken, Goto, fileVars
  <2>6. QED
    BY <2>1, <2>2, <2>3, <2>4, <2>5 DEF ProcOK
<1>6. HolderStep(p)
  BY <1>1 DEF TypeOK, HolderStep, Holder, AddToken, Goto, fileVars
<1>7. Holder' \in Procs \cup {None}
  BY <1>2 DEF Holder
<1>8. ASSUME NEW r \in Procs
      PROVE  SeenOK(r)' /\ seen' \in [Procs -> SUBSET (Procs \cup {None})]
  <2>1. pc'[r] = "probe" => path' = fd'[r] \/ Holder' = None
                              \/ (pc[r] = "probe" /\ None \in seen[r])
    BY <1>1 DEF TypeOK, SeenOK, AddToken, Goto, fileVars
  <2>2. pc'[r] = "free" => None \in seen[r] /\ pc[r] # "idle"
    BY <1>1 DEF TypeOK, SeenOK, AddToken, Goto, fileVars
  <2>3. said'[r] = "nobody" => \/ pc[r] # "idle" /\ None \in seen[r]
                               \/ pc[r] = "idle" /\ pc'[r] = "idle" /\ said[r] = "nobody"
    BY <1>1 DEF TypeOK, SeenOK, AddToken, Goto, fileVars
  <2>4. FdOK(r)'
    BY <1>5 DEF ProcOK
  <2>5. QED
    BY <1>7, <2>1, <2>2, <2>3, <2>4, WatchStep
<1>9. TypeOK'
  BY <1>2, <1>3, <1>4, <1>8 DEF TypeOK
<1>10. QED
  BY <1>5, <1>6, <1>8, <1>9 DEF IInv

\* A new call touches no lock.
LEMMA AcquireStep ==
    ASSUME IInv, NEW p \in Procs, Acquire(p), Watch
    PROVE  IInv' /\ HolderStep(p)
<1> USE OwnerAssumption
<1>1. TypeOK /\ \A r \in Procs : ProcOK(r) /\ SeenOK(r)
  BY DEF IInv
<1>2. /\ path' \in Inodes \cup {None} /\ content' \in [Inodes -> Procs \cup {None}]
      /\ excl' \in [Inodes -> Procs \cup {None}] /\ shared' \in [Inodes -> SUBSET Procs]
  BY <1>1 DEF TypeOK, Acquire, Begin, Goto, fileVars
<1>3. /\ tokens' \in [Procs -> SUBSET Tokens] /\ pc' \in [Procs -> Labels]
      /\ fd' \in [Procs -> Inodes \cup {None}] /\ tries' \in [Procs -> 0..Tries]
  BY <1>1 DEF TypeOK, Labels, Acquire, Begin, Goto, fileVars
<1>4. said' \in [Procs -> Answers] /\ name' \in [Procs -> Procs \cup {None}]
  BY <1>1 DEF TypeOK, Answers, Acquire, Begin, Goto, fileVars
<1>5. ASSUME NEW r \in Procs PROVE ProcOK(r)'
  <2>1. FdOK(r)'
    BY <1>1 DEF TypeOK, ProcOK, FdOK, HasFd, Acquire, Begin, Goto, fileVars
  <2>2. LockOK(r)'
    BY <1>1 DEF TypeOK, ProcOK, LockOK, Locking, Acquire, Begin, Goto, fileVars
  <2>3. NameOK(r)'
    BY <1>1 DEF TypeOK, ProcOK, NameOK, Owning, Acquire, Begin, Goto, fileVars
  <2>4. ContentOK(r)'
    BY <1>1 DEF TypeOK, ProcOK, ContentOK, Acquire, Begin, Goto, fileVars
  <2>5. HeldOK(r)'
    BY <1>1 DEF TypeOK, ProcOK, HeldOK, Locking, Acquire, Begin, Goto, fileVars
  <2>6. QED
    BY <2>1, <2>2, <2>3, <2>4, <2>5 DEF ProcOK
<1>6. HolderStep(p)
  BY <1>1 DEF TypeOK, HolderStep, Holder, Acquire, Begin, Goto, fileVars
<1>7. Holder' \in Procs \cup {None}
  BY <1>2 DEF Holder
<1>8. ASSUME NEW r \in Procs
      PROVE  SeenOK(r)' /\ seen' \in [Procs -> SUBSET (Procs \cup {None})]
  <2>1. pc'[r] = "probe" => path' = fd'[r] \/ Holder' = None
                              \/ (pc[r] = "probe" /\ None \in seen[r])
    BY <1>1 DEF TypeOK, SeenOK, Acquire, Begin, Goto, fileVars
  <2>2. pc'[r] = "free" => None \in seen[r] /\ pc[r] # "idle"
    BY <1>1 DEF TypeOK, SeenOK, Acquire, Begin, Goto, fileVars
  <2>3. said'[r] = "nobody" => \/ pc[r] # "idle" /\ None \in seen[r]
                               \/ pc[r] = "idle" /\ pc'[r] = "idle" /\ said[r] = "nobody"
    BY <1>1 DEF TypeOK, SeenOK, Acquire, Begin, Goto, fileVars
  <2>4. FdOK(r)'
    BY <1>5 DEF ProcOK
  <2>5. QED
    BY <1>7, <2>1, <2>2, <2>3, <2>4, WatchStep
<1>9. TypeOK'
  BY <1>2, <1>3, <1>4, <1>8 DEF TypeOK
<1>10. QED
  BY <1>5, <1>6, <1>8, <1>9 DEF IInv

\* acquire gives up with no descriptor open.
LEMMA GiveUpStep ==
    ASSUME IInv, NEW p \in Procs, GiveUp(p), Watch
    PROVE  IInv' /\ HolderStep(p)
<1> USE OwnerAssumption
<1>1. TypeOK /\ \A r \in Procs : ProcOK(r) /\ SeenOK(r)
  BY DEF IInv
<1>2. /\ path' \in Inodes \cup {None} /\ content' \in [Inodes -> Procs \cup {None}]
      /\ excl' \in [Inodes -> Procs \cup {None}] /\ shared' \in [Inodes -> SUBSET Procs]
  BY <1>1 DEF TypeOK, GiveUp, Return, Goto, fileVars
<1>3. /\ tokens' \in [Procs -> SUBSET Tokens] /\ pc' \in [Procs -> Labels]
      /\ fd' \in [Procs -> Inodes \cup {None}] /\ tries' \in [Procs -> 0..Tries]
  BY <1>1 DEF TypeOK, Labels, GiveUp, Return, Goto, fileVars
<1>4. said' \in [Procs -> Answers] /\ name' \in [Procs -> Procs \cup {None}]
  BY <1>1 DEF TypeOK, Answers, GiveUp, Return, Goto, fileVars
<1>5. ASSUME NEW r \in Procs PROVE ProcOK(r)'
  <2>1. FdOK(r)'
    BY <1>1 DEF TypeOK, ProcOK, FdOK, HasFd, GiveUp, Return, Goto, fileVars
  <2>2. LockOK(r)'
    BY <1>1 DEF TypeOK, ProcOK, LockOK, Locking, GiveUp, Return, Goto, fileVars
  <2>3. NameOK(r)'
    BY <1>1 DEF TypeOK, ProcOK, NameOK, Owning, GiveUp, Return, Goto, fileVars
  <2>4. ContentOK(r)'
    BY <1>1 DEF TypeOK, ProcOK, ContentOK, GiveUp, Return, Goto, fileVars
  <2>5. HeldOK(r)'
    BY <1>1 DEF TypeOK, ProcOK, HeldOK, Locking, GiveUp, Return, Goto, fileVars
  <2>6. QED
    BY <2>1, <2>2, <2>3, <2>4, <2>5 DEF ProcOK
<1>6. HolderStep(p)
  BY <1>1 DEF TypeOK, HolderStep, Holder, GiveUp, Return, Goto, fileVars
<1>7. Holder' \in Procs \cup {None}
  BY <1>2 DEF Holder
<1>8. ASSUME NEW r \in Procs
      PROVE  SeenOK(r)' /\ seen' \in [Procs -> SUBSET (Procs \cup {None})]
  <2>1. pc'[r] = "probe" => path' = fd'[r] \/ Holder' = None
                              \/ (pc[r] = "probe" /\ None \in seen[r])
    BY <1>1 DEF TypeOK, SeenOK, GiveUp, Return, Goto, fileVars
  <2>2. pc'[r] = "free" => None \in seen[r] /\ pc[r] # "idle"
    BY <1>1 DEF TypeOK, SeenOK, GiveUp, Return, Goto, fileVars
  <2>3. said'[r] = "nobody" => \/ pc[r] # "idle" /\ None \in seen[r]
                               \/ pc[r] = "idle" /\ pc'[r] = "idle" /\ said[r] = "nobody"
    BY <1>1 DEF TypeOK, SeenOK, GiveUp, Return, Goto, fileVars
  <2>4. FdOK(r)'
    BY <1>5 DEF ProcOK
  <2>5. QED
    BY <1>7, <2>1, <2>2, <2>3, <2>4, WatchStep
<1>9. TypeOK'
  BY <1>2, <1>3, <1>4, <1>8 DEF TypeOK
<1>10. QED
  BY <1>5, <1>6, <1>8, <1>9 DEF IInv

\* A file is created only where there is none, under a number nobody has open.
LEMMA OpenStep ==
    ASSUME IInv, NEW p \in Procs, Open(p), Watch
    PROVE  IInv' /\ HolderStep(p)
<1> USE OwnerAssumption
<1>1. TypeOK /\ \A r \in Procs : ProcOK(r) /\ SeenOK(r)
  BY DEF IInv
<1>2. /\ path' \in Inodes \cup {None} /\ content' \in [Inodes -> Procs \cup {None}]
      /\ excl' \in [Inodes -> Procs \cup {None}] /\ shared' \in [Inodes -> SUBSET Procs]
  BY <1>1 DEF TypeOK, Open, Unused, Goto, fileVars
<1>3. /\ tokens' \in [Procs -> SUBSET Tokens] /\ pc' \in [Procs -> Labels]
      /\ fd' \in [Procs -> Inodes \cup {None}] /\ tries' \in [Procs -> 0..Tries]
  BY <1>1 DEF TypeOK, Labels, OutOfTries, Open, Unused, Goto, fileVars
<1>4. said' \in [Procs -> Answers] /\ name' \in [Procs -> Procs \cup {None}]
  BY <1>1 DEF TypeOK, Open, Unused, Goto, fileVars
<1>5. ASSUME NEW r \in Procs PROVE ProcOK(r)'
  <2>1. FdOK(r)'
    BY <1>1 DEF TypeOK, ProcOK, FdOK, HasFd, Open, Unused, Goto, fileVars
  <2>2. LockOK(r)'
    BY <1>1 DEF TypeOK, ProcOK, FdOK, HasFd, LockOK, Locking, Open, Unused, Goto, fileVars
  <2>3. NameOK(r)'
    BY <1>1 DEF TypeOK, ProcOK, FdOK, HasFd, NameOK, Owning, Open, Unused, Goto, fileVars
  <2>4. ContentOK(r)'
    BY <1>1 DEF TypeOK, ProcOK, FdOK, HasFd, ContentOK, Open, Unused, Goto, fileVars
  <2>5. HeldOK(r)'
    BY <1>1 DEF TypeOK, ProcOK, FdOK, HasFd, HeldOK, Locking, Open, Unused, Goto, fileVars
  <2>6. QED
    BY <2>1, <2>2, <2>3, <2>4, <2>5 DEF ProcOK
<1>6. HolderStep(p)
  BY <1>1 DEF TypeOK, HolderStep, Holder, ProcOK, FdOK, HasFd, HeldOK, Open, Unused, Goto,
         fileVars
<1>7. Holder' \in Procs \cup {None}
  BY <1>2 DEF Holder
<1>8. ASSUME NEW r \in Procs
      PROVE  SeenOK(r)' /\ seen' \in [Procs -> SUBSET (Procs \cup {None})]
  <2>1. pc'[r] = "probe" => path' = fd'[r] \/ Holder' = None
                              \/ (pc[r] = "probe" /\ None \in seen[r])
    BY <1>1 DEF TypeOK, SeenOK, Holder, Open, Unused, Goto, fileVars
  <2>2. pc'[r] = "free" => None \in seen[r] /\ pc[r] # "idle"
    BY <1>1 DEF TypeOK, SeenOK, Open, Unused, Goto, fileVars
  <2>3. said'[r] = "nobody" => \/ pc[r] # "idle" /\ None \in seen[r]
                               \/ pc[r] = "idle" /\ pc'[r] = "idle" /\ said[r] = "nobody"
    BY <1>1 DEF TypeOK, SeenOK, Open, Unused, Goto, fileVars
  <2>4. FdOK(r)'
    BY <1>5 DEF ProcOK
  <2>5. QED
    BY <1>7, <2>1, <2>2, <2>3, <2>4, WatchStep
<1>9. TypeOK'
  BY <1>2, <1>3, <1>4, <1>8 DEF TypeOK
<1>10. QED
  BY <1>5, <1>6, <1>8, <1>9 DEF IInv

\* A lock on the named inode makes its process the holder; one on an unlinked inode does not.
LEMMA LockStep ==
    ASSUME IInv, NEW p \in Procs, Lock(p), Watch
    PROVE  IInv' /\ HolderStep(p)
<1> USE OwnerAssumption
<1>1. TypeOK /\ \A r \in Procs : ProcOK(r) /\ SeenOK(r)
  BY DEF IInv
<1>2. /\ path' \in Inodes \cup {None} /\ content' \in [Inodes -> Procs \cup {None}]
      /\ excl' \in [Inodes -> Procs \cup {None}] /\ shared' \in [Inodes -> SUBSET Procs]
  BY <1>1 DEF TypeOK, Lock, Return, CloseFd, Goto, fileVars
<1>3. /\ tokens' \in [Procs -> SUBSET Tokens] /\ pc' \in [Procs -> Labels]
      /\ fd' \in [Procs -> Inodes \cup {None}] /\ tries' \in [Procs -> 0..Tries]
  BY <1>1 DEF TypeOK, Labels, Lock, Return, CloseFd, Goto, fileVars
<1>4. said' \in [Procs -> Answers] /\ name' \in [Procs -> Procs \cup {None}]
  BY <1>1 DEF TypeOK, Answers, Lock, Return, CloseFd, Goto, fileVars
<1>5. ASSUME NEW r \in Procs PROVE ProcOK(r)'
  <2>1. FdOK(r)'
    BY <1>1 DEF TypeOK, ProcOK, FdOK, HasFd, Lock, Return, CloseFd, Goto, fileVars
  <2>2. LockOK(r)'
    BY <1>1 DEF TypeOK, ProcOK, FdOK, HasFd, LockOK, Locking, Lock, Return, CloseFd, Goto,
           fileVars
  <2>3. NameOK(r)'
    BY <1>1 DEF TypeOK, ProcOK, FdOK, HasFd, NameOK, Owning, Lock, Return, CloseFd, Goto,
           fileVars
  <2>4. ContentOK(r)'
    BY <1>1 DEF TypeOK, ProcOK, FdOK, HasFd, ContentOK, Lock, Return, CloseFd, Goto,
           fileVars
  <2>5. HeldOK(r)'
    BY <1>1 DEF TypeOK, ProcOK, FdOK, HasFd, HeldOK, Locking, Lock, Return, CloseFd, Goto,
           fileVars
  <2>6. QED
    BY <2>1, <2>2, <2>3, <2>4, <2>5 DEF ProcOK
<1>6. HolderStep(p)
  BY <1>1 DEF TypeOK, HolderStep, Holder, Lock, Return, CloseFd, Goto, fileVars
<1>7. Holder' \in Procs \cup {None}
  BY <1>2 DEF Holder
<1>8. ASSUME NEW r \in Procs
      PROVE  SeenOK(r)' /\ seen' \in [Procs -> SUBSET (Procs \cup {None})]
  <2>1. pc'[r] = "probe" => path' = fd'[r] \/ Holder' = None
                              \/ (pc[r] = "probe" /\ None \in seen[r])
    BY <1>1 DEF TypeOK, SeenOK, Lock, Return, CloseFd, Goto, fileVars
  <2>2. pc'[r] = "free" => None \in seen[r] /\ pc[r] # "idle"
    BY <1>1 DEF TypeOK, SeenOK, Lock, Return, CloseFd, Goto, fileVars
  <2>3. said'[r] = "nobody" => \/ pc[r] # "idle" /\ None \in seen[r]
                               \/ pc[r] = "idle" /\ pc'[r] = "idle" /\ said[r] = "nobody"
    BY <1>1 DEF TypeOK, SeenOK, Lock, Return, CloseFd, Goto, fileVars
  <2>4. FdOK(r)'
    BY <1>5 DEF ProcOK
  <2>5. QED
    BY <1>7, <2>1, <2>2, <2>3, <2>4, WatchStep
<1>9. TypeOK'
  BY <1>2, <1>3, <1>4, <1>8 DEF TypeOK
<1>10. QED
  BY <1>5, <1>6, <1>8, <1>9 DEF IInv

\* Only a lock on an inode without a name is given back.
LEMMA CheckStep ==
    ASSUME IInv, NEW p \in Procs, Check(p), Watch
    PROVE  IInv' /\ HolderStep(p)
<1> USE OwnerAssumption
<1>1. TypeOK /\ \A r \in Procs : ProcOK(r) /\ SeenOK(r)
  BY DEF IInv
<1>2. /\ path' \in Inodes \cup {None} /\ content' \in [Inodes -> Procs \cup {None}]
      /\ excl' \in [Inodes -> Procs \cup {None}] /\ shared' \in [Inodes -> SUBSET Procs]
  BY <1>1 DEF TypeOK, Check, Same, CloseFd, Goto, fileVars
<1>3. /\ tokens' \in [Procs -> SUBSET Tokens] /\ pc' \in [Procs -> Labels]
      /\ fd' \in [Procs -> Inodes \cup {None}] /\ tries' \in [Procs -> 0..Tries]
  BY <1>1 DEF TypeOK, Labels, Check, Same, CloseFd, Goto, fileVars
<1>4. said' \in [Procs -> Answers] /\ name' \in [Procs -> Procs \cup {None}]
  BY <1>1 DEF TypeOK, Check, Same, CloseFd, Goto, fileVars
<1>5. ASSUME NEW r \in Procs PROVE ProcOK(r)'
  <2>1. FdOK(r)'
    BY <1>1 DEF TypeOK, ProcOK, FdOK, HasFd, Check, Same, CloseFd, Goto, fileVars
  <2>2. LockOK(r)'
    BY <1>1 DEF TypeOK, ProcOK, FdOK, HasFd, LockOK, Locking, Check, Same, CloseFd, Goto,
           fileVars
  <2>3. NameOK(r)'
    BY <1>1 DEF TypeOK, ProcOK, NameOK, Owning, Check, Same, CloseFd, Goto, fileVars
  <2>4. ContentOK(r)'
    BY <1>1 DEF TypeOK, ProcOK, FdOK, HasFd, ContentOK, Check, Same, CloseFd, Goto, fileVars
  <2>5. HeldOK(r)'
    BY <1>1 DEF TypeOK, ProcOK, HeldOK, Locking, Check, Same, CloseFd, Goto, fileVars
  <2>6. QED
    BY <2>1, <2>2, <2>3, <2>4, <2>5 DEF ProcOK
<1>6. HolderStep(p)
  BY <1>1 DEF TypeOK, HolderStep, Holder, Check, Same, CloseFd, Goto, fileVars
<1>7. Holder' \in Procs \cup {None}
  BY <1>2 DEF Holder
<1>8. ASSUME NEW r \in Procs
      PROVE  SeenOK(r)' /\ seen' \in [Procs -> SUBSET (Procs \cup {None})]
  <2>1. pc'[r] = "probe" => path' = fd'[r] \/ Holder' = None
                              \/ (pc[r] = "probe" /\ None \in seen[r])
    BY <1>1 DEF TypeOK, SeenOK, Check, Same, CloseFd, Goto, fileVars
  <2>2. pc'[r] = "free" => None \in seen[r] /\ pc[r] # "idle"
    BY <1>1 DEF TypeOK, SeenOK, Check, Same, CloseFd, Goto, fileVars
  <2>3. said'[r] = "nobody" => \/ pc[r] # "idle" /\ None \in seen[r]
                               \/ pc[r] = "idle" /\ pc'[r] = "idle" /\ said[r] = "nobody"
    BY <1>1 DEF TypeOK, SeenOK, Check, Same, CloseFd, Goto, fileVars
  <2>4. FdOK(r)'
    BY <1>5 DEF ProcOK
  <2>5. QED
    BY <1>7, <2>1, <2>2, <2>3, <2>4, WatchStep
<1>9. TypeOK'
  BY <1>2, <1>3, <1>4, <1>8 DEF TypeOK
<1>10. QED
  BY <1>5, <1>6, <1>8, <1>9 DEF IInv

\* Only the holder's file is emptied.
LEMMA TruncateStep ==
    ASSUME IInv, NEW p \in Procs, Truncate(p), Watch
    PROVE  IInv' /\ HolderStep(p)
<1> USE OwnerAssumption
<1>1. TypeOK /\ \A r \in Procs : ProcOK(r) /\ SeenOK(r)
  BY DEF IInv
<1>2. /\ path' \in Inodes \cup {None} /\ content' \in [Inodes -> Procs \cup {None}]
      /\ excl' \in [Inodes -> Procs \cup {None}] /\ shared' \in [Inodes -> SUBSET Procs]
  BY <1>1 DEF TypeOK, Truncate, Goto, fileVars
<1>3. /\ tokens' \in [Procs -> SUBSET Tokens] /\ pc' \in [Procs -> Labels]
      /\ fd' \in [Procs -> Inodes \cup {None}] /\ tries' \in [Procs -> 0..Tries]
  BY <1>1 DEF TypeOK, Labels, Truncate, Goto, fileVars
<1>4. said' \in [Procs -> Answers] /\ name' \in [Procs -> Procs \cup {None}]
  BY <1>1 DEF TypeOK, Truncate, Goto, fileVars
<1>5. ASSUME NEW r \in Procs PROVE ProcOK(r)'
  <2>1. FdOK(r)'
    BY <1>1 DEF TypeOK, ProcOK, FdOK, HasFd, Truncate, Goto, fileVars
  <2>2. LockOK(r)'
    BY <1>1 DEF TypeOK, ProcOK, LockOK, Locking, Truncate, Goto, fileVars
  <2>3. NameOK(r)'
    BY <1>1 DEF TypeOK, ProcOK, NameOK, Owning, Truncate, Goto, fileVars
  <2>4. ContentOK(r)'
    BY <1>1 DEF TypeOK, ProcOK, FdOK, HasFd, LockOK, Locking, NameOK, Owning, ContentOK,
           Truncate, Goto, fileVars
  <2>5. HeldOK(r)'
    BY <1>1 DEF TypeOK, ProcOK, HeldOK, Locking, Truncate, Goto, fileVars
  <2>6. QED
    BY <2>1, <2>2, <2>3, <2>4, <2>5 DEF ProcOK
<1>6. HolderStep(p)
  BY <1>1 DEF TypeOK, HolderStep, Holder, Truncate, Goto, fileVars
<1>7. Holder' \in Procs \cup {None}
  BY <1>2 DEF Holder
<1>8. ASSUME NEW r \in Procs
      PROVE  SeenOK(r)' /\ seen' \in [Procs -> SUBSET (Procs \cup {None})]
  <2>1. pc'[r] = "probe" => path' = fd'[r] \/ Holder' = None
                              \/ (pc[r] = "probe" /\ None \in seen[r])
    BY <1>1 DEF TypeOK, SeenOK, Truncate, Goto, fileVars
  <2>2. pc'[r] = "free" => None \in seen[r] /\ pc[r] # "idle"
    BY <1>1 DEF TypeOK, SeenOK, Truncate, Goto, fileVars
  <2>3. said'[r] = "nobody" => \/ pc[r] # "idle" /\ None \in seen[r]
                               \/ pc[r] = "idle" /\ pc'[r] = "idle" /\ said[r] = "nobody"
    BY <1>1 DEF TypeOK, SeenOK, Truncate, Goto, fileVars
  <2>4. FdOK(r)'
    BY <1>5 DEF ProcOK
  <2>5. QED
    BY <1>7, <2>1, <2>2, <2>3, <2>4, WatchStep
<1>9. TypeOK'
  BY <1>2, <1>3, <1>4, <1>8 DEF TypeOK
<1>10. QED
  BY <1>5, <1>6, <1>8, <1>9 DEF IInv

\* Only the holder writes its name.
LEMMA WriteStep ==
    ASSUME IInv, NEW p \in Procs, NEW t \in Tokens, Write(p, t), Watch
    PROVE  IInv' /\ HolderStep(p)
<1> USE OwnerAssumption
<1>1. TypeOK /\ \A r \in Procs : ProcOK(r) /\ SeenOK(r)
  BY DEF IInv
<1>2. /\ path' \in Inodes \cup {None} /\ content' \in [Inodes -> Procs \cup {None}]
      /\ excl' \in [Inodes -> Procs \cup {None}] /\ shared' \in [Inodes -> SUBSET Procs]
  BY <1>1 DEF TypeOK, Write, Return, NameOf, Goto, fileVars
<1>3. /\ tokens' \in [Procs -> SUBSET Tokens] /\ pc' \in [Procs -> Labels]
      /\ fd' \in [Procs -> Inodes \cup {None}] /\ tries' \in [Procs -> 0..Tries]
  BY <1>1 DEF TypeOK, Labels, Write, Return, NameOf, Goto, fileVars
<1>4. said' \in [Procs -> Answers] /\ name' \in [Procs -> Procs \cup {None}]
  BY <1>1 DEF TypeOK, Answers, Write, Return, NameOf, Goto, fileVars
<1>5. ASSUME NEW r \in Procs PROVE ProcOK(r)'
  <2>1. FdOK(r)'
    BY <1>1 DEF TypeOK, ProcOK, FdOK, HasFd, Write, Return, NameOf, Goto, fileVars
  <2>2. LockOK(r)'
    BY <1>1 DEF TypeOK, ProcOK, LockOK, Locking, Write, Return, NameOf, Goto, fileVars
  <2>3. NameOK(r)'
    BY <1>1 DEF TypeOK, ProcOK, NameOK, Owning, Write, Return, NameOf, Goto, fileVars
  <2>4. ContentOK(r)'
    BY <1>1 DEF TypeOK, ProcOK, FdOK, HasFd, LockOK, Locking, NameOK, Owning, ContentOK,
           Write, Return, NameOf, Goto, fileVars
  <2>5. HeldOK(r)'
    BY <1>1 DEF TypeOK, ProcOK, HeldOK, Locking, Write, Return, NameOf, Goto, fileVars
  <2>6. QED
    BY <2>1, <2>2, <2>3, <2>4, <2>5 DEF ProcOK
<1>6. HolderStep(p)
  BY <1>1 DEF TypeOK, HolderStep, Holder, Write, Return, NameOf, Goto, fileVars
<1>7. Holder' \in Procs \cup {None}
  BY <1>2 DEF Holder
<1>8. ASSUME NEW r \in Procs
      PROVE  SeenOK(r)' /\ seen' \in [Procs -> SUBSET (Procs \cup {None})]
  <2>1. pc'[r] = "probe" => path' = fd'[r] \/ Holder' = None
                              \/ (pc[r] = "probe" /\ None \in seen[r])
    BY <1>1 DEF TypeOK, SeenOK, Write, Return, NameOf, Goto, fileVars
  <2>2. pc'[r] = "free" => None \in seen[r] /\ pc[r] # "idle"
    BY <1>1 DEF TypeOK, SeenOK, Write, Return, NameOf, Goto, fileVars
  <2>3. said'[r] = "nobody" => \/ pc[r] # "idle" /\ None \in seen[r]
                               \/ pc[r] = "idle" /\ pc'[r] = "idle" /\ said[r] = "nobody"
    BY <1>1 DEF TypeOK, SeenOK, Write, Return, NameOf, Goto, fileVars
  <2>4. FdOK(r)'
    BY <1>5 DEF ProcOK
  <2>5. QED
    BY <1>7, <2>1, <2>2, <2>3, <2>4, WatchStep
<1>9. TypeOK'
  BY <1>2, <1>3, <1>4, <1>8 DEF TypeOK
<1>10. QED
  BY <1>5, <1>6, <1>8, <1>9 DEF IInv

\* release begins with the descriptor locked and the file in place.
LEMMA ReleaseStep ==
    ASSUME IInv, NEW p \in Procs, NEW t \in Tokens, Release(p, t), Watch
    PROVE  IInv' /\ HolderStep(p)
<1> USE OwnerAssumption
<1>1. TypeOK /\ \A r \in Procs : ProcOK(r) /\ SeenOK(r)
  BY DEF IInv
<1>2. /\ path' \in Inodes \cup {None} /\ content' \in [Inodes -> Procs \cup {None}]
      /\ excl' \in [Inodes -> Procs \cup {None}] /\ shared' \in [Inodes -> SUBSET Procs]
  BY <1>1 DEF TypeOK, Release, Begin, Goto, fileVars
<1>3. /\ tokens' \in [Procs -> SUBSET Tokens] /\ pc' \in [Procs -> Labels]
      /\ fd' \in [Procs -> Inodes \cup {None}] /\ tries' \in [Procs -> 0..Tries]
  BY <1>1 DEF TypeOK, Labels, Release, Begin, Goto, fileVars
<1>4. said' \in [Procs -> Answers] /\ name' \in [Procs -> Procs \cup {None}]
  BY <1>1 DEF TypeOK, Answers, Release, Begin, Goto, fileVars
<1>5. ASSUME NEW r \in Procs PROVE ProcOK(r)'
  <2>1. FdOK(r)'
    BY <1>1 DEF TypeOK, ProcOK, FdOK, HasFd, Release, Begin, Goto, fileVars
  <2>2. LockOK(r)'
    BY <1>1 DEF TypeOK, ProcOK, LockOK, Locking, Release, Begin, Goto, fileVars
  <2>3. NameOK(r)'
    BY <1>1 DEF TypeOK, ProcOK, NameOK, Owning, Release, Begin, Goto, fileVars
  <2>4. ContentOK(r)'
    BY <1>1 DEF TypeOK, ProcOK, ContentOK, Release, Begin, Goto, fileVars
  <2>5. HeldOK(r)'
    BY <1>1 DEF TypeOK, ProcOK, HeldOK, Locking, Release, Begin, Goto, fileVars
  <2>6. QED
    BY <2>1, <2>2, <2>3, <2>4, <2>5 DEF ProcOK
<1>6. HolderStep(p)
  BY <1>1 DEF TypeOK, HolderStep, Holder, Release, Begin, Goto, fileVars
<1>7. Holder' \in Procs \cup {None}
  BY <1>2 DEF Holder
<1>8. ASSUME NEW r \in Procs
      PROVE  SeenOK(r)' /\ seen' \in [Procs -> SUBSET (Procs \cup {None})]
  <2>1. pc'[r] = "probe" => path' = fd'[r] \/ Holder' = None
                              \/ (pc[r] = "probe" /\ None \in seen[r])
    BY <1>1 DEF TypeOK, SeenOK, Release, Begin, Goto, fileVars
  <2>2. pc'[r] = "free" => None \in seen[r] /\ pc[r] # "idle"
    BY <1>1 DEF TypeOK, SeenOK, Release, Begin, Goto, fileVars
  <2>3. said'[r] = "nobody" => \/ pc[r] # "idle" /\ None \in seen[r]
                               \/ pc[r] = "idle" /\ pc'[r] = "idle" /\ said[r] = "nobody"
    BY <1>1 DEF TypeOK, SeenOK, Release, Begin, Goto, fileVars
  <2>4. FdOK(r)'
    BY <1>5 DEF ProcOK
  <2>5. QED
    BY <1>7, <2>1, <2>2, <2>3, <2>4, WatchStep
<1>9. TypeOK'
  BY <1>2, <1>3, <1>4, <1>8 DEF TypeOK
<1>10. QED
  BY <1>5, <1>6, <1>8, <1>9 DEF IInv

\* The name is removed by the holder alone, before the lock.
LEMMA LetGoStep ==
    ASSUME IInv, NEW p \in Procs, LetGo(p), Watch
    PROVE  IInv' /\ HolderStep(p)
<1> USE OwnerAssumption
<1>1. TypeOK /\ \A r \in Procs : ProcOK(r) /\ SeenOK(r)
  BY DEF IInv
<1>2. /\ path' \in Inodes \cup {None} /\ content' \in [Inodes -> Procs \cup {None}]
      /\ excl' \in [Inodes -> Procs \cup {None}] /\ shared' \in [Inodes -> SUBSET Procs]
  BY <1>1 DEF TypeOK, LetGo, Return, CloseFd, Goto, fileVars
<1>3. /\ tokens' \in [Procs -> SUBSET Tokens] /\ pc' \in [Procs -> Labels]
      /\ fd' \in [Procs -> Inodes \cup {None}] /\ tries' \in [Procs -> 0..Tries]
  BY <1>1 DEF TypeOK, Labels, LetGo, Return, CloseFd, Goto, fileVars
<1>4. said' \in [Procs -> Answers] /\ name' \in [Procs -> Procs \cup {None}]
  BY <1>1 DEF TypeOK, Answers, LetGo, Return, CloseFd, Goto, fileVars
<1>5. ASSUME NEW r \in Procs PROVE ProcOK(r)'
  <2>1. FdOK(r)'
    BY <1>1 DEF TypeOK, ProcOK, FdOK, HasFd, LetGo, Return, CloseFd, Goto, fileVars
  <2>2. LockOK(r)'
    BY <1>1 DEF TypeOK, ProcOK, FdOK, HasFd, LockOK, Locking, LetGo, Return, CloseFd, Goto,
           fileVars
  <2>3. NameOK(r)'
    BY <1>1 DEF TypeOK, ProcOK, FdOK, HasFd, LockOK, Locking, NameOK, Owning, LetGo, Return,
           CloseFd, Goto, fileVars
  <2>4. ContentOK(r)'
    BY <1>1 DEF TypeOK, ProcOK, FdOK, HasFd, ContentOK, LetGo, Return, CloseFd, Goto,
           fileVars
  <2>5. HeldOK(r)'
    BY <1>1 DEF TypeOK, ProcOK, HeldOK, Locking, LetGo, Return, CloseFd, Goto, fileVars
  <2>6. QED
    BY <2>1, <2>2, <2>3, <2>4, <2>5 DEF ProcOK
<1>6. HolderStep(p)
  BY <1>1 DEF TypeOK, HolderStep, Holder, ProcOK, FdOK, HasFd, LockOK, Locking, NameOK,
         Owning, LetGo, Return, CloseFd, Goto, fileVars
<1>7. Holder' \in Procs \cup {None}
  BY <1>2 DEF Holder
<1>8. ASSUME NEW r \in Procs
      PROVE  SeenOK(r)' /\ seen' \in [Procs -> SUBSET (Procs \cup {None})]
  <2>1. pc'[r] = "probe" => path' = fd'[r] \/ Holder' = None
                              \/ (pc[r] = "probe" /\ None \in seen[r])
    BY <1>1 DEF TypeOK, SeenOK, Holder, LetGo, Return, CloseFd, Goto, fileVars
  <2>2. pc'[r] = "free" => None \in seen[r] /\ pc[r] # "idle"
    BY <1>1 DEF TypeOK, SeenOK, LetGo, Return, CloseFd, Goto, fileVars
  <2>3. said'[r] = "nobody" => \/ pc[r] # "idle" /\ None \in seen[r]
                               \/ pc[r] = "idle" /\ pc'[r] = "idle" /\ said[r] = "nobody"
    BY <1>1 DEF TypeOK, SeenOK, LetGo, Return, CloseFd, Goto, fileVars
  <2>4. FdOK(r)'
    BY <1>5 DEF ProcOK
  <2>5. QED
    BY <1>7, <2>1, <2>2, <2>3, <2>4, WatchStep
<1>9. TypeOK'
  BY <1>2, <1>3, <1>4, <1>8 DEF TypeOK
<1>10. QED
  BY <1>5, <1>6, <1>8, <1>9 DEF IInv

\* A new call touches no lock.
LEMMA OwnerStep ==
    ASSUME IInv, NEW p \in Procs, Owner(p), Watch
    PROVE  IInv' /\ HolderStep(p)
<1> USE OwnerAssumption
<1>1. TypeOK /\ \A r \in Procs : ProcOK(r) /\ SeenOK(r)
  BY DEF IInv
<1>2. /\ path' \in Inodes \cup {None} /\ content' \in [Inodes -> Procs \cup {None}]
      /\ excl' \in [Inodes -> Procs \cup {None}] /\ shared' \in [Inodes -> SUBSET Procs]
  BY <1>1 DEF TypeOK, Owner, Begin, Goto, fileVars
<1>3. /\ tokens' \in [Procs -> SUBSET Tokens] /\ pc' \in [Procs -> Labels]
      /\ fd' \in [Procs -> Inodes \cup {None}] /\ tries' \in [Procs -> 0..Tries]
  BY <1>1 DEF TypeOK, Labels, Owner, Begin, Goto, fileVars
<1>4. said' \in [Procs -> Answers] /\ name' \in [Procs -> Procs \cup {None}]
  BY <1>1 DEF TypeOK, Answers, Owner, Begin, Goto, fileVars
<1>5. ASSUME NEW r \in Procs PROVE ProcOK(r)'
  <2>1. FdOK(r)'
    BY <1>1 DEF TypeOK, ProcOK, FdOK, HasFd, Owner, Begin, Goto, fileVars
  <2>2. LockOK(r)'
    BY <1>1 DEF TypeOK, ProcOK, LockOK, Locking, Owner, Begin, Goto, fileVars
  <2>3. NameOK(r)'
    BY <1>1 DEF TypeOK, ProcOK, NameOK, Owning, Owner, Begin, Goto, fileVars
  <2>4. ContentOK(r)'
    BY <1>1 DEF TypeOK, ProcOK, ContentOK, Owner, Begin, Goto, fileVars
  <2>5. HeldOK(r)'
    BY <1>1 DEF TypeOK, ProcOK, HeldOK, Locking, Owner, Begin, Goto, fileVars
  <2>6. QED
    BY <2>1, <2>2, <2>3, <2>4, <2>5 DEF ProcOK
<1>6. HolderStep(p)
  BY <1>1 DEF TypeOK, HolderStep, Holder, Owner, Begin, Goto, fileVars
<1>7. Holder' \in Procs \cup {None}
  BY <1>2 DEF Holder
<1>8. ASSUME NEW r \in Procs
      PROVE  SeenOK(r)' /\ seen' \in [Procs -> SUBSET (Procs \cup {None})]
  <2>1. pc'[r] = "probe" => path' = fd'[r] \/ Holder' = None
                              \/ (pc[r] = "probe" /\ None \in seen[r])
    BY <1>1 DEF TypeOK, SeenOK, Owner, Begin, Goto, fileVars
  <2>2. pc'[r] = "free" => None \in seen[r] /\ pc[r] # "idle"
    BY <1>1 DEF TypeOK, SeenOK, Owner, Begin, Goto, fileVars
  <2>3. said'[r] = "nobody" => \/ pc[r] # "idle" /\ None \in seen[r]
                               \/ pc[r] = "idle" /\ pc'[r] = "idle" /\ said[r] = "nobody"
    BY <1>1 DEF TypeOK, SeenOK, Owner, Begin, Goto, fileVars
  <2>4. FdOK(r)'
    BY <1>5 DEF ProcOK
  <2>5. QED
    BY <1>7, <2>1, <2>2, <2>3, <2>4, WatchStep
<1>9. TypeOK'
  BY <1>2, <1>3, <1>4, <1>8 DEF TypeOK
<1>10. QED
  BY <1>5, <1>6, <1>8, <1>9 DEF IInv

\* A file that is found is still the named one.
LEMMA FindStep ==
    ASSUME IInv, NEW p \in Procs, Find(p), Watch
    PROVE  IInv' /\ HolderStep(p)
<1> USE OwnerAssumption
<1>1. TypeOK /\ \A r \in Procs : ProcOK(r) /\ SeenOK(r)
  BY DEF IInv
<1>2. /\ path' \in Inodes \cup {None} /\ content' \in [Inodes -> Procs \cup {None}]
      /\ excl' \in [Inodes -> Procs \cup {None}] /\ shared' \in [Inodes -> SUBSET Procs]
  BY <1>1 DEF TypeOK, Find, Return, Goto, fileVars
<1>3. /\ tokens' \in [Procs -> SUBSET Tokens] /\ pc' \in [Procs -> Labels]
      /\ fd' \in [Procs -> Inodes \cup {None}] /\ tries' \in [Procs -> 0..Tries]
  BY <1>1 DEF TypeOK, Labels, Find, Return, Goto, fileVars
<1>4. said' \in [Procs -> Answers] /\ name' \in [Procs -> Procs \cup {None}]
  BY <1>1 DEF TypeOK, Answers, Find, Return, Goto, fileVars
<1>5. ASSUME NEW r \in Procs PROVE ProcOK(r)'
  <2>1. FdOK(r)'
    BY <1>1 DEF TypeOK, ProcOK, FdOK, HasFd, Find, Return, Goto, fileVars
  <2>2. LockOK(r)'
    BY <1>1 DEF TypeOK, ProcOK, FdOK, HasFd, LockOK, Locking, Find, Return, Goto, fileVars
  <2>3. NameOK(r)'
    BY <1>1 DEF TypeOK, ProcOK, NameOK, Owning, Find, Return, Goto, fileVars
  <2>4. ContentOK(r)'
    BY <1>1 DEF TypeOK, ProcOK, FdOK, HasFd, ContentOK, Find, Return, Goto, fileVars
  <2>5. HeldOK(r)'
    BY <1>1 DEF TypeOK, ProcOK, FdOK, HasFd, HeldOK, Locking, Find, Return, Goto, fileVars
  <2>6. QED
    BY <2>1, <2>2, <2>3, <2>4, <2>5 DEF ProcOK
<1>6. HolderStep(p)
  BY <1>1 DEF TypeOK, HolderStep, Holder, Find, Return, Goto, fileVars
<1>7. Holder' \in Procs \cup {None}
  BY <1>2 DEF Holder
<1>8. ASSUME NEW r \in Procs
      PROVE  SeenOK(r)' /\ seen' \in [Procs -> SUBSET (Procs \cup {None})]
  <2>1. pc'[r] = "probe" => path' = fd'[r] \/ Holder' = None
                              \/ (pc[r] = "probe" /\ None \in seen[r])
    BY <1>1 DEF TypeOK, SeenOK, Find, Return, Goto, fileVars
  <2>2. pc'[r] = "free" => None \in seen[r] /\ pc[r] # "idle"
    BY <1>1 DEF TypeOK, SeenOK, Find, Return, Goto, fileVars
  <2>3. said'[r] = "nobody" => \/ pc[r] # "idle" /\ None \in seen[r]
                               \/ pc[r] = "idle" /\ pc'[r] = "idle" /\ said[r] = "nobody"
    BY <1>1 DEF TypeOK, SeenOK, Holder, Find, Return, Goto, fileVars
  <2>4. FdOK(r)'
    BY <1>5 DEF ProcOK
  <2>5. QED
    BY <1>7, <2>1, <2>2, <2>3, <2>4, WatchStep
<1>9. TypeOK'
  BY <1>2, <1>3, <1>4, <1>8 DEF TypeOK
<1>10. QED
  BY <1>5, <1>6, <1>8, <1>9 DEF IInv

\* A free lock was nobody's, at this moment or when the file lost its name.
LEMMA ProbeStep ==
    ASSUME IInv, NEW p \in Procs, Probe(p), Watch
    PROVE  IInv' /\ HolderStep(p)
<1> USE OwnerAssumption
<1>1. TypeOK /\ \A r \in Procs : ProcOK(r) /\ SeenOK(r)
  BY DEF IInv
<1>2. /\ path' \in Inodes \cup {None} /\ content' \in [Inodes -> Procs \cup {None}]
      /\ excl' \in [Inodes -> Procs \cup {None}] /\ shared' \in [Inodes -> SUBSET Procs]
  BY <1>1 DEF TypeOK, Probe, Goto, fileVars
<1>3. /\ tokens' \in [Procs -> SUBSET Tokens] /\ pc' \in [Procs -> Labels]
      /\ fd' \in [Procs -> Inodes \cup {None}] /\ tries' \in [Procs -> 0..Tries]
  BY <1>1 DEF TypeOK, Labels, Probe, Goto, fileVars
<1>4. said' \in [Procs -> Answers] /\ name' \in [Procs -> Procs \cup {None}]
  BY <1>1 DEF TypeOK, Probe, Goto, fileVars
<1>5. ASSUME NEW r \in Procs PROVE ProcOK(r)'
  <2>1. FdOK(r)'
    BY <1>1 DEF TypeOK, ProcOK, FdOK, HasFd, Probe, Goto, fileVars
  <2>2. LockOK(r)'
    BY <1>1 DEF TypeOK, ProcOK, LockOK, Locking, Probe, Goto, fileVars
  <2>3. NameOK(r)'
    BY <1>1 DEF TypeOK, ProcOK, NameOK, Owning, Probe, Goto, fileVars
  <2>4. ContentOK(r)'
    BY <1>1 DEF TypeOK, ProcOK, ContentOK, Probe, Goto, fileVars
  <2>5. HeldOK(r)'
    BY <1>1 DEF TypeOK, ProcOK, HeldOK, Locking, Probe, Goto, fileVars
  <2>6. QED
    BY <2>1, <2>2, <2>3, <2>4, <2>5 DEF ProcOK
<1>6. HolderStep(p)
  BY <1>1 DEF TypeOK, HolderStep, Holder, Probe, Goto, fileVars
<1>7. Holder' \in Procs \cup {None}
  BY <1>2 DEF Holder
<1>8. ASSUME NEW r \in Procs
      PROVE  SeenOK(r)' /\ seen' \in [Procs -> SUBSET (Procs \cup {None})]
  <2>1. pc'[r] = "probe" => path' = fd'[r] \/ Holder' = None
                              \/ (pc[r] = "probe" /\ None \in seen[r])
    BY <1>1 DEF TypeOK, SeenOK, Probe, Goto, fileVars
  <2>2. pc'[r] = "free" => None \in seen[r] /\ pc[r] # "idle"
    BY <1>1 DEF TypeOK, SeenOK, Holder, Probe, Goto, fileVars
  <2>3. said'[r] = "nobody" => \/ pc[r] # "idle" /\ None \in seen[r]
                               \/ pc[r] = "idle" /\ pc'[r] = "idle" /\ said[r] = "nobody"
    BY <1>1 DEF TypeOK, SeenOK, Probe, Goto, fileVars
  <2>4. FdOK(r)'
    BY <1>5 DEF ProcOK
  <2>5. QED
    BY <1>7, <2>1, <2>2, <2>3, <2>4, WatchStep
<1>9. TypeOK'
  BY <1>2, <1>3, <1>4, <1>8 DEF TypeOK
<1>10. QED
  BY <1>5, <1>6, <1>8, <1>9 DEF IInv

\* The answer closes the descriptor.
LEMMA ReadStep ==
    ASSUME IInv, NEW p \in Procs, Read(p), Watch
    PROVE  IInv' /\ HolderStep(p)
<1> USE OwnerAssumption
<1>1. TypeOK /\ \A r \in Procs : ProcOK(r) /\ SeenOK(r)
  BY DEF IInv
<1>2. /\ path' \in Inodes \cup {None} /\ content' \in [Inodes -> Procs \cup {None}]
      /\ excl' \in [Inodes -> Procs \cup {None}] /\ shared' \in [Inodes -> SUBSET Procs]
  BY <1>1 DEF TypeOK, Read, Return, CloseFd, Reading, Goto, fileVars
<1>3. /\ tokens' \in [Procs -> SUBSET Tokens] /\ pc' \in [Procs -> Labels]
      /\ fd' \in [Procs -> Inodes \cup {None}] /\ tries' \in [Procs -> 0..Tries]
  BY <1>1 DEF TypeOK, Labels, Read, Return, CloseFd, Reading, Goto, fileVars
<1>4. said' \in [Procs -> Answers] /\ name' \in [Procs -> Procs \cup {None}]
  BY <1>1 DEF TypeOK, ProcOK, FdOK, HasFd, Answers, Read, Return, CloseFd, Reading, Goto,
         fileVars
<1>5. ASSUME NEW r \in Procs PROVE ProcOK(r)'
  <2>1. FdOK(r)'
    BY <1>1 DEF TypeOK, ProcOK, FdOK, HasFd, Read, Return, CloseFd, Reading, Goto, fileVars
  <2>2. LockOK(r)'
    BY <1>1 DEF TypeOK, ProcOK, FdOK, HasFd, LockOK, Locking, Read, Return, CloseFd,
           Reading, Goto, fileVars
  <2>3. NameOK(r)'
    BY <1>1 DEF TypeOK, ProcOK, FdOK, HasFd, NameOK, Owning, Read, Return, CloseFd, Reading,
           Goto, fileVars
  <2>4. ContentOK(r)'
    BY <1>1 DEF TypeOK, ProcOK, FdOK, HasFd, ContentOK, Read, Return, CloseFd, Reading,
           Goto, fileVars
  <2>5. HeldOK(r)'
    BY <1>1 DEF TypeOK, ProcOK, FdOK, HasFd, HeldOK, Locking, Read, Return, CloseFd,
           Reading, Goto, fileVars
  <2>6. QED
    BY <2>1, <2>2, <2>3, <2>4, <2>5 DEF ProcOK
<1>6. HolderStep(p)
  BY <1>1 DEF TypeOK, HolderStep, Holder, Read, Return, CloseFd, Reading, Goto, fileVars
<1>7. Holder' \in Procs \cup {None}
  BY <1>2 DEF Holder
<1>8. ASSUME NEW r \in Procs
      PROVE  SeenOK(r)' /\ seen' \in [Procs -> SUBSET (Procs \cup {None})]
  <2>1. pc'[r] = "probe" => path' = fd'[r] \/ Holder' = None
                              \/ (pc[r] = "probe" /\ None \in seen[r])
    BY <1>1 DEF TypeOK, SeenOK, Read, Return, CloseFd, Reading, Goto, fileVars
  <2>2. pc'[r] = "free" => None \in seen[r] /\ pc[r] # "idle"
    BY <1>1 DEF TypeOK, SeenOK, Read, Return, CloseFd, Reading, Goto, fileVars
  <2>3. said'[r] = "nobody" => \/ pc[r] # "idle" /\ None \in seen[r]
                               \/ pc[r] = "idle" /\ pc'[r] = "idle" /\ said[r] = "nobody"
    BY <1>1 DEF TypeOK, SeenOK, Read, Return, CloseFd, Reading, Goto, fileVars
  <2>4. FdOK(r)'
    BY <1>5 DEF ProcOK
  <2>5. QED
    BY <1>7, <2>1, <2>2, <2>3, <2>4, WatchStep
<1>9. TypeOK'
  BY <1>2, <1>3, <1>4, <1>8 DEF TypeOK
<1>10. QED
  BY <1>5, <1>6, <1>8, <1>9 DEF IInv

\* The answer closes the descriptor.
LEMMA SayNobodyStep ==
    ASSUME IInv, NEW p \in Procs, SayNobody(p), Watch
    PROVE  IInv' /\ HolderStep(p)
<1> USE OwnerAssumption
<1>1. TypeOK /\ \A r \in Procs : ProcOK(r) /\ SeenOK(r)
  BY DEF IInv
<1>2. /\ path' \in Inodes \cup {None} /\ content' \in [Inodes -> Procs \cup {None}]
      /\ excl' \in [Inodes -> Procs \cup {None}] /\ shared' \in [Inodes -> SUBSET Procs]
  BY <1>1 DEF TypeOK, SayNobody, Return, CloseFd, Goto, fileVars
<1>3. /\ tokens' \in [Procs -> SUBSET Tokens] /\ pc' \in [Procs -> Labels]
      /\ fd' \in [Procs -> Inodes \cup {None}] /\ tries' \in [Procs -> 0..Tries]
  BY <1>1 DEF TypeOK, Labels, SayNobody, Return, CloseFd, Goto, fileVars
<1>4. said' \in [Procs -> Answers] /\ name' \in [Procs -> Procs \cup {None}]
  BY <1>1 DEF TypeOK, Answers, SayNobody, Return, CloseFd, Goto, fileVars
<1>5. ASSUME NEW r \in Procs PROVE ProcOK(r)'
  <2>1. FdOK(r)'
    BY <1>1 DEF TypeOK, ProcOK, FdOK, HasFd, SayNobody, Return, CloseFd, Goto, fileVars
  <2>2. LockOK(r)'
    BY <1>1 DEF TypeOK, ProcOK, FdOK, HasFd, LockOK, Locking, SayNobody, Return, CloseFd,
           Goto, fileVars
  <2>3. NameOK(r)'
    BY <1>1 DEF TypeOK, ProcOK, FdOK, HasFd, NameOK, Owning, SayNobody, Return, CloseFd,
           Goto, fileVars
  <2>4. ContentOK(r)'
    BY <1>1 DEF TypeOK, ProcOK, FdOK, HasFd, ContentOK, SayNobody, Return, CloseFd, Goto,
           fileVars
  <2>5. HeldOK(r)'
    BY <1>1 DEF TypeOK, ProcOK, FdOK, HasFd, HeldOK, Locking, SayNobody, Return, CloseFd,
           Goto, fileVars
  <2>6. QED
    BY <2>1, <2>2, <2>3, <2>4, <2>5 DEF ProcOK
<1>6. HolderStep(p)
  BY <1>1 DEF TypeOK, HolderStep, Holder, SayNobody, Return, CloseFd, Goto, fileVars
<1>7. Holder' \in Procs \cup {None}
  BY <1>2 DEF Holder
<1>8. ASSUME NEW r \in Procs
      PROVE  SeenOK(r)' /\ seen' \in [Procs -> SUBSET (Procs \cup {None})]
  <2>1. pc'[r] = "probe" => path' = fd'[r] \/ Holder' = None
                              \/ (pc[r] = "probe" /\ None \in seen[r])
    BY <1>1 DEF TypeOK, SeenOK, SayNobody, Return, CloseFd, Goto, fileVars
  <2>2. pc'[r] = "free" => None \in seen[r] /\ pc[r] # "idle"
    BY <1>1 DEF TypeOK, SeenOK, SayNobody, Return, CloseFd, Goto, fileVars
  <2>3. said'[r] = "nobody" => \/ pc[r] # "idle" /\ None \in seen[r]
                               \/ pc[r] = "idle" /\ pc'[r] = "idle" /\ said[r] = "nobody"
    BY <1>1 DEF TypeOK, SeenOK, SayNobody, Return, CloseFd, Goto, fileVars
  <2>4. FdOK(r)'
    BY <1>5 DEF ProcOK
  <2>5. QED
    BY <1>7, <2>1, <2>2, <2>3, <2>4, WatchStep
<1>9. TypeOK'
  BY <1>2, <1>3, <1>4, <1>8 DEF TypeOK
<1>10. QED
  BY <1>5, <1>6, <1>8, <1>9 DEF IInv

\* The kernel frees what the dead process had locked.
LEMMA CrashStep ==
    ASSUME IInv, NEW p \in Procs, Crash(p), Watch
    PROVE  IInv' /\ HolderStep(p)
<1> USE OwnerAssumption
<1>1. TypeOK /\ \A r \in Procs : ProcOK(r) /\ SeenOK(r)
  BY DEF IInv
<1>2. /\ path' \in Inodes \cup {None} /\ content' \in [Inodes -> Procs \cup {None}]
      /\ excl' \in [Inodes -> Procs \cup {None}] /\ shared' \in [Inodes -> SUBSET Procs]
  BY <1>1 DEF TypeOK, Crash, Return, CloseFd, Goto, fileVars
<1>3. /\ tokens' \in [Procs -> SUBSET Tokens] /\ pc' \in [Procs -> Labels]
      /\ fd' \in [Procs -> Inodes \cup {None}] /\ tries' \in [Procs -> 0..Tries]
  BY <1>1 DEF TypeOK, Labels, Crash, Return, CloseFd, Goto, fileVars
<1>4. said' \in [Procs -> Answers] /\ name' \in [Procs -> Procs \cup {None}]
  BY <1>1 DEF TypeOK, Answers, Crash, Return, CloseFd, Goto, fileVars
<1>5. ASSUME NEW r \in Procs PROVE ProcOK(r)'
  <2>1. FdOK(r)'
    BY <1>1 DEF TypeOK, ProcOK, FdOK, HasFd, Crash, Return, CloseFd, Goto, fileVars
  <2>2. LockOK(r)'
    BY <1>1 DEF TypeOK, ProcOK, FdOK, HasFd, LockOK, Locking, Crash, Return, CloseFd, Goto,
           fileVars
  <2>3. NameOK(r)'
    BY <1>1 DEF TypeOK, ProcOK, NameOK, Owning, Crash, Return, CloseFd, Goto, fileVars
  <2>4. ContentOK(r)'
    BY <1>1 DEF TypeOK, ProcOK, ContentOK, Crash, Return, CloseFd, Goto, fileVars
  <2>5. HeldOK(r)'
    BY <1>1 DEF TypeOK, ProcOK, HeldOK, Locking, Crash, Return, CloseFd, Goto, fileVars
  <2>6. QED
    BY <2>1, <2>2, <2>3, <2>4, <2>5 DEF ProcOK
<1>6. HolderStep(p)
  BY <1>1 DEF TypeOK, HolderStep, Holder, Crash, Return, CloseFd, Goto, fileVars
<1>7. Holder' \in Procs \cup {None}
  BY <1>2 DEF Holder
<1>8. ASSUME NEW r \in Procs
      PROVE  SeenOK(r)' /\ seen' \in [Procs -> SUBSET (Procs \cup {None})]
  <2>1. pc'[r] = "probe" => path' = fd'[r] \/ Holder' = None
                              \/ (pc[r] = "probe" /\ None \in seen[r])
    BY <1>1 DEF TypeOK, SeenOK, Crash, Return, CloseFd, Goto, fileVars
  <2>2. pc'[r] = "free" => None \in seen[r] /\ pc[r] # "idle"
    BY <1>1 DEF TypeOK, SeenOK, Crash, Return, CloseFd, Goto, fileVars
  <2>3. said'[r] = "nobody" => \/ pc[r] # "idle" /\ None \in seen[r]
                               \/ pc[r] = "idle" /\ pc'[r] = "idle" /\ said[r] = "nobody"
    BY <1>1 DEF TypeOK, SeenOK, Crash, Return, CloseFd, Goto, fileVars
  <2>4. FdOK(r)'
    BY <1>5 DEF ProcOK
  <2>5. QED
    BY <1>7, <2>1, <2>2, <2>3, <2>4, WatchStep
<1>9. TypeOK'
  BY <1>2, <1>3, <1>4, <1>8 DEF TypeOK
<1>10. QED
  BY <1>5, <1>6, <1>8, <1>9 DEF IInv

-----------------------------------------------------------------------------
\* Every step of every process keeps the invariant and treats the holder as
\* OneOwner says.
LEMMA NextStep == ASSUME IInv, Next PROVE IInv' /\ \E p \in Procs : HolderStep(p)
<1>1. PICK p \in Procs : Step(p)
  BY DEF Next
<1>2. Watch
  BY DEF Next
<1>3. IInv' /\ HolderStep(p)
  <2>1. ASSUME NEW t \in Tokens, AddToken(p, t) PROVE IInv' /\ HolderStep(p)
    BY <2>1, <1>2, AddTokenStep
  <2>2. CASE Acquire(p)
    BY <2>2, <1>2, AcquireStep
  <2>3. CASE GiveUp(p)
    BY <2>3, <1>2, GiveUpStep
  <2>4. CASE Open(p)
    BY <2>4, <1>2, OpenStep
  <2>5. CASE Lock(p)
    BY <2>5, <1>2, LockStep
  <2>6. CASE Check(p)
    BY <2>6, <1>2, CheckStep
  <2>7. CASE Truncate(p)
    BY <2>7, <1>2, TruncateStep
  <2>8. ASSUME NEW t \in Tokens, Write(p, t) PROVE IInv' /\ HolderStep(p)
    BY <2>8, <1>2, WriteStep
  <2>9. ASSUME NEW t \in Tokens, Release(p, t) PROVE IInv' /\ HolderStep(p)
    BY <2>9, <1>2, ReleaseStep
  <2>10. CASE LetGo(p)
    BY <2>10, <1>2, LetGoStep
  <2>11. CASE Owner(p)
    BY <2>11, <1>2, OwnerStep
  <2>12. CASE Find(p)
    BY <2>12, <1>2, FindStep
  <2>13. CASE Probe(p)
    BY <2>13, <1>2, ProbeStep
  <2>14. CASE Read(p)
    BY <2>14, <1>2, ReadStep
  <2>15. CASE SayNobody(p)
    BY <2>15, <1>2, SayNobodyStep
  <2>16. CASE Crash(p)
    BY <2>16, <1>2, CrashStep
  <2>17. QED
    BY <1>1, <2>1, <2>2, <2>3, <2>4, <2>5, <2>6, <2>7, <2>8, <2>9, <2>10, <2>11, <2>12, <2>13, <2>14, <2>15, <2>16 DEF Step
<1>4. QED
  BY <1>3

LEMMA InitHolds == ASSUME Init PROVE IInv
<1> USE OwnerAssumption
<1>1. TypeOK
  BY DEF Init, TypeOK, Labels, Answers
<1>2. ASSUME NEW p \in Procs PROVE ProcOK(p) /\ SeenOK(p)
  BY DEF Init, ProcOK, FdOK, LockOK, NameOK, ContentOK, HeldOK, HasFd, Locking, Owning, SeenOK
<1>3. QED
  BY <1>1, <1>2 DEF IInv

LEMMA Unmoved ==
    ASSUME IInv, UNCHANGED vars PROVE IInv' /\ Holder' = Holder
  BY DEF IInv, vars, fileVars, procVars, TypeOK, ProcOK, FdOK, LockOK, NameOK, ContentOK, HeldOK,
         HasFd, Locking, Owning, SeenOK, Holder

\* The inductive invariant of the lock file protocol.
THEOREM LockInvariant == Spec => []IInv
<1>1. Init => IInv
  BY InitHolds
<1>2. IInv /\ [Next]_vars => IInv'
  BY NextStep, Unmoved
<1>3. QED
  BY <1>1, <1>2, PTL DEF Spec

\* The state of OwnerLocks keeps its type.
THEOREM TypeCorrect == Spec => []TypeOK
<1>1. IInv => TypeOK
  BY DEF IInv
<1>2. QED
  BY <1>1, LockInvariant, PTL

\* acquire, release: a process with a token is the holder, so two processes
\* never own the session at once.
THEOREM OwnersAreHolders == Spec => []OwnedIsLocked
<1>1. IInv => OwnedIsLocked
  BY OwnerAssumption DEF IInv, ProcOK, FdOK, LockOK, NameOK, HasFd, Locking, Owning, OwnedIsLocked, Holder
<1>2. QED
  BY <1>1, LockInvariant, PTL

\* acquire: the file of an owned session has its owner's name.
THEOREM OwnersAreNamed == Spec => []OwnerIsNamed
<1>1. IInv => OwnerIsNamed
  BY DEF IInv, ProcOK, NameOK, ContentOK, Owning, OwnerIsNamed
<1>2. QED
  BY <1>1, LockInvariant, PTL

\* owner: "nobody" is the truth of some moment of the call.
THEOREM NobodyIsHonest == Spec => []NobodyIsTrue
<1>1. IInv => NobodyIsTrue
  BY DEF IInv, SeenOK, NobodyIsTrue
<1>2. QED
  BY <1>1, LockInvariant, PTL

\* The lock file protocol implements OneOwner.
THEOREM LocksImplementOneOwner == Spec => KeepsPromise
<1>1. Init => Promise!Init
  BY DEF Init, Promise!Init, Holder
<1>2. IInv /\ [Next]_vars => [Promise!Next]_Holder
  <2>1. ASSUME IInv, Next PROVE [Promise!Next]_Holder
    BY <2>1, NextStep DEF HolderStep, Promise!Next, Promise!Take, Promise!GiveUp
  <2>2. ASSUME IInv, UNCHANGED vars PROVE [Promise!Next]_Holder
    BY <2>2, Unmoved
  <2>3. QED
    BY <2>1, <2>2
<1>3. QED
  BY <1>1, <1>2, LockInvariant, PTL DEF Spec, KeepsPromise, Promise!Spec
=============================================================================

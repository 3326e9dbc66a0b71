------------------------- MODULE TurnLimiterProofs -------------------------
(***************************************************************************)
(* Proofs about TurnLimiter, for every set of requests, users and limits.  *)
(***************************************************************************)
EXTENDS TurnLimiter, FiniteSetTheorems, SequenceTheorems, TLAPS

\* What deque.remove does to a queue without duplicates.
LEMMA WithoutProperties ==
    ASSUME NEW S, NEW s \in Seq(S), NEW r \in S, Distinct(s)
    PROVE  /\ Without(s, r) \in Seq(S)
           /\ Distinct(Without(s, r))
           /\ ToSet(Without(s, r)) = ToSet(s) \ {r}
<1>1. CASE ~ \E i \in DOMAIN s : s[i] = r
  BY <1>1 DEF Without, ToSet
<1>2. CASE \E i \in DOMAIN s : s[i] = r
  <2> DEFINE k == CHOOSE i \in DOMAIN s : s[i] = r
             t == RemoveAt(s, k)
             a == SubSeq(s, 1, k - 1)
             b == SubSeq(s, k + 1, Len(s))
  <2>1. k \in 1..Len(s) /\ s[k] = r
    BY <1>2
  <2>2. Without(s, r) = t
    BY <1>2 DEF Without
  <2> HIDE DEF k
  <2>3. a \in Seq(S) /\ Len(a) = k - 1 /\ \A i \in 1..(k - 1) : a[i] = s[i]
    BY <2>1
  <2>4. b \in Seq(S) /\ Len(b) = Len(s) - k /\ \A i \in 1..(Len(s) - k) : b[i] = s[k + i]
    BY <2>1
  <2>5. t = a \o b
    BY DEF RemoveAt
  <2> HIDE DEF a, b, t
  <2>6. t \in Seq(S) /\ Len(t) = Len(s) - 1
    BY <2>1, <2>3, <2>4, <2>5
  <2>7. \A i \in 1..(Len(s) - 1) : t[i] = IF i < k THEN s[i] ELSE s[i + 1]
    BY <2>1, <2>3, <2>4, <2>5
  <2>8. DOMAIN t = 1..(Len(s) - 1) /\ DOMAIN s = 1..Len(s)
    BY <2>6
  <2>9. Distinct(t)
    <3> DEFINE src(i) == IF i < k THEN i ELSE i + 1
    <3>1. \A i \in 1..(Len(s) - 1) : src(i) \in 1..Len(s) /\ t[i] = s[src(i)]
      BY <2>1, <2>7
    <3>2. \A i, j \in 1..(Len(s) - 1) : src(i) = src(j) => i = j
      BY <2>1
    <3>3. \A i, j \in 1..Len(s) : s[i] = s[j] => i = j
      BY <2>8 DEF Distinct
    <3> HIDE DEF src
    <3>4. QED
      BY <2>8, <3>1, <3>2, <3>3 DEF Distinct
  <2>10. ASSUME NEW x \in ToSet(t) PROVE x \in ToSet(s) \ {r}
    <3>1. PICK i \in 1..(Len(s) - 1) : x = t[i]
      BY <2>8, <2>10 DEF ToSet
    <3>2. PICK j \in 1..Len(s) : x = s[j] /\ j # k
      BY <2>1, <2>7, <3>1
    <3>3. QED
      BY <2>1, <2>8, <3>2 DEF ToSet, Distinct
  <2>11. ASSUME NEW x \in ToSet(s) \ {r} PROVE x \in ToSet(t)
    <3>1. PICK i \in 1..Len(s) : s[i] = x /\ i # k
      BY <2>1, <2>8, <2>11 DEF ToSet
    <3>2. CASE i < k
      BY <2>1, <2>7, <2>8, <3>1, <3>2 DEF ToSet
    <3>3. CASE i > k
      <4>1. i - 1 \in 1..(Len(s) - 1) /\ t[i - 1] = x
        BY <2>1, <2>7, <3>1, <3>3
      <4>2. QED
        BY <4>1, <2>8 DEF ToSet
    <3>4. QED
      BY <2>1, <3>1, <3>2, <3>3
  <2>12. QED
    BY <2>2, <2>6, <2>9, <2>10, <2>11
<1>3. QED
  BY <1>1, <1>2

\* What the loop variable loses when it advances.
LEMMA TailProperties ==
    ASSUME NEW S, NEW s \in Seq(S), s # <<>>, Distinct(s)
    PROVE  /\ Tail(s) \in Seq(S)
           /\ Distinct(Tail(s))
           /\ Head(s) \in S
           /\ Head(s) \in ToSet(s)
           /\ ToSet(Tail(s)) = ToSet(s) \ {Head(s)}
<1>1. /\ Len(s) \in Nat \ {0} /\ DOMAIN s = 1..Len(s) /\ Head(s) = s[1] /\ Head(s) \in S
      /\ Tail(s) \in Seq(S) /\ DOMAIN Tail(s) = 1..(Len(s) - 1)
      /\ \A i \in 1..(Len(s) - 1) : Tail(s)[i] = s[i + 1]
  OBVIOUS
<1>2. Distinct(Tail(s))
  BY <1>1 DEF Distinct
<1>3. ASSUME NEW x \in ToSet(Tail(s)) PROVE x \in ToSet(s) \ {Head(s)}
  BY <1>1, <1>3 DEF ToSet, Distinct
<1>4. ASSUME NEW x \in ToSet(s) \ {Head(s)} PROVE x \in ToSet(Tail(s))
  <2>1. PICK i \in 1..Len(s) : s[i] = x /\ i # 1
    BY <1>1, <1>4 DEF ToSet
  <2>2. i - 1 \in 1..(Len(s) - 1) /\ Tail(s)[i - 1] = x
    BY <1>1, <2>1
  <2>3. QED
    BY <1>1, <2>2 DEF ToSet
<1>5. Head(s) \in ToSet(s)
  BY <1>1 DEF ToSet
<1>6. QED
  BY <1>1, <1>2, <1>3, <1>4, <1>5

\* What joining the queue adds.
LEMMA EnqueueProperties ==
    ASSUME NEW S, NEW s \in Seq(S), NEW r \in S, Distinct(s), r \notin ToSet(s)
    PROVE  /\ Append(s, r) \in Seq(S)
           /\ Distinct(Append(s, r))
           /\ ToSet(Append(s, r)) = ToSet(s) \cup {r}
<1>1. /\ Len(s) \in Nat /\ DOMAIN s = 1..Len(s)
      /\ Append(s, r) \in Seq(S) /\ DOMAIN Append(s, r) = 1..(Len(s) + 1)
      /\ \A i \in 1..Len(s) : Append(s, r)[i] = s[i]
      /\ Append(s, r)[Len(s) + 1] = r
  OBVIOUS
<1>2. Distinct(Append(s, r))
  BY <1>1 DEF Distinct, ToSet
<1>3. ToSet(Append(s, r)) = ToSet(s) \cup {r}
  BY <1>1 DEF ToSet
<1>4. QED
  BY <1>1, <1>2, <1>3

LEMMA MembersInSet ==
    ASSUME NEW S, NEW s \in Seq(S)
    PROVE  ToSet(s) \subseteq S
  BY DEF ToSet

LEMMA EmptyQueue == ToSet(<<>>) = {} /\ Distinct(<<>>)
  BY DEF ToSet, Distinct

-----------------------------------------------------------------------------
(* The counters. *)

\* Holders and its parts are finite, so their cardinalities are numbers.
LEMMA HoldersFinite ==
    /\ IsFiniteSet(Holders)
    /\ \A k : IsFiniteSet(HoldersOf(k))
<1>1. Holders \subseteq Requests /\ \A k : HoldersOf(k) \subseteq Requests
  BY DEF Holders, HoldersOf
<1>2. QED
  BY <1>1, RequestsAssumption, FS_Subset

\* _take keeps the counters equal to the slots that are out.
LEMMA TakeCounts ==
    ASSUME TypeOK, Accounting, NEW r \in Requests, slot[r] = "none", Take(r)
    PROVE  Accounting' /\ inFlight' \in Nat /\ byUser' \in [Keys -> Nat]
<1>1. UserOf[r] \in Keys
  BY KeysAssumption DEF Keys
<1>2. Holders' = Holders \cup {r} /\ r \notin Holders
  BY DEF Holders, Take, TypeOK
<1>3. HoldersOf(UserOf[r])' = HoldersOf(UserOf[r]) \cup {r} /\ r \notin HoldersOf(UserOf[r])
  BY <1>2 DEF HoldersOf
<1>4. \A k \in Keys : k # UserOf[r] => HoldersOf(k)' = HoldersOf(k)
  BY <1>2 DEF HoldersOf
<1>5. Cardinality(Holders') = Cardinality(Holders) + 1
  BY <1>2, HoldersFinite, FS_AddElement
<1>6. Cardinality(HoldersOf(UserOf[r])') = Cardinality(HoldersOf(UserOf[r])) + 1
  BY <1>3, HoldersFinite, FS_AddElement
<1>7. /\ inFlight' = inFlight + 1
      /\ \A k \in Keys : byUser'[k] = IF k = UserOf[r] THEN byUser[k] + 1 ELSE byUser[k]
      /\ byUser' \in [Keys -> Nat] /\ inFlight' \in Nat
  BY <1>1 DEF Take, TypeOK
<1>8. QED
  BY <1>1, <1>4, <1>5, <1>6, <1>7 DEF Accounting, TypeOK

\* So does _release.
LEMMA ReleaseCounts ==
    ASSUME TypeOK, Accounting, NEW r \in Requests, ReleaseSlot(r)
    PROVE  Accounting' /\ inFlight' \in Nat /\ byUser' \in [Keys -> Nat]
<1>1. CASE slot[r] # "held"
  <2>1. UNCHANGED <<slot, counts>>
    BY <1>1 DEF ReleaseSlot
  <2>2. Holders' = Holders /\ \A k : HoldersOf(k)' = HoldersOf(k)
    BY <2>1 DEF Holders, HoldersOf
  <2>3. QED
    BY <2>1, <2>2 DEF Accounting, counts, TypeOK
<1>2. CASE slot[r] = "held"
  <2>1. UserOf[r] \in Keys
    BY KeysAssumption DEF Keys
  <2>2. Holders' = Holders \ {r} /\ r \in Holders
    BY <1>2 DEF Holders, ReleaseSlot, TypeOK
  <2>3. HoldersOf(UserOf[r])' = HoldersOf(UserOf[r]) \ {r} /\ r \in HoldersOf(UserOf[r])
    BY <2>2 DEF HoldersOf
  <2>4. \A k \in Keys : k # UserOf[r] => HoldersOf(k)' = HoldersOf(k)
    BY <2>2 DEF HoldersOf
  <2>5. /\ Cardinality(Holders') = Cardinality(Holders) - 1
        /\ Cardinality(Holders') \in Nat /\ Cardinality(Holders) \in Nat
    BY <2>2, HoldersFinite, FS_RemoveElement, FS_CardinalityType
  <2>6. /\ Cardinality(HoldersOf(UserOf[r])') = Cardinality(HoldersOf(UserOf[r])) - 1
        /\ Cardinality(HoldersOf(UserOf[r])') \in Nat
        /\ Cardinality(HoldersOf(UserOf[r])) \in Nat
    BY <2>3, HoldersFinite, FS_RemoveElement, FS_CardinalityType
  <2>7. /\ inFlight' = IF inFlight > 0 THEN inFlight - 1 ELSE inFlight
        /\ byUser' = [byUser EXCEPT ![UserOf[r]] =
                         IF byUser[UserOf[r]] > 1 THEN byUser[UserOf[r]] - 1 ELSE 0]
    BY <1>2 DEF ReleaseSlot
  <2>8. inFlight' = Cardinality(Holders')
    BY <2>5, <2>7 DEF Accounting
  <2>9. byUser'[UserOf[r]] = Cardinality(HoldersOf(UserOf[r])')
    BY <2>1, <2>6, <2>7 DEF Accounting, TypeOK
  <2>10. \A k \in Keys : k # UserOf[r] => byUser'[k] = byUser[k]
    BY <2>7 DEF TypeOK
  <2>11. inFlight' \in Nat /\ byUser' \in [Keys -> Nat]
    BY <2>1, <2>7 DEF TypeOK
  <2>12. QED
    BY <2>4, <2>8, <2>9, <2>10, <2>11 DEF Accounting
<1>3. QED
  BY <1>1, <1>2

\* And so does every step that leaves the slots and the counters alone.
LEMMA SameCounts ==
    ASSUME TypeOK, Accounting, UNCHANGED <<slot, counts>>
    PROVE  Accounting' /\ inFlight' \in Nat /\ byUser' \in [Keys -> Nat]
<1>1. Holders' = Holders /\ \A k : HoldersOf(k)' = HoldersOf(k)
  BY DEF Holders, HoldersOf
<1>2. QED
  BY <1>1 DEF Accounting, counts, TypeOK

-----------------------------------------------------------------------------
(* The inductive invariant holds initially and every action preserves it. *)

LEMMA IInvInit == Init => IInv
<1> SUFFICES ASSUME Init PROVE IInv
  OBVIOUS
<1>1. TypeOK
  BY LimitsAssumption DEF Init, TypeOK
<1>2. QueueInv /\ PassedInv
  BY EmptyQueue DEF Init, QueueInv, PassedInv
<1>3. RequestInv /\ NoSlotLeaked
  BY DEF Init, RequestInv, ArrivingInv, WaitingInv, RunningInv, ScheduledInv, BackgroundInv, NoSlotLeaked, HasReleaser
<1>4. Accounting
  <2>1. Holders = {} /\ \A k : HoldersOf(k) = {}
    BY DEF Init, Holders, HoldersOf
  <2>2. QED
    BY <2>1, FS_EmptySet DEF Init, Accounting
<1>5. QED
  BY <1>1, <1>2, <1>3, <1>4 DEF IInv

\* acquire or try_acquire takes a slot at once.
LEMMA AdmitNowStep ==
    ASSUME IInv, NEW r \in Requests, AdmitNow(r)
    PROVE  IInv'
<1>1. Accounting' /\ inFlight' \in Nat /\ byUser' \in [Keys -> Nat]
  BY TakeCounts DEF IInv, AdmitNow, RequestInv, ArrivingInv
<1>2. TypeOK'
  BY <1>1 DEF IInv, TypeOK, AdmitNow, Take, limits, runs
<1>3. QueueInv'
  BY DEF IInv, TypeOK, QueueInv, AdmitNow, Take
<1>4. PassedInv'
  BY <1>1, KeysAssumption DEF IInv, TypeOK, PassedInv, QueueInv, AdmitNow, Take, LockFree, limits, Blocked, GlobalFull, UserFull, Keys, ToSet
<1>5. RequestInv' /\ NoSlotLeaked'
  BY DEF IInv, TypeOK, QueueInv, AdmitNow, Take, runs, RequestInv, ArrivingInv, WaitingInv, RunningInv, ScheduledInv, BackgroundInv, NoSlotLeaked, HasReleaser
<1>6. QED
  BY <1>1, <1>2, <1>3, <1>4, <1>5 DEF IInv

\* acquire queues the request.
LEMMA EnqueueStep ==
    ASSUME IInv, NEW r \in Requests, Enqueue(r)
    PROVE  IInv'
<1>0. /\ waiters' \in Seq(Requests) /\ Distinct(waiters')
      /\ ToSet(waiters') = ToSet(waiters) \cup {r} /\ r \notin ToSet(waiters)
  <2>1. r \notin ToSet(waiters)
    BY DEF Enqueue, IInv, QueueInv
  <2>2. QED
    BY <2>1, EnqueueProperties DEF Enqueue, IInv, TypeOK, QueueInv
<1>1. Accounting' /\ inFlight' \in Nat /\ byUser' \in [Keys -> Nat]
  BY SameCounts DEF IInv, Enqueue
<1>2. TypeOK'
  BY <1>0, <1>1 DEF IInv, TypeOK, Enqueue, limits, counts, runs
<1>3. QueueInv'
  BY <1>0 DEF IInv, TypeOK, QueueInv, Enqueue, LockFree, RequestInv, ArrivingInv
<1>4. PassedInv'
  BY <1>0 DEF IInv, PassedInv, Enqueue, limits, counts, Blocked, GlobalFull, UserFull
<1>5. RequestInv' /\ NoSlotLeaked'
  BY <1>0 DEF IInv, TypeOK, QueueInv, Enqueue, runs, RequestInv, ArrivingInv, WaitingInv, RunningInv, ScheduledInv, BackgroundInv, NoSlotLeaked, HasReleaser
<1>6. QED
  BY <1>1, <1>2, <1>3, <1>4, <1>5 DEF IInv

\* A request is refused.
LEMMA RefuseStep ==
    ASSUME IInv, NEW r \in Requests, Refuse(r)
    PROVE  IInv'
<1>1. Accounting' /\ inFlight' \in Nat /\ byUser' \in [Keys -> Nat]
  BY SameCounts DEF IInv, Refuse
<1>2. TypeOK'
  BY <1>1 DEF IInv, TypeOK, Refuse, limits, counts, runs
<1>3. QueueInv'
  BY DEF IInv, TypeOK, QueueInv, Refuse
<1>4. PassedInv'
  BY DEF IInv, PassedInv, Refuse, limits, counts, Blocked, GlobalFull, UserFull
<1>5. RequestInv' /\ NoSlotLeaked'
  BY DEF IInv, TypeOK, QueueInv, Refuse, runs, RequestInv, ArrivingInv, WaitingInv, RunningInv, ScheduledInv, BackgroundInv, NoSlotLeaked, HasReleaser
<1>6. QED
  BY <1>1, <1>2, <1>3, <1>4, <1>5 DEF IInv

\* The client of a queued request leaves.
LEMMA DisconnectStep ==
    ASSUME IInv, NEW r \in Requests, Disconnect(r)
    PROVE  IInv'
<1>1. Accounting' /\ inFlight' \in Nat /\ byUser' \in [Keys -> Nat]
  BY SameCounts DEF IInv, Disconnect
<1>2. TypeOK'
  BY <1>1 DEF IInv, TypeOK, Disconnect, limits, counts, runs
<1>3. QueueInv'
  BY DEF IInv, TypeOK, QueueInv, Disconnect
<1>4. PassedInv'
  BY DEF IInv, PassedInv, Disconnect, limits, counts, Blocked, GlobalFull, UserFull
<1>5. RequestInv' /\ NoSlotLeaked'
  BY DEF IInv, TypeOK, QueueInv, Disconnect, runs, RequestInv, ArrivingInv, WaitingInv, RunningInv, ScheduledInv, BackgroundInv, NoSlotLeaked, HasReleaser
<1>6. QED
  BY <1>1, <1>2, <1>3, <1>4, <1>5 DEF IInv

\* A background run takes the slot over.
LEMMA StartBackgroundStep ==
    ASSUME IInv, NEW r \in Requests, StartBackground(r)
    PROVE  IInv'
<1>1. Accounting' /\ inFlight' \in Nat /\ byUser' \in [Keys -> Nat]
  BY SameCounts DEF IInv, StartBackground
<1>2. TypeOK'
  BY <1>1 DEF IInv, TypeOK, StartBackground, limits, counts, runs
<1>3. QueueInv'
  BY DEF IInv, TypeOK, QueueInv, StartBackground
<1>4. PassedInv'
  BY DEF IInv, PassedInv, StartBackground, limits, counts, Blocked, GlobalFull, UserFull
<1>5. RequestInv' /\ NoSlotLeaked'
  BY DEF IInv, TypeOK, QueueInv, StartBackground, runs, RequestInv, ArrivingInv, WaitingInv, RunningInv, ScheduledInv, BackgroundInv, NoSlotLeaked, HasReleaser
<1>6. QED
  BY <1>1, <1>2, <1>3, <1>4, <1>5 DEF IInv

\* When the lock is free at the start of a step that keeps the queue, nobody in
\* the queue is forgotten: the loop restarts over all of it, or the counters
\* did not move.
LEMMA ReleaseKeepsPassed ==
    ASSUME IInv, NEW r \in Requests, LockFree, ReleaseSlot(r),
           ToSet(waiters') \subseteq ToSet(waiters), UNCHANGED limits
    PROVE  PassedInv'
<1>1. CASE slot[r] = "held"
  BY <1>1 DEF ReleaseSlot, PassedInv
<1>2. CASE slot[r] # "held"
  BY <1>2 DEF IInv, ReleaseSlot, PassedInv, limits, counts, Blocked, GlobalFull, UserFull
<1>3. QED
  BY <1>1, <1>2

\* The callback reaches the waiter, or gives the slot back.
LEMMA DeliverStep ==
    ASSUME IInv, NEW r \in Requests, Deliver(r)
    PROVE  IInv'
<1>0. slot[r] = "held" /\ r \notin ToSet(waiters)
  BY MembersInSet DEF IInv, Deliver, RequestInv, ScheduledInv, QueueInv
<1>1. Accounting' /\ inFlight' \in Nat /\ byUser' \in [Keys -> Nat]
  BY SameCounts, ReleaseCounts DEF IInv, Deliver
<1>2. TypeOK'
  BY <1>1 DEF IInv, TypeOK, Deliver, ReleaseSlot, limits, counts, runs
<1>3. QueueInv'
  <2>1. CASE future[r] = "pending"
    BY <1>0, <2>1, MembersInSet DEF IInv, TypeOK, QueueInv, Deliver
  <2>2. CASE future[r] # "pending"
    BY <1>0, <2>2, MembersInSet DEF IInv, TypeOK, QueueInv, Deliver, ReleaseSlot
  <2>3. QED
    BY <2>1, <2>2
<1>4. PassedInv'
  <2>1. CASE future[r] = "pending"
    BY <2>1 DEF IInv, PassedInv, Deliver, limits, counts, Blocked, GlobalFull, UserFull
  <2>2. CASE future[r] # "pending"
    BY <2>2, ReleaseKeepsPassed DEF Deliver
  <2>3. QED
    BY <2>1, <2>2
<1>5. RequestInv' /\ NoSlotLeaked'
  BY <1>0 DEF IInv, TypeOK, Deliver, ReleaseSlot, counts, runs, RequestInv, ArrivingInv, WaitingInv, RunningInv, ScheduledInv, BackgroundInv, NoSlotLeaked, HasReleaser
<1>6. QED
  BY <1>1, <1>2, <1>3, <1>4, <1>5 DEF IInv

\* The spawn of a background run fails after the transfer.
LEMMA SpawnFailsStep ==
    ASSUME IInv, NEW r \in Requests, SpawnFails(r)
    PROVE  IInv'
<1>0. slot[r] = "held" /\ r \notin ToSet(waiters)
  BY MembersInSet DEF IInv, SpawnFails, RequestInv, RunningInv, QueueInv
<1>1. Accounting' /\ inFlight' \in Nat /\ byUser' \in [Keys -> Nat]
  BY ReleaseCounts DEF IInv, SpawnFails
<1>2. TypeOK'
  BY <1>1 DEF IInv, TypeOK, SpawnFails, ReleaseSlot, limits, counts
<1>3. QueueInv'
  BY <1>0, MembersInSet DEF IInv, TypeOK, QueueInv, SpawnFails, ReleaseSlot
<1>4. PassedInv'
  BY ReleaseKeepsPassed DEF SpawnFails
<1>5. RequestInv' /\ NoSlotLeaked'
  BY <1>0 DEF IInv, TypeOK, SpawnFails, ReleaseSlot, counts, RequestInv, ArrivingInv, WaitingInv, RunningInv, ScheduledInv, BackgroundInv, NoSlotLeaked, HasReleaser
<1>6. QED
  BY <1>1, <1>2, <1>3, <1>4, <1>5 DEF IInv

\* A background run ends.
LEMMA EndBackgroundStep ==
    ASSUME IInv, NEW r \in Requests, EndBackground(r)
    PROVE  IInv'
<1>0. slot[r] = "held" /\ r \notin ToSet(waiters)
  BY MembersInSet DEF IInv, EndBackground, RequestInv, BackgroundInv, QueueInv
<1>1. Accounting' /\ inFlight' \in Nat /\ byUser' \in [Keys -> Nat]
  BY ReleaseCounts DEF IInv, EndBackground
<1>2. TypeOK'
  BY <1>1 DEF IInv, TypeOK, EndBackground, ReleaseSlot, limits, counts
<1>3. QueueInv'
  BY <1>0, MembersInSet DEF IInv, TypeOK, QueueInv, EndBackground, ReleaseSlot
<1>4. PassedInv'
  BY ReleaseKeepsPassed DEF EndBackground
<1>5. RequestInv' /\ NoSlotLeaked'
  BY <1>0 DEF IInv, TypeOK, EndBackground, ReleaseSlot, counts, RequestInv, ArrivingInv, WaitingInv, RunningInv, ScheduledInv, BackgroundInv, NoSlotLeaked, HasReleaser
<1>6. QED
  BY <1>1, <1>2, <1>3, <1>4, <1>5 DEF IInv

\* The ASGI call of an admitted request ends.
LEMMA EndRequestStep ==
    ASSUME IInv, NEW r \in Requests, EndRequest(r)
    PROVE  IInv'
<1>0. r \notin ToSet(waiters) /\ (r \notin transferred => slot[r] = "held")
  BY MembersInSet DEF IInv, EndRequest, RequestInv, RunningInv, QueueInv
<1>1. Accounting' /\ inFlight' \in Nat /\ byUser' \in [Keys -> Nat]
  BY SameCounts, ReleaseCounts DEF IInv, EndRequest
<1>2. TypeOK'
  BY <1>1 DEF IInv, TypeOK, EndRequest, ReleaseSlot, limits, counts, runs
<1>3. QueueInv'
  <2>1. CASE r \in transferred
    BY <1>0, <2>1, MembersInSet DEF IInv, TypeOK, QueueInv, EndRequest
  <2>2. CASE r \notin transferred
    BY <1>0, <2>2, MembersInSet DEF IInv, TypeOK, QueueInv, EndRequest, ReleaseSlot
  <2>3. QED
    BY <2>1, <2>2
<1>4. PassedInv'
  <2>1. CASE r \in transferred
    BY <2>1 DEF IInv, PassedInv, EndRequest, limits, counts, Blocked, GlobalFull, UserFull
  <2>2. CASE r \notin transferred
    BY <2>2, ReleaseKeepsPassed DEF EndRequest
  <2>3. QED
    BY <2>1, <2>2
<1>5. RequestInv' /\ NoSlotLeaked'
  BY <1>0 DEF IInv, TypeOK, EndRequest, ReleaseSlot, counts, runs, RequestInv, ArrivingInv, WaitingInv, RunningInv, ScheduledInv, BackgroundInv, NoSlotLeaked, HasReleaser
<1>6. QED
  BY <1>1, <1>2, <1>3, <1>4, <1>5 DEF IInv

\* An admin changes the limits: the loop restarts over the whole queue.
LEMMA ConfigureStep ==
    ASSUME IInv, Configure
    PROVE  IInv'
<1>1. Accounting' /\ inFlight' \in Nat /\ byUser' \in [Keys -> Nat]
  BY SameCounts DEF IInv, Configure
<1>2. TypeOK'
  BY <1>1, LimitsAssumption DEF IInv, TypeOK, Configure, Clamp, counts, runs
<1>3. QueueInv' /\ PassedInv'
  BY MembersInSet DEF IInv, QueueInv, PassedInv, Configure
<1>4. RequestInv' /\ NoSlotLeaked'
  BY DEF IInv, Configure, runs, RequestInv, ArrivingInv, WaitingInv, RunningInv, ScheduledInv, BackgroundInv, NoSlotLeaked, HasReleaser
<1>5. QED
  BY <1>1, <1>2, <1>3, <1>4 DEF IInv

\* The wait of a queued request ends, for whatever reason.
LEMMA LeaveStep ==
    ASSUME IInv, NEW r \in Requests, NEW keep \in BOOLEAN, NEW next, Leave(r, keep, next),
           \/ next = "running" /\ keep /\ future[r] = "result"
           \/ next = "refused" /\ future[r] = "pending"
           \/ next = "gone" /\ ~keep
    PROVE  IInv'
<1>0. /\ waiters' \in Seq(Requests) /\ Distinct(waiters')
      /\ ToSet(waiters') = ToSet(waiters) \ {r}
  BY WithoutProperties DEF Leave, IInv, TypeOK, QueueInv
<1>1. \/ future[r] = "pending"
      \/ future[r] = "result" /\ slot[r] = "held" /\ r \notin scheduled
  BY DEF IInv, Leave, RequestInv, WaitingInv
<1>2. CASE future[r] = "pending" \/ keep
  <2>1. /\ UNCHANGED <<slot, counts, scan>>
        /\ future' = IF future[r] = "pending" THEN [future EXCEPT ![r] = "cancelled"] ELSE future
    BY <1>2 DEF Leave
  <2>2. Accounting' /\ inFlight' \in Nat /\ byUser' \in [Keys -> Nat]
    BY <2>1, SameCounts DEF IInv
  <2>3. TypeOK'
    BY <1>0, <2>1, <2>2 DEF IInv, TypeOK, Leave, limits, runs
  <2>4. QueueInv'
    <3>1. ToSet(waiters) \subseteq Requests
      BY MembersInSet DEF IInv, TypeOK
    <3>2. Distinct(scan') /\ ToSet(scan') \subseteq ToSet(waiters')
      BY <2>1, EmptyQueue DEF Leave, LockFree
    <3>3. ASSUME NEW w \in ToSet(waiters')
          PROVE  stage'[w] = "waiting" /\ future'[w] = "pending" /\ slot'[w] = "none" /\ w \notin scheduled'
      BY <1>0, <2>1, <3>1, <3>3 DEF IInv, TypeOK, QueueInv, Leave
    <3>4. QED
      BY <1>0, <3>2, <3>3 DEF QueueInv
  <2>5. PassedInv'
    BY <1>0, <2>1 DEF IInv, PassedInv, Leave, limits, counts, Blocked, GlobalFull, UserFull
  <2>6. RequestInv' /\ NoSlotLeaked'
    <3>1. ASSUME NEW w \in Requests, w # r
          PROVE  /\ stage'[w] = stage[w] /\ future'[w] = future[w] /\ slot'[w] = slot[w]
                 /\ w \in ToSet(waiters') <=> w \in ToSet(waiters)
      BY <1>0, <2>1, <3>1 DEF IInv, TypeOK, Leave
    <3>2. /\ stage'[r] = next /\ slot'[r] = slot[r]
          /\ future'[r] = IF future[r] = "pending" THEN "cancelled" ELSE future[r]
      BY <2>1 DEF IInv, TypeOK, Leave
    <3>3. r \notin transferred /\ background[r] = "none" /\ stage[r] = "waiting"
      BY DEF IInv, Leave, RequestInv, WaitingInv
    <3>4. UNCHANGED <<scheduled, transferred, background>>
      BY DEF Leave, runs
    <3>5. ASSUME NEW w \in Requests, w # r
          PROVE  /\ ArrivingInv(w)' /\ WaitingInv(w)' /\ RunningInv(w)' /\ ScheduledInv(w)'
                 /\ BackgroundInv(w)' /\ (slot'[w] = "held" => HasReleaser(w)')
      BY <3>1, <3>4, <3>5 DEF IInv, RequestInv, ArrivingInv, WaitingInv, RunningInv, ScheduledInv, BackgroundInv, NoSlotLeaked, HasReleaser
    <3>6. /\ ArrivingInv(r)' /\ WaitingInv(r)' /\ RunningInv(r)' /\ ScheduledInv(r)'
          /\ BackgroundInv(r)' /\ (slot'[r] = "held" => HasReleaser(r)')
      BY <1>1, <1>2, <3>2, <3>3, <3>4 DEF IInv, RequestInv, ArrivingInv, WaitingInv, RunningInv, ScheduledInv, BackgroundInv, NoSlotLeaked, HasReleaser
    <3>7. QED
      BY <3>5, <3>6 DEF RequestInv, NoSlotLeaked
  <2>7. QED
    BY <2>2, <2>3, <2>4, <2>5, <2>6 DEF IInv
<1>3. CASE future[r] # "pending" /\ ~keep
  <2>1. UNCHANGED future /\ ReleaseSlot(r) /\ slot[r] = "held"
    BY <1>1, <1>3 DEF Leave
  <2>2. Accounting' /\ inFlight' \in Nat /\ byUser' \in [Keys -> Nat]
    BY <2>1, ReleaseCounts DEF IInv
  <2>3. TypeOK'
    BY <1>0, <2>1, <2>2 DEF IInv, TypeOK, Leave, ReleaseSlot, limits, runs
  <2>4. QueueInv' /\ PassedInv'
    BY <1>0, <2>1, MembersInSet DEF IInv, TypeOK, QueueInv, PassedInv, Leave, ReleaseSlot
  <2>5. RequestInv' /\ NoSlotLeaked'
    BY <1>0, <1>1, <1>3, <2>1, MembersInSet DEF IInv, TypeOK, QueueInv, Leave, ReleaseSlot, runs, RequestInv, ArrivingInv, WaitingInv, RunningInv, ScheduledInv, BackgroundInv, NoSlotLeaked, HasReleaser
  <2>6. QED
    BY <2>2, <2>3, <2>4, <2>5 DEF IInv
<1>4. QED
  BY <1>2, <1>3

\* One iteration of the loop of _grant_waiters.
LEMMA GrantStepStep ==
    ASSUME IInv, GrantStep
    PROVE  IInv'
<1> DEFINE h == Head(scan)
<1>0. /\ Tail(scan) \in Seq(Requests) /\ Distinct(Tail(scan)) /\ h \in Requests
      /\ h \in ToSet(scan) /\ h \in ToSet(waiters)
      /\ ToSet(Tail(scan)) = ToSet(scan) \ {h}
  BY TailProperties, MembersInSet DEF GrantStep, IInv, TypeOK, QueueInv
<1>1. future[h] = "pending" /\ slot[h] = "none" /\ stage[h] = "waiting" /\ h \notin scheduled
  BY <1>0, MembersInSet DEF IInv, QueueInv
<1> HIDE DEF h
<1>2. CASE GlobalFull \/ Blocked(h)
  <2>1. /\ UNCHANGED <<counts, slot, waiters, scheduled>>
        /\ scan' = IF GlobalFull THEN <<>> ELSE Tail(scan)
    BY <1>1, <1>2 DEF GrantStep, h
  <2>2. Accounting' /\ inFlight' \in Nat /\ byUser' \in [Keys -> Nat]
    BY <2>1, SameCounts DEF IInv
  <2>3. TypeOK'
    BY <1>0, <2>1, <2>2 DEF IInv, TypeOK, GrantStep, limits, runs
  <2>4. QueueInv'
    BY <1>0, <2>1, EmptyQueue, MembersInSet DEF IInv, QueueInv, GrantStep
  <2>5. PassedInv'
    BY <1>0, <1>2, <2>1 DEF IInv, PassedInv, GrantStep, limits, counts, Blocked, GlobalFull, UserFull
  <2>6. RequestInv' /\ NoSlotLeaked'
    BY <2>1 DEF IInv, GrantStep, runs, RequestInv, ArrivingInv, WaitingInv, RunningInv, ScheduledInv, BackgroundInv, NoSlotLeaked, HasReleaser
  <2>7. QED
    BY <2>2, <2>3, <2>4, <2>5, <2>6 DEF IInv
<1>3. CASE ~GlobalFull /\ ~Blocked(h)
  <2>1. /\ Take(h) /\ scheduled' = scheduled \cup {h}
        /\ waiters' = Without(waiters, h) /\ scan' = Tail(scan)
    BY <1>1, <1>3 DEF GrantStep, h
  <2>2. /\ waiters' \in Seq(Requests) /\ Distinct(waiters')
        /\ ToSet(waiters') = ToSet(waiters) \ {h}
    <3>1. waiters \in Seq(Requests) /\ Distinct(waiters)
      BY DEF IInv, TypeOK, QueueInv
    <3>2. \A x \in Requests :
             /\ Without(waiters, x) \in Seq(Requests) /\ Distinct(Without(waiters, x))
             /\ ToSet(Without(waiters, x)) = ToSet(waiters) \ {x}
      BY <3>1, WithoutProperties
    <3>3. QED
      BY <1>0, <2>1, <3>2
  <2>3. Accounting' /\ inFlight' \in Nat /\ byUser' \in [Keys -> Nat]
    BY <1>0, <1>1, <2>1, TakeCounts DEF IInv
  <2>4. TypeOK'
    BY <1>0, <2>1, <2>2, <2>3 DEF IInv, TypeOK, GrantStep, Take, limits, runs
  <2>5. QueueInv'
    <3>1. ToSet(waiters) \subseteq Requests
      BY MembersInSet DEF IInv, TypeOK
    <3>2. ToSet(scan') \subseteq ToSet(waiters')
      BY <1>0, <2>1, <2>2 DEF IInv, QueueInv
    <3>3. ASSUME NEW w \in ToSet(waiters')
          PROVE  stage'[w] = "waiting" /\ future'[w] = "pending" /\ slot'[w] = "none" /\ w \notin scheduled'
      BY <1>0, <2>1, <2>2, <3>1, <3>3 DEF IInv, TypeOK, QueueInv, GrantStep, Take
    <3>4. Distinct(scan')
      BY <1>0, <2>1
    <3>5. QED
      BY <2>2, <3>2, <3>3, <3>4 DEF QueueInv
  <2>6. PassedInv'
    <3>1. /\ UNCHANGED limits /\ inFlight' = inFlight + 1 /\ inFlight \in Nat
          /\ UserOf[h] \in Keys
          /\ byUser \in [Keys -> Nat] /\ byUser' = [byUser EXCEPT ![UserOf[h]] = byUser[UserOf[h]] + 1]
      BY <1>0, <2>1, KeysAssumption DEF IInv, TypeOK, GrantStep, Take, Keys
    <3>2. ASSUME NEW w \in ToSet(waiters') \ ToSet(scan') PROVE Blocked(w)'
      <4>1. w \in ToSet(waiters) \ ToSet(scan) /\ w \in Requests
        <5>1. ToSet(waiters) \subseteq Requests
          BY MembersInSet DEF IInv, TypeOK
        <5>2. QED
          BY <1>0, <2>1, <2>2, <3>2, <5>1
      <4>2. Blocked(w) /\ UserOf[w] \in Keys
        BY <4>1, KeysAssumption DEF IInv, PassedInv, Keys
      <4>3. byUser'[UserOf[w]] >= byUser[UserOf[w]] /\ inFlight' >= inFlight
        BY <3>1, <4>2
      <4>4. /\ byUser[UserOf[w]] \in Nat /\ byUser'[UserOf[w]] \in Nat
            /\ inFlight' \in Nat /\ total \in Int /\ perUser \in Int
            /\ total' = total /\ perUser' = perUser
        BY <2>3, <3>1, <4>2 DEF IInv, TypeOK, limits
      <4>5. QED
        BY <3>1, <4>2, <4>3, <4>4 DEF Blocked, GlobalFull, UserFull, Identified
    <3>3. QED
      BY <3>2 DEF PassedInv
  <2>7. RequestInv' /\ NoSlotLeaked'
    BY <1>0, <1>1, <2>1, <2>2, MembersInSet DEF IInv, TypeOK, QueueInv, GrantStep, Take, runs, RequestInv, ArrivingInv, WaitingInv, RunningInv, ScheduledInv, BackgroundInv, NoSlotLeaked, HasReleaser
  <2>8. QED
    BY <2>3, <2>4, <2>5, <2>6, <2>7 DEF IInv
<1>4. QED
  BY <1>2, <1>3

\* The whole next-state relation.
LEMMA IInvStep == IInv /\ [Next]_vars => IInv'
<1> SUFFICES ASSUME IInv, [Next]_vars PROVE IInv'
  OBVIOUS
<1>1. ASSUME NEW r \in Requests, WakeGranted(r) \/ WakeTimedOut(r) \/ WakeAborted(r) \/ TaskCancelled(r)
      PROVE  IInv'
  <2>1. CASE WakeGranted(r)
    BY <2>1, LeaveStep DEF WakeGranted
  <2>2. CASE WakeTimedOut(r)
    <3>1. future[r] = "pending"
      BY <2>2 DEF WakeTimedOut, Leave, IInv, RequestInv, WaitingInv
    <3>2. QED
      BY <2>2, <3>1, LeaveStep DEF WakeTimedOut
  <2>3. CASE WakeAborted(r)
    BY <2>3, LeaveStep DEF WakeAborted
  <2>4. CASE TaskCancelled(r)
    BY <2>4, LeaveStep DEF TaskCancelled
  <2>5. QED
    BY <1>1, <2>1, <2>2, <2>3, <2>4
<1>2. ASSUME NEW r \in Requests, AdmitNow(r) \/ Enqueue(r) \/ Refuse(r) \/ Disconnect(r)
      PROVE  IInv'
  BY <1>2, AdmitNowStep, EnqueueStep, RefuseStep, DisconnectStep
<1>3. ASSUME NEW r \in Requests,
             Deliver(r) \/ StartBackground(r) \/ SpawnFails(r) \/ EndBackground(r) \/ EndRequest(r)
      PROVE  IInv'
  BY <1>3, DeliverStep, StartBackgroundStep, SpawnFailsStep, EndBackgroundStep, EndRequestStep
<1>4. CASE UNCHANGED vars
  <2>1. UNCHANGED <<limits, counts, waiters, scan, scheduled, future, slot, stage, aborted, runs>>
    BY <1>4 DEF vars
  <2>2. Accounting' /\ inFlight' \in Nat /\ byUser' \in [Keys -> Nat]
    BY <2>1, SameCounts DEF IInv
  <2>3. TypeOK' /\ QueueInv'
    BY <2>1, <2>2, MembersInSet DEF IInv, TypeOK, QueueInv, limits, runs
  <2>4. PassedInv'
    BY <2>1 DEF IInv, PassedInv, limits, counts, Blocked, GlobalFull, UserFull
  <2>5. RequestInv' /\ NoSlotLeaked'
    BY <2>1 DEF IInv, runs, RequestInv, ArrivingInv, WaitingInv, RunningInv, ScheduledInv, BackgroundInv, NoSlotLeaked, HasReleaser
  <2>6. QED
    BY <2>2, <2>3, <2>4, <2>5 DEF IInv
<1>5. QED
  BY <1>1, <1>2, <1>3, <1>4, GrantStepStep, ConfigureStep DEF Next

-----------------------------------------------------------------------------
(* The theorems. *)

\* IInv holds in every reachable state of TurnLimiter.
THEOREM LimiterInvariant == Spec => []IInv
<1>1. QED
  BY IInvInit, IInvStep, PTL DEF Spec

\* The limiter's state stays in its types.
THEOREM TypeCorrect == Spec => []TypeOK
<1>1. IInv => TypeOK
  BY DEF IInv
<1>2. QED
  BY <1>1, LimiterInvariant, PTL

\* TurnLimiter._in_flight and _by_user count exactly the slots that are out,
\* for any number of requests, users and any limits.
THEOREM CountersExact == Spec => []Accounting
<1>1. IInv => Accounting
  BY DEF IInv
<1>2. QED
  BY <1>1, LimiterInvariant, PTL

\* A slot that is out always has a party that will release it: the callback
\* that delivers it, the woken waiter, the ASGI call, or the background run.
THEOREM SlotsAreOwned == Spec => []NoSlotLeaked
<1>1. IInv => NoSlotLeaked
  BY DEF IInv
<1>2. QED
  BY <1>1, LimiterInvariant, PTL

\* Whenever the limiter's lock is free, every waiter is blocked by a limit as
\* it stands: _grant_waiters never forgets one it could serve.
THEOREM NoServableWaiter == Spec => []WaitersAreBlocked
<1>1. IInv => WaitersAreBlocked
  BY EmptyQueue DEF IInv, WaitersAreBlocked, PassedInv, LockFree
<1>2. QED
  BY <1>1, LimiterInvariant, PTL

\* Only two steps take a slot, and each takes one for a request no limit blocks.
LEMMA OnlyTakesUnblocked ==
    ASSUME IInv, [Next]_vars, NEW r \in Requests, slot[r] = "none", slot'[r] = "held"
    PROVE  /\ Take(r) /\ ~Blocked(r) /\ UNCHANGED limits
           /\ scan = <<>> \/ (scan # <<>> /\ r = Head(scan))
<1>1. ASSUME NEW q \in Requests, AdmitNow(q)
      PROVE  Take(r) /\ ~Blocked(r) /\ UNCHANGED limits /\ scan = <<>>
  BY <1>1 DEF IInv, TypeOK, AdmitNow, Take, LockFree
<1>2. CASE GrantStep
  <2>1. Head(scan) \in Requests
    BY <1>2, TailProperties DEF GrantStep, IInv, TypeOK, QueueInv
  <2>2. QED
    BY <1>2, <2>1 DEF IInv, TypeOK, GrantStep, Take
<1>3. ASSUME NEW q \in Requests, ReleaseSlot(q) PROVE FALSE
  BY <1>3 DEF IInv, TypeOK, ReleaseSlot
<1>4. ASSUME UNCHANGED slot PROVE FALSE
  BY <1>4
<1>5. ASSUME NEW q \in Requests, NEW keep, NEW next, Leave(q, keep, next) PROVE FALSE
  BY <1>3, <1>4, <1>5 DEF Leave
<1>6. ASSUME NEW q \in Requests, Next, ~AdmitNow(q), ~GrantStep,
             \/ Enqueue(q) \/ Refuse(q) \/ Disconnect(q)
             \/ WakeGranted(q) \/ WakeTimedOut(q) \/ WakeAborted(q) \/ TaskCancelled(q)
             \/ Deliver(q) \/ StartBackground(q) \/ SpawnFails(q) \/ EndBackground(q) \/ EndRequest(q)
      PROVE  FALSE
  BY <1>3, <1>4, <1>5, <1>6 DEF Enqueue, Refuse, Disconnect, WakeGranted, WakeTimedOut, WakeAborted, TaskCancelled, Deliver, StartBackground, SpawnFails, EndBackground, EndRequest
<1>7. Next
  BY <1>4 DEF vars
<1>8. CASE Configure
  BY <1>4, <1>8 DEF Configure
<1>9. QED
  BY <1>1, <1>2, <1>6, <1>7, <1>8 DEF Next

\* TurnLimiter never takes a slot beyond a cap: right after a slot is taken the
\* turns in flight are at most MAX_CONCURRENT_TURNS and those of its user at
\* most MAX_CONCURRENT_TURNS_PER_USER, as the limits stand then.
THEOREM CapsRespected == Spec => WithinCaps
<1> DEFINE CapStep ==
      \A r \in Requests :
          slot[r] = "none" /\ slot'[r] = "held" =>
             /\ total <= 0 \/ Cardinality(Holders') <= total
             /\ perUser <= 0 \/ ~Identified(r)
                  \/ Cardinality(HoldersOf(UserOf[r])') <= perUser
<1>1. IInv /\ IInv' /\ [Next]_vars => CapStep
  <2> SUFFICES ASSUME IInv, IInv', [Next]_vars,
                      NEW r \in Requests, slot[r] = "none", slot'[r] = "held"
               PROVE  /\ total <= 0 \/ Cardinality(Holders') <= total
                      /\ perUser <= 0 \/ ~Identified(r)
                           \/ Cardinality(HoldersOf(UserOf[r])') <= perUser
    OBVIOUS
  <2>1. Take(r) /\ ~Blocked(r)
    BY OnlyTakesUnblocked
  <2>2. UserOf[r] \in Keys
    BY KeysAssumption DEF Keys
  <2>3. /\ inFlight' = Cardinality(Holders')
        /\ byUser'[UserOf[r]] = Cardinality(HoldersOf(UserOf[r])')
    BY <2>2 DEF IInv, Accounting
  <2>4. /\ inFlight' = inFlight + 1 /\ byUser'[UserOf[r]] = byUser[UserOf[r]] + 1
        /\ inFlight \in Nat /\ byUser[UserOf[r]] \in Nat /\ total \in Int /\ perUser \in Int
    BY <2>1, <2>2 DEF Take, IInv, TypeOK
  <2>5. QED
    BY <2>1, <2>3, <2>4 DEF Blocked, GlobalFull, UserFull
<1>2. Spec => [][CapStep]_vars
  BY <1>1, LimiterInvariant, PTL DEF Spec
<1>3. QED
  BY <1>2 DEF WithinCaps

\* The place every other entry takes when an entry is removed from a queue
\* without duplicates.
LEMMA WithoutShifts ==
    ASSUME NEW S, NEW s \in Seq(S), Distinct(s), NEW k \in 1..Len(s)
    PROVE  /\ Len(Without(s, s[k])) = Len(s) - 1
           /\ \A i \in 1..(Len(s) - 1) :
                 Without(s, s[k])[i] = IF i < k THEN s[i] ELSE s[i + 1]
<1> DEFINE a == SubSeq(s, 1, k - 1)
           b == SubSeq(s, k + 1, Len(s))
           t == Without(s, s[k])
<1>1. DOMAIN s = 1..Len(s) /\ Len(s) \in Nat /\ k \in 1..Len(s) /\ s \in Seq(S)
  OBVIOUS
<1>2. (CHOOSE i \in DOMAIN s : s[i] = s[k]) = k
  BY <1>1 DEF Distinct
<1>3. t = a \o b
  BY <1>1, <1>2 DEF Without, RemoveAt
<1>4. a \in Seq(S) /\ Len(a) = k - 1 /\ \A i \in 1..(k - 1) : a[i] = s[i]
  BY <1>1
<1>5. b \in Seq(S) /\ Len(b) = Len(s) - k /\ \A i \in 1..(Len(s) - k) : b[i] = s[k + i]
  <2>1. k + 1 \in Int /\ Len(s) \in Int /\ \A i \in (k + 1)..Len(s) : s[i] \in S
    BY <1>1
  <2>2. \A m, n \in Int : (\A i \in m..n : s[i] \in S) =>
           /\ SubSeq(s, m, n) \in Seq(S)
           /\ Len(SubSeq(s, m, n)) = IF m =< n THEN n - m + 1 ELSE 0
           /\ \A i \in 1..(n - m + 1) : SubSeq(s, m, n)[i] = s[m + i - 1]
    BY SubSeqProperties
  <2>3. /\ b \in Seq(S) /\ Len(b) = IF k + 1 =< Len(s) THEN Len(s) - (k + 1) + 1 ELSE 0
        /\ \A i \in 1..(Len(s) - (k + 1) + 1) : b[i] = s[k + 1 + i - 1]
    BY <2>1, <2>2
  <2> HIDE DEF a, b, t
  <2>4. Len(b) = Len(s) - k /\ Len(s) - (k + 1) + 1 = Len(s) - k
    <3>1. k \in Int /\ Len(s) \in Int /\ k =< Len(s)
      BY <1>1
    <3>2. CASE k + 1 =< Len(s)
      <4>1. Len(b) = Len(s) - (k + 1) + 1
        BY <2>3, <3>2
      <4>2. QED
        BY <3>1, <4>1
    <3>3. CASE ~(k + 1 =< Len(s))
      <4>1. Len(b) = 0 /\ Len(s) = k
        BY <2>3, <3>1, <3>3
      <4>2. QED
        BY <3>1, <4>1
    <3>4. QED
      BY <3>2, <3>3
  <2>5. ASSUME NEW i \in 1..(Len(s) - k) PROVE b[i] = s[k + i]
    <3>1. k + 1 + i - 1 = k + i
      BY <1>1
    <3>2. QED
      BY <2>3, <2>4, <3>1
  <2>6. QED
    BY <2>3, <2>4, <2>5
<1> HIDE DEF a, b, t
<1>6. /\ Len(t) = Len(a) + Len(b)
      /\ \A i \in 1..(Len(a) + Len(b)) : t[i] = IF i =< Len(a) THEN a[i] ELSE b[i - Len(a)]
  <2>1. a \in Seq(S) /\ b \in Seq(S)
    BY <1>4, <1>5
  <2>2. \A p, q \in Seq(S) :
           /\ Len(p \o q) = Len(p) + Len(q)
           /\ \A i \in 1..(Len(p) + Len(q)) : (p \o q)[i] = IF i =< Len(p) THEN p[i] ELSE q[i - Len(p)]
    BY ConcatProperties
  <2>3. QED
    BY <1>3, <2>1, <2>2
<1>7. Len(t) = Len(s) - 1
  BY <1>1, <1>4, <1>5, <1>6
<1>8. ASSUME NEW i \in 1..(Len(s) - 1) PROVE t[i] = IF i < k THEN s[i] ELSE s[i + 1]
  <2>1. CASE i < k
    <3>1. /\ i \in 1..(Len(a) + Len(b)) /\ i =< Len(a) /\ i \in 1..(k - 1)
      BY <1>1, <1>4, <1>5, <2>1
    <3>2. t[i] = a[i]
      BY <1>6, <3>1
    <3>3. a[i] = s[i]
      BY <1>4, <3>1
    <3>4. QED
      BY <2>1, <3>2, <3>3
  <2>2. CASE ~(i < k)
    <3>1. i - (k - 1) \in 1..(Len(s) - k) /\ k + (i - (k - 1)) = i + 1
      BY <1>1, <2>2
    <3>2. b[i - (k - 1)] = s[i + 1]
      BY <1>5, <3>1
    <3>3. i \in 1..(Len(a) + Len(b)) /\ ~(i =< Len(a)) /\ i - Len(a) = i - (k - 1)
      BY <1>1, <1>4, <1>5, <2>2
    <3>4. QED
      BY <1>6, <2>2, <3>2, <3>3
  <2>3. QED
    BY <2>1, <2>2
<1>9. QED
  BY <1>7, <1>8 DEF t

\* What the loop of _grant_waiters has still to visit is the end of the queue,
\* in the queue's order: the loop runs over a copy, and whatever leaves the
\* queue meanwhile is the waiter the loop is at.
ScanIsSuffix ==
    /\ Len(scan) =< Len(waiters)
    /\ \A i \in 1..Len(scan) : scan[i] = waiters[Len(waiters) - Len(scan) + i]

\* A loop that is over, or starts over the queue as it is.
LEMMA SuffixAtRest ==
    ASSUME NEW w \in Seq(Requests), NEW s \in Seq(Requests), s = <<>> \/ s = w
    PROVE  /\ Len(s) =< Len(w)
           /\ \A i \in 1..Len(s) : s[i] = w[Len(w) - Len(s) + i]
  OBVIOUS

\* The loop goes over its copy in order.
LEMMA SuffixGrant ==
    ASSUME IInv, ScanIsSuffix, GrantStep
    PROVE  ScanIsSuffix'
<1>1. /\ waiters \in Seq(Requests) /\ scan \in Seq(Requests) /\ scan # <<>>
      /\ Distinct(waiters) /\ Len(waiters) \in Nat /\ Len(scan) \in Nat \ {0}
      /\ Head(scan) = scan[1]
  BY DEF IInv, TypeOK, QueueInv, GrantStep
<1> DEFINE k == Len(waiters) - Len(scan) + 1
<1>2. k \in 1..Len(waiters) /\ waiters[k] = Head(scan)
  BY <1>1 DEF ScanIsSuffix
<1>3. CASE scan' = <<>>
  <2>1. IInv'
    BY GrantStepStep
  <2>2. Len(scan') = 0 /\ waiters' \in Seq(Requests)
    BY <1>3, <2>1 DEF IInv, TypeOK
  <2>3. QED
    BY <2>2 DEF ScanIsSuffix
<1>4. /\ scan' = Tail(scan) => Len(scan') = Len(scan) - 1
      /\ scan' = Tail(scan) => \A i \in 1..(Len(scan) - 1) : scan'[i] = scan[i + 1]
  BY <1>1
<1>5. CASE scan' = Tail(scan) /\ waiters' = waiters
  BY <1>1, <1>4, <1>5 DEF ScanIsSuffix
<1>6. CASE scan' = Tail(scan) /\ waiters' = Without(waiters, Head(scan))
  <2>1. /\ Len(waiters') = Len(waiters) - 1
        /\ \A i \in 1..(Len(waiters) - 1) :
              waiters'[i] = IF i < k THEN waiters[i] ELSE waiters[i + 1]
    BY <1>1, <1>2, <1>6, WithoutShifts
  <2>2. Len(scan') =< Len(waiters')
    BY <1>1, <1>4, <1>6, <2>1 DEF ScanIsSuffix
  <2>3. ASSUME NEW i \in 1..Len(scan') PROVE scan'[i] = waiters'[Len(waiters') - Len(scan') + i]
    <3>1. i \in 1..(Len(scan) - 1) /\ i + 1 \in 1..Len(scan) /\ scan'[i] = scan[i + 1]
      BY <1>1, <1>4, <1>6
    <3>2. scan[i + 1] = waiters[Len(waiters) - Len(scan) + (i + 1)]
      BY <3>1 DEF ScanIsSuffix
    <3>3. Len(waiters') - Len(scan') + i = Len(waiters) - Len(scan) + i
      <4>1. /\ Len(waiters') = Len(waiters) - 1 /\ Len(scan') = Len(scan) - 1
            /\ Len(waiters) \in Nat /\ Len(scan) \in Nat /\ i \in Int
        BY <1>1, <1>4, <1>6, <2>1
      <4>2. QED
        BY <4>1
    <3>4. /\ Len(waiters) - Len(scan) + i \in 1..(Len(waiters) - 1)
          /\ ~(Len(waiters) - Len(scan) + i < k)
          /\ Len(waiters) - Len(scan) + i + 1 = Len(waiters) - Len(scan) + (i + 1)
      BY <1>1, <3>1 DEF ScanIsSuffix
    <3> HIDE DEF k
    <3>5. QED
      BY <2>1, <3>1, <3>2, <3>3, <3>4
  <2>4. QED
    BY <2>2, <2>3 DEF ScanIsSuffix
<1>7. QED
  BY <1>3, <1>5, <1>6 DEF GrantStep

\* Every other step leaves the queue alone while the loop runs.
LEMMA SuffixStep == IInv /\ IInv' /\ ScanIsSuffix /\ [Next]_vars => ScanIsSuffix'
<1> SUFFICES ASSUME IInv, IInv', ScanIsSuffix, [Next]_vars PROVE ScanIsSuffix'
  OBVIOUS
<1>1. /\ waiters \in Seq(Requests) /\ scan \in Seq(Requests)
      /\ waiters' \in Seq(Requests) /\ scan' \in Seq(Requests)
  BY DEF IInv, TypeOK
<1>2. ASSUME scan' = <<>> \/ scan' = waiters' PROVE ScanIsSuffix'
  BY <1>1, <1>2, SuffixAtRest DEF ScanIsSuffix
<1>3. ASSUME UNCHANGED <<scan, waiters>> PROVE ScanIsSuffix'
  BY <1>3 DEF ScanIsSuffix
<1>4. ASSUME NEW r \in Requests, ReleaseSlot(r), UNCHANGED waiters PROVE ScanIsSuffix'
  BY <1>2, <1>3, <1>4 DEF ReleaseSlot
<1>5. ASSUME NEW r \in Requests, NEW keep, NEW next, Leave(r, keep, next) PROVE ScanIsSuffix'
  BY <1>2, <1>5 DEF Leave, LockFree, ReleaseSlot
<1>6. ASSUME NEW r \in Requests,
             AdmitNow(r) \/ Enqueue(r) \/ Refuse(r) \/ Disconnect(r) \/ StartBackground(r)
      PROVE  ScanIsSuffix'
  BY <1>2, <1>3, <1>6 DEF AdmitNow, Enqueue, Refuse, Disconnect, StartBackground, LockFree
<1>7. ASSUME NEW r \in Requests,
             Deliver(r) \/ SpawnFails(r) \/ EndBackground(r) \/ EndRequest(r)
      PROVE  ScanIsSuffix'
  BY <1>3, <1>4, <1>7 DEF Deliver, SpawnFails, EndBackground, EndRequest
<1>8. CASE Configure
  BY <1>2, <1>8 DEF Configure
<1>9. CASE UNCHANGED vars
  BY <1>3, <1>9 DEF vars
<1>10. QED
  BY <1>5, <1>6, <1>7, <1>8, <1>9, SuffixGrant
     DEF Next, WakeGranted, WakeTimedOut, WakeAborted, TaskCancelled

\* A freed slot goes to the oldest waiter that can take it, and no arrival
\* jumps ahead of one, for any number of requests, users and any limits: who
\* is ahead of a request that gets a slot is held back by its own user's cap.
THEOREM OldestIsServed == Spec => NoOvertaking
<1> DEFINE Fair == \A r \in Requests :
                      slot[r] = "none" /\ slot'[r] = "held" => \A w \in Ahead(r) : UserFull(w)
<1>1. Init => ScanIsSuffix
  BY DEF Init, ScanIsSuffix
<1>2. Spec => []ScanIsSuffix
  BY <1>1, SuffixStep, LimiterInvariant, PTL DEF Spec
<1>3. IInv /\ ScanIsSuffix /\ [Next]_vars => Fair
  <2> SUFFICES ASSUME IInv, ScanIsSuffix, [Next]_vars,
                      NEW r \in Requests, slot[r] = "none", slot'[r] = "held",
                      NEW w \in Ahead(r)
               PROVE  UserFull(w)
    OBVIOUS
  <2>1. /\ ~Blocked(r)
        /\ scan = <<>> \/ (scan # <<>> /\ r = Head(scan))
    BY OnlyTakesUnblocked
  <2>2. /\ waiters \in Seq(Requests) /\ scan \in Seq(Requests) /\ Distinct(waiters)
        /\ DOMAIN waiters = 1..Len(waiters) /\ DOMAIN scan = 1..Len(scan)
        /\ Len(waiters) \in Nat /\ Len(scan) \in Nat
    BY DEF IInv, TypeOK, QueueInv
  <2>3. PICK i \in 1..Len(waiters) : waiters[i] = w /\ \A j \in 1..i : waiters[j] # r
    BY <2>2 DEF Ahead
  <2>4. w \in ToSet(waiters)
    BY <2>2, <2>3 DEF ToSet
  <2>5. w \notin ToSet(scan)
    <3>1. SUFFICES ASSUME NEW n \in 1..Len(scan), scan[n] = w PROVE FALSE
      BY <2>2 DEF ToSet
    <3>2. scan # <<>> /\ r = scan[1]
      BY <2>1, <2>2, <3>1
    <3>3. waiters[Len(waiters) - Len(scan) + 1] = r /\ waiters[Len(waiters) - Len(scan) + n] = w
      BY <2>2, <3>1, <3>2 DEF ScanIsSuffix
    <3>4. /\ Len(waiters) - Len(scan) + 1 \in 1..Len(waiters)
          /\ Len(waiters) - Len(scan) + n \in 1..Len(waiters)
      BY <2>2, <3>1 DEF ScanIsSuffix
    <3>5. i = Len(waiters) - Len(scan) + n
      BY <2>2, <2>3, <3>3, <3>4 DEF Distinct
    <3>6. Len(waiters) - Len(scan) + 1 \in 1..i
      BY <2>2, <3>1, <3>4, <3>5
    <3>7. QED
      BY <2>3, <3>3, <3>6
  <2>6. Blocked(w)
    BY <2>4, <2>5 DEF IInv, PassedInv
  <2>7. QED
    BY <2>1, <2>6 DEF Blocked
<1>4. Spec => [][Fair]_vars
  BY <1>2, <1>3, LimiterInvariant, PTL DEF Spec
<1>5. QED
  BY <1>4 DEF NoOvertaking

=============================================================================

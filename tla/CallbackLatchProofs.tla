------------------------ MODULE CallbackLatchProofs ------------------------
(***************************************************************************)
(* TLAPS proofs about MulSemaphore and CallbackLatch, for any tasks, any   *)
(* callbacks and any bound on release_count.                               *)
(***************************************************************************)
EXTENDS CallbackLatch, SequenceTheorems, WellFoundedInduction, TLAPS

(***************************************************************************)
(* The strengthening of SlotsAlive and DequeuedIsGranted: where a task is  *)
(* while its slot is in the queue, armed or allocated, and that the two    *)
(* permits that a slot can get are given once each.                        *)
(***************************************************************************)
Queued == ToSet(waiting)
QueuedOnce == \A i, j \in DOMAIN waiting : waiting[i] = waiting[j] => i = j
QueuedAt == \A t \in Queued : pc[t] \in {"wait", "erase"}
ArmedAt == \A t \in armed : pc[t] \in {"second", "wait", "erase", "cancel"}
LiveAt ==
    \A t \in Tasks :
        pc[t] \in {"timeout", "second", "wait", "erase", "cancel", "delete"} => t \in live

\* A slot may still be given a permit by release().
Releasable(t) == pc[t] = "second" \/ t \in Queued
GivenOnce ==
    \A t \in Tasks :
        /\ pc[t] \in {"idle", "first", "new", "timeout"} => permits[t] = 0
        /\ t \in armed /\ Releasable(t) => permits[t] = 0
        /\ t \in armed \/ Releasable(t) => permits[t] <= 1

SlotInv ==
    /\ TypeOK /\ QueuedOnce /\ QueuedAt /\ ArmedAt /\ LiveAt /\ GivenOnce /\ DequeuedIsGranted

(***************************************************************************)
(* The strengthening of TimeoutIsTrue: as long as nobody has opened the    *)
(* latch, all permits come from timeouts.                                  *)
(***************************************************************************)
ClosedIsExpired ==
    ~success =>
        /\ release_count = 0
        /\ \A c \in Callbacks : opening[c] = "idle"
        /\ \A t \in Tasks :
            permits[t] > 0 \/ (result[t] = "wait" /\ pc[t] \in {"erase", "cancel", "delete", "idle"})
            => t \in expired

LatchInv == LatchTypeOK /\ SlotInv /\ ClosedIsExpired /\ TimeoutIsTrue

-----------------------------------------------------------------------------
(* Queues *)

\* The first matching index, as the loops over the waiters find it, is one of them.
LEMMA FirstIsThere ==
    ASSUME NEW T \in SUBSET Nat, T # {}
    PROVE  Min(T) \in T
<1>1. PICK m \in T : \A k \in T : ~(<<k, m>> \in OpToRel(<, Nat))
  BY NatLessThanWellFounded, WFMin
<1>2. \A k \in T : ~(k < m)
  BY <1>1 DEF OpToRel
<1>3. \A k \in T : m <= k
  BY <1>2
<1>4. QED
  BY <1>3 DEF Min

\* What vector::erase at one index leaves: the elements before it stay, those
\* after it move down by one.
LEMMA RemoveAtFacts ==
    ASSUME NEW S, NEW s \in Seq(S), NEW k \in 1 .. Len(s)
    PROVE  /\ RemoveAt(s, k) \in Seq(S)
           /\ Len(RemoveAt(s, k)) = Len(s) - 1
           /\ \A i \in 1 .. (Len(s) - 1) : RemoveAt(s, k)[i] = IF i < k THEN s[i] ELSE s[i + 1]
<1> DEFINE a == SubSeq(s, 1, k - 1)
           b == SubSeq(s, k + 1, Len(s))
<1>1. /\ Len(s) \in Nat /\ k \in Int /\ \A i \in 1 .. Len(s) : s[i] \in S
  OBVIOUS
<1>2. a \in Seq(S) /\ Len(a) = k - 1 /\ \A i \in 1 .. (k - 1) : a[i] = s[i]
  <2>1. \A i \in 1 .. (k - 1) : s[i] \in S
    BY <1>1
  <2>2. QED
    BY <1>1, <2>1, SubSeqProperties
<1>3. b \in Seq(S) /\ Len(b) = Len(s) - k /\ \A i \in 1 .. (Len(s) - k) : b[i] = s[k + i]
  <2>1. \A i \in (k + 1) .. Len(s) : s[i] \in S
    BY <1>1
  <2>2. QED
    BY <1>1, <2>1, SubSeqProperties
<1> HIDE DEF a, b
<1>4. RemoveAt(s, k) = a \o b
  BY DEF RemoveAt, a, b
<1>5. /\ a \o b \in Seq(S) /\ Len(a \o b) = Len(s) - 1
      /\ \A i \in 1 .. (Len(s) - 1) : (a \o b)[i] = IF i < k THEN s[i] ELSE s[i + 1]
  <2>1. /\ a \o b \in Seq(S) /\ Len(a \o b) = Len(a) + Len(b)
        /\ \A i \in 1 .. (Len(a) + Len(b)) : (a \o b)[i] = IF i <= Len(a) THEN a[i] ELSE b[i - Len(a)]
    BY <1>2, <1>3, ConcatProperties
  <2>2. Len(a) + Len(b) = Len(s) - 1 /\ Len(a) = k - 1
    BY <1>1, <1>2, <1>3
  <2>3. ASSUME NEW i \in 1 .. (Len(s) - 1)
        PROVE  (a \o b)[i] = IF i < k THEN s[i] ELSE s[i + 1]
    <3>1. CASE i < k
      <4>1. i \in 1 .. (k - 1) /\ i <= Len(a) /\ i \in 1 .. (Len(a) + Len(b))
        BY <1>1, <2>2, <3>1
      <4>2. QED
        BY <1>2, <2>1, <3>1, <4>1
    <3>2. CASE ~(i < k)
      <4>1. /\ ~(i <= Len(a)) /\ i - Len(a) \in 1 .. (Len(s) - k) /\ i \in 1 .. (Len(a) + Len(b))
            /\ k + (i - Len(a)) = i + 1
        BY <1>1, <2>2, <3>2
      <4>2. (a \o b)[i] = b[i - Len(a)]
        BY <2>1, <4>1
      <4>3. b[i - Len(a)] = s[k + (i - Len(a))]
        BY <1>3, <4>1
      <4>4. QED
        BY <3>2, <4>1, <4>2, <4>3
    <3>3. QED
      BY <3>1, <3>2
  <2>4. QED
    BY <2>1, <2>2, <2>3
<1>6. QED
  BY <1>4, <1>5

\* A slot that is taken off a queue without repetitions is gone from it.
LEMMA RemoveFirstFacts ==
    ASSUME NEW S, NEW s \in Seq(S), NEW e, \A i, j \in DOMAIN s : s[i] = s[j] => i = j
    PROVE  /\ RemoveFirst(s, e) \in Seq(S)
           /\ ToSet(RemoveFirst(s, e)) = ToSet(s) \ {e}
           /\ \A i, j \in DOMAIN RemoveFirst(s, e) : RemoveFirst(s, e)[i] = RemoveFirst(s, e)[j] => i = j
<1> DEFINE r == RemoveFirst(s, e)
<1>0. DOMAIN s = 1 .. Len(s) /\ Len(s) \in Nat
  OBVIOUS
<1>1. CASE \E i \in 1 .. Len(s) : s[i] = e
  <2> DEFINE I == {i \in 1 .. Len(s) : s[i] = e}
             k == Min(I)
  <2>1. I \in SUBSET Nat /\ I # {}
    BY <1>1
  <2>2. k \in I
    BY <2>1, FirstIsThere
  <2>3. r = RemoveAt(s, k)
    BY <1>1, <2>1 DEF RemoveFirst, SelectInSeq
  <2>4. k \in 1 .. Len(s) /\ s[k] = e
    BY <2>2
  <2> HIDE DEF r, k
  <2>5. /\ r \in Seq(S) /\ Len(r) = Len(s) - 1
        /\ \A i \in 1 .. (Len(s) - 1) : r[i] = IF i < k THEN s[i] ELSE s[i + 1]
    BY <2>3, <2>4, RemoveAtFacts
  <2>6. DOMAIN r = 1 .. (Len(s) - 1)
    BY <2>5
  <2>7. ToSet(r) = ToSet(s) \ {e}
    <3>1. \A i \in DOMAIN r : r[i] \in ToSet(s) \ {e}
      BY <1>0, <2>4, <2>5, <2>6 DEF ToSet
    <3>2. ASSUME NEW j \in DOMAIN s, s[j] # e
          PROVE  \E i \in DOMAIN r : r[i] = s[j]
      <4>1. CASE j < k
        BY <1>0, <2>4, <2>5, <2>6, <3>2, <4>1
      <4>2. CASE j > k
        <5>1. j - 1 \in DOMAIN r /\ r[j - 1] = s[j]
          BY <1>0, <2>4, <2>5, <2>6, <4>2
        <5>2. QED
          BY <5>1
      <4>3. QED
        BY <1>0, <2>4, <3>2, <4>1, <4>2
    <3>3. QED
      BY <3>1, <3>2 DEF ToSet
  <2>8. \A i, j \in DOMAIN r : r[i] = r[j] => i = j
    <3>1. TAKE i, j \in DOMAIN r
    <3>2. HAVE r[i] = r[j]
    <3> DEFINE f(x) == IF x < k THEN x ELSE x + 1
    <3>3. f(i) \in DOMAIN s /\ f(j) \in DOMAIN s /\ r[i] = s[f(i)] /\ r[j] = s[f(j)]
      BY <1>0, <2>4, <2>5, <2>6
    <3>4. f(i) = f(j)
      BY <3>2, <3>3
    <3>5. QED
      BY <2>4, <2>6, <3>4
  <2>9. QED
    BY <2>5, <2>7, <2>8 DEF r
<1>2. CASE ~\E i \in 1 .. Len(s) : s[i] = e
  BY <1>0, <1>2 DEF RemoveFirst, ToSet
<1>3. QED
  BY <1>1, <1>2

\* push_back of a slot that is not listed yet keeps the list free of duplicates.
LEMMA AppendFacts ==
    ASSUME NEW S, NEW s \in Seq(S), NEW e \in S, \A i, j \in DOMAIN s : s[i] = s[j] => i = j,
           e \notin ToSet(s)
    PROVE  /\ Append(s, e) \in Seq(S)
           /\ ToSet(Append(s, e)) = ToSet(s) \cup {e}
           /\ \A i, j \in DOMAIN Append(s, e) : Append(s, e)[i] = Append(s, e)[j] => i = j
<1>1. /\ DOMAIN s = 1 .. Len(s) /\ Len(s) \in Nat
      /\ DOMAIN Append(s, e) = 1 .. (Len(s) + 1)
      /\ \A i \in 1 .. Len(s) : Append(s, e)[i] = s[i]
      /\ Append(s, e)[Len(s) + 1] = e /\ Append(s, e) \in Seq(S)
  OBVIOUS
<1>2. QED
  BY <1>1 DEF ToSet

\* Erasing the first waiter of a list without duplicates leaves all the others.
LEMMA TailFacts ==
    ASSUME NEW S, NEW s \in Seq(S), s # <<>>, \A i, j \in DOMAIN s : s[i] = s[j] => i = j
    PROVE  /\ Tail(s) \in Seq(S) /\ Head(s) \in ToSet(s)
           /\ ToSet(Tail(s)) = ToSet(s) \ {Head(s)}
           /\ \A i, j \in DOMAIN Tail(s) : Tail(s)[i] = Tail(s)[j] => i = j
<1>1. /\ DOMAIN s = 1 .. Len(s) /\ Len(s) \in Nat /\ Len(s) # 0 /\ Head(s) = s[1]
      /\ DOMAIN Tail(s) = 1 .. (Len(s) - 1) /\ Tail(s) \in Seq(S)
      /\ \A i \in 1 .. (Len(s) - 1) : Tail(s)[i] = s[i + 1]
  OBVIOUS
<1>2. \A i \in 2 .. Len(s) : i - 1 \in DOMAIN Tail(s) /\ Tail(s)[i - 1] = s[i]
  BY <1>1
<1>3. ToSet(Tail(s)) = ToSet(s) \ {Head(s)}
  <2>1. \A i \in DOMAIN Tail(s) : Tail(s)[i] \in ToSet(s) \ {Head(s)}
    BY <1>1 DEF ToSet
  <2>2. \A j \in DOMAIN s : s[j] # Head(s) => \E i \in DOMAIN Tail(s) : Tail(s)[i] = s[j]
    <3>1. TAKE j \in DOMAIN s
    <3>2. HAVE s[j] # Head(s)
    <3>3. j \in 2 .. Len(s)
      BY <1>1, <3>2
    <3>4. QED
      BY <1>2, <3>3
  <2>3. QED
    BY <2>1, <2>2 DEF ToSet
<1>4. \A i, j \in DOMAIN Tail(s) : Tail(s)[i] = Tail(s)[j] => i = j
  BY <1>1
<1>5. Head(s) \in ToSet(s)
  BY <1>1 DEF ToSet
<1>6. QED
  BY <1>1, <1>3, <1>4, <1>5

-----------------------------------------------------------------------------
(* Slots *)

\* A step that leaves the queue alone.
LEMMA SameQueue ==
    ASSUME QueuedOnce, UNCHANGED waiting
    PROVE  QueuedOnce' /\ Queued' = Queued
BY DEF QueuedOnce, Queued

\* The steps of acquire() itself, in the task that waits, keep every listed slot
\* alive and every live slot in its place.
LEMMA AcquireSlots ==
    ASSUME SlotInv, NEW t \in Tasks, Acquire(t) \/ First(t) \/ New(t) \/ SetTimeout(t) \/ Cancel(t) \/ Delete(t)
    PROVE  SlotInv'
<1>0. QueuedOnce' /\ Queued' = Queued /\ UNCHANGED waiting
  BY SameQueue DEF SlotInv, Acquire, First, New, SetTimeout, Cancel, Delete
<1> USE DEF SlotInv, TypeOK, Goto, Labels
<1>1. CASE Acquire(t)
  BY <1>0, <1>1 DEF Acquire, QueuedAt, ArmedAt, LiveAt, GivenOnce, Releasable, DequeuedIsGranted, Queued
<1>2. CASE First(t)
  <2>1. release_count' \in 0 .. MaxReleases
    BY <1>2, MulSemaphoreAssumption DEF First
  <2>2. PICK l \in {"idle", "new"} :
           pc[t] = "first" /\ pc' = [pc EXCEPT ![t] = l] /\ UNCHANGED <<permits, armed, live>>
    BY <1>2 DEF First
  <2>3. TypeOK' /\ QueuedAt' /\ ArmedAt' /\ LiveAt'
    <3>1. TypeOK'
      BY <1>0, <2>1, <2>2
    <3>2. QED
      BY <1>0, <2>2, <3>1 DEF QueuedAt, ArmedAt, LiveAt
  <2>4. GivenOnce'
    BY <1>0, <2>2 DEF QueuedAt, GivenOnce, Releasable
  <2>5. DequeuedIsGranted'
    BY <1>0, <2>2 DEF DequeuedIsGranted
  <2>6. QED
    BY <1>0, <2>3, <2>4, <2>5
<1>3. CASE New(t)
  BY <1>0, <1>3 DEF New, QueuedAt, ArmedAt, LiveAt, GivenOnce, Releasable, DequeuedIsGranted, Queued
<1>4. CASE SetTimeout(t)
  BY <1>0, <1>4 DEF SetTimeout, QueuedAt, ArmedAt, LiveAt, GivenOnce, Releasable, DequeuedIsGranted, Queued
<1>5. CASE Cancel(t)
  BY <1>0, <1>5 DEF Cancel, QueuedAt, ArmedAt, LiveAt, GivenOnce, Releasable, DequeuedIsGranted, Queued
<1>6. CASE Delete(t)
  BY <1>0, <1>6 DEF Delete, QueuedAt, ArmedAt, LiveAt, GivenOnce, Releasable, DequeuedIsGranted, Queued
<1>7. QED
  BY <1>1, <1>2, <1>3, <1>4, <1>5, <1>6

\* The three steps of acquire() that deal with the queue or the permit.
LEMMA QueueSlots ==
    ASSUME SlotInv, NEW t \in Tasks, Second(t) \/ Wait(t) \/ Erase(t)
    PROVE  SlotInv'
<1> USE DEF SlotInv, TypeOK, Goto, Labels
<1>0. waiting \in Seq(Tasks) /\ \A i, j \in DOMAIN waiting : waiting[i] = waiting[j] => i = j
  BY DEF QueuedOnce
<1>1. CASE Second(t) /\ release_count = 0
  <2>1. pc[t] = "second" /\ waiting' = Append(waiting, t) /\ t \notin ToSet(waiting)
    BY <1>1 DEF Second, QueuedAt, Queued
  <2>2. waiting' \in Seq(Tasks) /\ Queued' = Queued \cup {t} /\ QueuedOnce'
    BY <1>0, <2>1, AppendFacts DEF Queued, QueuedOnce
  <2>3. pc' = [pc EXCEPT ![t] = "wait"] /\ UNCHANGED <<release_count, permits, armed, live>>
    BY <1>1 DEF Second
  <2>4. QED
    <3>1. TypeOK' /\ QueuedAt' /\ ArmedAt' /\ LiveAt'
      BY <2>1, <2>2, <2>3 DEF QueuedAt, ArmedAt, LiveAt
    <3>2. GivenOnce'
      BY <2>1, <2>2, <2>3 DEF QueuedAt, GivenOnce, Releasable
    <3>3. DequeuedIsGranted'
      BY <2>1, <2>2, <2>3 DEF DequeuedIsGranted, Queued
    <3>4. QED
      BY <2>1, <2>2, <2>3, <3>1, <3>2, <3>3
<1>2. CASE Second(t) /\ release_count > 0
  <2>1. QueuedOnce' /\ Queued' = Queued /\ waiting' = waiting
    BY <1>2, SameQueue DEF Second
  <2>2. release_count' \in 0 .. MaxReleases
    BY <1>2, MulSemaphoreAssumption DEF Second
  <2>3. pc[t] = "second" /\ pc' = [pc EXCEPT ![t] = "cancel"] /\ UNCHANGED <<permits, armed, live>>
    BY <1>2 DEF Second
  <2>4. QED
    <3>1. TypeOK' /\ QueuedAt' /\ ArmedAt' /\ LiveAt'
      BY <2>1, <2>2, <2>3 DEF QueuedAt, ArmedAt, LiveAt
    <3>2. GivenOnce'
      BY <2>1, <2>2, <2>3 DEF QueuedAt, GivenOnce, Releasable
    <3>3. DequeuedIsGranted'
      BY <2>1, <2>2, <2>3 DEF DequeuedIsGranted, Queued
    <3>4. QED
      BY <2>1, <2>2, <2>3, <3>1, <3>2, <3>3
<1>3. CASE Wait(t)
  <2>1. QueuedOnce' /\ Queued' = Queued /\ waiting' = waiting
    BY <1>3, SameQueue DEF Wait
  <2>2. permits[t] - 1 \in 0 .. 2 /\ permits[t] - 1 <= permits[t]
    BY <1>3 DEF Wait
  <2>3. QED
    BY <1>3, <2>1, <2>2 DEF Wait, QueuedAt, ArmedAt, LiveAt, GivenOnce, Releasable, DequeuedIsGranted, Queued
<1>4. CASE Erase(t)
  <2>1. waiting' = RemoveFirst(waiting, t)
    BY <1>4 DEF Erase
  <2>2. waiting' \in Seq(Tasks) /\ Queued' = Queued \ {t} /\ QueuedOnce'
    BY <1>0, <2>1, RemoveFirstFacts DEF Queued, QueuedOnce
  <2>3. QED
    BY <1>4, <2>2 DEF Erase, QueuedAt, ArmedAt, LiveAt, GivenOnce, Releasable, DequeuedIsGranted, Queued
<1>5. QED
  BY <1>1, <1>2, <1>3, <1>4 DEF Second

\* release() and the timeout.
LEMMA GrantSlots ==
    ASSUME SlotInv, Release \/ \E t \in Tasks : Timeout(t)
    PROVE  SlotInv'
<1> USE DEF SlotInv, TypeOK, Labels
<1>0. waiting \in Seq(Tasks) /\ \A i, j \in DOMAIN waiting : waiting[i] = waiting[j] => i = j
  BY DEF QueuedOnce
<1>1. CASE Release /\ waiting # <<>>
  <2> DEFINE h == Head(waiting)
  <2>1. waiting' = Tail(waiting) /\ permits' = [permits EXCEPT ![h] = @ + 1]
    BY <1>1 DEF Release, Grant
  <2>2. /\ waiting' \in Seq(Tasks) /\ h \in Queued /\ Queued' = Queued \ {h} /\ QueuedOnce'
        /\ h \in Tasks
    BY <1>0, <1>1, <2>1, TailFacts DEF Queued, QueuedOnce
  <2> HIDE DEF h
  <2>3. permits[h] \in 0 .. 1
    BY <2>2 DEF GivenOnce, Releasable
  <2>4. pc[h] # "second"
    BY <2>2 DEF QueuedAt
  <2>5. QED
    BY <1>1, <2>1, <2>2, <2>3, <2>4
       DEF Release, QueuedAt, ArmedAt, LiveAt, GivenOnce, Releasable, DequeuedIsGranted, Queued
<1>2. CASE Release /\ waiting = <<>>
  <2>1. QueuedOnce' /\ Queued' = Queued /\ waiting' = waiting
    BY <1>2, SameQueue DEF Release
  <2>2. release_count' \in 0 .. MaxReleases
    BY <1>2, MulSemaphoreAssumption DEF Release
  <2>3. QED
    BY <1>2, <2>1, <2>2
       DEF Release, QueuedAt, ArmedAt, LiveAt, GivenOnce, Releasable, DequeuedIsGranted, Queued
<1>3. ASSUME NEW t \in Tasks, Timeout(t)
      PROVE  SlotInv'
  <2>1. QueuedOnce' /\ Queued' = Queued /\ waiting' = waiting
    BY <1>3, SameQueue DEF Timeout
  <2>2. permits' = [permits EXCEPT ![t] = @ + 1] /\ permits[t] \in 0 .. 1
    BY <1>3 DEF Timeout, Grant, GivenOnce
  <2>3. QED
    BY <1>3, <2>1, <2>2
       DEF Timeout, QueuedAt, ArmedAt, LiveAt, GivenOnce, Releasable, DequeuedIsGranted, Queued
<1>4. QED
  BY <1>1, <1>2, <1>3

\* Every step of the semaphore and of the latch keeps the slot invariant.
LEMMA SlotsStep ==
    ASSUME SlotInv, [Next]_allVars
    PROVE  SlotInv'
<1>1. CASE UNCHANGED vars
  <2>1. QueuedOnce' /\ Queued' = Queued
    BY <1>1, SameQueue DEF vars, SlotInv
  <2>2. QED
    BY <1>1, <2>1 DEF vars, SlotInv, TypeOK, QueuedAt, ArmedAt, LiveAt, GivenOnce, Releasable,
       DequeuedIsGranted, Queued
<1>2. QED
  BY <1>1, AcquireSlots, QueueSlots, GrantSlots
     DEF Next, allVars, WaitLatch, InAcquire, WaitReturns, TimeIsUp, Open, Progress

\* Slots, their permits and their timeouts, whoever is faster.
THEOREM SlotInvariant == Spec => []SlotInv
<1>1. LatchInit => SlotInv
  <2>1. LatchInit => Queued = {} /\ waiting \in Seq(Tasks) /\ QueuedOnce
    BY DEF LatchInit, Init, Queued, ToSet, QueuedOnce
  <2>2. QED
    BY <2>1, MulSemaphoreAssumption
       DEF LatchInit, Init, SlotInv, TypeOK, Labels, QueuedAt, ArmedAt, LiveAt, GivenOnce, Releasable,
       DequeuedIsGranted
<1>2. SlotInv /\ [Next]_allVars => SlotInv'
  BY SlotsStep
<1>3. QED
  BY <1>1, <1>2, PTL DEF Spec

\* A slot that is in the queue of the semaphore, or whose timeout handler is
\* registered, was not deleted: neither release() nor the timer interrupt
\* reaches a deleted slot.
THEOREM SlotsAliveHolds == Spec => []SlotsAlive
<1>1. SlotInv => SlotsAlive
  <2>1. SlotInv => ToSet(waiting) \subseteq Tasks
    BY DEF SlotInv, TypeOK, ToSet
  <2>2. QED
    BY <2>1 DEF SlotInv, TypeOK, SlotsAlive, QueuedAt, ArmedAt, LiveAt, Queued
<1>2. QED
  BY <1>1, SlotInvariant, PTL

\* A slot that release() has taken off the queue has its permit until acquire()
\* takes it: no release() is lost to a timeout.
THEOREM DequeuedIsGrantedHolds == Spec => []DequeuedIsGranted
<1>1. SlotInv => DequeuedIsGranted
  BY DEF SlotInv
<1>2. QED
  BY <1>1, SlotInvariant, PTL

-----------------------------------------------------------------------------
(* The latch *)

\* Every step keeps the latch invariant: what a timed acquire() will return agrees
\* with what has happened to its slot.
LEMMA LatchStep ==
    ASSUME LatchInv, SlotInv', [Next]_allVars
    PROVE  LatchInv'
<1>0. /\ success \in BOOLEAN /\ opening \in [Callbacks -> {"idle", "release"}]
      /\ result \in [Tasks -> {"none", "wait", "true", "false"}] /\ expired \subseteq Tasks
      /\ pc \in [Tasks -> Labels] /\ permits \in [Tasks -> 0 .. 2]
      /\ \A t \in Tasks : pc[t] \in {"idle", "first", "new", "timeout"} => permits[t] = 0
      /\ release_count \in Nat
  BY DEF LatchInv, LatchTypeOK, TypeOK, SlotInv, GivenOnce
<1>1. ASSUME NEW t \in Tasks, WaitLatch(t)
      PROVE  LatchInv'
  <2>1. /\ result' = [result EXCEPT ![t] = "wait"] /\ expired' = expired \ {t}
        /\ UNCHANGED <<success, opening, release_count, permits>>
        /\ pc[t] = "idle" /\ pc' = [pc EXCEPT ![t] = "first"]
    BY <1>1 DEF WaitLatch, Acquire, Goto
  <2>2. success' \in BOOLEAN
    BY <1>0, <2>1
  <2>3. LatchTypeOK'
    BY <1>0, <2>1, <2>2 DEF LatchTypeOK, SlotInv
  <2>4. ClosedIsExpired'
    BY <1>0, <2>1 DEF LatchInv, ClosedIsExpired
  <2>5. TimeoutIsTrue'
    BY <1>0, <2>1 DEF LatchInv, TimeoutIsTrue
  <2>6. QED
    BY <2>3, <2>4, <2>5 DEF LatchInv
<1>2. ASSUME NEW t \in Tasks, InAcquire(t)
      PROVE  LatchInv'
  <2>1. /\ UNCHANGED <<success, opening, result, expired>>
        /\ \A u \in Tasks \ {t} : pc'[u] = pc[u] /\ permits'[u] = permits[u]
        /\ permits'[t] > 0 => permits[t] > 0
        /\ release_count = 0 => release_count' = 0
        /\ release_count = 0 /\ pc'[t] \in {"erase", "cancel", "delete", "idle"} =>
              permits[t] > 0 \/ pc[t] \in {"erase", "cancel", "delete", "idle"}
    BY <1>0, <1>2 DEF InAcquire, Progress, First, New, SetTimeout, Second, Wait, Erase, Cancel, Delete,
       Goto, latchVars
  <2>2. success' \in BOOLEAN
    BY <1>0, <2>1
  <2>3. LatchTypeOK'
    BY <1>0, <2>1, <2>2 DEF LatchTypeOK, SlotInv
  <2>4. ClosedIsExpired'
    BY <1>0, <2>1 DEF LatchInv, ClosedIsExpired
  <2>5. TimeoutIsTrue'
    BY <2>1 DEF LatchInv, TimeoutIsTrue
  <2>6. QED
    BY <2>3, <2>4, <2>5 DEF LatchInv
<1>3. ASSUME NEW t \in Tasks, WaitReturns(t)
      PROVE  LatchInv'
  <2>1. /\ result[t] = "wait" /\ pc[t] = "idle"
        /\ result' = [result EXCEPT ![t] = IF success THEN "true" ELSE "false"]
        /\ UNCHANGED <<success, opening, expired, pc, permits, release_count>>
    BY <1>3 DEF WaitReturns, vars
  <2>2. success' \in BOOLEAN
    BY <1>0, <2>1
  <2>3. LatchTypeOK'
    BY <1>0, <2>1, <2>2 DEF LatchTypeOK, SlotInv
  <2>4. ClosedIsExpired'
    BY <1>0, <2>1 DEF LatchInv, ClosedIsExpired
  <2>5. TimeoutIsTrue'
    BY <1>0, <2>1 DEF LatchInv, ClosedIsExpired, TimeoutIsTrue
  <2>6. QED
    BY <2>3, <2>4, <2>5 DEF LatchInv
<1>4. ASSUME NEW t \in Tasks, TimeIsUp(t)
      PROVE  LatchInv'
  <2>1. /\ expired' = expired \cup {t} /\ permits' = [permits EXCEPT ![t] = @ + 1]
        /\ UNCHANGED <<success, opening, result, pc, release_count>>
    BY <1>4 DEF TimeIsUp, Timeout, Grant
  <2>2. success' \in BOOLEAN
    BY <1>0, <2>1
  <2>3. LatchTypeOK'
    BY <1>0, <2>1, <2>2 DEF LatchTypeOK, SlotInv
  <2>4. ClosedIsExpired'
    BY <1>0, <2>1 DEF LatchInv, ClosedIsExpired
  <2>5. TimeoutIsTrue'
    BY <2>1 DEF LatchInv, TimeoutIsTrue
  <2>6. QED
    BY <2>3, <2>4, <2>5 DEF LatchInv
<1>5. ASSUME NEW c \in Callbacks, Open(c)
      PROVE  LatchInv'
  <2>1. /\ UNCHANGED <<result, expired>>
        /\ opening' \in [Callbacks -> {"idle", "release"}]
    BY <1>0, <1>5 DEF Open
  <2>2. success'
    BY <1>0, <1>5 DEF Open, LatchInv, ClosedIsExpired
  <2>3. success' \in BOOLEAN
    BY <1>0, <1>5 DEF Open
  <2>4. LatchTypeOK'
    BY <1>0, <2>1, <2>3 DEF LatchTypeOK, SlotInv
  <2>5. ClosedIsExpired' /\ TimeoutIsTrue'
    BY <2>1, <2>2 DEF LatchInv, ClosedIsExpired, TimeoutIsTrue
  <2>6. QED
    BY <2>4, <2>5 DEF LatchInv
<1>6. CASE UNCHANGED allVars
  <2>1. UNCHANGED <<success, opening, result, expired, pc, permits, release_count>>
    BY <1>6 DEF allVars, vars, latchVars
  <2>2. success' \in BOOLEAN
    BY <1>0, <2>1
  <2>3. QED
    BY <1>0, <2>1, <2>2 DEF LatchInv, LatchTypeOK, SlotInv, ClosedIsExpired, TimeoutIsTrue
<1>7. QED
  BY <1>1, <1>2, <1>3, <1>4, <1>5, <1>6 DEF Next

\* As long as open() was not called, whoever was let through acquire() was let
\* through by its timeout.
THEOREM LatchInvariant == Spec => []LatchInv
<1>1. LatchInit /\ SlotInv => LatchInv
  <2>1. LatchInit => success \in BOOLEAN
    BY DEF LatchInit
  <2>2. LatchInit /\ SlotInv => LatchTypeOK
    BY <2>1 DEF LatchInit, LatchTypeOK, SlotInv
  <2>3. LatchInit => ClosedIsExpired /\ TimeoutIsTrue
    BY DEF LatchInit, Init, ClosedIsExpired, TimeoutIsTrue
  <2>4. QED
    BY <2>2, <2>3 DEF LatchInv
<1>2. LatchInv /\ SlotInv' /\ [Next]_allVars => LatchInv'
  BY LatchStep
<1>3. QED
  BY <1>1, <1>2, SlotInvariant, PTL DEF Spec

\* wait() returns false only to a task whose time was up: whoever is let through
\* because of an open() sees its success.
THEOREM TimeoutIsTrueHolds == Spec => []TimeoutIsTrue
<1>1. LatchInv => TimeoutIsTrue
  BY DEF LatchInv
<1>2. QED
  BY <1>1, LatchInvariant, PTL
=============================================================================

---------------------------- MODULE FutexProofs ----------------------------
(***************************************************************************)
(* TLAPS proofs about Futex, for any threads, any futex words and any      *)
(* number of calls.                                                        *)
(***************************************************************************)
EXTENDS Futex, FiniteSetTheorems, SequenceTheorems, WellFoundedInduction, TLAPS

\* From the entry in the list to the return to user mode.
InWait == {"check", "abort", "async", "off"}

OncePerThread(list) == \A i, j \in DOMAIN list : list[i].thread = list[j].thread => i = j
Distinct(list) == \A i, j \in DOMAIN list : list[i] = list[j] => i = j

Waits(t) == \E e \in ToSet(waiting) : e.thread = t
Waking(t) == \E u \in Threads : t \in ToSet(wakeups[u])

(***************************************************************************)
(* The strengthening of OneReturn: whoever is going to return from a       *)
(* thread's system call holds the only token for it, which is the entry in *)
(* waiting, then the entry in the wakeups of one thread, then the return.  *)
(***************************************************************************)
WaitingInv ==
    /\ OncePerThread(waiting)
    /\ \A e \in ToSet(waiting) :
        pc[e.thread] \in InWait /\ returns[e.thread] = 0 /\ e.addr = addr[e.thread]
WakeupsInv ==
    /\ \A u \in Threads : Distinct(wakeups[u])
    /\ \A u \in Threads : \A t \in ToSet(wakeups[u]) :
        /\ pc[u] = "waking" /\ pc[t] \in InWait /\ returns[t] = 0 /\ ~Waits(t)
        /\ \A v \in Threads : t \in ToSet(wakeups[v]) => v = u
ReturnsInv == \A t \in Threads : returns[t] > 0 => returns[t] = 1 /\ pc[t] \in InWait
AbortersInv ==
    /\ OncePerThread(aborters)
    /\ \A f \in ToSet(aborters) :
        pc[f.thread] \in InWait /\ returns[f.thread] = 0 /\ f.addr = addr[f.thread]

TokenInv == TypeOK /\ WaitingInv /\ WakeupsInv /\ ReturnsInv /\ AbortersInv

(***************************************************************************)
(* The strengthening of SignalFindsSleeper and KilledSleepersFound.        *)
(* A thread without a return is in some list; one that waits can be found  *)
(* through its aborter, unless it was robbed of it.  Only a thread that    *)
(* looked before the signal or the kill is stuck.                          *)
(***************************************************************************)
Stuck(t) == Waits(t) /\ pc[t] \in {"async", "off"}

Listed == \A t \in Threads : pc[t] \in InWait /\ returns[t] = 0 => Waits(t) \/ Waking(t)
Findable ==
    \A e \in ToSet(waiting) :
        /\ e.thread \in own
        /\ e.thread \in robbed \/ [thread |-> e.thread, addr |-> e.addr] \in ToSet(aborters)
KillFinds ==
    killed => \A t \in Threads \ robbed : Stuck(t) =>
        \E u \in Threads :
            pc[u] = "exit" \/ [thread |-> t, addr |-> addr[t]] \in ToSet(toabort[u])
Excused == (\E t \in Threads : ~Stuck(t)) \/ Threads \subseteq robbed
SignalFinds ==
    sigpending =>
        /\ killer = Idle => Excused
        /\ killer.at = "run" =>
            \/ Excused
            \/ killer.func.addr = addr[killer.func.thread]

SleeperInv == Listed /\ Findable /\ KillFinds /\ SignalFinds

-----------------------------------------------------------------------------
(* Lists *)

\* A set of positions that is not empty has a first one.
LEMMA FirstIsThere ==
    ASSUME NEW T \in SUBSET Nat, T # {}
    PROVE  Min(T) \in T
<1>1. PICK m \in T : \A k \in T : ~(<<k, m>> \in OpToRel(<, Nat))
  BY NatLessThanWellFounded, WFMin
<1>2. \A k \in T : ~(k < m)
  BY <1>1 DEF OpToRel
<1>3. \A k \in T : m <= k
  BY <1>2
<1>4. QED
  BY <1>3 DEF Min

\* What erase() does to the positions.
LEMMA RemoveAtFacts ==
    ASSUME NEW S, NEW s \in Seq(S), NEW k \in 1 .. Len(s)
    PROVE  /\ RemoveAt(s, k) \in Seq(S)
           /\ Len(RemoveAt(s, k)) = Len(s) - 1
           /\ \A i \in 1 .. (Len(s) - 1) : RemoveAt(s, k)[i] = IF i < k THEN s[i] ELSE s[i + 1]
<1> DEFINE a == SubSeq(s, 1, k - 1)
           b == SubSeq(s, k + 1, Len(s))
<1>1. /\ Len(s) \in Nat /\ k \in Int /\ \A i \in 1 .. Len(s) : s[i] \in S
  OBVIOUS
<1>2. a \in Seq(S) /\ Len(a) = k - 1 /\ \A i \in 1 .. (k - 1) : a[i] = s[i]
  <2>1. \A i \in 1 .. (k - 1) : s[i] \in S
    BY <1>1
  <2>2. QED
    BY <1>1, <2>1, SubSeqProperties
<1>3. b \in Seq(S) /\ Len(b) = Len(s) - k /\ \A i \in 1 .. (Len(s) - k) : b[i] = s[k + i]
  <2>1. \A i \in (k + 1) .. Len(s) : s[i] \in S
    BY <1>1
  <2>2. QED
    BY <1>1, <2>1, SubSeqProperties
<1> HIDE DEF a, b
<1>4. RemoveAt(s, k) = a \o b
  BY DEF RemoveAt, a, b
<1>5. /\ a \o b \in Seq(S) /\ Len(a \o b) = Len(s) - 1
      /\ \A i \in 1 .. (Len(s) - 1) : (a \o b)[i] = IF i < k THEN s[i] ELSE s[i + 1]
  <2>1. /\ a \o b \in Seq(S) /\ Len(a \o b) = Len(a) + Len(b)
        /\ \A i \in 1 .. (Len(a) + Len(b)) : (a \o b)[i] = IF i <= Len(a) THEN a[i] ELSE b[i - Len(a)]
    BY <1>2, <1>3, ConcatProperties
  <2>2. Len(a) + Len(b) = Len(s) - 1 /\ Len(a) = k - 1
    BY <1>1, <1>2, <1>3
  <2>3. ASSUME NEW i \in 1 .. (Len(s) - 1)
        PROVE  (a \o b)[i] = IF i < k THEN s[i] ELSE s[i + 1]
    <3>1. CASE i < k
      <4>1. i \in 1 .. (k - 1) /\ i <= Len(a) /\ i \in 1 .. (Len(a) + Len(b))
        BY <1>1, <2>2, <3>1
      <4>2. QED
        BY <1>2, <2>1, <3>1, <4>1
    <3>2. CASE ~(i < k)
      <4>1. /\ ~(i <= Len(a)) /\ i - Len(a) \in 1 .. (Len(s) - k) /\ i \in 1 .. (Len(a) + Len(b))
            /\ k + (i - Len(a)) = i + 1
        BY <1>1, <2>2, <3>2
      <4>2. (a \o b)[i] = b[i - Len(a)]
        BY <2>1, <4>1
      <4>3. b[i - Len(a)] = s[k + (i - Len(a))]
        BY <1>3, <4>1
      <4>4. QED
        BY <3>2, <4>1, <4>2, <4>3
    <3>3. QED
      BY <3>1, <3>2
  <2>4. QED
    BY <2>1, <2>2, <2>3
<1>6. QED
  BY <1>4, <1>5

\* An erased entry takes its thread out of a list that has it once.
LEMMA RemoveThread ==
    ASSUME NEW S, NEW s \in Seq(S), OncePerThread(s), NEW k \in DOMAIN s
    PROVE  /\ RemoveAt(s, k) \in Seq(S) /\ OncePerThread(RemoveAt(s, k))
           /\ ToSet(RemoveAt(s, k)) = {e \in ToSet(s) : e.thread # s[k].thread}
<1> DEFINE r == RemoveAt(s, k)
<1>0. DOMAIN s = 1 .. Len(s) /\ Len(s) \in Nat /\ k \in 1 .. Len(s)
  OBVIOUS
<1>1. /\ r \in Seq(S) /\ Len(r) = Len(s) - 1
      /\ \A i \in 1 .. (Len(s) - 1) : r[i] = IF i < k THEN s[i] ELSE s[i + 1]
  BY <1>0, RemoveAtFacts
<1> HIDE DEF r
<1>2. DOMAIN r = 1 .. (Len(s) - 1)
  BY <1>1
<1> DEFINE f(x) == IF x < k THEN x ELSE x + 1
<1>3. \A i \in DOMAIN r : f(i) \in DOMAIN s \ {k} /\ r[i] = s[f(i)]
  BY <1>0, <1>1, <1>2
<1>4. OncePerThread(r)
  <2>1. SUFFICES ASSUME NEW i \in DOMAIN r, NEW j \in DOMAIN r, r[i].thread = r[j].thread
                 PROVE  i = j
    BY DEF OncePerThread
  <2>2. f(i) = f(j)
    BY <1>3, <2>1 DEF OncePerThread
  <2>3. QED
    BY <1>0, <1>2, <2>2
<1>5. \A i \in DOMAIN r : r[i] \in ToSet(s) /\ r[i].thread # s[k].thread
  BY <1>3 DEF OncePerThread, ToSet
<1>6. ASSUME NEW j \in DOMAIN s, s[j].thread # s[k].thread
      PROVE  \E i \in DOMAIN r : r[i] = s[j]
  <2>1. CASE j < k
    BY <1>0, <1>1, <1>2, <1>6, <2>1
  <2>2. CASE j > k
    <3>1. j - 1 \in DOMAIN r /\ r[j - 1] = s[j]
      BY <1>0, <1>1, <1>2, <2>2
    <3>2. QED
      BY <3>1
  <2>3. QED
    BY <1>0, <1>6, <2>1, <2>2
<1>7. ToSet(r) = {e \in ToSet(s) : e.thread # s[k].thread}
  BY <1>5, <1>6 DEF ToSet
<1>8. QED
  BY <1>1, <1>4, <1>7 DEF r

\* The same for an erased first match.
LEMMA EraseFacts ==
    ASSUME NEW S, NEW s \in Seq(S), OncePerThread(s), NEW at \in SUBSET DOMAIN s, NEW t,
           \A i \in at : s[i].thread = t
    PROVE  /\ EraseFirst(s, at) \in Seq(S) /\ OncePerThread(EraseFirst(s, at))
           /\ at = {} => EraseFirst(s, at) = s
           /\ at # {} => ToSet(EraseFirst(s, at)) = {e \in ToSet(s) : e.thread # t}
<1>1. CASE at = {}
  BY <1>1 DEF EraseFirst
<1>2. CASE at # {}
  <2>1. at \in SUBSET Nat
    OBVIOUS
  <2>2. Min(at) \in at
    BY <1>2, <2>1, FirstIsThere
  <2>3. EraseFirst(s, at) = RemoveAt(s, Min(at)) /\ s[Min(at)].thread = t /\ Min(at) \in DOMAIN s
    BY <1>2, <2>2 DEF EraseFirst
  <2>4. QED
    BY <1>2, <2>3, RemoveThread
<1>3. QED
  BY <1>1, <1>2

\* Without the entry of a thread, no entry of it is left.
LEMMA WithoutFacts ==
    ASSUME NEW S, NEW s \in Seq(S), OncePerThread(s), NEW t
    PROVE  /\ Without(s, t) \in Seq(S) /\ OncePerThread(Without(s, t))
           /\ ToSet(Without(s, t)) = {e \in ToSet(s) : e.thread # t}
<1> DEFINE at == {i \in DOMAIN s : s[i].thread = t}
<1>1. at \in SUBSET DOMAIN s /\ \A i \in at : s[i].thread = t
  OBVIOUS
<1>2. Without(s, t) = EraseFirst(s, at)
  BY DEF Without
<1>3. at = {} => ToSet(s) = {e \in ToSet(s) : e.thread # t}
  BY DEF ToSet
<1> HIDE DEF at
<1>4. QED
  BY <1>1, <1>2, <1>3, EraseFacts

\* push_back() of the entry of a thread that has none.
LEMMA AppendFacts ==
    ASSUME NEW S, NEW s \in Seq(S), OncePerThread(s), NEW e \in S,
           \A d \in ToSet(s) : d.thread # e.thread
    PROVE  /\ Append(s, e) \in Seq(S) /\ OncePerThread(Append(s, e))
           /\ ToSet(Append(s, e)) = ToSet(s) \cup {e}
<1>1. /\ DOMAIN s = 1 .. Len(s) /\ Len(s) \in Nat
      /\ DOMAIN Append(s, e) = 1 .. (Len(s) + 1)
      /\ \A i \in 1 .. Len(s) : Append(s, e)[i] = s[i]
      /\ Append(s, e)[Len(s) + 1] = e /\ Append(s, e) \in Seq(S)
  OBVIOUS
<1>2. ToSet(Append(s, e)) = ToSet(s) \cup {e}
  BY <1>1 DEF ToSet
<1>3. \A i \in DOMAIN s : s[i].thread # e.thread
  BY DEF ToSet
<1>4. OncePerThread(Append(s, e))
  BY <1>1, <1>3 DEF OncePerThread
<1>5. QED
  BY <1>1, <1>2, <1>4

\* The head of a list, and the rest.
LEMMA TailFacts ==
    ASSUME NEW S, NEW s \in Seq(S), s # <<>>
    PROVE  /\ Tail(s) \in Seq(S) /\ Head(s) \in S
           /\ ToSet(s) = ToSet(Tail(s)) \cup {Head(s)}
           /\ Distinct(s) => Distinct(Tail(s)) /\ Head(s) \notin ToSet(Tail(s))
<1>1. /\ DOMAIN s = 1 .. Len(s) /\ Len(s) \in Nat /\ Len(s) # 0 /\ Head(s) = s[1] /\ s[1] \in S
      /\ DOMAIN Tail(s) = 1 .. (Len(s) - 1) /\ Tail(s) \in Seq(S)
      /\ \A i \in 1 .. (Len(s) - 1) : Tail(s)[i] = s[i + 1]
  OBVIOUS
<1>2. \A i \in 2 .. Len(s) : i - 1 \in DOMAIN Tail(s) /\ Tail(s)[i - 1] = s[i]
  BY <1>1
<1>3. ToSet(s) = ToSet(Tail(s)) \cup {Head(s)}
  <2>1. \A i \in DOMAIN Tail(s) : Tail(s)[i] \in ToSet(s)
    BY <1>1 DEF ToSet
  <2>2. \A j \in DOMAIN s : s[j] = Head(s) \/ \E i \in DOMAIN Tail(s) : Tail(s)[i] = s[j]
    <3>1. TAKE j \in DOMAIN s
    <3>2. j = 1 \/ j \in 2 .. Len(s)
      BY <1>1
    <3>3. QED
      BY <1>1, <1>2, <3>2
  <2>3. Head(s) \in ToSet(s)
    BY <1>1 DEF ToSet
  <2>4. QED
    BY <2>1, <2>2, <2>3 DEF ToSet
<1>4. ASSUME Distinct(s) PROVE Distinct(Tail(s)) /\ Head(s) \notin ToSet(Tail(s))
  BY <1>1, <1>4 DEF Distinct, ToSet
<1>5. QED
  BY <1>1, <1>3, <1>4

\* A set of indices in ascending order: each one, once.
LEMMA AscendingFacts ==
    ASSUME NEW I, IsFiniteSet(I), I \in SUBSET Nat, NEW f \in Ascending(I)
    PROVE  /\ Cardinality(I) \in Nat /\ f \in [1 .. Cardinality(I) -> I]
           /\ \A i, j \in 1 .. Cardinality(I) : f[i] = f[j] => i = j
           /\ \A x \in I : \E i \in 1 .. Cardinality(I) : f[i] = x
<1> DEFINE n == Cardinality(I)
<1>1. n \in Nat
  BY FS_CardinalityType
<1>2. f \in [1 .. n -> I] /\ \A i, j \in 1 .. n : i < j => f[i] < f[j]
  BY DEF Ascending
<1>3. \A i, j \in 1 .. n : f[i] = f[j] => i = j
  <2>1. \A i \in 1 .. n : f[i] \in Nat
    BY <1>2
  <2>2. \A i, j \in 1 .. n : i # j => i < j \/ j < i
    BY <1>1
  <2>3. QED
    BY <1>2, <2>1, <2>2
<1>4. f \in Injection(1 .. n, I)
  BY <1>2, <1>3 DEF Injection, IsInjective
<1>5. Cardinality(1 .. n) = n
  BY <1>1, FS_Interval
<1>6. f \in Surjection(1 .. n, I)
  BY <1>4, <1>5, FS_Injection
<1>7. QED
  BY <1>1, <1>2, <1>3, <1>6 DEF Surjection

\* The entries at a set of positions, in their order.
LEMMA PickedFacts ==
    ASSUME NEW s \in Seq(Entry), OncePerThread(s), NEW I \in SUBSET DOMAIN s,
           NEW f \in Ascending(I), NEW r, NEW w,
           r = [k \in DOMAIN f |-> s[f[k]]],
           w = [k \in DOMAIN f |-> s[f[k]].thread]
    PROVE  /\ r \in Seq(Entry) /\ OncePerThread(r) /\ ToSet(r) = {s[i] : i \in I}
           /\ w \in Seq(Threads) /\ Distinct(w) /\ ToSet(w) = {s[i].thread : i \in I}
<1>1. DOMAIN s = 1 .. Len(s) /\ Len(s) \in Nat /\ \A i \in DOMAIN s : s[i] \in Entry
  OBVIOUS
<1>2. IsFiniteSet(I) /\ I \in SUBSET Nat
  <2>1. IsFiniteSet(1 .. Len(s))
    BY <1>1, FS_Interval
  <2>2. QED
    BY <1>1, <2>1, FS_Subset
<1> DEFINE n == Cardinality(I)
<1>3. /\ n \in Nat /\ f \in [1 .. n -> I]
      /\ \A i, j \in 1 .. n : f[i] = f[j] => i = j
      /\ \A x \in I : \E i \in 1 .. n : f[i] = x
  BY <1>2, AscendingFacts
<1> HIDE DEF n
<1>4. /\ DOMAIN r = 1 .. n /\ \A k \in 1 .. n : r[k] = s[f[k]] /\ f[k] \in I
      /\ DOMAIN w = 1 .. n /\ \A k \in 1 .. n : w[k] = s[f[k]].thread
  BY <1>3
<1>5. \A i \in DOMAIN s : s[i].thread \in Threads
  BY <1>1 DEF Entry
<1>6. r \in [1 .. n -> Entry] /\ w \in [1 .. n -> Threads]
  BY <1>1, <1>3, <1>4, <1>5
<1>7. r \in Seq(Entry) /\ w \in Seq(Threads)
  BY <1>3, <1>6
<1>8. ASSUME NEW i \in 1 .. n, NEW j \in 1 .. n, s[f[i]].thread = s[f[j]].thread
      PROVE  i = j
  BY <1>3, <1>4, <1>8 DEF OncePerThread
<1>9. OncePerThread(r) /\ Distinct(w)
  BY <1>4, <1>8 DEF OncePerThread, Distinct
<1>10. ToSet(r) = {s[i] : i \in I} /\ ToSet(w) = {s[i].thread : i \in I}
  <2>1. ToSet(r) = {r[k] : k \in 1 .. n} /\ ToSet(w) = {w[k] : k \in 1 .. n}
    BY <1>4 DEF ToSet
  <2>2. \A k \in 1 .. n : f[k] \in I /\ r[k] = s[f[k]] /\ w[k] = s[f[k]].thread
    BY <1>4
  <2>3. \A x \in I : \E k \in 1 .. n : r[k] = s[x] /\ w[k] = s[x].thread
    BY <1>3, <2>2
  <2>4. {r[k] : k \in 1 .. n} = {s[i] : i \in I}
    <3>1. ASSUME NEW k \in 1 .. n PROVE r[k] \in {s[i] : i \in I}
      BY <2>2
    <3>2. ASSUME NEW i \in I PROVE s[i] \in {r[k] : k \in 1 .. n}
      BY <2>3
    <3>3. QED
      BY <3>1, <3>2
  <2>5. {w[k] : k \in 1 .. n} = {s[i].thread : i \in I}
    <3>1. ASSUME NEW k \in 1 .. n PROVE w[k] \in {s[i].thread : i \in I}
      BY <2>2
    <3>2. ASSUME NEW i \in I PROVE s[i].thread \in {w[k] : k \in 1 .. n}
      BY <2>3
    <3>3. QED
      BY <3>1, <3>2
  <2>6. QED
    BY <2>1, <2>4, <2>5
<1>11. QED
  BY <1>7, <1>9, <1>10

-----------------------------------------------------------------------------
(* What the steps do to the lists, as sets of entries *)

\* The entries of the lists have their types.
LEMMA ListTypes ==
    ASSUME TypeOK
    PROVE  /\ \A e \in ToSet(waiting) : e \in Entry /\ e.thread \in Threads /\ e.addr \in Addr
           /\ \A f \in ToSet(aborters) : f \in Aborter /\ f.thread \in Threads /\ f.addr \in Addr
           /\ \A u \in Threads : \A t \in ToSet(wakeups[u]) : t \in Threads
           /\ \A u \in Threads : \A f \in ToSet(toabort[u]) : f \in Aborter
<1>1. \A e \in Entry : e.thread \in Threads /\ e.addr \in Addr
  BY DEF Entry
<1>2. \A f \in Aborter : f.thread \in Threads /\ f.addr \in Addr
  BY DEF Aborter
<1>3. waiting \in Seq(Entry) /\ aborters \in Seq(Aborter)
  BY DEF TypeOK
<1>4. \A u \in Threads : wakeups[u] \in Seq(Threads) /\ toabort[u] \in Seq(Aborter)
  BY DEF TypeOK
<1>5. ASSUME NEW S, NEW s \in Seq(S), NEW x \in ToSet(s) PROVE x \in S
  BY DEF ToSet
<1>6. (\A e \in ToSet(waiting) : e \in Entry) /\ (\A f \in ToSet(aborters) : f \in Aborter)
  BY <1>3, <1>5
<1>7. ASSUME NEW u \in Threads
      PROVE  (\A t \in ToSet(wakeups[u]) : t \in Threads) /\ (\A f \in ToSet(toabort[u]) : f \in Aborter)
  BY <1>4, <1>5
<1>8. QED
  BY <1>1, <1>2, <1>6, <1>7

\* returnAsync() for a thread that has not been returned yet.
Returned(t) ==
    /\ aborters' \in Seq(Aborter) /\ OncePerThread(aborters')
    /\ ToSet(aborters') = {f \in ToSet(aborters) : f.thread # t}
    /\ own' = own \ {t}
    /\ returns' = [returns EXCEPT ![t] = 1]
    /\ robbed' = robbed \ {t}

\* ReturnAsync of a thread that has not returned yet counts exactly one return and
\* removes the aborters it has registered.
LEMMA ReturnFacts ==
    ASSUME TokenInv, NEW t \in Threads, returns[t] = 0, ReturnAsync(t)
    PROVE  Returned(t)
<1>1. aborters \in Seq(Aborter) /\ OncePerThread(aborters) /\ returns \in [Threads -> 0 .. 2]
  BY DEF TokenInv, TypeOK, AbortersInv
<1>2. aborters' = Without(aborters, t)
  BY DEF ReturnAsync
<1>3. /\ aborters' \in Seq(Aborter) /\ OncePerThread(aborters')
      /\ ToSet(aborters') = {f \in ToSet(aborters) : f.thread # t}
  BY <1>1, <1>2, WithoutFacts
<1>4. own' = own \ {t} /\ returns' = [returns EXCEPT ![t] = 1] /\ robbed' = robbed \ {t}
  BY <1>1 DEF ReturnAsync
<1>5. QED
  BY <1>3, <1>4 DEF Returned

\* An aborter that found its thread, and one that did not.
Aborted(f) ==
    /\ \E e \in ToSet(waiting) : e.thread = f.thread /\ e.addr = f.addr
    /\ waiting' \in Seq(Entry) /\ OncePerThread(waiting')
    /\ ToSet(waiting') = {e \in ToSet(waiting) : e.thread # f.thread}
    /\ Returned(f.thread)
NotFound(f) ==
    /\ \A e \in ToSet(waiting) : ~(e.thread = f.thread /\ e.addr = f.addr)
    /\ UNCHANGED <<waiting, aborters, own, returns, robbed>>

\* An aborter either finds the entry of its thread, erases it and returns it, or
\* finds nothing and changes no list.
LEMMA AborterFacts ==
    ASSUME TokenInv, NEW f \in Aborter, RunAborter(f)
    PROVE  Aborted(f) \/ NotFound(f)
<1>0. waiting \in Seq(Entry) /\ OncePerThread(waiting) /\ f.thread \in Threads
  BY DEF TokenInv, TypeOK, WaitingInv, Aborter
<1>1. CASE Entered(f) = {}
  <2>1. \A e \in ToSet(waiting) : ~(e.thread = f.thread /\ e.addr = f.addr)
    BY <1>1 DEF Entered, ToSet
  <2>2. UNCHANGED <<waiting, aborters, own, returns, robbed>>
    BY <1>1 DEF RunAborter
  <2>3. QED
    BY <2>1, <2>2 DEF NotFound
<1>2. CASE Entered(f) # {}
  <2>1. waiting' = EraseFirst(waiting, Entered(f)) /\ ReturnAsync(f.thread)
    BY <1>2 DEF RunAborter
  <2>2. Entered(f) \in SUBSET DOMAIN waiting /\ \A i \in Entered(f) : waiting[i].thread = f.thread
    BY DEF Entered
  <2>3. \E e \in ToSet(waiting) : e.thread = f.thread /\ e.addr = f.addr
    BY <1>2 DEF Entered, ToSet
  <2>4. returns[f.thread] = 0
    BY <2>3 DEF TokenInv, WaitingInv
  <2>5. Returned(f.thread)
    BY <1>0, <2>1, <2>4, ReturnFacts
  <2>6. /\ waiting' \in Seq(Entry) /\ OncePerThread(waiting')
        /\ ToSet(waiting') = {e \in ToSet(waiting) : e.thread # f.thread}
    BY <1>0, <1>2, <2>1, <2>2, EraseFacts
  <2>7. QED
    BY <2>3, <2>5, <2>6 DEF Aborted
<1>3. QED
  BY <1>1, <1>2

\* The entry into the list.
Entering(t) ==
    /\ waiting' \in Seq(Entry) /\ OncePerThread(waiting')
    /\ \E e \in Entry : /\ e.thread = t /\ e.addr = addr[t] /\ e.val = val[t]
                        /\ ToSet(waiting') = ToSet(waiting) \cup {e}
    /\ aborters' \in Seq(Aborter) /\ OncePerThread(aborters')
    /\ ToSet(aborters') \subseteq ToSet(aborters) \cup {[thread |-> t, addr |-> addr[t]]}
    /\ \A f \in ToSet(aborters) \cup {[thread |-> t, addr |-> addr[t]]} :
        f \in ToSet(aborters') \/ f.thread \in robbed'
    /\ robbed \subseteq robbed' /\ robbed' \subseteq Threads
    /\ own' = own \cup {t} /\ fresh' = fresh \ {t}
    /\ mem[addr[t]] = val[t]
    /\ pc[t] = "lock" /\ pc' = [pc EXCEPT ![t] = "check"]
    /\ UNCHANGED <<memVars, wakeups, toabort, returns, signalVars>>

\* Wait under the lock either adds one entry for the thread or goes back with
\* EAGAIN and changes nothing.
LEMMA EnqueueFacts ==
    ASSUME TokenInv, NEW t \in Threads, Enqueue(t)
    PROVE  \/ Entering(t)
           \/ /\ pc[t] = "lock" /\ pc' = [pc EXCEPT ![t] = "fast"]
              /\ UNCHANGED <<memVars, futexVars, abortVars, returns, signalVars>>
<1>0. /\ waiting \in Seq(Entry) /\ OncePerThread(waiting)
      /\ aborters \in Seq(Aborter) /\ OncePerThread(aborters)
      /\ addr[t] \in Addr /\ val[t] \in Values /\ pc[t] = "lock"
  BY DEF TokenInv, TypeOK, WaitingInv, AbortersInv, Enqueue
<1>1. CASE mem[addr[t]] # val[t]
  BY <1>0, <1>1 DEF Enqueue, Goto, futexVars, abortVars
<1>2. CASE mem[addr[t]] = val[t]
  <2> DEFINE e == [thread |-> t, addr |-> addr[t], val |-> val[t]]
             m == [thread |-> t, addr |-> addr[t]]
  <2>1. e \in Entry /\ e.thread = t /\ e.addr = addr[t] /\ e.val = val[t] /\ m \in Aborter /\ m.thread = t
    BY <1>0 DEF Entry, Aborter
  <2>2. waiting' = Append(waiting, e) /\ SetAborter(t)
    BY <1>2 DEF Enqueue
  <2>3. (\A d \in ToSet(waiting) : d.thread # t) /\ (\A d \in ToSet(aborters) : d.thread # t)
    BY <1>0 DEF TokenInv, WaitingInv, AbortersInv, InWait
  <2>4. own' = own \cup {t} /\ fresh' = fresh \ {t}
    BY <2>2 DEF SetAborter
  <2>5. \/ \E junk \in UninitHandle :
            /\ aborters' = Without(Append(aborters, m), junk)
            /\ robbed' = robbed \cup {u \in {junk} : \E f \in ToSet(Append(aborters, m)) : f.thread = u}
        \/ aborters' = Append(Without(aborters, t), m) /\ robbed' = robbed
    BY <2>2 DEF SetAborter
  <2> HIDE DEF e, m
  <2>6. /\ waiting' \in Seq(Entry) /\ OncePerThread(waiting')
        /\ ToSet(waiting') = ToSet(waiting) \cup {e}
    BY <1>0, <2>1, <2>2, <2>3, AppendFacts
  <2>7. /\ aborters' \in Seq(Aborter) /\ OncePerThread(aborters')
        /\ ToSet(aborters') \subseteq ToSet(aborters) \cup {m}
        /\ \A f \in ToSet(aborters) \cup {m} : f \in ToSet(aborters') \/ f.thread \in robbed'
        /\ robbed \subseteq robbed' /\ robbed' \subseteq Threads
    <3>1. /\ Append(aborters, m) \in Seq(Aborter) /\ OncePerThread(Append(aborters, m))
          /\ ToSet(Append(aborters, m)) = ToSet(aborters) \cup {m}
      BY <1>0, <2>1, <2>3, AppendFacts
    <3>2. ASSUME NEW junk \in UninitHandle, aborters' = Without(Append(aborters, m), junk),
                 robbed' = robbed \cup {u \in {junk} : \E f \in ToSet(Append(aborters, m)) : f.thread = u}
          PROVE  /\ aborters' \in Seq(Aborter) /\ OncePerThread(aborters')
                 /\ ToSet(aborters') = {d \in ToSet(aborters) \cup {m} : d.thread # junk}
                 /\ robbed' = robbed \cup {u \in {junk} : \E f \in ToSet(aborters) \cup {m} : f.thread = u}
      <4> DEFINE l == Append(aborters, m)
      <4>1. l \in Seq(Aborter) /\ OncePerThread(l) /\ ToSet(l) = ToSet(aborters) \cup {m}
        BY <3>1
      <4>2. aborters' = Without(l, junk)
        BY <3>2
      <4> HIDE DEF l
      <4>3. /\ aborters' \in Seq(Aborter) /\ OncePerThread(aborters')
            /\ ToSet(aborters') = {d \in ToSet(aborters) \cup {m} : d.thread # junk}
        BY <4>1, <4>2, WithoutFacts
      <4>4. robbed' = robbed \cup {u \in {junk} : \E f \in ToSet(aborters) \cup {m} : f.thread = u}
        BY <3>1, <3>2
      <4>5. QED
        BY <4>3, <4>4
    <3>3. (\A d \in ToSet(aborters) \cup {m} : d.thread \in Threads) /\ robbed \subseteq Threads
      BY <2>1, ListTypes DEF TokenInv, TypeOK
    <3>4. ASSUME aborters' = Append(Without(aborters, t), m)
          PROVE  /\ aborters' \in Seq(Aborter) /\ OncePerThread(aborters')
                 /\ ToSet(aborters') = ToSet(aborters) \cup {m}
      <4>1. /\ Without(aborters, t) \in Seq(Aborter) /\ OncePerThread(Without(aborters, t))
            /\ ToSet(Without(aborters, t)) = ToSet(aborters)
        <5>1. /\ Without(aborters, t) \in Seq(Aborter) /\ OncePerThread(Without(aborters, t))
              /\ ToSet(Without(aborters, t)) = {d \in ToSet(aborters) : d.thread # t}
          BY <1>0, WithoutFacts
        <5>2. {d \in ToSet(aborters) : d.thread # t} = ToSet(aborters)
          BY <2>3
        <5>3. QED
          BY <5>1, <5>2
      <4>2. QED
        BY <2>1, <2>3, <3>4, <4>1, AppendFacts
    <3>5. CASE aborters' = Append(Without(aborters, t), m) /\ robbed' = robbed
      BY <3>3, <3>4, <3>5
    <3>6. ASSUME NEW junk \in UninitHandle, aborters' = Without(Append(aborters, m), junk),
                 robbed' = robbed \cup {u \in {junk} : \E f \in ToSet(Append(aborters, m)) : f.thread = u}
          PROVE  /\ aborters' \in Seq(Aborter) /\ OncePerThread(aborters')
                 /\ ToSet(aborters') \subseteq ToSet(aborters) \cup {m}
                 /\ \A f \in ToSet(aborters) \cup {m} : f \in ToSet(aborters') \/ f.thread \in robbed'
                 /\ robbed \subseteq robbed' /\ robbed' \subseteq Threads
      BY <3>2, <3>3, <3>6
    <3>7. QED
      BY <2>5, <3>5, <3>6
  <2>8. Entering(t)
    <3>1. pc' = [pc EXCEPT ![t] = "check"] /\ UNCHANGED <<memVars, wakeups, toabort, returns, signalVars>>
      BY <1>2 DEF Enqueue, Goto
    <3>2. \E x \in Entry : /\ x.thread = t /\ x.addr = addr[t] /\ x.val = val[t]
                           /\ ToSet(waiting') = ToSet(waiting) \cup {x}
      BY <2>1, <2>6
    <3>3. QED
      BY <1>0, <1>2, <2>4, <2>6, <2>7, <3>1, <3>2 DEF Entering, m
  <2>9. QED
    BY <2>8
<1>3. QED
  BY <1>1, <1>2

\* FUTEX_WAKE moves threads from the list to the wakeups of the caller.
Moving(t, n) ==
    LET hit == Woken(addr[t], n)
    IN  /\ waiting' \in Seq(Entry) /\ OncePerThread(waiting')
        /\ ToSet(waiting') = {waiting[i] : i \in DOMAIN waiting \ hit}
        /\ \E w \in Seq(Threads) :
            /\ wakeups' = [wakeups EXCEPT ![t] = w]
            /\ Distinct(w) /\ ToSet(w) = {waiting[i].thread : i \in hit}

\* Wake moves entries of its address from the waiting list to the list of wakeups
\* it is going to make, and loses none of them.
LEMMA WakeFacts ==
    ASSUME TokenInv, NEW t \in Threads, NEW n \in WakeNums, Wake(t, n)
    PROVE  Moving(t, n)
<1> DEFINE hit == Woken(addr[t], n)
<1>0. waiting \in Seq(Entry) /\ OncePerThread(waiting)
  BY DEF TokenInv, TypeOK, WaitingInv
<1>1. hit \in SUBSET DOMAIN waiting /\ DOMAIN waiting \ hit \in SUBSET DOMAIN waiting
  BY DEF Woken
<1>2. PICK picked \in Ascending(hit), rest \in Ascending(DOMAIN waiting \ hit) :
        /\ wakeups' = [wakeups EXCEPT ![t] = [k \in DOMAIN picked |-> waiting[picked[k]].thread]]
        /\ waiting' = [k \in DOMAIN rest |-> waiting[rest[k]]]
  BY DEF Wake
<1> HIDE DEF hit
<1> DEFINE w == [k \in DOMAIN picked |-> waiting[picked[k]].thread]
           r == [k \in DOMAIN rest |-> waiting[rest[k]]]
<1>3. w \in Seq(Threads) /\ Distinct(w) /\ ToSet(w) = {waiting[i].thread : i \in hit}
  <2> DEFINE r0 == [k \in DOMAIN picked |-> waiting[picked[k]]]
  <2>1. r0 = [k \in DOMAIN picked |-> waiting[picked[k]]]
    OBVIOUS
  <2>2. w = [k \in DOMAIN picked |-> waiting[picked[k]].thread]
    OBVIOUS
  <2> HIDE DEF r0, w
  <2>3. QED
    BY <1>0, <1>1, <2>1, <2>2, PickedFacts
<1>4. r \in Seq(Entry) /\ OncePerThread(r) /\ ToSet(r) = {waiting[i] : i \in DOMAIN waiting \ hit}
  <2> DEFINE w0 == [k \in DOMAIN rest |-> waiting[rest[k]].thread]
  <2>1. w0 = [k \in DOMAIN rest |-> waiting[rest[k]].thread]
    OBVIOUS
  <2>2. r = [k \in DOMAIN rest |-> waiting[rest[k]]]
    OBVIOUS
  <2> HIDE DEF w0, r
  <2>3. QED
    BY <1>0, <1>1, <2>1, <2>2, PickedFacts
<1>5. wakeups' = [wakeups EXCEPT ![t] = w] /\ waiting' = r
  BY <1>2
<1> HIDE DEF w, r
<1>6. QED
  BY <1>3, <1>4, <1>5 DEF Moving, hit

-----------------------------------------------------------------------------
(* One return *)

\* A step that leaves the lists and the returns alone.
QuietStep ==
    /\ UNCHANGED <<waiting, wakeups, aborters, returns, own, robbed>>
    /\ \A t \in Threads : pc[t] \in InWait => pc'[t] \in InWait /\ addr'[t] = addr[t]
    /\ \A t \in Threads : pc'[t] \in InWait => pc[t] \in InWait
    /\ \A u \in Threads : pc[u] = "waking" => pc'[u] = "waking" \/ wakeups[u] = <<>>

\* A step that touches no list and no counter of returns keeps the token of every
\* wait where it is.
LEMMA QuietToken ==
    ASSUME TokenInv, TypeOK', QuietStep
    PROVE  TokenInv'
<1>1. waiting' = waiting /\ wakeups' = wakeups /\ aborters' = aborters /\ returns' = returns
  BY DEF QuietStep
<1>2. WaitingInv'
  BY <1>1, ListTypes DEF TokenInv, WaitingInv, QuietStep
<1>3. AbortersInv'
  BY <1>1, ListTypes DEF TokenInv, AbortersInv, QuietStep
<1>4. ReturnsInv'
  BY <1>1 DEF TokenInv, ReturnsInv, QuietStep
<1>5. WakeupsInv'
  <2>1. \A t \in Threads : Waits(t)' <=> Waits(t)
    BY <1>1 DEF Waits
  <2>2. ASSUME NEW u \in Threads, NEW t \in ToSet(wakeups[u])
        PROVE  /\ pc'[u] = "waking" /\ pc'[t] \in InWait /\ returns[t] = 0 /\ ~Waits(t)'
               /\ \A v \in Threads : t \in ToSet(wakeups[v]) => v = u
    <3>1. t \in Threads
      BY <2>2, ListTypes DEF TokenInv
    <3>2. wakeups[u] # <<>>
      BY <2>2 DEF ToSet
    <3>3. QED
      BY <2>1, <2>2, <3>1, <3>2 DEF TokenInv, WakeupsInv, QuietStep
  <2>3. QED
    BY <1>1, <2>2 DEF TokenInv, WakeupsInv
<1>6. QED
  BY <1>2, <1>3, <1>4, <1>5 DEF TokenInv

\* The steps of that kind, and what they leave out.
QuietActions(t) ==
    \/ \E a \in Addr, v \in Values : Wait(t, a, v)
    \/ \E a \in Addr : Store(t, a)
    \/ ExitGroup(t) \/ CheckPending(t) \/ SwitchOut(t) \/ FastReturn(t) \/ WakeDone(t)
    \/ CallAbortAll(t) \/ Ended(t)

\* The actions that only read memory, store to it or move a program counter are
\* such quiet steps.
LEMMA QuietActionsAre ==
    ASSUME TypeOK, NEW t \in Threads, QuietActions(t)
    PROVE  TypeOK' /\ QuietStep
<1> USE DEF TypeOK, Goto, Labels, memVars, futexVars, abortVars, signalVars, QuietStep, InWait
<1>1. ASSUME NEW a \in Addr, NEW v \in Values, Wait(t, a, v) PROVE TypeOK' /\ QuietStep
  BY <1>1 DEF Wait
<1>2. ASSUME NEW a \in Addr, Store(t, a) PROVE TypeOK' /\ QuietStep
  <2>1. mem' \in [Addr -> Values]
    <3>1. mem[a] \in {0, 1} /\ mem' = [mem EXCEPT ![a] = 1 - mem[a]]
      BY <1>2 DEF Store, Values
    <3>2. 1 - mem[a] \in Values
      BY <3>1 DEF Values
    <3>3. QED
      BY <3>1, <3>2
  <2>2. QED
    BY <1>2, <2>1 DEF Store
<1>3. CASE ExitGroup(t)
  BY <1>3 DEF ExitGroup
<1>4. CASE CheckPending(t)
  BY <1>4 DEF CheckPending
<1>5. CASE SwitchOut(t)
  BY <1>5 DEF SwitchOut
<1>6. CASE FastReturn(t)
  BY <1>6 DEF FastReturn
<1>7. CASE WakeDone(t)
  BY <1>7 DEF WakeDone
<1>8. CASE CallAbortAll(t)
  BY <1>8 DEF CallAbortAll
<1>9. CASE Ended(t)
  BY <1>9 DEF Ended
<1>10. QED
  BY <1>1, <1>2, <1>3, <1>4, <1>5, <1>6, <1>7, <1>8, <1>9 DEF QuietActions

\* Sending a signal and looking for an aborter change no list either.
LEMMA KillerQuiet ==
    ASSUME TypeOK, SetSignal \/ CallAbort
    PROVE  TypeOK' /\ QuietStep
<1>1. CASE SetSignal
  BY <1>1 DEF SetSignal, TypeOK, QuietStep, memVars, futexVars, abortVars
<1>2. CASE CallAbort
  <2>1. killer' \in {Idle, About} \cup [at : {"run"}, func : Aborter]
    <3>1. CASE aborters = <<>>
      BY <1>2, <3>1 DEF CallAbort
    <3>2. CASE aborters # <<>>
      <4>1. Head(aborters) \in Aborter
        BY <3>2, TailFacts DEF TypeOK
      <4>2. QED
        BY <1>2, <3>2, <4>1 DEF CallAbort
    <3>3. QED
      BY <3>1, <3>2
  <2>2. QED
    BY <1>2, <2>1 DEF CallAbort, TypeOK, QuietStep, memVars, futexVars, abortVars
<1>3. QED
  BY <1>1, <1>2

\* A step that returns a thread whose token it takes from a list.
ReturnStep(t) ==
    /\ Returned(t)
    /\ addr' = addr
    /\ \A u \in Threads : pc[u] \in InWait <=> pc'[u] \in InWait
    /\ \A u \in Threads : pc[u] = "waking" <=> pc'[u] = "waking"

\* Handing the token of one waiting thread to its return, by whatever path, keeps
\* one token for every wait.
LEMMA ReturnToken ==
    ASSUME TokenInv, TypeOK', NEW t \in Threads, pc[t] \in InWait, returns[t] = 0, ReturnStep(t),
           WaitingInv => OncePerThread(waiting'),
           ToSet(waiting') = {e \in ToSet(waiting) : e.thread # t},
           \A u \in Threads : Distinct(wakeups'[u]) /\ ToSet(wakeups'[u]) = ToSet(wakeups[u]) \ {t}
    PROVE  TokenInv'
<1>1. /\ \A u \in Threads \ {t} : returns'[u] = returns[u]
      /\ returns'[t] = 1 /\ pc'[t] \in InWait
  BY DEF ReturnStep, Returned, TokenInv, TypeOK
<1>2. WaitingInv'
  <2>1. \A e \in ToSet(waiting') : e \in ToSet(waiting) /\ e.thread \in Threads \ {t}
    BY ListTypes DEF TokenInv
  <2>2. QED
    BY <1>1, <2>1 DEF TokenInv, WaitingInv, ReturnStep
<1>3. AbortersInv'
  <2>1. /\ OncePerThread(aborters')
        /\ \A f \in ToSet(aborters') : f \in ToSet(aborters) /\ f.thread \in Threads \ {t}
    BY ListTypes DEF TokenInv, ReturnStep, Returned
  <2>2. QED
    BY <1>1, <2>1 DEF TokenInv, AbortersInv, ReturnStep
<1>4. ReturnsInv'
  BY <1>1 DEF TokenInv, ReturnsInv, ReturnStep
<1>5. WakeupsInv'
  <2>1. \A u \in Threads : Waits(u)' => Waits(u)
    BY DEF Waits
  <2>2. ASSUME NEW u \in Threads, NEW x \in ToSet(wakeups'[u])
        PROVE  /\ pc'[u] = "waking" /\ pc'[x] \in InWait /\ returns'[x] = 0 /\ ~Waits(x)'
               /\ \A v \in Threads : x \in ToSet(wakeups'[v]) => v = u
    <3>1. x \in ToSet(wakeups[u]) /\ x \in Threads \ {t}
      BY <2>2, ListTypes DEF TokenInv
    <3>2. QED
      BY <1>1, <2>1, <3>1 DEF TokenInv, WakeupsInv, ReturnStep
  <2>3. QED
    BY <2>2 DEF WakeupsInv
<1>6. QED
  BY <1>2, <1>3, <1>4, <1>5 DEF TokenInv

\* An aborter keeps the tokens single, whether it finds its thread or not.
LEMMA AborterToken ==
    ASSUME TokenInv, TypeOK', NEW f \in Aborter, RunAborter(f), UNCHANGED <<addr, wakeups>>,
           \A u \in Threads : pc[u] \in InWait <=> pc'[u] \in InWait,
           \A u \in Threads : pc[u] = "waking" <=> pc'[u] = "waking"
    PROVE  TokenInv'
<1>1. CASE NotFound(f)
  <2>1. QuietStep
    BY <1>1 DEF NotFound, QuietStep
  <2>2. QED
    BY <2>1, QuietToken
<1>2. CASE Aborted(f)
  <2> DEFINE t == f.thread
  <2>1. t \in Threads /\ Waits(t)
    BY <1>2 DEF Aborted, Waits, Aborter
  <2>2. pc[t] \in InWait /\ returns[t] = 0
    BY <2>1 DEF TokenInv, WaitingInv, Waits
  <2>3. \A u \in Threads : t \notin ToSet(wakeups[u])
    BY <2>1 DEF TokenInv, WakeupsInv
  <2>4. \A u \in Threads : Distinct(wakeups'[u]) /\ ToSet(wakeups'[u]) = ToSet(wakeups[u]) \ {t}
    BY <2>3 DEF TokenInv, WakeupsInv
  <2>5. ReturnStep(t) /\ OncePerThread(waiting') /\ ToSet(waiting') = {e \in ToSet(waiting) : e.thread # t}
    BY <1>2 DEF Aborted, ReturnStep
  <2> HIDE DEF t
  <2>6. QED
    BY <2>1, <2>2, <2>4, <2>5, ReturnToken
<1>3. QED
  BY <1>1, <1>2, AborterFacts

\* What a run aborter leaves behind has its types.
LEMMA AborterTypes ==
    ASSUME TokenInv, NEW f \in Aborter, RunAborter(f)
    PROVE  /\ waiting' \in Seq(Entry) /\ aborters' \in Seq(Aborter) /\ own' \subseteq Threads
           /\ returns' \in [Threads -> 0 .. 2] /\ robbed' \subseteq Threads
<1>0. TypeOK
  BY DEF TokenInv
<1>1. CASE NotFound(f)
  BY <1>0, <1>1 DEF NotFound, TypeOK
<1>2. CASE Aborted(f)
  <2>1. returns \in [Threads -> 0 .. 2] /\ own \subseteq Threads
    BY <1>0 DEF TypeOK
  <2>2. returns' = [returns EXCEPT ![f.thread] = 1] /\ own' = own \ {f.thread}
    BY <1>2 DEF Aborted, Returned
  <2>3. returns' \in [Threads -> 0 .. 2] /\ own' \subseteq Threads
    <3>1. 1 \in 0 .. 2
      OBVIOUS
    <3>2. returns' \in [Threads -> 0 .. 2]
      BY <2>1, <2>2, <3>1, Zenon
    <3>3. own' \subseteq Threads
      BY <2>1, <2>2
    <3>4. QED
      BY <3>2, <3>3
  <2>4. robbed' \subseteq Threads
    BY <1>0, <1>2 DEF Aborted, Returned, TypeOK
  <2>5. QED
    BY <1>2, <2>3, <2>4 DEF Aborted, Returned
<1>3. QED
  BY <1>1, <1>2, AborterFacts

\* The three callers of an aborter.
LEMMA AbortersToken ==
    ASSUME TokenInv, (\E t \in Threads : AbortOwn(t) \/ AbortNext(t)) \/ KillerRuns
    PROVE  TokenInv'
<1>0. TypeOK
  BY DEF TokenInv
<1>1. ASSUME NEW t \in Threads, AbortOwn(t) PROVE TokenInv'
  <2>1. pc[t] = "abort" /\ pc' = [pc EXCEPT ![t] = "async"]
    BY <1>1 DEF AbortOwn, Goto
  <2>2. UNCHANGED <<mem, addr, val, wakeups, fresh, toabort, sigpending, killed, killer>>
    BY <1>1 DEF AbortOwn, memVars, signalVars
  <2>3. pc' \in [Threads -> Labels] /\ \A u \in Threads : pc[u] \in InWait <=> pc'[u] \in InWait
    BY <1>0, <2>1 DEF TypeOK, Labels, InWait
  <2>4. \A u \in Threads : pc[u] = "waking" <=> pc'[u] = "waking"
    BY <1>0, <2>1 DEF TypeOK
  <2>5. CASE t \in own
    <3> DEFINE f == [thread |-> t, addr |-> addr[t]]
    <3>1. f \in Aborter
      BY <1>0 DEF Aborter, TypeOK
    <3>2. RunAborter(f)
      BY <1>1, <2>5 DEF AbortOwn
    <3> HIDE DEF f
    <3>3. TypeOK'
      BY <1>0, <2>2, <2>3, <3>1, <3>2, AborterTypes DEF TypeOK
    <3>4. QED
      BY <2>2, <2>3, <2>4, <3>1, <3>2, <3>3, AborterToken
  <2>6. CASE t \notin own
    <3>1. UNCHANGED <<waiting, aborters, own, returns, robbed>>
      BY <1>1, <2>6 DEF AbortOwn
    <3>2. TypeOK' /\ QuietStep
      BY <1>0, <2>2, <2>3, <2>4, <3>1 DEF TypeOK, QuietStep
    <3>3. QED
      BY <3>2, QuietToken
  <2>7. QED
    BY <2>5, <2>6
<1>2. ASSUME NEW t \in Threads, AbortNext(t) PROVE TokenInv'
  <2>1. /\ toabort[t] # <<>> /\ RunAborter(Head(toabort[t]))
        /\ toabort' = [toabort EXCEPT ![t] = Tail(toabort[t])]
        /\ UNCHANGED <<mem, addr, val, pc, wakeups, fresh, sigpending, killed, killer>>
    BY <1>2 DEF AbortNext, memVars, signalVars
  <2>2. toabort[t] \in Seq(Aborter)
    BY <1>0 DEF TypeOK
  <2>3. Head(toabort[t]) \in Aborter /\ Tail(toabort[t]) \in Seq(Aborter)
    BY <2>1, <2>2, TailFacts
  <2>4. TypeOK'
    BY <1>0, <2>1, <2>3, AborterTypes DEF TypeOK
  <2>5. QED
    BY <2>1, <2>3, <2>4, AborterToken
<1>3. ASSUME KillerRuns PROVE TokenInv'
  <2>1. /\ killer.at = "run" /\ RunAborter(killer.func) /\ killer' = Idle
        /\ UNCHANGED <<mem, addr, val, pc, wakeups, fresh, toabort, sigpending, killed>>
    BY <1>3 DEF KillerRuns, memVars
  <2>2. killer.func \in Aborter
    BY <1>0, <2>1 DEF TypeOK, Idle, About
  <2>3. TypeOK'
    BY <1>0, <2>1, <2>2, AborterTypes DEF TypeOK
  <2>4. QED
    BY <2>1, <2>2, <2>3, AborterToken
<1>4. QED
  BY <1>1, <1>2, <1>3

\* The entry into the list makes one token.
LEMMA EnteringToken ==
    ASSUME TokenInv, NEW t \in Threads, Entering(t)
    PROVE  TokenInv'
<1>0. TypeOK
  BY DEF TokenInv
<1>1. /\ pc[t] = "lock" /\ pc' = [pc EXCEPT ![t] = "check"]
      /\ UNCHANGED <<mem, addr, val, wakeups, toabort, returns, sigpending, killed, killer>>
  BY DEF Entering, memVars, signalVars
<1>2. TypeOK'
  BY <1>0, <1>1 DEF Entering, TypeOK, Labels
<1>3. /\ pc'[t] \in InWait /\ pc[t] \notin InWait /\ pc[t] # "waking"
      /\ \A u \in Threads \ {t} : pc'[u] = pc[u]
  BY <1>0, <1>1 DEF TypeOK, InWait
<1>4. returns[t] = 0
  <2>1. returns[t] \in 0 .. 2
    BY <1>0 DEF TypeOK
  <2>2. ~(returns[t] > 0)
    BY <1>3 DEF TokenInv, ReturnsInv
  <2>3. QED
    BY <2>1, <2>2
<1>5. PICK e \in Entry : /\ e.thread = t /\ e.addr = addr[t]
                         /\ ToSet(waiting') = ToSet(waiting) \cup {e}
  BY DEF Entering
<1>6. WaitingInv'
  <2>1. \A d \in ToSet(waiting) : d.thread \in Threads \ {t}
    BY <1>0, <1>3, ListTypes DEF TokenInv, WaitingInv
  <2>2. OncePerThread(waiting')
    BY DEF Entering
  <2>3. QED
    BY <1>1, <1>3, <1>4, <1>5, <2>1, <2>2 DEF TokenInv, WaitingInv
<1>7. AbortersInv'
  <2> DEFINE m == [thread |-> t, addr |-> addr[t]]
  <2>1. m.thread = t /\ m.addr = addr[t] /\ ToSet(aborters') \subseteq ToSet(aborters) \cup {m}
    BY DEF Entering
  <2> HIDE DEF m
  <2>2. \A d \in ToSet(aborters) : d.thread \in Threads \ {t}
    BY <1>0, <1>3, ListTypes DEF TokenInv, AbortersInv
  <2>3. OncePerThread(aborters')
    BY DEF Entering
  <2>4. QED
    BY <1>1, <1>3, <1>4, <2>1, <2>2, <2>3 DEF TokenInv, AbortersInv
<1>8. ReturnsInv'
  BY <1>1, <1>3, <1>4 DEF TokenInv, ReturnsInv
<1>9. WakeupsInv'
  <2>1. ASSUME NEW u \in Threads, NEW x \in ToSet(wakeups[u])
        PROVE  x \in Threads \ {t} /\ u # t /\ ~Waits(x)'
    <3>1. x \in Threads \ {t} /\ u # t /\ ~Waits(x)
      BY <1>0, <1>3, <2>1, ListTypes DEF TokenInv, WakeupsInv
    <3>2. QED
      BY <1>5, <3>1 DEF Waits
  <2>2. QED
    BY <1>1, <1>3, <2>1 DEF TokenInv, WakeupsInv
<1>10. QED
  BY <1>2, <1>6, <1>7, <1>8, <1>9 DEF TokenInv

\* FUTEX_WAKE takes tokens from the list, and gives them to one thread.
LEMMA WakeToken ==
    ASSUME TokenInv, NEW t \in Threads, NEW n \in WakeNums, Wake(t, n)
    PROVE  TokenInv'
<1> DEFINE hit == Woken(addr[t], n)
<1>0. TypeOK /\ hit \in SUBSET DOMAIN waiting
  BY DEF TokenInv, Woken
<1>1. /\ pc[t] = "wake" /\ pc' = [pc EXCEPT ![t] = "waking"]
      /\ UNCHANGED <<mem, addr, val, aborters, fresh, own, toabort, robbed, returns, sigpending,
                     killed, killer>>
  BY DEF Wake, Goto, memVars, abortVars, signalVars
<1>2. /\ waiting' \in Seq(Entry) /\ OncePerThread(waiting')
      /\ ToSet(waiting') = {waiting[i] : i \in DOMAIN waiting \ hit}
  BY WakeFacts DEF Moving
<1>3. PICK w \in Seq(Threads) : /\ wakeups' = [wakeups EXCEPT ![t] = w]
                                /\ Distinct(w) /\ ToSet(w) = {waiting[i].thread : i \in hit}
  BY WakeFacts DEF Moving
<1> HIDE DEF hit
<1>4. TypeOK'
  BY <1>0, <1>1, <1>2, <1>3 DEF TypeOK, Labels
<1>5. /\ \A u \in Threads : pc[u] \in InWait <=> pc'[u] \in InWait
      /\ pc'[t] = "waking" /\ \A u \in Threads \ {t} : pc'[u] = pc[u]
  BY <1>0, <1>1 DEF TypeOK, InWait
<1>6. \A e \in ToSet(waiting') : e \in ToSet(waiting) /\ e.thread \in Threads /\ e.thread \notin ToSet(w)
  <2>1. ASSUME NEW e \in ToSet(waiting') PROVE e \in ToSet(waiting) /\ e.thread \notin ToSet(w)
    <3>1. PICK i \in DOMAIN waiting \ hit : e = waiting[i]
      BY <1>2, <2>1
    <3>2. \A j \in hit : waiting[j].thread # e.thread
      BY <1>0, <3>1 DEF TokenInv, WaitingInv, OncePerThread
    <3>3. QED
      BY <1>3, <3>1, <3>2 DEF ToSet
  <2>2. QED
    BY <1>0, <2>1, ListTypes
<1>7. WaitingInv'
  BY <1>1, <1>2, <1>5, <1>6 DEF TokenInv, WaitingInv
<1>8. AbortersInv'
  BY <1>0, <1>1, <1>5, ListTypes DEF TokenInv, AbortersInv
<1>9. ReturnsInv'
  BY <1>1, <1>5 DEF TokenInv, ReturnsInv
<1>10. \A x \in ToSet(w) : x \in Threads /\ Waits(x) /\ ~Waits(x)'
  <2>1. ASSUME NEW x \in ToSet(w) PROVE Waits(x)
    <3>1. PICK i \in hit : x = waiting[i].thread
      BY <1>3, <2>1
    <3>2. waiting[i] \in ToSet(waiting)
      BY <1>0, <3>1 DEF ToSet
    <3>3. QED
      BY <3>1, <3>2 DEF Waits
  <2>2. QED
    BY <1>0, <1>6, <2>1, ListTypes DEF Waits
<1>11. ToSet(wakeups[t]) = {}
  BY <1>1 DEF TokenInv, WakeupsInv
<1>12. WakeupsInv'
  <2>1. \A u \in Threads : wakeups'[u] = IF u = t THEN w ELSE wakeups[u]
    BY <1>0, <1>3 DEF TypeOK
  <2>2. \A u \in Threads : Distinct(wakeups'[u])
    BY <1>3, <2>1 DEF TokenInv, WakeupsInv
  <2>3. ASSUME NEW u \in Threads \ {t}, NEW x \in ToSet(wakeups[u])
        PROVE  /\ pc[u] = "waking" /\ pc[x] \in InWait /\ returns[x] = 0 /\ ~Waits(x)' /\ x \in Threads
               /\ x \notin ToSet(w)
    <3>1. x \in Threads /\ pc[u] = "waking" /\ pc[x] \in InWait /\ returns[x] = 0 /\ ~Waits(x)
      BY <1>0, <2>3, ListTypes DEF TokenInv, WakeupsInv
    <3>2. ~Waits(x)'
      BY <1>6, <3>1 DEF Waits
    <3>3. QED
      BY <1>10, <3>1, <3>2
  <2>4. ASSUME NEW x \in ToSet(w)
        PROVE  pc[x] \in InWait /\ returns[x] = 0 /\ ~Waits(x)' /\ x \in Threads
    BY <1>10, <2>4 DEF TokenInv, WaitingInv, Waits
  <2>5. ASSUME NEW u \in Threads, NEW x \in ToSet(wakeups'[u])
        PROVE  /\ pc'[u] = "waking" /\ pc'[x] \in InWait /\ returns'[x] = 0 /\ ~Waits(x)'
               /\ \A v \in Threads : x \in ToSet(wakeups'[v]) => v = u
    <3>1. CASE u = t
      BY <1>1, <1>5, <2>1, <2>3, <2>4, <2>5, <3>1
    <3>2. CASE u # t
      <4>1. x \in ToSet(wakeups[u])
        BY <2>1, <2>5, <3>2
      <4>2. \A v \in Threads : x \in ToSet(wakeups[v]) => v = u
        BY <4>1 DEF TokenInv, WakeupsInv
      <4>3. QED
        BY <1>1, <1>5, <2>1, <2>3, <3>2, <4>1, <4>2
    <3>3. QED
      BY <3>1, <3>2
  <2>6. QED
    BY <2>2, <2>5 DEF WakeupsInv
<1>13. QED
  BY <1>4, <1>7, <1>8, <1>9, <1>12 DEF TokenInv

\* A wakeup function turns a token into a return.
LEMMA WakeupToken ==
    ASSUME TokenInv, NEW t \in Threads, Wakeup(t)
    PROVE  /\ TokenInv'
           /\ \E x \in ToSet(wakeups[t]) : /\ x \in Threads /\ pc[x] \in InWait /\ returns[x] = 0
                                           /\ ~Waits(x) /\ Returned(x)
                                           /\ \A u \in Threads : ToSet(wakeups'[u]) = ToSet(wakeups[u]) \ {x}
<1> DEFINE x == Head(wakeups[t])
<1>0. TypeOK
  BY DEF TokenInv
<1>1. /\ wakeups[t] # <<>> /\ ReturnAsync(x)
      /\ wakeups' = [wakeups EXCEPT ![t] = Tail(wakeups[t])]
      /\ UNCHANGED <<mem, addr, val, pc, waiting, fresh, toabort, sigpending, killed, killer>>
  BY DEF Wakeup, memVars, signalVars
<1>2. wakeups[t] \in Seq(Threads) /\ Distinct(wakeups[t])
  BY <1>0 DEF TypeOK, TokenInv, WakeupsInv
<1>3. /\ Tail(wakeups[t]) \in Seq(Threads) /\ x \in Threads
      /\ ToSet(wakeups[t]) = ToSet(Tail(wakeups[t])) \cup {x}
      /\ Distinct(Tail(wakeups[t])) /\ x \notin ToSet(Tail(wakeups[t]))
  BY <1>1, <1>2, TailFacts
<1> HIDE DEF x
<1>4. /\ x \in ToSet(wakeups[t]) /\ pc[x] \in InWait /\ returns[x] = 0 /\ ~Waits(x)
      /\ \A u \in Threads \ {t} : x \notin ToSet(wakeups[u])
  BY <1>3 DEF TokenInv, WakeupsInv
<1>5. Returned(x)
  BY <1>1, <1>3, <1>4, ReturnFacts
<1>6. \A u \in Threads : wakeups'[u] = IF u = t THEN Tail(wakeups[t]) ELSE wakeups[u]
  BY <1>0, <1>1 DEF TypeOK
<1>7. \A u \in Threads : Distinct(wakeups'[u]) /\ ToSet(wakeups'[u]) = ToSet(wakeups[u]) \ {x}
  BY <1>3, <1>4, <1>6 DEF TokenInv, WakeupsInv
<1>8. TypeOK'
  BY <1>0, <1>1, <1>3, <1>5 DEF TypeOK, Returned
<1>9. ToSet(waiting') = {e \in ToSet(waiting) : e.thread # x} /\ OncePerThread(waiting')
  BY <1>1, <1>4 DEF Waits, TokenInv, WaitingInv
<1>10. ReturnStep(x)
  BY <1>1, <1>5 DEF ReturnStep
<1>11. TokenInv'
  BY <1>3, <1>4, <1>7, <1>8, <1>9, <1>10, ReturnToken
<1>12. QED
  BY <1>3, <1>4, <1>5, <1>7, <1>11

\* The thread that comes back has used up its return.
LEMMA ResumeToken ==
    ASSUME TokenInv, NEW t \in Threads, Resume(t)
    PROVE  TokenInv'
<1>0. TypeOK
  BY DEF TokenInv
<1>1. /\ pc[t] = "off" /\ returns[t] > 0 /\ returns' = [returns EXCEPT ![t] = 0]
      /\ UNCHANGED <<mem, addr, val, waiting, wakeups, aborters, fresh, own, toabort, robbed,
                     killed, killer>>
      /\ sigpending' = (sigpending /\ killed)
  BY DEF Resume, memVars, futexVars, abortVars
<1>2. PICK l \in {"ended", "user"} : pc' = [pc EXCEPT ![t] = l]
  BY DEF Resume, Goto
<1>3. TypeOK'
  <2>1. sigpending' \in BOOLEAN
    BY <1>1
  <2>2. QED
    BY <1>0, <1>1, <1>2, <2>1 DEF TypeOK, Labels
<1>4. /\ \A u \in Threads \ {t} : pc'[u] = pc[u] /\ returns'[u] = returns[u]
      /\ returns'[t] = 0 /\ returns[t] # 0 /\ pc[t] # "waking"
  BY <1>0, <1>1, <1>2 DEF TypeOK
<1>5. WaitingInv'
  <2>1. \A e \in ToSet(waiting) : e.thread \in Threads \ {t}
    BY <1>0, <1>4, ListTypes DEF TokenInv, WaitingInv
  <2>2. QED
    BY <1>1, <1>4, <2>1 DEF TokenInv, WaitingInv
<1>6. AbortersInv'
  <2>1. \A f \in ToSet(aborters) : f.thread \in Threads \ {t}
    BY <1>0, <1>4, ListTypes DEF TokenInv, AbortersInv
  <2>2. QED
    BY <1>1, <1>4, <2>1 DEF TokenInv, AbortersInv
<1>7. ReturnsInv'
  BY <1>4 DEF TokenInv, ReturnsInv
<1>8. WakeupsInv'
  <2>1. ASSUME NEW u \in Threads, NEW x \in ToSet(wakeups[u])
        PROVE  x \in Threads \ {t} /\ u # t /\ ~Waits(x)'
    BY <1>0, <1>1, <1>4, <2>1, ListTypes DEF TokenInv, WakeupsInv, Waits
  <2>2. QED
    BY <1>1, <1>4, <2>1 DEF TokenInv, WakeupsInv
<1>9. QED
  BY <1>3, <1>5, <1>6, <1>7, <1>8 DEF TokenInv

\* Every step of the system.
Steps(t) ==
    \/ QuietActions(t)
    \/ Enqueue(t) \/ AbortOwn(t) \/ AbortNext(t) \/ Resume(t) \/ Wakeup(t)
    \/ \E n \in WakeNums : Wake(t, n)

\* The next-state relation, split the way the proofs go through it.
LEMMA NextIsStep ==
    ASSUME Next
    PROVE  (\E t \in Threads : Steps(t)) \/ SetSignal \/ CallAbort \/ KillerRuns
BY DEF Next, Progress, Killer, Steps, QuietActions

\* A failed comparison leaves the lists alone.
LEMMA EnqueueQuiet ==
    ASSUME TypeOK, NEW t \in Threads, pc[t] = "lock", pc' = [pc EXCEPT ![t] = "fast"],
           UNCHANGED <<memVars, futexVars, abortVars, returns, signalVars>>
    PROVE  TypeOK' /\ QuietStep
BY DEF TypeOK, Labels, memVars, futexVars, abortVars, signalVars, QuietStep, InWait

\* The tokens stay single in every step.
LEMMA TokenStep ==
    ASSUME TokenInv, [Next]_vars
    PROVE  TokenInv'
<1>0. TypeOK
  BY DEF TokenInv
<1>1. ASSUME NEW t \in Threads, QuietActions(t) PROVE TokenInv'
  BY <1>0, <1>1, QuietActionsAre, QuietToken
<1>2. ASSUME NEW t \in Threads, Enqueue(t) PROVE TokenInv'
  BY <1>0, <1>2, EnqueueFacts, EnqueueQuiet, QuietToken, EnteringToken
<1>3. ASSUME SetSignal \/ CallAbort PROVE TokenInv'
  BY <1>0, <1>3, KillerQuiet, QuietToken
<1>4. CASE UNCHANGED vars
  <2>1. TypeOK' /\ QuietStep
    BY <1>0, <1>4 DEF TypeOK, vars, memVars, futexVars, abortVars, signalVars, QuietStep
  <2>2. QED
    BY <2>1, QuietToken
<1>5. ASSUME NEW t \in Threads, Steps(t) PROVE TokenInv'
  BY <1>1, <1>2, <1>5, AbortersToken, WakeToken, WakeupToken, ResumeToken DEF Steps
<1>6. QED
  BY <1>3, <1>4, <1>5, NextIsStep, AbortersToken

\* The first inductive invariant, from the first state on.
THEOREM TokenInvariant == Spec => []TokenInv
<1>1. Init => TokenInv
  <2>1. SUFFICES ASSUME Init PROVE TokenInv
    OBVIOUS
  <2>2. TypeOK
    <3>1. mem \in [Addr -> Values] /\ pc \in [Threads -> Labels] /\ val \in [Threads -> Values]
      BY <2>1 DEF Init, Labels, Values
    <3>2. /\ addr \in [Threads -> Addr] /\ fresh \subseteq Threads /\ own \subseteq Threads
          /\ robbed \subseteq Threads
      BY <2>1 DEF Init
    <3>3. /\ waiting \in Seq(Entry) /\ aborters \in Seq(Aborter)
          /\ wakeups \in [Threads -> Seq(Threads)] /\ toabort \in [Threads -> Seq(Aborter)]
      BY <2>1 DEF Init
    <3>4. returns \in [Threads -> 0 .. 2]
      BY <2>1 DEF Init
    <3>5. killer \in {Idle, About} \cup [at : {"run"}, func : Aborter]
      BY <2>1 DEF Init
    <3>6. sigpending \in BOOLEAN /\ killed \in BOOLEAN
      BY <2>1 DEF Init
    <3>7. QED
      BY <3>1, <3>2, <3>3, <3>4, <3>5, <3>6 DEF TypeOK
  <2>3. waiting = <<>> /\ aborters = <<>> /\ \A t \in Threads : wakeups[t] = <<>> /\ returns[t] = 0
    BY <2>1 DEF Init
  <2>4. WaitingInv /\ WakeupsInv /\ AbortersInv /\ ReturnsInv
    BY <2>3 DEF WaitingInv, WakeupsInv, AbortersInv, ReturnsInv, ToSet, Distinct, OncePerThread
  <2>5. QED
    BY <2>2, <2>4 DEF TokenInv
<1>2. TokenInv /\ [Next]_vars => TokenInv'
  BY TokenStep
<1>3. QED
  BY <1>1, <1>2, PTL DEF Spec

\* A wait is returned from once, whoever comes first.
THEOREM OneReturnHolds == Spec => []OneReturn
<1>1. TokenInv => OneReturn
  BY DEF TokenInv, ReturnsInv, OneReturn, InWait
<1>2. QED
  BY <1>1, TokenInvariant, PTL

-----------------------------------------------------------------------------
(* No wake is missed *)

\* The same as NoMissedWake, about the entries as a set.
LEMMA MissedSet ==
    ASSUME NoMissedWake
    PROVE  \A e \in ToSet(waiting) : mem[e.addr] # e.val =>
               \E t \in Threads : pc[t] = "wake" /\ addr[t] = e.addr
BY DEF NoMissedWake, ToSet

\* Programs that wake everybody: a wake takes all entries of its word.
LEMMA WakeTakesAll ==
    ASSUME TokenInv, IsFiniteSet(Threads), NEW n \in Nat, Cardinality(Threads) <= n,
           NEW a, NEW i \in DOMAIN waiting, waiting[i].addr = a
    PROVE  i \in Woken(a, n)
<1> DEFINE J == {j \in 1 .. i : waiting[j].addr = a}
           f == [j \in J |-> waiting[j].thread]
<1>1. waiting \in Seq(Entry) /\ OncePerThread(waiting)
  BY DEF TokenInv, TypeOK, WaitingInv
<1>2. J \subseteq DOMAIN waiting /\ \A j \in J : waiting[j] \in Entry
  BY <1>1
<1>3. f \in [J -> Threads]
  BY <1>2 DEF Entry
<1>4. \A j, k \in J : f[j] = f[k] => j = k
  BY <1>1, <1>2 DEF OncePerThread
<1> HIDE DEF f
<1>5. f \in Injection(J, Threads)
  BY <1>3, <1>4 DEF Injection, IsInjective
<1>6. Cardinality(J) <= Cardinality(Threads) /\ IsFiniteSet(J)
  BY <1>5, FS_Injection
<1>7. Cardinality(J) \in Nat /\ Cardinality(Threads) \in Nat
  BY <1>6, FS_CardinalityType
<1>8. Cardinality(J) <= n
  BY <1>6, <1>7
<1>9. QED
  BY <1>8 DEF Woken

\* A step that enters nobody, changes no word and starts no wake.
LEMMA MissedKept ==
    ASSUME TokenInv, NoMissedWake, mem' = mem, ToSet(waiting') \subseteq ToSet(waiting),
           \A t \in Threads : pc[t] = "wake" => pc'[t] = "wake" /\ addr'[t] = addr[t]
    PROVE  NoMissedWake'
<1>1. \A e \in ToSet(waiting') : mem[e.addr] # e.val =>
        \E t \in Threads : pc'[t] = "wake" /\ addr'[t] = e.addr
  BY MissedSet
<1>2. \A i \in DOMAIN waiting' : waiting'[i] \in ToSet(waiting')
  BY DEF ToSet
<1>3. QED
  BY <1>1, <1>2 DEF NoMissedWake

\* Every step keeps track of who is going to wake whom.
LEMMA MissedStep ==
    ASSUME TokenInv, NoMissedWake, [Next]_vars, IsFiniteSet(Threads),
           \A n \in WakeNums : Cardinality(Threads) <= n
    PROVE  NoMissedWake'
<1>0. TypeOK
  BY DEF TokenInv
<1>1. ASSUME NEW t \in Threads, NEW a \in Addr, Store(t, a) PROVE NoMissedWake'
  <2>1. /\ mem' = [mem EXCEPT ![a] = 1 - mem[a]] /\ addr' = [addr EXCEPT ![t] = a]
        /\ pc[t] = "user" /\ pc' = [pc EXCEPT ![t] = "wake"] /\ waiting' = waiting
    BY <1>1 DEF Store, Goto, futexVars
  <2>2. /\ pc'[t] = "wake" /\ addr'[t] = a
        /\ \A u \in Threads : pc[u] = "wake" => pc'[u] = "wake" /\ addr'[u] = addr[u]
        /\ \A b \in Addr \ {a} : mem'[b] = mem[b]
    BY <1>0, <2>1 DEF TypeOK
  <2>3. \A e \in ToSet(waiting) : mem'[e.addr] # e.val =>
          \E u \in Threads : pc'[u] = "wake" /\ addr'[u] = e.addr
    BY <1>0, <2>2, MissedSet, ListTypes
  <2>4. \A i \in DOMAIN waiting : waiting[i] \in ToSet(waiting)
    BY DEF ToSet
  <2>5. QED
    BY <2>1, <2>3, <2>4 DEF NoMissedWake
<1>2. ASSUME NEW t \in Threads, Entering(t) PROVE NoMissedWake'
  <2>1. /\ UNCHANGED <<mem, addr>> /\ mem[addr[t]] = val[t]
        /\ pc[t] = "lock" /\ pc' = [pc EXCEPT ![t] = "check"]
    BY <1>2 DEF Entering, memVars
  <2>2. PICK e \in Entry : /\ e.addr = addr[t] /\ e.val = val[t]
                           /\ ToSet(waiting') = ToSet(waiting) \cup {e}
    BY <1>2 DEF Entering
  <2>3. \A u \in Threads : pc[u] = "wake" => pc'[u] = "wake"
    BY <1>0, <2>1 DEF TypeOK
  <2>4. \A d \in ToSet(waiting') : mem'[d.addr] # d.val =>
          \E u \in Threads : pc'[u] = "wake" /\ addr'[u] = d.addr
    BY <2>1, <2>2, <2>3, MissedSet
  <2>5. \A i \in DOMAIN waiting' : waiting'[i] \in ToSet(waiting')
    BY DEF ToSet
  <2>6. QED
    BY <2>4, <2>5 DEF NoMissedWake
<1>3. ASSUME NEW t \in Threads, NEW n \in WakeNums, Wake(t, n) PROVE NoMissedWake'
  <2>1. /\ UNCHANGED <<mem, addr>> /\ pc[t] = "wake" /\ pc' = [pc EXCEPT ![t] = "waking"]
    BY <1>3 DEF Wake, Goto, memVars
  <2>2. ToSet(waiting') = {waiting[i] : i \in DOMAIN waiting \ Woken(addr[t], n)}
    BY <1>3, WakeFacts DEF Moving
  <2>3. n \in Nat /\ Cardinality(Threads) <= n
    BY FutexAssumption
  <2>4. \A i \in DOMAIN waiting : waiting[i].addr = addr[t] => i \in Woken(addr[t], n)
    BY <2>3, WakeTakesAll
  <2>5. \A e \in ToSet(waiting') : e \in ToSet(waiting) /\ e.addr # addr[t]
    BY <2>2, <2>4 DEF ToSet
  <2>6. \A u \in Threads \ {t} : pc'[u] = pc[u]
    BY <1>0, <2>1 DEF TypeOK
  <2>7. \A e \in ToSet(waiting') : mem'[e.addr] # e.val =>
          \E u \in Threads : pc'[u] = "wake" /\ addr'[u] = e.addr
    BY <2>1, <2>5, <2>6, MissedSet
  <2>8. \A i \in DOMAIN waiting' : waiting'[i] \in ToSet(waiting')
    BY DEF ToSet
  <2>9. QED
    BY <2>7, <2>8 DEF NoMissedWake
<1>4. ASSUME mem' = mem, waiting' = waiting,
             \A u \in Threads : pc[u] = "wake" => pc'[u] = "wake" /\ addr'[u] = addr[u]
      PROVE  NoMissedWake'
  BY <1>4, MissedKept
<1>5. ASSUME NEW t \in Threads, QuietActions(t) PROVE NoMissedWake'
  <2>1. ASSUME NEW a \in Addr, NEW v \in Values, Wait(t, a, v) PROVE NoMissedWake'
    BY <1>0, <1>4, <2>1 DEF Wait, Goto, futexVars, TypeOK
  <2>2. ASSUME ExitGroup(t) \/ CheckPending(t) \/ SwitchOut(t) \/ FastReturn(t) \/ WakeDone(t)
               \/ CallAbortAll(t) \/ Ended(t)
        PROVE  NoMissedWake'
    <3>1. /\ mem' = mem /\ addr' = addr /\ waiting' = waiting /\ pc[t] # "wake"
          /\ \E l : pc' = [pc EXCEPT ![t] = l]
      BY <2>2 DEF ExitGroup, CheckPending, SwitchOut, FastReturn, WakeDone, CallAbortAll, Ended,
                  Goto, memVars, futexVars
    <3>2. \A u \in Threads : pc[u] = "wake" => pc'[u] = "wake"
      BY <1>0, <3>1 DEF TypeOK
    <3>3. QED
      BY <1>4, <3>1, <3>2
  <2>3. QED
    BY <1>1, <1>5, <2>1, <2>2 DEF QuietActions
<1>6. ASSUME NEW t \in Threads, Enqueue(t) PROVE NoMissedWake'
  <2>1. ASSUME pc[t] = "lock", pc' = [pc EXCEPT ![t] = "fast"],
               UNCHANGED <<memVars, futexVars, abortVars, returns, signalVars>>
        PROVE  NoMissedWake'
    BY <1>0, <1>4, <2>1 DEF memVars, futexVars, TypeOK
  <2>2. QED
    BY <1>2, <1>6, <2>1, EnqueueFacts
<1>7. ASSUME NEW f \in Aborter, RunAborter(f), mem' = mem, addr' = addr,
             \A u \in Threads : pc[u] = "wake" => pc'[u] = "wake"
      PROVE  NoMissedWake'
  <2>1. ToSet(waiting') \subseteq ToSet(waiting)
    BY <1>7, AborterFacts DEF Aborted, NotFound
  <2>2. QED
    BY <1>7, <2>1, MissedKept
<1>8. ASSUME NEW t \in Threads, AbortOwn(t) PROVE NoMissedWake'
  <2>1. /\ mem' = mem /\ addr' = addr /\ pc[t] = "abort" /\ pc' = [pc EXCEPT ![t] = "async"]
    BY <1>8 DEF AbortOwn, Goto, memVars
  <2>2. \A u \in Threads : pc[u] = "wake" => pc'[u] = "wake"
    BY <1>0, <2>1 DEF TypeOK
  <2>3. [thread |-> t, addr |-> addr[t]] \in Aborter
    BY <1>0 DEF Aborter, TypeOK
  <2>4. RunAborter([thread |-> t, addr |-> addr[t]]) \/ waiting' = waiting
    BY <1>8 DEF AbortOwn
  <2>5. QED
    BY <1>4, <1>7, <2>1, <2>2, <2>3, <2>4
<1>9. ASSUME NEW t \in Threads, AbortNext(t) PROVE NoMissedWake'
  <2>1. toabort[t] # <<>> /\ RunAborter(Head(toabort[t])) /\ mem' = mem /\ addr' = addr /\ pc' = pc
    BY <1>9 DEF AbortNext, memVars
  <2>2. toabort[t] \in Seq(Aborter)
    BY <1>0 DEF TypeOK
  <2>3. Head(toabort[t]) \in Aborter
    BY <2>1, <2>2, TailFacts
  <2>4. QED
    BY <1>7, <2>1, <2>3
<1>10. ASSUME KillerRuns PROVE NoMissedWake'
  <2>1. killer.at = "run" /\ RunAborter(killer.func) /\ mem' = mem /\ addr' = addr /\ pc' = pc
    BY <1>10 DEF KillerRuns, memVars
  <2>2. killer.func \in Aborter
    BY <1>0, <2>1 DEF TypeOK, Idle, About
  <2>3. QED
    BY <1>7, <2>1, <2>2
<1>11. ASSUME NEW t \in Threads, Resume(t) PROVE NoMissedWake'
  <2>1. /\ mem' = mem /\ addr' = addr /\ waiting' = waiting /\ pc[t] # "wake"
        /\ \E l : pc' = [pc EXCEPT ![t] = l]
    BY <1>11 DEF Resume, Goto, memVars, futexVars
  <2>2. \A u \in Threads : pc[u] = "wake" => pc'[u] = "wake"
    BY <1>0, <2>1 DEF TypeOK
  <2>3. QED
    BY <1>4, <2>1, <2>2
<1>12. ASSUME NEW t \in Threads, Wakeup(t) PROVE NoMissedWake'
  BY <1>4, <1>12 DEF Wakeup, memVars
<1>13. ASSUME SetSignal \/ CallAbort PROVE NoMissedWake'
  BY <1>4, <1>13 DEF SetSignal, CallAbort, memVars, futexVars
<1>14. CASE UNCHANGED vars
  BY <1>4, <1>14 DEF vars, memVars, futexVars
<1>15. ASSUME NEW t \in Threads, Steps(t) PROVE NoMissedWake'
  BY <1>3, <1>5, <1>6, <1>8, <1>9, <1>11, <1>12, <1>15 DEF Steps
<1>16. QED
  BY <1>10, <1>13, <1>14, <1>15, NextIsStep

\* In programs that wake everybody, nobody sleeps on a value that the word
\* no longer has, however a wait, a store and a wake interleave.
THEOREM NoMissedWakeHolds ==
    ASSUME IsFiniteSet(Threads), \A n \in WakeNums : Cardinality(Threads) <= n
    PROVE  Spec => []NoMissedWake
<1>1. Init => NoMissedWake
  BY DEF Init, NoMissedWake
<1>2. TokenInv /\ NoMissedWake /\ [Next]_vars => NoMissedWake'
  BY MissedStep
<1>3. QED
  BY <1>1, <1>2, TokenInvariant, PTL DEF Spec

-----------------------------------------------------------------------------
(* Sleepers are found *)

\* A step that lets nobody slip past a signal or a kill that is on its way.
Calm ==
    /\ killed' = killed /\ (sigpending' => sigpending) /\ killer' = killer /\ toabort' = toabort
    /\ \A t \in Threads : (killed \/ sigpending) /\ Stuck(t)' =>
        Stuck(t) /\ addr'[t] = addr[t] /\ (t \in robbed => t \in robbed')
    /\ \A u \in Threads : pc[u] = "exit" => pc'[u] = "exit"

\* A step that changes neither aborters nor what a signal or a kill has seen keeps
\* the promise that both find every sleeping thread.
LEMMA CalmFinds ==
    ASSUME TypeOK, KillFinds, SignalFinds, Calm
    PROVE  KillFinds' /\ SignalFinds'
<1>1. KillFinds'
  BY DEF KillFinds, Calm
<1>2. SignalFinds'
  <2>1. SUFFICES ASSUME sigpending' PROVE SignalFinds'
    BY DEF SignalFinds
  <2>2. sigpending /\ killer' = killer
    BY <2>1 DEF Calm
  <2>3. Excused => Excused'
    BY <2>2 DEF Excused, Calm
  <2>4. ASSUME killer.at = "run", ~Excused'
        PROVE  killer.func.addr = addr'[killer.func.thread]
    <3>1. \A t \in Threads : addr'[t] = addr[t]
      BY <2>2, <2>4 DEF Calm, Excused
    <3>2. killer.func.thread \in Threads
      BY <2>4 DEF TypeOK, Idle, About, Aborter
    <3>3. QED
      BY <2>2, <2>3, <2>4, <3>1, <3>2 DEF SignalFinds
  <2>5. QED
    BY <2>2, <2>3, <2>4 DEF SignalFinds
<1>3. QED
  BY <1>1, <1>2

\* Steps that leave the lists alone.
LEMMA QuietListed ==
    ASSUME Listed, Findable, QuietStep
    PROVE  Listed' /\ Findable'
<1>1. UNCHANGED <<waiting, wakeups, aborters, returns, own, robbed>>
  BY DEF QuietStep
<1>2. \A t \in Threads : (Waits(t)' <=> Waits(t)) /\ (Waking(t)' <=> Waking(t))
  BY <1>1 DEF Waits, Waking
<1>3. Listed'
  BY <1>1, <1>2 DEF Listed, QuietStep
<1>4. Findable'
  BY <1>1 DEF Findable
<1>5. QED
  BY <1>3, <1>4

\* Threads that look after a signal or a kill do not get stuck.
LEMMA QuietCalm ==
    ASSUME TypeOK, NEW t \in Threads, QuietStep,
           \/ \E a \in Addr, v \in Values : Wait(t, a, v)
           \/ \E a \in Addr : Store(t, a)
           \/ CheckPending(t) \/ SwitchOut(t) \/ FastReturn(t) \/ WakeDone(t) \/ Ended(t)
    PROVE  Calm
<1>1. \A u \in Threads : (Waits(u)' <=> Waits(u))
  BY DEF QuietStep, Waits
<1>2. \A u \in Threads : Stuck(u)' => addr'[u] = addr[u]
  BY DEF QuietStep, Stuck, InWait
<1>3. /\ killed' = killed /\ (sigpending' => sigpending) /\ killer' = killer /\ toabort' = toabort
      /\ pc[t] # "exit"
  BY DEF Wait, Store, CheckPending, SwitchOut, FastReturn, WakeDone, Ended, signalVars, abortVars
<1>4. \A u \in Threads : (killed \/ sigpending) /\ pc'[u] \in {"async", "off"} => pc[u] \in {"async", "off"}
  <2>1. CASE \E a \in Addr, v \in Values : Wait(t, a, v)
    BY <2>1 DEF Wait, Goto, TypeOK
  <2>2. CASE \E a \in Addr : Store(t, a)
    BY <2>2 DEF Store, Goto, TypeOK
  <2>3. CASE CheckPending(t)
    BY <2>3 DEF CheckPending, Goto, TypeOK
  <2>4. CASE SwitchOut(t) \/ FastReturn(t) \/ WakeDone(t) \/ Ended(t)
    BY <2>4 DEF SwitchOut, FastReturn, WakeDone, Ended, Goto, TypeOK
  <2>5. QED
    BY <2>1, <2>2, <2>3, <2>4
<1>5. \A u \in Threads : pc[u] = "exit" => pc'[u] = "exit"
  <2>1. \E l : pc' = [pc EXCEPT ![t] = l]
    BY DEF Wait, Store, CheckPending, SwitchOut, FastReturn, WakeDone, Ended, Goto
  <2>2. QED
    BY <1>3, <2>1 DEF TypeOK
<1>6. QED
  BY <1>1, <1>2, <1>3, <1>4, <1>5 DEF Calm, Stuck, QuietStep

\* exit_group() copies the aborters, and so every stuck thread.
LEMMA ExitFinds ==
    ASSUME TokenInv, SleeperInv, NEW t \in Threads, QuietStep, ExitGroup(t) \/ CallAbortAll(t)
    PROVE  KillFinds' /\ SignalFinds'
<1>0. TypeOK
  BY DEF TokenInv
<1>1. \A u \in Threads : Waits(u)' <=> Waits(u)
  BY DEF QuietStep, Waits
<1>2. CASE ExitGroup(t)
  <2>1. /\ pc[t] = "user" /\ pc' = [pc EXCEPT ![t] = "exit"]
        /\ UNCHANGED <<addr, sigpending, killer, toabort>>
    BY <1>2 DEF ExitGroup, Goto, memVars, abortVars
  <2>2. pc'[t] = "exit" /\ robbed' = robbed /\ \A u \in Threads : Stuck(u)' => Stuck(u)
    BY <1>0, <1>1, <2>1 DEF Stuck, TypeOK, QuietStep
  <2>3. KillFinds'
    BY <2>2 DEF KillFinds
  <2>4. SignalFinds'
    BY <2>1, <2>2 DEF SleeperInv, SignalFinds, Excused
  <2>5. QED
    BY <2>3, <2>4
<1>3. CASE CallAbortAll(t)
  <2>1. /\ pc[t] = "exit" /\ pc' = [pc EXCEPT ![t] = "abortall"]
        /\ toabort' = [toabort EXCEPT ![t] = aborters]
        /\ UNCHANGED <<addr, sigpending, killed, killer>>
    BY <1>3 DEF CallAbortAll, Goto, memVars, signalVars
  <2>2. robbed' = robbed /\ \A u \in Threads : Stuck(u)' => Stuck(u)
    BY <1>0, <1>1, <2>1 DEF Stuck, TypeOK, QuietStep
  <2>3. SignalFinds'
    BY <2>1, <2>2 DEF SleeperInv, SignalFinds, Excused
  <2>4. toabort'[t] = aborters
    BY <1>0, <2>1 DEF TypeOK
  <2>5. ASSUME NEW u \in Threads \ robbed, Stuck(u) PROVE [thread |-> u, addr |-> addr[u]] \in ToSet(aborters)
    <3>1. PICK e \in ToSet(waiting) : e.thread = u
      BY <2>5 DEF Stuck, Waits
    <3>2. e.addr = addr[u]
      BY <3>1 DEF TokenInv, WaitingInv
    <3>3. QED
      BY <3>1, <3>2 DEF SleeperInv, Findable
  <2>6. KillFinds'
    BY <2>1, <2>2, <2>4, <2>5 DEF KillFinds
  <2>7. QED
    BY <2>3, <2>6
<1>4. QED
  BY <1>2, <1>3

\* A signal looks for one aborter, and finds one if all threads are stuck.
LEMMA SignalSteps ==
    ASSUME TokenInv, SleeperInv, Threads # {}, QuietStep, SetSignal \/ CallAbort
    PROVE  KillFinds' /\ SignalFinds'
<1>0. TypeOK
  BY DEF TokenInv
<1>1. UNCHANGED <<addr, pc, toabort, killed, waiting, robbed>>
  BY DEF SetSignal, CallAbort, memVars, abortVars, futexVars
<1>2. \A u \in Threads : Stuck(u)' <=> Stuck(u)
  BY <1>1 DEF Stuck, Waits
<1>3. KillFinds'
  BY <1>1, <1>2 DEF SleeperInv, KillFinds
<1>4. CASE SetSignal
  <2>1. killer' = About /\ About # Idle /\ About.at # "run"
    BY <1>4 DEF SetSignal, About, Idle
  <2>2. SignalFinds'
    BY <2>1 DEF SignalFinds
  <2>3. QED
    BY <1>3, <2>2
<1>5. CASE CallAbort
  <2>1. killer' = IF aborters = <<>> THEN Idle ELSE [at |-> "run", func |-> Head(aborters)]
    BY <1>5 DEF CallAbort
  <2>2. ASSUME ~Excused
        PROVE  /\ aborters # <<>>
               /\ Head(aborters).addr = addr[Head(aborters).thread]
    <3>1. PICK u \in Threads \ robbed : Stuck(u)
      BY <2>2 DEF Excused
    <3>2. PICK e \in ToSet(waiting) : e.thread = u
      BY <3>1 DEF Stuck, Waits
    <3>3. ToSet(aborters) # {}
      BY <3>2 DEF SleeperInv, Findable
    <3>4. aborters # <<>>
      BY <3>3 DEF ToSet
    <3>5. Head(aborters) \in ToSet(aborters)
      BY <1>0, <3>4, TailFacts DEF TypeOK
    <3>6. QED
      BY <3>4, <3>5 DEF TokenInv, AbortersInv
  <2>3. CASE aborters = <<>>
    <3>1. killer' = Idle /\ Idle.at # "run"
      BY <2>1, <2>3 DEF Idle
    <3>2. Excused'
      BY <1>1, <1>2, <2>2, <2>3 DEF Excused
    <3>3. QED
      BY <1>3, <3>1, <3>2 DEF SignalFinds
  <2>4. CASE aborters # <<>>
    <3> DEFINE h == Head(aborters)
    <3>1. killer' = [at |-> "run", func |-> h]
      BY <2>1, <2>4
    <3>2. h.addr = addr[h.thread] \/ Excused'
      BY <1>1, <1>2, <2>2 DEF Excused
    <3> HIDE DEF h
    <3>3. killer'.func = h /\ killer' # Idle
      BY <3>1 DEF Idle
    <3>4. SignalFinds'
      BY <1>1, <3>2, <3>3 DEF SignalFinds
    <3>5. QED
      BY <1>3, <3>4
  <2>5. QED
    BY <2>3, <2>4
<1>6. QED
  BY <1>4, <1>5

\* After an aborter the other sleepers are listed and findable as before.
LEMMA AborterListed ==
    ASSUME TokenInv, Listed, Findable, NEW f \in Aborter, Aborted(f) \/ NotFound(f),
           UNCHANGED wakeups, \A u \in Threads : pc[u] \in InWait <=> pc'[u] \in InWait
    PROVE  /\ Listed' /\ Findable'
           /\ \A u \in Threads : Waits(u)' => Waits(u)
           /\ Aborted(f) => \A u \in Threads : u = f.thread => ~Waits(u)'
           /\ \A u \in Threads : Waits(u)' => (u \in robbed <=> u \in robbed')
<1>0. TypeOK /\ f.thread \in Threads
  BY DEF TokenInv, Aborter
<1>1. CASE NotFound(f)
  <2>1. UNCHANGED <<waiting, aborters, returns, own, wakeups, robbed>>
    BY <1>1 DEF NotFound
  <2>2. \A t \in Threads : (Waits(t)' <=> Waits(t)) /\ (Waking(t)' <=> Waking(t))
    BY <2>1 DEF Waits, Waking
  <2>3. Listed' /\ Findable'
    BY <2>1, <2>2 DEF Listed, Findable
  <2>4. ~Aborted(f)
    BY <1>1 DEF Aborted, NotFound
  <2>5. QED
    BY <2>1, <2>2, <2>3, <2>4
<1>2. CASE Aborted(f)
  <2>1. /\ ToSet(waiting') = {e \in ToSet(waiting) : e.thread # f.thread}
        /\ ToSet(aborters') = {d \in ToSet(aborters) : d.thread # f.thread}
        /\ own' = own \ {f.thread} /\ returns' = [returns EXCEPT ![f.thread] = 1]
        /\ robbed' = robbed \ {f.thread}
    BY <1>2 DEF Aborted, Returned
  <2>2. \A u \in Threads : Waits(u)' <=> Waits(u) /\ u # f.thread
    BY <2>1 DEF Waits
  <2>3. \A u \in Threads : Waking(u)' <=> Waking(u)
    BY DEF Waking
  <2>4. returns'[f.thread] = 1 /\ \A u \in Threads \ {f.thread} : returns'[u] = returns[u]
    BY <1>0, <2>1 DEF TypeOK
  <2>5. Listed'
    BY <2>2, <2>3, <2>4 DEF Listed
  <2>6. Findable'
    <3>1. SUFFICES ASSUME NEW e \in ToSet(waiting')
                   PROVE  /\ e.thread \in own'
                          /\ e.thread \in robbed' \/ [thread |-> e.thread, addr |-> e.addr] \in ToSet(aborters')
      BY DEF Findable
    <3>2. e \in ToSet(waiting) /\ e.thread # f.thread
      BY <2>1
    <3>3. /\ e.thread \in own
          /\ e.thread \in robbed \/ [thread |-> e.thread, addr |-> e.addr] \in ToSet(aborters)
      BY <3>2 DEF Findable
    <3>4. QED
      BY <2>1, <3>2, <3>3
  <2>7. QED
    BY <1>0, <2>1, <2>2, <2>5, <2>6
<1>3. QED
  BY <1>1, <1>2

\* An aborter for the address a thread waits at finds it.
LEMMA AborterFindsStuck ==
    ASSUME TokenInv, NEW f \in Aborter, Waits(f.thread), f.addr = addr[f.thread]
    PROVE  ~NotFound(f)
BY DEF TokenInv, WaitingInv, Waits, NotFound

\* The aborter a thread calls itself.
LEMMA AbortOwnFinds ==
    ASSUME TokenInv, SleeperInv, NEW t \in Threads, AbortOwn(t)
    PROVE  SleeperInv'
<1>0. TypeOK
  BY DEF TokenInv
<1>1. /\ pc[t] = "abort" /\ pc' = [pc EXCEPT ![t] = "async"]
      /\ UNCHANGED <<addr, wakeups, toabort, sigpending, killed, killer>>
  BY DEF AbortOwn, Goto, memVars, signalVars
<1>2. /\ \A u \in Threads : pc[u] \in InWait <=> pc'[u] \in InWait
      /\ \A u \in Threads : pc[u] = "exit" => pc'[u] = "exit"
      /\ \A u \in Threads \ {t} : pc'[u] = pc[u]
      /\ \A u \in Threads : pc[u] = "waking" => pc'[u] = "waking"
  BY <1>0, <1>1 DEF TypeOK, InWait
<1>3. /\ Listed' /\ Findable' /\ (\A u \in Threads : Waits(u)' => Waits(u)) /\ ~Waits(t)'
      /\ \A u \in Threads : Waits(u)' => (u \in robbed <=> u \in robbed')
  <2>1. CASE t \notin own
    <3>1. UNCHANGED <<waiting, aborters, own, returns, robbed>>
      BY <2>1 DEF AbortOwn
    <3>2. QuietStep
      BY <1>1, <1>2, <3>1 DEF QuietStep
    <3>3. ~Waits(t) /\ \A u \in Threads : Waits(u)' <=> Waits(u)
      BY <2>1, <3>1 DEF SleeperInv, Findable, Waits
    <3>4. QED
      BY <3>1, <3>2, <3>3, QuietListed DEF SleeperInv
  <2>2. CASE t \in own
    <3> DEFINE f == [thread |-> t, addr |-> addr[t]]
    <3>1. f \in Aborter /\ f.thread = t /\ f.addr = addr[t]
      BY <1>0 DEF Aborter, TypeOK
    <3>2. RunAborter(f)
      BY <2>2 DEF AbortOwn
    <3> HIDE DEF f
    <3>3. Aborted(f) \/ NotFound(f)
      BY <3>1, <3>2, AborterFacts
    <3>4. /\ Listed' /\ Findable'
          /\ \A u \in Threads : Waits(u)' => Waits(u) /\ (u \in robbed <=> u \in robbed')
          /\ Aborted(f) => \A u \in Threads : u = f.thread => ~Waits(u)'
      BY <1>1, <1>2, <3>1, <3>3, AborterListed DEF SleeperInv
    <3>5. NotFound(f) => ~Waits(t)
      BY <3>1, AborterFindsStuck
    <3>6. QED
      BY <3>1, <3>3, <3>4, <3>5
  <2>3. QED
    BY <2>1, <2>2
<1>4. Calm
  BY <1>1, <1>2, <1>3 DEF Calm, Stuck
<1>5. QED
  BY <1>0, <1>3, <1>4, CalmFinds DEF SleeperInv

\* The aborters exit_group() calls, one by one.
LEMMA AbortNextFinds ==
    ASSUME TokenInv, SleeperInv, NEW t \in Threads, AbortNext(t)
    PROVE  SleeperInv'
<1> DEFINE f == Head(toabort[t])
<1>0. TypeOK
  BY DEF TokenInv
<1>1. /\ toabort[t] # <<>> /\ RunAborter(f)
      /\ toabort' = [toabort EXCEPT ![t] = Tail(toabort[t])]
      /\ UNCHANGED <<addr, pc, wakeups, sigpending, killed, killer>>
  BY DEF AbortNext, memVars, signalVars
<1>2. toabort[t] \in Seq(Aborter)
  BY <1>0 DEF TypeOK
<1>3. f \in Aborter /\ ToSet(toabort[t]) = ToSet(Tail(toabort[t])) \cup {f}
  BY <1>1, <1>2, TailFacts
<1> HIDE DEF f
<1>4. Aborted(f) \/ NotFound(f)
  BY <1>1, <1>3, AborterFacts
<1>5. /\ Listed' /\ Findable'
      /\ \A u \in Threads : Waits(u)' => Waits(u) /\ (u \in robbed <=> u \in robbed')
      /\ Aborted(f) => \A u \in Threads : u = f.thread => ~Waits(u)'
  BY <1>1, <1>3, <1>4, AborterListed DEF SleeperInv
<1>6. \A u \in Threads : Stuck(u)' => Stuck(u) /\ (u \in robbed <=> u \in robbed')
  BY <1>1, <1>5 DEF Stuck
<1>7. SignalFinds'
  BY <1>1, <1>6 DEF SleeperInv, SignalFinds, Excused
<1>8. KillFinds'
  <2>1. SUFFICES ASSUME killed, NEW u \in Threads \ robbed', Stuck(u)'
                 PROVE  \E v \in Threads :
                          pc[v] = "exit" \/ [thread |-> u, addr |-> addr[u]] \in ToSet(toabort'[v])
    BY <1>1 DEF KillFinds
  <2> DEFINE m == [thread |-> u, addr |-> addr[u]]
  <2>2. PICK v \in Threads : pc[v] = "exit" \/ m \in ToSet(toabort[v])
    BY <1>6, <2>1 DEF SleeperInv, KillFinds
  <2>3. m.thread = u /\ m.addr = addr[u]
    OBVIOUS
  <2>4. SUFFICES \E x \in Threads : pc[x] = "exit" \/ m \in ToSet(toabort'[x])
    OBVIOUS
  <2> HIDE DEF m
  <2>5. Waits(u) /\ Waits(u)'
    BY <1>6, <2>1 DEF Stuck
  <2>6. m # f
    <3>1. SUFFICES ASSUME m = f PROVE FALSE
      OBVIOUS
    <3>2. ~NotFound(f)
      BY <1>3, <2>3, <2>5, <3>1, AborterFindsStuck
    <3>3. QED
      BY <1>4, <1>5, <2>3, <2>5, <3>1, <3>2
  <2>7. \A x \in Threads : toabort'[x] = IF x = t THEN Tail(toabort[t]) ELSE toabort[x]
    BY <1>0, <1>1 DEF TypeOK
  <2>8. QED
    BY <1>3, <2>2, <2>6, <2>7
<1>9. QED
  BY <1>5, <1>7, <1>8 DEF SleeperInv

\* The aborter the sender of a signal calls: when all threads were stuck,
\* it is a current one.
LEMMA KillerFinds ==
    ASSUME TokenInv, SleeperInv, KillerRuns
    PROVE  SleeperInv'
<1> DEFINE f == killer.func
<1>0. TypeOK
  BY DEF TokenInv
<1>1. /\ killer.at = "run" /\ RunAborter(f) /\ killer' = Idle
      /\ UNCHANGED <<addr, pc, wakeups, toabort, sigpending, killed>>
  BY DEF KillerRuns, memVars
<1>2. f \in Aborter
  BY <1>0, <1>1 DEF TypeOK, Idle, About
<1>3. Idle.at # "run"
  BY DEF Idle
<1>4. sigpending => Excused \/ f.addr = addr[f.thread]
  BY <1>1 DEF SleeperInv, SignalFinds
<1> HIDE DEF f
<1>5. Aborted(f) \/ NotFound(f)
  BY <1>1, <1>2, AborterFacts
<1>6. /\ Listed' /\ Findable'
      /\ \A u \in Threads : Waits(u)' => Waits(u) /\ (u \in robbed <=> u \in robbed')
      /\ Aborted(f) => \A u \in Threads : u = f.thread => ~Waits(u)'
  BY <1>1, <1>2, <1>5, AborterListed DEF SleeperInv
<1>7. \A u \in Threads : Stuck(u)' => Stuck(u) /\ (u \in robbed <=> u \in robbed')
  BY <1>1, <1>6 DEF Stuck
<1>8. KillFinds'
  BY <1>1, <1>7 DEF SleeperInv, KillFinds
<1>9. ASSUME sigpending PROVE Excused'
  <2>1. CASE Excused
    BY <1>7, <2>1 DEF Excused
  <2>2. CASE ~Excused /\ f.addr = addr[f.thread]
    <3>1. f.thread \in Threads
      BY <1>2 DEF Aborter
    <3>2. Waits(f.thread)
      BY <2>2, <3>1 DEF Stuck, Excused
    <3>3. \A u \in Threads : u = f.thread => ~Waits(u)'
      BY <1>2, <1>5, <1>6, <2>2, <3>2, AborterFindsStuck
    <3>4. QED
      BY <3>1, <3>3 DEF Stuck, Excused
  <2>3. QED
    BY <1>4, <1>9, <2>1, <2>2
<1>10. SignalFinds'
  BY <1>1, <1>3, <1>9 DEF SignalFinds
<1>11. QED
  BY <1>6, <1>8, <1>10 DEF SleeperInv

\* A thread enters the list together with its aborter.
LEMMA EnteringFinds ==
    ASSUME TokenInv, SleeperInv, NEW t \in Threads, Entering(t)
    PROVE  SleeperInv'
<1>0. TypeOK
  BY DEF TokenInv
<1>1. /\ pc[t] = "lock" /\ pc' = [pc EXCEPT ![t] = "check"]
      /\ UNCHANGED <<addr, wakeups, toabort, returns, sigpending, killed, killer>>
      /\ own' = own \cup {t}
  BY DEF Entering, memVars, signalVars
<1>2. PICK e \in Entry : /\ e.thread = t /\ e.addr = addr[t]
                         /\ ToSet(waiting') = ToSet(waiting) \cup {e}
  BY DEF Entering
<1>3. /\ \A f \in ToSet(aborters) \cup {[thread |-> t, addr |-> addr[t]]} :
            f \in ToSet(aborters') \/ f.thread \in robbed'
      /\ robbed \subseteq robbed'
  BY DEF Entering
<1>4. pc'[t] = "check" /\ \A u \in Threads \ {t} : pc'[u] = pc[u]
  BY <1>0, <1>1 DEF TypeOK
<1>5. Waits(t)' /\ \A u \in Threads \ {t} : Waits(u)' <=> Waits(u)
  BY <1>2 DEF Waits
<1>6. \A u \in Threads : Waking(u)' <=> Waking(u)
  BY <1>1 DEF Waking
<1>7. Listed'
  BY <1>1, <1>4, <1>5, <1>6 DEF SleeperInv, Listed
<1>8. Findable'
  <2>1. SUFFICES ASSUME NEW d \in ToSet(waiting) \cup {e}
                 PROVE  /\ d.thread \in own'
                        /\ d.thread \in robbed' \/ [thread |-> d.thread, addr |-> d.addr] \in ToSet(aborters')
    BY <1>2 DEF Findable
  <2>2. CASE d = e
    BY <1>1, <1>2, <1>3, <2>2
  <2>3. CASE d \in ToSet(waiting)
    BY <1>1, <1>3, <2>3 DEF SleeperInv, Findable
  <2>4. QED
    BY <2>1, <2>2, <2>3
<1>9. Calm
  BY <1>1, <1>3, <1>4, <1>5 DEF Calm, Stuck
<1>10. QED
  BY <1>0, <1>7, <1>8, <1>9, CalmFinds DEF SleeperInv

\* Woken threads change lists.
LEMMA WakeFinds ==
    ASSUME TokenInv, SleeperInv, NEW t \in Threads, NEW n \in WakeNums, Wake(t, n)
    PROVE  SleeperInv'
<1> DEFINE hit == Woken(addr[t], n)
<1>0. TypeOK /\ hit \in SUBSET DOMAIN waiting
  BY DEF TokenInv, Woken
<1>1. /\ pc[t] = "wake" /\ pc' = [pc EXCEPT ![t] = "waking"]
      /\ UNCHANGED <<addr, aborters, own, toabort, robbed, returns, sigpending, killed, killer>>
  BY DEF Wake, Goto, memVars, abortVars, signalVars
<1>2. ToSet(waiting') = {waiting[i] : i \in DOMAIN waiting \ hit}
  BY WakeFacts DEF Moving
<1>3. PICK w \in Seq(Threads) : /\ wakeups' = [wakeups EXCEPT ![t] = w]
                                /\ ToSet(w) = {waiting[i].thread : i \in hit}
  BY WakeFacts DEF Moving
<1> HIDE DEF hit
<1>4. pc'[t] = "waking" /\ \A u \in Threads \ {t} : pc'[u] = pc[u]
  BY <1>0, <1>1 DEF TypeOK
<1>5. ToSet(waiting') \subseteq ToSet(waiting)
  BY <1>2 DEF ToSet
<1>6. \A u \in Threads : Waits(u)' => Waits(u)
  BY <1>5 DEF Waits
<1>7. \A u \in Threads : wakeups'[u] = IF u = t THEN w ELSE wakeups[u]
  BY <1>0, <1>3 DEF TypeOK
<1>8. ToSet(wakeups[t]) = {}
  BY <1>1 DEF TokenInv, WakeupsInv
<1>9. ASSUME NEW u \in Threads, Waits(u) PROVE Waits(u)' \/ Waking(u)'
  <2>1. PICK i \in DOMAIN waiting : waiting[i].thread = u
    BY <1>9 DEF Waits, ToSet
  <2>2. CASE i \in hit
    <3>1. u \in ToSet(wakeups'[t])
      BY <1>3, <1>7, <2>1, <2>2
    <3>2. QED
      BY <3>1 DEF Waking
  <2>3. CASE i \notin hit
    <3>1. waiting[i] \in ToSet(waiting')
      BY <1>2, <2>1, <2>3
    <3>2. QED
      BY <2>1, <3>1 DEF Waits
  <2>4. QED
    BY <2>2, <2>3
<1>10. \A u \in Threads : Waking(u) => Waking(u)'
  <2>1. ASSUME NEW u \in Threads, NEW v \in Threads, u \in ToSet(wakeups[v])
        PROVE  u \in ToSet(wakeups'[v])
    BY <1>7, <1>8, <2>1
  <2>2. QED
    BY <2>1 DEF Waking
<1>11. Listed'
  BY <1>1, <1>4, <1>9, <1>10 DEF SleeperInv, Listed, InWait
<1>12. Findable'
  BY <1>1, <1>5 DEF SleeperInv, Findable
<1>13. Calm
  BY <1>1, <1>4, <1>6 DEF Calm, Stuck
<1>14. QED
  BY <1>0, <1>11, <1>12, <1>13, CalmFinds DEF SleeperInv

\* A woken thread is returned; the others stay as they are.
LEMMA WakeupFinds ==
    ASSUME TokenInv, SleeperInv, NEW t \in Threads, Wakeup(t)
    PROVE  SleeperInv'
<1>0. TypeOK
  BY DEF TokenInv
<1>1. PICK x \in ToSet(wakeups[t]) :
        /\ x \in Threads /\ ~Waits(x) /\ Returned(x)
        /\ \A u \in Threads : ToSet(wakeups'[u]) = ToSet(wakeups[u]) \ {x}
  BY WakeupToken
<1>2. UNCHANGED <<addr, pc, waiting, toabort, sigpending, killed, killer>>
  BY DEF Wakeup, memVars, signalVars
<1>3. \A u \in Threads : Waits(u)' <=> Waits(u)
  BY <1>2 DEF Waits
<1>4. \A u \in Threads \ {x} : Waking(u) => Waking(u)'
  BY <1>1 DEF Waking
<1>5. returns'[x] = 1 /\ \A u \in Threads \ {x} : returns'[u] = returns[u]
  BY <1>0, <1>1 DEF Returned, TypeOK
<1>6. Listed'
  BY <1>2, <1>3, <1>4, <1>5 DEF SleeperInv, Listed
<1>7. Findable'
  <2>1. SUFFICES ASSUME NEW e \in ToSet(waiting)
                 PROVE  /\ e.thread \in own'
                        /\ e.thread \in robbed' \/ [thread |-> e.thread, addr |-> e.addr] \in ToSet(aborters')
    BY <1>2 DEF Findable
  <2>2. e.thread # x
    BY <1>1 DEF Waits
  <2>3. /\ e.thread \in own
        /\ e.thread \in robbed \/ [thread |-> e.thread, addr |-> e.addr] \in ToSet(aborters)
    BY DEF SleeperInv, Findable
  <2>4. QED
    BY <1>1, <2>2, <2>3 DEF Returned
<1>8. Calm
  <2>1. \A u \in Threads : Stuck(u) /\ u \in robbed => u \in robbed'
    BY <1>1 DEF Stuck, Returned
  <2>2. QED
    BY <1>2, <1>3, <2>1 DEF Calm, Stuck
<1>9. QED
  BY <1>0, <1>6, <1>7, <1>8, CalmFinds DEF SleeperInv

\* A thread that comes back is not in a list.
LEMMA ResumeFinds ==
    ASSUME TokenInv, SleeperInv, NEW t \in Threads, Resume(t)
    PROVE  SleeperInv'
<1>0. TypeOK
  BY DEF TokenInv
<1>1. /\ pc[t] = "off" /\ returns' = [returns EXCEPT ![t] = 0]
      /\ UNCHANGED <<addr, waiting, wakeups, aborters, own, toabort, robbed, killed, killer>>
      /\ sigpending' = (sigpending /\ killed)
  BY DEF Resume, memVars, futexVars, abortVars
<1>2. PICK l \in {"ended", "user"} : pc' = [pc EXCEPT ![t] = l]
  BY DEF Resume, Goto
<1>3. /\ pc'[t] = l /\ pc'[t] \notin InWait
      /\ \A u \in Threads \ {t} : pc'[u] = pc[u] /\ returns'[u] = returns[u]
  BY <1>0, <1>1, <1>2 DEF TypeOK, InWait
<1>4. \A u \in Threads : (Waits(u)' <=> Waits(u)) /\ (Waking(u)' <=> Waking(u))
  BY <1>1 DEF Waits, Waking
<1>5. Listed'
  BY <1>3, <1>4 DEF SleeperInv, Listed
<1>6. Findable'
  BY <1>1 DEF SleeperInv, Findable
<1>7. Calm
  BY <1>1, <1>3, <1>4 DEF Calm, Stuck, InWait
<1>8. QED
  BY <1>0, <1>5, <1>6, <1>7, CalmFinds DEF SleeperInv

\* Sleepers stay within reach in every step.
LEMMA SleeperStep ==
    ASSUME TokenInv, SleeperInv, [Next]_vars, Threads # {}
    PROVE  SleeperInv'
<1>0. TypeOK
  BY DEF TokenInv
<1>1. ASSUME QuietStep, Calm PROVE SleeperInv'
  BY <1>0, <1>1, QuietListed, CalmFinds DEF SleeperInv
<1>2. ASSUME NEW t \in Threads, QuietActions(t) PROVE SleeperInv'
  <2>1. QuietStep
    BY <1>0, <1>2, QuietActionsAre
  <2>2. CASE ExitGroup(t) \/ CallAbortAll(t)
    BY <2>1, <2>2, ExitFinds, QuietListed DEF SleeperInv
  <2>3. CASE ~(ExitGroup(t) \/ CallAbortAll(t))
    <3>1. Calm
      BY <1>0, <1>2, <2>1, <2>3, QuietCalm DEF QuietActions
    <3>2. QED
      BY <1>1, <2>1, <3>1
  <2>4. QED
    BY <2>2, <2>3
<1>3. ASSUME NEW t \in Threads, Enqueue(t) PROVE SleeperInv'
  <2>1. CASE Entering(t)
    BY <2>1, EnteringFinds
  <2>2. CASE /\ pc[t] = "lock" /\ pc' = [pc EXCEPT ![t] = "fast"]
             /\ UNCHANGED <<memVars, futexVars, abortVars, returns, signalVars>>
    <3>1. QuietStep
      BY <1>0, <2>2, EnqueueQuiet
    <3>2. /\ UNCHANGED <<addr, waiting, toabort, robbed, sigpending, killed, killer>>
          /\ pc'[t] = "fast" /\ \A u \in Threads \ {t} : pc'[u] = pc[u]
      BY <1>0, <2>2 DEF memVars, futexVars, abortVars, signalVars, TypeOK
    <3>3. \A u \in Threads : Waits(u)' <=> Waits(u)
      BY <3>2 DEF Waits
    <3>4. Calm
      BY <2>2, <3>2, <3>3 DEF Calm, Stuck
    <3>5. QED
      BY <1>1, <3>1, <3>4
  <2>3. QED
    BY <1>3, <2>1, <2>2, EnqueueFacts
<1>4. ASSUME SetSignal \/ CallAbort PROVE SleeperInv'
  <2>1. QuietStep
    BY <1>0, <1>4, KillerQuiet
  <2>2. QED
    BY <1>4, <2>1, SignalSteps, QuietListed DEF SleeperInv
<1>5. CASE UNCHANGED vars
  <2>1. QuietStep
    BY <1>5 DEF vars, memVars, futexVars, abortVars, signalVars, QuietStep
  <2>2. Calm
    BY <1>5 DEF vars, memVars, futexVars, abortVars, signalVars, Calm, Stuck, Waits
  <2>3. QED
    BY <1>1, <2>1, <2>2
<1>6. ASSUME NEW t \in Threads, Steps(t) PROVE SleeperInv'
  BY <1>2, <1>3, <1>6, AbortOwnFinds, AbortNextFinds, WakeFinds, WakeupFinds, ResumeFinds DEF Steps
<1>7. QED
  BY <1>4, <1>5, <1>6, NextIsStep, KillerFinds

\* The second inductive invariant, whatever the handles name that the threads of
\* the process start with.
THEOREM SleeperInvariant ==
    ASSUME Threads # {}
    PROVE  Spec => []SleeperInv
<1>1. Init => SleeperInv
  <2>1. SUFFICES ASSUME Init PROVE SleeperInv
    OBVIOUS
  <2>2. /\ waiting = <<>> /\ sigpending = FALSE /\ killed = FALSE
        /\ \A t \in Threads : pc[t] = "user"
    BY <2>1 DEF Init
  <2>3. Listed /\ Findable /\ KillFinds /\ SignalFinds
    BY <2>2 DEF Listed, Findable, KillFinds, SignalFinds, ToSet, InWait
  <2>4. QED
    BY <2>3 DEF SleeperInv
<1>2. TokenInv /\ SleeperInv /\ [Next]_vars => SleeperInv'
  BY SleeperStep
<1>3. QED
  BY <1>1, <1>2, TokenInvariant, PTL DEF Spec

\* A thread that sleeps without being woken is in the list, off the processor.
LEMMA AsleepIsStuck ==
    ASSUME Listed, NEW t \in Threads, Asleep(t)
    PROVE  Stuck(t) \/ Waking(t)
BY DEF Listed, Asleep, Stuck, InWait

\* A signal that was sent completely does not leave all threads asleep, whatever
\* the uninitialised handles name, unless they took every thread's aborter away.
THEOREM SignalFindsSleeperHolds ==
    ASSUME Threads # {}
    PROVE  Spec => []SignalFindsSleeper
<1>1. TokenInv /\ SleeperInv => SignalFindsSleeper
  <2>1. SUFFICES ASSUME TokenInv, SleeperInv, sigpending, killer = Idle,
                        \A t \in Threads : Asleep(t), ~(Threads \subseteq robbed)
                 PROVE  FALSE
    BY DEF SignalFindsSleeper
  <2>2. PICK t \in Threads : ~Stuck(t)
    BY <2>1 DEF SleeperInv, SignalFinds, Excused
  <2>3. Waking(t)
    BY <2>1, <2>2, AsleepIsStuck DEF SleeperInv
  <2>4. PICK u \in Threads : t \in ToSet(wakeups[u])
    BY <2>3 DEF Waking
  <2>5. pc[u] = "waking"
    BY <2>1, <2>4 DEF TokenInv, WakeupsInv
  <2>6. QED
    BY <2>1, <2>5 DEF Asleep
<1>2. QED
  BY <1>1, TokenInvariant, SleeperInvariant, PTL

\* exit_group() gets hold of every thread that sleeps in a wait, whenever it
\* went to sleep and whatever the uninitialised handles name, unless one of them
\* took the thread's aborter away.
THEOREM KilledSleepersFoundHolds ==
    ASSUME Threads # {}
    PROVE  Spec => []KilledSleepersFound
<1>1. SleeperInv => KilledSleepersFound
  <2>1. SUFFICES ASSUME SleeperInv, NEW t \in Threads \ robbed, killed, Asleep(t)
                 PROVE  \E u \in Threads :
                          \/ pc[u] = "exit"
                          \/ \E i \in DOMAIN toabort[u] : toabort[u][i].thread = t
                          \/ \E i \in DOMAIN wakeups[u] : wakeups[u][i] = t
    BY DEF KilledSleepersFound
  <2>2. CASE Waking(t)
    BY <2>2 DEF Waking, ToSet
  <2>3. CASE Stuck(t)
    <3>1. PICK u \in Threads : pc[u] = "exit" \/ [thread |-> t, addr |-> addr[t]] \in ToSet(toabort[u])
      BY <2>1, <2>3 DEF SleeperInv, KillFinds
    <3>2. CASE pc[u] = "exit"
      BY <3>2
    <3>3. CASE [thread |-> t, addr |-> addr[t]] \in ToSet(toabort[u])
      BY <3>3 DEF ToSet
    <3>4. QED
      BY <3>1, <3>2, <3>3
  <2>4. QED
    BY <2>1, <2>2, <2>3, AsleepIsStuck DEF SleeperInv
<1>2. QED
  BY <1>1, SleeperInvariant, PTL
=============================================================================

-------------------------- MODULE PageFaultProofs --------------------------
(***************************************************************************)
(* TLAPS proofs about PageFault and MemorySnapshot, for any threads,       *)
(* processes and processors, any address space and any requests.           *)
(***************************************************************************)
EXTENDS PageFault, FiniteSetTheorems, WellFoundedInduction, TLAPS

(***************************************************************************)
(* The strengthening of FaultHeld: who may refer to a thread, that they    *)
(* refer to different ones which all wait, and that each that waits is     *)
(* referred to.                                                            *)
(***************************************************************************)
Holds(e, t) == t \in e.threads \/ t \in e.callbacks

\* The [pfault] thread has an entry exactly while it works on it, and runs at
\* most one callback.
PfShape ==
    /\ pfault = <<>> <=> pfAt \in {"none", "acquire", "take"}
    /\ pfCall # {} => pfAt \in {"check", "sync", "call"}
    /\ \A t, u \in pfCall : t = u
    /\ pfAt \in {"load", "relock"} <=> pfMap # <<>>
PageShape ==
    \A t \in Thread : st[t] \in {"trap", "fault", "check", "sync", "call", "wait"} => page[t] \in Page
HeldWaits ==
    \A t \in Thread :
        \/ \E i \in DOMAIN faults : Holds(faults[i], t)
        \/ \E i \in DOMAIN pfault : Holds(pfault[i], t)
        \/ t \in pfCall \/ t \in resume
        => st[t] = "wait"
HeldOnce ==
    \A t \in Thread :
        /\ \A i, j \in DOMAIN faults : Holds(faults[i], t) /\ Holds(faults[j], t) => i = j
        /\ \A i \in DOMAIN faults : Holds(faults[i], t) =>
              t \notin pfCall /\ t \notin resume /\ \A j \in DOMAIN pfault : ~Holds(pfault[j], t)
        /\ \A j \in DOMAIN pfault : Holds(pfault[j], t) => t \notin pfCall /\ t \notin resume
        /\ ~(t \in pfCall /\ t \in resume)
EntriesApart ==
    \A t \in Thread :
        /\ \A i \in DOMAIN faults : ~(t \in faults[i].threads /\ t \in faults[i].callbacks)
        /\ \A i \in DOMAIN pfault : ~(t \in pfault[i].threads /\ t \in pfault[i].callbacks)
WaitHeld ==
    \A t \in Thread : st[t] = "wait" =>
        \/ \E i \in DOMAIN faults : Holds(faults[i], t)
        \/ \E i \in DOMAIN pfault : Holds(pfault[i], t)
        \/ t \in pfCall \/ t \in resume

HeldInv ==
    TypeOK /\ PfShape /\ PageShape /\ HeldWaits /\ HeldOnce /\ EntriesApart /\ WaitHeld

(***************************************************************************)
(* The strengthening of ReleaseProtected: a thread on a processor has a    *)
(* snapshot, and a vector that was made during its run hangs on that one   *)
(* or on a newer one.                                                      *)
(***************************************************************************)
\* The runs that were there when vector r was made.
Early(r) == seen[r] \ between[r]
RunsApart == running \cap leaving = {}
RunHasSnapshot ==
    \A t \in running \cup leaving :
        \E i \in DOMAIN snapshots[ProcOf[t]] : snapshots[ProcOf[t]][i].thread = t
SeenHangs ==
    \A r \in ReleaseId : \A t \in Early(r) :
        /\ t \in running
        /\ \E i, j \in DOMAIN snapshots[ProcOf[t]] :
            /\ i <= j
            /\ snapshots[ProcOf[t]][i].thread = t
            /\ r \in snapshots[ProcOf[t]][j].deferred

SnapshotInv == SnapshotTypeOK /\ RunsApart /\ RunHasSnapshot /\ SeenHangs

(***************************************************************************)
(* The strengthening of KilledOnlyIfDisturbed.  The members of an entry    *)
(* are at its page, so that an entry that a thread joins has somebody else *)
(* at its page.  An undisturbed thread is therefore alone in an entry of   *)
(* its own process, its page has a mapping that waits for the file, and    *)
(* the [pfault] thread finds that mapping as it left it.                   *)
(***************************************************************************)
EntryAtPage ==
    /\ \A i \in DOMAIN faults :
        /\ \E t \in Thread : Holds(faults[i], t)
        /\ \A t \in Thread : Holds(faults[i], t) => page[t] = faults[i].page
    /\ Listed =>
        /\ \E t \in Thread : Holds(pfault[1], t)
        /\ \A t \in Thread : Holds(pfault[1], t) => page[t] = pfault[1].page

\* The result of resolve_page() is being told to whom it concerns.
Reporting == pfAt \in {"unlist", "report", "check", "sync", "call"}
\* The fault of t was answered, or is about to be.
Answered(t) ==
    t \in resume \/ (Reporting /\ pfOk /\ pfault # <<>> /\ t \in pfault[1].threads)
\* The page of t has a mapping and is not there.
Missing(t) ==
    /\ MappingOf(ProcOf[t], page[t]) # {}
    /\ page[t] \notin present[ProcOf[t]]
\* It has to come from the file.
OnFile(t) ==
    \A m \in MappingOf(ProcOf[t], page[t]) : m.kind # "anon" /\ page[t] \notin m.entries

CleanAlone(t) ==
    /\ st[t] \in {"trap", "fault", "wait"}
    /\ ~Answered(t) => Others(t, page[t]) = {}
CleanMissing(t) ==
    /\ ~Answered(t) => Missing(t)
    /\ ~Answered(t) /\ st[t] # "trap" => OnFile(t)
CleanEntry(t) ==
    st[t] = "wait" /\ t \notin resume =>
        \/ \E i \in DOMAIN faults : t \in faults[i].threads /\ faults[i].proc = ProcOf[t]
        \/ pfault # <<>> /\ t \in pfault[1].threads /\ pfault[1].proc = ProcOf[t]
CleanFound(t) ==
    pfAt \in {"load", "relock"} /\ t \in pfault[1].threads =>
        \E m \in MappingOf(ProcOf[t], page[t]) : pfMap = <<m.id, First(m)>>
CleanOk(t) == Reporting /\ t \in pfault[1].threads => pfOk

CleanAt(t) == CleanAlone(t) /\ CleanMissing(t) /\ CleanEntry(t) /\ CleanFound(t) /\ CleanOk(t)

CleanInv == EntryAtPage /\ \A t \in clean : CleanAt(t)

-----------------------------------------------------------------------------

\* CHOOSE finds the smallest of a set of numbers.
LEMMA NatMin ==
    ASSUME NEW T \in SUBSET Nat, T # {}
    PROVE  (CHOOSE x \in T : \A y \in T : x <= y) \in T
<1>1. PICK m \in T : \A k \in T : ~(<<k, m>> \in OpToRel(<, Nat))
  BY NatLessThanWellFounded, WFMin
<1>2. \A k \in T : ~(k < m)
  BY <1>1 DEF OpToRel
<1>3. \A k \in T : m <= k
  BY <1>2
<1>4. QED
  BY <1>3

(* Snapshots *)

\* A thread that gets on a processor and adds its snapshot to the list keeps the
\* snapshot invariant.
LEMMA TakeKeepsSnapshots ==
    ASSUME SnapshotInv, NEW t \in Thread, TakeSnapshot(t)
    PROVE  SnapshotInv'
<1> DEFINE p == ProcOf[t]
           new == [thread |-> t, deferred |-> {}]
<1> USE SnapshotAssumption
<1>1. /\ p \in Proc /\ snapshots \in [Proc -> Seq(Snapshot)] /\ new \in Snapshot
      /\ snapshots' = [snapshots EXCEPT ![p] = Append(@, new)]
  BY DEF SnapshotInv, SnapshotTypeOK, TakeSnapshot, Snapshot
<1> HIDE DEF p, new
<1>2. /\ snapshots' \in [Proc -> Seq(Snapshot)]
      /\ snapshots'[p] = Append(snapshots[p], new)
      /\ \A q \in Proc : q # p => snapshots'[q] = snapshots[q]
  BY <1>1
<1>3. /\ \A q \in Proc : DOMAIN snapshots[q] \subseteq DOMAIN snapshots'[q]
      /\ \A q \in Proc : \A i \in DOMAIN snapshots[q] : snapshots'[q][i] = snapshots[q][i]
      /\ Len(snapshots[p]) + 1 \in DOMAIN snapshots'[p]
      /\ snapshots'[p][Len(snapshots[p]) + 1] = new
  BY <1>1, <1>2
<1>4. SnapshotTypeOK' /\ RunsApart'
  BY <1>2 DEF SnapshotInv, SnapshotTypeOK, TakeSnapshot, RunsApart
<1>5. RunHasSnapshot'
  <2>1. \E i \in DOMAIN snapshots'[p] : snapshots'[p][i].thread = t
    BY <1>3 DEF new
  <2>2. ASSUME NEW u \in running \cup leaving
        PROVE  \E i \in DOMAIN snapshots'[ProcOf[u]] : snapshots'[ProcOf[u]][i].thread = u
    <3>1. ProcOf[u] \in Proc
      BY DEF SnapshotInv, SnapshotTypeOK
    <3>2. PICK i \in DOMAIN snapshots[ProcOf[u]] : snapshots[ProcOf[u]][i].thread = u
      BY DEF SnapshotInv, RunHasSnapshot
    <3>3. QED
      BY <1>3, <3>1, <3>2
  <2>3. running' \cup leaving' = (running \cup leaving) \cup {t}
    BY DEF TakeSnapshot
  <2>4. QED
    BY <2>1, <2>2, <2>3 DEF RunHasSnapshot, p
<1>6. SeenHangs'
  <2>1. running \subseteq running' /\ \A r \in ReleaseId : Early(r)' \subseteq Early(r)
    BY DEF TakeSnapshot, Early
  <2>2. ASSUME NEW r \in ReleaseId, NEW u \in Early(r)
        PROVE  /\ u \in running
               /\ \E i, j \in DOMAIN snapshots'[ProcOf[u]] :
                    /\ i <= j
                    /\ snapshots'[ProcOf[u]][i].thread = u
                    /\ r \in snapshots'[ProcOf[u]][j].deferred
    <3>1. ProcOf[u] \in Proc
      BY DEF SnapshotInv, SnapshotTypeOK, Early
    <3>2. u \in running
      BY DEF SnapshotInv, SeenHangs
    <3>3. PICK i, j \in DOMAIN snapshots[ProcOf[u]] :
             /\ i <= j
             /\ snapshots[ProcOf[u]][i].thread = u
             /\ r \in snapshots[ProcOf[u]][j].deferred
      BY DEF SnapshotInv, SeenHangs
    <3>4. QED
      BY <1>3, <3>1, <3>2, <3>3
  <2>3. QED
    BY <2>1, <2>2 DEF SeenHangs
<1>7. QED
  BY <1>4, <1>5, <1>6 DEF SnapshotInv

\* task_leave() keeps it: the snapshot is still listed until Release().
LEMMA LeaveKeepsSnapshots ==
    ASSUME SnapshotInv, NEW t \in Thread, LeaveSnapshot(t)
    PROVE  SnapshotInv'
<1>1. SnapshotTypeOK' /\ RunsApart' /\ RunHasSnapshot'
  BY DEF SnapshotInv, SnapshotTypeOK, LeaveSnapshot, RunsApart, RunHasSnapshot
<1>2. SeenHangs'
  BY DEF SnapshotInv, SnapshotTypeOK, LeaveSnapshot, SeenHangs, Early
<1>3. QED
  BY <1>1, <1>2 DEF SnapshotInv

\* What is left of a list of snapshots: the elements but one, in their order,
\* and what hung on that one hangs on the one before.
LEMMA WithoutFacts ==
    ASSUME NEW s \in Seq(Snapshot), NEW i \in DOMAIN s
    PROVE  /\ Without(s, i) \in Seq(Snapshot)
           /\ \A k \in DOMAIN s : k < i =>
                 /\ k \in DOMAIN Without(s, i) /\ Without(s, i)[k].thread = s[k].thread
                 /\ s[k].deferred \subseteq Without(s, i)[k].deferred
           /\ \A k \in DOMAIN s : k > i =>
                 /\ k - 1 \in DOMAIN Without(s, i) /\ Without(s, i)[k - 1].thread = s[k].thread
                 /\ s[k].deferred \subseteq Without(s, i)[k - 1].deferred
           /\ i > 1 => s[i].deferred \subseteq Without(s, i)[i - 1].deferred
<1> DEFINE w == Without(s, i)
<1>1. Len(s) \in Nat /\ DOMAIN s = 1 .. Len(s) /\ Len(s) - 1 \in Nat
  OBVIOUS
<1>2. \A j \in 1 .. (Len(s) - 1) :
        /\ w[j] = IF j < i - 1 THEN s[j]
                  ELSE IF j = i - 1 THEN [s[j] EXCEPT !.deferred = @ \cup s[i].deferred]
                  ELSE s[j + 1]
        /\ w[j] \in Snapshot
  <2>1. TAKE j \in 1 .. (Len(s) - 1)
  <2>2. s[j] \in Snapshot /\ s[j + 1] \in Snapshot /\ s[i] \in Snapshot
    BY <1>1
  <2>3. [s[j] EXCEPT !.deferred = @ \cup s[i].deferred] \in Snapshot
    BY <2>2 DEF Snapshot
  <2>4. QED
    BY <2>2, <2>3 DEF Without
<1>3. w \in Seq(Snapshot) /\ DOMAIN w = 1 .. (Len(s) - 1)
  <2>1. w = [j \in 1 .. (Len(s) - 1) |-> w[j]]
    BY DEF Without
  <2>2. QED
    BY <1>1, <1>2, <2>1
<1>4. \A k \in DOMAIN s : s[k] \in [thread : Thread, deferred : SUBSET ReleaseId]
  <2>1. \A k \in DOMAIN s : s[k] \in Snapshot
    OBVIOUS
  <2>2. QED
    BY <2>1 DEF Snapshot
<1> HIDE DEF w
<1>5. ASSUME NEW k \in DOMAIN s, k < i
      PROVE  k \in DOMAIN w /\ w[k].thread = s[k].thread /\ s[k].deferred \subseteq w[k].deferred
  <2>1. k \in 1 .. (Len(s) - 1) /\ (k < i - 1 \/ k = i - 1)
    BY <1>1, <1>5
  <2>2. w[k] = IF k < i - 1 THEN s[k] ELSE [s[k] EXCEPT !.deferred = @ \cup s[i].deferred]
    BY <1>2, <2>1
  <2>3. QED
    BY <1>3, <1>4, <2>1, <2>2
<1>6. ASSUME NEW k \in DOMAIN s, k > i
      PROVE  /\ k - 1 \in DOMAIN w /\ w[k - 1].thread = s[k].thread
             /\ s[k].deferred \subseteq w[k - 1].deferred
  <2>1. k - 1 \in 1 .. (Len(s) - 1) /\ (k - 1) + 1 = k /\ ~(k - 1 < i - 1) /\ k - 1 # i - 1
    BY <1>1, <1>6
  <2>2. w[k - 1] = s[k]
    BY <1>2, <2>1
  <2>3. QED
    BY <1>3, <2>1, <2>2
<1>7. ASSUME i > 1
      PROVE  s[i].deferred \subseteq w[i - 1].deferred
  <2>1. i - 1 \in 1 .. (Len(s) - 1) /\ ~(i - 1 < i - 1) /\ i - 1 \in DOMAIN s
    BY <1>1, <1>7
  <2>2. w[i - 1] = [s[i - 1] EXCEPT !.deferred = @ \cup s[i].deferred]
    BY <1>2, <2>1
  <2>3. QED
    BY <1>4, <2>1, <2>2
<1>8. QED
  BY <1>3, <1>5, <1>6, <1>7 DEF w

\* Release() keeps it: what hangs on the snapshot goes to the one before, where
\* every thread that was there earlier still protects it.
LEMMA ReleaseKeepsSnapshots ==
    ASSUME SnapshotInv, NEW t \in Thread, Release(t)
    PROVE  SnapshotInv'
<1> DEFINE p == ProcOf[t]
<1> USE SnapshotAssumption
<1>1. PICK i \in DOMAIN snapshots[p] :
        /\ snapshots[p][i].thread = t
        /\ snapshots' = [snapshots EXCEPT ![p] = Without(@, i)]
  BY DEF Release
<1>2. p \in Proc /\ snapshots \in [Proc -> Seq(Snapshot)] /\ snapshots[p] \in Seq(Snapshot)
  BY DEF SnapshotInv, SnapshotTypeOK
<1> DEFINE s == snapshots[p]
           w == Without(snapshots[p], i)
<1>3. /\ w \in Seq(Snapshot)
      /\ \A k \in DOMAIN s : k < i =>
            /\ k \in DOMAIN w /\ w[k].thread = s[k].thread
            /\ s[k].deferred \subseteq w[k].deferred
      /\ \A k \in DOMAIN s : k > i =>
            /\ k - 1 \in DOMAIN w /\ w[k - 1].thread = s[k].thread
            /\ s[k].deferred \subseteq w[k - 1].deferred
      /\ i > 1 => s[i].deferred \subseteq w[i - 1].deferred
      /\ DOMAIN s \subseteq Nat
  BY <1>1, <1>2, WithoutFacts
<1>4. /\ snapshots' \in [Proc -> Seq(Snapshot)] /\ snapshots'[p] = w
      /\ \A q \in Proc : q # p => snapshots'[q] = snapshots[q]
  BY <1>1, <1>2, <1>3
<1>5. /\ t \notin running /\ leaving' = leaving \ {t} /\ UNCHANGED <<running, discard, seen, between>>
      /\ running \cup leaving \subseteq Thread
  BY DEF SnapshotInv, SnapshotTypeOK, RunsApart, Release
<1>6. SnapshotTypeOK' /\ RunsApart'
  BY <1>4, <1>5 DEF SnapshotInv, SnapshotTypeOK, RunsApart
<1> HIDE DEF s, w, p
<1>7. RunHasSnapshot'
  <2>1. ASSUME NEW u \in running \cup leaving, u # t
        PROVE  \E k \in DOMAIN snapshots'[ProcOf[u]] : snapshots'[ProcOf[u]][k].thread = u
    <3>1. ProcOf[u] \in Proc
      BY <1>5
    <3>2. PICK k \in DOMAIN snapshots[ProcOf[u]] : snapshots[ProcOf[u]][k].thread = u
      BY DEF SnapshotInv, RunHasSnapshot
    <3>3. CASE ProcOf[u] # p
      BY <1>4, <3>1, <3>2, <3>3
    <3>4. CASE ProcOf[u] = p
      <4>1. k \in DOMAIN s /\ s[k].thread = u /\ s[i].thread = t /\ i \in DOMAIN s
        BY <1>1, <3>2, <3>4 DEF s
      <4>2. k < i \/ k > i
        BY <1>3, <2>1, <4>1
      <4>3. QED
        BY <1>3, <1>4, <3>4, <4>1, <4>2
    <3>5. QED
      BY <3>3, <3>4
  <2>2. QED
    BY <1>5, <2>1 DEF RunHasSnapshot
<1>8. SeenHangs'
  <2>1. ASSUME NEW r \in ReleaseId, NEW u \in Early(r)
        PROVE  /\ u \in running
               /\ \E k, j \in DOMAIN snapshots'[ProcOf[u]] :
                    /\ k <= j
                    /\ snapshots'[ProcOf[u]][k].thread = u
                    /\ r \in snapshots'[ProcOf[u]][j].deferred
    <3>1. u \in running /\ u # t /\ ProcOf[u] \in Proc
      BY <1>5 DEF SnapshotInv, SeenHangs
    <3>2. PICK k, j \in DOMAIN snapshots[ProcOf[u]] :
             /\ k <= j
             /\ snapshots[ProcOf[u]][k].thread = u
             /\ r \in snapshots[ProcOf[u]][j].deferred
      BY DEF SnapshotInv, SeenHangs
    <3>3. CASE ProcOf[u] # p
      BY <1>4, <3>1, <3>2, <3>3
    <3>4. CASE ProcOf[u] = p
      <4>1. /\ k \in DOMAIN s /\ s[k].thread = u /\ s[i].thread = t /\ i \in DOMAIN s
            /\ j \in DOMAIN s /\ r \in s[j].deferred /\ k # i
            /\ k \in Nat /\ j \in Nat /\ i \in Nat
        BY <1>1, <1>3, <3>1, <3>2, <3>4 DEF s
      <4> SUFFICES \E k1, j1 \in DOMAIN w : k1 <= j1 /\ w[k1].thread = u /\ r \in w[j1].deferred
        BY <1>4, <3>1, <3>4
      <4>2. CASE j < i
        <5>1. k < i
          BY <3>2, <4>1, <4>2
        <5>2. QED
          BY <1>3, <3>2, <4>1, <4>2, <5>1
      <4>3. CASE j = i
        <5>1. k < i /\ i > 1 /\ i - 1 \in DOMAIN w /\ k <= i - 1
          <6>1. k < i
            BY <3>2, <4>1, <4>3
          <6>2. i - 1 \in DOMAIN s /\ i - 1 < i
            BY <1>2, <4>1, <6>1 DEF s
          <6>3. QED
            BY <1>3, <4>1, <6>1, <6>2
        <5>2. r \in w[i - 1].deferred /\ k \in DOMAIN w /\ w[k].thread = u
          BY <1>3, <4>1, <4>3, <5>1
        <5>3. QED
          BY <5>1, <5>2
      <4>4. CASE j > i /\ k < i
        <5>1. k \in DOMAIN w /\ w[k].thread = u /\ j - 1 \in DOMAIN w /\ r \in w[j - 1].deferred
          BY <1>3, <4>1, <4>4
        <5>2. k <= j - 1
          BY <4>1, <4>4
        <5>3. QED
          BY <5>1, <5>2
      <4>5. CASE j > i /\ k > i
        <5>1. /\ k - 1 \in DOMAIN w /\ w[k - 1].thread = u
              /\ j - 1 \in DOMAIN w /\ r \in w[j - 1].deferred
          BY <1>3, <4>1, <4>5
        <5>2. k - 1 <= j - 1
          BY <3>2, <4>1
        <5>3. QED
          BY <5>1, <5>2
      <4>6. QED
        BY <4>1, <4>2, <4>3, <4>4, <4>5
    <3>5. QED
      BY <3>3, <3>4
  <2>2. QED
    BY <1>5, <2>1 DEF SeenHangs, Early
<1>9. QED
  BY <1>6, <1>7, <1>8 DEF SnapshotInv

\* The end of ClearRange() keeps it: the new vector hangs on the newest snapshot.
LEMMA DeferKeepsSnapshots ==
    ASSUME SnapshotInv, NEW t \in Thread, Defer(t)
    PROVE  SnapshotInv'
<1> DEFINE p == ProcOf[t]
           free == {r \in ReleaseId : ~Alive(r)}
           new == CHOOSE x \in free : \A y \in free : x <= y
           n == Len(snapshots[p])
           w == Hang(snapshots[p], new)
<1> USE SnapshotAssumption
<1>1. new \in ReleaseId
  <2>1. free \in SUBSET Nat /\ free # {} /\ free \subseteq ReleaseId
    BY DEF Defer, ReleaseId
  <2> HIDE DEF free
  <2>2. QED
    BY <2>1, NatMin
<1>2. /\ snapshots' = [snapshots EXCEPT ![p] = w]
      /\ discard' = [discard EXCEPT ![t] = new]
      /\ seen' = [seen EXCEPT ![new] = {u \in running : ProcOf[u] = p}]
      /\ between' = [between EXCEPT ![new] = {}]
      /\ UNCHANGED <<running, leaving>>
  BY DEF Defer
<1> HIDE DEF new, free
<1>3. p \in Proc /\ snapshots \in [Proc -> Seq(Snapshot)] /\ snapshots[p] \in Seq(Snapshot)
  BY DEF SnapshotInv, SnapshotTypeOK
<1>4. /\ snapshots' \in [Proc -> Seq(Snapshot)]
      /\ \A q \in Proc : DOMAIN snapshots'[q] = DOMAIN snapshots[q]
      /\ \A q \in Proc : \A i \in DOMAIN snapshots[q] :
            /\ snapshots'[q][i].thread = snapshots[q][i].thread
            /\ snapshots[q][i].deferred \subseteq snapshots'[q][i].deferred
      /\ n # 0 => n \in DOMAIN snapshots[p] /\ new \in snapshots'[p][n].deferred
  <2>1. /\ w \in Seq(Snapshot) /\ DOMAIN w = DOMAIN snapshots[p]
        /\ \A i \in DOMAIN w : /\ w[i].thread = snapshots[p][i].thread
                               /\ snapshots[p][i].deferred \subseteq w[i].deferred
        /\ n # 0 => n \in DOMAIN snapshots[p] /\ new \in w[n].deferred
    <3>1. CASE snapshots[p] = <<>>
      BY <1>3, <3>1 DEF Hang
    <3>2. CASE snapshots[p] # <<>>
      <4>1. n \in 1 .. Len(snapshots[p]) /\ DOMAIN snapshots[p] = 1 .. Len(snapshots[p])
        BY <1>3, <3>2
      <4>2. snapshots[p][n] \in [thread : Thread, deferred : SUBSET ReleaseId]
        <5>1. snapshots[p][n] \in Snapshot
          BY <1>3, <4>1
        <5>2. QED
          BY <5>1 DEF Snapshot
      <4> DEFINE e == [snapshots[p][n] EXCEPT !.deferred = @ \cup {new}]
      <4>3. /\ e \in Snapshot /\ e.thread = snapshots[p][n].thread
            /\ e.deferred = snapshots[p][n].deferred \cup {new}
        BY <1>1, <4>2 DEF Snapshot
      <4>4. w = [snapshots[p] EXCEPT ![n] = e]
        BY <1>3, <3>2 DEF Hang
      <4> HIDE DEF e, w
      <4>5. /\ w \in Seq(Snapshot) /\ DOMAIN w = DOMAIN snapshots[p] /\ w[n] = e
            /\ \A i \in DOMAIN snapshots[p] : i # n => w[i] = snapshots[p][i]
        BY <1>3, <4>1, <4>3, <4>4
      <4>6. QED
        BY <4>1, <4>3, <4>5
    <3>3. QED
      BY <3>1, <3>2
  <2> HIDE DEF w
  <2>2. /\ snapshots' \in [Proc -> Seq(Snapshot)] /\ snapshots'[p] = w
        /\ \A q \in Proc : q # p => snapshots'[q] = snapshots[q]
    BY <1>2, <1>3, <2>1
  <2>3. QED
    BY <2>1, <2>2
<1> HIDE DEF n, p, w
<1>5. SnapshotTypeOK' /\ RunsApart'
  BY <1>1, <1>2, <1>4 DEF SnapshotInv, SnapshotTypeOK, RunsApart
<1>6. RunHasSnapshot'
  <2>1. ASSUME NEW u \in running \cup leaving
        PROVE  \E i \in DOMAIN snapshots'[ProcOf[u]] : snapshots'[ProcOf[u]][i].thread = u
    <3>1. ProcOf[u] \in Proc
      BY DEF SnapshotInv, SnapshotTypeOK
    <3>2. PICK i \in DOMAIN snapshots[ProcOf[u]] : snapshots[ProcOf[u]][i].thread = u
      BY DEF SnapshotInv, RunHasSnapshot
    <3>3. QED
      BY <1>4, <3>1, <3>2
  <2>2. QED
    BY <1>2, <2>1 DEF RunHasSnapshot
<1>7. SeenHangs'
  <2>1. ASSUME NEW r \in ReleaseId, NEW u \in Early(r)'
        PROVE  /\ u \in running
               /\ \E k, j \in DOMAIN snapshots'[ProcOf[u]] :
                    /\ k <= j
                    /\ snapshots'[ProcOf[u]][k].thread = u
                    /\ r \in snapshots'[ProcOf[u]][j].deferred
    <3>1. CASE r = new
      <4>1. u \in running /\ ProcOf[u] = p
        BY <1>2, <3>1 DEF SnapshotInv, SnapshotTypeOK, Early
      <4>2. PICK k \in DOMAIN snapshots[p] : snapshots[p][k].thread = u
        BY <4>1 DEF SnapshotInv, RunHasSnapshot
      <4>3. n # 0 /\ k <= n
        BY <1>3, <4>2 DEF n
      <4>4. QED
        BY <1>3, <1>4, <3>1, <4>1, <4>2, <4>3
    <3>2. CASE r # new
      <4>1. u \in Early(r)
        BY <1>2, <3>2 DEF SnapshotInv, SnapshotTypeOK, Early
      <4>2. u \in running /\ ProcOf[u] \in Proc
        BY <4>1 DEF SnapshotInv, SeenHangs, SnapshotTypeOK
      <4>3. PICK k, j \in DOMAIN snapshots[ProcOf[u]] :
               /\ k <= j
               /\ snapshots[ProcOf[u]][k].thread = u
               /\ r \in snapshots[ProcOf[u]][j].deferred
        BY <4>1 DEF SnapshotInv, SeenHangs
      <4>4. QED
        BY <1>4, <4>2, <4>3
    <3>3. QED
      BY <3>1, <3>2
  <2>2. running' = running
    BY <1>2
  <2>3. QED
    BY <2>1, <2>2 DEF SeenHangs
<1>8. QED
  BY <1>5, <1>6, <1>7 DEF SnapshotInv

\* A caller that lets go of its own reference to a vector keeps it.
LEMMA DropKeepsSnapshots ==
    ASSUME SnapshotInv, NEW t \in Thread, DropDiscard(t) \/ UNCHANGED snapshotVars
    PROVE  SnapshotInv'
<1>1. UNCHANGED <<running, leaving, snapshots, seen, between>>
  BY DEF DropDiscard, snapshotVars
<1>2. discard' \in [Thread -> {0} \cup ReleaseId]
  BY DEF DropDiscard, snapshotVars, SnapshotInv, SnapshotTypeOK
<1>3. SnapshotTypeOK' /\ RunsApart'
  BY <1>1, <1>2 DEF SnapshotInv, SnapshotTypeOK, RunsApart
<1>4. RunHasSnapshot'
  BY <1>1 DEF SnapshotInv, RunHasSnapshot
<1>5. SeenHangs'
  BY <1>1 DEF SnapshotInv, SeenHangs, Early
<1>6. QED
  BY <1>3, <1>4, <1>5 DEF SnapshotInv

\* Every step keeps the invariant of the snapshots.
LEMMA SnapshotStep ==
    ASSUME SnapshotInv, [Next]_vars
    PROVE  SnapshotInv'
<1>1. ASSUME NEW t \in Thread, Enter(t)
      PROVE  SnapshotInv'
  BY <1>1, TakeKeepsSnapshots DEF Enter
<1>2. ASSUME NEW t \in Thread, Leave(t)
      PROVE  SnapshotInv'
  BY <1>2, LeaveKeepsSnapshots DEF Leave
<1>3. ASSUME NEW t \in Thread, ReleaseRun(t)
      PROVE  SnapshotInv'
  BY <1>3, ReleaseKeepsSnapshots DEF ReleaseRun
<1>4. ASSUME NEW t \in Thread, User(t)
      PROVE  SnapshotInv'
  <2>1. Defer(t) \/ UNCHANGED snapshotVars
    BY <1>4 DEF User, Touch, Read, ClearRange, Map
  <2>2. QED
    BY <2>1, DeferKeepsSnapshots, DropKeepsSnapshots
<1>5. ASSUME NEW t \in Thread, Kernel(t)
      PROVE  SnapshotInv'
  <2>1. DropDiscard(t) \/ UNCHANGED snapshotVars
    BY <1>5 DEF Kernel, DisableRange, SyncFault, QueueFault, ReadCheck, ReadSync, QueueRead
  <2>2. QED
    BY <2>1, DropKeepsSnapshots
<1>6. CASE Pf \/ UNCHANGED vars
  <2>1. UNCHANGED snapshotVars
    BY <1>6 DEF Pf, PfAcquire, PfTake, PfResolve, PfLoad, PfRelock, PfUnlist, PfDone,
                PfThread, PfCallback, PfRead, vars
  <2>2. UNCHANGED snapshotVars => SnapshotInv'
    BY DEF SnapshotInv, SnapshotTypeOK, RunsApart, RunHasSnapshot, SeenHangs, Early, snapshotVars
  <2>3. QED
    BY <2>1, <2>2
<1>7. QED
  BY <1>1, <1>2, <1>3, <1>4, <1>5, <1>6 DEF Next

\* The invariant of the snapshots holds in every state.
THEOREM SnapshotInvariant == Spec => []SnapshotInv
<1>1. Init => SnapshotInv
  BY DEF Init, SnapshotInit, SnapshotInv, SnapshotTypeOK, RunsApart, RunHasSnapshot, SeenHangs,
         Early
<1>2. SnapshotInv /\ [Next]_vars => SnapshotInv'
  BY SnapshotStep
<1>3. QED
  BY <1>1, <1>2, PTL DEF Spec

\* The pages that ClearRange() has put aside stay allocated as long as a run goes
\* on that was there before, in whatever order the snapshots of the runs are
\* released.  Runs that began before DisableRange() but after ClearRange() are the
\* exception that ReleaseProtected names.
THEOREM ReleaseProtectedHolds == Spec => []ReleaseProtected
<1>1. SnapshotInv => ReleaseProtected
  <2> SUFFICES ASSUME SnapshotInv, NEW r \in ReleaseId, NEW t \in Early(r)
               PROVE  Alive(r)
    BY DEF ReleaseProtected, Early
  <2>1. PICK i, j \in DOMAIN snapshots[ProcOf[t]] : r \in snapshots[ProcOf[t]][j].deferred
    BY DEF SnapshotInv, SeenHangs
  <2>2. ProcOf[t] \in Proc
    BY SnapshotAssumption DEF SnapshotInv, SnapshotTypeOK, Early
  <2>3. QED
    BY <2>1, <2>2 DEF Alive
<1>2. QED
  BY <1>1, SnapshotInvariant, PTL

-----------------------------------------------------------------------------
(* What the operations on mappings return *)

\* The first page of a mapping is one of its pages.
LEMMA FirstType ==
    ASSUME NEW m \in Mapping
    PROVE  First(m) \in Page /\ First(m) \in m.pages
<1>1. m.pages \in SUBSET Nat /\ m.pages # {} /\ m.pages \subseteq Page
  BY PageFaultAssumption DEF Mapping, PageRange, Page
<1>2. QED
  BY <1>1, NatMin DEF First

\* A fresh mapping identity is free, whenever one is left.
LEMMA NewIdType ==
    ASSUME NEW p \in Proc, FreeIds(p) # {}
    PROVE  NewId(p) \in FreeIds(p) /\ NewId(p) \in MapId
<1>1. FreeIds(p) \in SUBSET Nat /\ FreeIds(p) \subseteq MapId
  BY DEF FreeIds, MapId
<1>2. NewId(p) \in FreeIds(p)
  BY <1>1, NatMin DEF NewId
<1>3. QED
  BY <1>1, <1>2

\* Entering a page into a mapping keeps the types of the map and of the page table.
LEMMA MapPageType ==
    ASSUME TypeOK, NEW p \in Proc, NEW g \in Page, MapPage(p, g)
    PROVE  maps' \in [Proc -> SUBSET Mapping] /\ present' \in [Proc -> SUBSET Page]
<1>1. ASSUME NEW m \in Mapping
      PROVE  WithEntry(m, g) \in Mapping
  BY <1>1 DEF WithEntry, Mapping
<1>2. QED
  BY <1>1 DEF MapPage, TypeOK

\* What ClearRange() leaves of a mapping is a mapping.
LEMMA RemainsType ==
    ASSUME NEW m \in Mapping, NEW lo \in Page, NEW hi \in Page, lo <= hi, NEW id \in MapId
    PROVE  Remains(m, lo .. hi, id) \subseteq Mapping
<1> DEFINE U == lo .. hi
           below == {g \in m.pages : \A u \in U : g < u}
           above == {g \in m.pages : \A u \in U : g > u}
<1>1. PICK a, b \in Page : m.pages = a .. b
  BY DEF Mapping, PageRange
<1>2. below = {} \/ below \in PageRange
  <2>1. below = {g \in a .. b : g < lo}
    BY <1>1 DEF Page
  <2>2. CASE b < lo
    <3>1. below = a .. b
      BY <1>1, <2>1, <2>2 DEF Page
    <3>2. QED
      BY <3>1 DEF PageRange
  <2>3. CASE ~(b < lo) /\ a < lo
    <3>1. lo - 1 \in Page
      BY <2>3, PageFaultAssumption DEF Page
    <3>2. \A g \in Int : g \in a .. b /\ g < lo <=> g \in a .. (lo - 1)
      BY <2>3, PageFaultAssumption DEF Page
    <3>3. below = a .. (lo - 1)
      BY <2>1, <3>2 DEF Page
    <3>4. QED
      BY <3>1, <3>3 DEF PageRange
  <2>4. CASE ~(a < lo)
    <3>1. below = {}
      BY <1>1, <2>1, <2>4 DEF Page
    <3>2. QED
      BY <3>1
  <2>5. QED
    BY <2>2, <2>3, <2>4
<1>3. above = {} \/ above \in PageRange
  <2>1. above = {g \in a .. b : g > hi}
    BY <1>1 DEF Page
  <2>2. CASE a > hi
    <3>1. above = a .. b
      BY <1>1, <2>1, <2>2 DEF Page
    <3>2. QED
      BY <3>1 DEF PageRange
  <2>3. CASE ~(a > hi) /\ b > hi
    <3>1. hi + 1 \in Page
      BY <2>3, PageFaultAssumption DEF Page
    <3>2. \A g \in Int : g \in a .. b /\ g > hi <=> g \in (hi + 1) .. b
      BY <2>3, PageFaultAssumption DEF Page
    <3>3. above = (hi + 1) .. b
      BY <2>1, <3>2 DEF Page
    <3>4. QED
      BY <3>1, <3>3 DEF PageRange
  <2>4. CASE ~(b > hi)
    <3>1. above = {}
      BY <1>1, <2>1, <2>4 DEF Page
    <3>2. QED
      BY <3>1
  <2>5. QED
    BY <2>2, <2>3, <2>4
<1> HIDE DEF U, below, above
<1>4. \A P \in PageRange : \A i \in MapId :
         [m EXCEPT !.pages = P, !.entries = @ \cap P, !.id = i] \in Mapping
  BY DEF Mapping
<1>5. m.id \in MapId
  BY DEF Mapping
<1>6. QED
  BY <1>2, <1>3, <1>4, <1>5 DEF Remains, U, below, above

(* Entries *)

\* The three things that Record() may do.
JoinsQueued(i, T, C) ==
    /\ faults' = [faults EXCEPT ![i] = Join(@, T, C)]
    /\ UNCHANGED <<permits, pfault>>
JoinsListed(T, C) ==
    /\ pfault' = <<Join(pfault[1], T, C)>>
    /\ UNCHANGED <<faults, permits>>
Queues(p, g, T, C) ==
    /\ faults' = Append(faults, [proc |-> p, page |-> g, threads |-> T, callbacks |-> C])
    /\ permits' = permits + 1
    /\ UNCHANGED pfault

\* Recording a fault does one of three things: it joins a queued entry of its page,
\* it joins the entry the fault thread works on, or it queues an entry of its own.
LEMMA RecordCases ==
    ASSUME NEW p, NEW g, NEW T, NEW C, Record(p, g, T, C)
    PROVE  \/ \E i \in DOMAIN faults : faults[i].page = g /\ JoinsQueued(i, T, C)
           \/ /\ \A i \in DOMAIN faults : faults[i].page # g
              /\ Listed /\ pfault[1].page = g /\ JoinsListed(T, C)
           \/ /\ \A i \in DOMAIN faults : faults[i].page # g
              /\ ~(Listed /\ pfault[1].page = g) /\ Queues(p, g, T, C)
<1> DEFINE queued == {i \in DOMAIN faults : faults[i].page = g}
<1>1. CASE queued # {}
  BY <1>1 DEF Record, JoinsQueued
<1>2. CASE queued = {} /\ Listed /\ pfault[1].page = g
  BY <1>2 DEF Record, JoinsListed, faultVars
<1>3. CASE queued = {} /\ ~(Listed /\ pfault[1].page = g)
  BY <1>3 DEF Record, Queues
<1>4. QED
  BY <1>1, <1>2, <1>3

\* Thread t is in exactly one entry, and nobody else came or went.
Recorded(t) ==
    /\ faults' \in Seq(Entry)
    /\ pfault' \in {<<>>} \cup {<<e>> : e \in Entry}
    /\ permits' \in Nat
    /\ pfault' = <<>> <=> pfault = <<>>
    /\ DOMAIN pfault' = DOMAIN pfault
    /\ DOMAIN faults \subseteq DOMAIN faults'
    /\ \A i \in DOMAIN faults : \A u \in Thread \ {t} :
          /\ u \in faults'[i].threads <=> u \in faults[i].threads
          /\ u \in faults'[i].callbacks <=> u \in faults[i].callbacks
    /\ \A i \in DOMAIN faults' : \A u \in Thread \ {t} :
          Holds(faults'[i], u) => i \in DOMAIN faults
    /\ \A i \in DOMAIN pfault : \A u \in Thread \ {t} :
          /\ u \in pfault'[i].threads <=> u \in pfault[i].threads
          /\ u \in pfault'[i].callbacks <=> u \in pfault[i].callbacks
    /\ \/ /\ \E i \in DOMAIN faults' :
                /\ Holds(faults'[i], t)
                /\ \A j \in DOMAIN faults' : Holds(faults'[j], t) => j = i
          /\ \A j \in DOMAIN pfault' : ~Holds(pfault'[j], t)
       \/ /\ \A i \in DOMAIN faults' : ~Holds(faults'[i], t)
          /\ \E j \in DOMAIN pfault' : Holds(pfault'[j], t)
    /\ \A i \in DOMAIN faults' : ~(t \in faults'[i].threads /\ t \in faults'[i].callbacks)
    /\ \A i \in DOMAIN pfault' : ~(t \in pfault'[i].threads /\ t \in pfault'[i].callbacks)

\* What Record() does to the entries for a thread t that is in none of them:
\* afterwards t is in exactly one, and the others have not changed.
LEMMA RecordFacts ==
    ASSUME TypeOK, Listed => pfault # <<>>,
           NEW t \in Thread, NEW p \in Proc, NEW g \in Page,
           NEW T \in SUBSET {t}, NEW C \in SUBSET {t}, T \cup C = {t}, T \cap C = {},
           Record(p, g, T, C),
           \A i \in DOMAIN faults : ~Holds(faults[i], t),
           \A i \in DOMAIN pfault : ~Holds(pfault[i], t)
    PROVE  Recorded(t)
<1>0. /\ faults \in Seq(Entry) /\ pfault \in {<<>>} \cup {<<e>> : e \in Entry} /\ permits \in Nat
      /\ T \in SUBSET Thread /\ C \in SUBSET Thread
      /\ \A i \in DOMAIN faults : faults[i] \in Entry
      /\ DOMAIN faults = 1 .. Len(faults) /\ Len(faults) \in Nat
  BY DEF TypeOK
<1>1. ASSUME NEW i \in DOMAIN faults, JoinsQueued(i, T, C)
      PROVE  /\ faults' \in Seq(Entry) /\ DOMAIN faults' = DOMAIN faults
             /\ faults'[i].threads = faults[i].threads \cup T
             /\ faults'[i].callbacks = faults[i].callbacks \cup C
             /\ \A j \in DOMAIN faults : j # i => faults'[j] = faults[j]
             /\ pfault' = pfault /\ permits' = permits
  <2> DEFINE e == Join(faults[i], T, C)
  <2>1. /\ e \in Entry /\ e.threads = faults[i].threads \cup T
        /\ e.callbacks = faults[i].callbacks \cup C
    <3>1. faults[i] \in Entry /\ T \in SUBSET Thread /\ C \in SUBSET Thread
      BY <1>0
    <3>2. QED
      BY <3>1 DEF Join, Entry
  <2> HIDE DEF e
  <2>2. faults' = [faults EXCEPT ![i] = e] /\ permits' = permits /\ pfault' = pfault
    BY <1>0, <1>1 DEF JoinsQueued, e
  <2>3. QED
    BY <1>0, <2>1, <2>2
<1>2. ASSUME pfault # <<>>, JoinsListed(T, C)
      PROVE  /\ pfault' \in {<<>>} \cup {<<e>> : e \in Entry} /\ pfault' # <<>>
             /\ DOMAIN pfault = {1} /\ DOMAIN pfault' = {1}
             /\ pfault'[1].threads = pfault[1].threads \cup T
             /\ pfault'[1].callbacks = pfault[1].callbacks \cup C
             /\ faults' = faults /\ permits' = permits
  <2>1. PICK e \in Entry : pfault = <<e>>
    BY <1>0, <1>2
  <2> DEFINE f == Join(e, T, C)
  <2>2. f \in Entry /\ f.threads = e.threads \cup T /\ f.callbacks = e.callbacks \cup C
    <3>1. T \in SUBSET Thread /\ C \in SUBSET Thread
      BY <1>0
    <3>2. QED
      BY <3>1 DEF Join, Entry
  <2> HIDE DEF f
  <2>3. pfault' = <<f>> /\ faults' = faults /\ permits' = permits
    BY <1>2, <2>1 DEF JoinsListed, f
  <2>4. QED
    BY <2>1, <2>2, <2>3
<1>3. ASSUME Queues(p, g, T, C)
      PROVE  /\ faults' \in Seq(Entry) /\ DOMAIN faults' = DOMAIN faults \cup {Len(faults) + 1}
             /\ faults'[Len(faults) + 1].threads = T
             /\ faults'[Len(faults) + 1].callbacks = C
             /\ \A j \in DOMAIN faults : faults'[j] = faults[j]
             /\ pfault' = pfault /\ permits' \in Nat
             /\ Len(faults) + 1 \notin DOMAIN faults
  <2> DEFINE e == [proc |-> p, page |-> g, threads |-> T, callbacks |-> C]
  <2>1. e \in Entry /\ e.threads = T /\ e.callbacks = C
    BY <1>0 DEF Entry
  <2> HIDE DEF e
  <2>2. faults' = Append(faults, e) /\ permits' = permits + 1 /\ pfault' = pfault
    BY <1>3 DEF Queues, e
  <2>3. QED
    BY <1>0, <2>1, <2>2
<1>4. CASE \E i \in DOMAIN faults : JoinsQueued(i, T, C)
  <2>1. PICK i \in DOMAIN faults : JoinsQueued(i, T, C)
    BY <1>4
  <2>2. /\ \A j \in DOMAIN faults : \A u \in Thread \ {t} :
              /\ u \in faults'[j].threads <=> u \in faults[j].threads
              /\ u \in faults'[j].callbacks <=> u \in faults[j].callbacks
        /\ \A j \in DOMAIN faults' : ~(t \in faults'[j].threads /\ t \in faults'[j].callbacks)
    BY <1>1, <2>1 DEF Holds
  <2>3. /\ Holds(faults'[i], t)
        /\ \A j \in DOMAIN faults' : Holds(faults'[j], t) => j = i
    BY <1>1, <2>1 DEF Holds
  <2>4. QED
    BY <1>0, <1>1, <2>1, <2>2, <2>3 DEF Recorded, Holds
<1>5. CASE pfault # <<>> /\ JoinsListed(T, C)
  BY <1>0, <1>2, <1>5 DEF Recorded, Holds
<1>6. CASE Queues(p, g, T, C)
  BY <1>0, <1>3, <1>6 DEF Recorded, Holds
<1>7. QED
  BY <1>4, <1>5, <1>6, RecordCases

-----------------------------------------------------------------------------
(* Who refers to a thread *)

\* A step of a thread that does not wait before or after it, and of nobody else.
LEMMA QuietStep ==
    ASSUME HeldInv, TypeOK', UNCHANGED <<resume, faults, pfault, pfAt, pfMap, pfCall>>,
           NEW t \in Thread, st[t] # "wait", st'[t] # "wait",
           \A u \in Thread \ {t} : st'[u] = st[u] /\ page'[u] = page[u],
           st'[t] \in {"trap", "fault", "check", "sync", "call"} => page'[t] \in Page
    PROVE  HeldInv'
<1>1. PfShape' /\ PageShape'
  BY DEF HeldInv, PfShape, PageShape
<1>2. HeldWaits' /\ WaitHeld'
  BY DEF HeldInv, HeldWaits, WaitHeld
<1>3. HeldOnce'
  BY DEF HeldInv, HeldOnce
<1>4. EntriesApart'
  BY DEF HeldInv, EntriesApart
<1>5. QED
  BY <1>1, <1>2, <1>3, <1>4 DEF HeldInv

\* A step that changes nothing of all this.
LEMMA NoHeldStep ==
    ASSUME HeldInv, TypeOK', UNCHANGED <<resume, faults, pfault, pfAt, pfMap, pfCall, st, page>>
    PROVE  HeldInv'
<1>1. PfShape' /\ PageShape'
  BY DEF HeldInv, PfShape, PageShape
<1>2. HeldWaits' /\ WaitHeld'
  BY DEF HeldInv, HeldWaits, WaitHeld
<1>3. HeldOnce'
  BY DEF HeldInv, HeldOnce
<1>4. EntriesApart'
  BY DEF HeldInv, EntriesApart
<1>5. QED
  BY <1>1, <1>2, <1>3, <1>4 DEF HeldInv

\* A thread getting on a processor, and the release of its snapshot, keep every
\* faulting thread held in exactly one place.
LEMMA EnterHeld ==
    ASSUME HeldInv, SnapshotInv', NEW t \in Thread, Enter(t) \/ ReleaseRun(t)
    PROVE  HeldInv'
<1>1. UNCHANGED <<pageVars, faultVars, pfVars, clean>>
  BY DEF Enter, ReleaseRun
<1>2. TypeOK'
  BY <1>1 DEF HeldInv, TypeOK, SnapshotInv, pageVars, faultVars, pfVars
<1>3. QED
  BY <1>1, <1>2, NoHeldStep DEF pageVars, faultVars, pfVars

\* A fault taken in user mode leaves its thread held in exactly one place.
LEMMA UserHeld ==
    ASSUME HeldInv, SnapshotInv', NEW t \in Thread, User(t)
    PROVE  HeldInv'
<1> USE PageFaultAssumption, SnapshotAssumption
<1>1. PICK r \in Ops[t] :
        \/ r.op = "touch" /\ Touch(t, r.lo)
        \/ r.op = "read" /\ Read(t, r.lo, r.hi)
        \/ r.op = "unmap" /\ ClearRange(t, r.lo .. r.hi)
        \/ r.op \in Kind /\ Map(t, r.lo .. r.hi, r.op)
  BY DEF User
<1>2. /\ r.lo \in Page /\ r.hi \in Page /\ r.lo <= r.hi
      /\ ProcOf[t] \in Proc
      /\ r.lo .. r.hi \in PageRange
  <2>1. r.lo \in Page /\ r.hi \in Page /\ r.lo <= r.hi
    BY DEF Page
  <2>2. r.lo .. r.hi # {}
    BY <2>1 DEF Page
  <2>3. QED
    BY <2>1, <2>2 DEF PageRange
<1>3. Begin(t) => calls' \in 0 .. MaxCalls /\ st[t] = "user"
  BY DEF Begin, HeldInv, TypeOK
<1>4. CASE Touch(t, r.lo)
  <2>1. TypeOK'
    BY <1>2, <1>3, <1>4 DEF Touch, HeldInv, TypeOK, SnapshotInv, faultVars, pfVars
  <2>2. QED
    BY <1>2, <1>3, <1>4, <2>1, QuietStep DEF Touch, HeldInv, TypeOK, faultVars, pfVars
<1>5. CASE Read(t, r.lo, r.hi)
  <2>1. TypeOK'
    BY <1>2, <1>3, <1>5 DEF Read, HeldInv, TypeOK, SnapshotInv, faultVars, pfVars
  <2>2. QED
    BY <1>2, <1>3, <1>5, <2>1, QuietStep DEF Read, HeldInv, TypeOK, faultVars, pfVars
<1>6. CASE ClearRange(t, r.lo .. r.hi)
  <2>1. maps' \in [Proc -> SUBSET Mapping]
    <3>1. NewId(ProcOf[t]) \in MapId
      BY <1>2, <1>6, NewIdType DEF ClearRange
    <3>2. \A m \in Mapping : Remains(m, r.lo .. r.hi, NewId(ProcOf[t])) \subseteq Mapping
      BY <1>2, <3>1, RemainsType
    <3>3. UNION {Remains(m, r.lo .. r.hi, NewId(ProcOf[t])) : m \in maps[ProcOf[t]]} \subseteq Mapping
      BY <1>2, <3>2 DEF HeldInv, TypeOK
    <3>4. QED
      BY <1>2, <1>6, <3>3 DEF ClearRange, HeldInv, TypeOK
  <2>2. TypeOK'
    BY <1>2, <1>3, <1>6, <2>1 DEF ClearRange, HeldInv, TypeOK, SnapshotInv, faultVars, pfVars
  <2>3. QED
    BY <1>2, <1>3, <1>6, <2>2, QuietStep DEF ClearRange, HeldInv, TypeOK, faultVars, pfVars
<1>7. CASE r.op \in Kind /\ Map(t, r.lo .. r.hi, r.op)
  <2>1. maps' \in [Proc -> SUBSET Mapping]
    <3>1. NewId(ProcOf[t]) \in MapId
      BY <1>2, <1>7, NewIdType DEF Map
    <3>2. [id |-> NewId(ProcOf[t]), pages |-> r.lo .. r.hi, kind |-> r.op, entries |-> {}] \in Mapping
      BY <1>2, <1>7, <3>1 DEF Mapping
    <3>3. QED
      BY <1>2, <1>7, <3>2 DEF Map, HeldInv, TypeOK
  <2>2. TypeOK'
    BY <1>2, <1>3, <1>7, <2>1 DEF Map, HeldInv, TypeOK, SnapshotInv, faultVars, pfVars
  <2>3. QED
    BY <1>2, <1>3, <1>7, <2>2, QuietStep DEF Map, HeldInv, TypeOK, faultVars, pfVars
<1>8. QED
  BY <1>1, <1>4, <1>5, <1>6, <1>7

\* A thread that leaves its processor, and goes on if its answer has come.
LEMMA LeaveHeld ==
    ASSUME HeldInv, SnapshotInv', NEW t \in Thread, Leave(t)
    PROVE  HeldInv'
<1>0. /\ UNCHANGED <<faults, pfault, pfAt, pfMap, pfCall>>
      /\ resume' = resume \ {t}
      /\ t \in resume => st' = [st EXCEPT ![t] = "user"] /\ page' = [page EXCEPT ![t] = 0]
      /\ t \notin resume => st' = st /\ page' = page
      /\ st \in [Thread -> {"user", "trap", "fault", "check", "sync", "call", "clear",
                            "wait", "dead"}]
      /\ page \in [Thread -> {0} \cup Page]
  BY DEF Leave, HeldInv, TypeOK, faultVars, pfVars
<1>1. TypeOK'
  <2>1. last' \in [Thread -> {0} \cup Page]
    BY DEF Leave, HeldInv, TypeOK
  <2>2. QED
    BY <1>0, <2>1 DEF Leave, HeldInv, TypeOK, SnapshotInv, faultVars, pfVars
<1>2. PfShape' /\ PageShape'
  BY <1>0 DEF HeldInv, PfShape, PageShape
<1>3. HeldWaits'
  BY <1>0 DEF HeldInv, HeldWaits, HeldOnce
<1>4. HeldOnce'
  BY <1>0 DEF HeldInv, HeldOnce
<1>5. EntriesApart'
  BY <1>0 DEF HeldInv, EntriesApart
<1>6. WaitHeld'
  BY <1>0 DEF HeldInv, WaitHeld
<1>7. QED
  BY <1>1, <1>2, <1>3, <1>4, <1>5, <1>6 DEF HeldInv

\* The two calls that record a fault: t is in one entry afterwards.
LEMMA QueueHeld ==
    ASSUME HeldInv, SnapshotInv', NEW t \in Thread, QueueFault(t) \/ QueueRead(t)
    PROVE  HeldInv'
<1> USE SnapshotAssumption
<1>0. PICK T, C \in SUBSET {t} :
        /\ T \cup C = {t} /\ T \cap C = {}
        /\ Record(ProcOf[t], page[t], T, C)
  BY DEF QueueFault, QueueRead
<1>1. /\ st[t] \in {"fault", "call"} /\ st' = [st EXCEPT ![t] = "wait"]
      /\ pfAt' = IF pfAt = "none" THEN "acquire" ELSE pfAt
      /\ UNCHANGED <<maps, present, page, last, range, resume, calls, pfMap, pfOk, pfCall, clean>>
      /\ page[t] \in Page /\ ProcOf[t] \in Proc
      /\ st \in [Thread -> {"user", "trap", "fault", "check", "sync", "call", "clear",
                            "wait", "dead"}]
  BY DEF QueueFault, QueueRead, HeldInv, TypeOK, PageShape
<1>2. /\ \A i \in DOMAIN faults : ~Holds(faults[i], t)
      /\ \A i \in DOMAIN pfault : ~Holds(pfault[i], t)
      /\ t \notin pfCall /\ t \notin resume
  BY <1>1 DEF HeldInv, HeldWaits
<1>3. Listed => pfault # <<>>
  BY DEF HeldInv, PfShape, Listed
<1>4. Recorded(t)
  BY <1>0, <1>1, <1>2, <1>3, RecordFacts DEF HeldInv
<1>5. TypeOK'
  BY <1>1, <1>4 DEF Recorded, HeldInv, TypeOK, SnapshotInv
<1>6. PfShape' /\ PageShape'
  BY <1>1, <1>4 DEF Recorded, HeldInv, PfShape, PageShape
<1>7. /\ \A i \in DOMAIN faults' : \A u \in Thread \ {t} :
            Holds(faults'[i], u) <=> i \in DOMAIN faults /\ Holds(faults[i], u)
      /\ \A i \in DOMAIN pfault : \A u \in Thread \ {t} : Holds(pfault'[i], u) <=> Holds(pfault[i], u)
  BY <1>4 DEF Recorded, Holds
<1>8. HeldWaits'
  BY <1>1, <1>4, <1>7 DEF Recorded, HeldInv, HeldWaits
<1>9. WaitHeld'
  BY <1>1, <1>4, <1>7 DEF Recorded, HeldInv, WaitHeld
<1>10. HeldOnce'
  BY <1>1, <1>2, <1>4, <1>7 DEF Recorded, HeldInv, HeldOnce
<1>11. EntriesApart'
  BY <1>4 DEF Recorded, HeldInv, EntriesApart, Holds
<1>12. QED
  BY <1>5, <1>6, <1>8, <1>9, <1>10, <1>11 DEF HeldInv

\* So do the system calls, in each of their steps.
LEMMA KernelHeld ==
    ASSUME HeldInv, SnapshotInv', NEW t \in Thread, Kernel(t)
    PROVE  HeldInv'
<1> USE SnapshotAssumption, PageFaultAssumption
<1>1. CASE DisableRange(t)
  <2>1. TypeOK'
    BY <1>1 DEF DisableRange, HeldInv, TypeOK, SnapshotInv, faultVars, pfVars
  <2>2. QED
    BY <1>1, <2>1, QuietStep DEF DisableRange, HeldInv, TypeOK, faultVars, pfVars
<1>2. CASE SyncFault(t)
  <2>1. st[t] = "trap" /\ page[t] \in Page /\ ProcOf[t] \in Proc
    BY <1>2 DEF SyncFault, HeldInv, TypeOK, PageShape
  <2>2. maps' \in [Proc -> SUBSET Mapping] /\ present' \in [Proc -> SUBSET Page]
    <3>1. CASE MapPage(ProcOf[t], page[t])
      BY <2>1, <3>1, MapPageType DEF HeldInv
    <3>2. CASE UNCHANGED <<maps, present>>
      BY <3>2 DEF HeldInv, TypeOK
    <3>3. QED
      BY <1>2, <3>1, <3>2 DEF SyncFault
  <2>3. TypeOK'
    BY <1>2, <2>2 DEF SyncFault, HeldInv, TypeOK, SnapshotInv, faultVars, pfVars
  <2>4. /\ UNCHANGED <<resume, faults, pfault, pfAt, pfMap, pfCall>>
        /\ st'[t] \in {"user", "fault"} /\ (st'[t] = "fault" => page'[t] = page[t])
        /\ \A u \in Thread \ {t} : st'[u] = st[u] /\ page'[u] = page[u]
    BY <1>2, <2>1 DEF SyncFault, HeldInv, TypeOK, faultVars, pfVars
  <2>5. QED
    BY <2>1, <2>3, <2>4, QuietStep
<1>3. ASSUME NextPage(t), st[t] \in {"check", "sync"}
      PROVE  /\ page' \in [Thread -> {0} \cup Page] /\ last' \in [Thread -> {0} \cup Page]
             /\ st' \in [Thread -> {"user", "trap", "fault", "check", "sync", "call", "clear",
                                    "wait", "dead"}]
             /\ clean' \in SUBSET Thread
             /\ st'[t] # "wait" /\ \A u \in Thread \ {t} : st'[u] = st[u] /\ page'[u] = page[u]
             /\ st'[t] \in {"trap", "fault", "check", "sync", "call"} => page'[t] \in Page
  <2>1. page[t] \in Page /\ last[t] \in {0} \cup Page
    BY <1>3 DEF HeldInv, TypeOK, PageShape
  <2>2. page[t] < last[t] => page[t] + 1 \in Page
    BY <2>1 DEF Page
  <2>3. QED
    BY <1>3, <2>1, <2>2 DEF NextPage, HeldInv, TypeOK
<1>4. CASE ReadCheck(t)
  <2>1. CASE NextPage(t)
    <3>1. TypeOK'
      BY <1>3, <1>4, <2>1 DEF ReadCheck, HeldInv, TypeOK, SnapshotInv, faultVars, pfVars
    <3>2. QED
      BY <1>3, <1>4, <2>1, <3>1, QuietStep DEF ReadCheck, faultVars, pfVars
  <2>2. CASE st' = [st EXCEPT ![t] = "sync"] /\ UNCHANGED <<page, last, clean>>
    <3>1. TypeOK'
      BY <1>4, <2>2 DEF ReadCheck, HeldInv, TypeOK, SnapshotInv, faultVars, pfVars
    <3>2. QED
      BY <1>4, <2>2, <3>1, QuietStep DEF ReadCheck, HeldInv, TypeOK, PageShape, faultVars, pfVars
  <2>3. QED
    BY <1>4, <2>1, <2>2 DEF ReadCheck
<1>5. CASE ReadSync(t)
  <2>1. st[t] = "sync" /\ page[t] \in Page /\ ProcOf[t] \in Proc
    BY <1>5 DEF ReadSync, HeldInv, TypeOK, PageShape
  <2>2. CASE MapPage(ProcOf[t], page[t]) /\ NextPage(t)
    <3>1. maps' \in [Proc -> SUBSET Mapping] /\ present' \in [Proc -> SUBSET Page]
      BY <2>1, <2>2, MapPageType DEF HeldInv
    <3>2. TypeOK'
      BY <1>3, <1>5, <2>2, <3>1 DEF ReadSync, HeldInv, TypeOK, SnapshotInv, faultVars, pfVars
    <3>3. QED
      BY <1>3, <1>5, <2>2, <3>2, QuietStep DEF ReadSync, faultVars, pfVars
  <2>3. CASE st' = [st EXCEPT ![t] = "call"] /\ UNCHANGED <<maps, present, page, last, clean>>
    <3>1. TypeOK'
      BY <1>5, <2>3 DEF ReadSync, HeldInv, TypeOK, SnapshotInv, faultVars, pfVars
    <3>2. QED
      BY <1>5, <2>1, <2>3, <3>1, QuietStep DEF ReadSync, HeldInv, TypeOK, faultVars, pfVars
  <2>4. QED
    BY <1>5, <2>2, <2>3 DEF ReadSync
<1>6. QED
  BY <1>1, <1>2, <1>4, <1>5, QueueHeld DEF Kernel

\* The [pfault] thread takes an entry and resolves it: who refers to whom changes
\* only in that the entry is another one.
LEMMA PfResolveHeld ==
    ASSUME HeldInv, SnapshotInv',
           PfAcquire \/ PfTake \/ PfResolve \/ PfLoad \/ PfRelock \/ PfUnlist \/ PfDone
    PROVE  HeldInv'
<1> USE SnapshotAssumption, PageFaultAssumption
<1>0. pfOk' \in BOOLEAN
  BY DEF HeldInv, TypeOK, PfAcquire, PfTake, PfResolve, PfLoad, PfRelock, PfUnlist, PfDone
<1>1. ASSUME TypeOK', PfShape', UNCHANGED <<st, page, resume, faults, pfault, pfCall>>
      PROVE  HeldInv'
  <2>1. PageShape' /\ HeldWaits' /\ WaitHeld'
    BY <1>1 DEF HeldInv, PageShape, HeldWaits, WaitHeld
  <2>2. HeldOnce'
    BY <1>1 DEF HeldInv, HeldOnce
  <2>3. EntriesApart'
    BY <1>1 DEF HeldInv, EntriesApart
  <2>4. QED
    BY <1>1, <2>1, <2>2, <2>3 DEF HeldInv
<1>2. CASE PfAcquire
  <2>1. TypeOK' /\ PfShape'
    BY <1>0, <1>2 DEF PfAcquire, HeldInv, TypeOK, PfShape, SnapshotInv, pageVars
  <2>2. QED
    BY <1>1, <1>2, <2>1 DEF PfAcquire, pageVars
<1>3. CASE PfTake /\ faults = <<>>
  <2>1. TypeOK' /\ PfShape'
    BY <1>0, <1>3 DEF PfTake, HeldInv, TypeOK, PfShape, SnapshotInv, pageVars
  <2>2. QED
    BY <1>1, <1>3, <2>1 DEF PfTake, pageVars
<1>4. CASE PfTake /\ faults # <<>>
  <2>1. /\ pfault = <<>> /\ pfAt = "take"
        /\ pfault' = <<Head(faults)>> /\ faults' = Tail(faults) /\ pfAt' = "resolve"
        /\ UNCHANGED <<maps, present, st, page, last, range, resume, calls, permits,
                       pfMap, pfOk, pfCall, clean>>
        /\ faults \in Seq(Entry)
    BY <1>4 DEF PfTake, HeldInv, TypeOK, PfShape, pageVars
  <2>2. /\ DOMAIN faults = 1 .. Len(faults) /\ Len(faults) \in Nat \ {0}
        /\ pfault'[1] = faults[1] /\ DOMAIN pfault' = {1} /\ faults[1] \in Entry
        /\ faults' \in Seq(Entry) /\ DOMAIN faults' = 1 .. (Len(faults) - 1)
        /\ \A i \in DOMAIN faults' : faults'[i] = faults[i + 1] /\ i + 1 \in DOMAIN faults
        /\ \A i \in DOMAIN faults : i = 1 \/ (i - 1 \in DOMAIN faults' /\ faults'[i - 1] = faults[i])
    BY <1>4, <2>1
  <2>3. TypeOK' /\ PfShape' /\ PageShape'
    BY <2>1, <2>2 DEF HeldInv, TypeOK, PfShape, PageShape, SnapshotInv
  <2>4. HeldWaits'
    BY <2>1, <2>2 DEF HeldInv, HeldWaits
  <2>5. WaitHeld'
    <3>1. ASSUME NEW t \in Thread, st[t] = "wait"
          PROVE  \/ \E i \in DOMAIN faults' : Holds(faults'[i], t)
                 \/ Holds(pfault'[1], t)
                 \/ t \in pfCall \/ t \in resume
      <4>1. CASE \E i \in DOMAIN faults : Holds(faults[i], t)
        BY <2>2, <4>1
      <4>2. CASE t \in pfCall \/ t \in resume
        BY <4>2
      <4>3. QED
        BY <2>1, <3>1, <4>1, <4>2 DEF HeldInv, WaitHeld
    <3>2. QED
      BY <2>1, <2>2, <3>1 DEF WaitHeld
  <2>6. HeldOnce'
    <3>1. ASSUME NEW t \in Thread
          PROVE  /\ \A i, j \in DOMAIN faults' : Holds(faults'[i], t) /\ Holds(faults'[j], t) => i = j
                 /\ \A i \in DOMAIN faults' : Holds(faults'[i], t) =>
                       t \notin pfCall /\ t \notin resume /\ ~Holds(pfault'[1], t)
                 /\ Holds(pfault'[1], t) => t \notin pfCall /\ t \notin resume
                 /\ ~(t \in pfCall /\ t \in resume)
      <4>1. \A i, j \in DOMAIN faults : Holds(faults[i], t) /\ Holds(faults[j], t) => i = j
        BY DEF HeldInv, HeldOnce
      <4>2. \A i \in DOMAIN faults : Holds(faults[i], t) => t \notin pfCall /\ t \notin resume
        BY DEF HeldInv, HeldOnce
      <4>3. ~(t \in pfCall /\ t \in resume)
        BY DEF HeldInv, HeldOnce
      <4>4. \A i, j \in DOMAIN faults' : Holds(faults'[i], t) /\ Holds(faults'[j], t) => i = j
        <5>1. TAKE i, j \in DOMAIN faults'
        <5>2. HAVE Holds(faults'[i], t) /\ Holds(faults'[j], t)
        <5>3. i + 1 = j + 1 /\ i \in Nat /\ j \in Nat
          BY <2>2, <4>1, <5>2
        <5>4. QED
          BY <5>3
      <4>5. \A i \in DOMAIN faults' : Holds(faults'[i], t) => ~Holds(pfault'[1], t)
        <5>1. TAKE i \in DOMAIN faults'
        <5>2. HAVE Holds(faults'[i], t)
        <5>3. i + 1 # 1 /\ Holds(faults[i + 1], t) /\ i + 1 \in DOMAIN faults /\ 1 \in DOMAIN faults
          BY <2>2, <5>2
        <5>4. QED
          BY <2>2, <4>1, <5>3
      <4>6. QED
        BY <2>2, <4>2, <4>3, <4>4, <4>5
    <3>2. QED
      BY <2>1, <2>2, <3>1 DEF HeldOnce
  <2>7. EntriesApart'
    BY <2>1, <2>2 DEF HeldInv, EntriesApart
  <2>8. QED
    BY <2>3, <2>4, <2>5, <2>6, <2>7 DEF HeldInv
<1>5. CASE PfResolve
  <2>1. /\ UNCHANGED <<maps, present, st, page, last, range, resume, calls, faults, permits,
                       pfault, pfCall, clean>>
        /\ pfAt = "resolve"
    BY <1>5 DEF PfResolve, pageVars, faultVars
  <2>2. PICK e \in Entry : pfault = <<e>>
    BY <2>1 DEF HeldInv, TypeOK, PfShape
  <2>3. e.proc \in Proc /\ e.page \in Page /\ pfault[1] = e
    BY <2>2 DEF Entry
  <2>4. \/ /\ pfAt' = "load" /\ pfMap' \in MapId \X Page /\ pfMap' # <<>>
        \/ pfAt' = "unlist" /\ pfMap' = pfMap
    <3>1. CASE \E m \in MappingOf(e.proc, e.page) : pfMap' = <<m.id, First(m)>> /\ pfAt' = "load"
      <4>1. PICK m \in MappingOf(e.proc, e.page) : pfMap' = <<m.id, First(m)>> /\ pfAt' = "load"
        BY <3>1
      <4>2. m \in Mapping
        BY <2>3, <4>1 DEF MappingOf, HeldInv, TypeOK
      <4>3. m.id \in MapId /\ First(m) \in Page
        BY <4>2, FirstType DEF Mapping
      <4>4. QED
        BY <4>1, <4>3
    <3>2. QED
      BY <1>5, <2>3, <3>1 DEF PfResolve
  <2>5. TypeOK'
    BY <1>0, <2>1, <2>4 DEF HeldInv, TypeOK, SnapshotInv
  <2>6. PfShape'
    BY <2>1, <2>4 DEF HeldInv, PfShape
  <2>7. QED
    BY <1>1, <2>1, <2>5, <2>6
<1>6. CASE PfLoad
  <2>1. TypeOK'
    BY <1>0, <1>6 DEF PfLoad, HeldInv, TypeOK, SnapshotInv, pageVars, faultVars
  <2>2. PfShape'
    BY <1>6 DEF PfLoad, HeldInv, PfShape
  <2>3. QED
    BY <1>1, <1>6, <2>1, <2>2 DEF PfLoad, pageVars, faultVars
<1>7. CASE PfRelock
  <2>1. PICK e \in Entry : pfault = <<e>>
    BY <1>7 DEF PfRelock, HeldInv, TypeOK, PfShape
  <2>2. e.proc \in Proc /\ e.page \in Page /\ pfault[1] = e
    BY <2>1 DEF Entry
  <2>3. maps' \in [Proc -> SUBSET Mapping] /\ present' \in [Proc -> SUBSET Page]
    <3>1. CASE MapPage(e.proc, e.page)
      BY <2>2, <3>1, MapPageType DEF HeldInv
    <3>2. CASE UNCHANGED <<maps, present>>
      BY <3>2 DEF HeldInv, TypeOK
    <3>3. QED
      BY <1>7, <2>2, <3>1, <3>2 DEF PfRelock
  <2>4. TypeOK'
    BY <1>0, <1>7, <2>3 DEF PfRelock, HeldInv, TypeOK, SnapshotInv, faultVars
  <2>5. PfShape'
    BY <1>7 DEF PfRelock, HeldInv, PfShape
  <2>6. QED
    BY <1>1, <1>7, <2>4, <2>5 DEF PfRelock, faultVars
<1>8. CASE PfUnlist
  <2>1. TypeOK' /\ PfShape'
    BY <1>0, <1>8 DEF PfUnlist, HeldInv, TypeOK, PfShape, SnapshotInv, pageVars, faultVars
  <2>2. QED
    BY <1>1, <1>8, <2>1 DEF PfUnlist, pageVars, faultVars
<1>9. CASE PfDone
  <2>1. /\ pfault' = <<>> /\ pfAt' = "acquire" /\ pfAt = "report"
        /\ UNCHANGED <<maps, present, st, page, last, range, resume, calls, faults, permits,
                       pfMap, pfCall, clean>>
        /\ \A i \in DOMAIN pfault : \A t \in Thread : ~Holds(pfault[i], t)
    <3>1. PICK e \in Entry : pfault = <<e>>
      BY <1>9 DEF PfDone, HeldInv, TypeOK, PfShape
    <3>2. QED
      BY <1>9, <3>1 DEF PfDone, pageVars, faultVars, Holds
  <2>2. TypeOK' /\ PfShape' /\ PageShape'
    BY <1>0, <2>1 DEF HeldInv, TypeOK, PfShape, PageShape, SnapshotInv
  <2>3. HeldWaits' /\ WaitHeld'
    BY <2>1 DEF HeldInv, HeldWaits, WaitHeld
  <2>4. HeldOnce'
    BY <2>1 DEF HeldInv, HeldOnce
  <2>5. EntriesApart'
    BY <2>1 DEF HeldInv, EntriesApart
  <2>6. QED
    BY <2>2, <2>3, <2>4, <2>5 DEF HeldInv
<1>10. QED
  BY <1>2, <1>3, <1>4, <1>5, <1>6, <1>7, <1>8, <1>9

\* The answer for a thread t that the [pfault] thread has: t does not wait any
\* more, or one of the callback in work and when_not_running() has it.
LEMMA AnswerHeld ==
    ASSUME HeldInv, TypeOK', PfShape', PageShape', NEW t \in Thread,
           t \in pfCall \/ \E i \in DOMAIN pfault : Holds(pfault[i], t),
           faults' = faults, DOMAIN pfault' = DOMAIN pfault,
           \A u \in Thread \ {t} :
              /\ st'[u] = st[u]
              /\ u \in resume' <=> u \in resume
              /\ u \in pfCall' <=> u \in pfCall
              /\ \A i \in DOMAIN pfault : /\ u \in pfault'[i].threads <=> u \in pfault[i].threads
                                          /\ u \in pfault'[i].callbacks <=> u \in pfault[i].callbacks,
           \A i \in DOMAIN pfault : ~Holds(pfault'[i], t),
           \/ st'[t] # "wait" /\ t \notin pfCall' /\ t \notin resume'
           \/ st'[t] = "wait" /\ t \in pfCall' /\ t \notin resume'
           \/ st'[t] = "wait" /\ t \notin pfCall' /\ t \in resume'
    PROVE  HeldInv'
<1>1. \A i \in DOMAIN faults : ~Holds(faults[i], t)
  BY DEF HeldInv, HeldOnce
<1>2. \A u \in Thread \ {t} : \A i \in DOMAIN pfault : Holds(pfault'[i], u) <=> Holds(pfault[i], u)
  BY DEF Holds
<1>3. HeldWaits'
  BY <1>1, <1>2 DEF HeldInv, HeldWaits
<1>4. WaitHeld'
  BY <1>1, <1>2 DEF HeldInv, WaitHeld
<1>5. HeldOnce'
  BY <1>1, <1>2 DEF HeldInv, HeldOnce
<1>6. EntriesApart'
  BY DEF HeldInv, EntriesApart, Holds
<1>7. QED
  BY <1>3, <1>4, <1>5, <1>6 DEF HeldInv

\* when_not_running() for a thread that waits.
LEMMA WhenNotRunningFacts ==
    ASSUME HeldInv, NEW t \in Thread, st[t] = "wait", WhenNotRunning(t)
    PROVE  /\ page' \in [Thread -> {0} \cup Page] /\ last' \in [Thread -> {0} \cup Page]
           /\ st' \in [Thread -> {"user", "trap", "fault", "check", "sync", "call", "clear",
                                  "wait", "dead"}]
           /\ resume' \in SUBSET Thread /\ clean' \in SUBSET Thread
           /\ PageShape'
           /\ \A u \in Thread \ {t} :
                 st'[u] = st[u] /\ page'[u] = page[u] /\ (u \in resume' <=> u \in resume)
           /\ (st'[t] # "wait" /\ resume' = resume) \/ (st'[t] = "wait" /\ t \in resume')
BY DEF WhenNotRunning, HeldInv, TypeOK, PageShape

\* So does the [pfault] thread when it resumes or ends a thread of its entry.
LEMMA PfThreadHeld ==
    ASSUME HeldInv, SnapshotInv', NEW t \in Thread, PfThread(t)
    PROVE  HeldInv'
<1>1. PICK e \in Entry : pfault = <<e>>
  BY DEF PfThread, HeldInv, TypeOK, PfShape
<1> DEFINE f == [e EXCEPT !.threads = @ \ {t}]
<1>2. /\ pfAt = "report" /\ t \in e.threads /\ pfault' = <<f>>
      /\ faults' = faults /\ permits' = permits /\ pfAt' = pfAt /\ pfMap' = pfMap
      /\ pfOk' = pfOk /\ pfCall' = pfCall /\ pfCall = {}
      /\ UNCHANGED <<maps, present, range, calls>>
  BY <1>1 DEF PfThread, faultVars, HeldInv, PfShape
<1>3. f \in Entry /\ f.threads = e.threads \ {t} /\ f.callbacks = e.callbacks
  BY DEF Entry
<1>4. /\ DOMAIN pfault = {1} /\ pfault[1] = e /\ DOMAIN pfault' = {1} /\ pfault'[1] = f
      /\ pfault' \in {<<>>} \cup {<<x>> : x \in Entry}
  BY <1>1, <1>2, <1>3
<1>5. st[t] = "wait" /\ t \notin e.callbacks /\ t \notin resume /\ Holds(pfault[1], t)
  BY <1>2, <1>4 DEF HeldInv, HeldWaits, HeldOnce, EntriesApart, Holds
<1> HIDE DEF f
<1>6. /\ page' \in [Thread -> {0} \cup Page] /\ last' \in [Thread -> {0} \cup Page]
      /\ st' \in [Thread -> {"user", "trap", "fault", "check", "sync", "call", "clear",
                             "wait", "dead"}]
      /\ resume' \in SUBSET Thread /\ clean' \in SUBSET Thread
      /\ PageShape'
      /\ \A u \in Thread \ {t} : st'[u] = st[u] /\ (u \in resume' <=> u \in resume)
      /\ (st'[t] # "wait" /\ resume' = resume) \/ (st'[t] = "wait" /\ t \in resume')
  <2>1. CASE WhenNotRunning(t)
    BY <1>5, <2>1, WhenNotRunningFacts
  <2>2. CASE /\ st' = [st EXCEPT ![t] = "dead"]
             /\ page' = [page EXCEPT ![t] = 0]
             /\ UNCHANGED <<last, resume, clean>>
    BY <2>2 DEF HeldInv, TypeOK, PageShape
  <2>3. QED
    BY <2>1, <2>2 DEF PfThread
<1>7. TypeOK'
  BY <1>2, <1>4, <1>6 DEF HeldInv, TypeOK, SnapshotInv
<1>8. PfShape'
  BY <1>2, <1>4 DEF HeldInv, PfShape
<1>9. QED
  BY <1>2, <1>3, <1>4, <1>5, <1>6, <1>7, <1>8, AnswerHeld DEF Holds

\* So does the callback of a system call that waited in the entry.
LEMMA PfCallbackHeld ==
    ASSUME HeldInv, SnapshotInv', NEW t \in Thread, PfCallback(t)
    PROVE  HeldInv'
<1>1. PICK e \in Entry : pfault = <<e>>
  BY DEF PfCallback, HeldInv, TypeOK, PfShape
<1> DEFINE f == [e EXCEPT !.callbacks = @ \ {t}]
<1>2. /\ pfAt = "report" /\ e.threads = {} /\ t \in e.callbacks /\ pfault' = <<f>>
      /\ faults' = faults /\ permits' = permits /\ pfMap' = pfMap /\ pfOk' = pfOk
      /\ pfCall = {}
      /\ UNCHANGED <<maps, present, range, calls>>
  BY <1>1 DEF PfCallback, faultVars, HeldInv, PfShape
<1>3. f \in Entry /\ f.threads = e.threads /\ f.callbacks = e.callbacks \ {t}
  BY DEF Entry
<1>4. /\ DOMAIN pfault = {1} /\ pfault[1] = e /\ DOMAIN pfault' = {1} /\ pfault'[1] = f
      /\ pfault' \in {<<>>} \cup {<<x>> : x \in Entry}
  BY <1>1, <1>2, <1>3
<1>5. st[t] = "wait" /\ t \notin resume /\ Holds(pfault[1], t) /\ page[t] \in Page
  BY <1>2, <1>4 DEF HeldInv, HeldWaits, HeldOnce, PageShape, Holds
<1> HIDE DEF f
<1>6. CASE WhenNotRunning(t) /\ UNCHANGED <<pfCall, pfAt>>
  <2>1. /\ page' \in [Thread -> {0} \cup Page] /\ last' \in [Thread -> {0} \cup Page]
        /\ st' \in [Thread -> {"user", "trap", "fault", "check", "sync", "call", "clear",
                               "wait", "dead"}]
        /\ resume' \in SUBSET Thread /\ clean' \in SUBSET Thread
        /\ PageShape'
        /\ \A u \in Thread \ {t} : st'[u] = st[u] /\ (u \in resume' <=> u \in resume)
        /\ (st'[t] # "wait" /\ resume' = resume) \/ (st'[t] = "wait" /\ t \in resume')
    BY <1>5, <1>6, WhenNotRunningFacts
  <2>2. TypeOK'
    BY <1>2, <1>4, <1>6, <2>1 DEF HeldInv, TypeOK, SnapshotInv
  <2>3. PfShape'
    BY <1>2, <1>4, <1>6 DEF HeldInv, PfShape
  <2>4. QED
    BY <1>2, <1>3, <1>4, <1>5, <1>6, <2>1, <2>2, <2>3, AnswerHeld DEF Holds
<1>7. CASE /\ page[t] < last[t]
           /\ page' = [page EXCEPT ![t] = @ + 1]
           /\ clean' = clean \ Others(t, page[t] + 1)
           /\ pfCall' = {t} /\ pfAt' = "check"
           /\ UNCHANGED <<st, last, resume>>
  <2>1. page[t] + 1 \in Page
    BY <1>5, <1>7, PageFaultAssumption DEF Page, HeldInv, TypeOK
  <2>2. PageShape' /\ page' \in [Thread -> {0} \cup Page]
    BY <1>7, <2>1 DEF HeldInv, TypeOK, PageShape
  <2>3. TypeOK'
    BY <1>2, <1>4, <1>7, <2>2 DEF HeldInv, TypeOK, SnapshotInv
  <2>4. PfShape'
    BY <1>2, <1>4, <1>7 DEF HeldInv, PfShape
  <2>5. QED
    BY <1>2, <1>3, <1>4, <1>5, <1>7, <2>2, <2>3, <2>4, AnswerHeld DEF Holds
<1>8. QED
  BY <1>6, <1>7 DEF PfCallback

\* So does a system call that goes on with its next page on the [pfault] thread.
LEMMA PfReadHeld ==
    ASSUME HeldInv, SnapshotInv', NEW t \in Thread, PfRead(t)
    PROVE  HeldInv'
<1> USE SnapshotAssumption
<1>0. /\ t \in pfCall /\ pfCall = {t} /\ pfAt \in {"check", "sync", "call"} /\ pfault # <<>>
      /\ st[t] = "wait" /\ t \notin resume /\ page[t] \in Page /\ ProcOf[t] \in Proc
      /\ \A i \in DOMAIN faults : ~Holds(faults[i], t)
      /\ \A i \in DOMAIN pfault : ~Holds(pfault[i], t)
      /\ UNCHANGED <<range, calls, pfMap, pfOk>>
  BY DEF PfRead, HeldInv, TypeOK, PfShape, PageShape, HeldWaits, HeldOnce
<1>1. ASSUME PfNextPage(t), UNCHANGED <<faultVars, pfault>>,
             maps' \in [Proc -> SUBSET Mapping], present' \in [Proc -> SUBSET Page]
      PROVE  HeldInv'
  <2>1. CASE page[t] < last[t]
    <3>1. page[t] + 1 \in Page
      BY <1>0, <2>1, PageFaultAssumption DEF Page, HeldInv, TypeOK
    <3>2. /\ page' = [page EXCEPT ![t] = @ + 1] /\ clean' = clean \ Others(t, page[t] + 1)
          /\ pfAt' = "check" /\ UNCHANGED <<st, last, resume, pfCall>>
      BY <1>1, <2>1 DEF PfNextPage
    <3>3. PageShape' /\ page' \in [Thread -> {0} \cup Page]
      BY <3>1, <3>2 DEF HeldInv, TypeOK, PageShape
    <3>4. TypeOK'
      BY <1>0, <1>1, <3>2, <3>3 DEF HeldInv, TypeOK, SnapshotInv, faultVars
    <3>5. PfShape'
      BY <1>0, <1>1, <3>2 DEF HeldInv, PfShape, faultVars
    <3>6. QED
      BY <1>0, <1>1, <3>2, <3>3, <3>4, <3>5, AnswerHeld DEF faultVars
  <2>2. CASE ~(page[t] < last[t])
    <3>1. WhenNotRunning(t) /\ pfAt' = "report" /\ pfCall' = {}
      BY <1>1, <2>2 DEF PfNextPage
    <3>2. /\ page' \in [Thread -> {0} \cup Page] /\ last' \in [Thread -> {0} \cup Page]
          /\ st' \in [Thread -> {"user", "trap", "fault", "check", "sync", "call", "clear",
                                 "wait", "dead"}]
          /\ resume' \in SUBSET Thread /\ clean' \in SUBSET Thread
          /\ PageShape'
          /\ \A u \in Thread \ {t} : st'[u] = st[u] /\ (u \in resume' <=> u \in resume)
          /\ (st'[t] # "wait" /\ resume' = resume) \/ (st'[t] = "wait" /\ t \in resume')
      BY <1>0, <3>1, WhenNotRunningFacts
    <3>3. TypeOK'
      BY <1>0, <1>1, <3>1, <3>2 DEF HeldInv, TypeOK, SnapshotInv, faultVars
    <3>4. PfShape'
      BY <1>0, <1>1, <3>1 DEF HeldInv, PfShape, faultVars
    <3>5. QED
      BY <1>0, <1>1, <3>1, <3>2, <3>3, <3>4, AnswerHeld DEF faultVars
  <2>3. QED
    BY <2>1, <2>2
<1>2. CASE PfNextPage(t) /\ UNCHANGED <<maps, present, faultVars, pfault>>
  BY <1>1, <1>2 DEF HeldInv, TypeOK
<1>3. CASE MapPage(ProcOf[t], page[t]) /\ PfNextPage(t) /\ UNCHANGED <<faultVars, pfault>>
  BY <1>0, <1>1, <1>3, MapPageType DEF HeldInv
<1>4. CASE /\ pfAt' \in {"sync", "call"}
           /\ UNCHANGED <<maps, present, st, page, last, resume, faultVars, pfault, pfCall, clean>>
  <2>1. TypeOK' /\ PageShape'
    BY <1>0, <1>4 DEF HeldInv, TypeOK, PageShape, SnapshotInv, faultVars
  <2>2. PfShape'
    BY <1>0, <1>4 DEF HeldInv, PfShape, faultVars
  <2>3. QED
    BY <1>0, <1>4, <2>1, <2>2, AnswerHeld DEF faultVars
<1>5. CASE /\ pfAt = "call"
           /\ Record(ProcOf[t], page[t], {}, {t})
           /\ pfAt' = "report" /\ pfCall' = {}
           /\ UNCHANGED <<maps, present, st, page, last, resume, clean>>
  <2>1. Listed => pfault # <<>>
    BY <1>0
  <2>2. Recorded(t)
    <3>1. /\ {} \in SUBSET {t} /\ {t} \in SUBSET {t}
          /\ {} \cup {t} = {t} /\ {} \cap {t} = {}
      OBVIOUS
    <3>2. QED
      BY <1>0, <1>5, <2>1, <3>1, RecordFacts DEF HeldInv
  <2>3. TypeOK' /\ PageShape'
    BY <1>0, <1>5, <2>2 DEF Recorded, HeldInv, TypeOK, PageShape, SnapshotInv
  <2>4. PfShape'
    BY <1>0, <1>5, <2>2 DEF Recorded, HeldInv, PfShape
  <2>5. /\ \A i \in DOMAIN faults' : \A u \in Thread \ {t} :
              Holds(faults'[i], u) <=> i \in DOMAIN faults /\ Holds(faults[i], u)
        /\ \A i \in DOMAIN pfault : \A u \in Thread \ {t} :
              Holds(pfault'[i], u) <=> Holds(pfault[i], u)
    BY <2>2 DEF Recorded, Holds
  <2>6. HeldWaits'
    BY <1>0, <1>5, <2>2, <2>5 DEF Recorded, HeldInv, HeldWaits
  <2>7. WaitHeld'
    BY <1>0, <1>5, <2>2, <2>5 DEF Recorded, HeldInv, WaitHeld
  <2>8. HeldOnce'
    BY <1>0, <1>5, <2>2, <2>5 DEF Recorded, HeldInv, HeldOnce
  <2>9. EntriesApart'
    BY <2>2 DEF Recorded, HeldInv, EntriesApart, Holds
  <2>10. QED
    BY <2>3, <2>4, <2>6, <2>7, <2>8, <2>9 DEF HeldInv
<1>6. QED
  BY <1>2, <1>3, <1>4, <1>5 DEF PfRead

\* Every step keeps every faulting thread held in exactly one place.
LEMMA HeldStep ==
    ASSUME HeldInv, SnapshotInv', [Next]_vars
    PROVE  HeldInv'
<1>1. CASE UNCHANGED vars
  <2>1. TypeOK'
    BY <1>1 DEF HeldInv, TypeOK, SnapshotInv, vars, snapshotVars, pageVars, faultVars, pfVars
  <2>2. QED
    BY <1>1, <2>1, NoHeldStep DEF vars, pageVars, faultVars, pfVars
<1>2. CASE Pf
  BY <1>2, PfResolveHeld, PfThreadHeld, PfCallbackHeld, PfReadHeld DEF Pf
<1>3. QED
  BY <1>1, <1>2, EnterHeld, LeaveHeld, UserHeld, KernelHeld DEF Next

\* Types, and who refers to a thread, are as the invariant says in every state.
THEOREM HeldInvariant == Spec => []HeldInv
<1>1. Init => HeldInv
  <2> SUFFICES ASSUME Init
               PROVE  HeldInv
    OBVIOUS
  <2> USE PageFaultAssumption, SnapshotAssumption
  <2>1. maps \in [Proc -> SUBSET Mapping]
    <3>1. Page \in PageRange
      <4>1. 1 \in Page /\ NumPages \in Page /\ Page = 1 .. NumPages
        BY DEF Page
      <4>2. QED
        BY <4>1 DEF PageRange
    <3>2. \A p \in Proc : [id |-> 1, pages |-> Page, kind |-> Mapped[p], entries |-> {}] \in Mapping
      BY <3>1 DEF Mapping, MapId, Kind
    <3>3. QED
      BY <3>2 DEF Init
  <2>2. pfOk \in BOOLEAN
    BY DEF Init
  <2>3. SnapshotTypeOK
    BY DEF Init, SnapshotInit, SnapshotTypeOK
  <2>4. TypeOK
    BY <2>1, <2>2, <2>3 DEF Init, TypeOK
  <2>5. PfShape /\ PageShape /\ HeldWaits /\ HeldOnce /\ EntriesApart /\ WaitHeld
    BY DEF Init, PfShape, PageShape, HeldWaits, HeldOnce, EntriesApart, WaitHeld
  <2>6. QED
    BY <2>4, <2>5 DEF HeldInv
<1>2. HeldInv /\ SnapshotInv' /\ [Next]_vars => HeldInv'
  BY HeldStep
<1>3. QED
  BY <1>1, <1>2, SnapshotInvariant, PTL DEF Spec

\* Every variable of the memory maps, the faults and the [pfault] thread keeps
\* its type; in particular what ClearRange() leaves of a mapping is a mapping.
THEOREM TypeCorrect == Spec => []TypeOK
<1>1. HeldInv => TypeOK
  BY DEF HeldInv
<1>2. QED
  BY <1>1, HeldInvariant, PTL

\* The inductive invariant implies that a faulting thread waits in exactly one
\* entry.
LEMMA HeldIsOne ==
    ASSUME HeldInv
    PROVE  FaultHeld
<1> SUFFICES ASSUME NEW t \in Thread, st[t] = "wait"
             PROVE  Cardinality({i \in DOMAIN faults : t \in faults[i].threads \cup faults[i].callbacks})
                    + Cardinality({i \in DOMAIN pfault : t \in pfault[i].threads \cup pfault[i].callbacks})
                    + Cardinality(pfCall \cap {t}) + Cardinality(resume \cap {t}) = 1
  BY DEF FaultHeld
<1> DEFINE A == {i \in DOMAIN faults : t \in faults[i].threads \cup faults[i].callbacks}
           B == {i \in DOMAIN pfault : t \in pfault[i].threads \cup pfault[i].callbacks}
           C == pfCall \cap {t}
           D == resume \cap {t}
<1>1. /\ \A i, j \in DOMAIN faults : Holds(faults[i], t) /\ Holds(faults[j], t) => i = j
      /\ \A i \in DOMAIN faults : Holds(faults[i], t) =>
            t \notin pfCall /\ t \notin resume /\ \A j \in DOMAIN pfault : ~Holds(pfault[j], t)
      /\ \A j \in DOMAIN pfault : Holds(pfault[j], t) => t \notin pfCall /\ t \notin resume
      /\ ~(t \in pfCall /\ t \in resume)
      /\ \/ \E i \in DOMAIN faults : Holds(faults[i], t)
         \/ \E i \in DOMAIN pfault : Holds(pfault[i], t)
         \/ t \in pfCall \/ t \in resume
  BY DEF HeldInv, HeldOnce, WaitHeld
<1> SUFFICES Cardinality(A) + Cardinality(B) + Cardinality(C) + Cardinality(D) = 1
  OBVIOUS
<1>2. \A i, j \in DOMAIN pfault : i = j
  BY DEF HeldInv, TypeOK
<1>3. Cardinality({}) = 0 /\ \A x : Cardinality({x}) = 1
  BY FS_EmptySet, FS_Singleton
<1>4. CASE \E i \in DOMAIN faults : Holds(faults[i], t)
  <2>1. PICK i \in DOMAIN faults : Holds(faults[i], t)
    BY <1>4
  <2>2. A = {i} /\ B = {} /\ C = {} /\ D = {}
    BY <1>1, <2>1 DEF Holds
  <2> HIDE DEF A, B, C, D
  <2>3. Cardinality(A) = 1 /\ Cardinality(B) = 0 /\ Cardinality(C) = 0 /\ Cardinality(D) = 0
    BY <1>3, <2>2
  <2>4. QED
    BY <2>3
<1>5. CASE \E i \in DOMAIN pfault : Holds(pfault[i], t)
  <2>1. PICK i \in DOMAIN pfault : Holds(pfault[i], t)
    BY <1>5
  <2>2. A = {} /\ B = {i} /\ C = {} /\ D = {}
    BY <1>1, <1>2, <2>1 DEF Holds
  <2> HIDE DEF A, B, C, D
  <2>3. Cardinality(A) = 0 /\ Cardinality(B) = 1 /\ Cardinality(C) = 0 /\ Cardinality(D) = 0
    BY <1>3, <2>2
  <2>4. QED
    BY <2>3
<1>6. CASE t \in pfCall
  <2>1. A = {} /\ B = {} /\ C = {t} /\ D = {}
    BY <1>1, <1>6 DEF Holds
  <2> HIDE DEF A, B, C, D
  <2>2. Cardinality(A) = 0 /\ Cardinality(B) = 0 /\ Cardinality(C) = 1 /\ Cardinality(D) = 0
    BY <1>3, <2>1
  <2>3. QED
    BY <2>2
<1>7. CASE t \in resume
  <2>1. A = {} /\ B = {} /\ C = {} /\ D = {t}
    BY <1>1, <1>7 DEF Holds
  <2> HIDE DEF A, B, C, D
  <2>2. Cardinality(A) = 0 /\ Cardinality(B) = 0 /\ Cardinality(C) = 0 /\ Cardinality(D) = 1
    BY <1>3, <2>1
  <2>3. QED
    BY <2>2
<1>8. QED
  BY <1>1, <1>4, <1>5, <1>6, <1>7

\* A thread that waits for a page is in exactly one of p_faults, the entry in
\* work, the callback that is run and the when_not_running() calls.
THEOREM FaultHeldHolds == Spec => []FaultHeld
BY HeldIsOne, HeldInvariant, PTL

-----------------------------------------------------------------------------
(* One entry for a page *)

\* Recording a fault never makes a second entry for a page.
LEMMA RecordOneEntry ==
    ASSUME TypeOK, Listed => pfault # <<>>, OneEntryPerPage,
           NEW p \in Proc, NEW g \in Page, NEW T \in SUBSET Thread, NEW C \in SUBSET Thread,
           Record(p, g, T, C), Listed' => Listed
    PROVE  OneEntryPerPage'
<1>0. /\ faults \in Seq(Entry) /\ pfault \in {<<>>} \cup {<<e>> : e \in Entry}
      /\ \A i \in DOMAIN faults : faults[i] \in Entry
      /\ DOMAIN faults = 1 .. Len(faults) /\ Len(faults) \in Nat
  BY DEF TypeOK
<1>1. ASSUME NEW i \in DOMAIN faults, JoinsQueued(i, T, C)
      PROVE  /\ DOMAIN faults' = DOMAIN faults /\ pfault' = pfault
             /\ \A j \in DOMAIN faults : faults'[j].page = faults[j].page
  <2>1. Join(faults[i], T, C).page = faults[i].page
    BY <1>0 DEF Join, Entry
  <2>2. QED
    BY <1>0, <1>1, <2>1 DEF JoinsQueued
<1>2. ASSUME pfault # <<>>, JoinsListed(T, C)
      PROVE  pfault'[1].page = pfault[1].page /\ faults' = faults
  <2>1. PICK e \in Entry : pfault = <<e>>
    BY <1>0, <1>2
  <2>2. Join(e, T, C).page = e.page
    BY DEF Join, Entry
  <2>3. QED
    BY <1>2, <2>1, <2>2 DEF JoinsListed
<1>3. ASSUME Queues(p, g, T, C)
      PROVE  /\ DOMAIN faults' = DOMAIN faults \cup {Len(faults) + 1} /\ pfault' = pfault
             /\ faults'[Len(faults) + 1].page = g
             /\ \A j \in DOMAIN faults : faults'[j] = faults[j]
             /\ Len(faults) + 1 \notin DOMAIN faults
  BY <1>0, <1>3 DEF Queues
<1>4. CASE \E i \in DOMAIN faults : faults[i].page = g /\ JoinsQueued(i, T, C)
  BY <1>1, <1>4 DEF OneEntryPerPage
<1>5. CASE Listed /\ JoinsListed(T, C)
  BY <1>2, <1>5 DEF OneEntryPerPage
<1>6. CASE /\ \A i \in DOMAIN faults : faults[i].page # g
           /\ ~(Listed /\ pfault[1].page = g) /\ Queues(p, g, T, C)
  BY <1>3, <1>6 DEF OneEntryPerPage
<1>7. QED
  BY <1>4, <1>5, <1>6, RecordCases

\* No step makes a second entry for a page.
LEMMA OneEntryStep ==
    ASSUME HeldInv, OneEntryPerPage, [Next]_vars
    PROVE  OneEntryPerPage'
<1> USE SnapshotAssumption
<1>0. Listed => pfault # <<>>
  BY DEF HeldInv, PfShape, Listed
<1>1. ASSUME UNCHANGED faults, (Listed' => Listed /\ UNCHANGED pfault)
      PROVE  OneEntryPerPage'
  BY <1>1 DEF OneEntryPerPage
<1>2. ASSUME NEW t \in Thread, QueueFault(t) \/ QueueRead(t)
      PROVE  OneEntryPerPage'
  <2>1. PICK T, C \in SUBSET Thread : Record(ProcOf[t], page[t], T, C)
    BY <1>2 DEF QueueFault, QueueRead
  <2>2. page[t] \in Page /\ ProcOf[t] \in Proc /\ (Listed' => Listed)
    BY <1>2 DEF QueueFault, QueueRead, HeldInv, PageShape, Listed
  <2>3. QED
    BY <1>0, <2>1, <2>2, RecordOneEntry DEF HeldInv
<1>3. ASSUME NEW t \in Thread, PfRead(t)
      PROVE  OneEntryPerPage'
  <2>1. ~Listed'
    <3>1. pfAt \in {"check", "sync", "call"}
      BY <1>3 DEF PfRead, HeldInv, PfShape
    <3>2. QED
      BY <1>3, <3>1 DEF PfRead, PfNextPage, Listed
  <2>2. CASE UNCHANGED faults
    BY <1>1, <2>1, <2>2
  <2>3. CASE Record(ProcOf[t], page[t], {}, {t})
    <3>1. page[t] \in Page /\ ProcOf[t] \in Proc /\ {} \in SUBSET Thread /\ {t} \in SUBSET Thread
      BY <1>3 DEF PfRead, HeldInv, PageShape, HeldWaits
    <3>2. QED
      BY <1>0, <2>1, <2>3, <3>1, RecordOneEntry DEF HeldInv
  <2>4. QED
    BY <1>3, <2>2, <2>3 DEF PfRead, faultVars
<1>4. CASE PfTake /\ faults # <<>>
  <2>1. /\ pfault' = <<Head(faults)>> /\ faults' = Tail(faults) /\ faults \in Seq(Entry)
    BY <1>4 DEF PfTake, HeldInv, TypeOK
  <2>2. /\ DOMAIN faults = 1 .. Len(faults) /\ Len(faults) \in Nat \ {0}
        /\ pfault'[1] = faults[1]
        /\ DOMAIN faults' = 1 .. (Len(faults) - 1)
        /\ \A i \in DOMAIN faults' : faults'[i] = faults[i + 1] /\ i + 1 \in DOMAIN faults
    BY <1>4, <2>1
  <2>3. \A i, j \in DOMAIN faults : faults[i].page = faults[j].page => i = j
    BY DEF OneEntryPerPage
  <2>4. \A i, j \in DOMAIN faults' : faults'[i].page = faults'[j].page => i = j
    <3>1. TAKE i, j \in DOMAIN faults'
    <3>2. HAVE faults'[i].page = faults'[j].page
    <3>3. i + 1 = j + 1 /\ i \in Nat /\ j \in Nat
      BY <2>2, <2>3, <3>2
    <3>4. QED
      BY <3>3
  <2>5. \A i \in DOMAIN faults' : faults'[i].page # pfault'[1].page
    <3>1. TAKE i \in DOMAIN faults'
    <3>2. i + 1 # 1 /\ i + 1 \in DOMAIN faults /\ 1 \in DOMAIN faults
      BY <2>2
    <3>3. QED
      BY <2>2, <2>3, <3>2
  <2>6. QED
    BY <2>4, <2>5 DEF OneEntryPerPage
<1>5. CASE \/ PfAcquire \/ (PfTake /\ faults = <<>>) \/ PfResolve \/ PfLoad \/ PfRelock
           \/ PfUnlist \/ PfDone
  BY <1>1, <1>5 DEF PfAcquire, PfTake, PfResolve, PfLoad, PfRelock, PfUnlist, PfDone,
     Listed, faultVars
<1>6. ASSUME NEW t \in Thread, PfThread(t) \/ PfCallback(t)
      PROVE  OneEntryPerPage'
  BY <1>1, <1>6 DEF PfThread, PfCallback, Listed, faultVars
<1>7. ASSUME NEW t \in Thread, \/ Enter(t) \/ Leave(t) \/ ReleaseRun(t) \/ User(t)
                               \/ DisableRange(t) \/ SyncFault(t) \/ ReadCheck(t) \/ ReadSync(t)
      PROVE  OneEntryPerPage'
  <2>1. UNCHANGED <<faults, pfault, pfAt>>
    BY <1>7 DEF Enter, Leave, ReleaseRun, User, Touch, Read, ClearRange, Map,
                DisableRange, SyncFault, ReadCheck, ReadSync, faultVars, pfVars
  <2>2. QED
    BY <1>1, <2>1 DEF Listed
<1>8. CASE UNCHANGED vars
  BY <1>1, <1>8 DEF vars, faultVars, pfVars, Listed
<1>9. QED
  BY <1>2, <1>3, <1>4, <1>5, <1>6, <1>7, <1>8 DEF Next, Pf, Kernel

\* No page is asked for by two entries of p_faults, or by one of them and the
\* entry in progress.
THEOREM OneEntryPerPageHolds == Spec => []OneEntryPerPage
<1>1. Init => OneEntryPerPage
  BY DEF Init, OneEntryPerPage, Listed
<1>2. HeldInv /\ OneEntryPerPage /\ [Next]_vars => OneEntryPerPage'
  BY OneEntryStep
<1>3. QED
  BY <1>1, <1>2, HeldInvariant, PTL DEF Spec
-----------------------------------------------------------------------------
(* What backs a present page *)

\* A page outside the cleared range keeps its PhysMapping, in one of the parts.
LEMMA RemainsKeeps ==
    ASSUME NEW m \in Mapping, NEW lo \in Page, NEW hi \in Page, lo <= hi, NEW id,
           NEW g \in m.pages, g \notin lo .. hi
    PROVE  \E n \in Remains(m, lo .. hi, id) : g \in n.pages /\ (g \in m.entries => g \in n.entries)
<1> DEFINE U == lo .. hi
           below == {h \in m.pages : \A u \in U : h < u}
           above == {h \in m.pages : \A u \in U : h > u}
<1>1. g \in Page
  BY PageFaultAssumption DEF Mapping, PageRange, Page
<1>2. g \in below \/ g \in above
  BY <1>1 DEF Page
<1> DEFINE Cut(P, i) == [m EXCEPT !.pages = P, !.entries = @ \cap P, !.id = i]
<1>3. \A P, i : Cut(P, i).pages = P /\ Cut(P, i).entries = m.entries \cap P
  BY DEF Mapping
<1>4. \/ m \in Remains(m, U, id)
      \/ g \in below /\ Cut(below, m.id) \in Remains(m, U, id)
      \/ g \in above /\ \E i : Cut(above, i) \in Remains(m, U, id)
  <2> HIDE DEF Cut, below, above, U
  <2>1. Remains(m, U, id) = IF m.pages \cap U = {} THEN {m}
                            ELSE IF below = {} /\ above = {} THEN {}
                            ELSE IF above = {} THEN {Cut(below, m.id)}
                            ELSE IF below = {} THEN {Cut(above, m.id)}
                            ELSE {Cut(below, m.id), Cut(above, id)}
    BY DEF Remains, Cut, below, above, U
  <2>2. QED
    BY <1>2, <2>1
<1>5. QED
  <2> HIDE DEF Cut, below, above, U
  <2>1. CASE m \in Remains(m, U, id)
    BY <2>1 DEF U
  <2>2. CASE g \in below /\ Cut(below, m.id) \in Remains(m, U, id)
    BY <1>3, <2>2 DEF U
  <2>3. ASSUME NEW i, g \in above, Cut(above, i) \in Remains(m, U, id)
        PROVE  \E n \in Remains(m, U, id) : g \in n.pages /\ (g \in m.entries => g \in n.entries)
    BY <1>3, <2>3
  <2>4. QED
    BY <1>4, <2>1, <2>2, <2>3 DEF U

\* A thread between the two halves of munmap() stays there.
ClearStays == \A t \in Thread : st[t] = "clear" => st'[t] = "clear" /\ range'[t] = range[t]

\* A step that changes neither the maps nor the page tables keeps present pages
\* backed.
LEMMA BackedQuiet ==
    ASSUME PresentIsBacked, UNCHANGED <<maps, present>>, ClearStays
    PROVE  PresentIsBacked'
BY DEF PresentIsBacked, MappingOf, ClearStays

\* Mapping a page enters it into the mapping and into the page table together.
LEMMA MapPageBacked ==
    ASSUME HeldInv, PresentIsBacked, NEW p \in Proc, NEW g \in Page, MappingOf(p, g) # {},
           MapPage(p, g), ClearStays
    PROVE  PresentIsBacked'
<1> SUFFICES ASSUME NEW q \in Proc, NEW h \in present'[q]
             PROVE  \/ \E m \in maps'[q] : h \in m.pages /\ h \in m.entries
                    \/ \E t \in Thread : st'[t] = "clear" /\ ProcOf[t] = q /\ h \in range'[t]
  BY DEF PresentIsBacked, MappingOf
<1>1. /\ maps' = [maps EXCEPT ![p] = {WithEntry(m, g) : m \in @}]
      /\ maps \in [Proc -> SUBSET Mapping]
      /\ h \in present[q] \/ (q = p /\ h = g)
  BY DEF MapPage, HeldInv, TypeOK
<1>2. \A m \in Mapping : /\ WithEntry(m, g).pages = m.pages
                         /\ m.entries \subseteq WithEntry(m, g).entries
                         /\ g \in m.pages => g \in WithEntry(m, g).entries
  BY DEF WithEntry, Mapping
<1>3. \A m \in maps[q] : m \in Mapping
  BY <1>1
<1>4. CASE q = p /\ h = g
  <2>1. PICK m \in maps[p] : g \in m.pages
    BY DEF MappingOf
  <2>2. WithEntry(m, g) \in maps'[p]
    BY <1>1
  <2>3. QED
    BY <1>2, <1>3, <1>4, <2>1, <2>2
<1>5. CASE h \in present[q] /\ \E m \in MappingOf(q, h) : h \in m.entries
  <2>1. PICK m \in maps[q] : h \in m.pages /\ h \in m.entries
    BY <1>5 DEF MappingOf
  <2>2. CASE q = p
    <3>1. WithEntry(m, g) \in maps'[q]
      BY <1>1, <2>2
    <3>2. QED
      BY <1>2, <1>3, <2>1, <3>1
  <2>3. CASE q # p
    BY <1>1, <2>1, <2>3
  <2>4. QED
    BY <2>2, <2>3
<1>6. CASE \E t \in Thread : st[t] = "clear" /\ ProcOf[t] = q /\ h \in range[t]
  BY <1>6 DEF ClearStays
<1>7. QED
  BY <1>1, <1>4, <1>5, <1>6 DEF PresentIsBacked

\* munmap and mprotect take the pages of a removed mapping out of the page table
\* before the mapping is gone.
LEMMA ClearRangeBacked ==
    ASSUME HeldInv, PresentIsBacked, NEW t \in Thread, NEW lo \in Page, NEW hi \in Page, lo <= hi,
           ClearRange(t, lo .. hi)
    PROVE  PresentIsBacked'
<1> USE SnapshotAssumption
<1> DEFINE U == lo .. hi
           p == ProcOf[t]
<1> SUFFICES ASSUME NEW q \in Proc, NEW h \in present[q]
             PROVE  \/ \E m \in maps'[q] : h \in m.pages /\ h \in m.entries
                    \/ \E u \in Thread : st'[u] = "clear" /\ ProcOf[u] = q /\ h \in range'[u]
  BY DEF PresentIsBacked, MappingOf, ClearRange
<1>1. /\ maps' = [maps EXCEPT ![p] = UNION {Remains(m, U, NewId(p)) : m \in @}]
      /\ maps \in [Proc -> SUBSET Mapping]
      /\ p \in Proc /\ st[t] = "user"
      /\ st' = [st EXCEPT ![t] = "clear"] /\ range' = [range EXCEPT ![t] = U]
      /\ t \in DOMAIN st /\ t \in DOMAIN range
  BY DEF ClearRange, Begin, HeldInv, TypeOK
<1>2. CASE \E m \in MappingOf(q, h) : h \in m.entries
  <2>1. PICK m \in maps[q] : h \in m.pages /\ h \in m.entries
    BY <1>2 DEF MappingOf
  <2>2. CASE q # p
    BY <1>1, <2>1, <2>2
  <2>3. CASE q = p /\ h \in U
    BY <1>1, <2>3
  <2>4. CASE q = p /\ h \notin U
    <3>1. m \in Mapping
      BY <1>1
    <3>2. PICK n \in Remains(m, U, NewId(p)) : h \in n.pages /\ h \in n.entries
      BY <2>1, <2>4, <3>1, RemainsKeeps
    <3>3. n \in maps'[p]
      BY <1>1, <2>4, <3>2
    <3>4. QED
      BY <2>4, <3>2, <3>3
  <2>5. QED
    BY <2>2, <2>3, <2>4
<1>3. CASE \E u \in Thread : st[u] = "clear" /\ ProcOf[u] = q /\ h \in range[u]
  BY <1>1, <1>3
<1>4. QED
  BY <1>2, <1>3 DEF PresentIsBacked

\* Every step keeps present pages backed by a mapping.
LEMMA BackedStep ==
    ASSUME HeldInv, PresentIsBacked, [Next]_vars
    PROVE  PresentIsBacked'
<1> USE SnapshotAssumption
<1>1. ASSUME NEW t \in Thread, st[t] # "clear", \A u \in Thread \ {t} : st'[u] = st[u],
             UNCHANGED range
      PROVE  ClearStays
  BY <1>1 DEF ClearStays
<1>2. ASSUME UNCHANGED <<st, range>>
      PROVE  ClearStays
  BY <1>2 DEF ClearStays
<1>3. ASSUME NEW t \in Thread, SyncFault(t) \/ ReadSync(t)
      PROVE  PresentIsBacked'
  <2>1. page[t] \in Page /\ ProcOf[t] \in Proc
    BY <1>3 DEF SyncFault, ReadSync, HeldInv, PageShape
  <2>2. ClearStays
    BY <1>1, <1>3 DEF SyncFault, ReadSync, NextPage, HeldInv, TypeOK
  <2>3. CASE MapPage(ProcOf[t], page[t]) /\ SyncResolves(ProcOf[t], page[t])
    BY <2>1, <2>2, <2>3, MapPageBacked DEF SyncResolves
  <2>4. CASE UNCHANGED <<maps, present>>
    BY <2>2, <2>4, BackedQuiet
  <2>5. QED
    BY <1>3, <2>3, <2>4 DEF SyncFault, ReadSync
<1>4. ASSUME NEW t \in Thread, User(t)
      PROVE  PresentIsBacked'
  <2>1. PICK r \in Ops[t] :
        \/ r.op = "touch" /\ Touch(t, r.lo)
        \/ r.op = "read" /\ Read(t, r.lo, r.hi)
        \/ r.op = "unmap" /\ ClearRange(t, r.lo .. r.hi)
        \/ r.op \in Kind /\ Map(t, r.lo .. r.hi, r.op)
    BY <1>4 DEF User
  <2>2. r.lo \in Page /\ r.hi \in Page /\ r.lo <= r.hi
    BY PageFaultAssumption DEF Page
  <2>3. CASE Touch(t, r.lo) \/ Read(t, r.lo, r.hi)
    <3>1. ClearStays
      BY <1>1, <2>3 DEF Touch, Read, Begin, HeldInv, TypeOK
    <3>2. QED
      BY <2>3, <3>1, BackedQuiet DEF Touch, Read
  <2>4. CASE ClearRange(t, r.lo .. r.hi)
    BY <2>2, <2>4, ClearRangeBacked
  <2>5. CASE Map(t, r.lo .. r.hi, r.op)
    <3>1. /\ maps' = [maps EXCEPT ![ProcOf[t]] = @ \cup
              {[id |-> NewId(ProcOf[t]), pages |-> r.lo .. r.hi, kind |-> r.op, entries |-> {}]}]
          /\ present' = [present EXCEPT ![ProcOf[t]] = @ \ (r.lo .. r.hi)]
          /\ UNCHANGED <<st, range>>
          /\ maps \in [Proc -> SUBSET Mapping] /\ present \in [Proc -> SUBSET Page]
      BY <2>5 DEF Map, HeldInv, TypeOK
    <3>2. \A q \in Proc : present'[q] \subseteq present[q] /\ maps[q] \subseteq maps'[q]
      BY <3>1
    <3>3. QED
      BY <3>1, <3>2 DEF PresentIsBacked, MappingOf
  <2>6. QED
    BY <2>1, <2>3, <2>4, <2>5
<1>5. ASSUME NEW t \in Thread, DisableRange(t)
      PROVE  PresentIsBacked'
  <2>1. /\ present' = [present EXCEPT ![ProcOf[t]] = @ \ range[t]]
        /\ st' = [st EXCEPT ![t] = "user"] /\ range' = [range EXCEPT ![t] = {}]
        /\ UNCHANGED maps
        /\ present \in [Proc -> SUBSET Page] /\ t \in DOMAIN st /\ t \in DOMAIN range
    BY <1>5 DEF DisableRange, HeldInv, TypeOK
  <2>2. \A q \in Proc : /\ present'[q] \subseteq present[q]
                        /\ q = ProcOf[t] => present'[q] \cap range[t] = {}
    BY <2>1
  <2>3. \A u \in Thread \ {t} : st'[u] = st[u] /\ range'[u] = range[u]
    BY <2>1
  <2>4. QED
    BY <2>1, <2>2, <2>3 DEF PresentIsBacked, MappingOf
<1>6. ASSUME NEW t \in Thread, Leave(t) \/ ReadCheck(t) \/ QueueFault(t) \/ QueueRead(t)
      PROVE  PresentIsBacked'
  <2>1. ClearStays
    BY <1>1, <1>6 DEF Leave, ReadCheck, NextPage, QueueFault, QueueRead, HeldInv, TypeOK
  <2>2. QED
    BY <1>6, <2>1, BackedQuiet DEF Leave, ReadCheck, QueueFault, QueueRead
<1>7. ASSUME NEW t \in Thread, PfThread(t) \/ PfCallback(t) \/ PfRead(t)
      PROVE  PresentIsBacked'
  <2>1. st[t] = "wait" /\ page[t] \in Page /\ ProcOf[t] \in Proc
    <3>1. (PfThread(t) \/ PfCallback(t)) => 1 \in DOMAIN pfault /\ Holds(pfault[1], t)
      BY DEF PfThread, PfCallback, HeldInv, PfShape, TypeOK, Holds
    <3>2. st[t] = "wait"
      BY <1>7, <3>1 DEF PfRead, HeldInv, HeldWaits
    <3>3. QED
      BY <3>2 DEF HeldInv, PageShape
  <2>2. ClearStays
    BY <1>1, <1>7, <2>1 DEF PfThread, PfCallback, PfRead, PfNextPage, WhenNotRunning, HeldInv, TypeOK
  <2>3. CASE MapPage(ProcOf[t], page[t]) /\ SyncResolves(ProcOf[t], page[t])
    BY <2>1, <2>2, <2>3, MapPageBacked DEF SyncResolves
  <2>4. CASE UNCHANGED <<maps, present>>
    BY <2>2, <2>4, BackedQuiet
  <2>5. QED
    BY <1>7, <2>3, <2>4 DEF PfThread, PfCallback, PfRead
<1>8. CASE PfRelock
  <2>1. pfault[1].proc \in Proc /\ pfault[1].page \in Page
    BY <1>8 DEF PfRelock, HeldInv, TypeOK, PfShape, Entry
  <2>2. ClearStays
    BY <1>2, <1>8 DEF PfRelock
  <2>3. CASE /\ MapPage(pfault[1].proc, pfault[1].page)
             /\ \E m \in MappingOf(pfault[1].proc, pfault[1].page) : pfMap = <<m.id, First(m)>>
    BY <2>1, <2>2, <2>3, MapPageBacked
  <2>4. CASE UNCHANGED <<maps, present>>
    BY <2>2, <2>4, BackedQuiet
  <2>5. QED
    BY <1>8, <2>3, <2>4 DEF PfRelock
<1>9. ASSUME UNCHANGED pageVars
      PROVE  PresentIsBacked'
  BY <1>2, <1>9, BackedQuiet DEF pageVars
<1>10. CASE \/ PfAcquire \/ PfTake \/ PfResolve \/ PfLoad \/ PfUnlist \/ PfDone
            \/ UNCHANGED vars
            \/ \E t \in Thread : Enter(t) \/ ReleaseRun(t)
  BY <1>9, <1>10 DEF PfAcquire, PfTake, PfResolve, PfLoad, PfUnlist, PfDone, vars, Enter, ReleaseRun
<1>11. QED
  BY <1>3, <1>4, <1>5, <1>6, <1>7, <1>8, <1>10 DEF Next, Pf, Kernel

\* A present page belongs to a mapping that has the physical page, except
\* between ClearRange() and DisableRange() of a munmap() of it: what
\* resolve_page() loads without the lock never ends up in a page table after its
\* mapping has gone.
THEOREM PresentIsBackedHolds == Spec => []PresentIsBacked
<1>1. Init => PresentIsBacked
  BY DEF Init, PresentIsBacked
<1>2. HeldInv /\ PresentIsBacked /\ [Next]_vars => PresentIsBacked'
  BY BackedStep
<1>3. QED
  BY <1>1, <1>2, HeldInvariant, PTL DEF Spec

-----------------------------------------------------------------------------
(* Members of an entry are at its page *)

\* A step that changes no entry and no page of a thread that waits in one keeps
\* each thread in an entry of its own page.
LEMMA EntryAtPageQuiet ==
    ASSUME EntryAtPage, UNCHANGED faults, Listed' => Listed /\ pfault' = pfault,
           \A u \in Thread : \/ \E i \in DOMAIN faults : Holds(faults[i], u)
                             \/ Listed' /\ Holds(pfault[1], u)
                             => page'[u] = page[u]
    PROVE  EntryAtPage'
<1>1. \A i \in DOMAIN faults' : /\ \E t \in Thread : Holds(faults'[i], t)
                                /\ \A t \in Thread : Holds(faults'[i], t) => page'[t] = faults'[i].page
  BY DEF EntryAtPage
<1>2. Listed' => /\ \E t \in Thread : Holds(pfault'[1], t)
                 /\ \A t \in Thread : Holds(pfault'[1], t) => page'[t] = pfault'[1].page
  BY DEF EntryAtPage
<1>3. QED
  BY <1>1, <1>2 DEF EntryAtPage

\* The entry that t joins is one for its page.
LEMMA RecordAtPage ==
    ASSUME HeldInv, EntryAtPage, NEW t \in Thread, page[t] \in Page,
           NEW T \in SUBSET {t}, NEW C \in SUBSET {t}, T \cup C = {t},
           Record(ProcOf[t], page[t], T, C), UNCHANGED page, Listed' => Listed
    PROVE  EntryAtPage'
<1> USE SnapshotAssumption
<1>0. /\ faults \in Seq(Entry) /\ \A i \in DOMAIN faults : faults[i] \in Entry
      /\ Listed => \E e \in Entry : pfault = <<e>>
      /\ DOMAIN faults = 1 .. Len(faults) /\ Len(faults) \in Nat
  BY DEF HeldInv, TypeOK, PfShape, Listed
<1>1. \A e \in Entry : /\ Join(e, T, C).page = e.page
                       /\ \A u \in Thread : Holds(Join(e, T, C), u) <=> Holds(e, u) \/ u = t
  BY DEF Join, Entry, Holds
<1>2. CASE \E i \in DOMAIN faults : faults[i].page = page[t] /\ JoinsQueued(i, T, C)
  <2>1. PICK i \in DOMAIN faults : faults[i].page = page[t] /\ JoinsQueued(i, T, C)
    BY <1>2
  <2>2. /\ DOMAIN faults' = DOMAIN faults /\ pfault' = pfault
        /\ faults'[i] = Join(faults[i], T, C)
        /\ \A j \in DOMAIN faults : j # i => faults'[j] = faults[j]
    BY <1>0, <2>1 DEF JoinsQueued
  <2>3. QED
    BY <1>0, <1>1, <2>1, <2>2 DEF EntryAtPage
<1>3. CASE Listed /\ pfault[1].page = page[t] /\ JoinsListed(T, C)
  <2>1. PICK e \in Entry : pfault = <<e>>
    BY <1>0, <1>3
  <2>2. faults' = faults /\ pfault'[1] = Join(pfault[1], T, C) /\ pfault[1] \in Entry
    BY <1>3, <2>1 DEF JoinsListed
  <2>3. QED
    BY <1>1, <1>3, <2>2 DEF EntryAtPage
<1>4. CASE Queues(ProcOf[t], page[t], T, C)
  <2> DEFINE new == [proc |-> ProcOf[t], page |-> page[t], threads |-> T, callbacks |-> C]
  <2>1. /\ DOMAIN faults' = DOMAIN faults \cup {Len(faults) + 1} /\ pfault' = pfault
        /\ faults'[Len(faults) + 1] = new
        /\ \A j \in DOMAIN faults : faults'[j] = faults[j]
    <3> HIDE DEF new
    <3>1. faults' = Append(faults, new) /\ pfault' = pfault
      BY <1>4 DEF Queues, new
    <3>2. QED
      BY <1>0, <3>1
  <2>2. new.page = page[t] /\ \A u \in Thread : Holds(new, u) <=> u = t
    BY DEF Holds
  <2>3. QED
    BY <2>1, <2>2 DEF EntryAtPage
<1>5. QED
  BY <1>2, <1>3, <1>4, RecordCases

\* Every step keeps each waiting thread in an entry of the page it faulted on.
LEMMA EntryAtPageStep ==
    ASSUME HeldInv, EntryAtPage, [Next]_vars
    PROVE  EntryAtPage'
<1> USE SnapshotAssumption
\* Only threads that wait are in an entry.
<1>1. ASSUME NEW t \in Thread, st[t] # "wait", \A u \in Thread \ {t} : page'[u] = page[u],
             UNCHANGED <<faults, pfault, pfAt>>
      PROVE  EntryAtPage'
  <2>1. (\A i \in DOMAIN faults : ~Holds(faults[i], t)) /\ \A i \in DOMAIN pfault : ~Holds(pfault[i], t)
    BY <1>1 DEF HeldInv, HeldWaits
  <2>2. Listed => 1 \in DOMAIN pfault
    BY DEF HeldInv, PfShape, TypeOK, Listed
  <2>3. QED
    BY <1>1, <2>1, <2>2, EntryAtPageQuiet DEF Listed
<1>2. ASSUME NEW t \in Thread, QueueFault(t) \/ QueueRead(t)
      PROVE  EntryAtPage'
  <2>1. PICK T, C \in SUBSET {t} : T \cup C = {t} /\ Record(ProcOf[t], page[t], T, C)
    BY <1>2 DEF QueueFault, QueueRead
  <2>2. page[t] \in Page /\ (Listed' => Listed) /\ page' = page
    BY <1>2 DEF QueueFault, QueueRead, HeldInv, PageShape, Listed
  <2>3. QED
    BY <2>1, <2>2, RecordAtPage
<1>3. ASSUME NEW t \in Thread, PfRead(t)
      PROVE  EntryAtPage'
  <2>1. ~Listed' /\ ~Listed
    <3>1. pfAt \in {"check", "sync", "call"}
      BY <1>3 DEF PfRead, HeldInv, PfShape
    <3>2. QED
      BY <1>3, <3>1 DEF PfRead, PfNextPage, Listed
  <2>2. \A i \in DOMAIN faults : ~Holds(faults[i], t)
    BY <1>3 DEF PfRead, HeldInv, HeldOnce
  <2>3. CASE UNCHANGED faults
    <3>1. \A u \in Thread \ {t} : page'[u] = page[u]
      BY <1>3, <2>3 DEF PfRead, PfNextPage, WhenNotRunning, HeldInv, TypeOK
    <3>2. QED
      BY <2>1, <2>2, <2>3, <3>1, EntryAtPageQuiet
  <2>4. CASE Record(ProcOf[t], page[t], {}, {t}) /\ page' = page
    <3>1. page[t] \in Page /\ {} \in SUBSET {t} /\ {t} \in SUBSET {t} /\ {} \cup {t} = {t}
      BY <1>3 DEF PfRead, HeldInv, PageShape, HeldWaits
    <3>2. QED
      BY <2>1, <2>4, <3>1, RecordAtPage
  <2>5. QED
    BY <1>3, <2>3, <2>4 DEF PfRead, faultVars
<1>4. CASE PfTake /\ faults # <<>>
  <2>1. /\ pfault' = <<Head(faults)>> /\ faults' = Tail(faults) /\ faults \in Seq(Entry) /\ page' = page
    BY <1>4 DEF PfTake, HeldInv, TypeOK, pageVars
  <2>2. /\ 1 \in DOMAIN faults /\ pfault'[1] = faults[1]
        /\ \A i \in DOMAIN faults' : faults'[i] = faults[i + 1] /\ i + 1 \in DOMAIN faults
    BY <1>4, <2>1
  <2>3. QED
    BY <2>1, <2>2 DEF EntryAtPage
<1>5. CASE \/ PfAcquire \/ (PfTake /\ faults = <<>>) \/ PfResolve \/ PfLoad \/ PfRelock
           \/ PfUnlist \/ PfDone
  <2>1. UNCHANGED <<faults, page>> /\ (Listed' => Listed /\ pfault' = pfault)
    BY <1>5 DEF PfAcquire, PfTake, PfResolve, PfLoad, PfRelock, PfUnlist, PfDone,
       Listed, faultVars, pageVars
  <2>2. QED
    BY <2>1, EntryAtPageQuiet
<1>6. ASSUME NEW t \in Thread, PfThread(t) \/ PfCallback(t)
      PROVE  EntryAtPage'
  <2>1. pfAt = "report" /\ 1 \in DOMAIN pfault /\ Holds(pfault[1], t)
    BY <1>6 DEF PfThread, PfCallback, HeldInv, PfShape, TypeOK, Holds
  <2>2. \A i \in DOMAIN faults : ~Holds(faults[i], t)
    BY <2>1 DEF HeldInv, HeldOnce
  <2>3. UNCHANGED faults /\ ~Listed' /\ \A u \in Thread \ {t} : page'[u] = page[u]
    BY <1>6, <2>1 DEF PfThread, PfCallback, WhenNotRunning, Listed, faultVars, HeldInv, TypeOK
  <2>4. QED
    BY <2>2, <2>3, EntryAtPageQuiet
<1>7. ASSUME NEW t \in Thread, \/ User(t) \/ DisableRange(t) \/ SyncFault(t) \/ ReadCheck(t)
                               \/ ReadSync(t)
      PROVE  EntryAtPage'
  <2>1. UNCHANGED <<faults, pfault, pfAt>>
    BY <1>7 DEF User, Touch, Read, ClearRange, Map,
                DisableRange, SyncFault, ReadCheck, ReadSync, faultVars, pfVars
  <2>2. st[t] # "wait"
    BY <1>7 DEF User, Touch, Read, ClearRange, Map, Begin,
                DisableRange, SyncFault, ReadCheck, ReadSync
  <2>3. \A u \in Thread \ {t} : page'[u] = page[u]
    BY <1>7 DEF User, Touch, Read, ClearRange, Map, NextPage,
                DisableRange, SyncFault, ReadCheck, ReadSync, HeldInv, TypeOK
  <2>4. QED
    BY <1>1, <2>1, <2>2, <2>3
<1>8. ASSUME NEW t \in Thread, Leave(t)
      PROVE  EntryAtPage'
  <2>1. UNCHANGED <<faults, pfault, pfAt>> /\ (\A u \in Thread \ {t} : page'[u] = page[u])
        /\ (t \notin resume => page' = page)
    BY <1>8 DEF Leave, faultVars, pfVars, HeldInv, TypeOK
  <2>2. t \in resume => /\ \A i \in DOMAIN faults : ~Holds(faults[i], t)
                        /\ \A i \in DOMAIN pfault : ~Holds(pfault[i], t)
    BY DEF HeldInv, HeldOnce
  <2>3. Listed => 1 \in DOMAIN pfault
    BY DEF HeldInv, PfShape, TypeOK, Listed
  <2>4. QED
    BY <2>1, <2>2, <2>3, EntryAtPageQuiet DEF Listed
<1>9. CASE UNCHANGED vars \/ \E t \in Thread : Enter(t) \/ ReleaseRun(t)
  <2>1. UNCHANGED <<faults, pfault, pfAt, page>>
    BY <1>9 DEF vars, Enter, ReleaseRun, faultVars, pfVars, pageVars
  <2>2. QED
    BY <2>1, EntryAtPageQuiet DEF Listed
<1>10. QED
  BY <1>2, <1>3, <1>4, <1>5, <1>6, <1>7, <1>8, <1>9 DEF Next, Pf, Kernel

-----------------------------------------------------------------------------
(* Threads that nobody interfered with *)

\* The mapping of page h, what it lacks and where it begins are as they were.
MapStill(q, h) ==
    /\ \A m \in maps[q] : h \in m.pages =>
          \E n \in maps'[q] : h \in n.pages /\ n.id = m.id /\ First(n) = First(m)
    /\ \A n \in maps'[q] : h \in n.pages =>
          \E m \in maps[q] : h \in m.pages /\ n.kind = m.kind /\ (h \in n.entries => h \in m.entries)
    /\ h \in present'[q] => h \in present[q]

\* The entry of u is where it was.
EntryStill(u) ==
    /\ \A i \in DOMAIN faults : u \in faults[i].threads =>
          /\ i \in DOMAIN faults'
          /\ u \in faults'[i].threads /\ faults'[i].proc = faults[i].proc
    /\ pfault # <<>> /\ u \in pfault[1].threads =>
          pfault' # <<>> /\ u \in pfault'[1].threads /\ pfault'[1].proc = pfault[1].proc
    /\ pfault' # <<>> /\ u \in pfault'[1].threads => pfault # <<>> /\ u \in pfault[1].threads

\* The [pfault] thread did not come to another result.
PfStill ==
    /\ Reporting' <=> Reporting
    /\ pfAt' \in {"load", "relock"} => pfAt \in {"load", "relock"}
    /\ pfOk' = pfOk /\ pfMap' = pfMap

\* Nobody came to the page of u or changed what is mapped there.
Undisturbed(u) ==
    /\ st'[u] = st[u] /\ page'[u] = page[u] /\ (u \in resume' <=> u \in resume)
    /\ ~Answered(u) =>
          /\ MapStill(ProcOf[u], page[u])
          /\ \A v \in Thread \ {u} : page'[v] = page[u] => page[v] = page[u]

\* A step that neither disturbs the mapping of an undisturbed thread nor moves its
\* entry keeps what is known of that thread.
LEMMA CleanStays ==
    ASSUME HeldInv, HeldInv', NEW u \in Thread, CleanAt(u), Undisturbed(u), EntryStill(u), PfStill
    PROVE  CleanAt(u)'
<1>0. (Reporting \/ pfAt \in {"load", "relock"} => pfault # <<>>)
      /\ (Reporting' \/ pfAt' \in {"load", "relock"} => pfault' # <<>>)
  BY DEF HeldInv, PfShape, Reporting
<1>1. Answered(u)' <=> Answered(u)
  BY DEF Undisturbed, EntryStill, PfStill, Answered
<1>2. CleanAlone(u)'
  BY <1>1 DEF Undisturbed, CleanAt, CleanAlone, Others
<1>3. CleanMissing(u)'
  <2>1. ~Answered(u) /\ Missing(u) => Missing(u)'
    BY DEF Undisturbed, MapStill, Missing, MappingOf
  <2>2. ~Answered(u) /\ OnFile(u) => OnFile(u)'
    BY DEF Undisturbed, MapStill, OnFile, MappingOf
  <2>3. QED
    BY <1>1, <2>1, <2>2 DEF Undisturbed, CleanAt, CleanMissing
<1>4. CleanEntry(u)'
  BY DEF Undisturbed, EntryStill, CleanAt, CleanEntry
<1>5. CleanFound(u)'
  <2>1. SUFFICES ASSUME pfAt' \in {"load", "relock"}, u \in pfault'[1].threads
                 PROVE  \E m \in MappingOf(ProcOf[u], page[u])' : pfMap' = <<m.id, First(m)>>
    BY DEF CleanFound
  <2>2. pfAt \in {"load", "relock"} /\ u \in pfault[1].threads /\ pfault # <<>>
    BY <1>0, <2>1 DEF PfStill, EntryStill
  <2>3. ~Answered(u)
    <3>1. 1 \in DOMAIN pfault /\ Holds(pfault[1], u)
      BY <2>2 DEF HeldInv, TypeOK, Holds
    <3>2. QED
      BY <2>2, <3>1 DEF Answered, Reporting, HeldInv, HeldOnce
  <2>4. PICK m \in MappingOf(ProcOf[u], page[u]) : pfMap = <<m.id, First(m)>>
    BY <2>2 DEF CleanAt, CleanFound
  <2>5. PICK n \in maps'[ProcOf[u]] : page[u] \in n.pages /\ n.id = m.id /\ First(n) = First(m)
    BY <2>3, <2>4 DEF Undisturbed, MapStill, MappingOf
  <2>6. n \in MappingOf(ProcOf[u], page[u])'
    BY <2>5 DEF MappingOf, Undisturbed
  <2>7. QED
    BY <2>4, <2>5, <2>6 DEF PfStill
<1>6. CleanOk(u)'
  BY <1>0 DEF EntryStill, PfStill, CleanAt, CleanOk
<1>7. QED
  BY <1>2, <1>3, <1>4, <1>5, <1>6 DEF CleanAt

\* A process whose map is unchanged and whose page table gains nothing is still.
LEMMA MapStillSame ==
    ASSUME NEW q, NEW h, maps'[q] = maps[q], h \in present'[q] => h \in present[q]
    PROVE  MapStill(q, h)
BY DEF MapStill

\* A page that is mapped elsewhere.
LEMMA MapPageStill ==
    ASSUME HeldInv, NEW p \in Proc, NEW g \in Page, MapPage(p, g),
           NEW q \in Proc, NEW h, h # g
    PROVE  MapStill(q, h)
<1>1. /\ maps' = [maps EXCEPT ![p] = {WithEntry(m, g) : m \in @}]
      /\ maps \in [Proc -> SUBSET Mapping]
      /\ h \in present'[q] => h \in present[q]
  BY DEF MapPage, HeldInv, TypeOK
<1>2. \A m \in Mapping : /\ WithEntry(m, g).pages = m.pages /\ WithEntry(m, g).id = m.id
                         /\ WithEntry(m, g).kind = m.kind
                         /\ h \in WithEntry(m, g).entries => h \in m.entries
  BY DEF WithEntry, Mapping
<1>3. \A m \in Mapping : First(WithEntry(m, g)) = First(m)
  BY <1>2 DEF First
<1>4. CASE q # p
  BY <1>1, <1>4, MapStillSame
<1>5. CASE q = p
  <2>1. maps'[q] = {WithEntry(m, g) : m \in maps[q]} /\ \A m \in maps[q] : m \in Mapping
    BY <1>1, <1>5
  <2>2. QED
    BY <1>1, <1>2, <1>3, <2>1 DEF MapStill
<1>6. QED
  BY <1>4, <1>5

\* Mappings that ClearRange() does not touch.
LEMMA RemainsInside ==
    ASSUME NEW m \in Mapping, NEW U, NEW id
    PROVE  /\ m.pages \cap U = {} => Remains(m, U, id) = {m}
           /\ \A n \in Remains(m, U, id) : n.pages \subseteq m.pages
<1> DEFINE below == {h \in m.pages : \A u \in U : h < u}
           above == {h \in m.pages : \A u \in U : h > u}
           Cut(P, i) == [m EXCEPT !.pages = P, !.entries = @ \cap P, !.id = i]
<1>1. \A P, i : Cut(P, i).pages = P
  BY DEF Mapping
<1>2. below \subseteq m.pages /\ above \subseteq m.pages
  OBVIOUS
<1> HIDE DEF Cut, below, above
<1>3. Remains(m, U, id) = IF m.pages \cap U = {} THEN {m}
                          ELSE IF below = {} /\ above = {} THEN {}
                          ELSE IF above = {} THEN {Cut(below, m.id)}
                          ELSE IF below = {} THEN {Cut(above, m.id)}
                          ELSE {Cut(below, m.id), Cut(above, id)}
  BY DEF Remains, Cut, below, above
<1>4. QED
  BY <1>1, <1>2, <1>3

\* munmap and mprotect leave the pages of the mappings they do not touch as they
\* were.
LEMMA ClearRangeStill ==
    ASSUME HeldInv, NEW t \in Thread, NEW U, ClearRange(t, U), NEW q \in Proc, NEW h,
           ~(q = ProcOf[t] /\ h \in UNION {m.pages : m \in {x \in maps[q] : x.pages \cap U # {}}})
    PROVE  MapStill(q, h)
<1> USE SnapshotAssumption
<1> DEFINE p == ProcOf[t]
<1>1. /\ maps' = [maps EXCEPT ![p] = UNION {Remains(m, U, NewId(p)) : m \in @}]
      /\ maps \in [Proc -> SUBSET Mapping] /\ p \in Proc
      /\ present' = present
  BY DEF ClearRange, HeldInv, TypeOK
<1>2. CASE q # p
  BY <1>1, <1>2, MapStillSame
<1>3. CASE q = p
  <2>1. maps'[q] = UNION {Remains(m, U, NewId(p)) : m \in maps[q]}
    BY <1>1, <1>3
  <2>2. \A m \in maps[q] : h \in m.pages => m.pages \cap U = {}
    BY <1>3
  <2>3. \A m \in maps[q] : m \in Mapping
    BY <1>1
  <2>4. \A m \in maps[q] : h \in m.pages => m \in maps'[q]
    <3>1. TAKE m \in maps[q]
    <3>2. HAVE h \in m.pages
    <3>3. Remains(m, U, NewId(p)) = {m}
      BY <2>2, <2>3, <3>2, RemainsInside
    <3>4. QED
      BY <2>1, <3>3
  <2>5. \A n \in maps'[q] : h \in n.pages => n \in maps[q]
    <3>1. TAKE n \in maps'[q]
    <3>2. HAVE h \in n.pages
    <3>3. PICK m \in maps[q] : n \in Remains(m, U, NewId(p))
      BY <2>1
    <3>4. h \in m.pages
      BY <2>3, <3>2, <3>3, RemainsInside
    <3>5. Remains(m, U, NewId(p)) = {m}
      BY <2>2, <2>3, <3>4, RemainsInside
    <3>6. QED
      BY <3>3, <3>5
  <2>6. QED
    BY <1>1, <2>4, <2>5 DEF MapStill
<1>4. QED
  BY <1>2, <1>3

\* Recording a fault of one thread moves the entry of no other.
LEMMA RecordStill ==
    ASSUME HeldInv, NEW t \in Thread, NEW p, NEW g, NEW T \in SUBSET {t}, NEW C \in SUBSET {t},
           Record(p, g, T, C), NEW u \in Thread \ {t}
    PROVE  EntryStill(u)
<1>0. /\ faults \in Seq(Entry) /\ \A i \in DOMAIN faults : faults[i] \in Entry
      /\ Listed => \E e \in Entry : pfault = <<e>>
      /\ DOMAIN faults = 1 .. Len(faults) /\ Len(faults) \in Nat
  BY DEF HeldInv, TypeOK, PfShape, Listed
<1>1. \A e \in Entry : /\ Join(e, T, C).proc = e.proc
                       /\ u \in Join(e, T, C).threads <=> u \in e.threads
  BY DEF Join, Entry
<1>2. CASE \E i \in DOMAIN faults : faults[i].page = g /\ JoinsQueued(i, T, C)
  <2>1. PICK i \in DOMAIN faults : faults[i].page = g /\ JoinsQueued(i, T, C)
    BY <1>2
  <2>2. /\ DOMAIN faults' = DOMAIN faults /\ pfault' = pfault
        /\ faults'[i] = Join(faults[i], T, C)
        /\ \A j \in DOMAIN faults : j # i => faults'[j] = faults[j]
    BY <1>0, <2>1 DEF JoinsQueued
  <2>3. QED
    BY <1>0, <1>1, <2>1, <2>2 DEF EntryStill
<1>3. CASE Listed /\ JoinsListed(T, C)
  <2>1. PICK e \in Entry : pfault = <<e>>
    BY <1>0, <1>3
  <2>2. /\ faults' = faults /\ pfault'[1] = Join(pfault[1], T, C) /\ pfault[1] \in Entry
        /\ pfault # <<>> /\ pfault' # <<>>
    BY <1>3, <2>1 DEF JoinsListed
  <2>3. QED
    BY <1>1, <2>2 DEF EntryStill
<1>4. CASE Queues(p, g, T, C)
  <2>1. /\ DOMAIN faults \subseteq DOMAIN faults' /\ pfault' = pfault
        /\ \A j \in DOMAIN faults : faults'[j] = faults[j]
    BY <1>0, <1>4 DEF Queues
  <2>2. QED
    BY <2>1 DEF EntryStill
<1>5. QED
  BY <1>2, <1>3, <1>4, RecordCases

\* Nobody refers to a thread that does not wait.
LEMMA NotWaiting ==
    ASSUME HeldInv, NEW t \in Thread, st[t] # "wait"
    PROVE  /\ t \notin resume /\ ~Answered(t)
           /\ pfault # <<>> => t \notin pfault[1].threads
<1>1. t \notin resume /\ \A i \in DOMAIN pfault : ~Holds(pfault[i], t)
  BY DEF HeldInv, HeldWaits
<1>2. pfault # <<>> => 1 \in DOMAIN pfault
  BY DEF HeldInv, TypeOK
<1>3. QED
  BY <1>1, <1>2 DEF Answered, Holds

\* A step of t by itself: the others need only be left alone.
LEMMA ThreadClean ==
    ASSUME HeldInv, HeldInv', CleanInv, NEW t \in Thread,
           UNCHANGED <<resume, faults, pfault, pfAt, pfMap, pfOk>>,
           \A u \in Thread \ {t} : st'[u] = st[u] /\ page'[u] = page[u],
           \A u \in clean' \ {t} :
              /\ u \in clean
              /\ ~Answered(u) => /\ MapStill(ProcOf[u], page[u])
                                 /\ page'[t] = page[u] => page[t] = page[u],
           t \in clean' => CleanAt(t)'
    PROVE  \A u \in clean' : CleanAt(u)'
<1>1. SUFFICES ASSUME NEW u \in clean' \ {t}
               PROVE  CleanAt(u)'
  OBVIOUS
<1>2. u \in Thread /\ u \in clean /\ CleanAt(u)
  BY DEF HeldInv, TypeOK, CleanInv
<1>3. PfStill
  BY DEF PfStill, Reporting
<1>4. EntryStill(u)
  BY DEF EntryStill
<1>5. Undisturbed(u)
  BY <1>2 DEF Undisturbed
<1>6. QED
  BY <1>2, <1>3, <1>4, <1>5, CleanStays

\* Faults taken in user mode keep what is known of the undisturbed threads.
LEMMA UserClean ==
    ASSUME HeldInv, HeldInv', CleanInv, NEW t \in Thread, User(t)
    PROVE  \A u \in clean' : CleanAt(u)'
<1> USE SnapshotAssumption
<1>1. PICK r \in Ops[t] :
        \/ r.op = "touch" /\ Touch(t, r.lo)
        \/ r.op = "read" /\ Read(t, r.lo, r.hi)
        \/ r.op = "unmap" /\ ClearRange(t, r.lo .. r.hi)
        \/ r.op \in Kind /\ Map(t, r.lo .. r.hi, r.op)
  BY DEF User
<1>2. /\ st[t] = "user" /\ t \notin clean
      /\ UNCHANGED <<resume, faults, pfault, pfAt, pfMap, pfOk>>
      /\ \A u \in Thread \ {t} : st'[u] = st[u] /\ page'[u] = page[u]
      /\ clean \subseteq Thread
  <2>1. st[t] = "user" /\ clean \subseteq Thread
    BY <1>1 DEF Touch, Read, ClearRange, Map, Begin, HeldInv, TypeOK
  <2>2. t \notin clean
    BY <2>1 DEF CleanInv, CleanAt, CleanAlone
  <2>3. /\ UNCHANGED <<resume, faults, pfault, pfAt, pfMap, pfOk>>
        /\ \A u \in Thread \ {t} : st'[u] = st[u] /\ page'[u] = page[u]
    BY <1>1 DEF Touch, Read, ClearRange, Map, faultVars, pfVars, HeldInv, TypeOK
  <2>4. QED
    BY <2>1, <2>2, <2>3
<1>3. CASE Touch(t, r.lo)
  <2> DEFINE g == r.lo
  <2>1. /\ clean' = (clean \ Others(t, g)) \cup
                    {u \in {t} : Others(t, g) = {} /\ MappingOf(ProcOf[t], g) # {}}
        /\ UNCHANGED <<maps, present>> /\ page'[t] = g /\ st'[t] = "trap"
        /\ g \notin present[ProcOf[t]]
    BY <1>3 DEF Touch, HeldInv, TypeOK
  <2> HIDE DEF g
  <2>2. \A u \in clean' \ {t} : u \in clean /\ MapStill(ProcOf[u], page[u]) /\ page'[t] # page[u]
    BY <1>2, <2>1, MapStillSame DEF Others
  <2>3. ASSUME t \in clean' PROVE CleanAt(t)'
    <3>1. Others(t, g) = {} /\ MappingOf(ProcOf[t], g) # {}
      BY <1>2, <2>1, <2>3
    <3>2. ~Answered(t)' /\ (pfault' # <<>> => t \notin pfault'[1].threads)
      BY <1>2, <2>1, NotWaiting DEF Answered, Reporting
    <3>3. Others(t, page[t])' = {} /\ Missing(t)'
      BY <1>2, <2>1, <3>1 DEF Others, Missing, MappingOf
    <3>4. Reporting' \/ pfAt' \in {"load", "relock"} => pfault' # <<>>
      BY DEF HeldInv, PfShape, Reporting
    <3>5. QED
      BY <2>1, <3>2, <3>3, <3>4 DEF CleanAt, CleanAlone, CleanMissing, CleanEntry, CleanFound, CleanOk
  <2>4. QED
    BY <1>2, <2>2, <2>3, ThreadClean
<1>4. CASE Read(t, r.lo, r.hi)
  <2>1. /\ clean' = clean \ Others(t, r.lo)
        /\ UNCHANGED <<maps, present>> /\ page'[t] = r.lo
    BY <1>4 DEF Read, HeldInv, TypeOK
  <2>2. \A u \in clean' \ {t} : u \in clean /\ MapStill(ProcOf[u], page[u]) /\ page'[t] # page[u]
    BY <1>2, <2>1, MapStillSame DEF Others
  <2>3. QED
    BY <1>2, <2>1, <2>2, ThreadClean
<1>5. CASE ClearRange(t, r.lo .. r.hi)
  <2> DEFINE U == r.lo .. r.hi
             p == ProcOf[t]
  <2>1. /\ clean' = clean \ Hit(p, UNION {m.pages : m \in {x \in maps[p] : x.pages \cap U # {}}})
        /\ page' = page
    BY <1>5 DEF ClearRange
  <2>2. ASSUME NEW u \in clean' PROVE MapStill(ProcOf[u], page[u])
    <3>1. u \in Thread /\ ProcOf[u] \in Proc
      BY <1>2, <2>1, <2>2
    <3>2. ~(ProcOf[u] = p /\ page[u] \in UNION {m.pages : m \in {x \in maps[p] : x.pages \cap U # {}}})
      BY <2>1, <2>2, <3>1 DEF Hit
    <3>3. QED
      BY <1>5, <3>1, <3>2, ClearRangeStill
  <2>3. QED
    BY <1>2, <2>1, <2>2, ThreadClean
<1>6. CASE Map(t, r.lo .. r.hi, r.op)
  <2> DEFINE U == r.lo .. r.hi
             p == ProcOf[t]
             new == [id |-> NewId(p), pages |-> U, kind |-> r.op, entries |-> {}]
  <2>1. /\ maps' = [maps EXCEPT ![p] = @ \cup {new}]
        /\ present' = [present EXCEPT ![p] = @ \ U]
        /\ clean' = clean \ Hit(p, U) /\ page' = page
        /\ maps \in [Proc -> SUBSET Mapping] /\ present \in [Proc -> SUBSET Page]
    BY <1>6 DEF Map, HeldInv, TypeOK
  <2>2. new.pages = U
    OBVIOUS
  <2>3. ASSUME NEW u \in clean' PROVE MapStill(ProcOf[u], page[u])
    <3> DEFINE q == ProcOf[u]
               h == page[u]
    <3>1. u \in Thread /\ q \in Proc /\ p \in Proc
      BY <1>2, <2>1, <2>3
    <3>2. q # p \/ h \notin U
      BY <2>1, <2>3, <3>1 DEF Hit
    <3> HIDE DEF U, p, q, h, new
    <3>3. CASE q # p
      <4>1. maps'[q] = maps[q] /\ present'[q] = present[q]
        BY <2>1, <3>1, <3>3
      <4>2. QED
        BY <4>1, MapStillSame DEF q, h
    <3>4. CASE q = p /\ h \notin U
      <4>1. maps'[q] = maps[q] \cup {new} /\ present'[q] = present[q] \ U
        BY <2>1, <3>1, <3>4
      <4>2. MapStill(q, h)
        BY <2>2, <3>4, <4>1 DEF MapStill
      <4>3. QED
        BY <4>2 DEF q, h
    <3>5. QED
      BY <3>2, <3>3, <3>4
  <2>4. QED
    BY <1>2, <2>1, <2>3, ThreadClean
<1>7. QED
  BY <1>1, <1>3, <1>4, <1>5, <1>6

\* So do the system calls, except for the threads they disturb.
LEMMA KernelClean ==
    ASSUME HeldInv, HeldInv', CleanInv, NEW t \in Thread,
           DisableRange(t) \/ SyncFault(t) \/ ReadCheck(t) \/ ReadSync(t)
    PROVE  \A u \in clean' : CleanAt(u)'
<1> USE SnapshotAssumption
<1>1. /\ UNCHANGED <<resume, faults, pfault, pfAt, pfMap, pfOk>>
      /\ \A u \in Thread \ {t} : st'[u] = st[u] /\ page'[u] = page[u]
      /\ clean \subseteq Thread /\ \A u \in Thread : ProcOf[u] \in Proc
      /\ st[t] # "wait"
  BY DEF DisableRange, SyncFault, ReadCheck, ReadSync, NextPage, faultVars, pfVars, HeldInv, TypeOK
<1>2. st[t] # "trap" => t \notin clean
  BY DEF CleanInv, CleanAt, CleanAlone, DisableRange, SyncFault, ReadCheck, ReadSync
\* Whoever is not answered yet is at another page.
<1>3. ASSUME MapPage(ProcOf[t], page[t]), page[t] \in Page, NEW u \in clean \ {t}, ~Answered(u)
      PROVE  MapStill(ProcOf[u], page[u])
  <2>1. Others(u, page[u]) = {} /\ u \in Thread
    BY <1>1, <1>3 DEF CleanInv, CleanAt, CleanAlone
  <2>2. page[u] # page[t]
    BY <1>3, <2>1 DEF Others
  <2>3. QED
    BY <1>1, <1>3, <2>1, <2>2, MapPageStill
<1>4. ASSUME NextPage(t), page[t] \in Page, t \notin clean
      PROVE  t \notin clean' /\ \A u \in clean' \ {t} : u \in clean /\ page'[t] # page[u]
  <2>1. \A u \in clean : page[u] \in Page
    BY <1>1 DEF CleanInv, CleanAt, CleanAlone, HeldInv, PageShape
  <2>2. CASE page[t] < last[t]
    <3>1. page'[t] = page[t] + 1 /\ clean' = clean \ Others(t, page[t] + 1)
      BY <1>4, <2>2 DEF NextPage, HeldInv, TypeOK
    <3>2. QED
      BY <1>1, <1>4, <3>1 DEF Others
  <2>3. CASE ~(page[t] < last[t])
    <3>1. page'[t] = 0 /\ clean' = clean
      BY <1>4, <2>3 DEF NextPage, HeldInv, TypeOK
    <3>2. QED
      BY <1>4, <2>1, <3>1 DEF Page
  <2>4. QED
    BY <2>2, <2>3
<1>5. CASE DisableRange(t)
  <2>1. /\ clean' = clean /\ page' = page /\ maps' = maps
        /\ \A q \in Proc : present'[q] \subseteq present[q]
        /\ st[t] = "clear"
    BY <1>5 DEF DisableRange, HeldInv, TypeOK
  <2>2. \A u \in clean' : MapStill(ProcOf[u], page[u])
    BY <1>1, <2>1, MapStillSame
  <2>3. QED
    BY <1>1, <1>2, <2>1, <2>2, ThreadClean
<1>6. CASE SyncFault(t) /\ st'[t] = "user"
  <2>1. /\ MapPage(ProcOf[t], page[t]) /\ clean' = clean \ {t} /\ page'[t] = 0 /\ st[t] = "trap"
    BY <1>6 DEF SyncFault, HeldInv, TypeOK
  <2>2. page[t] \in Page /\ \A u \in clean : page[u] \in Page
    BY <1>1, <2>1 DEF CleanInv, CleanAt, CleanAlone, HeldInv, PageShape
  <2>3. \A u \in clean' \ {t} : page'[t] # page[u]
    BY <2>1, <2>2 DEF Page
  <2>4. QED
    BY <1>1, <1>3, <2>1, <2>2, <2>3, ThreadClean
<1>7. CASE SyncFault(t) /\ st'[t] # "user"
  <2>1. /\ st[t] = "trap" /\ st'[t] = "fault" /\ UNCHANGED <<maps, present, page>>
        /\ clean' \subseteq clean
        /\ t \in clean' => ~SyncResolves(ProcOf[t], page[t])
    BY <1>7 DEF SyncFault, HeldInv, TypeOK
  <2>2. \A u \in clean' : MapStill(ProcOf[u], page[u])
    BY <2>1, MapStillSame
  <2>3. ASSUME t \in clean' PROVE CleanAt(t)'
    <3>1. ~Answered(t) /\ CleanAt(t)
      BY <2>1, <2>3, NotWaiting DEF CleanInv
    <3>2. Missing(t) /\ Others(t, page[t]) = {}
      BY <3>1 DEF CleanAt, CleanAlone, CleanMissing
    <3>3. OnFile(t)
      BY <2>1, <2>3, <3>2 DEF SyncResolves, Missing, OnFile
    <3>4. ~Answered(t)' /\ (pfault' # <<>> => t \notin pfault'[1].threads)
      BY <1>1, <2>1, NotWaiting DEF Answered, Reporting
    <3>5. Missing(t)' /\ OnFile(t)' /\ Others(t, page[t])' = {}
      BY <2>1, <3>2, <3>3 DEF Missing, OnFile, Others, MappingOf
    <3>6. Reporting' \/ pfAt' \in {"load", "relock"} => pfault' # <<>>
      BY DEF HeldInv, PfShape, Reporting
    <3>7. QED
      BY <2>1, <3>4, <3>5, <3>6 DEF CleanAt, CleanAlone, CleanMissing, CleanEntry, CleanFound, CleanOk
  <2>4. QED
    BY <1>1, <2>1, <2>2, <2>3, ThreadClean
<1>8. CASE (ReadCheck(t) \/ ReadSync(t)) /\ ~NextPage(t)
  <2>1. t \notin clean /\ UNCHANGED <<maps, present, page, clean>>
    BY <1>2, <1>8 DEF ReadCheck, ReadSync
  <2>2. \A u \in clean' : MapStill(ProcOf[u], page[u])
    BY <2>1, MapStillSame
  <2>3. QED
    BY <1>1, <2>1, <2>2, ThreadClean
<1>9. CASE (ReadCheck(t) \/ ReadSync(t)) /\ NextPage(t)
  <2>1. t \notin clean /\ page[t] \in Page
    BY <1>2, <1>9 DEF ReadCheck, ReadSync, HeldInv, PageShape
  <2>2. t \notin clean' /\ \A u \in clean' \ {t} : u \in clean /\ page'[t] # page[u]
    BY <1>4, <1>9, <2>1
  <2>3. \A u \in clean' \ {t} : ~Answered(u) => MapStill(ProcOf[u], page[u])
    <3>1. CASE UNCHANGED <<maps, present>>
      BY <3>1, MapStillSame
    <3>2. CASE MapPage(ProcOf[t], page[t])
      BY <1>3, <2>1, <2>2, <3>2
    <3>3. QED
      BY <1>9, <3>1, <3>2 DEF ReadCheck, ReadSync
  <2>4. QED
    BY <1>1, <2>2, <2>3, ThreadClean
<1>10. QED
  BY <1>5, <1>6, <1>7, <1>8, <1>9

\* A fault that nobody interfered with gets an entry of its own: an entry for
\* its page would have a member, which is at that page.
LEMMA QueueClean ==
    ASSUME HeldInv, HeldInv', CleanInv, NEW t \in Thread, QueueFault(t) \/ QueueRead(t)
    PROVE  \A u \in clean' : CleanAt(u)'
<1> USE SnapshotAssumption
<1>0. PICK T, C \in SUBSET {t} :
        /\ Record(ProcOf[t], page[t], T, C)
        /\ st[t] = "fault" => T = {t}
  BY DEF QueueFault, QueueRead
<1>1. /\ st[t] \in {"fault", "call"} /\ st' = [st EXCEPT ![t] = "wait"]
      /\ pfAt' = IF pfAt = "none" THEN "acquire" ELSE pfAt
      /\ UNCHANGED <<maps, present, page, resume, pfMap, pfOk, clean>>
      /\ page[t] \in Page /\ clean \subseteq Thread /\ t \in DOMAIN st
  BY DEF QueueFault, QueueRead, HeldInv, TypeOK, PageShape
<1>2. PfStill
  BY <1>1 DEF PfStill, Reporting
<1>3. ASSUME NEW u \in clean \ {t} PROVE CleanAt(u)'
  <2>1. u \in Thread \ {t} /\ CleanAt(u)
    BY <1>1, <1>3 DEF CleanInv
  <2>2. EntryStill(u)
    BY <1>0, <2>1, RecordStill
  <2>3. Undisturbed(u)
    BY <1>1, <2>1, MapStillSame DEF Undisturbed
  <2>4. QED
    BY <1>2, <2>1, <2>2, <2>3, CleanStays
<1>4. ASSUME t \in clean PROVE CleanAt(t)'
  <2>1. CleanAt(t) /\ st[t] = "fault" /\ T = {t}
    BY <1>0, <1>1, <1>4 DEF CleanInv, CleanAt, CleanAlone
  <2>2. t \notin resume /\ ~Answered(t) /\ (pfault # <<>> => t \notin pfault[1].threads)
    BY <2>1, NotWaiting
  <2>3. Others(t, page[t]) = {} /\ Missing(t) /\ OnFile(t)
    BY <2>1, <2>2 DEF CleanAt, CleanAlone, CleanMissing
  <2>4. /\ \A i \in DOMAIN faults : ~Holds(faults[i], t)
        /\ \A i \in DOMAIN pfault : ~Holds(pfault[i], t)
    BY <2>1 DEF HeldInv, HeldWaits
  <2>5. \A i \in DOMAIN faults : faults[i].page # page[t]
    <3>1. TAKE i \in DOMAIN faults
    <3>2. PICK v \in Thread : Holds(faults[i], v) /\ page[v] = faults[i].page
      BY DEF CleanInv, EntryAtPage
    <3>3. v # t
      BY <2>4, <3>2
    <3>4. QED
      BY <2>3, <3>2, <3>3 DEF Others
  <2>6. ~(Listed /\ pfault[1].page = page[t])
    <3>1. SUFFICES ASSUME Listed PROVE pfault[1].page # page[t]
      OBVIOUS
    <3>2. PICK v \in Thread : Holds(pfault[1], v) /\ page[v] = pfault[1].page
      BY <3>1 DEF CleanInv, EntryAtPage
    <3>3. 1 \in DOMAIN pfault
      BY <3>1 DEF HeldInv, PfShape, TypeOK, Listed
    <3>4. v # t
      BY <2>4, <3>2, <3>3
    <3>5. QED
      BY <2>3, <3>2, <3>4 DEF Others
  <2>7. Queues(ProcOf[t], page[t], T, C)
    BY <1>0, <2>5, <2>6, RecordCases
  <2>8. pfault' = pfault /\ \E i \in DOMAIN faults' : t \in faults'[i].threads /\ faults'[i].proc = ProcOf[t]
    <3> DEFINE new == [proc |-> ProcOf[t], page |-> page[t], threads |-> T, callbacks |-> C]
    <3>1. new.threads = {t} /\ new.proc = ProcOf[t]
      BY <2>1
    <3>2. faults' = Append(faults, new) /\ pfault' = pfault
      BY <2>7 DEF Queues
    <3> HIDE DEF new
    <3>3. Len(faults) + 1 \in DOMAIN faults' /\ faults'[Len(faults) + 1] = new
      BY <3>2 DEF HeldInv, TypeOK
    <3>4. QED
      BY <3>1, <3>2, <3>3
  <2>9. Reporting' \/ pfAt' \in {"load", "relock"} => pfault' # <<>>
    BY DEF HeldInv, PfShape, Reporting
  <2>10. ~Answered(t)' /\ (pfault' # <<>> => t \notin pfault'[1].threads)
    BY <1>1, <2>2, <2>8 DEF Answered
  <2>11. Others(t, page[t])' = {} /\ Missing(t)' /\ OnFile(t)'
    BY <1>1, <2>3 DEF Others, Missing, OnFile, MappingOf
  <2>12. QED
    BY <1>1, <2>8, <2>9, <2>10, <2>11 DEF CleanAt, CleanAlone, CleanMissing, CleanEntry, CleanFound, CleanOk
<1>5. QED
  BY <1>1, <1>3, <1>4

\* So does a thread that is switched away from.
LEMMA LeaveClean ==
    ASSUME HeldInv, HeldInv', CleanInv, NEW t \in Thread, Leave(t)
    PROVE  \A u \in clean' : CleanAt(u)'
<1>1. /\ UNCHANGED <<maps, present, faults, pfault, pfAt, pfMap, pfOk>>
      /\ resume' = resume \ {t} /\ clean \subseteq Thread
      /\ \A u \in Thread \ {t} : st'[u] = st[u] /\ page'[u] = page[u]
      /\ t \in resume => clean' = clean \ {t} /\ page'[t] = 0
      /\ t \notin resume => clean' = clean /\ st' = st /\ page' = page
  BY DEF Leave, faultVars, pfVars, HeldInv, TypeOK
<1>2. ASSUME NEW u \in clean' PROVE CleanAt(u)'
  <2>1. u \in Thread /\ CleanAt(u) /\ (t \in resume => u # t)
    BY <1>1, <1>2 DEF CleanInv
  <2>2. page[u] \in Page /\ page[u] # 0
    BY <2>1, PageFaultAssumption DEF CleanAt, CleanAlone, HeldInv, PageShape, Page
  <2>3. PfStill /\ EntryStill(u)
    BY <1>1 DEF PfStill, EntryStill, Reporting
  <2>4. Undisturbed(u)
    BY <1>1, <2>1, <2>2, MapStillSame DEF Undisturbed
  <2>5. QED
    BY <2>1, <2>3, <2>4, CleanStays
<1>3. QED
  BY <1>2

\* The answer for t: the others' entries, the mappings at their pages and the
\* threads there are as before.
LEMMA AnswerClean ==
    ASSUME HeldInv, HeldInv', CleanInv, NEW t \in Thread, PfStill,
           \A u \in Thread \ {t} :
              st'[u] = st[u] /\ page'[u] = page[u] /\ (u \in resume' <=> u \in resume) /\ EntryStill(u),
           \A u \in clean' \ {t} :
              /\ u \in clean
              /\ ~Answered(u) => /\ MapStill(ProcOf[u], page[u])
                                 /\ page'[t] = page[u] => page[t] = page[u],
           t \in clean' => CleanAt(t)'
    PROVE  \A u \in clean' : CleanAt(u)'
<1>1. SUFFICES ASSUME NEW u \in clean' \ {t}
               PROVE  CleanAt(u)'
  OBVIOUS
<1>2. u \in Thread /\ u \in clean /\ CleanAt(u)
  BY DEF HeldInv, TypeOK, CleanInv
<1>3. Undisturbed(u)
  BY <1>2 DEF Undisturbed
<1>4. QED
  BY <1>2, <1>3, CleanStays

\* So does the [pfault] thread when it resumes or ends a thread of its entry.
LEMMA PfThreadClean ==
    ASSUME HeldInv, HeldInv', CleanInv, NEW t \in Thread, PfThread(t)
    PROVE  \A u \in clean' : CleanAt(u)'
<1>1. PICK e \in Entry : pfault = <<e>>
  BY DEF PfThread, HeldInv, TypeOK, PfShape
<1> DEFINE f == [e EXCEPT !.threads = @ \ {t}]
<1>2. /\ pfAt = "report" /\ t \in e.threads /\ pfault' = <<f>>
      /\ UNCHANGED <<maps, present, faults, pfAt, pfMap, pfOk>>
      /\ clean \subseteq Thread
  BY <1>1 DEF PfThread, faultVars, HeldInv, TypeOK
<1>3. f.threads = e.threads \ {t} /\ f.proc = e.proc
  BY DEF Entry
<1> HIDE DEF f
<1>4. pfault[1] = e /\ pfault'[1] = f /\ pfault # <<>> /\ pfault' # <<>> /\ 1 \in DOMAIN pfault
  BY <1>1, <1>2
<1>5. PfStill
  BY <1>2 DEF PfStill, Reporting
<1>6. \A u \in Thread \ {t} : EntryStill(u)
  BY <1>2, <1>3, <1>4 DEF EntryStill
<1>7. st[t] = "wait" /\ t \notin resume
  BY <1>2, <1>4 DEF HeldInv, HeldWaits, HeldOnce, Holds
<1>8. t \in clean => pfOk
  BY <1>2, <1>4 DEF CleanInv, CleanAt, CleanOk, Reporting
<1>9. \A u \in clean : page[u] \in Page /\ page[u] # 0
  BY <1>2, PageFaultAssumption DEF CleanInv, CleanAt, CleanAlone, HeldInv, PageShape, Page
<1>10. \A u \in clean : MapStill(ProcOf[u], page[u])
  BY <1>2, MapStillSame
<1>11. CASE ~pfOk
  <2>1. /\ \A u \in Thread \ {t} : st'[u] = st[u] /\ page'[u] = page[u]
        /\ resume' = resume /\ clean' = clean /\ page'[t] = 0
    BY <1>11 DEF PfThread, HeldInv, TypeOK
  <2>2. QED
    BY <1>5, <1>6, <1>8, <1>9, <1>10, <1>11, <2>1, AnswerClean
<1>12. CASE pfOk /\ t \notin running
  <2>1. /\ \A u \in Thread \ {t} : st'[u] = st[u] /\ page'[u] = page[u]
        /\ resume' = resume /\ clean' = clean \ {t} /\ page'[t] = 0
    BY <1>12 DEF PfThread, WhenNotRunning, HeldInv, TypeOK
  <2>2. t \notin clean' /\ \A u \in clean' \ {t} : page'[t] # page[u]
    BY <1>9, <2>1
  <2>3. QED
    BY <1>5, <1>6, <1>9, <1>10, <2>1, <2>2, AnswerClean
<1>13. CASE pfOk /\ t \in running
  <2>1. UNCHANGED <<st, page, clean>> /\ resume' = resume \cup {t}
    BY <1>13 DEF PfThread, WhenNotRunning
  <2>2. CleanAt(t)'
    BY <1>2, <1>3, <1>4, <1>7, <2>1
       DEF CleanAt, CleanAlone, CleanMissing, CleanEntry, CleanFound, CleanOk, Answered
  <2>3. QED
    BY <1>5, <1>6, <1>7, <1>10, <2>1, <2>2, AnswerClean
<1>14. QED
  BY <1>11, <1>12, <1>13

\* The thread of a system call is never among those that faulted undisturbed.
LEMMA CallbackNotClean ==
    ASSUME HeldInv, CleanInv, NEW t \in Thread,
           t \in pfCall \/ \E i \in DOMAIN pfault : t \in pfault[i].callbacks
    PROVE  t \notin clean
<1>1. /\ \A i \in DOMAIN faults : ~Holds(faults[i], t)
      /\ \A i \in DOMAIN pfault : t \notin pfault[i].threads
      /\ st[t] = "wait" /\ t \notin resume
  <2>1. ASSUME NEW i \in DOMAIN pfault, t \in pfault[i].callbacks
        PROVE  Holds(pfault[i], t) /\ \A j \in DOMAIN pfault : t \notin pfault[j].threads
    <3>1. \A j \in DOMAIN pfault : j = i
      BY DEF HeldInv, TypeOK
    <3>2. t \notin pfault[i].threads
      BY <2>1 DEF HeldInv, EntriesApart
    <3>3. QED
      BY <2>1, <3>1, <3>2 DEF Holds
  <2>2. CASE t \in pfCall
    <3>1. /\ \A i \in DOMAIN faults : ~Holds(faults[i], t)
          /\ \A i \in DOMAIN pfault : ~Holds(pfault[i], t)
          /\ st[t] = "wait" /\ t \notin resume
      BY <2>2 DEF HeldInv, HeldOnce, HeldWaits
    <3>2. QED
      BY <3>1 DEF Holds
  <2>3. ASSUME NEW i \in DOMAIN pfault, Holds(pfault[i], t)
        PROVE  /\ \A j \in DOMAIN faults : ~Holds(faults[j], t)
               /\ st[t] = "wait" /\ t \notin resume
    BY <2>3 DEF HeldInv, HeldOnce, HeldWaits
  <2>4. QED
    BY <2>1, <2>2, <2>3
<1>2. pfault # <<>> => 1 \in DOMAIN pfault
  BY DEF HeldInv, TypeOK
<1>3. QED
  BY <1>1, <1>2 DEF CleanInv, CleanAt, CleanEntry, Holds

\* So does the callback of a system call that waited in the entry.
LEMMA PfCallbackClean ==
    ASSUME HeldInv, HeldInv', CleanInv, NEW t \in Thread, PfCallback(t)
    PROVE  \A u \in clean' : CleanAt(u)'
<1>1. PICK e \in Entry : pfault = <<e>>
  BY DEF PfCallback, HeldInv, TypeOK, PfShape
<1> DEFINE f == [e EXCEPT !.callbacks = @ \ {t}]
<1>2. /\ pfAt = "report" /\ t \in e.callbacks /\ pfault' = <<f>>
      /\ UNCHANGED <<maps, present, faults, pfMap, pfOk>>
      /\ clean \subseteq Thread
  BY <1>1 DEF PfCallback, faultVars, HeldInv, TypeOK
<1>3. f.threads = e.threads /\ f.proc = e.proc
  BY DEF Entry
<1> HIDE DEF f
<1>4. pfault[1] = e /\ pfault'[1] = f /\ pfault # <<>> /\ pfault' # <<>> /\ 1 \in DOMAIN pfault
  BY <1>1, <1>2
<1>5. PfStill
  BY <1>2 DEF PfCallback, PfStill, Reporting
<1>6. \A u \in Thread \ {t} : EntryStill(u)
  BY <1>2, <1>3, <1>4 DEF EntryStill
<1>7. t \notin clean
  BY <1>2, <1>4, CallbackNotClean
<1>8. \A u \in clean : page[u] \in Page /\ page[u] # 0
  BY <1>2, PageFaultAssumption DEF CleanInv, CleanAt, CleanAlone, HeldInv, PageShape, Page
<1>9. \A u \in clean : MapStill(ProcOf[u], page[u])
  BY <1>2, MapStillSame
<1>10. CASE pfOk /\ page[t] < last[t]
  <2>1. /\ \A u \in Thread \ {t} : st'[u] = st[u] /\ page'[u] = page[u]
        /\ resume' = resume /\ clean' = clean \ Others(t, page[t] + 1) /\ page'[t] = page[t] + 1
    BY <1>10 DEF PfCallback, HeldInv, TypeOK
  <2>2. t \notin clean' /\ \A u \in clean' \ {t} : u \in clean /\ page'[t] # page[u]
    BY <1>2, <1>7, <2>1 DEF Others
  <2>3. QED
    BY <1>5, <1>6, <1>9, <2>1, <2>2, AnswerClean
<1>11. CASE ~(pfOk /\ page[t] < last[t])
  <2>1. WhenNotRunning(t)
    BY <1>11 DEF PfCallback
  <2>2. /\ \A u \in Thread \ {t} : st'[u] = st[u] /\ page'[u] = page[u] /\ (u \in resume' <=> u \in resume)
        /\ clean' \subseteq clean /\ page'[t] \in {0, page[t]}
    BY <2>1 DEF WhenNotRunning, HeldInv, TypeOK
  <2>3. \A u \in clean' \ {t} : page'[t] = page[u] => page[t] = page[u]
    BY <1>8, <2>2
  <2>4. QED
    BY <1>5, <1>6, <1>7, <1>9, <2>2, <2>3, AnswerClean
<1>12. QED
  BY <1>10, <1>11

\* So does a system call that goes on with its next page on the [pfault] thread.
LEMMA PfReadClean ==
    ASSUME HeldInv, HeldInv', CleanInv, NEW t \in Thread, PfRead(t)
    PROVE  \A u \in clean' : CleanAt(u)'
<1> USE SnapshotAssumption
<1>1. /\ t \in pfCall /\ pfAt \in {"check", "sync", "call"} /\ t \notin clean
      /\ clean \subseteq Thread /\ UNCHANGED <<pfMap, pfOk>>
      /\ st[t] = "wait" /\ page[t] \in Page /\ \A u \in Thread : ProcOf[u] \in Proc
  <2>1. t \in pfCall /\ pfAt \in {"check", "sync", "call"} /\ UNCHANGED <<pfMap, pfOk>>
    BY DEF PfRead
  <2>2. st[t] = "wait" /\ t \notin clean
    BY <2>1, CallbackNotClean DEF HeldInv, HeldWaits
  <2>3. QED
    BY <2>1, <2>2 DEF HeldInv, TypeOK, PageShape
<1>2. PfStill
  BY <1>1 DEF PfRead, PfNextPage, PfStill, Reporting
<1>3. \A u \in clean : page[u] \in Page /\ page[u] # 0
  BY <1>1, PageFaultAssumption DEF CleanInv, CleanAt, CleanAlone, HeldInv, PageShape, Page
<1>4. ASSUME MapPage(ProcOf[t], page[t]), NEW u \in clean, ~Answered(u)
      PROVE  MapStill(ProcOf[u], page[u])
  <2>1. Others(u, page[u]) = {} /\ u \in Thread /\ u # t
    BY <1>1, <1>4 DEF CleanInv, CleanAt, CleanAlone
  <2>2. page[u] # page[t]
    BY <1>4, <2>1 DEF Others
  <2>3. QED
    BY <1>1, <1>4, <2>1, <2>2, MapPageStill
<1>5. \A u \in clean : ~Answered(u) => MapStill(ProcOf[u], page[u])
  <2>1. CASE UNCHANGED <<maps, present>>
    BY <2>1, MapStillSame
  <2>2. CASE MapPage(ProcOf[t], page[t])
    BY <1>4, <2>2
  <2>3. QED
    BY <2>1, <2>2 DEF PfRead
<1>6. \A u \in Thread \ {t} : EntryStill(u)
  <2>1. CASE UNCHANGED <<faults, pfault>>
    BY <2>1 DEF EntryStill
  <2>2. CASE Record(ProcOf[t], page[t], {}, {t})
    <3>1. {} \in SUBSET {t} /\ {t} \in SUBSET {t}
      OBVIOUS
    <3>2. QED
      BY <2>2, <3>1, RecordStill
  <2>3. QED
    BY <2>1, <2>2 DEF PfRead, faultVars
<1>7. CASE PfNextPage(t) /\ page[t] < last[t]
  <2>1. /\ \A u \in Thread \ {t} : st'[u] = st[u] /\ page'[u] = page[u]
        /\ resume' = resume /\ clean' = clean \ Others(t, page[t] + 1) /\ page'[t] = page[t] + 1
    BY <1>7 DEF PfNextPage, HeldInv, TypeOK
  <2>2. t \notin clean' /\ \A u \in clean' \ {t} : u \in clean /\ page'[t] # page[u]
    BY <1>1, <2>1 DEF Others
  <2>3. QED
    BY <1>2, <1>5, <1>6, <2>1, <2>2, AnswerClean
<1>8. CASE PfNextPage(t) /\ ~(page[t] < last[t])
  <2>1. WhenNotRunning(t)
    BY <1>8 DEF PfNextPage
  <2>2. /\ \A u \in Thread \ {t} : st'[u] = st[u] /\ page'[u] = page[u] /\ (u \in resume' <=> u \in resume)
        /\ clean' \subseteq clean /\ page'[t] \in {0, page[t]}
    BY <2>1 DEF WhenNotRunning, HeldInv, TypeOK
  <2>3. \A u \in clean' \ {t} : page'[t] = page[u] => page[t] = page[u]
    BY <1>3, <2>2
  <2>4. QED
    BY <1>1, <1>2, <1>5, <1>6, <2>2, <2>3, AnswerClean
<1>9. CASE UNCHANGED <<st, page, resume, clean>>
  BY <1>1, <1>2, <1>5, <1>6, <1>9, AnswerClean
<1>10. QED
  BY <1>7, <1>8, <1>9 DEF PfRead

\* The first half of resolve_page() finds the mapping of an undisturbed fault.
LEMMA PfResolveClean ==
    ASSUME HeldInv, HeldInv', CleanInv, PfResolve
    PROVE  \A u \in clean' : CleanAt(u)'
<1> USE SnapshotAssumption
<1> DEFINE p == pfault[1].proc
           g == pfault[1].page
           todo == {m \in MappingOf(p, g) : m.kind # "anon" /\ g \notin m.entries /\ g \notin present[p]}
<1>1. /\ pfAt = "resolve" /\ UNCHANGED <<maps, present, st, page, resume, faults, pfault, clean>>
      /\ \/ \E m \in todo : pfMap' = <<m.id, First(m)>> /\ pfAt' = "load" /\ UNCHANGED pfOk
         \/ todo = {} /\ pfOk' = FALSE /\ pfAt' = "unlist" /\ UNCHANGED pfMap
      /\ clean \subseteq Thread
  BY DEF PfResolve, pageVars, faultVars, HeldInv, TypeOK
<1>2. pfault # <<>> /\ 1 \in DOMAIN pfault /\ Listed
  BY <1>1 DEF HeldInv, PfShape, TypeOK, Listed
<1>3. ASSUME NEW u \in clean PROVE CleanAt(u)'
  <2>1. u \in Thread /\ CleanAt(u)
    BY <1>1, <1>3 DEF CleanInv
  <2>2. Answered(u) <=> u \in resume
    BY <1>1 DEF Answered, Reporting
  <2>3. ASSUME u \in pfault[1].threads
        PROVE  todo # {} /\ p = ProcOf[u] /\ g = page[u] /\ u \notin resume
    <3>1. Holds(pfault[1], u)
      BY <2>3 DEF Holds
    <3>2. st[u] = "wait" /\ u \notin resume /\ \A i \in DOMAIN faults : ~Holds(faults[i], u)
      BY <1>2, <2>1, <3>1 DEF HeldInv, HeldWaits, HeldOnce
    <3>3. p = ProcOf[u]
      BY <2>1, <3>2 DEF CleanAt, CleanEntry, Holds
    <3>4. g = page[u]
      BY <1>2, <2>1, <3>1 DEF CleanInv, EntryAtPage
    <3>5. Missing(u) /\ OnFile(u)
      BY <2>1, <2>2, <3>2 DEF CleanAt, CleanMissing
    <3>6. MappingOf(p, g) # {} /\ g \notin present[p] /\
          \A m \in MappingOf(p, g) : m.kind # "anon" /\ g \notin m.entries
      BY <3>3, <3>4, <3>5 DEF Missing, OnFile
    <3>7. QED
      BY <3>2, <3>3, <3>4, <3>6
  <2> HIDE DEF p, g
  <2>4. CASE \E m \in todo : pfMap' = <<m.id, First(m)>> /\ pfAt' = "load" /\ UNCHANGED pfOk
    <3>1. PICK m \in MappingOf(p, g) : pfMap' = <<m.id, First(m)>> /\ pfAt' = "load"
      BY <2>4
    <3>2. Answered(u)' <=> Answered(u)
      BY <1>1, <2>2, <3>1 DEF Answered, Reporting
    <3>3. CleanFound(u)' /\ CleanOk(u)'
      BY <1>1, <2>3, <3>1 DEF CleanFound, CleanOk, Reporting, MappingOf
    <3>4. CleanAlone(u)' /\ CleanMissing(u)' /\ CleanEntry(u)'
      BY <1>1, <2>1, <3>2 DEF CleanAt, CleanAlone, CleanMissing, CleanEntry, Others, Missing, OnFile, MappingOf
    <3>5. QED
      BY <3>3, <3>4 DEF CleanAt
  <2>5. CASE todo = {} /\ pfOk' = FALSE /\ pfAt' = "unlist" /\ UNCHANGED pfMap
    <3>1. u \notin pfault'[1].threads
      BY <1>1, <2>3, <2>5
    <3>2. Answered(u)' <=> Answered(u)
      BY <1>1, <2>2, <2>5 DEF Answered
    <3>3. CleanFound(u)' /\ CleanOk(u)'
      BY <3>1 DEF CleanFound, CleanOk
    <3>4. CleanAlone(u)' /\ CleanMissing(u)' /\ CleanEntry(u)'
      BY <1>1, <2>1, <3>2 DEF CleanAt, CleanAlone, CleanMissing, CleanEntry, Others, Missing, OnFile, MappingOf
    <3>5. QED
      BY <3>3, <3>4 DEF CleanAt
  <2>6. QED
    BY <1>1, <2>4, <2>5
<1>4. QED
  BY <1>1, <1>3

\* The second half finds it again.
LEMMA PfRelockClean ==
    ASSUME HeldInv, HeldInv', CleanInv, PfRelock
    PROVE  \A u \in clean' : CleanAt(u)'
<1> USE SnapshotAssumption
<1> DEFINE p == pfault[1].proc
           g == pfault[1].page
           same == \E m \in MappingOf(p, g) : pfMap = <<m.id, First(m)>>
<1>1. /\ pfAt = "relock" /\ UNCHANGED <<st, page, resume, faults, pfault, clean>>
      /\ IF same THEN MapPage(p, g) ELSE UNCHANGED <<maps, present>>
      /\ pfOk' = same /\ pfAt' = "unlist"
      /\ clean \subseteq Thread /\ \A u \in Thread : ProcOf[u] \in Proc
  BY DEF PfRelock, faultVars, HeldInv, TypeOK
<1>2. pfault # <<>> /\ 1 \in DOMAIN pfault /\ Listed /\ p \in Proc /\ g \in Page
  BY <1>1 DEF HeldInv, PfShape, TypeOK, Listed, Entry
<1>3. ASSUME NEW u \in clean PROVE CleanAt(u)'
  <2>1. u \in Thread /\ CleanAt(u)
    BY <1>1, <1>3 DEF CleanInv
  <2>2. Answered(u) <=> u \in resume
    BY <1>1 DEF Answered, Reporting
  <2>3. CleanEntry(u)' /\ CleanFound(u)'
    BY <1>1, <2>1 DEF CleanAt, CleanEntry, CleanFound
  <2>4. CASE u \in pfault[1].threads
    <3>1. Holds(pfault[1], u)
      BY <2>4 DEF Holds
    <3>2. st[u] = "wait" /\ u \notin resume /\ \A i \in DOMAIN faults : ~Holds(faults[i], u)
      BY <1>2, <2>1, <3>1 DEF HeldInv, HeldWaits, HeldOnce
    <3>3. p = ProcOf[u]
      BY <2>1, <3>2 DEF CleanAt, CleanEntry, Holds
    <3>4. g = page[u]
      BY <1>2, <2>1, <3>1 DEF CleanInv, EntryAtPage
    <3>5. same
      BY <1>1, <2>1, <2>4, <3>3, <3>4 DEF CleanAt, CleanFound
    <3>6. Answered(u)' /\ CleanOk(u)'
      BY <1>1, <1>2, <2>4, <3>5 DEF Answered, CleanOk, Reporting
    <3>7. QED
      BY <1>1, <2>1, <2>3, <3>6 DEF CleanAt, CleanAlone, CleanMissing
  <2>5. CASE u \notin pfault[1].threads
    <3>1. Answered(u)' <=> Answered(u)
      BY <1>1, <2>2, <2>5 DEF Answered
    <3>2. CleanOk(u)' /\ CleanAlone(u)'
      BY <1>1, <2>1, <2>5, <3>1 DEF CleanOk, CleanAt, CleanAlone, Others
    <3>3. ASSUME ~Answered(u)
          PROVE  MapStill(ProcOf[u], page[u])
      <4>1. ~Holds(pfault[1], u)
        <5>1. SUFFICES ASSUME u \in pfault[1].callbacks PROVE FALSE
          BY <2>5 DEF Holds
        <5>2. QED
          BY <1>2, <1>3, <2>1, <5>1, CallbackNotClean
      <4>2. PICK v \in Thread : Holds(pfault[1], v) /\ page[v] = g
        BY <1>2 DEF CleanInv, EntryAtPage
      <4>3. g # page[u]
        BY <2>1, <3>3, <4>1, <4>2 DEF CleanAt, CleanAlone, Others
      <4> HIDE DEF p, g, same
      <4>4. CASE MapPage(p, g)
        BY <1>1, <1>2, <2>1, <4>3, <4>4, MapPageStill
      <4>5. CASE UNCHANGED <<maps, present>>
        BY <4>5, MapStillSame
      <4>6. QED
        BY <1>1, <4>4, <4>5
    <3>4. ~Answered(u) => (Missing(u) => Missing(u)') /\ (OnFile(u) => OnFile(u)')
      BY <1>1, <3>3 DEF MapStill, Missing, OnFile, MappingOf
    <3>5. CleanMissing(u)'
      BY <1>1, <2>1, <3>1, <3>4 DEF CleanAt, CleanMissing
    <3>6. QED
      BY <2>3, <3>2, <3>5 DEF CleanAt
  <2>6. QED
    BY <2>4, <2>5
<1>4. QED
  BY <1>1, <1>3

\* The other steps of the [pfault] thread, and steps that concern nobody.
LEMMA PfOtherClean ==
    ASSUME HeldInv, HeldInv', CleanInv,
           \/ PfAcquire \/ PfTake \/ PfLoad \/ PfUnlist \/ PfDone \/ UNCHANGED vars
           \/ \E t \in Thread : Enter(t) \/ ReleaseRun(t)
    PROVE  \A u \in clean' : CleanAt(u)'
<1>0. clean \subseteq Thread /\ \A u \in clean : CleanAt(u)
  BY DEF HeldInv, TypeOK, CleanInv
<1>1. ASSUME UNCHANGED <<maps, present, st, page, resume>>, NEW u \in clean, EntryStill(u), PfStill
      PROVE  CleanAt(u)'
  <2>1. Undisturbed(u)
    BY <1>1, MapStillSame DEF Undisturbed
  <2>2. QED
    BY <1>0, <1>1, <2>1, CleanStays
<1>2. CASE PfAcquire \/ PfUnlist \/ (PfTake /\ faults = <<>>) \/ UNCHANGED vars
           \/ (\E t \in Thread : Enter(t) \/ ReleaseRun(t)) \/ (PfLoad /\ pfAt' = "relock")
  <2>1. /\ UNCHANGED <<maps, present, st, page, resume, faults, pfault, clean>> /\ PfStill
    BY <1>2 DEF PfAcquire, PfUnlist, PfTake, PfLoad, vars, Enter, ReleaseRun, pageVars, pfVars, faultVars,
       PfStill, Reporting
  <2>2. \A u \in clean : EntryStill(u)
    BY <2>1 DEF EntryStill
  <2>3. QED
    BY <1>1, <2>1, <2>2
<1>3. CASE PfTake /\ faults # <<>>
  <2>1. /\ pfAt = "take" /\ pfAt' = "resolve"
        /\ pfault' = <<Head(faults)>> /\ faults' = Tail(faults) /\ faults \in Seq(Entry)
        /\ UNCHANGED <<maps, present, st, page, resume, clean, pfMap, pfOk>>
    BY <1>3 DEF PfTake, HeldInv, TypeOK, pageVars
  <2>2. /\ DOMAIN faults = 1 .. Len(faults) /\ Len(faults) \in Nat \ {0}
        /\ pfault'[1] = faults[1] /\ pfault' # <<>>
        /\ \A i \in DOMAIN faults : i # 1 => i - 1 \in DOMAIN faults' /\ faults'[i - 1] = faults[i]
    BY <1>3, <2>1
  <2>3. pfault = <<>>
    BY <2>1 DEF HeldInv, PfShape
  <2>4. ASSUME NEW u \in clean PROVE CleanAt(u)'
    <3>1. CleanAt(u)
      BY <1>0
    <3>2. CleanEntry(u)'
      <4>1. SUFFICES ASSUME st[u] = "wait", u \notin resume
                     PROVE  \/ \E i \in DOMAIN faults' : u \in faults'[i].threads /\ faults'[i].proc = ProcOf[u]
                            \/ pfault' # <<>> /\ u \in pfault'[1].threads /\ pfault'[1].proc = ProcOf[u]
        BY <2>1 DEF CleanEntry
      <4>2. PICK i \in DOMAIN faults : u \in faults[i].threads /\ faults[i].proc = ProcOf[u]
        BY <2>3, <3>1, <4>1 DEF CleanAt, CleanEntry
      <4>3. QED
        BY <2>2, <4>2
    <3>3. (Answered(u)' <=> Answered(u)) /\ CleanFound(u)' /\ CleanOk(u)'
      BY <2>1 DEF Answered, CleanFound, CleanOk, Reporting
    <3>4. CleanAlone(u)' /\ CleanMissing(u)'
      BY <2>1, <3>1, <3>3 DEF CleanAt, CleanAlone, CleanMissing, Others, Missing, OnFile, MappingOf
    <3>5. QED
      BY <3>2, <3>3, <3>4 DEF CleanAt
  <2>5. QED
    BY <2>1, <2>4
<1>4. CASE PfLoad /\ pfAt' # "relock"
  <2>1. /\ pfAt = "load" /\ pfAt' = "unlist" /\ clean' = clean \ pfault[1].threads
        /\ UNCHANGED <<maps, present, st, page, resume, faults, pfault>>
    BY <1>4 DEF PfLoad, pageVars, faultVars
  <2>2. ASSUME NEW u \in clean' PROVE CleanAt(u)'
    <3>1. CleanAt(u) /\ u \notin pfault'[1].threads
      BY <1>0, <2>1, <2>2
    <3>2. Answered(u)' <=> Answered(u)
      BY <2>1, <3>1 DEF Answered, Reporting
    <3>3. CleanAlone(u)' /\ CleanMissing(u)' /\ CleanEntry(u)'
      BY <2>1, <3>1, <3>2 DEF CleanAt, CleanAlone, CleanMissing, CleanEntry, Others, Missing, OnFile, MappingOf
    <3>4. CleanFound(u)' /\ CleanOk(u)'
      BY <3>1 DEF CleanFound, CleanOk
    <3>5. QED
      BY <3>3, <3>4 DEF CleanAt
  <2>3. QED
    BY <2>2
<1>5. CASE PfDone
  <2>1. /\ pfAt = "report" /\ pfAt' = "acquire" /\ pfault' = <<>> /\ pfault[1].threads = {}
        /\ UNCHANGED <<maps, present, st, page, resume, faults, clean>>
    BY <1>5 DEF PfDone, pageVars, faultVars
  <2>2. ASSUME NEW u \in clean PROVE CleanAt(u)'
    <3>1. CleanAt(u)
      BY <1>0, <2>2
    <3>2. Answered(u)' <=> Answered(u)
      BY <2>1 DEF Answered, Reporting
    <3>3. CleanAlone(u)' /\ CleanMissing(u)' /\ CleanEntry(u)'
      BY <2>1, <3>1, <3>2 DEF CleanAt, CleanAlone, CleanMissing, CleanEntry, Others, Missing, OnFile, MappingOf
    <3>4. CleanFound(u)' /\ CleanOk(u)'
      BY <2>1 DEF CleanFound, CleanOk, Reporting
    <3>5. QED
      BY <3>3, <3>4 DEF CleanAt
  <2>3. QED
    BY <2>1, <2>2
<1>6. QED
  BY <1>2, <1>3, <1>4, <1>5

\* Every step keeps what is known of the undisturbed threads.
LEMMA CleanStep ==
    ASSUME HeldInv, HeldInv', CleanInv, [Next]_vars
    PROVE  CleanInv'
<1>1. EntryAtPage'
  BY EntryAtPageStep DEF CleanInv
<1>2. CASE Pf
  BY <1>1, <1>2, PfThreadClean, PfCallbackClean, PfReadClean, PfResolveClean, PfRelockClean, PfOtherClean
     DEF Pf, CleanInv
<1>3. CASE UNCHANGED vars \/ \E t \in Thread : Enter(t) \/ ReleaseRun(t)
  BY <1>1, <1>3, PfOtherClean DEF CleanInv
<1>4. CASE \E t \in Thread : Leave(t) \/ User(t) \/ Kernel(t)
  BY <1>1, <1>4, LeaveClean, UserClean, KernelClean, QueueClean DEF Kernel, CleanInv
<1>5. QED
  BY <1>2, <1>3, <1>4 DEF Next

\* What is known of a fault that nobody interfered with, from the exception to
\* its answer.
THEOREM CleanInvariant == Spec => []CleanInv
<1>1. Init => CleanInv
  BY DEF Init, CleanInv, EntryAtPage, Listed
<1>2. HeldInv /\ HeldInv' /\ CleanInv /\ [Next]_vars => CleanInv'
  BY CleanStep
<1>3. QED
  BY <1>1, <1>2, HeldInvariant, PTL DEF Spec

\* A thread that page_fault() leaves to the [pfault] thread is terminated only
\* if the file cannot be read or somebody interfered: another thread at the
\* same page number, or a change of the mapping while the file was read.
THEOREM KilledOnlyIfDisturbedHolds == Spec => []KilledOnlyIfDisturbed
<1>1. CleanInv => KilledOnlyIfDisturbed
  BY DEF CleanInv, CleanAt, CleanAlone, KilledOnlyIfDisturbed
<1>2. QED
  BY <1>1, CleanInvariant, PTL

=============================================================================

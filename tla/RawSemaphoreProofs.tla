------------------------- MODULE RawSemaphoreProofs -------------------------
(***************************************************************************)
(* TLAPS proofs about RawSemaphore, for every finite set of tasks and      *)
(* every even counter width whose half exceeds the tasks and the permits   *)
(* in store: no handler outlives its acquire(), and the semaphore is a     *)
(* counting semaphore although both of its counters wrap.                  *)
(***************************************************************************)
EXTENDS RawSemaphore, FiniteSetTheorems, TLAPS

PendingSet == {t \in Tasks : Pending(t)}

\* How many tickets were drawn since the one of t, itself included.
Back(t) == (next - ticket[t]) % TicketMod

-----------------------------------------------------------------------------
(* The inductive invariants *)

\* A handler belongs to a task between its add and its clear.
HandlersInside ==
    \A t \in handlers : pc[t] \in {"recheck", "block", "confirm", "unblock", "yield",
                                   "loop", "clear"}

HandlerInv == TypeOK /\ HandlersInside

(***************************************************************************)
(* What makes the refinement inductive: the limit is never half the        *)
(* counter's range ahead of a ticket a task waits with, so that Served is  *)
(* the true order of limit and ticket, and every ticket that was drawn and *)
(* that the limit has not reached is in the hands of a task that waits     *)
(* for it.                                                                 *)
(***************************************************************************)
InReach == \A t \in Tasks : Pending(t) => Back(t) >= 1 /\ Ahead + Back(t) < Half
UnservedHeld == \A b \in 1 .. (-Ahead - 1) : \E t \in Tasks : Pending(t) /\ Back(t) = b
PermitInv == TypeOK /\ Ahead < MaxPermits /\ InReach /\ UnservedHeld

-----------------------------------------------------------------------------
(* Facts about the wrapping counters *)

\* Half of the counter's range, exactly.
LEMMA HalfFacts ==
    /\ Half \in Nat /\ Half >= 1
    /\ TicketMod \in Nat /\ TicketMod = 2 * Half
    /\ MaxPermits \in Nat /\ MaxPermits < Half
    /\ Cardinality(Tasks) \in Nat /\ Cardinality(Tasks) < Half
<1>1. Cardinality(Tasks) \in Nat
  BY RawSemaphoreAssumption, FS_CardinalityType
<1>2. QED
  BY <1>1, RawSemaphoreAssumption DEF Half

\* A difference of two counter values, as uint32_t.
LEMMA DiffFacts ==
    ASSUME NEW a \in Ticket, NEW b \in Ticket
    PROVE  /\ (a - b) % TicketMod \in Ticket
           /\ (a - b) % TicketMod = IF a >= b THEN a - b ELSE a - b + TicketMod
<1>1. TicketMod \in Nat \ {0}
  BY HalfFacts
<1>2. a \in 0 .. (TicketMod - 1) /\ b \in 0 .. (TicketMod - 1)
  BY DEF Ticket
<1>3. QED
  BY <1>1, <1>2 DEF Ticket

\* An increment wraps at the last counter value.
LEMMA IncFacts ==
    ASSUME NEW a \in Ticket
    PROVE  /\ Inc(a) \in Ticket
           /\ Inc(a) = IF a = TicketMod - 1 THEN 0 ELSE a + 1
<1>1. TicketMod \in Nat \ {0}
  BY HalfFacts
<1>2. QED
  BY <1>1 DEF Ticket, Inc

\* The signed number a difference of counter values stands for.
Signed(l, n) ==
    LET d == (l - n) % TicketMod IN IF d < Half THEN d ELSE d - TicketMod

\* It is the difference, up to the width of the counters.
LEMMA SignedFacts ==
    ASSUME NEW l \in Ticket, NEW n \in Ticket
    PROVE  /\ Signed(l, n) \in Int /\ -Half <= Signed(l, n) /\ Signed(l, n) < Half
           /\ Signed(l, n) \in {l - n, l - n + TicketMod, l - n - TicketMod}
<1> DEFINE d == (l - n) % TicketMod
<1>1. d \in Ticket /\ d = IF l >= n THEN l - n ELSE l - n + TicketMod
  BY DiffFacts
<1>2. Signed(l, n) = IF d < Half THEN d ELSE d - TicketMod
  BY DEF Signed
<1> HIDE DEF d
<1>3. l \in Int /\ n \in Int /\ d \in Int /\ 0 <= d /\ d < TicketMod
  BY <1>1, HalfFacts DEF Ticket
<1>4. QED
  BY <1>1, <1>2, <1>3, HalfFacts

\* An increment of next takes one, unless the numbers were half a range apart.
LEMMA SignedIncNext ==
    ASSUME NEW l \in Ticket, NEW n \in Ticket, -Half < Signed(l, n)
    PROVE  Signed(l, Inc(n)) = Signed(l, n) - 1
<1> DEFINE m == Inc(n)
           x == Signed(l, n)
           y == Signed(l, m)
<1>1. m \in Ticket /\ m = IF n = TicketMod - 1 THEN 0 ELSE n + 1
  BY IncFacts
<1>2. x \in Int /\ -Half < x /\ x < Half /\ x \in {l - n, l - n + TicketMod, l - n - TicketMod}
  BY SignedFacts
<1> HIDE DEF m
<1>3. y \in Int /\ -Half <= y /\ y < Half /\ y \in {l - m, l - m + TicketMod, l - m - TicketMod}
  BY <1>1, SignedFacts
<1>4. l \in Int /\ n \in Int /\ 0 <= n /\ n < TicketMod
  BY HalfFacts DEF Ticket
<1> HIDE DEF x, y
<1>5. y = x - 1
  BY <1>1, <1>2, <1>3, <1>4, HalfFacts
<1>6. QED
  BY <1>5 DEF x, y, m

\* An increment of the limit adds one, short of half a range.
LEMMA SignedIncLimit ==
    ASSUME NEW l \in Ticket, NEW n \in Ticket, Signed(l, n) < Half - 1
    PROVE  Signed(Inc(l), n) = Signed(l, n) + 1
<1> DEFINE m == Inc(l)
           x == Signed(l, n)
           y == Signed(m, n)
<1>1. m \in Ticket /\ m = IF l = TicketMod - 1 THEN 0 ELSE l + 1
  BY IncFacts
<1>2. x \in Int /\ -Half <= x /\ x < Half - 1 /\ x \in {l - n, l - n + TicketMod, l - n - TicketMod}
  BY SignedFacts
<1> HIDE DEF m
<1>3. y \in Int /\ -Half <= y /\ y < Half /\ y \in {m - n, m - n + TicketMod, m - n - TicketMod}
  BY <1>1, SignedFacts
<1>4. n \in Int /\ l \in Int /\ 0 <= l /\ l < TicketMod
  BY HalfFacts DEF Ticket
<1> HIDE DEF x, y
<1>5. y = x + 1
  BY <1>1, <1>2, <1>3, <1>4, HalfFacts
<1>6. QED
  BY <1>5 DEF x, y, m

\* One more ticket is drawn: an older one is one further back.
LEMMA DiffInc ==
    ASSUME NEW n \in Ticket, NEW a \in Ticket, (n - a) % TicketMod < TicketMod - 1
    PROVE  (Inc(n) - a) % TicketMod = ((n - a) % TicketMod) + 1
<1> DEFINE m == Inc(n)
           x == (n - a) % TicketMod
           y == (m - a) % TicketMod
<1>1. m \in Ticket /\ m = IF n = TicketMod - 1 THEN 0 ELSE n + 1
  BY IncFacts
<1>2. x = IF n >= a THEN n - a ELSE n - a + TicketMod
  BY DiffFacts
<1>3. x < TicketMod - 1
  OBVIOUS
<1> HIDE DEF m
<1>4. y = IF m >= a THEN m - a ELSE m - a + TicketMod
  BY <1>1, DiffFacts
<1>5. a \in Int /\ 0 <= a /\ n \in Int /\ 0 <= n /\ n < TicketMod /\ a < TicketMod
  BY HalfFacts DEF Ticket
<1> HIDE DEF x, y
<1>6. y = x + 1
  BY <1>1, <1>2, <1>3, <1>4, <1>5, HalfFacts
<1>7. QED
  BY <1>6 DEF x, y, m

\* A ticket just drawn is one back.
LEMMA DiffNew ==
    ASSUME NEW n \in Ticket
    PROVE  (Inc(n) - n) % TicketMod = 1
<1>1. Inc(n) \in Ticket /\ Inc(n) = IF n = TicketMod - 1 THEN 0 ELSE n + 1
  BY IncFacts
<1>2. (Inc(n) - n) % TicketMod = IF Inc(n) >= n THEN Inc(n) - n ELSE Inc(n) - n + TicketMod
  BY <1>1, DiffFacts
<1>3. n \in Int /\ 0 <= n
  BY HalfFacts DEF Ticket
<1>4. QED
  BY <1>1, <1>2, <1>3, HalfFacts

\* limit - next as the signed number it stands for.
LEMMA AheadFacts ==
    ASSUME TypeOK
    PROVE  /\ Ahead \in Int /\ -Half <= Ahead /\ Ahead < Half
           /\ Ahead \in {limit - next, limit - next + TicketMod, limit - next - TicketMod}
<1>1. limit \in Ticket /\ next \in Ticket
  BY DEF TypeOK
<1>2. Ahead = Signed(limit, next)
  BY DEF Ahead, Signed
<1>3. QED
  BY <1>1, <1>2, SignedFacts

\* The tickets drawn since the one of t, as a number.
LEMMA BackFacts ==
    ASSUME TypeOK, NEW t \in Tasks
    PROVE  /\ Back(t) \in Int /\ 0 <= Back(t) /\ Back(t) < TicketMod
           /\ Back(t) \in {next - ticket[t], next - ticket[t] + TicketMod}
<1>1. next \in Ticket /\ ticket[t] \in Ticket
  BY DEF TypeOK
<1>2. QED
  BY <1>1, DiffFacts, HalfFacts DEF Back, Ticket

\* Within reach, a ticket is served when the limit is not behind it.
LEMMA ServedFacts ==
    ASSUME TypeOK, NEW t \in Tasks, Back(t) >= 1, Ahead + Back(t) < Half
    PROVE  /\ Served(ticket[t]) <=> Ahead + Back(t) >= 0
           /\ (limit - ticket[t]) % TicketMod = Half - 1 <=> Ahead + Back(t) = Half - 1
<1>1. limit \in Ticket /\ ticket[t] \in Ticket /\ next \in Ticket
  BY DEF TypeOK
<1> DEFINE g == (limit - ticket[t]) % TicketMod
<1>2. g \in Ticket /\ g = IF limit >= ticket[t] THEN limit - ticket[t] ELSE limit - ticket[t] + TicketMod
  BY <1>1, DiffFacts
<1>3. Served(ticket[t]) <=> g < Half
  BY DEF Served
<1> HIDE DEF g
<1>4. /\ limit \in Int /\ next \in Int /\ ticket[t] \in Int /\ g \in Int /\ 0 <= g /\ g < TicketMod
      /\ 0 <= limit /\ limit < TicketMod /\ 0 <= next /\ next < TicketMod
      /\ 0 <= ticket[t] /\ ticket[t] < TicketMod
  BY <1>1, <1>2, HalfFacts DEF Ticket
<1> DEFINE x == Ahead + Back(t)
<1>5. /\ x \in Int /\ -Half < x /\ x < Half
      /\ \/ x = limit - ticket[t]
         \/ x = limit - ticket[t] + TicketMod
         \/ x = limit - ticket[t] - TicketMod
         \/ x = limit - ticket[t] + 2 * TicketMod
  BY <1>4, AheadFacts, BackFacts, HalfFacts
<1> HIDE DEF x
<1>6. x = g \/ x = g - TicketMod
  BY <1>2, <1>4, <1>5, HalfFacts
<1>7. (g < Half <=> x >= 0) /\ (g = Half - 1 <=> x = Half - 1)
  BY <1>4, <1>5, <1>6, HalfFacts
<1>8. QED
  BY <1>3, <1>7 DEF x, g

-----------------------------------------------------------------------------
(* Counting the tasks that wait *)

\* The tasks that wait are finitely many, and no more than there are tasks.
LEMMA PendingFinite ==
    ASSUME NEW S \in SUBSET Tasks
    PROVE  IsFiniteSet(S) /\ Cardinality(S) \in Nat /\ Cardinality(S) <= Cardinality(Tasks)
BY RawSemaphoreAssumption, FS_Subset, FS_CardinalityType

\* There are at least as many tasks that wait as tickets behind the limit.
LEMMA UnservedCounted ==
    ASSUME TypeOK, NEW S \in SUBSET Tasks, NEW n \in Int,
           \A b \in 1 .. n : \E t \in S : Back(t) = b
    PROVE  n <= Cardinality(S)
<1> DEFINE f == [b \in 1 .. n |-> CHOOSE t \in S : Back(t) = b]
<1>1. \A b \in 1 .. n : f[b] \in S /\ Back(f[b]) = b
  OBVIOUS
<1>2. f \in [1 .. n -> S]
  BY <1>1
<1> HIDE DEF f
<1>3. \A a, b \in 1 .. n : f[a] = f[b] => a = b
  BY <1>1
<1>4. f \in Injection(1 .. n, S)
  BY <1>2, <1>3 DEF Injection, IsInjective
<1>5. IsFiniteSet(S) /\ Cardinality(S) \in Nat
  BY PendingFinite
<1>6. Cardinality(1 .. n) <= Cardinality(S)
  BY <1>4, <1>5, FS_Injection
<1>7. Cardinality(1 .. n) = IF 1 > n THEN 0 ELSE n - 1 + 1
  BY FS_Interval
<1>8. QED
  BY <1>5, <1>6, <1>7

\* The permits are never negative, and one is there for a task that sees
\* its ticket served.
LEMMA PermitsThere ==
    ASSUME PermitInv
    PROVE  /\ Ahead + 1 + Cardinality(PendingSet) >= 0
           /\ \A t \in Tasks : Pending(t) /\ Served(ticket[t])
                => Ahead + 1 + Cardinality(PendingSet) > 0
<1> DEFINE n == -Ahead - 1
<1>1. TypeOK /\ n \in Int /\ Ahead \in Int
  BY AheadFacts DEF PermitInv
<1>2. PendingSet \in SUBSET Tasks
  BY DEF PendingSet
<1>3. \A b \in 1 .. n : \E t \in PendingSet : Back(t) = b
  BY DEF PermitInv, UnservedHeld, PendingSet
<1>4. Cardinality(PendingSet) \in Nat
  BY <1>2, PendingFinite
<1>5. n <= Cardinality(PendingSet)
  BY <1>1, <1>2, <1>3, UnservedCounted
<1>6. ASSUME NEW t \in Tasks, Pending(t), Served(ticket[t])
      PROVE  Ahead + 1 + Cardinality(PendingSet) > 0
  <2>1. t \in PendingSet
    BY <1>6 DEF PendingSet
  <2>2. Back(t) >= 1 /\ Ahead + Back(t) < Half
    BY <1>6 DEF PermitInv, InReach
  <2>3. Ahead + Back(t) >= 0
    BY <1>1, <1>6, <2>2, ServedFacts
  <2>4. Back(t) \in Int
    BY <1>1, BackFacts
  <2>5. \A b \in 1 .. n : \E u \in PendingSet \ {t} : Back(u) = b
    BY <1>1, <1>3, <2>3, <2>4
  <2>6. n <= Cardinality(PendingSet \ {t})
    BY <1>1, <1>2, <2>5, UnservedCounted
  <2>7. Cardinality(PendingSet \ {t}) = Cardinality(PendingSet) - 1
    BY <1>2, <2>1, PendingFinite, FS_RemoveElement
  <2>8. QED
    BY <1>1, <1>4, <2>6, <2>7
<1>7. QED
  BY <1>1, <1>4, <1>5, <1>6

-----------------------------------------------------------------------------
(* Type correctness and the handlers *)

\* A step of some caller, as one action per case.
Step(c) ==
    \/ c \in Tasks /\ CreateTicket(c)
    \/ ReleaseTicket(c)
    \/ Event(c)
    \/ c \in Tasks /\ (Check(c) \/ AddHandler(c) \/ Recheck(c) \/ SetBlocked(c) \/ Confirm(c)
                       \/ Unblock(c) \/ Yield(c) \/ Loop(c) \/ ClearWait(c))

\* Every step is a step of a caller.
LEMMA NextIsStep ==
    ASSUME Next
    PROVE  \E c \in Callers : Step(c)
BY DEF Next, Progress, Step, Callers

\* A step of a task keeps the types and the handlers inside acquire().
LEMMA TaskHandlers ==
    ASSUME HandlerInv, NEW c \in Tasks,
           \/ CreateTicket(c) \/ Check(c) \/ AddHandler(c) \/ Recheck(c) \/ SetBlocked(c)
           \/ Confirm(c) \/ Unblock(c) \/ Yield(c) \/ Loop(c) \/ ClearWait(c)
    PROVE  HandlerInv'
<1>0. c \in Callers /\ 0 \in Ticket
  BY HalfFacts DEF Callers, Ticket
<1> USE <1>0 DEF HandlerInv, TypeOK, HandlersInside, Goto, Labels
<1>1. CASE CreateTicket(c)
  BY <1>1, IncFacts DEF CreateTicket
<1>2. CASE Check(c)
  <2>1. ASSUME Return(c) PROVE HandlerInv'
    BY <1>2, <2>1 DEF Check, Return
  <2>2. ASSUME Goto(c, "add"), UNCHANGED ticket PROVE HandlerInv'
    BY <1>2, <2>2 DEF Check
  <2>3. QED
    BY <1>2, <2>1, <2>2 DEF Check
<1>3. CASE AddHandler(c)
  BY <1>3 DEF AddHandler
<1>4. CASE Recheck(c)
  BY <1>4 DEF Recheck
<1>5. CASE SetBlocked(c)
  BY <1>5 DEF SetBlocked
<1>6. CASE Confirm(c)
  BY <1>6 DEF Confirm
<1>7. CASE Unblock(c)
  BY <1>7 DEF Unblock
<1>8. CASE Yield(c)
  BY <1>8 DEF Yield
<1>9. CASE Loop(c)
  BY <1>9 DEF Loop
<1>10. CASE ClearWait(c)
  BY <1>10 DEF ClearWait, Return
<1>11. QED
  BY <1>1, <1>2, <1>3, <1>4, <1>5, <1>6, <1>7, <1>8, <1>9, <1>10

\* A step of release() keeps the types and the handlers inside acquire().
LEMMA ReleaseHandlers ==
    ASSUME HandlerInv, NEW c \in Callers, ReleaseTicket(c) \/ Event(c)
    PROVE  HandlerInv'
<1>0. 0 \in Ticket
  BY HalfFacts DEF Ticket
<1> USE <1>0 DEF HandlerInv, TypeOK, HandlersInside, Goto, Labels, Callers
<1>1. CASE ReleaseTicket(c)
  BY <1>1, IncFacts DEF ReleaseTicket
<1>2. CASE Event(c)
  <2>1. blocked' \in [Tasks -> BOOLEAN]
    BY <1>2 DEF Event
  <2>2. QED
    BY <1>2, <2>1 DEF Event
<1>3. QED
  BY <1>1, <1>2

\* The first inductive invariant, from the first state on.
THEOREM HandlerInvariant == Spec => []HandlerInv
<1>1. Init => HandlerInv
  <2>1. SUFFICES ASSUME Init PROVE HandlerInv
    OBVIOUS
  <2>2. 0 \in Ticket /\ (InitialPermits - 1) % TicketMod \in Ticket
    BY RawSemaphoreAssumption, HalfFacts DEF Ticket
  <2>3. QED
    BY <2>1, <2>2 DEF Init, HandlerInv, TypeOK, HandlersInside, Labels
<1>2. HandlerInv /\ [Next]_vars => HandlerInv'
  <2>1. SUFFICES ASSUME HandlerInv, [Next]_vars PROVE HandlerInv'
    OBVIOUS
  <2>2. CASE Next
    <3>1. PICK c \in Callers : Step(c)
      BY <2>2, NextIsStep
    <3>2. QED
      BY <2>1, <3>1, TaskHandlers, ReleaseHandlers DEF Step
  <2>3. CASE UNCHANGED vars
    BY <2>1, <2>3 DEF vars, HandlerInv, TypeOK, HandlersInside
  <2>4. QED
    BY <2>1, <2>2, <2>3
<1>3. QED
  BY <1>1, <1>2, PTL DEF Spec

\* No acquire() leaves a handler behind, whatever release() it overtakes.
THEOREM NoStaleHandlerHolds == Spec => []NoStaleHandler
<1>1. HandlerInv => NoStaleHandler
  BY DEF HandlerInv, HandlersInside, NoStaleHandler
<1>2. QED
  BY <1>1, HandlerInvariant, PTL

-----------------------------------------------------------------------------
(* The tickets *)

\* A step that leaves the counters alone, and the tickets of the tasks that
\* still wait, and lets nobody wait anew or a served task go.
Quiet(t) ==
    /\ next' = next /\ limit' = limit
    /\ \A u \in Tasks : Pending(u)' => Pending(u) /\ ticket'[u] = ticket[u]
    /\ \A u \in Tasks : Pending(u) /\ ~Pending(u)' => u = t /\ Served(ticket[t])

\* Steps inside acquire(), and the event, are of that kind.
LEMMA QuietSteps ==
    ASSUME TypeOK, NEW c \in Callers,
           \/ Event(c)
           \/ c \in Tasks /\ (Check(c) \/ AddHandler(c) \/ Recheck(c) \/ SetBlocked(c)
                              \/ Confirm(c) \/ Unblock(c) \/ Yield(c) \/ Loop(c) \/ ClearWait(c))
    PROVE  Quiet(c)
<1> USE DEF TypeOK, Quiet, Pending, Goto, Callers
<1>1. CASE Event(c)
  BY <1>1 DEF Event
<1>2. CASE c \in Tasks /\ Check(c)
  <2>1. ASSUME Served(ticket[c]), Return(c) PROVE Quiet(c)
    BY <1>2, <2>1 DEF Check, Return
  <2>2. ASSUME Goto(c, "add"), UNCHANGED ticket PROVE Quiet(c)
    BY <1>2, <2>2 DEF Check
  <2>3. QED
    BY <1>2, <2>1, <2>2 DEF Check
<1>3. CASE c \in Tasks /\ AddHandler(c)
  BY <1>3 DEF AddHandler
<1>4. CASE c \in Tasks /\ Recheck(c)
  BY <1>4 DEF Recheck
<1>5. CASE c \in Tasks /\ SetBlocked(c)
  BY <1>5 DEF SetBlocked
<1>6. CASE c \in Tasks /\ Confirm(c)
  BY <1>6 DEF Confirm
<1>7. CASE c \in Tasks /\ Unblock(c)
  BY <1>7 DEF Unblock
<1>8. CASE c \in Tasks /\ Yield(c)
  BY <1>8 DEF Yield
<1>9. CASE c \in Tasks /\ Loop(c)
  BY <1>9 DEF Loop
<1>10. CASE c \in Tasks /\ ClearWait(c)
  BY <1>10 DEF ClearWait, Return
<1>11. QED
  BY <1>1, <1>2, <1>3, <1>4, <1>5, <1>6, <1>7, <1>8, <1>9, <1>10

\* Quiet steps keep the invariant: a ticket whose owner stops waiting was
\* served, and is not one of those that must be held.
LEMMA QuietPermits ==
    ASSUME PermitInv, TypeOK', NEW c, Quiet(c)
    PROVE  PermitInv' /\ Ahead' = Ahead
<1>1. Ahead' = Ahead
  BY DEF Quiet, Ahead
<1>2. \A u \in Tasks : Pending(u)' => Pending(u) /\ Back(u)' = Back(u)
  BY DEF Quiet, Back
<1>3. InReach'
  BY <1>1, <1>2 DEF PermitInv, InReach
<1>4. UnservedHeld'
  <2>1. SUFFICES ASSUME NEW b \in 1 .. (-Ahead - 1)
                 PROVE  \E t \in Tasks : Pending(t)' /\ Back(t)' = b
    BY <1>1 DEF UnservedHeld
  <2>2. PICK t \in Tasks : Pending(t) /\ Back(t) = b
    BY DEF PermitInv, UnservedHeld
  <2>3. Back(t) >= 1 /\ Ahead + Back(t) < Half /\ TypeOK
    BY <2>2 DEF PermitInv, InReach
  <2>4. Ahead \in Int
    BY <2>3, AheadFacts
  <2>5. ~Served(ticket[t])
    BY <2>2, <2>3, <2>4, ServedFacts
  <2>6. Pending(t)'
    BY <2>2, <2>5 DEF Quiet
  <2>7. QED
    BY <1>2, <2>2, <2>6
<1>5. QED
  BY <1>1, <1>3, <1>4 DEF PermitInv

\* The counters are far enough apart for one more ticket: a task that does
\* not wait yet is not among those that hold the tickets behind the limit.
LEMMA RoomForTicket ==
    ASSUME PermitInv, NEW c \in Tasks, ~Pending(c)
    PROVE  -Half < Ahead
<1>1. PendingSet \in SUBSET Tasks /\ c \notin PendingSet
  BY DEF PendingSet
<1>2. Ahead + 1 + Cardinality(PendingSet) >= 0
  BY PermitsThere
<1>3. PendingSet \cup {c} \in SUBSET Tasks
  BY <1>1
<1>4. Cardinality(PendingSet \cup {c}) <= Cardinality(Tasks)
  BY <1>3, PendingFinite
<1>5. IsFiniteSet(PendingSet) /\ Cardinality(PendingSet) \in Nat
  BY <1>1, PendingFinite
<1>6. Cardinality(PendingSet \cup {c}) = Cardinality(PendingSet) + 1
  BY <1>1, <1>5, FS_AddElement
<1>7. Ahead \in Int
  BY AheadFacts DEF PermitInv
<1>8. QED
  BY <1>2, <1>4, <1>5, <1>6, <1>7, HalfFacts

\* Drawing a ticket keeps the invariant.
LEMMA CreatePermits ==
    ASSUME PermitInv, TypeOK', NEW c \in Tasks, CreateTicket(c)
    PROVE  PermitInv' /\ Ahead' = Ahead - 1 /\ PendingSet' = PendingSet \cup {c} /\ ~Pending(c)
<1>1. TypeOK /\ c \in Callers /\ pc \in [Callers -> Labels]
  BY DEF PermitInv, TypeOK, Callers
<1>2. ~Pending(c) /\ Pending(c)' /\ \A u \in Tasks \ {c} : Pending(u)' <=> Pending(u)
  BY <1>1 DEF CreateTicket, Goto, Pending, Callers
<1>3. PendingSet' = PendingSet \cup {c}
  BY <1>2 DEF PendingSet
<1>4. -Half < Ahead
  BY <1>2, RoomForTicket
<1>5. /\ next' = Inc(next) /\ limit' = limit /\ ticket'[c] = next
      /\ \A u \in Tasks \ {c} : ticket'[u] = ticket[u]
  BY <1>1 DEF CreateTicket, TypeOK
<1>6. /\ limit \in Int /\ next \in Int /\ 0 <= next /\ next < TicketMod
      /\ next' \in Int /\ next' = IF next = TicketMod - 1 THEN 0 ELSE next + 1
  BY <1>1, <1>5, IncFacts, HalfFacts DEF TypeOK, Ticket
<1>7. Ahead' = Ahead - 1
  <2>1. limit \in Ticket /\ next \in Ticket
    BY <1>1 DEF TypeOK
  <2>2. Ahead = Signed(limit, next) /\ Ahead' = Signed(limit, Inc(next))
    BY <1>5 DEF Ahead, Signed
  <2>3. QED
    BY <1>4, <2>1, <2>2, SignedIncNext
<1>8. Back(c)' = 1
  BY <1>1, <1>5, DiffNew DEF Back, TypeOK
<1>9. ASSUME NEW u \in Tasks \ {c}, Pending(u)
      PROVE  Back(u)' = Back(u) + 1
  <2>1. Back(u) >= 1 /\ Ahead + Back(u) < Half
    BY <1>9 DEF PermitInv, InReach
  <2>2. Ahead \in Int /\ Back(u) \in Int
    BY <1>1, AheadFacts, BackFacts
  <2>3. Back(u) < TicketMod - 1
    BY <1>4, <2>1, <2>2, HalfFacts
  <2>4. next \in Ticket /\ ticket[u] \in Ticket
    BY <1>1 DEF TypeOK
  <2>5. (Inc(next) - ticket[u]) % TicketMod = ((next - ticket[u]) % TicketMod) + 1
    BY <2>3, <2>4, DiffInc DEF Back
  <2>6. QED
    BY <1>5, <2>5 DEF Back
<1>10. Ahead \in Int /\ Ahead < MaxPermits /\ Ahead < Half
  BY <1>1, AheadFacts DEF PermitInv
<1>11. InReach'
  <2>1. SUFFICES ASSUME NEW u \in Tasks, Pending(u)'
                 PROVE  Back(u)' >= 1 /\ Ahead' + Back(u)' < Half
    BY DEF InReach
  <2>2. CASE u = c
    BY <1>7, <1>8, <1>10, <2>2, HalfFacts
  <2>3. CASE u # c
    <3>1. Pending(u)
      BY <1>2, <2>1, <2>3
    <3>2. Back(u) >= 1 /\ Ahead + Back(u) < Half /\ Back(u) \in Int
      BY <1>1, <3>1, BackFacts DEF PermitInv, InReach
    <3>3. QED
      BY <1>7, <1>9, <1>10, <2>3, <3>1, <3>2, HalfFacts
  <2>4. QED
    BY <2>2, <2>3
<1>12. UnservedHeld'
  <2>1. SUFFICES ASSUME NEW b \in 1 .. (-(Ahead - 1) - 1)
                 PROVE  \E u \in Tasks : Pending(u)' /\ Back(u)' = b
    BY <1>7 DEF UnservedHeld
  <2>2. CASE b = 1
    BY <1>2, <1>8, <2>2
  <2>3. CASE b # 1
    <3>1. b - 1 \in 1 .. (-Ahead - 1)
      BY <1>10, <2>3
    <3>2. PICK u \in Tasks : Pending(u) /\ Back(u) = b - 1
      BY <3>1 DEF PermitInv, UnservedHeld
    <3>3. u # c /\ Pending(u)'
      BY <1>2, <3>2
    <3>4. QED
      BY <1>9, <3>2, <3>3
  <2>4. QED
    BY <2>2, <2>3
<1>13. QED
  BY <1>2, <1>3, <1>7, <1>10, <1>11, <1>12, HalfFacts DEF PermitInv

\* Advancing the limit keeps the invariant.
LEMMA ReleasePermits ==
    ASSUME PermitInv, TypeOK', NEW c \in Callers, ReleaseTicket(c)
    PROVE  PermitInv' /\ Ahead' = Ahead + 1 /\ PendingSet' = PendingSet
<1>1. TypeOK /\ pc \in [Callers -> Labels]
  BY DEF PermitInv, TypeOK
<1>2. \A u \in Tasks : Pending(u)' <=> Pending(u)
  BY <1>1 DEF ReleaseTicket, Goto, Pending, Callers
<1>3. PendingSet' = PendingSet
  BY <1>2 DEF PendingSet
<1>4. Ahead \in Int /\ Ahead + 1 < MaxPermits /\ NoLap
  BY <1>1, AheadFacts DEF ReleaseTicket
<1>5. Ahead' = Ahead + 1
  <2>1. limit \in Ticket /\ next \in Ticket
    BY <1>1 DEF TypeOK
  <2>2. Ahead = Signed(limit, next) /\ Ahead' = Signed(Inc(limit), next)
    BY DEF Ahead, Signed, ReleaseTicket
  <2>3. QED
    BY <1>4, <2>1, <2>2, SignedIncLimit, HalfFacts
<1>6. \A u \in Tasks : Back(u)' = Back(u)
  BY DEF Back, ReleaseTicket
<1>7. InReach'
  <2>1. SUFFICES ASSUME NEW u \in Tasks, Pending(u)
                 PROVE  Back(u) >= 1 /\ Ahead + 1 + Back(u) < Half
    BY <1>2, <1>5, <1>6 DEF InReach
  <2>2. Back(u) >= 1 /\ Ahead + Back(u) < Half /\ Back(u) \in Int
    BY <1>1, <2>1, BackFacts DEF PermitInv, InReach
  <2>3. (limit - ticket[u]) % TicketMod # Half - 1
    BY <1>4, <2>1 DEF NoLap
  <2>4. Ahead + Back(u) # Half - 1
    BY <1>1, <2>2, <2>3, ServedFacts
  <2>5. QED
    BY <1>4, <2>2, <2>4, HalfFacts
<1>8. UnservedHeld'
  <2>1. SUFFICES ASSUME NEW b \in 1 .. (-(Ahead + 1) - 1)
                 PROVE  \E u \in Tasks : Pending(u) /\ Back(u) = b
    BY <1>2, <1>5, <1>6 DEF UnservedHeld
  <2>2. b \in 1 .. (-Ahead - 1)
    BY <1>4
  <2>3. QED
    BY <2>2 DEF PermitInv, UnservedHeld
<1>9. QED
  BY <1>3, <1>4, <1>5, <1>7, <1>8 DEF PermitInv

\* The constructor leaves the limit one short of the permits.
LEMMA InitialAhead ==
    ASSUME Init
    PROVE  Ahead = InitialPermits - 1
<1> DEFINE l == (InitialPermits - 1) % TicketMod
<1>1. InitialPermits \in Nat /\ InitialPermits < Half
  BY RawSemaphoreAssumption, HalfFacts
<1>2. TicketMod \in Nat \ {0} /\ 0 \in Ticket
  BY HalfFacts DEF Ticket
<1>3. l \in Ticket /\ l = IF InitialPermits = 0 THEN TicketMod - 1 ELSE InitialPermits - 1
  BY <1>1, <1>2, HalfFacts DEF Ticket
<1>4. Ahead = Signed(l, 0)
  BY DEF Init, Ahead, Signed
<1> HIDE DEF l
<1>5. /\ Signed(l, 0) \in Int /\ -Half <= Signed(l, 0) /\ Signed(l, 0) < Half
      /\ Signed(l, 0) \in {l - 0, l - 0 + TicketMod, l - 0 - TicketMod}
  BY <1>2, <1>3, SignedFacts
<1>6. QED
  BY <1>1, <1>3, <1>4, <1>5, HalfFacts

\* The second inductive invariant holds from the first state on.
THEOREM PermitInvariant == Spec => []PermitInv
<1>1. Init => PermitInv
  <2>1. SUFFICES ASSUME Init PROVE PermitInv
    OBVIOUS
  <2>2. 0 \in Ticket /\ (InitialPermits - 1) % TicketMod \in Ticket
    BY RawSemaphoreAssumption, HalfFacts DEF Ticket
  <2>3. TypeOK
    BY <2>1, <2>2 DEF Init, TypeOK, Labels
  <2>4. Ahead = InitialPermits - 1
    BY <2>1, InitialAhead
  <2>5. \A u \in Tasks : ~Pending(u)
    BY <2>1 DEF Init, Pending, Callers
  <2>6. QED
    BY <2>3, <2>4, <2>5, RawSemaphoreAssumption DEF PermitInv, InReach, UnservedHeld
<1>2. PermitInv /\ TypeOK' /\ [Next]_vars => PermitInv'
  <2>1. SUFFICES ASSUME PermitInv, TypeOK', [Next]_vars PROVE PermitInv'
    OBVIOUS
  <2>2. CASE Next
    <3>1. PICK c \in Callers : Step(c)
      BY <2>2, NextIsStep
    <3>2. CASE c \in Tasks /\ CreateTicket(c)
      BY <2>1, <3>2, CreatePermits
    <3>3. CASE ReleaseTicket(c)
      BY <2>1, <3>3, ReleasePermits
    <3>4. CASE Quiet(c)
      BY <2>1, <3>4, QuietPermits
    <3>5. TypeOK
      BY <2>1 DEF PermitInv
    <3>6. QED
      BY <3>1, <3>2, <3>3, <3>4, <3>5, QuietSteps DEF Step
  <2>3. CASE UNCHANGED vars
    BY <2>1, <2>3
       DEF vars, PermitInv, TypeOK, InReach, UnservedHeld, Ahead, Back, Pending
  <2>4. QED
    BY <2>1, <2>2, <2>3
<1>3. HandlerInv => TypeOK
  BY DEF HandlerInv
<1>4. QED
  BY <1>1, <1>2, <1>3, HandlerInvariant, PTL DEF Spec

\* raw_semaphore implements the counting semaphore: no acquire() returns
\* without a permit of its own and every release() adds one, across the
\* wrapping of both counters.
THEOREM SemaphoreImplemented == Spec => ImplementsSemaphore
<1>1. Permits = Ahead + 1 + Cardinality(PendingSet)
  BY DEF Permits, PendingSet
<1>2. Init => Semaphore!Init
  <2>1. SUFFICES ASSUME Init PROVE Permits = InitialPermits
    BY DEF Semaphore!Init
  <2>2. Ahead = InitialPermits - 1
    BY <2>1, InitialAhead
  <2>3. PendingSet = {}
    BY <2>1 DEF Init, Pending, PendingSet, Callers
  <2>4. QED
    BY <1>1, <2>2, <2>3, FS_EmptySet, RawSemaphoreAssumption
<1>3. PermitInv /\ TypeOK' /\ [Next]_vars
        => [Semaphore!Release \/ Semaphore!Acquire]_Permits
  <2>1. SUFFICES ASSUME PermitInv, TypeOK', [Next]_vars
                 PROVE  Permits' = Permits \/ Semaphore!Release \/ Semaphore!Acquire
    OBVIOUS
  <2>2. /\ IsFiniteSet(PendingSet) /\ Cardinality(PendingSet) \in Nat
        /\ TypeOK /\ Ahead \in Int /\ PendingSet \in SUBSET Tasks
    BY <2>1, PendingFinite, AheadFacts DEF PermitInv, PendingSet
  <2>3. Permits = Ahead + 1 + Cardinality(PendingSet)
    BY DEF Permits, PendingSet
  <2>4. Permits' = Ahead' + 1 + Cardinality(PendingSet')
    BY DEF Permits, PendingSet
  <2>5. ASSUME NEW c \in Tasks, CreateTicket(c) PROVE Permits' = Permits
    <3>1. Ahead' = Ahead - 1 /\ PendingSet' = PendingSet \cup {c} /\ c \notin PendingSet
      BY <2>1, <2>5, CreatePermits DEF PendingSet
    <3>2. Cardinality(PendingSet') = Cardinality(PendingSet) + 1
      BY <2>2, <3>1, FS_AddElement
    <3>3. QED
      BY <2>2, <2>3, <2>4, <3>1, <3>2
  <2>6. ASSUME NEW c \in Callers, ReleaseTicket(c) PROVE Semaphore!Release
    <3>1. Ahead' = Ahead + 1 /\ PendingSet' = PendingSet
      BY <2>1, <2>6, ReleasePermits
    <3>2. QED
      BY <2>2, <2>3, <2>4, <3>1 DEF Semaphore!Release
  <2>7. ASSUME NEW c \in Callers, Quiet(c) PROVE Permits' = Permits \/ Semaphore!Acquire
    <3>1. Ahead' = Ahead
      BY <2>1, <2>7, QuietPermits
    <3>2. CASE PendingSet' = PendingSet
      BY <2>3, <2>4, <3>1, <3>2
    <3>3. CASE PendingSet' # PendingSet
      <4>1. PICK u \in Tasks : Pending(u) /\ ~Pending(u)'
        BY <2>7, <3>3 DEF Quiet, PendingSet
      <4>2. u = c /\ Served(ticket[c]) /\ Pending(c)
        BY <2>7, <4>1 DEF Quiet
      <4>3. PendingSet' = PendingSet \ {c} /\ c \in PendingSet
        BY <2>7, <4>1, <4>2 DEF Quiet, PendingSet
      <4>4. Cardinality(PendingSet') = Cardinality(PendingSet) - 1
        BY <2>2, <4>3, FS_RemoveElement
      <4>5. Permits > 0
        BY <2>1, <2>3, <4>1, <4>2, PermitsThere
      <4>6. QED
        BY <2>2, <2>3, <2>4, <3>1, <4>4, <4>5 DEF Semaphore!Acquire
    <3>4. QED
      BY <3>2, <3>3
  <2>8. CASE Next
    <3>1. PICK c \in Callers : Step(c)
      BY <2>8, NextIsStep
    <3>2. QED
      BY <2>2, <2>5, <2>6, <2>7, <3>1, QuietSteps DEF Step
  <2>9. CASE UNCHANGED vars
    BY <2>9 DEF vars, Permits, Ahead, Pending
  <2>10. QED
    BY <2>1, <2>8, <2>9
<1>4. HandlerInv => TypeOK
  BY DEF HandlerInv
<1>5. QED
  BY <1>2, <1>3, <1>4, PermitInvariant, HandlerInvariant, PTL
     DEF Spec, ImplementsSemaphore, Semaphore!Spec
=============================================================================

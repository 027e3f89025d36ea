--------------------------- MODULE SpinlockProofs ---------------------------
(***************************************************************************)
(* TLAPS proofs about Spinlock, for every finite set of processors and     *)
(* every counter width that exceeds the number of contexts.                *)
(***************************************************************************)
EXTENDS Spinlock, Sequences, FiniteSetTheorems, TLAPS

ActiveSet == {c \in Ctx : Active(c)}

(***************************************************************************)
(* The inductive strengthening of MutualExclusion: the tickets in use are  *)
(* distinct and lie between serving and next, there are exactly as many of *)
(* them as the counters are apart, owners have the ticket being served,    *)
(* and a value a try_lock() loaded has not been overtaken by serving       *)
(* alone.                                                                  *)
(***************************************************************************)
InRange == \A c \in Ctx : Active(c) => Dist(serving, ticket[c]) < Dist(serving, next)
Distinct == \A c, d \in Ctx : Active(c) /\ Active(d) /\ ticket[c] = ticket[d] => c = d
OwnerServed == \A c \in Ctx : Owner(c) => ticket[c] = serving
Counted == Cardinality(ActiveSet) = Dist(serving, next)
LoadedOld == \A c \in Ctx : pc[c] = "cas" => Dist(ticket[c], serving) <= Dist(ticket[c], next)

TicketInv == InRange /\ Distinct /\ OwnerServed /\ Counted /\ LoadedOld
IInv == TypeOK /\ TicketInv

-----------------------------------------------------------------------------
(* Facts about the wrapping counters *)

\* A distance is a counter value, zero exactly between equal values.
LEMMA DistType ==
    ASSUME NEW a \in Ticket, NEW b \in Ticket
    PROVE  /\ Dist(a, b) \in 0 .. (TicketMod - 1)
           /\ Dist(a, b) = 0 <=> a = b
BY TicketModAssumption DEF Ticket, Dist

\* Incrementing a counter value gives a counter value.
LEMMA IncType ==
    ASSUME NEW a \in Ticket
    PROVE  Inc(a) \in Ticket
BY TicketModAssumption DEF Ticket, Inc

\* Unless it laps the start, an increment of the end adds one to a distance.
LEMMA DistIncEnd ==
    ASSUME NEW a \in Ticket, NEW b \in Ticket, Inc(b) # a
    PROVE  Dist(a, Inc(b)) = Dist(a, b) + 1
BY TicketModAssumption DEF Ticket, Dist, Inc

\* An increment of the start takes one from a distance that is not zero.
LEMMA DistIncStart ==
    ASSUME NEW a \in Ticket, NEW b \in Ticket, a # b
    PROVE  Dist(Inc(a), b) = Dist(a, b) - 1
BY TicketModAssumption DEF Ticket, Dist, Inc

\* Counter values at the same distance from a third one are equal.
LEMMA DistInjective ==
    ASSUME NEW a \in Ticket, NEW b \in Ticket, NEW d \in Ticket, Dist(a, b) = Dist(a, d)
    PROVE  b = d
BY TicketModAssumption DEF Ticket, Dist

\* An increment of the end laps the start only from the largest distance.
LEMMA NoLapBelow ==
    ASSUME NEW a \in Ticket, NEW b \in Ticket, Dist(a, b) + 1 < TicketMod
    PROVE  Inc(b) # a
BY TicketModAssumption DEF Ticket, Dist, Inc

\* There are finitely many contexts.
LEMMA CtxFinite == IsFiniteSet(Ctx)
<1>1. IsFiniteSet({"task"})
  BY FS_Singleton
<1>2. IsFiniteSet({"task"} \cup {"irq"})
  BY <1>1, FS_AddElement
<1>3. Level = {"task"} \cup {"irq"}
  BY DEF Level
<1>4. IsFiniteSet(Level)
  BY <1>2, <1>3
<1>5. QED
  BY <1>4, TicketModAssumption, FS_Product DEF Ctx

-----------------------------------------------------------------------------
(* Type correctness *)

\* The critical_section values the code builds have their type.
LEMMA CliType ==
    /\ NotEntered \in CriticalSection
    /\ \A f \in BOOLEAN : Entered(f) \in CriticalSection
    /\ \A cs \in CriticalSection : MovedFrom(cs) \in CriticalSection
    /\ \A cs \in CriticalSection, f \in BOOLEAN : FlagAfter(cs, f) \in BOOLEAN
BY DEF NotEntered, Entered, MovedFrom, FlagAfter, CriticalSection

\* Every variable of the lock keeps its type in every reachable state.
THEOREM TypeCorrect == Spec => []TypeOK
<1>1. Init => TypeOK
  <2>1. SUFFICES ASSUME Init PROVE TypeOK
    OBVIOUS
  <2>2. 0 \in Ticket
    <3>1. Cardinality(Ctx) \in Nat
      BY CtxFinite, FS_CardinalityType
    <3>2. QED
      BY <3>1, TicketModAssumption DEF Ticket
  <2>3. QED
    BY <2>1, <2>2, CliType DEF Init, TypeOK, Labels
<1>2. TypeOK /\ [Next]_vars => TypeOK'
  <2>1. SUFFICES ASSUME TypeOK, [Next]_vars PROVE TypeOK'
    OBVIOUS
  <2> USE CliType DEF TypeOK
  <2>2. ASSUME NEW c \in Ctx, NEW l \in {"ticket", "load"}, EnterCli(c, l) PROVE TypeOK'
    BY <2>1, <2>2 DEF EnterCli, Goto, Ctx, Cpu, Labels
  <2>3. ASSUME NEW c \in Ctx, CreateTicket(c) PROVE TypeOK'
    BY <2>1, <2>3, IncType DEF CreateTicket, Goto, Labels
  <2>4. ASSUME NEW c \in Ctx, SpinDone(c) PROVE TypeOK'
    BY <2>1, <2>4 DEF SpinDone, Goto, Labels
  <2>5. ASSUME NEW c \in Ctx, ParkCli(c) PROVE TypeOK'
    BY <2>1, <2>5 DEF ParkCli, Goto, Labels
  <2>6. ASSUME NEW c \in Ctx, LoadServing(c) PROVE TypeOK'
    BY <2>1, <2>6 DEF LoadServing, Goto, Labels
  <2>7. ASSUME NEW c \in Ctx, TryAcquireTicket(c) PROVE TypeOK'
    BY <2>1, <2>7, IncType DEF TryAcquireTicket, Goto, Labels
  <2>8. ASSUME NEW c \in Ctx, UnlockExtract(c) PROVE TypeOK'
    BY <2>1, <2>8 DEF UnlockExtract, Goto, Labels
  <2>9. ASSUME NEW c \in Ctx, ReleaseTicket(c) PROVE TypeOK'
    BY <2>1, <2>9, IncType DEF ReleaseTicket, Goto, Labels
  <2>10. ASSUME NEW c \in Ctx, LeaveCli(c) PROVE TypeOK'
    <3>1. Cpu(c) \in CPUs
      BY DEF Ctx, Cpu
    <3>2. 0 \in Ticket
      BY <2>1, TicketModAssumption DEF Ticket
    <3>3. FlagAfter(cli[c], iflag[Cpu(c)]) \in BOOLEAN
      BY <2>1, <3>1
    <3>4. QED
      BY <2>1, <2>10, <3>1, <3>2, <3>3 DEF LeaveCli, Goto, Labels
  <2>11. ASSUME NEW p \in CPUs, EnterOuter(p) PROVE TypeOK'
    BY <2>1, <2>11 DEF EnterOuter
  <2>12. ASSUME NEW p \in CPUs, LeaveOuter(p) PROVE TypeOK'
    BY <2>1, <2>12 DEF LeaveOuter
  <2>13. ASSUME NEW p \in CPUs, TakeInterrupt(p) PROVE TypeOK'
    BY <2>1, <2>13 DEF TakeInterrupt
  <2>14. ASSUME NEW p \in CPUs, ReturnFromInterrupt(p) PROVE TypeOK'
    BY <2>1, <2>14 DEF ReturnFromInterrupt
  <2>15. CASE UNCHANGED vars
    BY <2>1, <2>15 DEF vars
  <2>16. QED
    BY <2>1, <2>2, <2>3, <2>4, <2>5, <2>6, <2>7, <2>8, <2>9, <2>10, <2>11, <2>12, <2>13, <2>14, <2>15
       DEF Next, Progress, Lock, TryLock
<1>3. QED
  BY <1>1, <1>2, PTL DEF Spec

-----------------------------------------------------------------------------
(* Mutual exclusion *)

\* A step that leaves the counters, the tickets and who holds one alone
\* keeps the ticket invariant.
LEMMA TicketStable ==
    ASSUME TypeOK, TypeOK', TicketInv,
           UNCHANGED <<next, serving>>,
           \A c \in Ctx : /\ Active(c)' <=> Active(c)
                          /\ Owner(c)' => Owner(c) \/ (Active(c) /\ ticket[c] = serving)
                          /\ Active(c) => ticket'[c] = ticket[c]
                          /\ pc'[c] = "cas" => \/ pc[c] = "cas" /\ ticket'[c] = ticket[c]
                                              \/ ticket'[c] = serving
    PROVE  TicketInv'
<1>1. ActiveSet' = ActiveSet
  BY DEF ActiveSet
<1>2. Counted'
  BY <1>1 DEF TicketInv, Counted, Dist
<1>3. InRange'
  BY DEF TicketInv, InRange, Dist
<1>4. Distinct'
  BY DEF TicketInv, Distinct
<1>5. OwnerServed'
  BY DEF TicketInv, OwnerServed, Owner, Active
<1>6. LoadedOld'
  <2>1. SUFFICES ASSUME NEW c \in Ctx, pc'[c] = "cas"
                 PROVE  Dist(ticket'[c], serving) <= Dist(ticket'[c], next)
    BY DEF LoadedOld, Dist
  <2>2. CASE pc[c] = "cas" /\ ticket'[c] = ticket[c]
    BY <2>2 DEF TicketInv, LoadedOld
  <2>3. CASE ticket'[c] = serving
    BY <2>3, DistType DEF TypeOK
  <2>4. QED
    BY <2>1, <2>2, <2>3
<1>7. QED
  BY <1>2, <1>3, <1>4, <1>5, <1>6 DEF TicketInv

\* There are fewer contexts than counter values, so next never catches up with
\* serving.
LEMMA CreateFits ==
    ASSUME TypeOK, TicketInv, NEW c \in Ctx, CreateTicket(c)
    PROVE  /\ Inc(next) # serving /\ Dist(serving, Inc(next)) = Dist(serving, next) + 1
           /\ Cardinality(ActiveSet') = Cardinality(ActiveSet) + 1
<1>1. ~Active(c) /\ Active(c)' /\ \A d \in Ctx \ {c} : pc'[d] = pc[d]
  BY DEF CreateTicket, At, Goto, Active, TypeOK
<1>2. ActiveSet' = ActiveSet \cup {c} /\ c \notin ActiveSet
  BY <1>1 DEF ActiveSet, Active
<1>3. /\ IsFiniteSet(ActiveSet)
      /\ IsFiniteSet(ActiveSet')
      /\ Cardinality(ActiveSet') = Cardinality(ActiveSet) + 1
      /\ Cardinality(ActiveSet') <= Cardinality(Ctx)
      /\ Cardinality(ActiveSet) \in Nat /\ Cardinality(Ctx) \in Nat
  <2>1. ActiveSet \subseteq Ctx /\ ActiveSet' \subseteq Ctx
    BY DEF ActiveSet
  <2>2. QED
    BY <1>2, <2>1, CtxFinite, FS_Subset, FS_AddElement, FS_CardinalityType
<1>4. Inc(next) # serving /\ Dist(serving, Inc(next)) = Dist(serving, next) + 1
  <2>1. Dist(serving, next) + 1 < TicketMod
    BY <1>3, TicketModAssumption DEF TicketInv, Counted
  <2>2. QED
    BY <2>1, NoLapBelow, DistIncEnd DEF TypeOK
<1>5. QED
  BY <1>3, <1>4

\* create_ticket() keeps the ticket invariant.
LEMMA TicketCreated ==
    ASSUME TypeOK, TypeOK', TicketInv, NEW c \in Ctx, CreateTicket(c)
    PROVE  TicketInv'
<1>1. /\ ~Active(c) /\ Active(c)' /\ ~Owner(c)'
      /\ ticket'[c] = next /\ next' = Inc(next) /\ serving' = serving
      /\ \A d \in Ctx \ {c} : pc'[d] = pc[d] /\ ticket'[d] = ticket[d]
      /\ pc'[c] = "spin"
  BY DEF CreateTicket, At, Goto, Active, Owner, TypeOK
<1>4. /\ Inc(next) # serving /\ Dist(serving, Inc(next)) = Dist(serving, next) + 1
      /\ Cardinality(ActiveSet') = Cardinality(ActiveSet) + 1
  BY CreateFits
<1>5. Counted'
  BY <1>1, <1>4 DEF TicketInv, Counted, Dist
<1>6. InRange'
  <2>1. SUFFICES ASSUME NEW d \in Ctx, Active(d)'
                 PROVE  Dist(serving, ticket'[d]) < Dist(serving, Inc(next))
    BY <1>1 DEF InRange, Dist
  <2>2. CASE d = c
    BY <2>2, <1>1, <1>4, DistType DEF TypeOK
  <2>3. CASE d # c
    BY <2>1, <2>3, <1>1, <1>4, DistType DEF TicketInv, InRange, TypeOK, Active
  <2>4. QED
    BY <2>2, <2>3
<1>7. Distinct'
  <2>1. ASSUME NEW d \in Ctx \ {c}, Active(d) PROVE ticket[d] # next
    BY <2>1, DistType DEF TicketInv, InRange, TypeOK
  <2>2. QED
    BY <1>1, <2>1 DEF TicketInv, Distinct, Active
<1>8. OwnerServed'
  BY <1>1 DEF TicketInv, OwnerServed, Owner
<1>9. LoadedOld'
  <2>1. SUFFICES ASSUME NEW d \in Ctx, pc'[d] = "cas"
                 PROVE  Dist(ticket'[d], serving) <= Dist(ticket'[d], Inc(next))
    BY <1>1 DEF LoadedOld, Dist
  <2>2. pc[d] = "cas" /\ ticket'[d] = ticket[d]
    BY <1>1, <2>1
  <2>3. Dist(ticket[d], Inc(next)) = Dist(ticket[d], next) + 1
    BY <2>2, DistIncEnd DEF CreateTicket, NoLap, TypeOK
  <2>4. Dist(ticket[d], serving) <= Dist(ticket[d], next)
    BY <2>2 DEF TicketInv, LoadedOld
  <2>5. QED
    BY <2>2, <2>3, <2>4, DistType DEF TypeOK
<1>10. QED
  BY <1>5, <1>6, <1>7, <1>8, <1>9 DEF TicketInv

\* A compare and exchange that succeeds found the lock free.
LEMMA CasFindsFree ==
    ASSUME TypeOK, TicketInv, NEW c \in Ctx, pc[c] = "cas", next = ticket[c]
    PROVE  serving = next /\ \A d \in Ctx : ~Active(d)
<1>1. serving = next
  <2>1. Dist(ticket[c], serving) <= 0
    BY DistType DEF TicketInv, LoadedOld, TypeOK
  <2>2. QED
    BY <2>1, DistType DEF TypeOK
<1>2. QED
  BY <1>1, DistType DEF TicketInv, InRange, TypeOK

\* try_acquire_ticket() keeps the ticket invariant.
LEMMA TicketTried ==
    ASSUME TypeOK, TypeOK', TicketInv, NEW c \in Ctx, TryAcquireTicket(c)
    PROVE  TicketInv'
<1>1. CASE next # ticket[c]
  <2>1. /\ UNCHANGED <<next, serving, ticket>>
        /\ pc[c] = "cas" /\ pc' = [pc EXCEPT ![c] = "leave"]
    BY <1>1 DEF TryAcquireTicket, At, Goto
  <2>2. \A d \in Ctx : /\ Active(d)' <=> Active(d)
                       /\ Owner(d)' => Owner(d)
                       /\ pc'[d] = "cas" => pc[d] = "cas"
    BY <2>1 DEF Active, Owner, TypeOK
  <2>3. QED
    BY <2>1, <2>2, TicketStable, Zenon
<1>2. CASE next = ticket[c]
  <2>1. /\ next' = Inc(next) /\ UNCHANGED <<serving, ticket>>
        /\ pc[c] = "cas" /\ pc' = [pc EXCEPT ![c] = "park"]
        /\ NoLap
    BY <1>2 DEF TryAcquireTicket, At, Goto
  <2>2. serving = next /\ \A d \in Ctx : ~Active(d)
    BY <1>2, <2>1, CasFindsFree
  <2>3. \A d \in Ctx : (Active(d)' <=> d = c) /\ (Owner(d)' <=> d = c)
    BY <2>1, <2>2 DEF Active, Owner, TypeOK
  <2>4. Inc(next) # next
    BY <1>2, <2>1 DEF NoLap
  <2>5. Dist(serving, Inc(next)) = 1
    BY <2>2, <2>4, DistIncEnd, DistType DEF TypeOK
  <2>6. Counted'
    <3>1. ActiveSet' = {c}
      BY <2>3 DEF ActiveSet
    <3>2. Cardinality({c}) = 1
      BY FS_Singleton
    <3>3. QED
      BY <2>1, <2>5, <3>1, <3>2 DEF Counted, Dist
  <2>7. InRange'
    <3>1. Dist(serving, ticket[c]) = 0
      BY <1>2, <2>2, DistType DEF TypeOK
    <3>2. QED
      BY <2>1, <2>3, <2>5, <3>1 DEF InRange, Dist
  <2>8. Distinct' /\ OwnerServed'
    BY <1>2, <2>1, <2>2, <2>3 DEF Distinct, OwnerServed
  <2>9. LoadedOld'
    <3>1. SUFFICES ASSUME NEW d \in Ctx, pc'[d] = "cas"
                   PROVE  Dist(ticket[d], serving) <= Dist(ticket[d], Inc(next))
      BY <2>1 DEF LoadedOld, Dist
    <3>2. pc[d] = "cas"
      BY <2>1, <3>1 DEF TypeOK
    <3>3. Dist(ticket[d], Inc(next)) = Dist(ticket[d], next) + 1
      BY <2>1, <3>2, DistIncEnd DEF NoLap, TypeOK
    <3>4. QED
      BY <2>2, <3>3, DistType DEF TypeOK
  <2>10. QED
    BY <2>6, <2>7, <2>8, <2>9 DEF TicketInv
<1>3. QED
  BY <1>1, <1>2

\* release_ticket() keeps the ticket invariant: only the owner passes on the
\* lock, so serving stops at next.
LEMMA TicketReleased ==
    ASSUME TypeOK, TypeOK', TicketInv, NEW c \in Ctx, ReleaseTicket(c)
    PROVE  TicketInv'
<1>1. /\ serving' = Inc(serving) /\ UNCHANGED <<next, ticket>>
      /\ pc[c] = "release" /\ pc' = [pc EXCEPT ![c] = "leave"]
  BY DEF ReleaseTicket, At, Goto
<1>2. ticket[c] = serving /\ Active(c) /\ Owner(c)
  BY <1>1 DEF TicketInv, OwnerServed, Owner, Active
<1>3. serving # next
  BY <1>2, DistType DEF TicketInv, InRange, TypeOK
<1>4. Dist(Inc(serving), next) = Dist(serving, next) - 1
  BY <1>3, DistIncStart DEF TypeOK
<1>5. /\ ~Active(c)'
      /\ \A d \in Ctx \ {c} : (Active(d)' <=> Active(d)) /\ (Owner(d)' <=> Owner(d))
  BY <1>1 DEF Active, Owner, TypeOK
<1>6. ASSUME NEW d \in Ctx \ {c}, Active(d) PROVE ticket[d] # serving
  BY <1>2, <1>6 DEF TicketInv, Distinct
<1>7. Counted'
  <2>1. ActiveSet' = ActiveSet \ {c} /\ c \in ActiveSet
    BY <1>2, <1>5 DEF ActiveSet
  <2>2. ActiveSet \subseteq Ctx
    BY DEF ActiveSet
  <2>3. IsFiniteSet(ActiveSet)
    BY <2>2, CtxFinite, FS_Subset
  <2>4. Cardinality(ActiveSet') = Cardinality(ActiveSet) - 1
    BY <2>1, <2>3, FS_RemoveElement
  <2>5. QED
    BY <1>1, <1>4, <2>4 DEF TicketInv, Counted, Dist
<1>8. InRange'
  <2>1. SUFFICES ASSUME NEW d \in Ctx, Active(d)'
                 PROVE  Dist(Inc(serving), ticket[d]) < Dist(Inc(serving), next)
    BY <1>1 DEF InRange, Dist
  <2>2. d # c /\ Active(d)
    BY <1>5, <2>1
  <2>3. Dist(Inc(serving), ticket[d]) = Dist(serving, ticket[d]) - 1
    BY <1>6, <2>2, DistIncStart DEF TypeOK
  <2>4. QED
    BY <1>4, <2>2, <2>3, DistType DEF TicketInv, InRange, TypeOK
<1>9. Distinct'
  BY <1>1, <1>5 DEF TicketInv, Distinct
<1>10. OwnerServed'
  <2>1. SUFFICES ASSUME NEW d \in Ctx, Owner(d)' PROVE FALSE
    BY DEF OwnerServed
  <2>2. d # c /\ Owner(d) /\ Active(d)
    BY <1>1, <1>5, <2>1 DEF Owner, Active, TypeOK
  <2>3. QED
    BY <1>6, <2>2 DEF TicketInv, OwnerServed
<1>11. LoadedOld'
  <2>1. SUFFICES ASSUME NEW d \in Ctx, pc'[d] = "cas"
                 PROVE  Dist(ticket[d], Inc(serving)) <= Dist(ticket[d], next)
    BY <1>1 DEF LoadedOld, Dist
  <2>2. pc[d] = "cas"
    BY <1>1, <2>1 DEF TypeOK
  <2>3. Dist(ticket[d], serving) < Dist(ticket[d], next)
    <3>1. Dist(ticket[d], serving) # Dist(ticket[d], next)
      BY <1>3, DistInjective DEF TypeOK
    <3>2. QED
      BY <2>2, <3>1, DistType, TicketModAssumption DEF TicketInv, LoadedOld, TypeOK
  <2>4. Inc(serving) # ticket[d]
    BY <2>3, DistType, NoLapBelow, TicketModAssumption DEF TypeOK
  <2>5. QED
    BY <2>3, <2>4, DistIncEnd, DistType DEF TypeOK
<1>12. QED
  BY <1>7, <1>8, <1>9, <1>10, <1>11 DEF TicketInv

\* The ticket invariant holds in every reachable state.
THEOREM TicketInvariant == Spec => []TicketInv
<1>1. Init => TicketInv
  <2>1. SUFFICES ASSUME Init PROVE TicketInv
    OBVIOUS
  <2>2. ActiveSet = {} /\ \A c \in Ctx : ~Active(c) /\ ~Owner(c) /\ pc[c] # "cas"
    BY <2>1 DEF ActiveSet, Active, Owner, Init
  <2>3. Cardinality({}) = 0
    BY FS_EmptySet
  <2>4. Dist(serving, next) = 0
    BY <2>1 DEF Init, Dist
  <2>5. QED
    BY <2>2, <2>3, <2>4 DEF TicketInv, InRange, Distinct, OwnerServed, Counted, LoadedOld
<1>2. TypeOK /\ TypeOK' /\ TicketInv /\ [Next]_vars => TicketInv'
  <2>1. SUFFICES ASSUME TypeOK, TypeOK', TicketInv, [Next]_vars PROVE TicketInv'
    OBVIOUS
  <2> DEFINE Stable ==
        /\ UNCHANGED <<next, serving>>
        /\ \A c \in Ctx :
             /\ Active(c)' <=> Active(c)
             /\ Owner(c)' => Owner(c) \/ (Active(c) /\ ticket[c] = serving)
             /\ Active(c) => ticket'[c] = ticket[c]
             /\ pc'[c] = "cas" => \/ pc[c] = "cas" /\ ticket'[c] = ticket[c]
                                 \/ ticket'[c] = serving
  <2>2. ASSUME Stable PROVE TicketInv'
    BY <2>1, <2>2, TicketStable
  <2> USE DEF TypeOK, Active, Owner, At, Goto
  <2>3. ASSUME NEW c \in Ctx, Lock(c) PROVE Stable
    BY <2>1, <2>3 DEF Lock, EnterCli
  <2>4. ASSUME NEW c \in Ctx, TryLock(c) PROVE Stable
    BY <2>1, <2>4 DEF TryLock, EnterCli
  <2>5. ASSUME NEW c \in Ctx, SpinDone(c) PROVE Stable
    BY <2>1, <2>5 DEF SpinDone
  <2>6. ASSUME NEW c \in Ctx, ParkCli(c) PROVE Stable
    BY <2>1, <2>6 DEF ParkCli
  <2>7. ASSUME NEW c \in Ctx, LoadServing(c) PROVE Stable
    BY <2>1, <2>7 DEF LoadServing
  <2>8. ASSUME NEW c \in Ctx, UnlockExtract(c) PROVE Stable
    BY <2>1, <2>8 DEF UnlockExtract
  <2>9. ASSUME NEW c \in Ctx, LeaveCli(c) PROVE Stable
    BY <2>1, <2>9 DEF LeaveCli
  <2>10. ASSUME NEW p \in CPUs,
                \/ EnterOuter(p) \/ LeaveOuter(p)
                \/ TakeInterrupt(p) \/ ReturnFromInterrupt(p)
         PROVE  Stable
    BY <2>1, <2>10 DEF EnterOuter, LeaveOuter, TakeInterrupt, ReturnFromInterrupt
  <2>11. CASE UNCHANGED vars
    <3>1. Stable
      BY <2>11 DEF vars
    <3>2. QED
      BY <2>2, <3>1
  <2>12. ASSUME NEW c \in Ctx, CreateTicket(c) PROVE TicketInv'
    BY <2>1, <2>12, TicketCreated
  <2>13. ASSUME NEW c \in Ctx, TryAcquireTicket(c) PROVE TicketInv'
    BY <2>1, <2>13, TicketTried
  <2>14. ASSUME NEW c \in Ctx, ReleaseTicket(c) PROVE TicketInv'
    BY <2>1, <2>14, TicketReleased
  <2> HIDE DEF Stable, TypeOK, Active, Owner, At, Goto
  <2>15. QED
    BY <2>1, <2>2, <2>3, <2>4, <2>5, <2>6, <2>7, <2>8, <2>9, <2>10, <2>11, <2>12, <2>13, <2>14
       DEF Next, Progress
<1>3. QED
  BY <1>1, <1>2, TypeCorrect, PTL DEF Spec

\* Between the end of its spin loop (or its compare and exchange) and its
\* release_ticket() a context owns the lock alone, although the counters
\* wrap.
THEOREM MutualExclusionHolds == Spec => []MutualExclusion
<1>1. TicketInv => MutualExclusion
  BY DEF TicketInv, Distinct, OwnerServed, MutualExclusion, Owner, Active
<1>2. QED
  BY <1>1, TicketInvariant, PTL
-----------------------------------------------------------------------------
(* The interrupt flag *)

(***************************************************************************)
(* The strengthening of FlagRestored: a context inside the lock's code     *)
(* runs with interrupts disabled, so its processor executes no other, and  *)
(* what it saved is on its own stack or, while it owns the lock, parked in *)
(* the lock.                                                               *)
(***************************************************************************)
Inside(c) == pc[c] # "idle"
InsideRuns == \A c \in Ctx : Inside(c) => Running(c) /\ ~iflag[Cpu(c)]
SavedFlag ==
    \A c \in Ctx : /\ Inside(c) /\ pc[c] # "held" => cli[c] = Entered(entryFlag[c])
                   /\ pc[c] = "held" => hostCli = Entered(entryFlag[c])
FlagInv == InsideRuns /\ SavedFlag

\* Two contexts of one processor do not run at the same time.
LEMMA RunsAlone ==
    ASSUME TypeOK, NEW c \in Ctx, NEW d \in Ctx, Cpu(c) = Cpu(d), Running(c), Running(d)
    PROVE  c = d
<1>1. c = <<c[1], c[2]>> /\ d = <<d[1], d[2]>> /\ c[2] \in Level /\ d[2] \in Level /\ c[1] \in CPUs
  BY DEF Ctx
<1>2. c[1] = d[1]
  BY DEF Cpu
<1>3. c[2] = d[2]
  BY <1>1, <1>2 DEF Running, Cpu, Level
<1>4. QED
  BY <1>1, <1>2, <1>3

\* A critical_section that was entered with the flag at f restores f.
LEMMA FlagComesBack ==
    ASSUME NEW f \in BOOLEAN
    PROVE  FlagAfter(Entered(f), FALSE) = f
BY DEF FlagAfter, Entered

\* A step of one context inside the lock's code that leaves the flag disabled
\* keeps the flag invariant, if what it saved is where the invariant wants it.
LEMMA FlagContextStep ==
    ASSUME TypeOK, FlagInv, NEW c \in Ctx, NEW l,
           Running(c), ~iflag'[Cpu(c)], pc' = [pc EXCEPT ![c] = l], l # "idle",
           UNCHANGED inIrq,
           \A p \in CPUs \ {Cpu(c)} : iflag'[p] = iflag[p],
           \A d \in Ctx \ {c} : cli'[d] = cli[d] /\ entryFlag'[d] = entryFlag[d],
           \A d \in Ctx \ {c} : pc[d] = "held" => hostCli' = hostCli,
           l # "held" => cli'[c] = Entered(entryFlag'[c]),
           l = "held" => hostCli' = Entered(entryFlag'[c])
    PROVE  FlagInv'
<1>1. pc'[c] = l /\ \A d \in Ctx \ {c} : pc'[d] = pc[d]
  BY DEF TypeOK
<1>2. \A d \in Ctx : Running(d)' <=> Running(d)
  BY DEF Running
<1>3. \A d \in Ctx : Cpu(d) \in CPUs
  BY DEF Ctx, Cpu
<1>4. InsideRuns'
  <2>1. SUFFICES ASSUME NEW d \in Ctx, pc'[d] # "idle" PROVE Running(d)' /\ ~iflag'[Cpu(d)]
    BY DEF InsideRuns, Inside
  <2>2. CASE d = c
    BY <1>2, <2>2
  <2>3. CASE d # c
    <3>1. Running(d) /\ ~iflag[Cpu(d)]
      BY <1>1, <2>1, <2>3 DEF FlagInv, InsideRuns, Inside
    <3>2. Cpu(d) # Cpu(c)
      BY <2>3, <3>1, RunsAlone
    <3>3. QED
      BY <1>2, <1>3, <3>1, <3>2
  <2>4. QED
    BY <2>2, <2>3
<1>5. SavedFlag'
  <2>1. SUFFICES ASSUME NEW d \in Ctx
                 PROVE  /\ pc'[d] # "idle" /\ pc'[d] # "held" => cli'[d] = Entered(entryFlag'[d])
                        /\ pc'[d] = "held" => hostCli' = Entered(entryFlag'[d])
    BY DEF SavedFlag, Inside, Entered
  <2>2. CASE d = c
    BY <1>1, <2>2
  <2>3. CASE d # c
    BY <1>1, <2>3 DEF FlagInv, SavedFlag, Inside
  <2>4. QED
    BY <2>2, <2>3
<1>6. QED
  BY <1>4, <1>5 DEF FlagInv

\* A step that leaves every context where it is and what it saved alone, and
\* changes the flag and the level only of a processor none of whose contexts is
\* inside, keeps the flag invariant.
LEMMA FlagProcessorStep ==
    ASSUME TypeOK, FlagInv, NEW p \in CPUs, \A d \in Ctx : Cpu(d) = p => ~Inside(d),
           UNCHANGED <<pc, cli, hostCli, entryFlag>>,
           \A q \in CPUs \ {p} : iflag'[q] = iflag[q] /\ inIrq'[q] = inIrq[q]
    PROVE  FlagInv'
<1>1. InsideRuns'
  <2>1. SUFFICES ASSUME NEW d \in Ctx, pc[d] # "idle" PROVE Running(d)' /\ ~iflag'[Cpu(d)]
    BY DEF InsideRuns, Inside
  <2>2. Cpu(d) # p /\ Cpu(d) \in CPUs
    BY <2>1 DEF Inside, Ctx, Cpu
  <2>3. QED
    BY <2>1, <2>2 DEF FlagInv, InsideRuns, Inside, Running
<1>2. SavedFlag'
  BY DEF FlagInv, SavedFlag, Inside, Entered
<1>3. QED
  BY <1>1, <1>2 DEF FlagInv

\* Every step keeps the flag invariant.
LEMMA FlagStep ==
    ASSUME TypeOK, MutualExclusion, FlagInv, [Next]_vars
    PROVE  FlagInv'
<1>0. \A c \in Ctx : Cpu(c) \in CPUs
  BY DEF Ctx, Cpu
<1>1. ASSUME NEW c \in Ctx, NEW l, EnterCli(c, l), l \in {"ticket", "load"} PROVE FlagInv'
  <2>1. /\ Running(c) /\ ~iflag'[Cpu(c)] /\ pc' = [pc EXCEPT ![c] = l] /\ UNCHANGED <<inIrq, hostCli>>
        /\ \A p \in CPUs \ {Cpu(c)} : iflag'[p] = iflag[p]
    BY <1>0, <1>1 DEF EnterCli, At, Goto, TypeOK
  <2>2. \A d \in Ctx \ {c} : cli'[d] = cli[d] /\ entryFlag'[d] = entryFlag[d]
    BY <1>1 DEF EnterCli, TypeOK
  <2>3. cli'[c] = Entered(iflag[Cpu(c)]) /\ entryFlag'[c] = iflag[Cpu(c)]
    BY <1>1 DEF EnterCli, TypeOK
  <2>4. QED
    BY <1>1, <2>1, <2>2, <2>3, FlagContextStep
<1>2. ASSUME NEW c \in Ctx, CreateTicket(c) \/ SpinDone(c) \/ LoadServing(c) \/ TryAcquireTicket(c) \/ ReleaseTicket(c)
      PROVE  FlagInv'
  <2>1. PICK l \in {"spin", "park", "cas", "leave"} : pc' = [pc EXCEPT ![c] = l]
    BY <1>2 DEF CreateTicket, SpinDone, LoadServing, TryAcquireTicket, ReleaseTicket, Goto
  <2>2. /\ Running(c) /\ pc[c] # "idle" /\ pc[c] # "held"
        /\ UNCHANGED <<inIrq, iflag, cli, hostCli, entryFlag>>
    BY <1>2 DEF CreateTicket, SpinDone, LoadServing, TryAcquireTicket, ReleaseTicket, At
  <2>3. cli[c] = Entered(entryFlag[c]) /\ ~iflag[Cpu(c)]
    BY <2>2 DEF FlagInv, SavedFlag, InsideRuns, Inside
  <2>4. QED
    BY <2>1, <2>2, <2>3, FlagContextStep
<1>3. ASSUME NEW c \in Ctx, ParkCli(c) PROVE FlagInv'
  <2>1. /\ Running(c) /\ pc[c] = "park" /\ pc' = [pc EXCEPT ![c] = "held"]
        /\ UNCHANGED <<inIrq, iflag, entryFlag>> /\ hostCli' = cli[c]
        /\ \A d \in Ctx \ {c} : cli'[d] = cli[d]
    BY <1>3 DEF ParkCli, At, Goto, TypeOK
  <2>2. \A d \in Ctx \ {c} : pc[d] # "held"
    BY <2>1 DEF MutualExclusion, Owner
  <2>3. cli[c] = Entered(entryFlag[c]) /\ ~iflag[Cpu(c)]
    BY <2>1 DEF FlagInv, SavedFlag, InsideRuns, Inside
  <2>4. QED
    BY <2>1, <2>2, <2>3, FlagContextStep
<1>4. ASSUME NEW c \in Ctx, UnlockExtract(c) PROVE FlagInv'
  <2>1. /\ Running(c) /\ pc[c] = "held" /\ pc' = [pc EXCEPT ![c] = "release"]
        /\ UNCHANGED <<inIrq, iflag, entryFlag>> /\ cli'[c] = hostCli
        /\ \A d \in Ctx \ {c} : cli'[d] = cli[d]
    BY <1>4 DEF UnlockExtract, At, Goto, TypeOK
  <2>2. \A d \in Ctx \ {c} : pc[d] # "held"
    BY <2>1 DEF MutualExclusion, Owner
  <2>3. hostCli = Entered(entryFlag[c]) /\ ~iflag[Cpu(c)]
    BY <2>1 DEF FlagInv, SavedFlag, InsideRuns, Inside
  <2>4. QED
    BY <2>1, <2>2, <2>3, FlagContextStep
<1>5. ASSUME NEW c \in Ctx, LeaveCli(c) PROVE FlagInv'
  <2>1. /\ Running(c) /\ pc[c] = "leave" /\ pc'[c] = "idle" /\ UNCHANGED <<inIrq, hostCli>>
        /\ \A d \in Ctx \ {c} : pc'[d] = pc[d] /\ cli'[d] = cli[d] /\ entryFlag'[d] = entryFlag[d]
        /\ \A p \in CPUs \ {Cpu(c)} : iflag'[p] = iflag[p]
    BY <1>0, <1>5 DEF LeaveCli, At, Goto, TypeOK
  <2>2. ASSUME NEW d \in Ctx, pc'[d] # "idle" PROVE d # c /\ Running(d) /\ ~iflag[Cpu(d)] /\ Cpu(d) # Cpu(c)
    BY <2>1, <2>2, RunsAlone DEF FlagInv, InsideRuns, Inside
  <2>3. InsideRuns'
    BY <1>0, <2>1, <2>2 DEF InsideRuns, Inside, Running
  <2>4. SavedFlag'
    BY <2>1, <2>2 DEF FlagInv, SavedFlag, Inside, Entered
  <2>5. QED
    BY <2>3, <2>4 DEF FlagInv
<1>6. ASSUME NEW p \in CPUs,
             EnterOuter(p) \/ LeaveOuter(p) \/ TakeInterrupt(p) \/ ReturnFromInterrupt(p)
      PROVE  FlagInv'
  <2>1. /\ UNCHANGED <<pc, cli, hostCli, entryFlag>>
        /\ \A q \in CPUs \ {p} : iflag'[q] = iflag[q] /\ inIrq'[q] = inIrq[q]
    BY <1>6 DEF EnterOuter, LeaveOuter, TakeInterrupt, ReturnFromInterrupt, TypeOK
  <2>2. ASSUME NEW d \in Ctx, Cpu(d) = p, Inside(d) PROVE FALSE
    <3>1. Running(d) /\ ~iflag[p] /\ pc[d] # "idle"
      BY <2>2 DEF FlagInv, InsideRuns, Inside
    <3>2. /\ <<p, "task">> \in Ctx /\ Cpu(<<p, "task">>) = p
          /\ <<p, "irq">> \in Ctx /\ Cpu(<<p, "irq">>) = p
      BY DEF Ctx, Level, Cpu
    <3>3. CASE EnterOuter(p) \/ LeaveOuter(p)
      <4>1. Running(<<p, "task">>) /\ pc[<<p, "task">>] = "idle"
        BY <3>3 DEF EnterOuter, LeaveOuter, At
      <4>2. QED
        BY <2>2, <3>1, <3>2, <4>1, RunsAlone
    <3>4. CASE TakeInterrupt(p)
      BY <3>1, <3>4 DEF TakeInterrupt
    <3>5. CASE ReturnFromInterrupt(p)
      <4>1. Running(<<p, "irq">>) /\ pc[<<p, "irq">>] = "idle"
        BY <3>2, <3>5 DEF ReturnFromInterrupt, Running
      <4>2. QED
        BY <2>2, <3>1, <3>2, <4>1, RunsAlone
    <3>6. QED
      BY <1>6, <3>3, <3>4, <3>5
  <2>3. QED
    BY <2>1, <2>2, FlagProcessorStep
<1>7. CASE UNCHANGED vars
  BY <1>7 DEF vars, FlagInv, InsideRuns, SavedFlag, Inside, Running, Entered
<1>8. QED
  BY <1>1, <1>2, <1>3, <1>4, <1>5, <1>6, <1>7 DEF Next, Progress, Lock, TryLock

\* unlock() and a failed try_lock() leave the interrupt flag as the caller had
\* it, although the saved flag is parked in storage that all callers share.
THEOREM FlagRestoredHolds == Spec => FlagRestored
<1>1. Init => FlagInv
  BY DEF Init, FlagInv, InsideRuns, SavedFlag, Inside
<1>2. TypeOK /\ FlagInv /\ [Next]_vars
        => [\A c \in Ctx : pc[c] # "idle" /\ pc'[c] = "idle"
                              => iflag'[Cpu(c)] = entryFlag[c]]_vars
  <2>1. SUFFICES ASSUME TypeOK, FlagInv, [Next]_vars,
                        NEW c \in Ctx, pc[c] # "idle", pc'[c] = "idle"
                 PROVE  iflag'[Cpu(c)] = entryFlag[c]
    OBVIOUS
  <2>2. LeaveCli(c)
    <3>1. ASSUME NEW d \in Ctx, NEW l, l # "idle", pc' = [pc EXCEPT ![d] = l] PROVE FALSE
      BY <2>1, <3>1 DEF TypeOK
    <3>2. ASSUME NEW d \in Ctx, Lock(d) \/ TryLock(d) \/ (Progress(d) /\ ~LeaveCli(d)) PROVE FALSE
      <4>1. \E l : l # "idle" /\ pc' = [pc EXCEPT ![d] = l]
        BY <3>2 DEF Lock, TryLock, EnterCli, Progress, CreateTicket, SpinDone, ParkCli,
                    LoadServing, TryAcquireTicket, UnlockExtract, ReleaseTicket, Goto
      <4>2. QED
        BY <3>1, <4>1
    <3>3. ASSUME NEW d \in Ctx, LeaveCli(d) PROVE d = c
      BY <2>1, <3>3 DEF LeaveCli, Goto, TypeOK
    <3>4. ASSUME NEW p \in CPUs,
                 EnterOuter(p) \/ LeaveOuter(p) \/ TakeInterrupt(p) \/ ReturnFromInterrupt(p)
          PROVE  FALSE
      BY <2>1, <3>4 DEF EnterOuter, LeaveOuter, TakeInterrupt, ReturnFromInterrupt
    <3>5. ~UNCHANGED vars
      BY <2>1 DEF vars
    <3>6. QED
      BY <2>1, <3>2, <3>3, <3>4, <3>5 DEF Next
  <2>3. Cpu(c) \in CPUs /\ entryFlag[c] \in BOOLEAN
    <3>1. Cpu(c) \in CPUs
      BY DEF Ctx, Cpu
    <3>2. entryFlag[c] \in BOOLEAN
      BY <2>1 DEF TypeOK
    <3>3. QED
      BY <3>1, <3>2
  <2>4. pc[c] = "leave" /\ iflag'[Cpu(c)] = FlagAfter(cli[c], iflag[Cpu(c)])
    BY <2>1, <2>2, <2>3 DEF LeaveCli, At, TypeOK
  <2>5. cli[c] = Entered(entryFlag[c]) /\ ~iflag[Cpu(c)] /\ iflag[Cpu(c)] \in BOOLEAN
    BY <2>1, <2>3, <2>4 DEF FlagInv, SavedFlag, InsideRuns, Inside, TypeOK
  <2>6. iflag[Cpu(c)] = FALSE
    BY <2>5
  <2>7. QED
    BY <2>3, <2>4, <2>5, <2>6, FlagComesBack
<1>3. TypeOK /\ MutualExclusion /\ FlagInv /\ [Next]_vars => FlagInv'
  BY FlagStep
<1>4. QED
  BY <1>1, <1>2, <1>3, TypeCorrect, MutualExclusionHolds, PTL DEF Spec, FlagRestored
-----------------------------------------------------------------------------
(* First come, first served *)

\* Every ticket between the counters is in use: the queue has no gaps.
Filled ==
    \A b \in Ticket : Dist(serving, b) < Dist(serving, next)
        => \E c \in Ctx : Active(c) /\ ticket[c] = b

\* The length of the queue, and the number of those in front of a context.
Gap == Dist(serving, next)
Place(c) == Dist(serving, ticket[c])

\* Line lists the contexts that have a ticket by the number of those in front
\* of them.
LineOK ==
    /\ Gap \in Nat /\ Line \in [1 .. Gap -> Ctx]
    /\ \A i \in 1 .. Gap : Active(Line[i]) /\ Place(Line[i]) = i - 1
    /\ \A c \in Ctx, i \in 1 .. Gap : Active(c) /\ Place(c) = i - 1 => Line[i] = c

\* A step that leaves the counters, the tickets in use and who has one alone
\* leaves no gap.
LEMMA FilledStable ==
    ASSUME Filled, UNCHANGED <<next, serving>>,
           \A c \in Ctx : Active(c) => Active(c)' /\ ticket'[c] = ticket[c]
    PROVE  Filled'
BY DEF Filled, Dist

\* create_ticket() puts its caller right behind the last ticket.
LEMMA FilledCreated ==
    ASSUME TypeOK, TicketInv, Filled, NEW c \in Ctx, CreateTicket(c)
    PROVE  Filled'
<1>1. /\ ~Active(c) /\ Active(c)' /\ ticket'[c] = next /\ next' = Inc(next) /\ serving' = serving
      /\ \A d \in Ctx \ {c} : ticket'[d] = ticket[d] /\ (Active(d)' <=> Active(d))
  BY DEF CreateTicket, At, Goto, Active, TypeOK
<1>2. SUFFICES ASSUME NEW b \in Ticket, Dist(serving, b) < Dist(serving, Inc(next))
               PROVE  \E d \in Ctx : Active(d)' /\ ticket'[d] = b
  BY <1>1 DEF Filled, Dist
<1>3. Dist(serving, b) <= Dist(serving, next)
  BY <1>2, CreateFits, DistType DEF TypeOK
<1>4. CASE Dist(serving, b) = Dist(serving, next)
  BY <1>1, <1>4, DistInjective DEF TypeOK
<1>5. CASE Dist(serving, b) < Dist(serving, next)
  <2>1. PICK d \in Ctx : Active(d) /\ ticket[d] = b
    BY <1>5 DEF Filled
  <2>2. QED
    BY <1>1, <2>1
<1>6. QED
  BY <1>3, <1>4, <1>5, DistType DEF TypeOK

\* A compare and exchange that succeeds makes its caller the only one.
LEMMA FilledTried ==
    ASSUME TypeOK, TicketInv, NEW c \in Ctx, TryAcquireTicket(c), next = ticket[c]
    PROVE  /\ Filled'
           /\ serving = next /\ serving' = serving /\ ticket' = ticket /\ Dist(serving, next') = 1
           /\ \A d \in Ctx : ~Active(d) /\ (Active(d)' <=> d = c) /\ (Owner(d)' <=> d = c)
<1>1. /\ next' = Inc(next) /\ UNCHANGED <<serving, ticket>>
      /\ pc[c] = "cas" /\ pc' = [pc EXCEPT ![c] = "park"] /\ NoLap
  BY DEF TryAcquireTicket, At, Goto
<1>2. serving = next /\ \A d \in Ctx : ~Active(d)
  BY <1>1, CasFindsFree
<1>3. \A d \in Ctx : (Active(d)' <=> d = c) /\ (Owner(d)' <=> d = c)
  BY <1>1, <1>2 DEF Active, Owner, TypeOK
<1>4. Dist(serving, Inc(next)) = 1
  <2>1. Inc(next) # next
    BY <1>1 DEF NoLap
  <2>2. QED
    BY <1>2, <2>1, DistIncEnd, DistType DEF TypeOK
<1>5. Filled'
  <2>1. SUFFICES ASSUME NEW b \in Ticket, Dist(serving, b) < 1
                 PROVE  \E d \in Ctx : Active(d)' /\ ticket[d] = b
    BY <1>1, <1>4 DEF Filled, Dist
  <2>2. b = serving
    BY <2>1, DistType DEF TypeOK
  <2>3. QED
    BY <1>2, <1>3, <2>2
<1>6. QED
  BY <1>1, <1>2, <1>3, <1>4, <1>5

\* What release_ticket() does to the tickets: its caller was first, and everybody
\* else moves up by one.
LEMMA ReleaseMovesUp ==
    ASSUME TypeOK, TicketInv, NEW c \in Ctx, ReleaseTicket(c)
    PROVE  /\ serving' = Inc(serving) /\ UNCHANGED <<next, ticket>>
           /\ ticket[c] = serving /\ Owner(c) /\ Active(c) /\ ~Active(c)' /\ ~Owner(c)'
           /\ serving # next /\ Dist(Inc(serving), next) = Dist(serving, next) - 1
           /\ \A d \in Ctx \ {c} : /\ (Active(d)' <=> Active(d)) /\ ~Owner(d)'
                                   /\ Active(d) => ticket[d] # serving
<1>1. /\ serving' = Inc(serving) /\ UNCHANGED <<next, ticket>>
      /\ pc[c] = "release" /\ pc' = [pc EXCEPT ![c] = "leave"]
  BY DEF ReleaseTicket, At, Goto
<1>2. ticket[c] = serving /\ Active(c) /\ Owner(c)
  BY <1>1 DEF TicketInv, OwnerServed, Owner, Active
<1>3. serving # next
  BY <1>2, DistType DEF TicketInv, InRange, TypeOK
<1>4. Dist(Inc(serving), next) = Dist(serving, next) - 1
  BY <1>3, DistIncStart DEF TypeOK
<1>5. ~Active(c)' /\ ~Owner(c)' /\ \A d \in Ctx \ {c} : (Active(d)' <=> Active(d)) /\ (Owner(d)' <=> Owner(d))
  BY <1>1 DEF Active, Owner, TypeOK
<1>6. \A d \in Ctx \ {c} : Active(d) => ticket[d] # serving
  BY <1>2 DEF TicketInv, Distinct
<1>7. \A d \in Ctx \ {c} : ~Owner(d)
  BY <1>6 DEF TicketInv, OwnerServed, Owner, Active
<1>8. QED
  BY <1>1, <1>2, <1>3, <1>4, <1>5, <1>6, <1>7

\* release_ticket() takes away the first ticket only.
LEMMA FilledReleased ==
    ASSUME TypeOK, TicketInv, Filled, NEW c \in Ctx, ReleaseTicket(c)
    PROVE  Filled'
<1>1. /\ serving' = Inc(serving) /\ UNCHANGED <<next, ticket>>
      /\ ticket[c] = serving
      /\ serving # next /\ Dist(Inc(serving), next) = Dist(serving, next) - 1
      /\ \A d \in Ctx \ {c} : Active(d)' <=> Active(d)
  BY ReleaseMovesUp
<1>2. SUFFICES ASSUME NEW b \in Ticket, Dist(Inc(serving), b) < Dist(Inc(serving), next)
               PROVE  \E d \in Ctx : Active(d)' /\ ticket[d] = b
  BY <1>1 DEF Filled, Dist
<1>3. b # serving
  <2>1. SUFFICES ASSUME b = serving PROVE FALSE
    OBVIOUS
  <2>2. Dist(Inc(serving), serving) = TicketMod - 1
    BY TicketModAssumption DEF Ticket, Dist, Inc, TypeOK
  <2>3. QED
    BY <1>2, <2>1, <2>2, IncType, DistType, TicketModAssumption DEF TypeOK
<1>4. Dist(Inc(serving), b) = Dist(serving, b) - 1
  BY <1>3, DistIncStart DEF TypeOK
<1>5. Dist(serving, b) < Dist(serving, next)
  BY <1>1, <1>2, <1>4, DistType DEF TypeOK
<1>6. PICK d \in Ctx : Active(d) /\ ticket[d] = b
  BY <1>5 DEF Filled
<1>7. QED
  BY <1>1, <1>3, <1>6

\* The steps between, but for those that grant the lock.
Between(c) ==
    \/ Lock(c) \/ TryLock(c) \/ ParkCli(c) \/ LoadServing(c) \/ UnlockExtract(c) \/ LeaveCli(c)
    \/ TryAcquireTicket(c) /\ next # ticket[c]
Outside(p) ==
    EnterOuter(p) \/ LeaveOuter(p) \/ TakeInterrupt(p) \/ ReturnFromInterrupt(p)
SameQueue ==
    /\ UNCHANGED <<next, serving>>
    /\ \A d \in Ctx : (Active(d)' <=> Active(d)) /\ (Active(d) => ticket'[d] = ticket[d])

\* They change neither the queue nor the owner.
LEMMA BetweenIsQuiet ==
    ASSUME TypeOK, [Next]_vars
    PROVE  \/ SameQueue /\ \A d \in Ctx : Owner(d)' <=> Owner(d)
           \/ \E c \in Ctx : \/ CreateTicket(c) \/ SpinDone(c) \/ ReleaseTicket(c)
                             \/ TryAcquireTicket(c) /\ next = ticket[c]
<1> DEFINE Quiet == SameQueue /\ \A d \in Ctx : Owner(d)' <=> Owner(d)
<1>1. ASSUME NEW c \in Ctx, Between(c) PROVE Quiet
  <2>1. CASE Lock(c) \/ TryLock(c)
    BY <2>1 DEF Lock, TryLock, EnterCli, At, Goto, TypeOK, SameQueue, Active, Owner
  <2>2. CASE ParkCli(c)
    BY <2>2 DEF ParkCli, At, Goto, TypeOK, SameQueue, Active, Owner
  <2>3. CASE LoadServing(c)
    BY <2>3 DEF LoadServing, At, Goto, TypeOK, SameQueue, Active, Owner
  <2>4. CASE UnlockExtract(c)
    BY <2>4 DEF UnlockExtract, At, Goto, TypeOK, SameQueue, Active, Owner
  <2>5. CASE LeaveCli(c)
    BY <2>5 DEF LeaveCli, At, Goto, TypeOK, SameQueue, Active, Owner
  <2>6. CASE TryAcquireTicket(c) /\ next # ticket[c]
    BY <2>6 DEF TryAcquireTicket, At, Goto, TypeOK, SameQueue, Active, Owner
  <2>7. QED
    BY <1>1, <2>1, <2>2, <2>3, <2>4, <2>5, <2>6 DEF Between
<1>2. ASSUME NEW p \in CPUs, Outside(p) PROVE Quiet
  BY <1>2 DEF Outside, EnterOuter, LeaveOuter, TakeInterrupt, ReturnFromInterrupt,
              SameQueue, Active, Owner
<1>3. CASE UNCHANGED vars
  BY <1>3 DEF vars, SameQueue, Active, Owner
<1> HIDE DEF Quiet
<1>4. QED
  BY <1>1, <1>2, <1>3 DEF Next, Progress, Between, Outside, Quiet

\* The queue never has a gap.
THEOREM FilledInvariant == Spec => []Filled
<1>1. Init => Filled
  <2>1. SUFFICES ASSUME Init, NEW b \in Ticket, Dist(serving, b) < Dist(serving, next) PROVE FALSE
    BY DEF Filled
  <2>2. Dist(serving, next) = 0 /\ serving \in Ticket
    BY <2>1, TicketModAssumption DEF Init, Dist, Ticket
  <2>3. QED
    BY <2>1, <2>2, DistType
<1>2. TypeOK /\ TicketInv /\ Filled /\ [Next]_vars => Filled'
  <2>1. SUFFICES ASSUME TypeOK, TicketInv, Filled, [Next]_vars PROVE Filled'
    OBVIOUS
  <2>2. CASE SameQueue
    BY <2>1, <2>2, FilledStable DEF SameQueue
  <2>3. ASSUME NEW c \in Ctx, SpinDone(c) PROVE Filled'
    <3>1. SameQueue
      BY <2>1, <2>3 DEF SpinDone, At, Goto, TypeOK, SameQueue, Active
    <3>2. QED
      BY <2>2, <3>1
  <2>4. QED
    BY <2>1, <2>2, <2>3, BetweenIsQuiet, FilledCreated, FilledTried, FilledReleased
<1>3. QED
  BY <1>1, <1>2, TypeCorrect, TicketInvariant, PTL DEF Spec

\* Line is what its name says as long as tickets are distinct and without gaps.
LEMMA LineIsOK ==
    ASSUME TypeOK, TicketInv, Filled
    PROVE  LineOK
<1>1. Gap \in Nat
  BY DistType DEF Gap, TypeOK
<1> DEFINE At0(c, i) == Active(c) /\ Dist(serving, ticket[c]) = i - 1
<1>2. ASSUME NEW i \in 1 .. Gap PROVE \E c \in Ctx : At0(c, i)
  <2>1. PICK b \in Ticket : Dist(serving, b) = i - 1
    <3>1. serving \in Ticket /\ i - 1 \in 0 .. (TicketMod - 1)
      <4>1. serving \in Ticket /\ Gap \in 0 .. (TicketMod - 1)
        BY DistType DEF Gap, TypeOK
      <4>2. QED
        BY <4>1, TicketModAssumption
    <3>2. CASE serving + (i - 1) < TicketMod
      <4>1. serving + (i - 1) \in Ticket /\ Dist(serving, serving + (i - 1)) = i - 1
        BY <3>1, <3>2, TicketModAssumption DEF Ticket, Dist
      <4>2. QED
        BY <4>1
    <3>3. CASE serving + (i - 1) >= TicketMod
      <4>1. serving + (i - 1) - TicketMod \in Ticket /\ Dist(serving, serving + (i - 1) - TicketMod) = i - 1
        BY <3>1, <3>3, TicketModAssumption DEF Ticket, Dist
      <4>2. QED
        BY <4>1
    <3>4. QED
      BY <3>1, <3>2, <3>3, TicketModAssumption DEF Ticket
  <2>2. Dist(serving, b) < Dist(serving, next)
    BY <1>1, <2>1 DEF Gap
  <2>3. QED
    BY <2>1, <2>2 DEF Filled
<1>3. \A i \in 1 .. Gap : Line[i] = CHOOSE c \in Ctx : At0(c, i)
  BY DEF Line, Gap
<1>4. \A i \in 1 .. Gap : Line[i] \in Ctx /\ At0(Line[i], i)
  <2>1. TAKE i \in 1 .. Gap
  <2>2. \E c \in Ctx : At0(c, i)
    BY <1>2
  <2> HIDE DEF At0
  <2>3. QED
    BY <1>3, <2>2
<1>5. Line \in [1 .. Gap -> Ctx]
  BY <1>4 DEF Line, Gap
<1>6. ASSUME NEW c \in Ctx, NEW i \in 1 .. Gap, At0(c, i) PROVE Line[i] = c
  <2>1. ticket[Line[i]] = ticket[c]
    BY <1>4, <1>6, DistInjective DEF TypeOK
  <2>2. QED
    BY <1>4, <1>6, <2>1 DEF TicketInv, Distinct
<1>7. QED
  BY <1>1, <1>4, <1>5, <1>6 DEF LineOK, Place

\* Contexts get the lock in the order in which they drew their tickets, and
\* try_lock() never overtakes anyone: hw_spinlock implements FifoLock.
THEOREM FifoImplemented == Spec => ImplementsFifo
<1> DEFINE Owned == \E c \in Ctx : Owner(c)
<1>1. Init => Fifo!Init
  <2>1. SUFFICES ASSUME Init PROVE Line = <<>> /\ Owned = FALSE
    BY DEF Fifo!Init
  <2>2. Dist(serving, next) = 0
    BY <2>1 DEF Init, Dist
  <2>3. Line = <<>>
    BY <2>2 DEF Line
  <2>4. ~Owned
    BY <2>1 DEF Init, Owner
  <2>5. QED
    BY <2>3, <2>4
<1>2. /\ TypeOK /\ TicketInv /\ LineOK /\ TypeOK' /\ TicketInv' /\ LineOK' /\ [Next]_vars
      => [Fifo!Next]_(Fifo!lockVars)
  <2>1. SUFFICES ASSUME TypeOK, TicketInv, LineOK, TypeOK', TicketInv', LineOK', [Next]_vars
                 PROVE  Fifo!Next \/ (Line' = Line /\ Owned' = Owned)
    BY DEF Fifo!lockVars
  <2>2. /\ Gap \in Nat /\ Gap' \in Nat
        /\ Line \in [1 .. Gap -> Ctx] /\ Line' \in [1 .. Gap' -> Ctx]
        /\ Gap = Dist(serving, next) /\ Gap' = Dist(serving', next')
        /\ \A i \in 1 .. Gap : Active(Line[i]) /\ Dist(serving, ticket[Line[i]]) = i - 1
        /\ \A c \in Ctx, i \in 1 .. Gap' :
              Active(c)' /\ Dist(serving', ticket'[c]) = i - 1 => Line'[i] = c
    BY <2>1 DEF LineOK, Gap, Place, Dist
  <2>3. ASSUME SameQueue PROVE Line' = Line
    <3>1. Gap' = Gap
      BY <2>2, <2>3 DEF SameQueue
    <3>2. \A i \in 1 .. Gap : Line'[i] = Line[i]
      BY <2>2, <2>3, <3>1 DEF SameQueue
    <3>3. QED
      BY <2>2, <3>1, <3>2
  <2>4. ASSUME NEW c \in Ctx, CreateTicket(c) PROVE Fifo!Arrive(c)
    <3>1. /\ ~Active(c) /\ Active(c)' /\ ticket'[c] = next /\ next' = Inc(next) /\ serving' = serving
          /\ \A d \in Ctx \ {c} : ticket'[d] = ticket[d] /\ (Active(d)' <=> Active(d))
          /\ \A d \in Ctx : Owner(d)' <=> Owner(d)
      BY <2>1, <2>4 DEF CreateTicket, At, Goto, Active, Owner, TypeOK
    <3>2. Gap' = Gap + 1
      BY <2>1, <2>2, <2>4, <3>1, CreateFits
    <3>3. \A i \in 1 .. Gap : Line'[i] = Line[i]
      BY <2>2, <3>1, <3>2
    <3>4. Line'[Gap + 1] = c
      BY <2>2, <3>1, <3>2
    <3>5. Line \in Seq(Ctx) /\ Len(Line) = Gap
      BY <2>2
    <3>6. Line' = Append(Line, c)
      BY <2>2, <3>2, <3>3, <3>4, <3>5
    <3>7. \A i \in DOMAIN Line : Line[i] # c
      BY <2>2, <3>1
    <3>8. Owned' = Owned
      BY <3>1
    <3>9. QED
      BY <3>6, <3>7, <3>8 DEF Fifo!Arrive, Fifo!InQueue
  <2>5. ASSUME NEW c \in Ctx, SpinDone(c) PROVE Fifo!Grant
    <3>1. /\ SameQueue /\ pc[c] = "spin" /\ Active(c) /\ Owner(c)' /\ ticket[c] = serving
      BY <2>1, <2>5 DEF SpinDone, At, Goto, TypeOK, SameQueue, Active, Owner
    <3>2. Line # <<>>
      <4>1. Gap > 0
        BY <2>1, <2>2, <3>1, DistType DEF TicketInv, InRange, TypeOK
      <4>2. QED
        BY <2>2, <4>1
    <3>3. ~Owned
      <4>1. ASSUME NEW d \in Ctx, Owner(d) PROVE FALSE
        <5>1. d = c
          BY <2>1, <3>1, <4>1 DEF TicketInv, OwnerServed, Distinct, Active, Owner
        <5>2. QED
          BY <3>1, <4>1, <5>1 DEF Owner
      <4>2. QED
        BY <4>1
    <3>4. Owned'
      BY <3>1
    <3>5. QED
      BY <2>3, <3>1, <3>2, <3>3, <3>4 DEF Fifo!Grant
  <2>6. ASSUME NEW c \in Ctx, TryAcquireTicket(c), next = ticket[c] PROVE Fifo!TryGrant(c)
    <3>1. /\ serving = next /\ serving' = serving /\ ticket' = ticket /\ Dist(serving, next') = 1
          /\ Active(c)' /\ Owner(c)'
      BY <2>1, <2>6, FilledTried
    <3>2. Gap = 0 /\ Gap' = 1
      BY <2>1, <2>2, <3>1, DistType DEF TypeOK
    <3>3. Line = <<>>
      BY <2>2, <3>2
    <3>4. Line'[1] = c
      <4>1. Dist(serving', ticket'[c]) = 0
        BY <2>1, <2>6, <3>1, DistType DEF TypeOK
      <4>2. QED
        BY <2>2, <3>1, <3>2, <4>1
    <3>5. Line' = <<c>>
      BY <2>2, <3>2, <3>4
    <3>6. Owned'
      BY <3>1
    <3>7. QED
      BY <3>3, <3>5, <3>6 DEF Fifo!TryGrant
  <2>7. ASSUME NEW c \in Ctx, ReleaseTicket(c) PROVE Fifo!Release
    <3>1. /\ serving' = Inc(serving) /\ UNCHANGED <<next, ticket>>
          /\ ticket[c] = serving /\ Owner(c) /\ Active(c) /\ ~Active(c)' /\ ~Owner(c)'
          /\ serving # next /\ Dist(Inc(serving), next) = Dist(serving, next) - 1
          /\ \A d \in Ctx \ {c} : /\ (Active(d)' <=> Active(d)) /\ ~Owner(d)'
                                  /\ Active(d) => ticket[d] # serving
      BY <2>1, <2>7, ReleaseMovesUp
    <3>2. Gap' = Gap - 1
      BY <2>2, <3>1
    <3>3. ASSUME NEW i \in 1 .. Gap' PROVE Line'[i] = Line[i + 1]
      <4>1. i + 1 \in 1 .. Gap
        BY <2>2, <3>2
      <4>2. PICK d \in Ctx : d = Line[i + 1] /\ Active(d) /\ Dist(serving, ticket[d]) = i
        BY <2>2, <4>1
      <4>3. ticket[d] # serving
        BY <2>1, <4>2, DistType DEF TypeOK
      <4>4. d # c /\ Active(d)'
        BY <3>1, <4>2, <4>3
      <4>5. Dist(Inc(serving), ticket[d]) = i - 1
        BY <2>1, <4>2, <4>3, DistIncStart DEF TypeOK
      <4>6. Line'[i] = d
        BY <2>2, <3>1, <4>2, <4>4, <4>5
      <4>7. QED
        BY <4>2, <4>6
    <3>4. Line \in Seq(Ctx) /\ Len(Line) = Gap
      BY <2>2
    <3>5. Line # <<>>
      BY <2>2, <3>2, <3>4
    <3>6. Line' = Tail(Line)
      <4>1. Tail(Line) \in Seq(Ctx) /\ Len(Tail(Line)) = Gap - 1
        BY <3>4, <3>5
      <4>2. \A i \in 1 .. (Gap - 1) : Tail(Line)[i] = Line[i + 1]
        BY <3>4, <3>5
      <4>3. Line' \in Seq(Ctx) /\ Len(Line') = Gap - 1
        BY <2>2, <3>2
      <4>4. QED
        BY <2>2, <3>2, <3>3, <4>1, <4>2, <4>3
    <3>7. Owned /\ ~Owned'
      BY <3>1
    <3>8. QED
      BY <3>6, <3>7 DEF Fifo!Release
  <2>8. ASSUME SameQueue, \A d \in Ctx : Owner(d)' <=> Owner(d) PROVE Line' = Line /\ Owned' = Owned
    BY <2>3, <2>8
  <2> HIDE DEF Owned
  <2>9. QED
    BY <2>1, <2>4, <2>5, <2>6, <2>7, <2>8, BetweenIsQuiet DEF Fifo!Next
<1>3. TypeOK /\ TicketInv /\ Filled => LineOK
  BY LineIsOK
<1>4. QED
  BY <1>1, <1>2, <1>3, TypeCorrect, TicketInvariant, FilledInvariant, PTL
     DEF Spec, ImplementsFifo, Fifo!Spec
=============================================================================

---------------------------- MODULE KMutexProofs ----------------------------
(***************************************************************************)
(* TLAPS proofs about KMutex, for any set of tasks, any counter width and  *)
(* any number of calls of lock() below the number of counter values.  What *)
(* depends on the order of tickets in the event handler is proved for runs *)
(* whose tickets stay below HighMark: beyond it NoLostWakeup is false.     *)
(***************************************************************************)
EXTENDS KMutex, Sequences, TLAPS

\* The place of a counter value in the run, counted from the first ticket.
Pos(x) == Dist(FirstTicket, x)

(***************************************************************************)
(* The inductive strengthening of MutualExclusion: the tickets in use are  *)
(* distinct and lie between the counters, and owners have the ticket that  *)
(* is served.                                                              *)
(***************************************************************************)
Bounds == Pos(serving) <= Pos(next) /\ Pos(next) <= MaxLocks
InRange ==
    \A t \in Tasks : Active(t) => /\ Pos(serving) <= Pos(ticket[t])
                                  /\ Pos(ticket[t]) < Pos(next)
Distinct == \A t, u \in Tasks : Active(t) /\ Active(u) /\ ticket[t] = ticket[u] => t = u
OwnerServed == \A t \in Tasks : Owner(t) => ticket[t] = serving

TicketInv == Bounds /\ InRange /\ Distinct /\ OwnerServed

(***************************************************************************)
(* The strengthening of NoLostWakeup: who has a handler, why a waiter may  *)
(* be without one, and who will wake a sleeper whose turn has come.        *)
(***************************************************************************)
Waits(t) == pc[t] \in {"recheck", "block", "confirm", "unblock", "yield", "loop", "clear"}

HandlerWaits == \A t \in handlers : Waits(t)
NoHandlerIsServed == \A t \in Tasks : Waits(t) /\ t \notin handlers => ticket[t] = serving
NoticeOld == \A t \in Tasks : pc[t] = "event" => notice[t] <= serving
BlockedWaits == \A t \in Tasks : blocked[t] => pc[t] \in {"confirm", "unblock", "yield"}
UnblockServed == \A t \in Tasks : pc[t] = "unblock" => ticket[t] = serving
SleeperHandled == \A t \in Tasks : pc[t] = "yield" /\ blocked[t] => t \in handlers
SleeperNoticed ==
    \A t \in Tasks : pc[t] = "yield" /\ blocked[t] /\ ticket[t] = serving =>
        \E u \in Tasks : pc[u] = "event" /\ notice[u] = serving

WaitInv ==
    /\ HandlerWaits /\ NoHandlerIsServed /\ NoticeOld /\ BlockedWaits
    /\ UnblockServed /\ SleeperHandled /\ SleeperNoticed

(***************************************************************************)
(* The strengthening of PriorityReturned: a task is raised once at most,   *)
(* and not while it still has its handler.                                 *)
(***************************************************************************)
RaisedOnce == \A t \in Tasks : resources[t] <= 1
HandlerNotRaised == \A t \in handlers : resources[t] = 0
OutsideNotRaised == \A t \in Tasks : pc[t] \in {"idle", "check", "add"} => resources[t] = 0

PriorityInv == RaisedOnce /\ HandlerNotRaised /\ OutsideNotRaised

\* No ticket of the run reaches the range in which the event handler's
\* comparison takes a small ticket for one that has wrapped.
TicketsBelowMark == FirstTicket + MaxLocks < HighMark

-----------------------------------------------------------------------------
(* Type correctness *)

\* The counter values are closed under increments.
LEMMA IncType ==
    ASSUME NEW a \in Ticket
    PROVE  Inc(a) \in Ticket
BY KMutexAssumption DEF Ticket, Inc

\* A task's resource count stays in its range.
LEMMA ResourceAcqType ==
    ASSUME NEW r \in 0 .. MAX_RESOURCES, NEW d \in {-1, 1}
    PROVE  ResourceAcq(r, d) \in 0 .. MAX_RESOURCES
BY KMutexAssumption DEF ResourceAcq

\* Every variable of the mutex keeps its type in every reachable state.
THEOREM TypeCorrect == Spec => []TypeOK
<1>1. Init => TypeOK
  BY KMutexAssumption DEF Init, TypeOK, Ticket, Labels
<1>2. TypeOK /\ [Next]_vars => TypeOK'
  <2>1. SUFFICES ASSUME TypeOK, [Next]_vars PROVE TypeOK'
    OBVIOUS
  <2> USE DEF TypeOK, Goto, Labels
  <2>2. ASSUME NEW t \in Tasks, CreateTicket(t) PROVE TypeOK'
    BY <2>1, <2>2, IncType DEF CreateTicket
  <2>3. ASSUME NEW t \in Tasks,
               \/ Check(t) \/ AddHandler(t) \/ Recheck(t) \/ SetBlocked(t) \/ Confirm(t)
               \/ Unblock(t) \/ Yield(t) \/ Loop(t) \/ ClearWait(t)
        PROVE  TypeOK'
    BY <2>1, <2>3 DEF Check, AddHandler, Recheck, SetBlocked, Confirm, Unblock, Yield, Loop,
       ClearWait
  <2>4. ASSUME NEW t \in Tasks, ReleaseTicket(t) PROVE TypeOK'
    BY <2>1, <2>4, IncType DEF ReleaseTicket
  <2>5. ASSUME NEW t \in Tasks, Event(t) PROVE TypeOK'
    <3>1. resources' \in [Tasks -> 0 .. MAX_RESOURCES]
      BY <2>1, <2>5, ResourceAcqType DEF Event
    <3>2. QED
      BY <2>1, <2>5, <3>1 DEF Event
  <2>6. CASE UNCHANGED vars
    BY <2>1, <2>6 DEF vars
  <2>7. QED
    BY <2>1, <2>2, <2>3, <2>4, <2>5, <2>6 DEF Next, Progress
<1>3. QED
  BY <1>1, <1>2, PTL DEF Spec

-----------------------------------------------------------------------------
(* Mutual exclusion *)

\* Places are counter values, and different values have different places.
LEMMA PosType ==
    ASSUME NEW a \in Ticket
    PROVE  /\ Pos(a) \in 0 .. (TicketMod - 1)
           /\ \A b \in Ticket : Pos(a) = Pos(b) => a = b
BY KMutexAssumption DEF Ticket, Pos, Dist

\* Before the last counter value an increment moves one place on.
LEMMA PosInc ==
    ASSUME NEW a \in Ticket, Pos(a) < MaxLocks
    PROVE  Pos(Inc(a)) = Pos(a) + 1
BY KMutexAssumption DEF Ticket, Pos, Dist, Inc

\* A step that leaves the counters and the tickets alone, and makes nobody
\* an owner whose ticket is not served, keeps the ticket invariant.
LEMMA TicketStable ==
    ASSUME TicketInv, UNCHANGED <<next, serving, ticket>>,
           \A t \in Tasks : /\ Active(t)' => Active(t)
                            /\ Owner(t)' => ticket[t] = serving
    PROVE  TicketInv'
BY DEF TicketInv, Bounds, InRange, Distinct, OwnerServed, Pos, Dist

\* create_ticket() hands out a ticket beyond all tickets in use.
LEMMA TicketCreated ==
    ASSUME TypeOK, TicketInv, NEW t \in Tasks, CreateTicket(t)
    PROVE  TicketInv'
<1>1. /\ next \in Ticket /\ serving \in Ticket /\ ticket \in [Tasks -> Ticket]
      /\ next' = Inc(next) /\ serving' = serving
      /\ ticket' = [ticket EXCEPT ![t] = next]
      /\ Pos(next) < MaxLocks
      /\ pc[t] = "idle" /\ pc' = [pc EXCEPT ![t] = "check"] /\ pc \in [Tasks -> Labels]
  BY DEF CreateTicket, TypeOK, Pos, Goto
<1>2. Pos(next') = Pos(next) + 1
  BY <1>1, PosInc
<1>3. /\ ~Active(t) /\ Active(t)' /\ ~Owner(t)'
      /\ \A u \in Tasks \ {t} : /\ Active(u)' <=> Active(u)
                                /\ Owner(u)' <=> Owner(u)
                                /\ ticket'[u] = ticket[u]
  BY <1>1 DEF Active, Owner
<1>4. \A a \in Ticket : Pos(a)' = Pos(a)
  BY DEF Pos, Dist
<1>5. /\ Pos(next)' = Pos(next) + 1 /\ Pos(serving)' = Pos(serving)
      /\ \A u \in Tasks : Pos(ticket[u])' = Pos(ticket'[u])
  BY <1>1, <1>2 DEF Pos, Dist
<1>6. Pos(next) \in Int /\ Pos(serving) \in Int /\ \A u \in Tasks : Pos(ticket[u]) \in Int
  BY <1>1, PosType
<1>7. Bounds'
  BY <1>1, <1>5, <1>6, KMutexAssumption DEF TicketInv, Bounds
<1>8. InRange'
  <2>1. SUFFICES ASSUME NEW u \in Tasks, Active(u)'
                 PROVE  /\ Pos(serving) <= Pos(ticket'[u])
                        /\ Pos(ticket'[u]) < Pos(next) + 1
    BY <1>5 DEF InRange
  <2>2. CASE u = t
    BY <1>1, <1>6, <2>2 DEF TicketInv, Bounds
  <2>3. CASE u # t
    BY <1>3, <1>6, <2>1, <2>3 DEF TicketInv, InRange
  <2>4. QED
    BY <2>2, <2>3
<1>9. Distinct'
  <2>1. ASSUME NEW u \in Tasks, Active(u) PROVE ticket[u] # next
    BY <1>6, <2>1 DEF TicketInv, InRange
  <2>2. QED
    BY <1>1, <1>3, <2>1 DEF TicketInv, Distinct
<1>10. OwnerServed'
  BY <1>1, <1>3 DEF TicketInv, OwnerServed
<1>11. QED
  BY <1>7, <1>8, <1>9, <1>10 DEF TicketInv

\* release_ticket() passes the mutex on; the tickets in use are later ones.
LEMMA TicketReleased ==
    ASSUME TypeOK, TicketInv, NEW t \in Tasks, ReleaseTicket(t)
    PROVE  TicketInv'
<1>1. /\ next \in Ticket /\ serving \in Ticket /\ ticket \in [Tasks -> Ticket]
      /\ serving' = Inc(serving) /\ UNCHANGED <<next, ticket>>
      /\ pc[t] = "held" /\ pc' = [pc EXCEPT ![t] = "event"] /\ pc \in [Tasks -> Labels]
  BY DEF ReleaseTicket, TypeOK, Goto
<1>2. Active(t) /\ Owner(t) /\ ticket[t] = serving
  BY <1>1 DEF TicketInv, OwnerServed, Active, Owner
<1>3. Pos(next) \in Int /\ Pos(serving) \in Int /\ \A u \in Tasks : Pos(ticket[u]) \in Int
  BY <1>1, PosType
<1>4. Pos(serving) < Pos(next) /\ Pos(next) <= MaxLocks
  BY <1>2 DEF TicketInv, Bounds, InRange
<1>5. Pos(serving') = Pos(serving) + 1
  <2>1. Pos(serving) < MaxLocks
    BY <1>3, <1>4, KMutexAssumption
  <2>2. QED
    BY <1>1, <2>1, PosInc
<1>6. /\ Pos(serving)' = Pos(serving) + 1 /\ Pos(next)' = Pos(next)
      /\ \A u \in Tasks : Pos(ticket[u])' = Pos(ticket[u])
  BY <1>1, <1>5 DEF Pos, Dist
<1>7. /\ ~Active(t)' /\ ~Owner(t)'
      /\ \A u \in Tasks \ {t} : (Active(u)' <=> Active(u)) /\ (Owner(u)' <=> Owner(u))
  BY <1>1 DEF Active, Owner
<1>8. ASSUME NEW u \in Tasks, Active(u), u # t
      PROVE  ticket[u] # serving /\ Pos(serving) < Pos(ticket[u])
  <2>1. ticket[u] # serving
    BY <1>2, <1>8 DEF TicketInv, Distinct
  <2>2. QED
    BY <1>1, <1>3, <1>8, <2>1, PosType DEF TicketInv, InRange
<1>9. Bounds'
  BY <1>3, <1>4, <1>6, KMutexAssumption DEF Bounds
<1>10. InRange'
  BY <1>3, <1>6, <1>7, <1>8 DEF TicketInv, InRange
<1>11. Distinct'
  BY <1>1, <1>7 DEF TicketInv, Distinct
<1>12. OwnerServed'
  BY <1>7, <1>8 DEF TicketInv, OwnerServed, Owner, Active
<1>13. QED
  BY <1>9, <1>10, <1>11, <1>12 DEF TicketInv

\* The ticket invariant holds in every reachable state.
LEMMA TicketInvHolds == Spec => []TicketInv
<1>1. Init => TicketInv
  BY KMutexAssumption
     DEF Init, TicketInv, Bounds, InRange, Distinct, OwnerServed, Active, Owner, Pos, Dist
<1>2. TypeOK /\ TicketInv /\ [Next]_vars => TicketInv'
  <2>1. SUFFICES ASSUME TypeOK, TicketInv, [Next]_vars PROVE TicketInv'
    OBVIOUS
  <2>2. ASSUME NEW t \in Tasks,
               \/ Check(t) \/ AddHandler(t) \/ Recheck(t) \/ SetBlocked(t) \/ Confirm(t)
               \/ Unblock(t) \/ Yield(t) \/ Loop(t) \/ ClearWait(t) \/ Event(t)
        PROVE  TicketInv'
    <3>1. UNCHANGED <<next, serving, ticket>>
      BY <2>2 DEF Check, AddHandler, Recheck, SetBlocked, Confirm, Unblock, Yield, Loop,
         ClearWait, Event
    <3>2. \A u \in Tasks : Active(u)' => Active(u)
      BY <2>1, <2>2 DEF Check, AddHandler, Recheck, SetBlocked, Confirm, Unblock, Yield, Loop,
         ClearWait, Event, Goto, Active, TypeOK
    <3>3. \A u \in Tasks : Owner(u)' => ticket[u] = serving
      BY <2>1, <2>2 DEF Check, AddHandler, Recheck, SetBlocked, Confirm, Unblock, Yield, Loop,
         ClearWait, Event, Goto, Owner, TypeOK, TicketInv, OwnerServed
    <3>4. QED
      BY <2>1, <3>1, <3>2, <3>3, TicketStable
  <2>3. CASE UNCHANGED vars
    BY <2>1, <2>3, TicketStable DEF vars, Active, Owner, TicketInv, OwnerServed
  <2>4. QED
    BY <2>1, <2>2, <2>3, TicketCreated, TicketReleased DEF Next, Progress
<1>3. QED
  BY <1>1, <1>2, TypeCorrect, PTL DEF Spec

\* Between the end of its wait and its unlock() a task has the mutex alone,
\* for any number of tasks and although the ticket counters may wrap.
THEOREM MutualExclusionHolds == Spec => []MutualExclusion
<1>1. TicketInv => MutualExclusion
  BY DEF TicketInv, Distinct, OwnerServed, MutualExclusion, Owner, Active
<1>2. QED
  BY <1>1, TicketInvHolds, PTL

-----------------------------------------------------------------------------
(* The wakeup *)

\* Below the mark the counters do not wrap, so tickets compare like numbers.
LEMMA TicketsOrdered ==
    ASSUME TicketsBelowMark, TypeOK, TicketInv
    PROVE  /\ serving <= next /\ next < HighMark
           /\ \A t \in Tasks : Active(t) => serving <= ticket[t] /\ ticket[t] < next
<1>1. ASSUME NEW a \in Ticket, Pos(a) <= MaxLocks
      PROVE  a = FirstTicket + Pos(a)
  BY <1>1, KMutexAssumption DEF TicketsBelowMark, Ticket, Pos, Dist
<1>2. /\ next \in Ticket /\ serving \in Ticket /\ ticket \in [Tasks -> Ticket]
      /\ Pos(next) \in Int /\ Pos(serving) \in Int /\ \A u \in Tasks : Pos(ticket[u]) \in Int
  BY PosType DEF TypeOK
<1>3. Pos(serving) <= Pos(next) /\ Pos(next) <= MaxLocks
  BY DEF TicketInv, Bounds
<1>4. next = FirstTicket + Pos(next) /\ serving = FirstTicket + Pos(serving)
  BY <1>1, <1>2, <1>3, KMutexAssumption
<1>5. serving <= next /\ next < HighMark
  BY <1>2, <1>3, <1>4, KMutexAssumption DEF TicketsBelowMark
<1>6. ASSUME NEW t \in Tasks, Active(t)
      PROVE  serving <= ticket[t] /\ ticket[t] < next
  <2>1. Pos(serving) <= Pos(ticket[t]) /\ Pos(ticket[t]) < Pos(next)
    BY <1>6 DEF TicketInv, InRange
  <2>2. ticket[t] = FirstTicket + Pos(ticket[t])
    BY <1>1, <1>2, <1>3, <2>1, KMutexAssumption
  <2>3. QED
    BY <1>2, <1>4, <1>5, <2>1, <2>2, KMutexAssumption
<1>7. QED
  BY <1>5, <1>6

\* The event reaches exactly the waiters whose turn has come, and is for them.
LEMMA EventReaches ==
    ASSUME TicketsBelowMark, TypeOK, TicketInv, WaitInv,
           NEW t \in Tasks, pc[t] = "event",
           NEW u \in handlers
    PROVE  Reached(notice[t], ticket[u]) <=> ticket[u] = notice[t] /\ ticket[u] = serving
<1>1. Active(u) /\ u \in Tasks
  BY DEF WaitInv, HandlerWaits, Waits, Active, TypeOK
<1>2. serving <= ticket[u] /\ ticket[u] < next /\ next < HighMark
  BY <1>1, TicketsOrdered
<1>3. notice[t] <= serving
  BY DEF WaitInv, NoticeOld
<1>4. /\ serving \in Int /\ notice[t] \in Int /\ ticket[u] \in Int
      /\ next \in Int /\ HighMark \in Int
  BY <1>1, KMutexAssumption DEF TypeOK, Ticket
<1>5. QED
  BY <1>2, <1>3, <1>4 DEF Reached

\* The sleep of a waiter is not disturbed by unlock(): its ticket becomes the
\* one served at the earliest now, and the event is still to be sent.
LEMMA WaitReleased ==
    ASSUME TicketsBelowMark, TypeOK, TicketInv, WaitInv, NEW t \in Tasks, ReleaseTicket(t)
    PROVE  WaitInv'
<1>1. /\ pc[t] = "held" /\ pc' = [pc EXCEPT ![t] = "event"] /\ pc \in [Tasks -> Labels]
      /\ notice' = [notice EXCEPT ![t] = Inc(serving)] /\ notice \in [Tasks -> Ticket]
      /\ serving' = Inc(serving) /\ UNCHANGED <<ticket, blocked, handlers>>
      /\ handlers \subseteq Tasks
  BY DEF ReleaseTicket, TypeOK, Goto
<1>2. Inc(serving) = serving + 1 /\ serving \in Int
  <2>1. Active(t) /\ ticket[t] = serving
    BY <1>1 DEF TicketInv, OwnerServed, Active, Owner
  <2>2. serving < next
    BY <2>1, TicketsOrdered
  <2>3. QED
    BY <2>2, KMutexAssumption DEF Inc, TypeOK, Ticket
<1>3. ASSUME NEW u \in Tasks, Active(u), u # t PROVE ticket[u] # serving
  BY <1>1, <1>3 DEF TicketInv, Distinct, OwnerServed, Active, Owner
<1>4. t \notin handlers
  BY <1>1 DEF WaitInv, HandlerWaits, Waits
<1>5. HandlerWaits'
  BY <1>1, <1>4 DEF WaitInv, HandlerWaits, Waits
<1>6. NoHandlerIsServed'
  BY <1>1, <1>3 DEF WaitInv, NoHandlerIsServed, Waits, Active
<1>7. NoticeOld'
  BY <1>1, <1>2 DEF WaitInv, NoticeOld, Ticket
<1>8. BlockedWaits'
  BY <1>1 DEF WaitInv, BlockedWaits
<1>9. UnblockServed'
  BY <1>1, <1>3 DEF WaitInv, UnblockServed, Active
<1>10. SleeperHandled'
  BY <1>1 DEF WaitInv, SleeperHandled
<1>11. SleeperNoticed'
  BY <1>1 DEF SleeperNoticed
<1>12. QED
  BY <1>5, <1>6, <1>7, <1>8, <1>9, <1>10, <1>11 DEF WaitInv

\* The event takes the handlers of the waiters it wakes and of nobody else.
LEMMA WaitEvent ==
    ASSUME TicketsBelowMark, TypeOK, TicketInv, WaitInv, NEW t \in Tasks, Event(t)
    PROVE  WaitInv'
<1> DEFINE reached == {u \in handlers : Reached(notice[t], ticket[u])}
<1>1. /\ pc[t] = "event" /\ pc' = [pc EXCEPT ![t] = "idle"] /\ pc \in [Tasks -> Labels]
      /\ handlers' = handlers \ reached /\ handlers \subseteq Tasks
      /\ UNCHANGED <<ticket, notice, serving>>
  BY DEF Event, TypeOK, Goto
<1>2. \A u \in handlers : u \in reached <=> ticket[u] = notice[t] /\ ticket[u] = serving
  BY <1>1, EventReaches
<1>3. blocked' = [u \in Tasks |-> blocked[u] /\ u \notin reached]
  <2>1. blocked' = [u \in Tasks |-> blocked[u] /\ u \notin {v \in reached : ticket[v] = notice[t]}]
    BY DEF Event
  <2>2. {v \in reached : ticket[v] = notice[t]} = reached
    BY <1>2
  <2>3. QED
    BY <2>1, <2>2
<1> HIDE DEF reached
<1>4. t \notin handlers
  BY <1>1 DEF WaitInv, HandlerWaits, Waits
<1>5. HandlerWaits'
  BY <1>1, <1>4 DEF WaitInv, HandlerWaits, Waits
<1>6. NoHandlerIsServed'
  BY <1>1, <1>2 DEF WaitInv, NoHandlerIsServed, Waits
<1>7. NoticeOld'
  BY <1>1 DEF WaitInv, NoticeOld
<1>8. BlockedWaits'
  BY <1>1, <1>3 DEF WaitInv, BlockedWaits
<1>9. UnblockServed'
  BY <1>1 DEF WaitInv, UnblockServed
<1>10. SleeperHandled'
  BY <1>1, <1>3 DEF WaitInv, SleeperHandled
<1>11. SleeperNoticed'
  <2>1. SUFFICES ASSUME NEW u \in Tasks, pc'[u] = "yield", blocked'[u], ticket[u] = serving
                 PROVE  \E v \in Tasks : pc'[v] = "event" /\ notice[v] = serving
    BY <1>1 DEF SleeperNoticed
  <2>2. pc[u] = "yield" /\ blocked[u] /\ u \notin reached /\ u \in handlers
    BY <1>1, <1>3, <2>1 DEF WaitInv, SleeperHandled
  <2>3. PICK v \in Tasks : pc[v] = "event" /\ notice[v] = serving
    BY <2>1, <2>2 DEF WaitInv, SleeperNoticed
  <2>4. v # t
    BY <1>2, <2>1, <2>2, <2>3
  <2>5. QED
    BY <1>1, <2>3, <2>4
<1>12. QED
  BY <1>5, <1>6, <1>7, <1>8, <1>9, <1>10, <1>11 DEF WaitInv

\* The steps of lock() keep the wait invariant.
LEMMA WaitLock ==
    ASSUME TypeOK, TicketInv, WaitInv, NEW t \in Tasks,
           \/ CreateTicket(t) \/ Check(t) \/ AddHandler(t) \/ Recheck(t) \/ SetBlocked(t)
           \/ Confirm(t) \/ Unblock(t) \/ Yield(t) \/ Loop(t) \/ ClearWait(t)
    PROVE  WaitInv'
<1> USE DEF TypeOK, WaitInv, HandlerWaits, NoHandlerIsServed, NoticeOld, BlockedWaits,
        UnblockServed, SleeperHandled, SleeperNoticed, Waits, Goto
<1>1. CASE CreateTicket(t)
  BY <1>1 DEF CreateTicket
<1>2. CASE Check(t)
  BY <1>2 DEF Check
<1>3. CASE AddHandler(t)
  BY <1>3 DEF AddHandler
<1>4. CASE Recheck(t)
  BY <1>4 DEF Recheck
<1>5. CASE SetBlocked(t)
  BY <1>5 DEF SetBlocked
<1>6. CASE Confirm(t)
  BY <1>6 DEF Confirm
<1>7. CASE Unblock(t)
  BY <1>7 DEF Unblock
<1>8. CASE Yield(t)
  BY <1>8 DEF Yield
<1>9. CASE Loop(t)
  BY <1>9 DEF Loop
<1>10. CASE ClearWait(t)
  BY <1>10 DEF ClearWait
<1>11. QED
  BY <1>1, <1>2, <1>3, <1>4, <1>5, <1>6, <1>7, <1>8, <1>9, <1>10

\* The wait invariant holds as long as no ticket reaches the mark.
LEMMA WaitInvHolds ==
    ASSUME TicketsBelowMark
    PROVE  Spec => []WaitInv
<1>1. Init => WaitInv
  BY DEF Init, WaitInv, HandlerWaits, NoHandlerIsServed, NoticeOld, BlockedWaits,
     UnblockServed, SleeperHandled, SleeperNoticed, Waits
<1>2. TypeOK /\ TicketInv /\ WaitInv /\ [Next]_vars => WaitInv'
  <2>1. SUFFICES ASSUME TypeOK, TicketInv, WaitInv, [Next]_vars PROVE WaitInv'
    OBVIOUS
  <2>2. CASE UNCHANGED vars
    BY <2>1, <2>2 DEF vars, WaitInv, HandlerWaits, NoHandlerIsServed, NoticeOld, BlockedWaits,
       UnblockServed, SleeperHandled, SleeperNoticed, Waits
  <2>3. QED
    BY <2>1, <2>2, TicketsBelowMark, WaitLock, WaitReleased, WaitEvent DEF Next, Progress
<1>3. QED
  BY <1>1, <1>2, TypeCorrect, TicketInvHolds, PTL DEF Spec

\* A task that sleeps although its turn has come is about to be woken: the
\* two looks at the counter around the blocked bit leave no gap for the event
\* of unlock(), in any run whose tickets stay below the mark.
THEOREM NoLostWakeupHolds ==
    ASSUME TicketsBelowMark
    PROVE  Spec => []NoLostWakeup
<1>1. WaitInv => NoLostWakeup
  BY DEF WaitInv, SleeperHandled, SleeperNoticed, NoLostWakeup
<1>2. QED
  BY <1>1, WaitInvHolds, PTL

-----------------------------------------------------------------------------
(* The raised priority *)

\* Each event raises the task it wakes once, and takes back what its sender
\* had.
LEMMA PriorityEvent ==
    ASSUME TypeOK, WaitInv, PriorityInv, NEW t \in Tasks, Event(t)
    PROVE  PriorityInv'
<1> DEFINE reached == {u \in handlers : Reached(notice[t], ticket[u])}
           woken == {u \in reached : ticket[u] = notice[t]}
           acquired(u) == IF u \in woken THEN ResourceAcq(resources[u], 1) ELSE resources[u]
<1>1. /\ pc[t] = "event" /\ pc' = [pc EXCEPT ![t] = "idle"] /\ pc \in [Tasks -> Labels]
      /\ handlers' = handlers \ reached /\ handlers \subseteq Tasks
      /\ resources \in [Tasks -> 0 .. MAX_RESOURCES]
      /\ resources' = [u \in Tasks |->
            IF u = t THEN ResourceAcq(acquired(u), -1) ELSE acquired(u)]
  BY DEF Event, TypeOK, Goto
<1>2. t \notin woken /\ \A u \in woken : u \in handlers /\ u \notin handlers' /\ Waits(u)
  BY <1>1 DEF WaitInv, HandlerWaits, Waits
<1>3. \A u \in woken : acquired(u) \in 0 .. 1
  BY <1>1, <1>2, KMutexAssumption DEF PriorityInv, HandlerNotRaised, ResourceAcq
<1>4. \A u \in Tasks \ woken : acquired(u) = resources[u] /\ resources[u] \in 0 .. 1
  BY <1>1, KMutexAssumption DEF PriorityInv, RaisedOnce
<1>5. acquired(t) \in 0 .. 1
  BY <1>2, <1>4
<1> HIDE DEF woken, reached, acquired
<1>6. resources'[t] = 0
  BY <1>1, <1>5, KMutexAssumption DEF ResourceAcq
<1>7. \A u \in Tasks \ {t} : resources'[u] = acquired(u)
  BY <1>1
<1>8. RaisedOnce'
  BY <1>3, <1>4, <1>6, <1>7 DEF RaisedOnce
<1>9. HandlerNotRaised'
  BY <1>1, <1>2, <1>4, <1>6, <1>7 DEF PriorityInv, HandlerNotRaised
<1>10. OutsideNotRaised'
  BY <1>1, <1>2, <1>4, <1>6, <1>7 DEF PriorityInv, OutsideNotRaised, Waits
<1>11. QED
  BY <1>8, <1>9, <1>10 DEF PriorityInv

\* The priority invariant holds as long as no ticket reaches the mark.
LEMMA PriorityInvHolds ==
    ASSUME TicketsBelowMark
    PROVE  Spec => []PriorityInv
<1>1. Init => PriorityInv
  BY DEF Init, PriorityInv, RaisedOnce, HandlerNotRaised, OutsideNotRaised
<1>2. TypeOK /\ WaitInv /\ PriorityInv /\ [Next]_vars => PriorityInv'
  <2>1. SUFFICES ASSUME TypeOK, WaitInv, PriorityInv, [Next]_vars PROVE PriorityInv'
    OBVIOUS
  <2>2. ASSUME NEW t \in Tasks,
               \/ CreateTicket(t) \/ Check(t) \/ AddHandler(t) \/ Recheck(t) \/ SetBlocked(t)
               \/ Confirm(t) \/ Unblock(t) \/ Yield(t) \/ Loop(t) \/ ClearWait(t)
               \/ ReleaseTicket(t)
        PROVE  PriorityInv'
    BY <2>1, <2>2 DEF CreateTicket, Check, AddHandler, Recheck, SetBlocked, Confirm, Unblock,
       Yield, Loop, ClearWait, ReleaseTicket, Goto, TypeOK, PriorityInv, RaisedOnce,
       HandlerNotRaised, OutsideNotRaised
  <2>3. CASE UNCHANGED vars
    BY <2>1, <2>3 DEF vars, PriorityInv, RaisedOnce, HandlerNotRaised, OutsideNotRaised
  <2>4. QED
    BY <2>1, <2>2, <2>3, PriorityEvent DEF Next, Progress
<1>3. QED
  BY <1>1, <1>2, TypeCorrect, WaitInvHolds, PTL DEF Spec

\* A task outside lock() and unlock() has no raised priority left.
THEOREM PriorityReturnedHolds ==
    ASSUME TicketsBelowMark
    PROVE  Spec => []PriorityReturned
<1>1. PriorityInv => PriorityReturned
  BY DEF PriorityInv, OutsideNotRaised, PriorityReturned
<1>2. QED
  BY <1>1, PriorityInvHolds, PTL
-----------------------------------------------------------------------------
(* First come, first served *)

\* Every ticket between the counters is in use: the queue has no gaps.
Filled ==
    \A k \in Nat : Pos(serving) <= k /\ k < Pos(next)
        => \E t \in Tasks : Active(t) /\ Pos(ticket[t]) = k

\* Line lists the tasks that have a ticket by the number of those in front of
\* them.
Gap == Dist(serving, next)
LineOK ==
    /\ Gap \in Nat /\ Line \in [1 .. Gap -> Tasks]
    /\ \A i \in 1 .. Gap : HasPlace(Line[i], i)
    /\ \A t \in Tasks, i \in 1 .. Gap : HasPlace(t, i) => Line[i] = t

\* Between places in their order the distance is the difference.
LEMMA DistIsDifference ==
    ASSUME NEW a \in Ticket, NEW b \in Ticket, Pos(a) <= Pos(b)
    PROVE  Dist(a, b) = Pos(b) - Pos(a)
BY KMutexAssumption DEF Ticket, Pos, Dist

\* The length of the queue and the places in it, counted from the first ticket.
LEMMA PlacesByPos ==
    ASSUME TypeOK, TicketInv
    PROVE  /\ Pos(next) \in Nat /\ Pos(serving) \in Nat /\ \A t \in Tasks : Pos(ticket[t]) \in Nat
           /\ Gap = Pos(next) - Pos(serving) /\ Gap \in Nat
           /\ \A t \in Tasks : Active(t) => Dist(serving, ticket[t]) = Pos(ticket[t]) - Pos(serving)
<1>1. /\ next \in Ticket /\ serving \in Ticket /\ \A t \in Tasks : ticket[t] \in Ticket
  BY DEF TypeOK
<1>2. Pos(next) \in Nat /\ Pos(serving) \in Nat /\ \A t \in Tasks : Pos(ticket[t]) \in Nat
  BY <1>1, PosType
<1>3. Gap = Pos(next) - Pos(serving) /\ Gap \in Nat
  BY <1>1, <1>2, DistIsDifference DEF Gap, TicketInv, Bounds
<1>4. ASSUME NEW t \in Tasks, Active(t)
      PROVE  Dist(serving, ticket[t]) = Pos(ticket[t]) - Pos(serving)
  BY <1>1, <1>4, DistIsDifference DEF TicketInv, InRange
<1>5. QED
  BY <1>2, <1>3, <1>4

\* Steps that leave counters, tickets and the tasks that have one alone.
SameQueue ==
    /\ UNCHANGED <<next, serving, ticket>>
    /\ \A t \in Tasks : Active(t)' <=> Active(t)

\* A step takes a ticket, grants the mutex, passes it on, or changes neither the
\* queue nor the owner.
LEMMA StepsOfQueue ==
    ASSUME TypeOK, [Next]_vars
    PROVE  \/ SameQueue /\ \A u \in Tasks : Owner(u)' <=> Owner(u)
           \/ \E t \in Tasks : /\ SameQueue /\ Active(t) /\ ~Owner(t) /\ ticket[t] = serving
                               /\ Owner(t)'
           \/ \E t \in Tasks : CreateTicket(t) \/ ReleaseTicket(t)
<1> DEFINE Quiet == SameQueue /\ \A u \in Tasks : Owner(u)' <=> Owner(u)
           Grants(t) == SameQueue /\ Active(t) /\ ~Owner(t) /\ ticket[t] = serving /\ Owner(t)'
<1>1. ASSUME NEW t \in Tasks, Check(t) PROVE Quiet \/ Grants(t)
  <2>1. CASE ticket[t] = serving
    BY <1>1, <2>1 DEF Check, Goto, TypeOK, SameQueue, Active, Owner
  <2>2. CASE ticket[t] # serving
    BY <1>1, <2>2 DEF Check, Goto, TypeOK, SameQueue, Active, Owner
  <2>3. QED
    BY <2>1, <2>2
<1>2. ASSUME NEW t \in Tasks, Loop(t) PROVE Grants(t)
  BY <1>2 DEF Loop, Goto, TypeOK, SameQueue, Active, Owner
<1>3. ASSUME NEW t \in Tasks, AddHandler(t) \/ Recheck(t) \/ SetBlocked(t) \/ Confirm(t) PROVE Quiet
  BY <1>3 DEF AddHandler, Recheck, SetBlocked, Confirm, Goto, TypeOK, SameQueue, Active, Owner
<1>4. ASSUME NEW t \in Tasks, Unblock(t) \/ Yield(t) \/ ClearWait(t) PROVE Quiet
  BY <1>4 DEF Unblock, Yield, ClearWait, Goto, TypeOK, SameQueue, Active, Owner
<1>5. ASSUME NEW t \in Tasks, Event(t) PROVE Quiet
  BY <1>5 DEF Event, Goto, TypeOK, SameQueue, Active, Owner
<1>6. CASE UNCHANGED vars
  BY <1>6 DEF vars, SameQueue, Active, Owner
<1> HIDE DEF Quiet, Grants
<1>7. QED
  BY <1>1, <1>2, <1>3, <1>4, <1>5, <1>6 DEF Next, Progress, Quiet, Grants

\* What create_ticket() does: its caller goes to the end of the queue.
LEMMA CreateAppends ==
    ASSUME TypeOK, TicketInv, NEW t \in Tasks, CreateTicket(t)
    PROVE  /\ serving' = serving /\ ~Active(t) /\ Active(t)' /\ ticket'[t] = next
           /\ Pos(next') = Pos(next) + 1
           /\ \A u \in Tasks \ {t} : (Active(u)' <=> Active(u)) /\ ticket'[u] = ticket[u]
           /\ \A u \in Tasks : Owner(u)' <=> Owner(u)
<1>1. /\ next \in Ticket /\ next' = Inc(next) /\ serving' = serving
      /\ ticket \in [Tasks -> Ticket] /\ ticket' = [ticket EXCEPT ![t] = next]
      /\ Pos(next) < MaxLocks
      /\ pc[t] = "idle" /\ pc' = [pc EXCEPT ![t] = "check"] /\ pc \in [Tasks -> Labels]
  BY DEF CreateTicket, TypeOK, Pos, Goto
<1>2. Pos(next') = Pos(next) + 1
  BY <1>1, PosInc
<1>3. QED
  BY <1>1, <1>2 DEF Active, Owner

\* What release_ticket() does: its caller was first, and the others move up.
LEMMA ReleaseMovesUp ==
    ASSUME TypeOK, TicketInv, NEW t \in Tasks, ReleaseTicket(t)
    PROVE  /\ UNCHANGED <<next, ticket>> /\ Pos(serving') = Pos(serving) + 1
           /\ ticket[t] = serving /\ Owner(t) /\ Active(t) /\ ~Active(t)' /\ ~Owner(t)'
           /\ \A u \in Tasks \ {t} : /\ (Active(u)' <=> Active(u)) /\ ~Owner(u)'
                                     /\ Active(u) => ticket[u] # serving
<1>1. /\ next \in Ticket /\ serving \in Ticket /\ ticket \in [Tasks -> Ticket]
      /\ serving' = Inc(serving) /\ UNCHANGED <<next, ticket>>
      /\ pc[t] = "held" /\ pc' = [pc EXCEPT ![t] = "event"] /\ pc \in [Tasks -> Labels]
  BY DEF ReleaseTicket, TypeOK, Goto
<1>2. Active(t) /\ Owner(t) /\ ticket[t] = serving
  BY <1>1 DEF TicketInv, OwnerServed, Active, Owner
<1>3. Pos(serving') = Pos(serving) + 1
  <2>1. Pos(serving) < Pos(next) /\ Pos(next) <= MaxLocks
    BY <1>2 DEF TicketInv, Bounds, InRange
  <2>2. Pos(serving) < MaxLocks
    BY <1>1, <2>1, PosType, KMutexAssumption
  <2>3. QED
    BY <1>1, <2>2, PosInc
<1>4. /\ ~Active(t)' /\ ~Owner(t)'
      /\ \A u \in Tasks \ {t} : (Active(u)' <=> Active(u)) /\ (Owner(u)' <=> Owner(u))
  BY <1>1 DEF Active, Owner
<1>5. \A u \in Tasks \ {t} : Active(u) => ticket[u] # serving
  BY <1>2 DEF TicketInv, Distinct
<1>6. \A u \in Tasks \ {t} : ~Owner(u)
  BY <1>5 DEF TicketInv, OwnerServed, Owner, Active
<1>7. QED
  BY <1>1, <1>2, <1>3, <1>4, <1>5, <1>6

\* The queue never has a gap.
THEOREM FilledInvariant == Spec => []Filled
<1>1. Init => Filled
  BY KMutexAssumption DEF Init, Filled, Pos, Dist
<1>2. TypeOK /\ TicketInv /\ Filled /\ [Next]_vars => Filled'
  <2>1. SUFFICES ASSUME TypeOK, TicketInv, Filled, [Next]_vars PROVE Filled'
    OBVIOUS
  <2>2. Pos(next) \in Nat /\ Pos(serving) \in Nat /\ \A t \in Tasks : Pos(ticket[t]) \in Nat
    BY <2>1, PlacesByPos
  <2>3. SUFFICES ASSUME NEW k \in Nat, Pos(serving') <= k, k < Pos(next')
                 PROVE  \E u \in Tasks : Active(u)' /\ Pos(ticket'[u]) = k
    BY DEF Filled, Pos, Dist
  <2>4. CASE SameQueue
    BY <2>1, <2>3, <2>4 DEF Filled, SameQueue
  <2>5. ASSUME NEW t \in Tasks, CreateTicket(t) PROVE \E u \in Tasks : Active(u)' /\ Pos(ticket'[u]) = k
    <3>1. /\ serving' = serving /\ ~Active(t) /\ Active(t)' /\ ticket'[t] = next
          /\ Pos(next') = Pos(next) + 1
          /\ \A u \in Tasks \ {t} : (Active(u)' <=> Active(u)) /\ ticket'[u] = ticket[u]
      BY <2>1, <2>5, CreateAppends
    <3>2. CASE k = Pos(next)
      BY <3>1, <3>2
    <3>3. CASE k < Pos(next)
      <4>1. PICK u \in Tasks : Active(u) /\ Pos(ticket[u]) = k
        BY <2>1, <2>3, <3>1, <3>3 DEF Filled
      <4>2. QED
        BY <3>1, <4>1
    <3>4. QED
      BY <2>2, <2>3, <3>1, <3>2, <3>3
  <2>6. ASSUME NEW t \in Tasks, ReleaseTicket(t) PROVE \E u \in Tasks : Active(u)' /\ Pos(ticket'[u]) = k
    <3>1. /\ UNCHANGED <<next, ticket>> /\ Pos(serving') = Pos(serving) + 1
          /\ ticket[t] = serving
          /\ \A u \in Tasks \ {t} : Active(u)' <=> Active(u)
      BY <2>1, <2>6, ReleaseMovesUp
    <3>2. PICK u \in Tasks : Active(u) /\ Pos(ticket[u]) = k
      BY <2>1, <2>2, <2>3, <3>1 DEF Filled
    <3>3. u # t
      BY <2>2, <2>3, <3>1, <3>2
    <3>4. QED
      BY <3>1, <3>2, <3>3
  <2>7. QED
    BY <2>1, <2>4, <2>5, <2>6, StepsOfQueue
<1>3. QED
  BY <1>1, <1>2, TypeCorrect, TicketInvHolds, PTL DEF Spec

\* Line is what its name says as long as tickets are distinct and without gaps.
LEMMA LineIsOK ==
    ASSUME TypeOK, TicketInv, Filled
    PROVE  LineOK
<1>1. /\ Pos(next) \in Nat /\ Pos(serving) \in Nat /\ \A t \in Tasks : Pos(ticket[t]) \in Nat
      /\ Gap = Pos(next) - Pos(serving) /\ Gap \in Nat
      /\ \A t \in Tasks : Active(t) => Dist(serving, ticket[t]) = Pos(ticket[t]) - Pos(serving)
  BY PlacesByPos
<1>2. ASSUME NEW i \in 1 .. Gap PROVE \E t \in Tasks : HasPlace(t, i)
  <2>1. Pos(serving) + (i - 1) \in Nat /\ Pos(serving) + (i - 1) < Pos(next)
    BY <1>1
  <2>2. PICK t \in Tasks : Active(t) /\ Pos(ticket[t]) = Pos(serving) + (i - 1)
    BY <1>1, <2>1 DEF Filled
  <2>3. QED
    BY <1>1, <2>2 DEF HasPlace
<1>3. \A i \in 1 .. Gap :
        Line[i] = CHOOSE t \in Tasks : HasPlace(t, i) \/ ~\E u \in Tasks : HasPlace(u, i)
  BY DEF Line, Gap
<1>4. \A i \in 1 .. Gap : Line[i] \in Tasks /\ HasPlace(Line[i], i)
  BY <1>2, <1>3
<1>5. Line \in [1 .. Gap -> Tasks]
  BY <1>4 DEF Line, Gap
<1>6. ASSUME NEW t \in Tasks, NEW i \in 1 .. Gap, HasPlace(t, i) PROVE Line[i] = t
  <2>1. PICK u \in Tasks : u = Line[i] /\ HasPlace(u, i)
    BY <1>4
  <2>2. Pos(ticket[u]) = Pos(ticket[t]) /\ Active(u) /\ Active(t)
    BY <1>1, <1>6, <2>1 DEF HasPlace
  <2>3. ticket[u] = ticket[t]
    BY <2>2, PosType DEF TypeOK
  <2>4. QED
    BY <2>1, <2>2, <2>3 DEF TicketInv, Distinct
<1>7. QED
  BY <1>1, <1>4, <1>5, <1>6 DEF LineOK

\* The mutex is handed out in the order of the tickets, wherever the counters
\* start: std::mutex implements FifoLock.
THEOREM FifoImplemented == Spec => ImplementsFifo
<1> DEFINE Owned == \E t \in Tasks : Owner(t)
<1>1. Init => Fifo!Init
  <2>1. SUFFICES ASSUME Init PROVE Line = <<>> /\ Owned = FALSE
    BY DEF Fifo!Init
  <2>2. Dist(serving, next) = 0
    BY <2>1, KMutexAssumption DEF Init, Dist
  <2>3. Line = <<>>
    BY <2>2 DEF Line
  <2>4. ~Owned
    BY <2>1 DEF Init, Owner
  <2>5. QED
    BY <2>3, <2>4
<1>2. /\ TypeOK /\ TicketInv /\ LineOK /\ TypeOK' /\ TicketInv' /\ LineOK' /\ [Next]_vars
      => [Fifo!Next]_(Fifo!lockVars)
  <2>1. SUFFICES ASSUME TypeOK, TicketInv, LineOK, TypeOK', TicketInv', LineOK', [Next]_vars
                 PROVE  Fifo!Next \/ (Line' = Line /\ Owned' = Owned)
    BY DEF Fifo!lockVars
  <2>2. /\ Gap \in Nat /\ Gap' \in Nat
        /\ Line \in [1 .. Gap -> Tasks] /\ Line' \in [1 .. Gap' -> Tasks]
        /\ Gap = Dist(serving, next) /\ Gap' = Dist(serving', next')
        /\ \A i \in 1 .. Gap : Active(Line[i]) /\ Dist(serving, ticket[Line[i]]) = i - 1
        /\ \A t \in Tasks, i \in 1 .. Gap' :
              Active(t)' /\ Dist(serving', ticket'[t]) = i - 1 => Line'[i] = t
    BY <2>1 DEF LineOK, Gap, HasPlace, Dist
  <2>3. ASSUME SameQueue PROVE Line' = Line
    <3>1. Gap' = Gap
      BY <2>2, <2>3 DEF SameQueue
    <3>2. \A i \in 1 .. Gap : Line'[i] = Line[i]
      BY <2>2, <2>3, <3>1 DEF SameQueue
    <3>3. QED
      BY <2>2, <3>1, <3>2
  <2>4. /\ next \in Ticket /\ next' \in Ticket /\ serving \in Ticket /\ serving' \in Ticket
        /\ Pos(next) \in Nat /\ Pos(serving) \in Nat /\ \A t \in Tasks : Pos(ticket[t]) \in Nat
        /\ Gap = Pos(next) - Pos(serving) /\ Pos(serving) <= Pos(next)
        /\ \A t \in Tasks : Active(t) => Dist(serving, ticket[t]) = Pos(ticket[t]) - Pos(serving)
    BY <2>1, PlacesByPos DEF TypeOK, TicketInv, Bounds
  <2>5. ASSUME NEW t \in Tasks, CreateTicket(t) PROVE Fifo!Arrive(t)
    <3>1. /\ serving' = serving /\ ~Active(t) /\ Active(t)' /\ ticket'[t] = next
          /\ Pos(next') = Pos(next) + 1
          /\ \A u \in Tasks \ {t} : (Active(u)' <=> Active(u)) /\ ticket'[u] = ticket[u]
          /\ \A u \in Tasks : Owner(u)' <=> Owner(u)
      BY <2>1, <2>5, CreateAppends
    <3>2. Gap' = Gap + 1
      <4>1. Dist(serving, next') = Pos(next') - Pos(serving)
        BY <2>4, <3>1, DistIsDifference
      <4>2. QED
        BY <2>2, <2>4, <3>1, <4>1
    <3>3. \A i \in 1 .. Gap : Line'[i] = Line[i]
      BY <2>2, <3>1, <3>2
    <3>4. Line'[Gap + 1] = t
      BY <2>2, <3>1, <3>2
    <3>5. Line \in Seq(Tasks) /\ Len(Line) = Gap
      BY <2>2
    <3>6. Line' = Append(Line, t)
      BY <2>2, <3>2, <3>3, <3>4, <3>5
    <3>7. \A i \in DOMAIN Line : Line[i] # t
      BY <2>2, <3>1
    <3>8. Owned' = Owned
      BY <3>1
    <3>9. QED
      BY <3>6, <3>7, <3>8 DEF Fifo!Arrive, Fifo!InQueue
  <2>6. ASSUME NEW t \in Tasks, SameQueue, Active(t), ~Owner(t), ticket[t] = serving, Owner(t)'
        PROVE  Fifo!Grant
    <3>1. Line # <<>>
      <4>1. Gap > 0
        BY <2>1, <2>4, <2>6 DEF TicketInv, InRange
      <4>2. QED
        BY <2>2, <4>1
    <3>2. ~Owned
      <4>1. ASSUME NEW u \in Tasks, Owner(u) PROVE u = t
        BY <2>1, <2>6, <4>1 DEF TicketInv, OwnerServed, Distinct, Active, Owner
      <4>2. QED
        BY <2>6, <4>1
    <3>3. Owned'
      BY <2>6
    <3>4. QED
      BY <2>3, <2>6, <3>1, <3>2, <3>3 DEF Fifo!Grant
  <2>7. ASSUME NEW t \in Tasks, ReleaseTicket(t) PROVE Fifo!Release
    <3>1. /\ UNCHANGED <<next, ticket>> /\ Pos(serving') = Pos(serving) + 1
          /\ ticket[t] = serving /\ Owner(t) /\ Active(t) /\ ~Active(t)' /\ ~Owner(t)'
          /\ \A u \in Tasks \ {t} : /\ (Active(u)' <=> Active(u)) /\ ~Owner(u)'
                                    /\ Active(u) => ticket[u] # serving
      BY <2>1, <2>7, ReleaseMovesUp
    <3>2. Gap' = Gap - 1
      <4>1. Pos(serving) < Pos(next)
        BY <2>1, <2>4, <3>1 DEF TicketInv, InRange
      <4>2. Dist(serving', next) = Pos(next) - Pos(serving')
        BY <2>4, <3>1, <4>1, DistIsDifference
      <4>3. QED
        BY <2>2, <2>4, <3>1, <4>2
    <3>3. ASSUME NEW i \in 1 .. Gap' PROVE Line'[i] = Line[i + 1]
      <4>1. i + 1 \in 1 .. Gap
        BY <2>2, <3>2
      <4>2. PICK u \in Tasks : u = Line[i + 1] /\ Active(u) /\ Dist(serving, ticket[u]) = i
        BY <2>2, <4>1
      <4>3. Pos(ticket[u]) = Pos(serving) + i /\ ticket[u] \in Ticket
        BY <2>1, <2>4, <4>2 DEF TypeOK
      <4>4. u # t /\ Active(u)'
        BY <2>4, <3>1, <4>2, <4>3
      <4>5. Dist(serving', ticket'[u]) = i - 1
        BY <2>4, <3>1, <4>3, DistIsDifference
      <4>6. Line'[i] = u
        BY <2>2, <4>2, <4>4, <4>5
      <4>7. QED
        BY <4>2, <4>6
    <3>4. Line \in Seq(Tasks) /\ Len(Line) = Gap
      BY <2>2
    <3>5. Line # <<>>
      BY <2>2, <3>2, <3>4
    <3>6. Line' = Tail(Line)
      <4>1. Tail(Line) \in Seq(Tasks) /\ Len(Tail(Line)) = Gap - 1
        BY <3>4, <3>5
      <4>2. \A i \in 1 .. (Gap - 1) : Tail(Line)[i] = Line[i + 1]
        BY <3>4, <3>5
      <4>3. Line' \in Seq(Tasks) /\ Len(Line') = Gap - 1
        BY <2>2, <3>2
      <4>4. QED
        BY <2>2, <3>2, <3>3, <4>1, <4>2, <4>3
    <3>7. Owned /\ ~Owned'
      BY <3>1
    <3>8. QED
      BY <3>6, <3>7 DEF Fifo!Release
  <2>8. ASSUME SameQueue, \A u \in Tasks : Owner(u)' <=> Owner(u) PROVE Line' = Line /\ Owned' = Owned
    BY <2>3, <2>8
  <2> HIDE DEF Owned
  <2>9. QED
    BY <2>1, <2>5, <2>6, <2>7, <2>8, StepsOfQueue DEF Fifo!Next
<1>3. TypeOK /\ TicketInv /\ Filled => LineOK
  BY LineIsOK
<1>4. QED
  BY <1>1, <1>2, <1>3, TypeCorrect, TicketInvHolds, FilledInvariant, PTL
     DEF Spec, ImplementsFifo, Fifo!Spec
=============================================================================

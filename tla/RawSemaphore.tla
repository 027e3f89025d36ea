---------------------------- MODULE RawSemaphore ----------------------------
(***************************************************************************)
(* raw_semaphore: acquire() draws a ticket and waits until the limit has   *)
(* reached it; release() advances the limit and sends TASK_EVENT_SEMAPHORE *)
(* to the handler that waits for exactly that ticket.  Both counters are   *)
(* uint32_t and wrap; a ticket is served while limit - ticket, taken       *)
(* modulo 2^32, is below 2^31.                                             *)
(*                                                                         *)
(* release_from_event() is release() called by the timer handler, which    *)
(* holds the scheduler's lock already: its event is queued, and delivered  *)
(* before that lock is dropped.                                            *)
(***************************************************************************)
EXTENDS Integers, FiniteSets

CONSTANTS
    Tasks,
    Timer,        \* the handler of the timer interrupt
    TicketMod,    \* 2^32
    InitialPermits,  \* the argument of the constructor, plus one
    MaxPermits    \* bound on the permits nobody has asked for yet

ASSUME RawSemaphoreAssumption ==
    /\ IsFiniteSet(Tasks) /\ Timer \notin Tasks
    /\ TicketMod \in Nat /\ TicketMod % 2 = 0
    /\ InitialPermits \in 0 .. MaxPermits
    /\ MaxPermits \in Nat
    /\ MaxPermits < TicketMod \div 2 /\ Cardinality(Tasks) < TicketMod \div 2

VARIABLES
    next,      \* data.cacheline[0]
    limit,     \* data.cacheline[1]
    ticket,    \* the local current_tic of each task in acquire()
    released,  \* the local released of each caller of release()
    pc,        \* where each task, and the timer handler, is
    blocked,   \* the blocked bit of each task
    handlers   \* tasks with a task_semaphore_handler for this semaphore

vars == <<next, limit, ticket, released, pc, blocked, handlers>>

Callers == Tasks \cup {Timer}

-----------------------------------------------------------------------------
(* Ticket arithmetic *)

Ticket == 0 .. (TicketMod - 1)
Half == TicketMod \div 2

Inc(x) == (x + 1) % TicketMod

\* Faulty variant: a comparison that forgets the wrapping.
ServedByOrder(tic) == limit >= tic

\* limit - tic < 0x80000000 in uint32_t
Served(tic) == (limit - tic) % TicketMod < Half

\* limit - next as the signed number it stands for.
Ahead ==
    LET d == (limit - next) % TicketMod IN IF d < Half THEN d ELSE d - TicketMod

-----------------------------------------------------------------------------

Labels == {"idle", "check", "add", "recheck", "block", "confirm", "unblock", "yield",
           "loop", "clear", "event"}

\* A task that drew a ticket and has not seen it served yet.
Pending(t) == pc[t] \in {"check", "add", "recheck", "block", "confirm", "yield", "loop"}

TypeOK ==
    /\ next \in Ticket
    /\ limit \in Ticket
    /\ ticket \in [Tasks -> Ticket]
    /\ released \in [Callers -> Ticket]
    /\ pc \in [Callers -> Labels]
    /\ blocked \in [Tasks -> BOOLEAN]
    /\ handlers \subseteq Tasks

Init ==
    /\ next = 0
    /\ limit = (InitialPermits - 1) % TicketMod
    /\ ticket = [t \in Tasks |-> 0]
    /\ released = [c \in Callers |-> 0]
    /\ pc = [c \in Callers |-> "idle"]
    /\ blocked = [t \in Tasks |-> FALSE]
    /\ handlers = {}

Goto(c, label) == pc' = [pc EXCEPT ![c] = label]

\* The scheduler's lock is free: the timer handler is not inside its event.
SchedulerUnlocked == pc[Timer] # "event"

-----------------------------------------------------------------------------
(* acquire() *)

CreateTicket(t) ==
    /\ pc[t] = "idle"
    /\ ticket' = [ticket EXCEPT ![t] = next]
    /\ next' = Inc(next)
    /\ Goto(t, "check")
    /\ UNCHANGED <<limit, released, blocked, handlers>>

\* acquire() returns, and its local ticket is gone.
Return(t) ==
    /\ Goto(t, "idle")
    /\ ticket' = [ticket EXCEPT ![t] = 0]

Check(t) ==
    /\ pc[t] = "check"
    /\ \/ Served(ticket[t]) /\ Return(t)
       \/ ~Served(ticket[t]) /\ Goto(t, "add") /\ UNCHANGED ticket
    /\ UNCHANGED <<next, limit, released, blocked, handlers>>

AddHandler(t) ==
    /\ pc[t] = "add"
    /\ SchedulerUnlocked
    /\ handlers' = handlers \cup {t}
    /\ Goto(t, "recheck")
    /\ UNCHANGED <<next, limit, ticket, released, blocked>>

\* Served now: no task switch, and the loop looks at the limit once more.
Recheck(t) ==
    /\ pc[t] = "recheck"
    /\ Goto(t, IF Served(ticket[t]) THEN "loop" ELSE "block")
    /\ UNCHANGED <<next, limit, ticket, released, blocked, handlers>>

SetBlocked(t) ==
    /\ pc[t] = "block"
    /\ SchedulerUnlocked
    /\ blocked' = [blocked EXCEPT ![t] = TRUE]
    /\ Goto(t, "confirm")
    /\ UNCHANGED <<next, limit, ticket, released, handlers>>

Confirm(t) ==
    /\ pc[t] = "confirm"
    /\ Goto(t, IF Served(ticket[t]) THEN "unblock" ELSE "yield")
    /\ UNCHANGED <<next, limit, ticket, released, blocked, handlers>>

\* The permit was seen: set_blocked(false) and no task switch.
Unblock(t) ==
    /\ pc[t] = "unblock"
    /\ SchedulerUnlocked
    /\ blocked' = [blocked EXCEPT ![t] = FALSE]
    /\ Goto(t, "clear")
    /\ UNCHANGED <<next, limit, ticket, released, handlers>>

\* int $0xFE
Yield(t) ==
    /\ pc[t] = "yield"
    /\ ~blocked[t]
    /\ Goto(t, "loop")
    /\ UNCHANGED <<next, limit, ticket, released, blocked, handlers>>

Loop(t) ==
    /\ pc[t] = "loop"
    /\ Served(ticket[t])
    /\ Goto(t, "clear")
    /\ UNCHANGED <<next, limit, ticket, released, blocked, handlers>>

\* Faulty variant: acquire() leaves its handler behind.
ClearNothing(t) ==
    /\ pc[t] = "clear"
    /\ Return(t)
    /\ UNCHANGED <<next, limit, released, blocked, handlers>>

\* event(TASK_EVENT_CLEAR_WAIT_SEMAPHORE)
ClearWait(t) ==
    /\ pc[t] = "clear"
    /\ SchedulerUnlocked
    /\ handlers' = handlers \ {t}
    /\ Return(t)
    /\ UNCHANGED <<next, limit, released, blocked>>

-----------------------------------------------------------------------------
(* release() and release_from_event() *)

\* 2^31 permits are not released while a task runs through acquire(): the
\* limit does not get so far ahead of a ticket that it appears to be behind.
\* Nor while a release() is on the way to its event.
NoLap ==
    /\ \A t \in Tasks : Pending(t) => (limit - ticket[t]) % TicketMod # Half - 1
    /\ \A c \in Callers : pc[c] = "event" => (limit - released[c]) % TicketMod # Half - 1

\* Faulty variant: the event announces the old limit.
ReleaseTicketOld(c) ==
    /\ pc[c] = "idle"
    /\ Ahead + 1 < MaxPermits /\ NoLap
    /\ limit' = Inc(limit)
    /\ released' = [released EXCEPT ![c] = limit]
    /\ Goto(c, "event")
    /\ UNCHANGED <<next, ticket, blocked, handlers>>

ReleaseTicket(c) ==
    /\ pc[c] = "idle"
    /\ Ahead + 1 < MaxPermits /\ NoLap
    /\ limit' = Inc(limit)
    /\ released' = [released EXCEPT ![c] = Inc(limit)]
    /\ Goto(c, "event")
    /\ UNCHANGED <<next, ticket, blocked, handlers>>

\* event(TASK_EVENT_SEMAPHORE, this, released)
Event(c) ==
    /\ pc[c] = "event"
    /\ c = Timer \/ SchedulerUnlocked
    /\ LET woken == {u \in handlers : ticket[u] = released[c]}
       IN  /\ handlers' = handlers \ woken
           /\ blocked' = [u \in Tasks |-> blocked[u] /\ u \notin woken]
    /\ released' = [released EXCEPT ![c] = 0]
    /\ Goto(c, "idle")
    /\ UNCHANGED <<next, limit, ticket>>

-----------------------------------------------------------------------------

\* What a caller does once it is inside acquire() or release().
Progress(c) ==
    \/ Event(c)
    \/ /\ c \in Tasks
       /\ \/ Check(c) \/ AddHandler(c) \/ Recheck(c) \/ SetBlocked(c) \/ Confirm(c)
          \/ Unblock(c) \/ Yield(c) \/ Loop(c) \/ ClearWait(c)

Next ==
    \/ \E t \in Tasks : CreateTicket(t)
    \/ \E c \in Callers : ReleaseTicket(c) \/ Progress(c)

Spec == Init /\ [][Next]_vars

\* The scheduler lets every task that is not blocked run, and finds the
\* time to take its own lock (TicketServed of Spinlock).
FairSpec ==
    Spec /\ \A c \in Callers : WF_vars(Event(c)) /\ SF_vars(Progress(c))

-----------------------------------------------------------------------------
(* Properties *)

\* A task outside acquire() has no handler left: the event of a release()
\* that it overtook cannot unblock it while it waits for something else.
NoStaleHandler == \A t \in Tasks : pc[t] \in {"idle", "event"} => t \notin handlers

\* A task whose ticket the limit has reached leaves acquire().
PermitTaken ==
    \A t \in Tasks : Pending(t) /\ Served(ticket[t]) ~> pc[t] = "idle"

\* The permits: what the limit is ahead of the tickets, and the tickets
\* drawn whose owners have not seen them served yet.
Permits == Ahead + 1 + Cardinality({t \in Tasks : Pending(t)})

Semaphore == INSTANCE CountingSemaphore WITH Initial <- InitialPermits, permits <- Permits

\* No acquire() returns without a permit of its own, across the wrapping of
\* both counters, and every release() adds one permit.
ImplementsSemaphore == Semaphore!Spec
=============================================================================

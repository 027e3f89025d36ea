------------------------------- MODULE KMutex -------------------------------
(***************************************************************************)
(* std::mutex of the kernel: a ticket lock whose waiters sleep.            *)
(*                                                                         *)
(* A waiter registers a task_mutex_handler, marks its task blocked and     *)
(* asks for a task switch; unlock() advances the counter first and then    *)
(* sends TASK_EVENT_MUTEX to the handlers of all tasks.  Every access to   *)
(* the counters is one atomic instruction, and every call of the scheduler *)
(* runs under its spin lock (see Spinlock), so each is one step here.      *)
(***************************************************************************)
EXTENDS Integers, FiniteSets

CONSTANTS
    Tasks,
    TicketMod,     \* 2^32: tickets are uint32_t
    HighMark,      \* 0xF8000000 of the handler's comparison
    LowMark,       \* 0x08000000
    FirstTicket,   \* how often the mutex was locked before
    MaxLocks,      \* bound on the calls of lock()
    MAX_RESOURCES  \* the largest value task::resource_acq() keeps

ASSUME KMutexAssumption ==
    /\ IsFiniteSet(Tasks)
    /\ TicketMod \in Nat /\ FirstTicket \in 0 .. (TicketMod - 1)
    /\ LowMark \in Nat /\ HighMark \in LowMark .. TicketMod
    /\ MaxLocks \in 0 .. (TicketMod - 1)
    /\ MAX_RESOURCES \in Nat

VARIABLES
    next,       \* data.cacheline[0]: the ticket to hand out next
    serving,    \* data.cacheline[1]: the ticket that owns the mutex
    ticket,     \* the local ticket of each task in lock()
    notice,     \* the local next_ticket of each task in unlock()
    pc,         \* where each task is
    blocked,    \* the blocked bit of each task
    handlers,   \* tasks with a task_mutex_handler for this mutex
    resources   \* the resource count of each task

vars == <<next, serving, ticket, notice, pc, blocked, handlers, resources>>

-----------------------------------------------------------------------------
(* Ticket arithmetic *)

Ticket == 0 .. (TicketMod - 1)

Inc(x) == IF x = TicketMod - 1 THEN 0 ELSE x + 1

\* How many increments lead from counter value a to counter value b.
Dist(a, b) == IF b >= a THEN b - a ELSE b - a + TicketMod

\* The handler's test: the event for ticket e has reached ticket n.
Reached(e, n) == e >= n \/ (n >= HighMark /\ e < LowMark)

\* task::resource_acq()
ResourceAcq(r, d) ==
    IF r + d < 0 THEN 0 ELSE IF r + d > MAX_RESOURCES THEN MAX_RESOURCES ELSE r + d

-----------------------------------------------------------------------------

Labels == {"idle", "check", "add", "recheck", "block", "confirm", "unblock", "yield",
           "loop", "clear", "held", "event"}

\* A task has a ticket from create_ticket() until release_ticket().
Active(t) == pc[t] \notin {"idle", "event"}

\* A task owns the mutex once lock() knows that its turn has come.
Owner(t) == pc[t] \in {"clear", "held"}

TypeOK ==
    /\ next \in Ticket
    /\ serving \in Ticket
    /\ ticket \in [Tasks -> Ticket]
    /\ notice \in [Tasks -> Ticket]
    /\ pc \in [Tasks -> Labels]
    /\ blocked \in [Tasks -> BOOLEAN]
    /\ handlers \subseteq Tasks
    /\ resources \in [Tasks -> 0 .. MAX_RESOURCES]

\* The mutex after FirstTicket calls of lock() and unlock().
Init ==
    /\ next = FirstTicket
    /\ serving = FirstTicket
    /\ ticket = [t \in Tasks |-> 0]
    /\ notice = [t \in Tasks |-> 0]
    /\ pc = [t \in Tasks |-> "idle"]
    /\ blocked = [t \in Tasks |-> FALSE]
    /\ handlers = {}
    /\ resources = [t \in Tasks |-> 0]

Goto(t, label) == pc' = [pc EXCEPT ![t] = label]

-----------------------------------------------------------------------------
(* lock() *)

CreateTicket(t) ==
    /\ pc[t] = "idle"
    /\ Dist(FirstTicket, next) < MaxLocks
    /\ ticket' = [ticket EXCEPT ![t] = next]
    /\ next' = Inc(next)
    /\ Goto(t, "check")
    /\ UNCHANGED <<serving, notice, blocked, handlers, resources>>

\* Faulty variant: compares with the counter of tickets handed out.
CheckWrongCounter(t) ==
    /\ pc[t] = "check"
    /\ Goto(t, IF Inc(ticket[t]) = next THEN "held" ELSE "add")
    /\ UNCHANGED <<next, serving, ticket, notice, blocked, handlers, resources>>

\* The mutex was free: set_blocked(false) changes nothing for a task that
\* runs, and ignores the resource it is told of.
Check(t) ==
    /\ pc[t] = "check"
    /\ Goto(t, IF ticket[t] = serving THEN "held" ELSE "add")
    /\ UNCHANGED <<next, serving, ticket, notice, blocked, handlers, resources>>

AddHandler(t) ==
    /\ pc[t] = "add"
    /\ handlers' = handlers \cup {t}
    /\ Goto(t, "recheck")
    /\ UNCHANGED <<next, serving, ticket, notice, blocked, resources>>

Recheck(t) ==
    /\ pc[t] = "recheck"
    /\ Goto(t, IF ticket[t] = serving THEN "yield" ELSE "block")
    /\ UNCHANGED <<next, serving, ticket, notice, blocked, handlers, resources>>

\* From here to "yield" interrupts are disabled: the task is not switched
\* out although it is marked blocked.
SetBlocked(t) ==
    /\ pc[t] = "block"
    /\ blocked' = [blocked EXCEPT ![t] = TRUE]
    /\ Goto(t, "confirm")
    /\ UNCHANGED <<next, serving, ticket, notice, handlers, resources>>

\* Faulty variant: no look at the counter after the task was marked blocked.
ConfirmUnseen(t) ==
    /\ pc[t] = "confirm"
    /\ Goto(t, "yield")
    /\ UNCHANGED <<next, serving, ticket, notice, blocked, handlers, resources>>

Confirm(t) ==
    /\ pc[t] = "confirm"
    /\ Goto(t, IF ticket[t] = serving THEN "unblock" ELSE "yield")
    /\ UNCHANGED <<next, serving, ticket, notice, blocked, handlers, resources>>

Unblock(t) ==
    /\ pc[t] = "unblock"
    /\ blocked' = [blocked EXCEPT ![t] = FALSE]
    /\ Goto(t, "yield")
    /\ UNCHANGED <<next, serving, ticket, notice, handlers, resources>>

\* int $0xFE: the scheduler comes back to a task that is not blocked.
Yield(t) ==
    /\ pc[t] = "yield"
    /\ ~blocked[t]
    /\ Goto(t, "loop")
    /\ UNCHANGED <<next, serving, ticket, notice, blocked, handlers, resources>>

\* The end of the loop around current_ticket().
Loop(t) ==
    /\ pc[t] = "loop"
    /\ ticket[t] = serving
    /\ Goto(t, "clear")
    /\ UNCHANGED <<next, serving, ticket, notice, blocked, handlers, resources>>

\* event(TASK_EVENT_CLEAR_WAIT_MUTEX): the handlers of the current task go.
ClearWait(t) ==
    /\ pc[t] = "clear"
    /\ handlers' = handlers \ {t}
    /\ Goto(t, "held")
    /\ UNCHANGED <<next, serving, ticket, notice, blocked, resources>>

-----------------------------------------------------------------------------
(* unlock() *)

\* Faulty variant: the event announces the ticket that was released.
ReleaseTicketOld(t) ==
    /\ pc[t] = "held"
    /\ serving' = Inc(serving)
    /\ notice' = [notice EXCEPT ![t] = serving]
    /\ Goto(t, "event")
    /\ UNCHANGED <<next, ticket, blocked, handlers, resources>>

ReleaseTicket(t) ==
    /\ pc[t] = "held"
    /\ serving' = Inc(serving)
    /\ notice' = [notice EXCEPT ![t] = Inc(serving)]
    /\ Goto(t, "event")
    /\ UNCHANGED <<next, ticket, blocked, handlers, resources>>

\* Faulty variant: the event is sent without res_acq.
EventKeep(t) ==
    /\ pc[t] = "event"
    /\ LET reached == {u \in handlers : Reached(notice[t], ticket[u])}
           woken == {u \in reached : ticket[u] = notice[t]}
           acquired(u) == IF u \in woken THEN ResourceAcq(resources[u], 1) ELSE resources[u]
       IN  /\ handlers' = handlers \ reached
           /\ blocked' = [u \in Tasks |-> blocked[u] /\ u \notin woken]
           /\ resources' = [u \in Tasks |-> acquired(u)]
    /\ Goto(t, "idle")
    /\ UNCHANGED <<next, serving, ticket, notice>>

\* event(TASK_EVENT_MUTEX, this, next_ticket, -1): every handler the event
\* has reached is removed, and the one it is for unblocks its task; then the
\* current task gives back its resource.
Event(t) ==
    /\ pc[t] = "event"
    /\ LET reached == {u \in handlers : Reached(notice[t], ticket[u])}
           woken == {u \in reached : ticket[u] = notice[t]}
           acquired(u) == IF u \in woken THEN ResourceAcq(resources[u], 1) ELSE resources[u]
       IN  /\ handlers' = handlers \ reached
           /\ blocked' = [u \in Tasks |-> blocked[u] /\ u \notin woken]
           /\ resources' = [u \in Tasks |->
                 IF u = t THEN ResourceAcq(acquired(u), -1) ELSE acquired(u)]
    /\ Goto(t, "idle")
    /\ UNCHANGED <<next, serving, ticket, notice>>

-----------------------------------------------------------------------------

\* What a task does once it is inside lock(), until it has left unlock().
Progress(t) ==
    \/ Check(t) \/ AddHandler(t) \/ Recheck(t) \/ SetBlocked(t) \/ Confirm(t)
    \/ Unblock(t) \/ Yield(t) \/ Loop(t) \/ ClearWait(t) \/ ReleaseTicket(t) \/ Event(t)

Next == \E t \in Tasks : CreateTicket(t) \/ Progress(t)

Spec == Init /\ [][Next]_vars

\* The scheduler lets every task that is not blocked run (NoStarvation of
\* Scheduler), and a task that owns the mutex unlocks it.
FairSpec == Spec /\ \A t \in Tasks : WF_vars(Progress(t))

-----------------------------------------------------------------------------
(* Properties *)

\* One task at a time is between the end of its wait and its unlock().
MutualExclusion == \A t, u \in Tasks : Owner(t) /\ Owner(u) => t = u

\* A task that sleeps although its turn has come is about to be woken: its
\* handler is registered and the event for its ticket is on its way.
NoLostWakeup ==
    \A t \in Tasks : pc[t] = "yield" /\ blocked[t] /\ ticket[t] = serving =>
        t \in handlers /\ \E u \in Tasks : pc[u] = "event" /\ notice[u] = ticket[t]

\* A task outside lock() and unlock() has no raised priority left, although
\* the event that raises it is sent by another task and may come late.
PriorityReturned == \A t \in Tasks : pc[t] = "idle" => resources[t] = 0

\* Every task that took a ticket gets the mutex.
LockServed == \A t \in Tasks : pc[t] = "check" ~> pc[t] = "held"

\* The tasks that hold a ticket, in ticket order.
HasPlace(t, i) == Active(t) /\ Dist(serving, ticket[t]) = i - 1
Line == [i \in 1 .. Dist(serving, next) |->
            CHOOSE t \in Tasks : HasPlace(t, i) \/ ~\E u \in Tasks : HasPlace(u, i)]

Fifo == INSTANCE FifoLock WITH
    Callers <- Tasks, queue <- Line, owned <- \E t \in Tasks : Owner(t)

\* The mutex is handed out in the order of the tickets.
ImplementsFifo == Fifo!Spec
=============================================================================

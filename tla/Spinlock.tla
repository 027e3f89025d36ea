------------------------------ MODULE Spinlock ------------------------------
(***************************************************************************)
(* hw_spinlock and critical_section: the ticket lock every other component *)
(* of the kernel is built on.                                              *)
(*                                                                         *)
(* A CPU runs two contexts: the task it is executing and an interrupt      *)
(* handler that may suspend that task whenever the CPU's interrupt flag is *)
(* set.  Either may call lock(), try_lock() and unlock().  Every access to *)
(* the two counters of the lock is one atomic instruction, so every such   *)
(* access is a step of its own; the spinning itself changes nothing.       *)
(*                                                                         *)
(* The ticket counters are uint32_t and wrap; TicketMod is 2^32 in the     *)
(* code.  raw_spinlock is the same counter protocol without the interrupt  *)
(* flag.  The counter steps are those of both architectures; try_lock is   *)
(* the aarch64 one, the only one that has a caller.                        *)
(***************************************************************************)
EXTENDS Integers, FiniteSets

CONSTANTS CPUs,       \* the processors
          TicketMod   \* number of values of a ticket counter, 2^32

Level == {"task", "irq"}
Ctx == CPUs \X Level
Cpu(c) == c[1]

\* A 32 bit counter has more values than the machine has contexts.
ASSUME TicketModAssumption ==
    /\ TicketMod \in Nat
    /\ IsFiniteSet(CPUs)
    /\ Cardinality(Ctx) < TicketMod

VARIABLES
    next,      \* cacheline[0]: the ticket handed out next
    serving,   \* cacheline[1]: the ticket that owns the lock
    hostCli,   \* hw_spinlock::cli, the owner's parked critical_section
    cli,       \* the critical_section on the stack of each context
    ticket,    \* the local variable ticket of each context
    pc,        \* where each context is in lock(), try_lock() or unlock()
    iflag,     \* interrupt flag of each CPU
    inIrq,     \* the CPU is executing an interrupt handler
    outer,     \* the critical_section a task opened around its calls
    entryFlag  \* history: the flag when the context called lock()

vars == <<next, serving, hostCli, cli, ticket, pc, iflag, inIrq, outer, entryFlag>>

-----------------------------------------------------------------------------
(* critical_section *)

CriticalSection == [entered : BOOLEAN, activated : BOOLEAN, was_activated : BOOLEAN]

\* A critical_section that is not entered: its destructor does nothing.
NotEntered == [entered |-> FALSE, activated |-> FALSE, was_activated |-> FALSE]

\* critical_section(true) with the interrupt flag at f.
Entered(f) == [entered |-> TRUE, activated |-> TRUE, was_activated |-> ~f]

\* The interrupt flag after ~critical_section(), given the flag before it.
FlagAfter(cs, f) ==
    IF cs.entered /\ cs.activated /\ ~cs.was_activated THEN TRUE
    ELSE IF cs.entered /\ ~cs.activated /\ cs.was_activated THEN FALSE
    ELSE f

\* The object whose state was moved out: only entered is cleared.  A local
\* object that goes out of scope becomes NotEntered again.
MovedFrom(cs) == [cs EXCEPT !.entered = FALSE]

-----------------------------------------------------------------------------
(* Ticket arithmetic: uint32_t, wrapping *)

Ticket == 0 .. (TicketMod - 1)

Inc(x) == IF x = TicketMod - 1 THEN 0 ELSE x + 1

\* How many increments lead from counter value a to counter value b.
Dist(a, b) == IF b >= a THEN b - a ELSE b - a + TicketMod

-----------------------------------------------------------------------------

Labels == {"idle", "ticket", "spin", "park", "held", "release", "leave", "load", "cas"}

\* A context holds a ticket from create_ticket() until release_ticket().
Active(c) == pc[c] \in {"spin", "park", "held", "release"}

\* A context owns the lock between leaving the spin loop and release_ticket().
Owner(c) == pc[c] \in {"park", "held", "release"}

\* The context the CPU is executing: the handler suspends the task.
Running(c) == IF inIrq[Cpu(c)] THEN c[2] = "irq" ELSE c[2] = "task"

TypeOK ==
    /\ next \in Ticket
    /\ serving \in Ticket
    /\ hostCli \in CriticalSection
    /\ cli \in [Ctx -> CriticalSection]
    /\ ticket \in [Ctx -> Ticket]
    /\ pc \in [Ctx -> Labels]
    /\ iflag \in [CPUs -> BOOLEAN]
    /\ inIrq \in [CPUs -> BOOLEAN]
    /\ outer \in [CPUs -> CriticalSection]
    /\ entryFlag \in [Ctx -> BOOLEAN]

Init ==
    /\ next = 0
    /\ serving = 0
    /\ hostCli = NotEntered
    /\ cli = [c \in Ctx |-> NotEntered]
    /\ ticket = [c \in Ctx |-> 0]
    /\ pc = [c \in Ctx |-> "idle"]
    /\ iflag = [p \in CPUs |-> TRUE]
    /\ inIrq = [p \in CPUs |-> FALSE]
    /\ outer = [p \in CPUs |-> NotEntered]
    /\ entryFlag = [c \in Ctx |-> TRUE]

-----------------------------------------------------------------------------
(* Steps of a context *)

At(c, label) == Running(c) /\ pc[c] = label
Goto(c, label) == pc' = [pc EXCEPT ![c] = label]

\* critical_section cli{}: save the flag and disable interrupts.
EnterCli(c, label) ==
    /\ At(c, "idle")
    /\ cli' = [cli EXCEPT ![c] = Entered(iflag[Cpu(c)])]
    /\ entryFlag' = [entryFlag EXCEPT ![c] = iflag[Cpu(c)]]
    /\ iflag' = [iflag EXCEPT ![Cpu(c)] = FALSE]
    /\ Goto(c, label)
    /\ UNCHANGED <<next, serving, hostCli, ticket, inIrq, outer>>

Lock(c) == EnterCli(c, "ticket")
TryLock(c) == EnterCli(c, "load")

\* 2^32 tickets are not handed out between two consecutive instructions of
\* a context that runs with interrupts disabled.
NoLap == \A d \in Ctx : pc[d] = "cas" => Inc(next) # ticket[d]

\* create_ticket(): lock xadd / atomic_fetch_add.
CreateTicket(c) ==
    /\ At(c, "ticket")
    /\ NoLap
    /\ ticket' = [ticket EXCEPT ![c] = next]
    /\ next' = Inc(next)
    /\ Goto(c, "spin")
    /\ UNCHANGED <<serving, hostCli, cli, iflag, inIrq, outer, entryFlag>>

\* The read of cacheline[1] that ends the spin loop.
SpinDone(c) ==
    /\ At(c, "spin")
    /\ ticket[c] = serving
    /\ Goto(c, "park")
    /\ UNCHANGED <<next, serving, hostCli, cli, ticket, iflag, inIrq, outer, entryFlag>>

\* this->cli = std::move(cli), then lock() or try_lock() returns.  The local
\* ticket is kept, for the properties, until the lock is released.
ParkCli(c) ==
    /\ At(c, "park")
    /\ hostCli' = cli[c]
    /\ cli' = [cli EXCEPT ![c] = NotEntered]
    /\ Goto(c, "held")
    /\ UNCHANGED <<next, serving, ticket, iflag, inIrq, outer, entryFlag>>

\* Faulty variant: try_lock() starts from the next free ticket.
LoadNext(c) ==
    /\ At(c, "load")
    /\ ticket' = [ticket EXCEPT ![c] = next]
    /\ Goto(c, "cas")
    /\ UNCHANGED <<next, serving, hostCli, cli, iflag, inIrq, outer, entryFlag>>

\* try_lock(): the load of cacheline[1].
LoadServing(c) ==
    /\ At(c, "load")
    /\ ticket' = [ticket EXCEPT ![c] = serving]
    /\ Goto(c, "cas")
    /\ UNCHANGED <<next, serving, hostCli, cli, iflag, inIrq, outer, entryFlag>>

\* Faulty variant: the comparison succeeds but no ticket is taken.
TryAcquireNoTicket(c) ==
    /\ At(c, "cas")
    /\ Goto(c, IF next = ticket[c] THEN "park" ELSE "leave")
    /\ UNCHANGED <<next, serving, hostCli, cli, ticket, iflag, inIrq, outer, entryFlag>>

\* Faulty variant: fetch_add in place of the compare and exchange.
TryAcquireByAdd(c) ==
    /\ At(c, "cas")
    /\ NoLap
    /\ next' = Inc(next)
    /\ Goto(c, IF next = ticket[c] THEN "park" ELSE "leave")
    /\ UNCHANGED <<serving, hostCli, cli, ticket, iflag, inIrq, outer, entryFlag>>

\* try_acquire_ticket(): compare and exchange on cacheline[0].
TryAcquireTicket(c) ==
    /\ At(c, "cas")
    /\ \/ /\ next = ticket[c]
          /\ NoLap
          /\ next' = Inc(next)
          /\ Goto(c, "park")
       \/ /\ next # ticket[c]
          /\ Goto(c, "leave")
          /\ UNCHANGED next
    /\ UNCHANGED <<serving, hostCli, cli, ticket, iflag, inIrq, outer, entryFlag>>

\* unlock(): this->cli.extract(cli).
UnlockExtract(c) ==
    /\ At(c, "held")
    /\ cli' = [cli EXCEPT ![c] = hostCli]
    /\ hostCli' = MovedFrom(hostCli)
    /\ Goto(c, "release")
    /\ UNCHANGED <<next, serving, ticket, iflag, inIrq, outer, entryFlag>>

\* release_ticket(): lock inc / atomic_fetch_add on cacheline[1].
ReleaseTicket(c) ==
    /\ At(c, "release")
    /\ serving' = Inc(serving)
    /\ Goto(c, "leave")
    /\ UNCHANGED <<next, hostCli, cli, ticket, iflag, inIrq, outer, entryFlag>>

\* Faulty variant: unlock() extracts the flag after release_ticket().
LeaveFromHost(c) ==
    /\ At(c, "leave")
    /\ iflag' = [iflag EXCEPT ![Cpu(c)] = FlagAfter(hostCli, @)]
    /\ cli' = [cli EXCEPT ![c] = NotEntered]
    /\ ticket' = [ticket EXCEPT ![c] = 0]
    /\ entryFlag' = [entryFlag EXCEPT ![c] = TRUE]
    /\ Goto(c, "idle")
    /\ UNCHANGED <<next, serving, hostCli, inIrq, outer>>

\* ~critical_section() at the end of unlock() or of a failed try_lock().
LeaveCli(c) ==
    /\ At(c, "leave")
    /\ iflag' = [iflag EXCEPT ![Cpu(c)] = FlagAfter(cli[c], @)]
    /\ cli' = [cli EXCEPT ![c] = NotEntered]
    /\ ticket' = [ticket EXCEPT ![c] = 0]
    /\ entryFlag' = [entryFlag EXCEPT ![c] = TRUE]
    /\ Goto(c, "idle")
    /\ UNCHANGED <<next, serving, hostCli, inIrq, outer>>

\* A task opens a critical_section of its own around its use of the lock.
EnterOuter(p) ==
    /\ At(<<p, "task">>, "idle")
    /\ ~outer[p].entered
    /\ outer' = [outer EXCEPT ![p] = Entered(iflag[p])]
    /\ iflag' = [iflag EXCEPT ![p] = FALSE]
    /\ UNCHANGED <<next, serving, hostCli, cli, ticket, pc, inIrq, entryFlag>>

LeaveOuter(p) ==
    /\ At(<<p, "task">>, "idle")
    /\ outer[p].entered
    /\ iflag' = [iflag EXCEPT ![p] = FlagAfter(outer[p], @)]
    /\ outer' = [outer EXCEPT ![p] = NotEntered]
    /\ UNCHANGED <<next, serving, hostCli, cli, ticket, pc, inIrq, entryFlag>>

\* The processor takes an interrupt through an interrupt gate.
TakeInterrupt(p) ==
    /\ iflag[p]
    /\ ~inIrq[p]
    /\ inIrq' = [inIrq EXCEPT ![p] = TRUE]
    /\ iflag' = [iflag EXCEPT ![p] = FALSE]
    /\ UNCHANGED <<next, serving, hostCli, cli, ticket, pc, outer, entryFlag>>

\* iretq / eret restores the flag that was saved when it was set.
ReturnFromInterrupt(p) ==
    /\ inIrq[p]
    /\ pc[<<p, "irq">>] = "idle"
    /\ inIrq' = [inIrq EXCEPT ![p] = FALSE]
    /\ iflag' = [iflag EXCEPT ![p] = TRUE]
    /\ UNCHANGED <<next, serving, hostCli, cli, ticket, pc, outer, entryFlag>>

\* What a context does once it is inside lock(), try_lock() or unlock().
Progress(c) ==
    \/ CreateTicket(c) \/ SpinDone(c) \/ ParkCli(c)
    \/ LoadServing(c) \/ TryAcquireTicket(c)
    \/ UnlockExtract(c) \/ ReleaseTicket(c) \/ LeaveCli(c)

Next ==
    \/ \E c \in Ctx : Lock(c) \/ TryLock(c) \/ Progress(c)
    \/ \E p \in CPUs : \/ EnterOuter(p) \/ LeaveOuter(p)
                       \/ TakeInterrupt(p) \/ ReturnFromInterrupt(p)

\* A CPU keeps executing the code it is in, a critical section is finite and
\* an interrupt handler returns.
Fairness ==
    /\ \A c \in Ctx : WF_vars(Progress(c))
    /\ \A p \in CPUs : WF_vars(ReturnFromInterrupt(p))

Spec == Init /\ [][Next]_vars
FairSpec == Spec /\ Fairness

-----------------------------------------------------------------------------
(* Properties *)

\* At most one context is between the end of its spin loop (or a successful
\* compare and exchange) and its release_ticket(), whatever the wrapping
\* counters have reached.
MutualExclusion == \A c, d \in Ctx : Owner(c) /\ Owner(d) => c = d

\* The flag parked in the lock is that of its owner: unlock() and a failed
\* try_lock() leave the interrupt flag as the caller had it, although the
\* saved flag travelled through storage all callers share.
FlagRestored ==
    [][\A c \in Ctx : pc[c] # "idle" /\ pc'[c] = "idle"
                         => iflag'[Cpu(c)] = entryFlag[c]]_vars

\* Every context that took a ticket gets the lock.
TicketServed == \A c \in Ctx : pc[c] = "spin" ~> pc[c] = "held"

-----------------------------------------------------------------------------
(* The lock implements FifoLock *)

\* The contexts that hold a ticket, in ticket order.
Line == [i \in 1 .. Dist(serving, next) |->
            CHOOSE c \in Ctx : Active(c) /\ Dist(serving, ticket[c]) = i - 1]

Fifo == INSTANCE FifoLock WITH
    Callers <- Ctx, queue <- Line, owned <- \E c \in Ctx : Owner(c)

\* Contexts get the lock in the order in which they drew their tickets, and
\* try_lock() never overtakes anyone.
ImplementsFifo == Fifo!Spec
=============================================================================

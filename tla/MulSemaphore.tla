---------------------------- MODULE MulSemaphore ----------------------------
(***************************************************************************)
(* mul_semaphore: a semaphore whose acquire() gives up after a time.       *)
(*                                                                         *)
(* An acquire() that finds no permit makes a slot of its own, with a       *)
(* raw_semaphore (a CountingSemaphore here, which RawSemaphore implements) *)
(* and a timeout, and enters it into the queue waiting.  release() gives   *)
(* its permit to the first slot of the queue, the timeout to its own slot. *)
(* spinlock protects the queue and the count; the timeout runs under the   *)
(* scheduler's lock, which is also taken to cancel it.                     *)
(***************************************************************************)
EXTENDS Integers, Sequences, SequencesExt

CONSTANTS
    Tasks,        \* callers of acquire(), each with at most one slot
    MaxReleases   \* bound on release_count

ASSUME MulSemaphoreAssumption == MaxReleases \in Nat

VARIABLES
    release_count,  \* mul_semaphore::release_count
    waiting,        \* mul_semaphore::waiting, slots named by their task
    permits,        \* permits of the raw_semaphore of each slot
    armed,          \* slots whose timeout handler is registered
    live,           \* slots that were allocated and not deleted
    pc              \* where each task is in acquire()

vars == <<release_count, waiting, permits, armed, live, pc>>

Labels == {"idle", "first", "new", "timeout", "second", "wait", "erase", "cancel", "delete"}

TypeOK ==
    /\ release_count \in 0 .. MaxReleases
    /\ waiting \in Seq(Tasks)
    /\ permits \in [Tasks -> 0 .. 2]
    /\ armed \subseteq Tasks
    /\ live \subseteq Tasks
    /\ pc \in [Tasks -> Labels]

Init ==
    /\ release_count = 0
    /\ waiting = <<>>
    /\ permits = [t \in Tasks |-> 0]
    /\ armed = {}
    /\ live = {}
    /\ pc = [t \in Tasks |-> "idle"]

Goto(t, label) == pc' = [pc EXCEPT ![t] = label]

\* A raw_semaphore is released.
Grant(t) == permits' = [permits EXCEPT ![t] = @ + 1]

-----------------------------------------------------------------------------
(* acquire() *)

Acquire(t) ==
    /\ pc[t] = "idle"
    /\ Goto(t, "first")
    /\ UNCHANGED <<release_count, waiting, permits, armed, live>>

\* Under spinlock: a permit is there, or a slot has to be made.
First(t) ==
    /\ pc[t] = "first"
    /\ \/ /\ release_count > 0
          /\ release_count' = release_count - 1
          /\ Goto(t, "idle")
       \/ /\ release_count = 0
          /\ Goto(t, "new")
          /\ UNCHANGED release_count
    /\ UNCHANGED <<waiting, permits, armed, live>>

New(t) ==
    /\ pc[t] = "new"
    /\ live' = live \cup {t}
    /\ permits' = [permits EXCEPT ![t] = 0]
    /\ Goto(t, "timeout")
    /\ UNCHANGED <<release_count, waiting, armed>>

\* slot->timeout(): set_timeout_millis() registers the handler.
SetTimeout(t) ==
    /\ pc[t] = "timeout"
    /\ armed' = armed \cup {t}
    /\ Goto(t, "second")
    /\ UNCHANGED <<release_count, waiting, permits, live>>

\* Under spinlock again: a release() may have come in between.
Second(t) ==
    /\ pc[t] = "second"
    /\ \/ /\ release_count = 0
          /\ waiting' = Append(waiting, t)
          /\ Goto(t, "wait")
          /\ UNCHANGED release_count
       \/ /\ release_count > 0
          /\ release_count' = release_count - 1
          /\ Goto(t, "cancel")
          /\ UNCHANGED waiting
    /\ UNCHANGED <<permits, armed, live>>

\* slot->acquire()
Wait(t) ==
    /\ pc[t] = "wait"
    /\ permits[t] > 0
    /\ permits' = [permits EXCEPT ![t] = @ - 1]
    /\ Goto(t, "erase")
    /\ UNCHANGED <<release_count, waiting, armed, live>>

\* Faulty variant: the slot is expected to have been taken off the queue.
EraseNothing(t) ==
    /\ pc[t] = "erase"
    /\ Goto(t, "cancel")
    /\ UNCHANGED <<release_count, waiting, permits, armed, live>>

\* Under spinlock: the slot leaves the queue, if release() has not taken it.
Erase(t) ==
    /\ pc[t] = "erase"
    /\ waiting' = RemoveFirst(waiting, t)
    /\ Goto(t, "cancel")
    /\ UNCHANGED <<release_count, permits, armed, live>>

\* ~waiting_mul_semaphore: the reference to the timeout removes its handler.
Cancel(t) ==
    /\ pc[t] = "cancel"
    /\ armed' = armed \ {t}
    /\ Goto(t, "delete")
    /\ UNCHANGED <<release_count, waiting, permits, live>>

Delete(t) ==
    /\ pc[t] = "delete"
    /\ live' = live \ {t}
    /\ permits' = [permits EXCEPT ![t] = 0]
    /\ Goto(t, "idle")
    /\ UNCHANGED <<release_count, waiting, armed>>

-----------------------------------------------------------------------------

\* Faulty variant: the queue is advanced before its head is released.
ReleaseAfterErase ==
    /\ waiting # <<>>
    /\ waiting' = Tail(waiting)
    /\ IF Len(waiting) > 1 THEN Grant(waiting[2]) ELSE UNCHANGED permits
    /\ UNCHANGED <<release_count, armed, live, pc>>

\* release(), by a task or an interrupt handler, under spinlock: the first
\* slot gets the permit, even one whose timeout has expired already.
Release ==
    /\ \/ /\ waiting # <<>>
          /\ Grant(Head(waiting))
          /\ waiting' = Tail(waiting)
          /\ UNCHANGED release_count
       \/ /\ waiting = <<>>
          /\ release_count < MaxReleases
          /\ release_count' = release_count + 1
          /\ UNCHANGED <<waiting, permits>>
    /\ UNCHANGED <<armed, live, pc>>

\* Faulty variant: the timeout ends without an event.
TimeoutSilent(t) ==
    /\ t \in armed
    /\ armed' = armed \ {t}
    /\ UNCHANGED <<release_count, waiting, permits, live, pc>>

\* The timeout handler: it removes itself and releases the slot.
Timeout(t) ==
    /\ t \in armed
    /\ armed' = armed \ {t}
    /\ Grant(t)
    /\ UNCHANGED <<release_count, waiting, live, pc>>

Progress(t) ==
    \/ First(t) \/ New(t) \/ SetTimeout(t) \/ Second(t) \/ Wait(t)
    \/ Erase(t) \/ Cancel(t) \/ Delete(t)

-----------------------------------------------------------------------------
(* Properties *)

\* release() and the timeout work on slots that exist: whoever comes first,
\* the slot is in no queue and has no handler when it is deleted.
SlotsAlive == ToSet(waiting) \cup armed \subseteq live

\* A release() is never lost: a slot that has left the queue before its
\* task woke up has been given a permit.
DequeuedIsGranted ==
    \A t \in Tasks : pc[t] = "wait" /\ t \notin ToSet(waiting) => permits[t] > 0

\* Every acquire() returns, whether or not anybody calls release().
AcquireReturns == \A t \in Tasks : []<>(pc[t] = "idle")
=============================================================================

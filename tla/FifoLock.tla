------------------------------ MODULE FifoLock ------------------------------
(***************************************************************************)
(* What a ticket lock promises its callers: those that asked for the lock  *)
(* stand in one queue, only the head of the queue may own the lock, and it *)
(* leaves the queue by unlocking.  A conditional attempt succeeds only on  *)
(* a lock nobody owns or waits for.                                        *)
(***************************************************************************)
EXTENDS Sequences

CONSTANT Callers

VARIABLES
    queue,   \* the callers that were given a place, in order of arrival
    owned    \* the head of the queue has been told that it owns the lock

lockVars == <<queue, owned>>

InQueue(c) == \E i \in DOMAIN queue : queue[i] = c

Init ==
    /\ queue = <<>>
    /\ owned = FALSE

Arrive(c) ==
    /\ ~InQueue(c)
    /\ queue' = Append(queue, c)
    /\ UNCHANGED owned

Grant ==
    /\ queue # <<>> /\ ~owned
    /\ owned' = TRUE
    /\ UNCHANGED queue

TryGrant(c) ==
    /\ queue = <<>>
    /\ queue' = <<c>>
    /\ owned' = TRUE

Release ==
    /\ owned
    /\ queue' = Tail(queue)
    /\ owned' = FALSE

Next ==
    \/ \E c \in Callers : Arrive(c) \/ TryGrant(c)
    \/ Grant
    \/ Release

Spec == Init /\ [][Next]_lockVars
=============================================================================

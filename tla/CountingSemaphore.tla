------------------------- MODULE CountingSemaphore -------------------------
(***************************************************************************)
(* What a semaphore promises its callers: a number of permits that         *)
(* release() raises and that an acquire() may only lower when there is one.*)
(***************************************************************************)
EXTENDS Naturals

CONSTANT Initial

VARIABLE permits

Init == permits = Initial

Release == permits' = permits + 1

Acquire == permits > 0 /\ permits' = permits - 1

Spec == Init /\ [][Release \/ Acquire]_permits
=============================================================================

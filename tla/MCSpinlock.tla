----------------------------- MODULE MCSpinlock -----------------------------
(***************************************************************************)
(* Two processors, each with a task and an interrupt handler that use the  *)
(* lock, and counters that wrap every five tickets.                        *)
(***************************************************************************)
EXTENDS Spinlock
=============================================================================

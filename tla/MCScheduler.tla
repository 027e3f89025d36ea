----------------------------- MODULE MCScheduler -----------------------------
(* Instances of Scheduler; the configurations name the operations they use. *)
EXTENDS Scheduler
=============================================================================

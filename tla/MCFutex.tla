------------------------------- MODULE MCFutex -------------------------------
(* Instances of Futex: the threads of one process on one futex word.        *)
EXTENDS Futex, TLC

ThreadSymmetry == Permutations(Threads)
=============================================================================

--------------------------- MODULE MCRawSemaphore ---------------------------
(* Instances of RawSemaphore with counters that wrap after a few tickets.   *)
EXTENDS RawSemaphore
=============================================================================

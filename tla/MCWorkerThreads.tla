--------------------------- MODULE MCWorkerThreads ---------------------------
(* A blockthread, a SyscallAsyncThread, and another thread that is joined or *)
(* detached by whoever started it.                                           *)
EXTENDS WorkerThreads
=============================================================================

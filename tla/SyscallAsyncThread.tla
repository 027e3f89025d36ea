------------------------- MODULE SyscallAsyncThread -------------------------
(***************************************************************************)
(* SyscallAsyncThread: the kernel thread of a system call, which runs the  *)
(* slow parts of all the calls of it by any user thread.  It is started by *)
(* the first Queue().  mtx protects the queue, the stop flag and the       *)
(* thread; sema is a CountingSemaphore (RawSemaphore implements it).       *)
(***************************************************************************)
EXTENDS StdThread, Sequences

CONSTANTS
    asyncThr,    \* SyscallAsyncThread::thr
    MaxAsync     \* bound on the functions queued

ASSUME AsyncAssumption == asyncThr \in Threads /\ MaxAsync \in Nat

VARIABLES
    asyncQueue,     \* SyscallAsyncThread::queue, numbered in queueing order
    asyncCount,     \* functions queued so far
    asyncStop,      \* SyscallAsyncThread::stop
    asyncPermits,   \* permits of sema
    asyncWorker,    \* where the function of thr is
    batch,          \* its local q: what is left to run of it
    asyncRan        \* functions that were run

asyncVars ==
    <<asyncQueue, asyncCount, asyncStop, asyncPermits, asyncWorker, batch, asyncRan>>

AsyncInit ==
    /\ asyncQueue = <<>>
    /\ asyncCount = 0
    /\ asyncStop = FALSE
    /\ asyncPermits = 0
    /\ asyncWorker = "acquire"
    /\ batch = <<>>
    /\ asyncRan = <<>>

\* The first Queue() starts the thread.
StartOnce ==
    IF owner[asyncThr] = "none" /\ ~asyncStop THEN Start(asyncThr) ELSE UNCHANGED threadVars

\* Faulty variant: the semaphore is released when the thread is started.
AsyncQueueFirst ==
    /\ asyncCount < MaxAsync
    /\ asyncCount' = asyncCount + 1
    /\ asyncQueue' = Append(asyncQueue, asyncCount + 1)
    /\ asyncPermits' = IF owner[asyncThr] = "none" THEN asyncPermits + 1 ELSE asyncPermits
    /\ StartOnce
    /\ UNCHANGED <<asyncStop, asyncWorker, batch, asyncRan>>

\* Queue(), under mtx.
AsyncQueue ==
    /\ asyncCount < MaxAsync
    /\ asyncCount' = asyncCount + 1
    /\ asyncQueue' = Append(asyncQueue, asyncCount + 1)
    /\ asyncPermits' = asyncPermits + 1
    /\ StartOnce
    /\ UNCHANGED <<asyncStop, asyncWorker, batch, asyncRan>>

\* ~SyscallAsyncThread(): stop is set, and nothing tells the worker.
AsyncDestruct ==
    /\ ~asyncStop
    /\ asyncStop' = TRUE
    /\ UNCHANGED <<asyncQueue, asyncCount, asyncPermits, asyncWorker, batch, asyncRan>>

AsyncAcquire ==
    /\ body[asyncThr] = "run" /\ asyncWorker = "acquire" /\ asyncPermits > 0
    /\ asyncPermits' = asyncPermits - 1
    /\ asyncWorker' = "take"
    /\ UNCHANGED <<asyncQueue, asyncCount, asyncStop, batch, asyncRan>>

\* Under mtx: the worker ends, or takes everything, which may be nothing if
\* an earlier round has taken it already.
AsyncTake ==
    /\ asyncWorker = "take"
    /\ asyncWorker' = IF asyncStop THEN "ended" ELSE "run"
    /\ batch' = IF asyncStop THEN <<>> ELSE asyncQueue
    /\ asyncQueue' = IF asyncStop THEN asyncQueue ELSE <<>>
    /\ UNCHANGED <<asyncCount, asyncStop, asyncPermits, asyncRan>>

AsyncRun ==
    /\ asyncWorker = "run"
    /\ IF batch = <<>>
       THEN asyncWorker' = "acquire" /\ UNCHANGED <<batch, asyncRan>>
       ELSE /\ asyncRan' = Append(asyncRan, Head(batch))
            /\ batch' = Tail(batch)
            /\ UNCHANGED asyncWorker
    /\ UNCHANGED <<asyncQueue, asyncCount, asyncStop, asyncPermits>>

AsyncWorks == AsyncAcquire \/ AsyncTake \/ AsyncRun

\* The steps of thr.
AsyncThread ==
    \/ Mark(asyncThr) \/ Decide(asyncThr) \/ Exit(asyncThr)
    \/ asyncWorker = "ended" /\ Finish(asyncThr)
    \/ asyncStop /\ JoinAndDestroy(asyncThr)

AsyncNext ==
    \/ AsyncQueue
    \/ (AsyncDestruct \/ AsyncWorks) /\ UNCHANGED threadVars
    \/ AsyncThread /\ UNCHANGED asyncVars

-----------------------------------------------------------------------------
(* Properties *)

\* All functions are run, once each and in their order, unless the object is
\* destroyed: although a round takes all of the queue and leaves the permits of
\* what it took, the worker never waits with work to do.
AsyncRuns == []<>(asyncStop \/ asyncRan = [i \in 1 .. asyncCount |-> i])
=============================================================================

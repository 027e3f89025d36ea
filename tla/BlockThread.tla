----------------------------- MODULE BlockThread -----------------------------
(***************************************************************************)
(* blockthread: the kernel thread that runs the blocking parts of the      *)
(* system calls of one user thread, in the order in which they were        *)
(* queued.  spinlock protects the queue and the stop flag; sema is a       *)
(* CountingSemaphore (RawSemaphore implements it).  The worker is the      *)
(* function of the std::thread thr (see StdThread), whose object is a      *)
(* member of the blockthread; the other threads are anybody's.             *)
(***************************************************************************)
EXTENDS StdThread, Sequences

CONSTANTS
    thr,         \* blockthread::thr
    MaxFuncs     \* bound on the functions queued

ASSUME BlockThreadAssumption == thr \in Threads /\ MaxFuncs \in Nat

VARIABLES
    queue,     \* blockthread::queue, functions numbered in queueing order
    count,     \* functions queued so far
    stop,      \* blockthread::stop
    permits,   \* permits of sema
    worker,    \* where the function of thr is
    func,      \* the function it took from the queue, 0 for none
    ran        \* functions that were run

blockVars == <<queue, count, stop, permits, worker, func, ran>>

BlockTypeOK ==
    /\ queue \in Seq(1 .. MaxFuncs)
    /\ count \in 0 .. MaxFuncs
    /\ stop \in BOOLEAN
    /\ permits \in 0 .. (MaxFuncs + 1)
    /\ worker \in {"look", "run", "acquire", "ended"}
    /\ func \in 0 .. MaxFuncs
    /\ ran \in Seq(1 .. MaxFuncs)

BlockInit ==
    /\ queue = <<>>
    /\ count = 0
    /\ stop = FALSE
    /\ permits = 0
    /\ worker = "look"
    /\ func = 0
    /\ ran = <<>>

\* The constructor has run, and the destructor has not begun.
Open == owner[thr] = "have" /\ ~stop

\* Faulty variant: one permit stands for everything in the queue.
QueueOnePermit ==
    /\ Open /\ count < MaxFuncs
    /\ count' = count + 1
    /\ queue' = Append(queue, count + 1)
    /\ permits' = 1
    /\ UNCHANGED <<stop, worker, func, ran>>

\* Queue(), called by the user thread or by a function that the worker runs.
Queue ==
    /\ Open /\ count < MaxFuncs
    /\ count' = count + 1
    /\ queue' = Append(queue, count + 1)
    /\ permits' = permits + 1
    /\ UNCHANGED <<stop, worker, func, ran>>

\* Faulty variant: the stop flag is set without a permit for the worker.
StopQuietly ==
    /\ Open
    /\ stop' = TRUE
    /\ UNCHANGED <<queue, count, permits, worker, func, ran>>

\* Stop(): what is still queued is dropped.
Stop ==
    /\ Open
    /\ stop' = TRUE
    /\ permits' = permits + 1
    /\ UNCHANGED <<queue, count, worker, func, ran>>

\* Under spinlock: end, take the first function, or nothing to do.
Look ==
    /\ body[thr] = "run" /\ worker = "look"
    /\ worker' = IF stop THEN "ended" ELSE IF queue = <<>> THEN "acquire" ELSE "run"
    /\ func' = IF stop \/ queue = <<>> THEN 0 ELSE Head(queue)
    /\ queue' = IF stop \/ queue = <<>> THEN queue ELSE Tail(queue)
    /\ UNCHANGED <<count, stop, permits, ran>>

Run ==
    /\ worker = "run"
    /\ ran' = Append(ran, func)
    /\ func' = 0
    /\ worker' = "acquire"
    /\ UNCHANGED <<queue, count, stop, permits>>

Acquire ==
    /\ worker = "acquire" /\ permits > 0
    /\ permits' = permits - 1
    /\ worker' = "look"
    /\ UNCHANGED <<queue, count, stop, func, ran>>

Block == Queue \/ Stop \/ Look \/ Run \/ Acquire

\* The steps of thr that the blockthread takes: its function returns when the
\* worker has seen the stop flag, and ~blockthread() joins it after Stop().
OwnThread ==
    \/ Mark(thr) \/ Decide(thr) \/ Exit(thr)
    \/ worker = "ended" /\ Finish(thr)
    \/ stop /\ JoinAndDestroy(thr)

BlockNext ==
    \/ Block /\ UNCHANGED threadVars
    \/ (Start(thr) \/ OwnThread) /\ UNCHANGED blockVars

-----------------------------------------------------------------------------
(* Properties *)

\* All functions queued are run, once each and in their order, unless the owner
\* stops the thread: the worker looks at the queue once before its first
\* acquire(), so that permits and functions are never as many, and yet it does
\* not wait while there is work.
QueuedRuns == []<>(stop \/ ran = [i \in 1 .. count |-> i])

\* The destructor returns, and with it the start context of the thread goes.
StopReturns == []<>(stop => owner[thr] = "gone" /\ deletes[thr] = 1)
=============================================================================

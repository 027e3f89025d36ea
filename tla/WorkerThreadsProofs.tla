------------------------ MODULE WorkerThreadsProofs ------------------------
(***************************************************************************)
(* TLAPS proofs about WorkerThreads, for any set of threads, any number of *)
(* functions and any number of inodes: who deletes the start context of a  *)
(* std::thread; why the workers of blockthread and SyscallAsyncThread run  *)
(* what is queued in its order and do not wait while there is something to *)
(* do; and why a file system that says that it is valid is complete.       *)
(***************************************************************************)
EXTENDS WorkerThreads, FiniteSetTheorems, WellFoundedInduction, SequenceTheorems, TLAPS

(***************************************************************************)
(* The strengthening of ContextAlive and DeletedOnce: the flags tell where *)
(* thread and object are, of the two that let go of the context exactly    *)
(* one has seen that the other was first, and deletes counts that one.     *)
(***************************************************************************)
Ended(t) == body[t] \in {"exit", "ended"}

FlagsTell ==
    \A t \in Threads :
        /\ done[t] <=> body[t] \in {"decide", "exit", "ended"}
        /\ detached[t] => owner[t] \in {"decide", "gone"}
        /\ owner[t] = "decide" => detached[t]
        /\ owner[t] = "none" => body[t] = "none"
        /\ owner[t] = "joined" => done[t]
        /\ owner[t] = "gone" /\ ~detached[t] => done[t]
LastSeesFirst ==
    \A t \in Threads :
        /\ sawDetached[t] => done[t] /\ detached[t]
        /\ sawDone[t] => done[t] /\ detached[t]
        /\ done[t] /\ detached[t] => (sawDetached[t] <=> ~sawDone[t])
ByThread(t) == Ended(t) /\ sawDetached[t]
ByObject(t) == owner[t] = "gone" /\ (sawDone[t] \/ ~detached[t])
DeleteCounted ==
    \A t \in Threads : deletes[t] = IF ByThread(t) \/ ByObject(t) THEN 1 ELSE 0

ContextInv == ThreadTypeOK /\ FlagsTell /\ LastSeesFirst /\ DeleteCounted

(***************************************************************************)
(* The safety part of QueuedRuns and StopReturns: what blockthread has run *)
(* is what was queued first, and its worker does not wait for a permit     *)
(* while something is queued or it has to stop.  Permits and functions are *)
(* not as many, since the worker looks at the queue once before its first  *)
(* acquire(); BlockPermits says by how much they may differ.               *)
(***************************************************************************)
Numbered(s, k) == \A i \in 1 .. Len(s) : s[i] = k + i

RunsInOrder == Len(ran) <= count /\ Numbered(ran, 0)
NoIdleWait == worker = "acquire" /\ (queue # <<>> \/ stop) => permits > 0

Taken == IF worker = "run" THEN 1 ELSE 0
BlockOrder ==
    /\ worker = "run" => func = Len(ran) + 1
    /\ Len(ran) + Taken + Len(queue) = count
    /\ Numbered(ran, 0)
    /\ Numbered(queue, Len(ran) + Taken)
BlockPermits ==
    /\ permits <= count + (IF stop THEN 1 ELSE 0)
    /\ worker \in {"run", "acquire"} => permits >= Len(queue) + (IF stop THEN 1 ELSE 0)
    /\ worker = "look" /\ ~stop => permits + 1 >= Len(queue)

BlockInv == BlockTypeOK /\ BlockOrder /\ BlockPermits

(***************************************************************************)
(* The same for SyscallAsyncThread, whose worker takes all of the queue at *)
(* once and so may find it empty in the rounds that follow.                *)
(***************************************************************************)
AsyncRunsInOrder ==
    Len(asyncRan) <= asyncCount /\ Numbered(asyncRan, 0)
AsyncNoIdleWait == asyncWorker = "acquire" /\ asyncQueue # <<>> => asyncPermits > 0

AsyncTypeOK ==
    /\ asyncQueue \in Seq(Nat) /\ batch \in Seq(Nat) /\ asyncRan \in Seq(Nat)
    /\ asyncCount \in 0 .. MaxAsync
    /\ asyncStop \in BOOLEAN
    /\ asyncPermits \in 0 .. MaxAsync
    /\ asyncWorker \in {"acquire", "take", "run", "ended"}
AsyncOrder ==
    /\ asyncWorker = "run" \/ batch = <<>>
    /\ Len(asyncRan) + Len(batch) + Len(asyncQueue) = asyncCount
    /\ Numbered(asyncRan, 0)
    /\ Numbered(batch, Len(asyncRan))
    /\ Numbered(asyncQueue, Len(asyncRan) + Len(batch))
AsyncPermitsInv ==
    /\ asyncPermits <= asyncCount
    /\ asyncWorker \in {"acquire", "run"} => asyncPermits >= Len(asyncQueue)

AsyncInv == AsyncTypeOK /\ AsyncOrder /\ AsyncPermitsInv

-----------------------------------------------------------------------------

\* What the invariant says: the context is there for whoever uses it, and
\* deleted once when nobody does.
LEMMA ContextSafe ==
    ASSUME ContextInv
    PROVE  ContextAlive /\ DeletedOnce
BY DEF ContextInv, ThreadTypeOK, FlagsTell, LastSeesFirst, DeleteCounted, ByThread,
       ByObject, Ended, ContextAlive, DeletedOnce

\* Every step that a std::thread takes keeps the invariant, whoever's it is.
LEMMA FreeThreadStep ==
    ASSUME ContextInv, NEW t \in Threads, FreeThread(t)
    PROVE  ContextInv'
<1> USE DEF ContextInv, ThreadTypeOK, FlagsTell, LastSeesFirst, DeleteCounted,
            ByThread, ByObject, Ended
<1>1. CASE Start(t)
  BY <1>1 DEF Start
<1>2. CASE Finish(t)
  BY <1>2 DEF Finish
<1>3. CASE Mark(t)
  BY <1>3 DEF Mark
<1>4. CASE Decide(t)
  BY <1>4 DEF Decide, Delete
<1>5. CASE Exit(t)
  BY <1>5 DEF Exit
<1>6. CASE Join(t)
  BY <1>6 DEF Join
<1>7. CASE Joined(t)
  BY <1>7 DEF Joined
<1>8. CASE Destroy(t)
  BY <1>8 DEF Destroy, Delete
<1>9. CASE Detach(t)
  BY <1>9 DEF Detach
<1>10. CASE DetachDone(t)
  BY <1>10 DEF DetachDone, Delete
<1>11. QED
  BY <1>1, <1>2, <1>3, <1>4, <1>5, <1>6, <1>7, <1>8, <1>9, <1>10
     DEF FreeThread, Body, JoinAndDestroy, DetachSteps

\* A step that does not touch any std::thread.
LEMMA NoThreadStep ==
    ASSUME ContextInv, UNCHANGED threadVars
    PROVE  ContextInv'
BY DEF ContextInv, ThreadTypeOK, FlagsTell, LastSeesFirst, DeleteCounted, ByThread,
       ByObject, Ended, threadVars

\* The steps of the two workers are steps of a std::thread, or do not touch it.
LEMMA ThreadsOnly ==
    ASSUME [Next]_vars
    PROVE  UNCHANGED threadVars \/ \E t \in Threads : FreeThread(t)
<1>1. thr \in Threads /\ asyncThr \in Threads
  BY BlockThreadAssumption, AsyncAssumption
<1>2. CASE BlockNext
  BY <1>1, <1>2 DEF BlockNext, OwnThread, FreeThread, Body, JoinAndDestroy
<1>3. CASE AsyncNext
  BY <1>1, <1>3 DEF AsyncNext, AsyncQueue, StartOnce, AsyncThread, FreeThread, Body,
     JoinAndDestroy
<1>4. QED
  BY <1>2, <1>3 DEF Next, Free, vars

\* The context invariant holds in every state.
THEOREM ContextInvariant == Spec => []ContextInv
<1>1. Init => ContextInv
  BY DEF Init, ThreadInit, ContextInv, ThreadTypeOK, FlagsTell, LastSeesFirst,
         DeleteCounted, ByThread, ByObject, Ended
<1>2. ContextInv /\ [Next]_vars => ContextInv'
  BY ThreadsOnly, FreeThreadStep, NoThreadStep
<1>3. QED
  BY <1>1, <1>2, PTL DEF Spec

\* The start context of a std::thread is not deleted while its function runs or
\* while the object refers to it.
THEOREM ContextAliveHolds == Spec => []ContextAlive
BY ContextInvariant, ContextSafe, PTL

\* Of ~thread(), detach() and the end of the function, exactly one deletes the
\* context, in whichever order they come.
THEOREM DeletedOnceHolds == Spec => []DeletedOnce
BY ContextInvariant, ContextSafe, PTL

-----------------------------------------------------------------------------

\* Putting the next number behind numbered functions.
LEMMA NumberedAppend ==
    ASSUME NEW S, NEW s \in Seq(S), NEW k \in Nat, Numbered(s, k), NEW x \in S,
           x = k + Len(s) + 1
    PROVE  /\ Append(s, x) \in Seq(S)
           /\ Len(Append(s, x)) = Len(s) + 1
           /\ Numbered(Append(s, x), k)
BY DEF Numbered

\* Taking the first of numbered functions.
LEMMA NumberedTail ==
    ASSUME NEW S, NEW s \in Seq(S), NEW k \in Nat, Numbered(s, k), s # <<>>
    PROVE  /\ Head(s) = k + 1 /\ Head(s) \in S
           /\ Tail(s) \in Seq(S)
           /\ Len(s) \in Nat \ {0} /\ Len(Tail(s)) = Len(s) - 1
           /\ Numbered(Tail(s), k + 1)
<1>1. /\ Head(s) = s[1] /\ Head(s) \in S
      /\ Tail(s) \in Seq(S)
      /\ Len(s) \in Nat \ {0} /\ Len(Tail(s)) = Len(s) - 1
      /\ \A i \in 1 .. Len(Tail(s)) : Tail(s)[i] = s[i + 1]
  OBVIOUS
<1>2. QED
  BY <1>1 DEF Numbered

\* A step of the blockthread keeps its invariant.
LEMMA BlockStep ==
    ASSUME BlockInv, Block
    PROVE  BlockInv'
<1>0. /\ MaxFuncs \in Nat /\ BlockTypeOK /\ BlockOrder /\ BlockPermits
      /\ Len(ran) \in Nat /\ Len(queue) \in Nat /\ Taken \in {0, 1}
      /\ Len(ran) + Taken \in Nat
      /\ stop' \in BOOLEAN
  <2>1. /\ MaxFuncs \in Nat /\ BlockTypeOK /\ BlockOrder /\ BlockPermits
        /\ Len(ran) \in Nat /\ Len(queue) \in Nat /\ Taken \in {0, 1}
        /\ Len(ran) + Taken \in Nat
    BY BlockThreadAssumption DEF BlockInv, BlockTypeOK, Taken
  <2>2. stop' \in BOOLEAN
    BY DEF BlockInv, BlockTypeOK, Block, Queue, Stop, Look, Run, Acquire
  <2>3. QED
    BY <2>1, <2>2
<1>1. CASE Queue
  <2>1. count + 1 \in 1 .. MaxFuncs /\ count + 1 = (Len(ran) + Taken) + Len(queue) + 1
    BY <1>0, <1>1 DEF Queue, BlockTypeOK, BlockOrder
  <2>2. /\ queue' \in Seq(1 .. MaxFuncs)
        /\ Len(queue') = Len(queue) + 1
        /\ Numbered(queue', Len(ran) + Taken)
    <3>1. queue \in Seq(1 .. MaxFuncs) /\ Numbered(queue, Len(ran) + Taken)
      BY <1>0 DEF BlockTypeOK, BlockOrder
    <3>2. queue' = Append(queue, count + 1)
      BY <1>1 DEF Queue
    <3>3. QED
      BY <1>0, <2>1, <3>1, <3>2, NumberedAppend
  <2>3. Taken' = Taken /\ Numbered(ran', 0) /\ Numbered(queue', Len(ran') + Taken')
    BY <1>0, <1>1, <2>2 DEF Queue, BlockOrder, Taken
  <2>4. BlockTypeOK'
    BY <1>0, <1>1, <2>1, <2>2 DEF Queue, BlockTypeOK, BlockPermits
  <2>5. BlockOrder'
    BY <1>0, <1>1, <2>2, <2>3 DEF Queue, BlockTypeOK, BlockOrder
  <2>6. BlockPermits'
    BY <1>0, <1>1, <2>2 DEF Queue, BlockTypeOK, BlockPermits
  <2>7. QED
    BY <2>4, <2>5, <2>6 DEF BlockInv
<1>2. CASE Stop
  BY <1>0, <1>2 DEF Stop, Open, BlockInv, BlockTypeOK, BlockOrder, BlockPermits, Taken
<1>3. CASE Look
  <2>1. CASE stop \/ queue = <<>>
    <3>1. /\ worker' \in {"acquire", "ended"} /\ func' = 0
          /\ worker' = "acquire" => ~stop /\ queue = <<>>
          /\ UNCHANGED <<queue, count, stop, permits, ran>>
          /\ worker = "look"
      BY <1>3, <2>1 DEF Look
    <3>2. Taken = 0 /\ Taken' = 0
      BY <3>1 DEF Taken
    <3>3. BlockTypeOK'
      BY <1>0, <3>1 DEF BlockTypeOK
    <3>4. BlockOrder'
      BY <1>0, <3>1, <3>2 DEF BlockTypeOK, BlockOrder
    <3>5. BlockPermits'
      BY <1>0, <3>1 DEF BlockTypeOK, BlockPermits
    <3>6. QED
      BY <3>3, <3>4, <3>5 DEF BlockInv
  <2>2. CASE ~stop /\ queue # <<>>
    <3>1. queue \in Seq(1 .. MaxFuncs) /\ Numbered(queue, Len(ran)) /\ Taken = 0
      BY <1>0, <1>3 DEF Look, BlockTypeOK, BlockOrder, Taken
    <3>2. /\ Head(queue) = Len(ran) + 1 /\ Head(queue) \in 1 .. MaxFuncs
          /\ Tail(queue) \in Seq(1 .. MaxFuncs)
          /\ Len(queue) \in Nat \ {0} /\ Len(Tail(queue)) = Len(queue) - 1
          /\ Numbered(Tail(queue), Len(ran) + 1)
      BY <1>0, <2>2, <3>1, NumberedTail
    <3>3. /\ queue' = Tail(queue) /\ func' = Head(queue) /\ worker' = "run"
          /\ UNCHANGED <<count, stop, permits, ran>>
          /\ worker = "look"
      BY <1>3, <2>2 DEF Look
    <3>4. Taken' = 1 /\ Numbered(ran', 0) /\ Numbered(queue', Len(ran') + Taken')
      BY <1>0, <3>2, <3>3 DEF BlockOrder, Taken
    <3>5. BlockTypeOK'
      BY <1>0, <3>2, <3>3 DEF BlockTypeOK
    <3>6. BlockOrder'
      <4>1. Len(ran) + 0 + Len(queue) = count
        BY <1>0, <3>1 DEF BlockOrder
      <4>2. Len(ran') + Taken' + Len(queue') = count'
        BY <1>0, <3>2, <3>3, <3>4, <4>1
      <4>3. func' = Len(ran') + 1
        BY <3>2, <3>3
      <4>4. QED
        BY <3>4, <4>2, <4>3 DEF BlockOrder
    <3>7. BlockPermits'
      BY <1>0, <2>2, <3>2, <3>3 DEF BlockTypeOK, BlockPermits
    <3>8. QED
      BY <3>5, <3>6, <3>7 DEF BlockInv
  <2>3. QED
    BY <2>1, <2>2
<1>4. CASE Run
  <2>1. func \in 1 .. MaxFuncs /\ func = 0 + Len(ran) + 1 /\ Taken = 1
    BY <1>0, <1>4 DEF Run, BlockTypeOK, BlockOrder, Taken
  <2>2. /\ ran' \in Seq(1 .. MaxFuncs)
        /\ Len(ran') = Len(ran) + 1
        /\ Numbered(ran', 0)
    <3>1. ran \in Seq(1 .. MaxFuncs) /\ Numbered(ran, 0) /\ ran' = Append(ran, func)
      BY <1>0, <1>4 DEF Run, BlockTypeOK, BlockOrder
    <3>2. QED
      BY <2>1, <3>1, NumberedAppend
  <2>3. QED
    BY <1>0, <1>4, <2>1, <2>2
       DEF Run, BlockInv, BlockTypeOK, BlockOrder, BlockPermits, Taken
<1>5. CASE Acquire
  BY <1>0, <1>5 DEF Acquire, BlockInv, BlockTypeOK, BlockOrder, BlockPermits, Taken
<1>6. QED
  BY <1>1, <1>2, <1>3, <1>4, <1>5 DEF Block

\* The block invariant holds in every state, whatever runs beside the worker.
THEOREM BlockInvariant == Spec => []BlockInv
<1>1. Init => BlockInv
  <2> SUFFICES ASSUME BlockInit
               PROVE  BlockInv
    BY DEF Init
  <2>1. stop \in BOOLEAN
    BY DEF BlockInit
  <2>2. QED
    BY <2>1, BlockThreadAssumption
       DEF BlockInit, BlockInv, BlockTypeOK, BlockOrder, BlockPermits, Taken, Numbered
<1>2. BlockInv /\ [Next]_vars => BlockInv'
  <2>1. ASSUME BlockInv, UNCHANGED blockVars
        PROVE  BlockInv'
    BY <2>1 DEF BlockInv, BlockTypeOK, BlockOrder, BlockPermits, Taken, blockVars
  <2>2. ASSUME [Next]_vars
        PROVE  Block \/ UNCHANGED blockVars
    BY <2>2 DEF Next, BlockNext, vars
  <2>3. QED
    BY <2>1, <2>2, BlockStep
<1>3. QED
  BY <1>1, <1>2, PTL DEF Spec

\* blockthread runs the functions in the order of Queue(), none twice and none
\* left out.
THEOREM RunsInOrderHolds == Spec => []RunsInOrder
<1>1. BlockInv => RunsInOrder
  BY DEF BlockInv, BlockTypeOK, BlockOrder, Taken, RunsInOrder
<1>2. QED
  BY <1>1, BlockInvariant, PTL

\* The worker of a blockthread does not wait in acquire() without a permit while
\* there is a function in the queue or after Stop().
THEOREM NoIdleWaitHolds == Spec => []NoIdleWait
<1>1. BlockInv => NoIdleWait
  BY DEF BlockInv, BlockTypeOK, BlockPermits, NoIdleWait
<1>2. QED
  BY <1>1, BlockInvariant, PTL

\* A step of the SyscallAsyncThread keeps its invariant.
LEMMA AsyncStep ==
    ASSUME AsyncInv, AsyncQueue \/ AsyncDestruct \/ AsyncWorks
    PROVE  AsyncInv'
<1>0. /\ MaxAsync \in Nat /\ AsyncTypeOK /\ AsyncOrder /\ AsyncPermitsInv
      /\ Len(asyncRan) \in Nat /\ Len(batch) \in Nat /\ Len(asyncQueue) \in Nat
      /\ asyncStop' \in BOOLEAN
  <2>1. /\ MaxAsync \in Nat /\ AsyncTypeOK /\ AsyncOrder /\ AsyncPermitsInv
        /\ Len(asyncRan) \in Nat /\ Len(batch) \in Nat /\ Len(asyncQueue) \in Nat
    BY AsyncAssumption DEF AsyncInv, AsyncTypeOK
  <2>2. asyncStop' \in BOOLEAN
    BY DEF AsyncInv, AsyncTypeOK, AsyncQueue, AsyncDestruct, AsyncWorks, AsyncAcquire,
           AsyncTake, AsyncRun
  <2>3. QED
    BY <2>1, <2>2
<1>1. CASE AsyncQueue
  <2>1. /\ asyncQueue' \in Seq(Nat)
        /\ Len(asyncQueue') = Len(asyncQueue) + 1
        /\ Numbered(asyncQueue', Len(asyncRan) + Len(batch))
    <3>1. /\ asyncQueue \in Seq(Nat) /\ Numbered(asyncQueue, Len(asyncRan) + Len(batch))
          /\ asyncCount + 1 = (Len(asyncRan) + Len(batch)) + Len(asyncQueue) + 1
          /\ asyncCount + 1 \in Nat /\ Len(asyncRan) + Len(batch) \in Nat
      <4>1. asyncQueue \in Seq(Nat) /\ Numbered(asyncQueue, Len(asyncRan) + Len(batch))
        BY <1>0 DEF AsyncTypeOK, AsyncOrder
      <4>2. /\ asyncCount \in Nat
            /\ asyncCount = Len(asyncRan) + Len(batch) + Len(asyncQueue)
        BY <1>0 DEF AsyncTypeOK, AsyncOrder
      <4>3. QED
        BY <1>0, <4>1, <4>2
    <3>2. asyncQueue' = Append(asyncQueue, asyncCount + 1)
      BY <1>1 DEF AsyncQueue
    <3>3. QED
      BY <3>1, <3>2, NumberedAppend
  <2>2. QED
    BY <1>0, <1>1, <2>1 DEF AsyncQueue, AsyncInv, AsyncTypeOK, AsyncOrder, AsyncPermitsInv
<1>2. CASE AsyncDestruct
  BY <1>0, <1>2 DEF AsyncDestruct, AsyncInv, AsyncTypeOK, AsyncOrder, AsyncPermitsInv
<1>3. CASE AsyncAcquire
  BY <1>0, <1>3 DEF AsyncAcquire, AsyncInv, AsyncTypeOK, AsyncOrder, AsyncPermitsInv
<1>4. CASE AsyncTake
  <2>1. /\ batch = <<>> /\ Len(batch) = 0
        /\ Numbered(asyncQueue, Len(asyncRan)) /\ Numbered(<<>>, Len(asyncRan) + Len(asyncQueue))
    BY <1>0, <1>4 DEF AsyncTake, AsyncTypeOK, AsyncOrder, Numbered
  <2>2. QED
    BY <1>0, <1>4, <2>1 DEF AsyncTake, AsyncInv, AsyncTypeOK, AsyncOrder, AsyncPermitsInv
<1>5. CASE AsyncRun
  <2>1. CASE batch = <<>>
    BY <1>0, <1>5, <2>1 DEF AsyncRun, AsyncInv, AsyncTypeOK, AsyncOrder, AsyncPermitsInv
  <2>2. CASE batch # <<>>
    <3>1. /\ Head(batch) = Len(asyncRan) + 1 /\ Head(batch) \in Nat
          /\ Tail(batch) \in Seq(Nat)
          /\ Len(batch) \in Nat \ {0} /\ Len(Tail(batch)) = Len(batch) - 1
          /\ Numbered(Tail(batch), Len(asyncRan) + 1)
      BY <1>0, <2>2, NumberedTail DEF AsyncTypeOK, AsyncOrder
    <3>2. /\ Append(asyncRan, Head(batch)) \in Seq(Nat)
          /\ Len(Append(asyncRan, Head(batch))) = Len(asyncRan) + 1
          /\ Numbered(Append(asyncRan, Head(batch)), 0)
      <4>1. /\ asyncRan \in Seq(Nat) /\ Numbered(asyncRan, 0) /\ Head(batch) \in Nat
            /\ Head(batch) = 0 + Len(asyncRan) + 1
        BY <1>0, <3>1 DEF AsyncTypeOK, AsyncOrder
      <4>2. QED
        BY <4>1, NumberedAppend
    <3>3. /\ asyncRan' = Append(asyncRan, Head(batch)) /\ batch' = Tail(batch)
          /\ asyncWorker = "run"
          /\ UNCHANGED <<asyncWorker, asyncQueue, asyncCount, asyncStop, asyncPermits>>
      BY <1>5, <2>2 DEF AsyncRun
    <3>4. Numbered(asyncQueue, (Len(asyncRan) + 1) + (Len(batch) - 1))
      <4>1. (Len(asyncRan) + 1) + (Len(batch) - 1) = Len(asyncRan) + Len(batch)
        BY <1>0, <3>1
      <4>2. QED
        BY <1>0, <4>1 DEF AsyncOrder
    <3>5. /\ Numbered(asyncRan', 0) /\ Numbered(batch', Len(asyncRan'))
          /\ Numbered(asyncQueue', Len(asyncRan') + Len(batch'))
      BY <3>1, <3>2, <3>3, <3>4
    <3>6. AsyncTypeOK' /\ AsyncPermitsInv'
      BY <1>0, <3>1, <3>2, <3>3 DEF AsyncTypeOK, AsyncPermitsInv
    <3>7. AsyncOrder'
      <4>1. Len(asyncRan') + Len(batch') + Len(asyncQueue') = asyncCount'
        BY <1>0, <3>1, <3>2, <3>3 DEF AsyncTypeOK, AsyncOrder
      <4>2. QED
        BY <3>3, <3>5, <4>1 DEF AsyncOrder
    <3>8. QED
      BY <3>6, <3>7 DEF AsyncInv
  <2>3. QED
    BY <2>1, <2>2
<1>6. QED
  BY <1>1, <1>2, <1>3, <1>4, <1>5 DEF AsyncWorks

\* The invariant of the SyscallAsyncThread holds in every state.
THEOREM AsyncInvariant == Spec => []AsyncInv
<1>1. Init => AsyncInv
  <2> SUFFICES ASSUME AsyncInit
               PROVE  AsyncInv
    BY DEF Init
  <2>0. asyncStop \in BOOLEAN
    BY DEF AsyncInit
  <2>1. AsyncTypeOK
    BY <2>0, AsyncAssumption DEF AsyncInit, AsyncTypeOK
  <2>2. AsyncOrder /\ AsyncPermitsInv
    BY DEF AsyncInit, AsyncOrder, AsyncPermitsInv, Numbered
  <2>3. QED
    BY <2>1, <2>2 DEF AsyncInv
<1>2. AsyncInv /\ [Next]_vars => AsyncInv'
  <2>1. ASSUME AsyncInv, UNCHANGED asyncVars
        PROVE  AsyncInv'
    BY <2>1 DEF AsyncInv, AsyncTypeOK, AsyncOrder, AsyncPermitsInv, asyncVars
  <2>2. ASSUME [Next]_vars
        PROVE  AsyncQueue \/ AsyncDestruct \/ AsyncWorks \/ UNCHANGED asyncVars
    BY <2>2 DEF Next, AsyncNext, vars
  <2>3. QED
    BY <2>1, <2>2, AsyncStep
<1>3. QED
  BY <1>1, <1>2, PTL DEF Spec

\* SyscallAsyncThread runs the functions in the order of Queue(), none twice
\* and none left out.
THEOREM AsyncRunsInOrderHolds == Spec => []AsyncRunsInOrder
<1>1. AsyncInv => AsyncRunsInOrder
  BY DEF AsyncInv, AsyncTypeOK, AsyncOrder, AsyncRunsInOrder
<1>2. QED
  BY <1>1, AsyncInvariant, PTL

\* The worker of a SyscallAsyncThread does not wait in acquire() without a permit
\* while there is a function in the queue.
THEOREM AsyncNoIdleWaitHolds == Spec => []AsyncNoIdleWait
<1>1. AsyncInv => AsyncNoIdleWait
  BY DEF AsyncInv, AsyncTypeOK, AsyncPermitsInv, AsyncNoIdleWait
<1>2. QED
  BY <1>1, AsyncInvariant, PTL

-----------------------------------------------------------------------------
(***************************************************************************)
(* Writing back.  Queues of blocks: what is left of the group that is      *)
(* being written, the first group of a list, and the versions that a queue *)
(* holds of an object.                                                     *)
(***************************************************************************)
Copied == {Bitmap, Groups}
ErrorBlock == DirtyBlock(Super, EXT2_ERROR_FS)
ValidBlock == DirtyBlock(Super, EXT2_VALID_FS)

Rest == SubSeq(sending, sent + 1, Len(sending))
Top(gs) == IF gs = <<>> THEN <<>> ELSE gs[1]
InGroups(gs, o) == \E k \in DOMAIN gs : o \in Objs(gs[k])
Versions(s, o) == {s[k].ver : k \in {j \in DOMAIN s : s[j].obj = o}}
NoCopies(s) == \A k \in DOMAIN s : s[k].obj \notin Copied \cup {Super}
Sorted(s) ==
    \A j, k \in DOMAIN s :
        j < k /\ s[j].obj \in Copied /\ s[j].obj = s[k].obj => s[j].ver <= s[k].ver
Older(s, t) == \A o \in Copied : \A v \in Versions(s, o), w \in Versions(t, o) : v <= w
Recent(s) == \A o \in Copied : \A v \in Versions(s, o) : disk[o] <= v /\ v <= mem[o]

\* The objects are different, and a block is an object with a version.
LEMMA Objects ==
    /\ \A i, j \in Inode : Data(i) # Meta(j) /\ (Data(i) = Data(j) => i = j)
                           /\ (Meta(i) = Meta(j) => i = j)
    /\ \A i \in Inode : /\ Data(i) \notin Copied \cup {Super} /\ Meta(i) \notin Copied \cup {Super}
                        /\ Data(i) \in Content /\ Meta(i) \in Content
    /\ Bitmap \in Content /\ Groups \in Content /\ Super \notin Content /\ Bitmap # Groups
    /\ \A o \in Content : o \in Copied \/ \E i \in Inode : o = Data(i) \/ o = Meta(i)
BY DEF Content, Data, Meta, Bitmap, Groups, Super, Copied

\* Blocks and their fields.
LEMMA BlockFields ==
    /\ \A o \in Content \cup {Super}, v \in Nat :
          DirtyBlock(o, v) \in Blocks /\ DirtyBlock(o, v).obj = o /\ DirtyBlock(o, v).ver = v
    /\ \A b \in Blocks : b.obj \in Content \cup {Super} /\ b.ver \in Nat
BY DEF DirtyBlock, Blocks

\* Every inode of a set has its place in the list of the set.
LEMMA NthPlace ==
    ASSUME NEW S \in SUBSET Inode
    PROVE  /\ Cardinality(S) \in Nat
           /\ \A k \in 1 .. Cardinality(S) : Nth(S, k) \in S
           /\ \A i \in S : \E k \in 1 .. Cardinality(S) : Nth(S, k) = i
<1> DEFINE upto(i) == {j \in S : j <= i}
           rank == [i \in S |-> Cardinality(upto(i))]
           n == Cardinality(S)
<1>1. IsFiniteSet(Inode)
  BY FS_Interval, WriteBackAssumption DEF Inode
<1>2. IsFiniteSet(S) /\ n \in Nat
  BY <1>1, FS_Subset, FS_CardinalityType
<1>3. \A i \in S : IsFiniteSet(upto(i)) /\ Cardinality(upto(i)) \in Nat /\ Cardinality(upto(i)) <= n
  <2>1. \A i \in S : upto(i) \in SUBSET S
    OBVIOUS
  <2>2. QED
    BY <1>2, <2>1, FS_Subset, FS_CardinalityType
<1>4. \A i \in S : Cardinality(upto(i)) # 0
  <2>1. \A i \in S : i \in upto(i)
    BY DEF Inode
  <2>2. QED
    BY <1>3, <2>1, FS_EmptySet
<1>5. rank \in [S -> 1 .. n]
  BY <1>2, <1>3, <1>4
<1>6. ASSUME NEW i \in S, NEW j \in S, i < j PROVE rank[i] # rank[j]
  <2>1. upto(i) \in SUBSET upto(j) /\ j \in upto(j) /\ j \notin upto(i)
    <3>1. S \subseteq Nat
      BY WriteBackAssumption DEF Inode
    <3>2. \A x \in S : x <= i => x <= j
      BY <1>6, <3>1
    <3>3. j <= j /\ ~(j <= i)
      BY <1>6, <3>1
    <3>4. QED
      BY <3>2, <3>3
  <2>2. Cardinality(upto(i)) # Cardinality(upto(j))
    BY <1>3, <2>1, FS_Subset
  <2>3. QED
    BY <2>2
<1>7. rank \in Injection(S, 1 .. n)
  <2>1. \A i, j \in S : rank[i] = rank[j] => i = j
    <3>1. \A i, j \in S : i < j \/ j < i \/ i = j
      BY DEF Inode
    <3>2. QED
      BY <1>6, <3>1
  <2>2. QED
    BY <1>5, <2>1 DEF Injection, IsInjective
<1>8. IsFiniteSet(1 .. n) /\ Cardinality(1 .. n) = n
  <2>1. IsFiniteSet(1 .. n) /\ Cardinality(1 .. n) = IF 1 > n THEN 0 ELSE n - 1 + 1
    BY <1>2, FS_Interval
  <2>2. QED
    BY <1>2, <2>1
<1>9. rank \in Surjection(S, 1 .. n)
  BY <1>7, <1>8, FS_Injection
<1>10. \A k \in 1 .. n : \E i \in S : rank[i] = k
  BY <1>9 DEF Surjection
<1>11. \A i \in S : rank[i] = Cardinality({j \in S : j <= i})
  OBVIOUS
<1>12. \A k \in 1 .. n : Nth(S, k) \in S /\ rank[Nth(S, k)] = k
  BY <1>10, <1>11 DEF Nth
<1>13. \A i \in S : Nth(S, rank[i]) = i
  <2>1. \A i \in S : rank[i] \in 1 .. n
    BY <1>5
  <2>2. \A i, j \in S : rank[i] = rank[j] => i = j
    BY <1>7 DEF Injection, IsInjective
  <2>3. QED
    BY <1>12, <2>1, <2>2
<1>14. QED
  BY <1>2, <1>5, <1>12, <1>13

\* What BlocksOf() makes: a block for each of the inodes, and no copies.
LEMMA BlocksOfInodes ==
    ASSUME NEW datas \in SUBSET Inode, NEW metas \in SUBSET Inode
    PROVE  /\ BlocksOf(datas, metas) \in Seq(Blocks)
           /\ Objs(BlocksOf(datas, metas))
                 = {Data(i) : i \in datas} \cup {Meta(i) : i \in metas \ datas}
           /\ NoCopies(BlocksOf(datas, metas))
<1> DEFINE S == datas \cup metas
           n == Cardinality(S)
           InodeBlock(i) == DirtyBlock(IF i \in datas THEN Data(i) ELSE Meta(i), 0)
<1>1. /\ n \in Nat /\ \A k \in 1 .. n : Nth(S, k) \in S
      /\ \A i \in S : \E k \in 1 .. n : Nth(S, k) = i
  BY NthPlace, Zenon
<1>2. BlocksOf(datas, metas) = [k \in 1 .. n |-> InodeBlock(Nth(S, k))]
  BY DEF BlocksOf
<1>3. \A i \in S : /\ InodeBlock(i) \in Blocks
                   /\ InodeBlock(i).obj = IF i \in datas THEN Data(i) ELSE Meta(i)
  BY Objects, BlockFields
<1> DEFINE s == BlocksOf(datas, metas)
<1> HIDE DEF InodeBlock, S, n
<1>4. s \in Seq(Blocks) /\ DOMAIN s = 1 .. n
  BY <1>1, <1>2, <1>3
<1>5. \A k \in 1 .. n : s[k].obj = IF Nth(S, k) \in datas THEN Data(Nth(S, k)) ELSE Meta(Nth(S, k))
  BY <1>1, <1>2, <1>3
<1>6. Objs(s) = {Data(i) : i \in datas} \cup {Meta(i) : i \in metas \ datas}
  <2>1. ASSUME NEW o \in Objs(s) PROVE o \in {Data(i) : i \in datas} \cup {Meta(i) : i \in metas \ datas}
    BY <1>1, <1>4, <1>5 DEF Objs, S
  <2>2. ASSUME NEW i \in S PROVE (IF i \in datas THEN Data(i) ELSE Meta(i)) \in Objs(s)
    <3>1. PICK k \in 1 .. n : Nth(S, k) = i
      BY <1>1
    <3>2. QED
      BY <1>4, <1>5, <3>1 DEF Objs
  <2>3. QED
    BY <2>1, <2>2 DEF S
<1>7. NoCopies(s)
  <2>1. S \subseteq Inode
    BY DEF S
  <2>2. QED
    BY <1>1, <1>4, <1>5, <2>1, Objects DEF NoCopies
<1>8. QED
  BY <1>4, <1>6, <1>7

\* A queue with nothing, or with one block.
LEMMA ShortQueues ==
    /\ Objs(<<>>) = {} /\ NoCopies(<<>>) /\ Sorted(<<>>)
    /\ \A o : Versions(<<>>, o) = {}
    /\ \A b \in Blocks : /\ <<b>> \in Seq(Blocks) /\ Objs(<<b>>) = {b.obj} /\ Sorted(<<b>>)
                         /\ \A o : Versions(<<b>>, o) = IF b.obj = o THEN {b.ver} ELSE {}
BY DEF Objs, NoCopies, Sorted, Versions

\* A queue behind another.
LEMMA JoinedQueues ==
    ASSUME NEW s \in Seq(Blocks), NEW t \in Seq(Blocks)
    PROVE  /\ s \o t \in Seq(Blocks)
           /\ Objs(s \o t) = Objs(s) \cup Objs(t)
           /\ \A o : Versions(s \o t, o) = Versions(s, o) \cup Versions(t, o)
           /\ Sorted(s) /\ Sorted(t) /\ Older(s, t) => Sorted(s \o t)
           /\ NoCopies(s) /\ NoCopies(t) => NoCopies(s \o t)
<1> DEFINE u == s \o t
<1>1. /\ u \in Seq(Blocks) /\ DOMAIN u = 1 .. Len(s) + Len(t)
      /\ DOMAIN s = 1 .. Len(s) /\ DOMAIN t = 1 .. Len(t) /\ Len(s) \in Nat /\ Len(t) \in Nat
  OBVIOUS
<1>2. /\ \A k \in DOMAIN s : k \in DOMAIN u /\ u[k] = s[k]
      /\ \A k \in DOMAIN t : k + Len(s) \in DOMAIN u /\ u[k + Len(s)] = t[k]
  OBVIOUS
<1>3. \A k \in DOMAIN u : \/ k \in DOMAIN s /\ u[k] = s[k]
                          \/ k > Len(s) /\ k - Len(s) \in DOMAIN t /\ u[k] = t[k - Len(s)]
  OBVIOUS
<1> HIDE DEF u
<1>4. Objs(u) = Objs(s) \cup Objs(t)
  BY <1>2, <1>3 DEF Objs
<1>5. \A o : Versions(u, o) = Versions(s, o) \cup Versions(t, o)
  BY <1>2, <1>3 DEF Versions
<1>6. ASSUME Sorted(s), Sorted(t), Older(s, t) PROVE Sorted(u)
  <2>1. SUFFICES ASSUME NEW j \in DOMAIN u, NEW k \in DOMAIN u,
                        j < k, u[j].obj \in Copied, u[j].obj = u[k].obj
                 PROVE  u[j].ver <= u[k].ver
    BY DEF Sorted
  <2>2. CASE k \in DOMAIN s /\ u[k] = s[k]
    <3>1. j \in DOMAIN s /\ u[j] = s[j]
      BY <1>1, <1>2, <2>1, <2>2
    <3>2. QED
      BY <1>6, <2>1, <2>2, <3>1 DEF Sorted
  <2>3. CASE k > Len(s) /\ k - Len(s) \in DOMAIN t /\ u[k] = t[k - Len(s)]
    <3>1. CASE j \in DOMAIN s /\ u[j] = s[j]
      <4>1. u[j].ver \in Versions(s, u[j].obj) /\ u[k].ver \in Versions(t, u[j].obj)
        BY <2>1, <2>3, <3>1 DEF Versions
      <4>2. QED
        BY <1>6, <2>1, <4>1 DEF Older
    <3>2. CASE j > Len(s) /\ j - Len(s) \in DOMAIN t /\ u[j] = t[j - Len(s)]
      <4>1. j - Len(s) < k - Len(s)
        BY <1>1, <2>1, <2>3, <3>2
      <4>2. QED
        BY <1>6, <2>1, <2>3, <3>2, <4>1 DEF Sorted
    <3>3. QED
      BY <1>3, <3>1, <3>2
  <2>4. QED
    BY <1>3, <2>2, <2>3
<1>7. NoCopies(s) /\ NoCopies(t) => NoCopies(u)
  BY <1>3 DEF NoCopies
<1>8. QED
  BY <1>1, <1>4, <1>5, <1>6, <1>7 DEF u

\* The first block of a queue and the others.
LEMMA FirstBlock ==
    ASSUME NEW s \in Seq(Blocks), s # <<>>
    PROVE  /\ Head(s) \in Blocks /\ Tail(s) \in Seq(Blocks) /\ Len(s) \in Nat \ {0}
           /\ Head(s) = s[1] /\ 1 \in DOMAIN s
           /\ Objs(s) = {Head(s).obj} \cup Objs(Tail(s))
           /\ \A o : Versions(s, o)
                       = Versions(Tail(s), o) \cup (IF Head(s).obj = o THEN {Head(s).ver} ELSE {})
           /\ Sorted(s) => /\ Sorted(Tail(s))
                           /\ Head(s).obj \in Copied =>
                                \A v \in Versions(Tail(s), Head(s).obj) : Head(s).ver <= v
<1> DEFINE t == Tail(s)
<1>1. /\ Head(s) \in Blocks /\ t \in Seq(Blocks) /\ Len(s) \in Nat \ {0} /\ Head(s) = s[1]
      /\ 1 \in DOMAIN s /\ DOMAIN s = 1 .. Len(s) /\ DOMAIN t = 1 .. Len(s) - 1
  OBVIOUS
<1>2. \A k \in DOMAIN t : k + 1 \in DOMAIN s /\ t[k] = s[k + 1]
  OBVIOUS
<1>3. \A k \in DOMAIN s : k = 1 \/ (k - 1 \in DOMAIN t /\ s[k] = t[k - 1])
  OBVIOUS
<1> HIDE DEF t
<1>4. Objs(s) = {Head(s).obj} \cup Objs(t)
  BY <1>1, <1>2, <1>3 DEF Objs
<1>5. \A o : Versions(s, o) = Versions(t, o) \cup (IF Head(s).obj = o THEN {Head(s).ver} ELSE {})
  BY <1>1, <1>2, <1>3 DEF Versions
<1>6. ASSUME Sorted(s) PROVE Sorted(t)
  BY <1>1, <1>2, <1>6 DEF Sorted
<1>7. ASSUME Sorted(s), Head(s).obj \in Copied, NEW v \in Versions(t, Head(s).obj)
      PROVE  Head(s).ver <= v
  <2>1. PICK k \in DOMAIN t : t[k].obj = Head(s).obj /\ v = t[k].ver
    BY DEF Versions
  <2>2. 1 < k + 1 /\ k + 1 \in DOMAIN s /\ s[k + 1] = t[k]
    BY <1>1, <1>2
  <2>3. QED
    BY <1>1, <1>7, <2>1, <2>2 DEF Sorted
<1>8. QED
  BY <1>1, <1>4, <1>5, <1>6, <1>7 DEF t

\* A set of places has a first one.
LEMMA FirstPlace ==
    ASSUME NEW S \in SUBSET Nat, S # {}
    PROVE  \E k \in S : \A j \in S : k <= j
<1>1. PICK k \in S : \A j \in S : ~(<<j, k>> \in OpToRel(<, Nat))
  BY NatLessThanWellFounded, WFMin
<1>2. \A j \in S : ~(j < k)
  BY <1>1 DEF OpToRel
<1>3. QED
  BY <1>2

\* What a list leaves behind its first n entries.
LEMMA Suffix ==
    ASSUME NEW S, NEW s \in Seq(S), NEW n \in 0 .. Len(s)
    PROVE  /\ SubSeq(s, n + 1, Len(s)) \in Seq(S)
           /\ Len(SubSeq(s, n + 1, Len(s))) = Len(s) - n
           /\ DOMAIN SubSeq(s, n + 1, Len(s)) = 1 .. Len(s) - n
           /\ \A k \in 1 .. Len(s) - n :
                k + n \in 1 .. Len(s) /\ SubSeq(s, n + 1, Len(s))[k] = s[k + n]
<1> DEFINE r == SubSeq(s, n + 1, Len(s))
<1>1. Len(s) \in Nat /\ n \in Nat /\ n + 1 \in Int /\ Len(s) \in Int
  OBVIOUS
<1>2. \A i \in n + 1 .. Len(s) : s[i] \in S
  BY <1>1
<1>3. /\ r \in Seq(S) /\ Len(r) = IF n + 1 <= Len(s) THEN Len(s) - (n + 1) + 1 ELSE 0
      /\ \A i \in 1 .. Len(s) - (n + 1) + 1 : r[i] = s[n + 1 + i - 1]
  BY <1>1, <1>2, SubSeqProperties
<1>4. Len(r) = Len(s) - n
  BY <1>1, <1>3
<1>5. \A k \in 1 .. Len(s) - n :
        /\ k + n \in 1 .. Len(s) /\ n + 1 + k - 1 = k + n
        /\ k \in 1 .. Len(s) - (n + 1) + 1
  BY <1>1
<1>6. QED
  BY <1>3, <1>4, <1>5

\* Two lists of groups that are merged.
LEMMA MergedGroups ==
    ASSUME NEW a \in Seq(Seq(Blocks)), NEW b \in Seq(Seq(Blocks))
    PROVE  /\ Merged(a, b) \in Seq(Seq(Blocks))
           /\ Top(Merged(a, b)) = Top(a) \o Top(b)
           /\ a # <<>> => Merged(a, b) # <<>>
           /\ \A o : InGroups(Merged(a, b), o) <=> InGroups(a, o) \/ InGroups(b, o)
           /\ \A k \in DOMAIN Merged(a, b) :
                k > 1 /\ (k \in DOMAIN a => NoCopies(a[k])) /\ (k \in DOMAIN b => NoCopies(b[k]))
                  => NoCopies(Merged(a, b)[k])
<1> DEFINE len == IF Len(a) > Len(b) THEN Len(a) ELSE Len(b)
           Group(s, k) == IF k <= Len(s) THEN s[k] ELSE <<>>
           m == Merged(a, b)
<1>1. m = [k \in 1 .. len |-> Group(a, k) \o Group(b, k)]
  BY DEF Merged
<1>2. /\ len \in Nat /\ Len(a) \in Nat /\ Len(b) \in Nat
      /\ DOMAIN a = 1 .. Len(a) /\ DOMAIN b = 1 .. Len(b)
      /\ 1 .. Len(a) \subseteq 1 .. len /\ 1 .. Len(b) \subseteq 1 .. len
      /\ (len = 0 <=> a = <<>> /\ b = <<>>)
  OBVIOUS
<1>3. \A k \in 1 .. len : Group(a, k) \in Seq(Blocks) /\ Group(b, k) \in Seq(Blocks)
  <2>1. ASSUME NEW k \in 1 .. len PROVE Group(a, k) \in Seq(Blocks) /\ Group(b, k) \in Seq(Blocks)
    <3>1. k <= Len(a) => a[k] \in Seq(Blocks)
      BY <1>2
    <3>2. k <= Len(b) => b[k] \in Seq(Blocks)
      BY <1>2
    <3>3. <<>> \in Seq(Blocks)
      OBVIOUS
    <3>4. QED
      BY <3>1, <3>2, <3>3
  <2>2. QED
    BY <2>1
<1>4. \A k \in 1 .. len : /\ k \in DOMAIN a => Group(a, k) = a[k]
                          /\ k \notin DOMAIN a => Group(a, k) = <<>>
                          /\ k \in DOMAIN b => Group(b, k) = b[k]
                          /\ k \notin DOMAIN b => Group(b, k) = <<>>
  BY <1>2
<1> HIDE DEF Group, len
<1>5. \A k \in 1 .. len : m[k] = Group(a, k) \o Group(b, k) /\ m[k] \in Seq(Blocks)
  <2>1. ASSUME NEW k \in 1 .. len
        PROVE  m[k] = Group(a, k) \o Group(b, k) /\ m[k] \in Seq(Blocks)
    <3>1. m[k] = Group(a, k) \o Group(b, k)
      BY <1>1
    <3>2. Group(a, k) \o Group(b, k) \in Seq(Blocks)
      BY <1>3, JoinedQueues
    <3>3. QED
      BY <3>1, <3>2
  <2>2. QED
    BY <2>1
<1>6. DOMAIN m = 1 .. len
  BY <1>1
<1>7. m \in Seq(Seq(Blocks))
  BY <1>1, <1>2, <1>5
<1> HIDE DEF m
<1>8. a # <<>> => m # <<>>
  BY <1>2, <1>6
<1>9. Top(m) = Top(a) \o Top(b)
  <2>1. CASE len = 0
    BY <1>2, <1>6, <1>7, <2>1 DEF Top
  <2>2. CASE len # 0
    <3>1. 1 \in 1 .. len
      BY <1>2, <2>2
    <3>2. Top(m) = m[1]
      <4>1. m # <<>>
        BY <1>2, <1>6, <1>7, <2>2
      <4>2. QED
        BY <4>1 DEF Top
    <3>3. Group(a, 1) = Top(a) /\ Group(b, 1) = Top(b)
      BY <1>2, <1>4, <3>1 DEF Top
    <3>4. QED
      BY <1>5, <3>1, <3>2, <3>3
  <2>3. QED
    BY <2>1, <2>2
<1>10. \A k \in 1 .. len : Objs(m[k]) = Objs(Group(a, k)) \cup Objs(Group(b, k))
  BY <1>3, <1>5, JoinedQueues
<1>11. ASSUME NEW o PROVE InGroups(m, o) <=> InGroups(a, o) \/ InGroups(b, o)
  <2>1. ASSUME InGroups(m, o) PROVE InGroups(a, o) \/ InGroups(b, o)
    BY <1>4, <1>6, <1>10, <2>1, ShortQueues DEF InGroups
  <2>2. ASSUME InGroups(a, o) \/ InGroups(b, o) PROVE InGroups(m, o)
    BY <1>2, <1>4, <1>6, <1>10, <2>2 DEF InGroups
  <2>3. QED
    BY <2>1, <2>2
<1>12. ASSUME NEW k \in 1 .. len, k \in DOMAIN a => NoCopies(a[k]), k \in DOMAIN b => NoCopies(b[k])
       PROVE  NoCopies(m[k])
  <2>1. NoCopies(Group(a, k)) /\ NoCopies(Group(b, k))
    BY <1>4, <1>12, ShortQueues
  <2>2. QED
    BY <1>3, <1>5, <2>1, JoinedQueues
<1>13. QED
  BY <1>6, <1>7, <1>8, <1>9, <1>11, <1>12 DEF m

\* The group that the submitter takes, the first that is not empty or, if
\* there is none, the last.
LEMMA FirstFull ==
    ASSUME NEW gs \in Seq(Seq(Blocks)), gs # <<>>, NEW full,
           full = {k \in DOMAIN gs : gs[k] # <<>>}
    PROVE  \E n \in DOMAIN gs :
             /\ n = IF full = {} THEN Len(gs) ELSE CHOOSE k \in full : \A j \in full : k <= j
             /\ \A k \in DOMAIN gs : k < n => gs[k] = <<>>
<1>1. DOMAIN gs = 1 .. Len(gs) /\ Len(gs) \in Nat \ {0} /\ full \in SUBSET Nat
  OBVIOUS
<1>2. CASE full = {}
  <2>1. Len(gs) \in DOMAIN gs /\ \A k \in DOMAIN gs : gs[k] = <<>>
    BY <1>1, <1>2
  <2>2. QED
    BY <1>2, <2>1
<1>3. CASE full # {}
  <2> DEFINE n == CHOOSE k \in full : \A j \in full : k <= j
  <2>1. \E k \in full : \A j \in full : k <= j
    BY <1>1, <1>3, FirstPlace
  <2>2. n \in full /\ \A j \in full : n <= j
    BY <2>1
  <2> HIDE DEF n
  <2>3. n \in DOMAIN gs
    BY <2>2
  <2>4. \A k \in DOMAIN gs : k < n => k \notin full
    BY <1>1, <2>2, <2>3
  <2>5. \A k \in DOMAIN gs : k < n => gs[k] = <<>>
    BY <2>4
  <2>6. n = IF full = {} THEN Len(gs) ELSE CHOOSE k \in full : \A j \in full : k <= j
    BY <1>3 DEF n
  <2>7. QED
    BY <2>3, <2>5, <2>6
<1>4. QED
  BY <1>2, <1>3

\* What is left of a list of groups behind the nth.
Behind(gs, n) == SubSeq(gs, n + 1, Len(gs))

\* What stays on a list of groups when those up to group n are taken off.
LEMMA TakenGroup ==
    ASSUME NEW gs \in Seq(Seq(Blocks)), NEW n \in DOMAIN gs
    PROVE  /\ gs[n] \in Seq(Blocks) /\ Behind(gs, n) \in Seq(Seq(Blocks))
           /\ \A k \in DOMAIN Behind(gs, n) :
                k + n \in DOMAIN gs /\ k + n > 1 /\ Behind(gs, n)[k] = gs[k + n]
           /\ \A k \in DOMAIN gs : k > n =>
                k - n \in DOMAIN Behind(gs, n) /\ Behind(gs, n)[k - n] = gs[k]
<1> DEFINE rest == Behind(gs, n)
<1>1. DOMAIN gs = 1 .. Len(gs) /\ Len(gs) \in Nat
  OBVIOUS
<1>2. n \in 0 .. Len(gs) /\ n > 0 /\ n \in Nat
  BY <1>1
<1>3. /\ rest \in Seq(Seq(Blocks)) /\ DOMAIN rest = 1 .. Len(gs) - n
      /\ \A k \in 1 .. Len(gs) - n : k + n \in 1 .. Len(gs) /\ rest[k] = gs[k + n]
  BY <1>2, Suffix DEF Behind
<1> HIDE DEF rest
<1>4. \A k \in 1 .. Len(gs) : k > n => k - n \in 1 .. Len(gs) - n /\ (k - n) + n = k
  BY <1>1, <1>2
<1>5. \A k \in 1 .. Len(gs) - n : k + n > 1
  BY <1>1, <1>2
<1>6. \A k \in DOMAIN gs : k > n => k - n \in DOMAIN rest /\ rest[k - n] = gs[k]
  BY <1>1, <1>3, <1>4
<1>7. gs[n] \in Seq(Blocks)
  OBVIOUS
<1>8. QED
  BY <1>1, <1>3, <1>5, <1>6, <1>7 DEF rest

\* A list of groups to whose first one blocks are added.
LEMMA PushedGroup ==
    ASSUME NEW gs \in Seq(Seq(Blocks)), gs # <<>>, NEW s \in Seq(Blocks)
    PROVE  LET new == [gs EXCEPT ![1] = @ \o s]
           IN  /\ new \in Seq(Seq(Blocks)) /\ new # <<>> /\ DOMAIN new = DOMAIN gs
               /\ Top(new) = Top(gs) \o s
               /\ \A o : InGroups(new, o) <=> InGroups(gs, o) \/ o \in Objs(s)
               /\ \A k \in DOMAIN gs : k > 1 => new[k] = gs[k]
<1> DEFINE new == [gs EXCEPT ![1] = @ \o s]
<1>1. 1 \in DOMAIN gs /\ gs[1] \in Seq(Blocks) /\ Top(gs) = gs[1]
  BY DEF Top
<1>2. gs[1] \o s \in Seq(Blocks) /\ Objs(gs[1] \o s) = Objs(gs[1]) \cup Objs(s)
  BY <1>1, JoinedQueues
<1>3. /\ new \in Seq(Seq(Blocks)) /\ DOMAIN new = DOMAIN gs /\ new[1] = gs[1] \o s
      /\ \A k \in DOMAIN gs : k # 1 => new[k] = gs[k]
  BY <1>1, <1>2
<1>4. new # <<>>
  BY <1>1, <1>3
<1> HIDE DEF new
<1>5. Top(new) = Top(gs) \o s
  BY <1>1, <1>3, <1>4 DEF Top
<1>6. \A o : InGroups(new, o) <=> InGroups(gs, o) \/ o \in Objs(s)
  BY <1>1, <1>2, <1>3 DEF InGroups
<1>7. \A k \in DOMAIN gs : k > 1 => new[k] = gs[k]
  BY <1>3
<1>8. QED
  BY <1>3, <1>4, <1>5, <1>6, <1>7 DEF new

\* Writing a block takes it off the rest of its group.
LEMMA RestStep ==
    ASSUME WbTypeOK, sending # <<>>, sent < Len(sending), SWrite
    PROVE  /\ Rest \in Seq(Blocks) /\ Rest # <<>> /\ Head(Rest) = sending[sent + 1]
           /\ Rest' = Tail(Rest)
<1>1. /\ sending \in Seq(Blocks) /\ Len(sending) \in Nat /\ sent \in 0 .. Len(sending)
      /\ DOMAIN sending = 1 .. Len(sending)
  BY DEF WbTypeOK
<1>2. Rest \in Seq(Blocks) /\ Len(Rest) = Len(sending) - sent
  BY <1>1, Suffix DEF Rest
<1>3. Rest # <<>>
  BY <1>1, <1>2
<1>4. Head(Rest) = sending[sent + 1]
  <2>1. sent + 1 \in 1 .. Len(sending) /\ Len(sending) \in sent + 1 .. Len(sending)
    BY <1>1
  <2>2. QED
    BY <1>1, <2>1, HeadTailOfSubSeq DEF Rest
<1>5. CASE sent + 1 = Len(sending)
  <2>1. sending' = <<>> /\ sent' = 0
    BY <1>5 DEF SWrite
  <2>2. Rest' = <<>>
    BY <2>1 DEF Rest
  <2>3. Tail(Rest) = <<>>
    BY <1>1, <1>2, <1>5
  <2>4. QED
    BY <1>2, <1>3, <1>4, <2>2, <2>3
<1>6. CASE sent + 1 # Len(sending)
  <2>1. sending' = sending /\ sent' = sent + 1
    BY <1>6 DEF SWrite
  <2>2. Rest' = SubSeq(sending, sent + 2, Len(sending))
    BY <1>1, <2>1 DEF Rest
  <2>3. SubSeq(sending, sent + 2, Len(sending)) = Tail(Rest)
    <3>1. sent + 1 \in 1 .. Len(sending) /\ Len(sending) \in sent + 1 .. Len(sending)
      BY <1>1
    <3>2. sent + 1 + 1 = sent + 2
      BY <1>1
    <3>3. QED
      BY <1>1, <3>1, <3>2, HeadTailOfSubSeq DEF Rest
  <2>4. QED
    BY <1>2, <1>3, <1>4, <2>2, <2>3
<1>7. QED
  BY <1>5, <1>6

\* The rest of a group of which nothing is written yet, or of no group.
LEMMA WholeRest ==
    ASSUME WbTypeOK
    PROVE  /\ Rest \in Seq(Blocks) /\ Objs(Rest) \subseteq Objs(sending)
           /\ sent = 0 => Rest = sending
<1>1. /\ sending \in Seq(Blocks) /\ Len(sending) \in Nat /\ sent \in 0 .. Len(sending)
      /\ DOMAIN sending = 1 .. Len(sending)
  BY DEF WbTypeOK
<1>2. /\ Rest \in Seq(Blocks) /\ DOMAIN Rest = 1 .. Len(sending) - sent
      /\ \A k \in 1 .. Len(sending) - sent :
            k + sent \in DOMAIN sending /\ Rest[k] = sending[k + sent]
  BY <1>1, Suffix DEF Rest
<1>3. Objs(Rest) \subseteq Objs(sending)
  BY <1>1, <1>2 DEF Objs
<1>4. sent = 0 => Rest = sending
  BY <1>1, SubSeqFull DEF Rest
<1>5. QED
  BY <1>2, <1>3, <1>4

-----------------------------------------------------------------------------
(***************************************************************************)
(* Where collector and submitter are while their locals and the lists hold *)
(* something.                                                              *)
(***************************************************************************)
CollectorAt ==
    /\ collected # <<>> => cAt = "append"
    /\ result # <<>> => cAt \in {"ref", "push"}
    /\ late # {} => cAt \in {"append", "ref"}
    /\ completed => cAt \in {"ref", "push", "finish"}
    /\ cAt = "finish" => completed
    /\ cAt \in {"ref", "push", "finish"} => phase = "flush"
    /\ phase \in {"finish", "done"} => cAt = "start"
    /\ cList # "none" => cAt = "push"
    /\ cList = "ok" => dirtyBlocks # <<>>
SubmitterAt ==
    /\ sending # <<>> => sent < Len(sending)
    /\ sending = <<>> => sent = 0
    /\ flushNow \in {<<>>, <<ErrorBlock>>}
    /\ flushNow # <<>> => sending = <<>>
    /\ phase = "none" => sending = <<>> /\ flushNow = <<>>

PlaceInv == WbTypeOK /\ CollectorAt /\ SubmitterAt

\* Users of the file system keep the types.
LEMMA UserTyped ==
    ASSUME WbTypeOK, NEW S \in SUBSET Content, Change(S), MarkDirty(S)
    PROVE  mem' \in [Content -> Nat] /\ dirty' \in SUBSET Content
BY DEF WbTypeOK, Change, MarkDirty

\* The copies of inodes have the type of the table.
LEMMA CopyTyped ==
    ASSUME WbTypeOK, NEW S \in SUBSET Inode, CopyInodes(S)
    PROVE  table' \in [Inode -> Nat] /\ late' \in SUBSET Inode
<1>1. \A i \in Inode : mem[Meta(i)] \in Nat /\ table[i] \in Nat
  BY Objects DEF WbTypeOK
<1>2. QED
  BY <1>1 DEF CopyInodes

\* What GetWrites() collects.
Datas == {i \in loaded : Data(i) \in dirty}
Metas == {i \in loaded : Meta(i) \in dirty}
FirstWrites == BlocksOf(Datas, Metas \ Datas) \o DirtyBitmap
SecondWrites == BlocksOf({}, Datas \cap Metas)

\* GetWrites() in terms of these.
LEMMA GetWritesStep ==
    ASSUME CGetWrites
    PROVE  /\ cAt = "get" /\ cAt' = "append"
           /\ collected' = IF SecondWrites # <<>> THEN <<FirstWrites, SecondWrites>>
                           ELSE IF FirstWrites # <<>> THEN <<FirstWrites>> ELSE <<>>
           /\ CopyInodes(Metas)
           /\ dirty' = dirty \ ({Data(i) : i \in Datas} \cup {Bitmap})
BY DEF CGetWrites, Datas, Metas, FirstWrites, SecondWrites

\* The copy of the bitmaps.
LEMMA BitmapCopy ==
    ASSUME WbTypeOK
    PROVE  /\ DirtyBitmap \in Seq(Blocks)
           /\ Objs(DirtyBitmap) = dirty \cap {Bitmap}
           /\ \A o : Versions(DirtyBitmap, o)
                       = IF o = Bitmap /\ Bitmap \in dirty THEN {mem[Bitmap]} ELSE {}
           /\ Sorted(DirtyBitmap)
<1>1. mem[Bitmap] \in Nat
  BY Objects DEF WbTypeOK
<1> DEFINE b == DirtyBlock(Bitmap, mem[Bitmap])
<1>2. b \in Blocks /\ b.obj = Bitmap /\ b.ver = mem[Bitmap]
  BY <1>1, BlockFields, Objects
<1> HIDE DEF b
<1>3. CASE Bitmap \in dirty
  <2>1. DirtyBitmap = <<b>>
    BY <1>3 DEF DirtyBitmap, b
  <2>2. /\ <<b>> \in Seq(Blocks) /\ Objs(<<b>>) = {Bitmap} /\ Sorted(<<b>>)
        /\ \A o : Versions(<<b>>, o) = IF Bitmap = o THEN {mem[Bitmap]} ELSE {}
    BY <1>2, ShortQueues
  <2>3. QED
    BY <1>3, <2>1, <2>2
<1>4. CASE Bitmap \notin dirty
  <2>1. DirtyBitmap = <<>> /\ <<>> \in Seq(Blocks)
    BY <1>4 DEF DirtyBitmap
  <2>2. QED
    BY <1>4, <2>1, ShortQueues
<1>5. QED
  BY <1>3, <1>4

\* The two groups of GetWrites(): data, inodes without dirty data and the
\* bitmaps; the inodes whose data goes first.
LEMMA WritesTyped ==
    ASSUME WbTypeOK
    PROVE  /\ Datas \in SUBSET Inode /\ Metas \in SUBSET Inode
           /\ FirstWrites \in Seq(Blocks) /\ SecondWrites \in Seq(Blocks)
           /\ Objs(FirstWrites) = {Data(i) : i \in Datas} \cup {Meta(i) : i \in Metas \ Datas}
                                    \cup (dirty \cap {Bitmap})
           /\ Objs(SecondWrites) = {Meta(i) : i \in Datas \cap Metas}
           /\ \A o \in Copied : Versions(FirstWrites, o)
                       = IF o = Bitmap /\ Bitmap \in dirty THEN {mem[Bitmap]} ELSE {}
           /\ Sorted(FirstWrites) /\ NoCopies(SecondWrites)
<1>1. Datas \in SUBSET Inode /\ Metas \in SUBSET Inode /\ {} \in SUBSET Inode
  BY DEF WbTypeOK, Datas, Metas
<1> DEFINE f == BlocksOf(Datas, Metas \ Datas)
<1>2. /\ f \in Seq(Blocks) /\ NoCopies(f)
      /\ Objs(f) = {Data(i) : i \in Datas} \cup {Meta(i) : i \in (Metas \ Datas) \ Datas}
  BY <1>1, BlocksOfInodes
<1>3. /\ SecondWrites \in Seq(Blocks) /\ NoCopies(SecondWrites)
      /\ Objs(SecondWrites) = {Data(i) : i \in {}} \cup {Meta(i) : i \in (Datas \cap Metas) \ {}}
  BY <1>1, BlocksOfInodes DEF SecondWrites
<1> HIDE DEF f
<1>4. FirstWrites = f \o DirtyBitmap
  BY DEF FirstWrites, f
<1>5. \A o \in Copied : Versions(f, o) = {}
  BY <1>2 DEF NoCopies, Versions
<1>6. Sorted(f)
  BY <1>2 DEF NoCopies, Sorted
<1>7. Older(f, DirtyBitmap)
  BY <1>5 DEF Older
<1>8. /\ FirstWrites \in Seq(Blocks) /\ Sorted(FirstWrites)
      /\ Objs(FirstWrites) = Objs(f) \cup Objs(DirtyBitmap)
      /\ \A o : Versions(FirstWrites, o) = Versions(f, o) \cup Versions(DirtyBitmap, o)
  BY <1>2, <1>4, <1>6, <1>7, BitmapCopy, JoinedQueues
<1>9. \A o \in Copied : Versions(FirstWrites, o)
                       = IF o = Bitmap /\ Bitmap \in dirty THEN {mem[Bitmap]} ELSE {}
  BY <1>5, <1>8, BitmapCopy
<1>10. Objs(FirstWrites) = {Data(i) : i \in Datas} \cup {Meta(i) : i \in Metas \ Datas}
                             \cup (dirty \cap {Bitmap})
  BY <1>2, <1>8, BitmapCopy
<1>11. QED
  BY <1>1, <1>3, <1>8, <1>9, <1>10

\* What GetWrites() leaves in its local list.
LEMMA CollectedGroups ==
    ASSUME WbTypeOK, CGetWrites
    PROVE  /\ collected' \in Seq(Seq(Blocks))
           /\ Top(collected') = FirstWrites
           /\ \A k \in DOMAIN collected' : k > 1 => NoCopies(collected'[k])
           /\ \A o : InGroups(collected', o) <=> o \in Objs(FirstWrites) \cup Objs(SecondWrites)
<1>1. FirstWrites \in Seq(Blocks) /\ SecondWrites \in Seq(Blocks) /\ NoCopies(SecondWrites)
  BY WritesTyped
<1>2. CASE SecondWrites # <<>>
  <2>1. collected' = <<FirstWrites, SecondWrites>>
    BY <1>2, GetWritesStep
  <2>2. /\ collected' \in Seq(Seq(Blocks)) /\ DOMAIN collected' = {1, 2}
        /\ collected'[1] = FirstWrites /\ collected'[2] = SecondWrites /\ collected' # <<>>
    BY <1>1, <2>1
  <2>3. QED
    BY <1>1, <2>2 DEF Top, InGroups
<1>3. CASE SecondWrites = <<>> /\ FirstWrites # <<>>
  <2>1. collected' = <<FirstWrites>>
    BY <1>3, GetWritesStep
  <2>2. /\ collected' \in Seq(Seq(Blocks)) /\ DOMAIN collected' = {1}
        /\ collected'[1] = FirstWrites /\ collected' # <<>>
    BY <1>1, <2>1
  <2>3. Objs(SecondWrites) = {}
    BY <1>3, ShortQueues
  <2>4. QED
    BY <2>2, <2>3 DEF Top, InGroups
<1>4. CASE SecondWrites = <<>> /\ FirstWrites = <<>>
  <2>1. collected' = <<>>
    BY <1>4, GetWritesStep
  <2>2. Objs(SecondWrites) = {} /\ Objs(FirstWrites) = {}
    BY <1>4, ShortQueues
  <2>3. collected' \in Seq(Seq(Blocks)) /\ DOMAIN collected' = {} /\ Top(collected') = <<>>
    BY <2>1 DEF Top
  <2>4. QED
    BY <1>4, <2>2, <2>3 DEF InGroups
<1>5. QED
  BY <1>2, <1>3, <1>4

\* The inodes and the data that FlushOrClose() collects, and what it keeps.
Flushed == {i \in loaded : FlushData(i)}
FlushMetas == {i \in Flushed : Meta(i) \in dirty}
FlushDatas == {i \in loaded \ Flushed : Data(i) \in dirty}
FlushKept == loaded \ (Flushed \ FlushMetas)
KeptMetas == {i \in FlushKept : Meta(i) \in dirty}
Returned(blocks, metas, clean, last) ==
    result' = blocks /\ CopyInodes(metas) /\ dirty' = dirty \ clean /\ completed' = last

\* The ways in which FlushOrClose() returns.
LEMMA FlushCases ==
    ASSUME CFlushOrClose
    PROVE  /\ cAt = "start" /\ phase = "flush" /\ cAt' = "ref" /\ loaded' = FlushKept
           /\ \/ Returned(BlocksOf(FlushDatas, FlushMetas), FlushMetas,
                          {Data(i) : i \in FlushDatas}, FALSE)
              \/ Returned(BlocksOf({}, KeptMetas), KeptMetas, {}, FALSE)
              \/ Bitmap \in dirty /\ Returned(DirtyBitmap, {}, {Bitmap}, FALSE)
              \/ Groups \in dirty
                 /\ Returned(<<DirtyBlock(Groups, mem[Groups])>>, {}, {Groups}, FALSE)
              \/ /\ FlushMetas \cup FlushDatas = {} /\ Bitmap \notin dirty /\ Groups \notin dirty
                 /\ FlushKept = {}
                 /\ Returned(<<ValidBlock>>, {}, {}, TRUE)
              \/ Returned(<<>>, {}, {}, FALSE)
<1>1. /\ DataWritesForFlush.metas = FlushMetas /\ DataWritesForFlush.datas = FlushDatas
      /\ DataWritesForFlush.kept = FlushKept
  BY DEF DataWritesForFlush, FlushMetas, FlushDatas, FlushKept, Flushed
<1> DEFINE m1 == DataWritesForFlush.metas
           d1 == DataWritesForFlush.datas
           kept == DataWritesForFlush.kept
           m2 == {i \in kept : Meta(i) \in dirty}
<1>2. m2 = KeptMetas
  BY <1>1 DEF KeptMetas
<1>3. cAt = "start" /\ phase = "flush" /\ cAt' = "ref" /\ loaded' = kept
  BY DEF CFlushOrClose
<1>4. CASE m1 \cup d1 # {}
  <2>1. Returned(BlocksOf(d1, m1), m1, {Data(i) : i \in d1}, FALSE)
    BY <1>4 DEF CFlushOrClose, Returned
  <2>2. QED
    BY <1>1, <1>3, <2>1
<1>5. CASE m1 \cup d1 = {} /\ m2 # {}
  <2>1. Returned(BlocksOf({}, m2), m2, {}, FALSE)
    BY <1>5 DEF CFlushOrClose, Returned
  <2>2. QED
    BY <1>1, <1>2, <1>3, <2>1
<1>6. CASE m1 \cup d1 \cup m2 = {} /\ Bitmap \in dirty
  <2>1. Returned(DirtyBitmap, {}, {Bitmap}, FALSE)
    BY <1>6 DEF CFlushOrClose, Returned
  <2>2. QED
    BY <1>1, <1>3, <1>6, <2>1
<1>7. CASE m1 \cup d1 \cup m2 = {} /\ Bitmap \notin dirty /\ Groups \in dirty
  <2>1. Returned(<<DirtyBlock(Groups, mem[Groups])>>, {}, {Groups}, FALSE)
    BY <1>7 DEF CFlushOrClose, Returned
  <2>2. QED
    BY <1>1, <1>3, <1>7, <2>1
<1>8. CASE m1 \cup d1 \cup m2 = {} /\ Bitmap \notin dirty /\ Groups \notin dirty
  <2>1. IF AllDropped(kept) THEN Returned(<<ValidBlock>>, {}, {}, TRUE)
        ELSE Returned(<<>>, {}, {}, FALSE)
    BY <1>8 DEF CFlushOrClose, Returned, ValidBlock
  <2>2. QED
    BY <1>1, <1>3, <1>8, <2>1 DEF AllDropped
<1>9. QED
  BY <1>4, <1>5, <1>6, <1>7, <1>8

\* What FlushOrClose() has done when it returns: what is no longer marked dirty
\* is in the result, with its newest version if that is a copy; the inodes that
\* are not marked clean yet are those of the result; and the block that says
\* that the file system is valid is given away when no inode is kept.
FlushOutcome ==
    /\ result' \in Seq(Blocks) /\ Sorted(result')
    /\ dirty' \subseteq dirty
    /\ table' \in [Inode -> Nat] /\ late' \in SUBSET Inode /\ completed' \in BOOLEAN
    /\ late' \subseteq FlushKept
    /\ \A i \in Inode : /\ table'[i] = IF i \in late' THEN mem[Meta(i)] ELSE table[i]
                        /\ Meta(i) \in Objs(result') <=> i \in late'
                        /\ Data(i) \in Objs(result') => i \in FlushKept
                        /\ Data(i) \in dirty \ dirty' => Data(i) \in Objs(result')
                        /\ Meta(i) \in dirty => Meta(i) \in dirty'
    /\ \A o \in Copied : /\ \A v \in Versions(result', o) : v = mem[o]
                         /\ o \in dirty \ dirty' => mem[o] \in Versions(result', o)
    /\ Super \in Objs(result') => completed'
    /\ completed' => /\ result' = <<ValidBlock>> /\ late' = {} /\ FlushKept = {}
                     /\ FlushMetas \cup FlushDatas = {} /\ dirty' = dirty
                     /\ Bitmap \notin dirty /\ Groups \notin dirty

\* FlushOrClose() does so in each of its cases.
LEMMA FlushResult ==
    ASSUME WbTypeOK, CFlushOrClose
    PROVE  loaded' = FlushKept /\ FlushKept \subseteq loaded /\ FlushOutcome
<1>1. /\ FlushMetas \in SUBSET Inode /\ FlushDatas \in SUBSET Inode /\ KeptMetas \in SUBSET Inode
      /\ FlushMetas \subseteq FlushKept /\ FlushDatas \subseteq FlushKept
      /\ KeptMetas \subseteq FlushKept /\ FlushKept \subseteq loaded
      /\ FlushMetas \cap FlushDatas = {} /\ \A i \in FlushDatas : Data(i) \in dirty
  BY DEF WbTypeOK, FlushMetas, FlushDatas, KeptMetas, FlushKept, Flushed
<1> DEFINE Good(blocks, metas, clean, last) ==
             /\ blocks \in Seq(Blocks) /\ metas \in SUBSET Inode /\ clean \in SUBSET Content
             /\ last \in BOOLEAN /\ Sorted(blocks) /\ metas \subseteq FlushKept
             /\ \A i \in Inode : /\ Meta(i) \in Objs(blocks) <=> i \in metas
                                 /\ Data(i) \in Objs(blocks) => i \in FlushKept
                                 /\ Data(i) \in clean => Data(i) \in Objs(blocks)
                                 /\ Meta(i) \notin clean
             /\ \A o \in Copied : /\ \A v \in Versions(blocks, o) : v = mem[o]
                                  /\ o \in clean \cap dirty => mem[o] \in Versions(blocks, o)
             /\ Super \in Objs(blocks) => last
             /\ last => /\ blocks = <<ValidBlock>> /\ metas = {} /\ clean = {} /\ FlushKept = {}
                        /\ FlushMetas \cup FlushDatas = {}
                        /\ Bitmap \notin dirty /\ Groups \notin dirty
<1>2. ASSUME NEW blocks, NEW metas, NEW clean, NEW last,
             Good(blocks, metas, clean, last), Returned(blocks, metas, clean, last)
      PROVE  FlushOutcome
  <2>1. /\ result' = blocks /\ dirty' = dirty \ clean /\ completed' = last /\ late' = metas
        /\ table' = [i \in Inode |-> IF i \in metas THEN mem[Meta(i)] ELSE table[i]]
    BY <1>2 DEF Returned, CopyInodes
  <2>2. table' \in [Inode -> Nat]
    BY <1>2, CopyTyped DEF Returned
  <2>3. \A i \in Inode : table'[i] = IF i \in late' THEN mem[Meta(i)] ELSE table[i]
    BY <2>1
  <2>4. QED
    BY <1>2, <2>1, <2>2, <2>3 DEF FlushOutcome
<1>3. loaded' = FlushKept
  BY FlushCases
<1> HIDE DEF Good
<1>4. CASE Returned(BlocksOf(FlushDatas, FlushMetas), FlushMetas, {Data(i) : i \in FlushDatas}, FALSE)
  <2> DEFINE blocks == BlocksOf(FlushDatas, FlushMetas)
             clean == {Data(i) : i \in FlushDatas}
  <2>1. /\ blocks \in Seq(Blocks) /\ NoCopies(blocks)
        /\ Objs(blocks) = {Data(i) : i \in FlushDatas} \cup {Meta(i) : i \in FlushMetas \ FlushDatas}
    BY <1>1, BlocksOfInodes
  <2> HIDE DEF blocks
  <2>2. Sorted(blocks) /\ \A o \in Copied : Versions(blocks, o) = {}
    BY <2>1 DEF Sorted, Versions, NoCopies
  <2>3. Super \notin Objs(blocks)
    BY <2>1 DEF NoCopies, Objs
  <2>4. clean \in SUBSET Content /\ \A o \in Copied : o \notin clean
    BY <1>1, Objects
  <2>5. \A i \in Inode : /\ Meta(i) \in Objs(blocks) <=> i \in FlushMetas
                         /\ Data(i) \in Objs(blocks) => i \in FlushKept
                         /\ Data(i) \in clean => Data(i) \in Objs(blocks)
                         /\ Meta(i) \notin clean
    BY <1>1, <2>1, Objects
  <2> HIDE DEF clean
  <2>6. Returned(blocks, FlushMetas, clean, FALSE)
    BY <1>4 DEF blocks, clean
  <2>7. Good(blocks, FlushMetas, clean, FALSE)
    BY <1>1, <2>1, <2>2, <2>3, <2>4, <2>5 DEF Good
  <2>8. QED
    BY <1>1, <1>3, <1>2, <2>6, <2>7
<1>5. CASE Returned(BlocksOf({}, KeptMetas), KeptMetas, {}, FALSE)
  <2> DEFINE blocks == BlocksOf({}, KeptMetas)
  <2>1. /\ blocks \in Seq(Blocks) /\ NoCopies(blocks)
        /\ Objs(blocks) = {Data(i) : i \in {}} \cup {Meta(i) : i \in KeptMetas \ {}}
    BY <1>1, BlocksOfInodes
  <2> HIDE DEF blocks
  <2>2. Sorted(blocks) /\ \A o \in Copied : Versions(blocks, o) = {}
    BY <2>1 DEF Sorted, Versions, NoCopies
  <2>3. Super \notin Objs(blocks)
    BY <2>1 DEF NoCopies, Objs
  <2>4. \A i \in Inode : /\ Meta(i) \in Objs(blocks) <=> i \in KeptMetas
                         /\ Data(i) \notin Objs(blocks)
    BY <1>1, <2>1, Objects
  <2>5. Returned(blocks, KeptMetas, {}, FALSE)
    BY <1>5 DEF blocks
  <2>6. Good(blocks, KeptMetas, {}, FALSE)
    BY <1>1, <2>1, <2>2, <2>3, <2>4 DEF Good
  <2>7. QED
    BY <1>1, <1>3, <1>2, <2>5, <2>6
<1>6. CASE Bitmap \in dirty /\ Returned(DirtyBitmap, {}, {Bitmap}, FALSE)
  <2> DEFINE bits == DirtyBitmap
  <2>1. /\ bits \in Seq(Blocks) /\ Objs(bits) = {Bitmap} /\ Sorted(bits)
        /\ \A o : Versions(bits, o) = IF Bitmap = o THEN {mem[Bitmap]} ELSE {}
    BY <1>6, BitmapCopy
  <2> HIDE DEF bits
  <2>2. \A i \in Inode : Meta(i) \notin Objs(bits) /\ Data(i) \notin Objs(bits)
                         /\ Data(i) # Bitmap /\ Meta(i) # Bitmap
    BY <2>1, Objects DEF Copied
  <2>3. Super \notin Objs(bits) /\ {Bitmap} \in SUBSET Content
    BY <2>1, Objects
  <2>4. Returned(bits, {}, {Bitmap}, FALSE)
    BY <1>6 DEF bits
  <2>5. Good(bits, {}, {Bitmap}, FALSE)
    BY <2>1, <2>2, <2>3 DEF Good
  <2>6. QED
    BY <1>1, <1>3, <1>2, <2>4, <2>5
<1>7. CASE Groups \in dirty /\ Returned(<<DirtyBlock(Groups, mem[Groups])>>, {}, {Groups}, FALSE)
  <2> DEFINE b == DirtyBlock(Groups, mem[Groups])
  <2>1. b \in Blocks /\ b.obj = Groups /\ b.ver = mem[Groups]
    <3>1. mem[Groups] \in Nat /\ Groups \in Content \cup {Super}
      BY Objects DEF WbTypeOK
    <3>2. QED
      BY <3>1, BlockFields
  <2> HIDE DEF b
  <2>2. /\ <<b>> \in Seq(Blocks) /\ Objs(<<b>>) = {Groups} /\ Sorted(<<b>>)
        /\ \A o : Versions(<<b>>, o) = IF Groups = o THEN {mem[Groups]} ELSE {}
    BY <2>1, ShortQueues
  <2>3. \A i \in Inode : Meta(i) \notin Objs(<<b>>) /\ Data(i) \notin Objs(<<b>>)
                         /\ Data(i) # Groups /\ Meta(i) # Groups
    BY <2>2, Objects DEF Copied
  <2>4. Super \notin Objs(<<b>>) /\ {Groups} \in SUBSET Content
    BY <2>2, Objects
  <2>5. Returned(<<b>>, {}, {Groups}, FALSE)
    BY <1>7 DEF b
  <2>6. Good(<<b>>, {}, {Groups}, FALSE)
    BY <2>2, <2>3, <2>4 DEF Good
  <2>7. QED
    BY <1>1, <1>3, <1>2, <2>5, <2>6
<1>8. CASE /\ FlushMetas \cup FlushDatas = {} /\ Bitmap \notin dirty /\ Groups \notin dirty
           /\ FlushKept = {}
           /\ Returned(<<ValidBlock>>, {}, {}, TRUE)
  <2>1. ValidBlock \in Blocks /\ ValidBlock.obj = Super
    BY BlockFields DEF ValidBlock, EXT2_VALID_FS
  <2>2. /\ <<ValidBlock>> \in Seq(Blocks) /\ Objs(<<ValidBlock>>) = {Super} /\ Sorted(<<ValidBlock>>)
        /\ \A o : Versions(<<ValidBlock>>, o) = IF Super = o THEN {ValidBlock.ver} ELSE {}
    BY <2>1, ShortQueues
  <2>3. /\ \A i \in Inode : Meta(i) \notin Objs(<<ValidBlock>>) /\ Data(i) \notin Objs(<<ValidBlock>>)
        /\ \A o \in Copied : o # Super
    BY <2>2, Objects DEF Copied
  <2>4. Good(<<ValidBlock>>, {}, {}, TRUE)
    BY <1>8, <2>2, <2>3 DEF Good
  <2>5. QED
    BY <1>1, <1>3, <1>2, <1>8, <2>4
<1>9. CASE Returned(<<>>, {}, {}, FALSE)
  <2>1. <<>> \in Seq(Blocks)
    OBVIOUS
  <2>2. Good(<<>>, {}, {}, FALSE)
    BY <2>1, ShortQueues DEF Good
  <2>3. QED
    BY <1>1, <1>3, <1>2, <1>9, <2>2
<1>10. QED
  BY <1>1, <1>3, <1>4, <1>5, <1>6, <1>7, <1>8, <1>9, FlushCases

\* The submitter takes the block of OpenForWrite(), or the first group that is
\* not empty: the groups in front of it are gone, those behind it stay.
TakesNow ==
    /\ flushNow = <<ErrorBlock>> /\ sending' = <<ErrorBlock>> /\ dirtyBlocks' = dirtyBlocks
TakesGroup ==
    /\ flushNow = <<>> /\ dirtyBlocks # <<>>
    /\ \A o : InGroups(dirtyBlocks, o) <=> o \in Objs(sending') \/ InGroups(dirtyBlocks', o)
    /\ \/ sending' = Top(dirtyBlocks)
       \/ Top(dirtyBlocks) = <<>>
          /\ \E n \in DOMAIN dirtyBlocks : n > 1 /\ sending' = dirtyBlocks[n]
    /\ \A k \in DOMAIN dirtyBlocks' :
          \E j \in DOMAIN dirtyBlocks : j > 1 /\ dirtyBlocks'[k] = dirtyBlocks[j]

\* A step in which the submitter takes blocks is one of the two.
LEMMA TakeStep ==
    ASSUME PlaceInv, STake
    PROVE  /\ sending = <<>> /\ sent = 0 /\ sent' = 0
           /\ Rest = <<>> /\ Rest' = sending' /\ sending' \in Seq(Blocks)
           /\ dirtyBlocks' \in Seq(Seq(Blocks)) /\ flushNow' = <<>>
           /\ TakesNow \/ TakesGroup
<1>1. sending = <<>> /\ sent = 0 /\ sent' = 0 /\ flushNow' = <<>>
  BY DEF STake, PlaceInv, SubmitterAt
<1>2. Rest = <<>>
  BY <1>1, WholeRest DEF PlaceInv
<1>3. CASE flushNow # <<>>
  <2>1. TakesNow
    BY <1>3 DEF STake, PlaceInv, SubmitterAt, TakesNow
  <2>2. ErrorBlock \in Blocks
    BY BlockFields DEF ErrorBlock, EXT2_ERROR_FS
  <2>3. sending' \in Seq(Blocks) /\ dirtyBlocks' \in Seq(Seq(Blocks))
    BY <2>1, <2>2 DEF TakesNow, PlaceInv, WbTypeOK
  <2>4. Rest' = sending'
    BY <1>1, <2>3, SubSeqFull DEF Rest
  <2>5. QED
    BY <1>1, <1>2, <2>1, <2>3, <2>4
<1>4. CASE flushNow = <<>>
  <2> DEFINE full == {k \in DOMAIN dirtyBlocks : dirtyBlocks[k] # <<>>}
             first == IF full = {} THEN Len(dirtyBlocks)
                      ELSE CHOOSE k \in full : \A j \in full : k <= j
  <2>1. /\ dirtyBlocks # <<>> /\ sending' = dirtyBlocks[first]
        /\ dirtyBlocks' = SubSeq(dirtyBlocks, first + 1, Len(dirtyBlocks))
    BY <1>4 DEF STake
  <2>2. dirtyBlocks \in Seq(Seq(Blocks))
    BY DEF PlaceInv, WbTypeOK
  <2>3. PICK n \in DOMAIN dirtyBlocks :
          n = first /\ \A k \in DOMAIN dirtyBlocks : k < n => dirtyBlocks[k] = <<>>
    BY <2>1, <2>2, FirstFull
  <2> HIDE DEF full, first
  <2>4. sending' = dirtyBlocks[n] /\ dirtyBlocks' = SubSeq(dirtyBlocks, n + 1, Len(dirtyBlocks))
    BY <2>1, <2>3
  <2>5. /\ sending' \in Seq(Blocks) /\ dirtyBlocks' \in Seq(Seq(Blocks))
        /\ \A k \in DOMAIN dirtyBlocks' : k + n \in DOMAIN dirtyBlocks /\ k + n > 1
                                          /\ dirtyBlocks'[k] = dirtyBlocks[k + n]
        /\ \A k \in DOMAIN dirtyBlocks : k > n =>
              k - n \in DOMAIN dirtyBlocks' /\ dirtyBlocks'[k - n] = dirtyBlocks[k]
    <3>1. dirtyBlocks' = Behind(dirtyBlocks, n)
      BY <2>4 DEF Behind
    <3>2. /\ dirtyBlocks[n] \in Seq(Blocks) /\ Behind(dirtyBlocks, n) \in Seq(Seq(Blocks))
          /\ \A k \in DOMAIN Behind(dirtyBlocks, n) :
                k + n \in DOMAIN dirtyBlocks /\ k + n > 1
                /\ Behind(dirtyBlocks, n)[k] = dirtyBlocks[k + n]
          /\ \A k \in DOMAIN dirtyBlocks : k > n =>
                k - n \in DOMAIN Behind(dirtyBlocks, n)
                /\ Behind(dirtyBlocks, n)[k - n] = dirtyBlocks[k]
      BY <2>2, <2>3, TakenGroup
    <3>3. QED
      BY <2>4, <3>1, <3>2
  <2>6. ASSUME NEW o
        PROVE  InGroups(dirtyBlocks, o) <=> o \in Objs(sending') \/ InGroups(dirtyBlocks', o)
    <3>1. ASSUME InGroups(dirtyBlocks, o) PROVE o \in Objs(sending') \/ InGroups(dirtyBlocks', o)
      <4>1. PICK k \in DOMAIN dirtyBlocks : o \in Objs(dirtyBlocks[k])
        BY <3>1 DEF InGroups
      <4>2. k < n \/ k = n \/ k > n
        BY <2>2
      <4>3. ~(k < n)
        BY <2>3, <4>1, ShortQueues
      <4>4. QED
        BY <2>4, <2>5, <4>1, <4>2, <4>3 DEF InGroups
    <3>2. ASSUME o \in Objs(sending') \/ InGroups(dirtyBlocks', o) PROVE InGroups(dirtyBlocks, o)
      BY <2>3, <2>4, <2>5, <3>2 DEF InGroups
    <3>3. QED
      BY <3>1, <3>2
  <2>7. \/ sending' = Top(dirtyBlocks)
        \/ Top(dirtyBlocks) = <<>> /\ \E k \in DOMAIN dirtyBlocks : k > 1 /\ sending' = dirtyBlocks[k]
    <3>1. 1 \in DOMAIN dirtyBlocks /\ (n = 1 \/ n > 1) /\ Top(dirtyBlocks) = dirtyBlocks[1]
      BY <2>1, <2>2 DEF Top
    <3>2. QED
      BY <2>3, <2>4, <3>1
  <2>8. TakesGroup
    BY <1>4, <2>1, <2>5, <2>6, <2>7 DEF TakesGroup
  <2>9. Rest' = sending'
    BY <1>1, <2>5, SubSeqFull DEF Rest
  <2>10. QED
    BY <1>1, <1>2, <2>5, <2>8, <2>9
<1>5. QED
  BY <1>3, <1>4

\* The collector keeps its places and the types.
LEMMA CollectorPlaces ==
    ASSUME PlaceInv, Collector
    PROVE  PlaceInv'
<1> USE DEF PlaceInv
<1>1. CASE CStart
  BY <1>1 DEF CStart, WbTypeOK, CollectorAt, SubmitterAt, userVars, listVars, sVars, diskVars, observers
<1>2. CASE CGetWrites
  <2>1. collected' \in Seq(Seq(Blocks))
    BY <1>2, CollectedGroups
  <2>2. table' \in [Inode -> Nat] /\ late' \in SUBSET Inode
    BY <1>2, GetWritesStep, WritesTyped, CopyTyped
  <2>3. cAt = "get" /\ cAt' = "append" /\ dirty' \in SUBSET Content
    BY <1>2, GetWritesStep DEF WbTypeOK
  <2>4. UNCHANGED <<phase, userVars, listVars, result, completed, cList, sVars, diskVars, observers>>
    BY <1>2 DEF CGetWrites
  <2>5. QED
    BY <2>1, <2>2, <2>3, <2>4 DEF WbTypeOK, CollectorAt, SubmitterAt, userVars, listVars, sVars,
       diskVars, observers
<1>3. CASE CClean
  <2>1. lost' \in SUBSET (Content \cup {Super})
    BY <1>3, Objects DEF CClean, WbTypeOK
  <2>2. QED
    BY <1>3, <2>1 DEF CClean, WbTypeOK, CollectorAt, SubmitterAt, userVars, listVars, sVars, diskVars
<1>4. CASE CAppend
  <2>1. dirtyBlocks \in Seq(Seq(Blocks)) /\ collected \in Seq(Seq(Blocks))
    BY DEF WbTypeOK
  <2>2. dirtyBlocks' \in Seq(Seq(Blocks)) /\ (dirtyBlocks # <<>> => dirtyBlocks' # <<>>)
    BY <1>4, <2>1, MergedGroups DEF CAppend
  <2>3. collected' = <<>> /\ <<>> \in Seq(Seq(Blocks))
    BY <1>4 DEF CAppend
  <2>4. QED
    BY <1>4, <2>2, <2>3 DEF CAppend, WbTypeOK, CollectorAt, SubmitterAt, userVars, sVars, diskVars, observers
<1>5. CASE CFlushOrClose
  <2>1. loaded' \in SUBSET Inode /\ result' \in Seq(Blocks) /\ dirty' \in SUBSET Content
        /\ table' \in [Inode -> Nat] /\ late' \in SUBSET Inode /\ completed' \in BOOLEAN
    BY <1>5, FlushResult DEF FlushOutcome, WbTypeOK
  <2>2. cAt = "start" /\ phase = "flush" /\ cAt' = "ref"
    BY <1>5, FlushCases
  <2>3. /\ UNCHANGED <<phase, inodeCount, mk, mem, listVars, collected, cList, sVars, diskVars, leaked, lost>>
        /\ promised' \in {mem, promised}
    BY <1>5 DEF CFlushOrClose
  <2>4. QED
    BY <2>1, <2>2, <2>3 DEF WbTypeOK, CollectorAt, SubmitterAt, listVars, sVars, diskVars, observers
<1>6. CASE CRef
  <2>1. dirtyBlocks' \in Seq(Seq(Blocks)) /\ dirtyBlocks' # <<>>
    BY <1>6 DEF CRef, WbTypeOK
  <2>2. QED
    BY <1>6, <2>1 DEF CRef, WbTypeOK, CollectorAt, SubmitterAt, userVars, sVars, diskVars, observers
<1>7. CASE CPush
  <2>1. dirtyBlocks' \in Seq(Seq(Blocks))
    <3>1. dirtyBlocks \in Seq(Seq(Blocks)) /\ result \in Seq(Blocks)
      BY DEF WbTypeOK
    <3>2. CASE cList = "ok"
      <4>1. dirtyBlocks # <<>> /\ dirtyBlocks' = [dirtyBlocks EXCEPT ![1] = @ \o result]
        BY <1>7, <3>2 DEF CPush, CollectorAt
      <4>2. QED
        BY <3>1, <4>1, PushedGroup
    <3>3. CASE cList # "ok"
      BY <1>7, <3>1, <3>3 DEF CPush
    <3>4. QED
      BY <3>2, <3>3
  <2>2. Objs(result) \subseteq Content \cup {Super}
    BY BlockFields DEF Objs, WbTypeOK
  <2>3. leaked' \in SUBSET (Content \cup {Super}) /\ lost' \in SUBSET (Content \cup {Super})
    BY <1>7, <2>2 DEF CPush, WbTypeOK
  <2>4. result' = <<>> /\ <<>> \in Seq(Blocks) /\ cList' = "none" /\ cAt = "push"
        /\ cAt' = IF completed THEN "finish" ELSE "start"
    BY <1>7 DEF CPush
  <2>5. UNCHANGED <<phase, userVars, table, dirty, flushNow, collected, late, completed, sVars, diskVars,
                  promised>>
    BY <1>7 DEF CPush
  <2>6. QED
    BY <2>1, <2>3, <2>4, <2>5 DEF WbTypeOK, CollectorAt, SubmitterAt, userVars, sVars, diskVars, observers
<1>8. CASE CFinish
  BY <1>8 DEF CFinish, WbTypeOK, CollectorAt, SubmitterAt, userVars, listVars, sVars, diskVars, observers
<1>9. QED
  BY <1>1, <1>2, <1>3, <1>4, <1>5, <1>6, <1>7, <1>8 DEF Collector

\* What the device holds after a block was written.
LEMMA WrittenDisk ==
    ASSUME WbTypeOK, NEW b \in Blocks
    PROVE  /\ Written(b) \in [Content \cup {Super} -> Nat]
           /\ \A i \in Inode : /\ Written(b)[Data(i)] = IF b.obj = Data(i) THEN mem[Data(i)] ELSE disk[Data(i)]
                               /\ Written(b)[Meta(i)] \in {table[i], disk[Meta(i)]}
                               /\ b.obj = Meta(i) => Written(b)[Meta(i)] = table[i]
           /\ \A o \in Copied \cup {Super} : Written(b)[o] = IF b.obj = o THEN b.ver ELSE disk[o]
<1>1. /\ b.obj \in Content \cup {Super} /\ b.ver \in Nat
      /\ \A i \in Inode : /\ Data(i) \in Content \cup {Super} /\ Meta(i) \in Content \cup {Super}
                          /\ Data(i)[1] = "data" /\ Meta(i)[1] = "meta" /\ Meta(i)[2] = i
                          /\ mem[Data(i)] \in Nat /\ table[i] \in Nat
      /\ \A o \in Content \cup {Super} : disk[o] \in Nat
  BY BlockFields, Objects DEF WbTypeOK, Data, Meta
<1>2. \A o \in Copied \cup {Super} : o \in Content \cup {Super} /\ o[1] # "data" /\ o[1] # "meta"
  BY Objects DEF Copied, Bitmap, Groups, Super
<1> DEFINE W(o) == IF o = b.obj
                   THEN CASE o[1] = "data" -> mem[o] [] o[1] = "meta" -> table[o[2]] [] OTHER -> b.ver
                   ELSE IF b.obj[1] = "meta" /\ o[1] = "meta" /\ o[2] < b.obj[2] THEN table[o[2]]
                   ELSE disk[o]
<1>3. Written(b) = [o \in Content \cup {Super} |-> W(o)]
  BY DEF Written
<1>4. \A i \in Inode : /\ W(Data(i)) = IF b.obj = Data(i) THEN mem[Data(i)] ELSE disk[Data(i)]
                       /\ W(Meta(i)) \in {table[i], disk[Meta(i)]}
                       /\ b.obj = Meta(i) => W(Meta(i)) = table[i]
  BY <1>1
<1>5. \A o \in Copied \cup {Super} : W(o) = IF b.obj = o THEN b.ver ELSE disk[o]
  BY <1>2
<1>6. \A o \in Content \cup {Super} : W(o) \in Nat
  <2>1. ASSUME NEW o \in Content \cup {Super} PROVE W(o) \in Nat
    <3>1. CASE o \in Copied \cup {Super}
      BY <1>1, <1>5, <3>1
    <3>2. CASE \E i \in Inode : o = Data(i) \/ o = Meta(i)
      BY <1>1, <1>4, <3>2
    <3>3. QED
      BY <3>1, <3>2, Objects
  <2>2. QED
    BY <2>1
<1> HIDE DEF W
<1>7. Written(b) \in [Content \cup {Super} -> Nat]
  BY <1>3, <1>6
<1>8. \A o \in Content \cup {Super} : Written(b)[o] = W(o)
  BY <1>3
<1>9. QED
  BY <1>1, <1>2, <1>4, <1>5, <1>7, <1>8

\* The two ways in which the write of the first block of the rest ends.
LEMMA WriteCases ==
    ASSUME PlaceInv, SWrite
    PROVE  /\ Rest \in Seq(Blocks) /\ Rest # <<>> /\ Rest' = Tail(Rest) /\ Head(Rest) \in Blocks
           /\ sending # <<>>
           /\ \/ /\ disk' = Written(Head(Rest))
                 /\ lost' = {o \in lost : IF o = Super THEN Head(Rest).obj # Super
                                                       ELSE phase # "open" \/ disk'[o] # mem[o]}
              \/ disk' = disk /\ lost' = lost \cup {Head(Rest).obj}
           /\ UNCHANGED <<phase, userVars, table, dirty, listVars, cVars, leaked, promised>>
<1>1. sending # <<>> /\ sent < Len(sending)
  BY DEF SWrite, PlaceInv, SubmitterAt
<1>2. Rest \in Seq(Blocks) /\ Rest # <<>> /\ Head(Rest) = sending[sent + 1] /\ Rest' = Tail(Rest)
  BY <1>1, RestStep DEF PlaceInv
<1>3. Head(Rest) \in Blocks
  BY <1>2, FirstBlock
<1>4. QED
  BY <1>1, <1>2, <1>3 DEF SWrite

\* The submitter keeps its places and the types.
LEMMA SubmitterPlaces ==
    ASSUME PlaceInv, Submitter
    PROVE  PlaceInv'
<1>1. CASE STake
  <2>1. /\ sending' \in Seq(Blocks) /\ dirtyBlocks' \in Seq(Seq(Blocks)) /\ flushNow' = <<>>
        /\ sent' = 0 /\ sending = <<>>
    BY <1>1, TakeStep
  <2>2. /\ UNCHANGED <<phase, userVars, table, dirty, cAt, collected, late, result, completed,
                       diskVars, observers>>
        /\ phase \in {"open", "flush", "finish"}
        /\ cList' = IF cList = "ok" /\ dirtyBlocks' = <<>> THEN "gone" ELSE cList
    BY <1>1 DEF STake
  <2>3. WbTypeOK'
    BY <2>1, <2>2 DEF PlaceInv, WbTypeOK, userVars, diskVars, observers
  <2>4. CollectorAt'
    BY <2>2 DEF PlaceInv, CollectorAt
  <2>5. SubmitterAt'
    BY <2>1, <2>2 DEF SubmitterAt
  <2>6. QED
    BY <2>3, <2>4, <2>5 DEF PlaceInv
<1>2. CASE SFinish
  BY <1>2 DEF PlaceInv, SFinish, WbTypeOK, CollectorAt, SubmitterAt, userVars, listVars, cVars,
     sVars, diskVars, observers
<1>3. CASE SWrite
  <2>1. /\ Head(Rest) \in Blocks /\ sending # <<>>
        /\ UNCHANGED <<phase, userVars, table, dirty, listVars, cVars, leaked, promised>>
    BY <1>3, WriteCases
  <2>2. disk' \in [Content \cup {Super} -> Nat]
    BY <1>3, <2>1, WriteCases, WrittenDisk DEF PlaceInv, WbTypeOK
  <2>3. lost' \in SUBSET (Content \cup {Super})
    <3>1. lost \in SUBSET (Content \cup {Super}) /\ Head(Rest).obj \in Content \cup {Super}
      BY <2>1, BlockFields DEF PlaceInv, WbTypeOK
    <3>2. lost' \subseteq lost \cup {Head(Rest).obj}
      BY <1>3, WriteCases
    <3>3. QED
      BY <3>1, <3>2
  <2>4. errors' \in 0 .. MaxErrors
    BY <1>3, WriteBackAssumption DEF SWrite, PlaceInv, WbTypeOK
  <2>5. sending' \in Seq(Blocks) /\ sent' \in 0 .. Len(sending')
        /\ (sending' # <<>> => sent' < Len(sending')) /\ (sending' = <<>> => sent' = 0)
    <3>1. sending \in Seq(Blocks) /\ Len(sending) \in Nat /\ sent \in Nat /\ sent < Len(sending)
      BY <2>1 DEF PlaceInv, WbTypeOK, SubmitterAt
    <3>2. CASE sent + 1 = Len(sending)
      BY <1>3, <3>2 DEF SWrite
    <3>3. CASE sent + 1 # Len(sending)
      BY <1>3, <2>1, <3>1, <3>3 DEF SWrite
    <3>4. QED
      BY <3>2, <3>3
  <2>6. WbTypeOK'
    BY <2>1, <2>2, <2>3, <2>4, <2>5 DEF PlaceInv, WbTypeOK, userVars, listVars, cVars, observers
  <2>7. CollectorAt' /\ SubmitterAt'
    BY <2>1, <2>5 DEF PlaceInv, CollectorAt, SubmitterAt, userVars, listVars, cVars
  <2>8. QED
    BY <2>6, <2>7 DEF PlaceInv
<1>4. QED
  BY <1>1, <1>2, <1>3 DEF Submitter

\* Mounting, unmounting and the users keep the places and the types.
LEMMA UserPlaces ==
    ASSUME PlaceInv,
           \/ OpenForWrite \/ CloseForWrite \/ MkdirEntry \/ MkdirLinks
           \/ \E d \in Inode, ok \in BOOLEAN : Mkdir(d, ok)
    PROVE  PlaceInv'
<1> USE DEF PlaceInv
<1>1. CASE OpenForWrite
  <2>1. <<ErrorBlock>> \in Seq(Blocks)
    BY BlockFields, ShortQueues DEF ErrorBlock, EXT2_ERROR_FS
  <2>2. QED
    BY <1>1, <2>1 DEF OpenForWrite, WbTypeOK, CollectorAt, SubmitterAt, userVars, cVars, sVars,
       diskVars, ErrorBlock, observers
<1>2. CASE CloseForWrite
  BY <1>2 DEF CloseForWrite, WbTypeOK, CollectorAt, SubmitterAt, userVars, listVars, cVars, sVars,
     diskVars, observers
<1>3. CASE MkdirEntry
  <2> DEFINE S(grows) == {Data(mk.dir)} \cup InitializeDirectory(mk.new)
                         \cup (IF grows THEN {Meta(mk.dir)} ELSE {})
  <2>1. \A grows \in Grows : S(grows) \in SUBSET Content
    <3>1. {Data(mk.dir), Meta(mk.dir), Data(mk.new), Meta(mk.new)} \subseteq Content
      BY Objects DEF WbTypeOK
    <3>2. QED
      BY <3>1 DEF InitializeDirectory
  <2>2. mem' \in [Content -> Nat] /\ dirty' \in SUBSET Content
    BY <1>3, <2>1, UserTyped DEF MkdirEntry
  <2>3. QED
    BY <1>3, <2>2 DEF MkdirEntry, At, WbTypeOK, CollectorAt, SubmitterAt, listVars, cVars, sVars,
       diskVars, observers
<1>4. CASE MkdirLinks
  <2>1. {Meta(mk.dir), Groups} \in SUBSET Content
    BY Objects DEF WbTypeOK
  <2>2. mem' \in [Content -> Nat] /\ dirty' \in SUBSET Content
    BY <1>4, <2>1, UserTyped DEF MkdirLinks
  <2>3. QED
    BY <1>4, <2>2 DEF MkdirLinks, At, WbTypeOK, CollectorAt, SubmitterAt, listVars, cVars, sVars,
       diskVars, observers
<1>5. ASSUME NEW d \in Inode, NEW ok \in BOOLEAN, Mkdir(d, ok) PROVE PlaceInv'
  <2> DEFINE n == inodeCount + 1
             got == {n} \cap Inode
             S == Allocation \cup {Meta(i) : i \in IF ok THEN got ELSE {}}
  <2>1. S \in SUBSET Content
    BY Objects DEF Allocation
  <2>2. mem' \in [Content -> Nat] /\ dirty' \in SUBSET Content
    BY <1>5, <2>1, UserTyped DEF Mkdir
  <2>3. /\ loaded' \in SUBSET Inode /\ inodeCount' \in Inode
        /\ mk' \in [at : {"idle", "entry", "links"}, dir : Inode, new : Inode]
    <3>1. /\ loaded' = loaded \cup ({d} \cup got) /\ (ok => got # {})
          /\ inodeCount' = IF ok THEN n ELSE inodeCount
          /\ mk' = IF ok THEN [at |-> "entry", dir |-> d, new |-> n] ELSE mk
      BY <1>5 DEF Mkdir, GetInode
    <3>2. QED
      BY <3>1 DEF WbTypeOK
  <2>4. UNCHANGED <<phase, table, listVars, cVars, sVars, diskVars, observers>>
    BY <1>5 DEF Mkdir
  <2>5. QED
    BY <2>2, <2>3, <2>4 DEF WbTypeOK, CollectorAt, SubmitterAt, listVars, cVars, sVars, diskVars, observers
<1>6. QED
  BY <1>1, <1>2, <1>3, <1>4, <1>5

\* The steps of the file system and its writer.
UserStep ==
    \/ OpenForWrite \/ CloseForWrite \/ MkdirEntry \/ MkdirLinks
    \/ \E d \in Inode, ok \in BOOLEAN : Mkdir(d, ok)

\* A step of the worker threads is one of them or leaves the file system alone.
LEMMA WriterSteps ==
    ASSUME [Next]_vars
    PROVE  UserStep \/ Collector \/ Submitter \/ UNCHANGED wbVars
BY DEF Next, vars, WbNext, UserStep

\* The types and places hold in every state.
LEMMA PlaceInvHolds == Spec => []PlaceInv
<1>1. Init => PlaceInv
  <2>1. SUFFICES ASSUME WbInit PROVE PlaceInv
    BY DEF Init
  <2>2. /\ loaded \in SUBSET Inode /\ inodeCount \in Inode
        /\ mk \in [at : {"idle", "entry", "links"}, dir : Inode, new : Inode]
    BY <2>1, WriteBackAssumption DEF WbInit, Inode
  <2>3. /\ mem \in [Content -> Nat] /\ table \in [Inode -> Nat]
        /\ disk \in [Content \cup {Super} -> Nat] /\ errors \in 0 .. MaxErrors
    BY <2>1, WriteBackAssumption DEF WbInit, EXT2_VALID_FS
  <2>4. /\ dirtyBlocks \in Seq(Seq(Blocks)) /\ collected \in Seq(Seq(Blocks))
        /\ flushNow \in Seq(Blocks) /\ result \in Seq(Blocks) /\ sending \in Seq(Blocks)
        /\ sent \in 0 .. Len(sending)
    BY <2>1 DEF WbInit
  <2>5. QED
    BY <2>1, <2>2, <2>3, <2>4 DEF WbInit, PlaceInv, WbTypeOK, CollectorAt, SubmitterAt
<1>2. PlaceInv /\ [Next]_vars => PlaceInv'
  <2>1. ASSUME PlaceInv, UNCHANGED wbVars PROVE PlaceInv'
    BY <2>1 DEF wbVars, userVars, listVars, cVars, sVars, diskVars, PlaceInv, WbTypeOK,
       CollectorAt, SubmitterAt, observers
  <2>2. QED
    BY <2>1, WriterSteps, UserPlaces, CollectorPlaces, SubmitterPlaces DEF UserStep
<1>3. QED
  BY <1>1, <1>2, PTL DEF Spec

-----------------------------------------------------------------------------
(***************************************************************************)
(* The way of a block: from what the collector holds, by the first group   *)
(* of the list, to the rest of the group that is being written.  Later     *)
(* groups have no copies.                                                  *)
(***************************************************************************)
First == Top(dirtyBlocks)
Pending == result \o Top(collected)
Held(o) == o \in Objs(result) \/ InGroups(collected, o)
Queued(o) == o \in Objs(Rest) \/ InGroups(dirtyBlocks, o) \/ Held(o)

CopiesFirst ==
    /\ \A k \in DOMAIN dirtyBlocks : k > 1 => NoCopies(dirtyBlocks[k])
    /\ \A k \in DOMAIN collected : k > 1 => NoCopies(collected[k])

QueueInv == PlaceInv /\ CopiesFirst

\* A queue without copies.
LEMMA NoCopiesQueue ==
    ASSUME NEW s, NoCopies(s)
    PROVE  Sorted(s) /\ Super \notin Objs(s) /\ \A o \in Copied : Versions(s, o) = {} /\ o \notin Objs(s)
BY DEF NoCopies, Sorted, Versions, Objs

\* The first group of a list.
LEMMA TopGroup ==
    ASSUME NEW gs \in Seq(Seq(Blocks))
    PROVE  /\ Top(gs) \in Seq(Blocks)
           /\ Objs(Top(gs)) = {} \/ (1 \in DOMAIN gs /\ Top(gs) = gs[1])
           /\ \A o \in Objs(Top(gs)) : InGroups(gs, o)
<1>1. CASE gs = <<>>
  <2>1. Top(gs) = <<>> /\ <<>> \in Seq(Blocks)
    BY <1>1 DEF Top
  <2>2. QED
    BY <2>1, ShortQueues
<1>2. CASE gs # <<>>
  <2>1. 1 \in DOMAIN gs /\ Top(gs) = gs[1] /\ gs[1] \in Seq(Blocks)
    BY <1>2 DEF Top
  <2>2. QED
    BY <2>1 DEF InGroups
<1>3. QED
  BY <1>1, <1>2

\* The types of the queues.
LEMMA QueueTypes ==
    ASSUME WbTypeOK
    PROVE  /\ Rest \in Seq(Blocks) /\ First \in Seq(Blocks) /\ Pending \in Seq(Blocks)
           /\ Objs(Pending) = Objs(result) \cup Objs(Top(collected))
           /\ \A o \in Objs(First) : InGroups(dirtyBlocks, o)
           /\ \A o \in Objs(Pending) : Held(o)
<1>1. dirtyBlocks \in Seq(Seq(Blocks)) /\ collected \in Seq(Seq(Blocks)) /\ result \in Seq(Blocks)
  BY DEF WbTypeOK
<1>2. First \in Seq(Blocks) /\ \A o \in Objs(First) : InGroups(dirtyBlocks, o)
  BY <1>1, TopGroup DEF First
<1>3. Top(collected) \in Seq(Blocks) /\ \A o \in Objs(Top(collected)) : InGroups(collected, o)
  BY <1>1, TopGroup
<1>4. Pending \in Seq(Blocks) /\ Objs(Pending) = Objs(result) \cup Objs(Top(collected))
  BY <1>1, <1>3, JoinedQueues DEF Pending
<1>5. QED
  BY <1>2, <1>3, <1>4, WholeRest DEF Held

\* A queue with nothing in front of it or behind it.
LEMMA EmptyJoin ==
    ASSUME NEW s \in Seq(Blocks)
    PROVE  s \o <<>> = s /\ <<>> \o s = s
OBVIOUS

\* Steps that leave queues, inodes and versions alone.
Quiet ==
    /\ UNCHANGED <<loaded, mk, mem, table, dirty, late, disk, lost, collected, result>>
    /\ Rest' = Rest /\ First' = First
    /\ \A o : InGroups(dirtyBlocks', o) <=> InGroups(dirtyBlocks, o)

\* Somebody changes the objects S.
Changes(S) ==
    /\ UserStep
    /\ mem' = [o \in Content |-> IF o \in S THEN mem[o] + 1 ELSE mem[o]]
    /\ dirty' = dirty \cup S
    /\ UNCHANGED <<table, late, disk, lost, collected, result, dirtyBlocks>> /\ Rest' = Rest

\* The collector has new blocks: what is no longer dirty is among them, and a
\* copy is that of the newest version.
Collects ==
    /\ CGetWrites \/ CFlushOrClose
    /\ late = {} /\ collected = <<>> /\ result = <<>>
    /\ Pending' \in Seq(Blocks) /\ Sorted(Pending')
    /\ \A o \in Copied : /\ \A v \in Versions(Pending', o) : v = mem[o]
                         /\ o \in dirty \ dirty' => mem[o] \in Versions(Pending', o)
    /\ dirty' \subseteq dirty /\ late' \in SUBSET Inode
    /\ \A i \in Inode : /\ table'[i] = IF i \in late' THEN mem[Meta(i)] ELSE table[i]
                        /\ Meta(i) \in dirty => Meta(i) \in dirty'
                        /\ Data(i) \in dirty \ dirty' => Held(Data(i))'
                        /\ i \in late' => Held(Meta(i))'
    /\ UNCHANGED <<mem, disk, lost, dirtyBlocks>> /\ Rest' = Rest

\* They are put behind the first group, or are lost.
Publishes ==
    /\ late = {} /\ collected' = <<>> /\ result' = <<>> /\ Rest' = Rest
    /\ UNCHANGED <<loaded, mk, mem, table, dirty, late, disk>>
    /\ \/ /\ First' = First \o Pending /\ lost' = lost
          /\ \A o : InGroups(dirtyBlocks', o) <=> InGroups(dirtyBlocks, o) \/ Held(o)
       \/ /\ dirtyBlocks' = dirtyBlocks /\ lost' = lost \cup Objs(result) /\ collected = <<>>

\* The rest of the inodes' copying.
Cleans ==
    /\ CClean
    /\ UNCHANGED <<loaded, mk, mem, table, disk, collected, result, dirtyBlocks>> /\ Rest' = Rest

\* The submitter takes blocks from the list.
Takes ==
    /\ UNCHANGED <<loaded, mk, mem, table, dirty, late, disk, lost, collected, result>>
    /\ Rest = <<>> /\ Rest' \in Seq(Blocks) /\ Rest' = sending'
    /\ \/ Rest' = <<ErrorBlock>> /\ dirtyBlocks' = dirtyBlocks
       \/ /\ TakesGroup
          /\ Sorted(First) => Sorted(Rest')
          /\ \A o \in Copied : Versions(Rest', o) = Versions(First, o)
          /\ Super \in Objs(Rest') <=> Super \in Objs(First)
          /\ NoCopies(First')

\* It writes a block.
Writes ==
    /\ Rest \in Seq(Blocks) /\ Rest # <<>> /\ Rest' = Tail(Rest) /\ Head(Rest) \in Blocks
    /\ \/ /\ disk' = Written(Head(Rest))
          /\ lost' = {o \in lost : IF o = Super THEN Head(Rest).obj # Super
                                                ELSE phase # "open" \/ disk'[o] # mem[o]}
       \/ disk' = disk /\ lost' = lost \cup {Head(Rest).obj}
    /\ UNCHANGED <<loaded, mk, mem, table, dirty, late, collected, result, dirtyBlocks>>

\* Copies stay in first groups.
LEMMA CopiesFirstStep ==
    ASSUME QueueInv, UserStep \/ Collector \/ Submitter \/ UNCHANGED wbVars
    PROVE  CopiesFirst'
<1> USE DEF QueueInv
<1>0. dirtyBlocks \in Seq(Seq(Blocks)) /\ collected \in Seq(Seq(Blocks)) /\ result \in Seq(Blocks)
  BY DEF PlaceInv, WbTypeOK
<1>1. ASSUME UNCHANGED <<dirtyBlocks, collected>> PROVE CopiesFirst'
  BY <1>1 DEF CopiesFirst
<1>2. CASE UserStep \/ UNCHANGED wbVars \/ CStart \/ CClean \/ CFlushOrClose \/ CFinish \/ SFinish \/ SWrite
  BY <1>1, <1>2 DEF UserStep, wbVars, listVars, cVars, OpenForWrite, CloseForWrite, Mkdir, MkdirEntry,
     MkdirLinks, CStart, CClean, CFlushOrClose, CFinish, SFinish, SWrite
<1>3. CASE CGetWrites
  <2>1. \A k \in DOMAIN collected' : k > 1 => NoCopies(collected'[k])
    BY <1>3, CollectedGroups DEF PlaceInv
  <2>2. dirtyBlocks' = dirtyBlocks
    BY <1>3 DEF CGetWrites, listVars
  <2>3. QED
    BY <2>1, <2>2 DEF CopiesFirst
<1>4. CASE CAppend
  <2>1. dirtyBlocks' = Merged(dirtyBlocks, collected) /\ collected' = <<>>
    BY <1>4 DEF CAppend
  <2>2. \A k \in DOMAIN dirtyBlocks' : k > 1 => NoCopies(dirtyBlocks'[k])
    BY <1>0, <2>1, MergedGroups DEF CopiesFirst
  <2>3. QED
    BY <2>1, <2>2 DEF CopiesFirst
<1>5. CASE CRef
  <2>1. dirtyBlocks' = (IF dirtyBlocks = <<>> THEN <<(<<>>)>> ELSE dirtyBlocks) /\ collected' = collected
    BY <1>5 DEF CRef
  <2>2. QED
    BY <2>1 DEF CopiesFirst
<1>6. CASE CPush
  <2>1. collected' = collected
    BY <1>6 DEF CPush
  <2>2. CASE cList = "ok"
    <3>1. dirtyBlocks # <<>> /\ dirtyBlocks' = [dirtyBlocks EXCEPT ![1] = @ \o result]
      BY <1>6, <2>2 DEF CPush, PlaceInv, CollectorAt
    <3>2. DOMAIN dirtyBlocks' = DOMAIN dirtyBlocks
          /\ \A k \in DOMAIN dirtyBlocks : k > 1 => dirtyBlocks'[k] = dirtyBlocks[k]
      BY <1>0, <3>1, PushedGroup
    <3>3. QED
      BY <2>1, <3>2 DEF CopiesFirst
  <2>3. CASE cList # "ok"
    BY <1>1, <1>6, <2>1, <2>3 DEF CPush
  <2>4. QED
    BY <2>2, <2>3
<1>7. CASE STake
  <2>1. collected' = collected
    BY <1>7 DEF STake
  <2>2. TakesNow \/ TakesGroup
    BY <1>7, TakeStep
  <2>3. CASE TakesNow
    BY <1>1, <2>1, <2>3 DEF TakesNow
  <2>4. CASE TakesGroup
    BY <2>1, <2>4 DEF TakesGroup, CopiesFirst
  <2>5. QED
    BY <2>2, <2>3, <2>4
<1>8. QED
  BY <1>2, <1>3, <1>4, <1>5, <1>6, <1>7 DEF Collector, Submitter

\* The types, the places and the places of the copies hold in every state.
LEMMA QueueInvHolds == Spec => []QueueInv
<1>1. Init => CopiesFirst
  BY DEF Init, WbInit, CopiesFirst
<1>2. QueueInv /\ PlaceInv' /\ [Next]_vars => QueueInv'
  BY CopiesFirstStep, WriterSteps DEF QueueInv
<1>3. QED
  <2>1. Init /\ PlaceInv => QueueInv
    BY <1>1 DEF QueueInv
  <2>2. QED
    BY <1>2, <2>1, PlaceInvHolds, PTL DEF Spec

\* What a step of the users, of mounting and unmounting is.
LEMMA UserKinds ==
    ASSUME QueueInv, UserStep
    PROVE  Quiet \/ \E S \in SUBSET Content : Changes(S)
<1>1. CASE OpenForWrite \/ CloseForWrite
  <2>1. UNCHANGED <<userVars, table, dirty, dirtyBlocks, cVars, sVars, diskVars, lost>>
    BY <1>1 DEF OpenForWrite, CloseForWrite, listVars, observers
  <2>2. QED
    BY <2>1 DEF Quiet, Rest, First, userVars, cVars, sVars, diskVars
<1>2. ASSUME NEW S \in SUBSET Content, Change(S), MarkDirty(S),
             UNCHANGED <<table, listVars, cVars, sVars, diskVars, lost>>
      PROVE  Changes(S)
  BY <1>2 DEF Changes, Change, MarkDirty, Rest, listVars, cVars, sVars, diskVars
<1>3. CASE MkdirEntry
  <2> DEFINE S(grows) == {Data(mk.dir)} \cup InitializeDirectory(mk.new)
                         \cup (IF grows THEN {Meta(mk.dir)} ELSE {})
  <2>1. \A grows \in Grows : S(grows) \in SUBSET Content
    <3>1. {Data(mk.dir), Meta(mk.dir), Data(mk.new), Meta(mk.new)} \subseteq Content
      BY Objects DEF QueueInv, PlaceInv, WbTypeOK
    <3>2. QED
      BY <3>1 DEF InitializeDirectory
  <2>2. QED
    BY <1>2, <1>3, <2>1 DEF MkdirEntry, observers
<1>4. CASE MkdirLinks
  <2>1. {Meta(mk.dir), Groups} \in SUBSET Content
    BY Objects DEF QueueInv, PlaceInv, WbTypeOK
  <2>2. QED
    BY <1>2, <1>4, <2>1 DEF MkdirLinks, observers
<1>5. ASSUME NEW d \in Inode, NEW ok \in BOOLEAN, Mkdir(d, ok)
      PROVE  \E S \in SUBSET Content : Changes(S)
  <2> DEFINE got == {inodeCount + 1} \cap Inode
             S == Allocation \cup {Meta(i) : i \in IF ok THEN got ELSE {}}
  <2>1. S \in SUBSET Content
    BY Objects DEF Allocation
  <2>2. QED
    BY <1>2, <1>5, <2>1 DEF Mkdir, observers
<1>6. QED
  BY <1>1, <1>3, <1>4, <1>5 DEF UserStep

\* What a step of the collector is.
LEMMA CollectorKinds ==
    ASSUME QueueInv, Collector
    PROVE  Quiet \/ Collects \/ Publishes \/ Cleans
<1> USE DEF QueueInv
<1>0. /\ dirtyBlocks \in Seq(Seq(Blocks)) /\ collected \in Seq(Seq(Blocks)) /\ result \in Seq(Blocks)
      /\ Top(collected) \in Seq(Blocks)
  BY TopGroup DEF PlaceInv, WbTypeOK
<1>1. CASE CStart \/ CFinish
  BY <1>1 DEF CStart, CFinish, Quiet, Rest, First, userVars, listVars, sVars, diskVars, observers
<1>2. CASE CGetWrites
  <2>1. /\ UNCHANGED <<userVars, listVars, result, sVars, diskVars, lost>>
    BY <1>2 DEF CGetWrites, observers
  <2>2. late = {} /\ collected = <<>> /\ result = <<>>
    BY <1>2 DEF CGetWrites, PlaceInv, CollectorAt
  <2>3. Pending' = FirstWrites
    <3>1. Top(collected') = FirstWrites /\ FirstWrites \in Seq(Blocks)
      BY <1>2, CollectedGroups, WritesTyped DEF PlaceInv
    <3>2. QED
      BY <2>1, <2>2, <3>1, EmptyJoin DEF Pending
  <2>4. /\ FirstWrites \in Seq(Blocks) /\ Sorted(FirstWrites)
        /\ \A o \in Copied : Versions(FirstWrites, o)
                       = IF o = Bitmap /\ Bitmap \in dirty THEN {mem[Bitmap]} ELSE {}
    BY WritesTyped DEF PlaceInv
  <2>5. /\ dirty' = dirty \ ({Data(i) : i \in Datas} \cup {Bitmap})
        /\ late' = Metas /\ Metas \in SUBSET Inode /\ Datas \in SUBSET Inode
        /\ table' = [i \in Inode |-> IF i \in Metas THEN mem[Meta(i)] ELSE table[i]]
    BY <1>2, GetWritesStep, WritesTyped DEF PlaceInv, CopyInodes
  <2>6. \A o \in Copied : /\ \A v \in Versions(Pending', o) : v = mem[o]
                          /\ o \in dirty \ dirty' => mem[o] \in Versions(Pending', o)
    <3>1. \A o \in Copied : o \in dirty \ dirty' => o = Bitmap
      BY <2>5, Objects
    <3>2. QED
      BY <2>3, <2>4, <3>1
  <2>7. ASSUME NEW i \in Inode
        PROVE  /\ Data(i) \in dirty \ dirty' => Held(Data(i))'
               /\ i \in late' => Held(Meta(i))'
               /\ Meta(i) \in dirty => Meta(i) \in dirty'
    <3>1. \A o : InGroups(collected', o) <=> o \in Objs(FirstWrites) \cup Objs(SecondWrites)
      BY <1>2, CollectedGroups DEF PlaceInv
    <3>2. /\ Objs(FirstWrites) = {Data(j) : j \in Datas} \cup {Meta(j) : j \in Metas \ Datas}
                                    \cup (dirty \cap {Bitmap})
          /\ Objs(SecondWrites) = {Meta(j) : j \in Datas \cap Metas}
      BY WritesTyped DEF PlaceInv
    <3>3. Data(i) \in dirty \ dirty' => Data(i) \in Objs(FirstWrites)
      BY <2>5, <3>2, Objects DEF Copied
    <3>4. i \in late' => Meta(i) \in Objs(FirstWrites) \cup Objs(SecondWrites)
      BY <2>5, <3>2
    <3>5. Meta(i) \in dirty => Meta(i) \in dirty'
      BY <2>5, Objects DEF Copied
    <3>6. QED
      BY <3>1, <3>3, <3>4, <3>5 DEF Held
  <2>8. \A i \in Inode : table'[i] = IF i \in late' THEN mem[Meta(i)] ELSE table[i]
    BY <2>5
  <2>9. Collects
    BY <1>2, <2>1, <2>2, <2>3, <2>4, <2>5, <2>6, <2>7, <2>8 DEF Collects, Rest, userVars, listVars, sVars,
       diskVars
  <2>10. QED
    BY <2>9
<1>3. CASE CClean
  BY <1>3 DEF Cleans, CClean, Rest, userVars, listVars, sVars, diskVars
<1>4. CASE CAppend
  <2>1. /\ dirtyBlocks' = Merged(dirtyBlocks, collected) /\ collected' = <<>> /\ late = {}
        /\ UNCHANGED <<userVars, table, dirty, late, result, sVars, diskVars, lost>>
        /\ result = <<>>
    BY <1>4 DEF CAppend, PlaceInv, CollectorAt, observers
  <2>2. /\ Top(dirtyBlocks') = Top(dirtyBlocks) \o Top(collected)
        /\ \A o : InGroups(dirtyBlocks', o) <=> InGroups(dirtyBlocks, o) \/ InGroups(collected, o)
    BY <1>0, <2>1, MergedGroups
  <2>3. Pending = Top(collected)
    BY <1>0, <2>1, EmptyJoin DEF Pending
  <2>4. \A o : Held(o) <=> InGroups(collected, o)
    BY <2>1, ShortQueues DEF Held
  <2>5. First' = First \o Pending
    BY <2>2, <2>3 DEF First
  <2>6. \A o : InGroups(dirtyBlocks', o) <=> InGroups(dirtyBlocks, o) \/ Held(o)
    BY <2>2, <2>4
  <2>7. Publishes
    BY <2>1, <2>5, <2>6 DEF Publishes, Rest, userVars, sVars, diskVars
  <2>8. QED
    BY <2>7
<1>5. CASE CFlushOrClose
  <2>1. FlushOutcome /\ UNCHANGED <<inodeCount, mk, mem, listVars, collected, sVars, diskVars, lost>>
    BY <1>5, FlushResult DEF CFlushOrClose, PlaceInv
  <2>2. late = {} /\ collected = <<>> /\ result = <<>>
    BY <1>5 DEF CFlushOrClose, PlaceInv, CollectorAt
  <2>3. Pending' = result'
    <3>1. result' \in Seq(Blocks) /\ Top(collected') = <<>>
      BY <2>1, <2>2 DEF FlushOutcome, Top
    <3>2. QED
      BY <3>1, EmptyJoin DEF Pending
  <2>4. \A i \in Inode : /\ Data(i) \in dirty \ dirty' => Held(Data(i))'
                         /\ i \in late' => Held(Meta(i))'
    BY <2>1 DEF FlushOutcome, Held
  <2>5. Collects
    BY <1>5, <2>1, <2>2, <2>3, <2>4 DEF FlushOutcome, Collects, Rest, listVars, sVars, diskVars
  <2>6. QED
    BY <2>5
<1>6. CASE CRef
  <2>1. /\ dirtyBlocks' = IF dirtyBlocks = <<>> THEN <<(<<>>)>> ELSE dirtyBlocks
        /\ UNCHANGED <<userVars, table, dirty, late, collected, result, sVars, diskVars, lost>>
    BY <1>6 DEF CRef, observers
  <2>2. First' = First
    BY <2>1 DEF First, Top
  <2>3. \A o : InGroups(dirtyBlocks', o) <=> InGroups(dirtyBlocks, o)
    BY <2>1, ShortQueues DEF InGroups
  <2>4. Quiet
    BY <2>1, <2>2, <2>3 DEF Quiet, Rest, userVars, sVars, diskVars
  <2>5. QED
    BY <2>4
<1>7. CASE CPush
  <2>1. /\ result' = <<>> /\ UNCHANGED <<userVars, table, dirty, collected, late, sVars, diskVars>>
        /\ collected = <<>> /\ late = {}
    BY <1>7 DEF CPush, PlaceInv, CollectorAt
  <2>2. Pending = result
    <3>1. Top(collected) = <<>>
      BY <2>1 DEF Top
    <3>2. QED
      BY <1>0, <3>1, EmptyJoin DEF Pending
  <2>3. \A o : Held(o) <=> o \in Objs(result)
    BY <2>1 DEF Held, InGroups
  <2>4. CASE cList = "ok"
    <3>1. /\ dirtyBlocks # <<>> /\ dirtyBlocks' = [dirtyBlocks EXCEPT ![1] = @ \o result]
          /\ lost' = lost
      BY <1>7, <2>4 DEF CPush, PlaceInv, CollectorAt
    <3>2. /\ Top(dirtyBlocks') = Top(dirtyBlocks) \o result
          /\ \A o : InGroups(dirtyBlocks', o) <=> InGroups(dirtyBlocks, o) \/ o \in Objs(result)
      BY <1>0, <3>1, PushedGroup
    <3>3. First' = First \o Pending
      BY <2>2, <3>2 DEF First
    <3>4. \A o : InGroups(dirtyBlocks', o) <=> InGroups(dirtyBlocks, o) \/ Held(o)
      BY <2>3, <3>2
    <3>5. Publishes
      BY <2>1, <3>1, <3>3, <3>4 DEF Publishes, Rest, userVars, sVars, diskVars
    <3>6. QED
      BY <3>5
  <2>5. CASE cList # "ok"
    <3>1. dirtyBlocks' = dirtyBlocks /\ lost' = lost \cup Objs(result)
      BY <1>7, <2>5 DEF CPush
    <3>2. Publishes
      BY <2>1, <3>1 DEF Publishes, Rest, userVars, sVars, diskVars
    <3>3. QED
      BY <3>2
  <2>6. QED
    BY <2>4, <2>5
<1>8. QED
  BY <1>1, <1>2, <1>3, <1>4, <1>5, <1>6, <1>7 DEF Collector

\* The group that the submitter takes has the copies of the first group, and
\* leaves none in the next one.
LEMMA TakenCopies ==
    ASSUME QueueInv, STake, TakesGroup
    PROVE  /\ Sorted(First) => Sorted(Rest')
           /\ \A o \in Copied : Versions(Rest', o) = Versions(First, o)
           /\ Super \in Objs(Rest') <=> Super \in Objs(First)
           /\ NoCopies(First')
<1> USE DEF QueueInv
<1>1. Rest' = sending' /\ dirtyBlocks' \in Seq(Seq(Blocks))
  BY TakeStep
<1> DEFINE Same == /\ Sorted(First) => Sorted(Rest')
                   /\ \A o \in Copied : Versions(Rest', o) = Versions(First, o)
                   /\ Super \in Objs(Rest') <=> Super \in Objs(First)
<1>2. ASSUME sending' = First PROVE Same
  BY <1>1, <1>2
<1>3. ASSUME First = <<>>, \E n \in DOMAIN dirtyBlocks : n > 1 /\ sending' = dirtyBlocks[n]
      PROVE  Same
  <2>1. NoCopies(sending')
    BY <1>3 DEF CopiesFirst
  <2>2. QED
    BY <1>1, <1>3, <2>1, NoCopiesQueue, ShortQueues
<1>4. Same
  BY <1>2, <1>3 DEF TakesGroup, First
<1>5. NoCopies(First')
  <2>1. CASE dirtyBlocks' = <<>>
    BY <2>1, ShortQueues DEF First, Top
  <2>2. CASE dirtyBlocks' # <<>>
    <3>1. 1 \in DOMAIN dirtyBlocks' /\ First' = dirtyBlocks'[1]
      BY <1>1, <2>2 DEF First, Top
    <3>2. QED
      BY <3>1 DEF TakesGroup, CopiesFirst
  <2>3. QED
    BY <2>1, <2>2
<1>6. QED
  BY <1>4, <1>5

\* What a step of the submitter is.
LEMMA SubmitterKinds ==
    ASSUME QueueInv, Submitter
    PROVE  Quiet \/ Takes \/ Writes
<1>1. CASE STake
  <2>1. UNCHANGED <<userVars, table, dirty, collected, late, result, diskVars, lost>>
    BY <1>1 DEF STake, observers
  <2>2. Rest = <<>> /\ Rest' = sending' /\ sending' \in Seq(Blocks) /\ (TakesNow \/ TakesGroup)
    BY <1>1, TakeStep DEF QueueInv
  <2>3. CASE TakesNow
    BY <2>1, <2>2, <2>3 DEF Takes, TakesNow, userVars, diskVars
  <2>4. CASE TakesGroup
    BY <1>1, <2>1, <2>2, <2>4, TakenCopies DEF Takes, userVars, diskVars
  <2>5. QED
    BY <2>2, <2>3, <2>4
<1>2. CASE SFinish
  BY <1>2 DEF SFinish, Quiet, Rest, First, userVars, listVars, cVars, sVars, diskVars, observers
<1>3. CASE SWrite
  BY <1>3, WriteCases DEF QueueInv, Writes, userVars, listVars, cVars
<1>4. QED
  BY <1>1, <1>2, <1>3 DEF Submitter

\* The kinds of steps.
LEMMA StepKinds ==
    ASSUME QueueInv, [Next]_vars
    PROVE  \/ Quiet \/ \E S \in SUBSET Content : Changes(S)
           \/ Collects \/ Publishes \/ Cleans \/ Takes \/ Writes
<1>1. CASE UNCHANGED wbVars
  BY <1>1 DEF Quiet, Rest, First, wbVars, userVars, listVars, cVars, sVars, diskVars, observers
<1>2. QED
  BY <1>1, WriterSteps, UserKinds, CollectorKinds, SubmitterKinds

-----------------------------------------------------------------------------
(***************************************************************************)
(* Inodes that are used, dirty or in a queue are in memory, so that        *)
(* FlushOrClose() is not done while there is one.                          *)
(***************************************************************************)
Around(o) == o \in dirty \/ Queued(o)
Referred ==
    /\ mk.at # "idle" => {mk.dir, mk.new} \subseteq loaded
    /\ \A i \in Inode : Around(Data(i)) \/ Around(Meta(i)) => i \in loaded

\* What is in a queue is in a block.
LEMMA QueuedInBlocks ==
    ASSUME WbTypeOK, NEW o, Queued(o)
    PROVE  o \in InBlocks
<1> DEFINE all(gs) == UNION {Objs(gs[k]) : k \in DOMAIN gs}
<1>1. ASSUME NEW gs, InGroups(gs, o) PROVE o \in all(gs)
  BY <1>1 DEF InGroups
<1>2. o \in Objs(Rest) => o \in Objs(sending)
  BY WholeRest
<1>3. InBlocks = all(dirtyBlocks) \cup all(collected)
                   \cup Objs(flushNow) \cup Objs(result) \cup Objs(sending) \cup leaked
  BY DEF InBlocks
<1> HIDE DEF all
<1>4. QED
  BY <1>1, <1>2, <1>3 DEF Queued, Held

\* Only changed inodes and data become dirty, and they are in memory.
LEMMA UserReferred ==
    ASSUME QueueInv, Referred, UserStep
    PROVE  Referred'
<1>0. WbTypeOK
  BY DEF QueueInv, PlaceInv
<1>1. ASSUME UNCHANGED <<dirtyBlocks, cVars, sVars>>
      PROVE  \A o : Queued(o)' <=> Queued(o)
  BY <1>1 DEF Queued, Held, Rest, cVars, sVars
<1>2. CASE OpenForWrite \/ CloseForWrite
  <2>1. UNCHANGED <<userVars, dirty, dirtyBlocks, cVars, sVars>>
    BY <1>2 DEF OpenForWrite, CloseForWrite, listVars
  <2>2. QED
    BY <1>1, <2>1 DEF Referred, Around, userVars
<1>3. CASE MkdirEntry
  <2>1. /\ dirty' \subseteq dirty \cup {Data(mk.dir), Meta(mk.dir), Data(mk.new), Meta(mk.new)}
        /\ mk' = [mk EXCEPT !.at = "links"] /\ mk.at = "entry" /\ loaded' = loaded
        /\ UNCHANGED <<dirtyBlocks, cVars, sVars>>
    BY <1>3 DEF MkdirEntry, MarkDirty, InitializeDirectory, At, listVars
  <2>2. mk'.dir = mk.dir /\ mk'.new = mk.new /\ mk.dir \in Inode /\ mk.new \in Inode
    BY <1>0, <2>1 DEF WbTypeOK
  <2>3. QED
    BY <1>1, <2>1, <2>2, Objects DEF Referred, Around
<1>4. CASE MkdirLinks
  <2>1. /\ dirty' = dirty \cup {Meta(mk.dir), Groups} /\ mk.at = "links" /\ loaded' = loaded
        /\ mk' = [mk EXCEPT !.at = "idle"] /\ UNCHANGED <<dirtyBlocks, cVars, sVars>>
    BY <1>4 DEF MkdirLinks, MarkDirty, At, listVars
  <2>2. mk.dir \in Inode /\ mk'.at = "idle"
    BY <1>0, <2>1 DEF WbTypeOK
  <2>3. QED
    BY <1>1, <2>1, <2>2, Objects DEF Referred, Around, Copied
<1>5. ASSUME NEW d \in Inode, NEW ok \in BOOLEAN, Mkdir(d, ok) PROVE Referred'
  <2> DEFINE n == inodeCount + 1
             got == {n} \cap Inode
             S == Allocation \cup {Meta(i) : i \in IF ok THEN got ELSE {}}
  <2>1. /\ loaded' = loaded \cup ({d} \cup got) /\ (ok => got # {}) /\ mk.at = "idle"
        /\ mk' = IF ok THEN [at |-> "entry", dir |-> d, new |-> n] ELSE mk
        /\ dirty' = dirty \cup S /\ UNCHANGED <<dirtyBlocks, cVars, sVars>>
    BY <1>5 DEF Mkdir, GetInode, MarkDirty, listVars
  <2>2. \A o : Queued(o)' <=> Queued(o)
    BY <1>1, <2>1
  <2>3. \A i \in Inode : Data(i) \notin S /\ (Meta(i) \in S => i \in got)
    BY Objects DEF Allocation, Copied
  <2>4. mk'.at # "idle" => {mk'.dir, mk'.new} \subseteq loaded'
    BY <2>1
  <2> HIDE DEF S, got
  <2>5. QED
    BY <2>1, <2>2, <2>3, <2>4 DEF Referred, Around
<1>6. QED
  BY <1>2, <1>3, <1>4, <1>5 DEF UserStep

\* What is left in memory by a step that only moves blocks along.
LEMMA MovedReferred ==
    ASSUME Referred, UNCHANGED <<mk, loaded>>, dirty' \subseteq dirty,
           \A o \in Content : Queued(o)' => Around(o)
    PROVE  Referred'
BY Objects DEF Referred, Around

\* The collector makes blocks of what is in memory, and drops what nobody
\* refers to.
LEMMA CollectorReferred ==
    ASSUME QueueInv, Referred, CGetWrites \/ CFlushOrClose
    PROVE  Referred'
<1>0. WbTypeOK
  BY DEF QueueInv, PlaceInv
<1>1. CASE CGetWrites
  <2>1. UNCHANGED <<userVars, listVars, result, sVars>> /\ dirty' \subseteq dirty
    BY <1>1, GetWritesStep DEF CGetWrites
  <2>2. ASSUME NEW o \in Content, InGroups(collected', o) PROVE o \in dirty
    <3>1. o \in Objs(FirstWrites) \cup Objs(SecondWrites)
      BY <1>0, <1>1, <2>2, CollectedGroups
    <3>2. /\ Objs(FirstWrites) = {Data(i) : i \in Datas} \cup {Meta(i) : i \in Metas \ Datas}
                                  \cup (dirty \cap {Bitmap})
          /\ Objs(SecondWrites) = {Meta(i) : i \in Datas \cap Metas}
      BY <1>0, WritesTyped
    <3>3. QED
      BY <3>1, <3>2 DEF Datas, Metas
  <2>3. \A o \in Content : Queued(o)' => Around(o)
    BY <2>1, <2>2 DEF Queued, Held, Around, Rest, listVars, sVars
  <2>4. QED
    BY <2>1, <2>3, MovedReferred DEF userVars
<1>2. CASE CFlushOrClose
  <2>1. loaded' = FlushKept /\ FlushOutcome
    BY <1>0, <1>2, FlushResult
  <2>2. UNCHANGED <<mk, listVars, collected, sVars>>
    BY <1>2 DEF CFlushOrClose
  <2>3. \A o : Queued(o)' => Queued(o) \/ o \in Objs(result')
    BY <2>2 DEF Queued, Held, Rest, listVars, sVars
  <2>4. ASSUME NEW i \in loaded, i \notin FlushKept
        PROVE  ~InUse(i) /\ ~Around(Data(i)) /\ ~Around(Meta(i))
    <3>1. FlushData(i) /\ Meta(i) \notin dirty
      BY <2>4 DEF FlushKept, Flushed, FlushMetas
    <3>2. QED
      BY <1>0, <3>1, QueuedInBlocks DEF FlushData, InUse, Around
  <2>5. mk'.at # "idle" => {mk'.dir, mk'.new} \subseteq loaded'
    BY <2>1, <2>2, <2>4 DEF Referred, InUse
  <2>6. ASSUME NEW i \in Inode, (Around(Data(i)) \/ Around(Meta(i)))' PROVE i \in loaded'
    <3>1. CASE Around(Data(i)) \/ Around(Meta(i))
      BY <2>1, <2>4, <3>1 DEF Referred
    <3>2. CASE ~(Around(Data(i)) \/ Around(Meta(i)))
      <4>1. Data(i) \in Objs(result') \/ Meta(i) \in Objs(result')
        BY <2>1, <2>3, <2>6, <3>2 DEF Around, FlushOutcome
      <4>2. QED
        BY <2>1, <4>1 DEF FlushOutcome
    <3>3. QED
      BY <3>1, <3>2
  <2>7. QED
    BY <2>5, <2>6 DEF Referred
<1>3. QED
  BY <1>1, <1>2

\* Every other step moves blocks along.
LEMMA OtherReferred ==
    ASSUME QueueInv, Referred, Quiet \/ Publishes \/ Cleans \/ Takes \/ Writes
    PROVE  Referred'
<1>1. CASE Quiet
  BY <1>1, MovedReferred DEF Quiet, Queued, Held, Around
<1>2. CASE Publishes
  <2>1. \A o : ~Held(o)'
    BY <1>2, ShortQueues DEF Publishes, Held, InGroups
  <2>2. \A o : InGroups(dirtyBlocks', o) => InGroups(dirtyBlocks, o) \/ Held(o)
    BY <1>2 DEF Publishes
  <2>3. Rest' = Rest /\ UNCHANGED <<mk, loaded, dirty>>
    BY <1>2 DEF Publishes
  <2>4. \A o \in Content : Queued(o)' => Queued(o)
    BY <2>1, <2>2, <2>3 DEF Queued
  <2>5. QED
    BY <2>3, <2>4, MovedReferred DEF Around
<1>3. CASE Cleans
  BY <1>3, MovedReferred DEF Cleans, CClean, Queued, Held, Around
<1>4. CASE Takes
  <2>1. \A o \in Content : o \in Objs(Rest') \/ InGroups(dirtyBlocks', o) => InGroups(dirtyBlocks, o)
    <3>1. CASE Rest' = <<ErrorBlock>> /\ dirtyBlocks' = dirtyBlocks
      <4>1. ErrorBlock \in Blocks /\ ErrorBlock.obj = Super
        BY BlockFields DEF ErrorBlock, EXT2_ERROR_FS
      <4>2. Objs(Rest') = {Super}
        BY <3>1, <4>1, ShortQueues
      <4>3. QED
        BY <3>1, <4>2, Objects
    <3>2. CASE TakesGroup
      <4>1. \A o : InGroups(dirtyBlocks, o) <=> o \in Objs(sending') \/ InGroups(dirtyBlocks', o)
        BY <3>2 DEF TakesGroup
      <4>2. Objs(Rest') \subseteq Objs(sending')
        BY <1>4 DEF Takes
      <4>3. QED
        BY <4>1, <4>2
    <3>3. QED
      BY <1>4, <3>1, <3>2 DEF Takes
  <2>2. QED
    BY <1>4, <2>1, MovedReferred DEF Takes, Queued, Held, Around
<1>5. CASE Writes
  <2>1. Objs(Rest') \subseteq Objs(Rest)
    BY <1>5, FirstBlock DEF Writes
  <2>2. QED
    BY <1>5, <2>1, MovedReferred DEF Writes, Queued, Held, Around
<1>6. QED
  BY <1>1, <1>2, <1>3, <1>4, <1>5

\* Nothing that is used, dirty or in a queue is ever dropped from memory.
LEMMA ReferredHolds == Spec => []Referred
<1>1. Init => Referred
  <2>1. SUFFICES ASSUME WbInit PROVE Referred
    BY DEF Init
  <2>2. dirty = {} /\ mk.at = "idle" /\ \A o : ~InGroups(dirtyBlocks, o) /\ ~InGroups(collected, o)
    BY <2>1 DEF WbInit, InGroups
  <2>3. Rest = <<>> /\ result = <<>>
    BY <2>1 DEF WbInit, Rest
  <2>4. QED
    BY <2>2, <2>3, ShortQueues DEF Referred, Around, Queued, Held
<1>2. QueueInv /\ Referred /\ [Next]_vars => Referred'
  <2>1. SUFFICES ASSUME QueueInv, Referred, [Next]_vars PROVE Referred'
    OBVIOUS
  <2>2. CASE UserStep
    BY <2>1, <2>2, UserReferred
  <2>3. CASE CGetWrites \/ CFlushOrClose
    BY <2>1, <2>3, CollectorReferred
  <2>4. QED
    BY <2>1, <2>2, <2>3, StepKinds, OtherReferred DEF Changes, Collects
<1>3. QED
  BY <1>1, <1>2, QueueInvHolds, PTL DEF Spec

-----------------------------------------------------------------------------
(***************************************************************************)
(* Where the newest version of an object is.  The copies of an object are  *)
(* on their way in the order of their versions; what is in the table is    *)
(* not older than what is on the device; and what is not on the device is  *)
(* dirty, or in a queue, or was lost.                                      *)
(***************************************************************************)
TableOrder == \A i \in Inode : disk[Meta(i)] <= table[i] /\ table[i] <= mem[Meta(i)]

CopyOrder ==
    /\ \A o \in Copied : disk[o] <= mem[o]
    /\ Sorted(Rest) /\ Sorted(First) /\ Sorted(Pending)
    /\ Recent(Rest) /\ Recent(First) /\ Recent(Pending)
    /\ Older(Rest, First) /\ Older(Rest, Pending) /\ Older(First, Pending)

Settled(o) == disk[o] = mem[o] \/ o \in lost
QueuedNow(o) == mem[o] \in Versions(Rest, o) \cup Versions(First, o) \cup Versions(Pending, o)
DataAccounted(i) == Settled(Data(i)) \/ Data(i) \in dirty \/ Queued(Data(i))
MetaAccounted(i) ==
    \/ Settled(Meta(i)) \/ Meta(i) \in dirty
    \/ Queued(Meta(i)) /\ table[i] = mem[Meta(i)]
CopyAccounted(o) == Settled(o) \/ o \in dirty \/ QueuedNow(o)
Accounted ==
    /\ \A i \in Inode : DataAccounted(i) /\ MetaAccounted(i)
    /\ \A o \in Copied : CopyAccounted(o)
    /\ \A i \in late : Held(Meta(i))

VersionInv == TableOrder /\ CopyOrder /\ Accounted

\* Versions are numbers.
LEMMA VersionTypes ==
    ASSUME WbTypeOK
    PROVE  /\ \A o \in Content : mem[o] \in Nat /\ disk[o] \in Nat
           /\ \A i \in Inode : table[i] \in Nat
           /\ \A o : /\ Versions(Rest, o) \subseteq Nat /\ Versions(First, o) \subseteq Nat
                     /\ Versions(Pending, o) \subseteq Nat
           /\ \A o \in Copied : o \in Content
<1>1. \A s \in Seq(Blocks) : \A o : Versions(s, o) \subseteq Nat
  BY BlockFields DEF Versions
<1>2. QED
  BY <1>1, QueueTypes, Objects DEF WbTypeOK, Copied

\* What is queued stays so when only the versions change.
LEMMA SameQueues ==
    ASSUME Rest' = Rest, UNCHANGED <<dirtyBlocks, collected, result>>
    PROVE  /\ First' = First /\ Pending' = Pending
           /\ \A o : (Held(o)' <=> Held(o)) /\ (Queued(o)' <=> Queued(o))
BY DEF First, Pending, Held, Queued

\* Quiet steps change none of it.
LEMMA QuietVersions ==
    ASSUME VersionInv, Quiet
    PROVE  VersionInv'
<1>1. /\ Pending' = Pending /\ Rest' = Rest /\ First' = First
      /\ \A o : (Held(o)' <=> Held(o)) /\ (Queued(o)' <=> Queued(o))
      /\ UNCHANGED <<mem, table, dirty, late, disk, lost>>
  BY DEF Quiet, Pending, Held, Queued
<1>2. QED
  BY <1>1 DEF VersionInv, TableOrder, CopyOrder, Recent, Accounted, DataAccounted, MetaAccounted,
     CopyAccounted, Settled, QueuedNow

\* Users make new versions, which are dirty.
LEMMA ChangesVersions ==
    ASSUME WbTypeOK, VersionInv, NEW S \in SUBSET Content, Changes(S)
    PROVE  VersionInv'
<1>1. /\ Pending' = Pending /\ Rest' = Rest /\ First' = First
      /\ \A o : (Held(o)' <=> Held(o)) /\ (Queued(o)' <=> Queued(o))
      /\ UNCHANGED <<table, late, disk, lost>> /\ dirty' = dirty \cup S
  BY SameQueues DEF Changes
<1>2. \A o \in Content : mem'[o] = (IF o \in S THEN mem[o] + 1 ELSE mem[o]) /\ mem[o] \in Nat
  BY DEF Changes, WbTypeOK
<1>3. \A o \in Content : mem[o] <= mem'[o]
  BY <1>2
<1>4. TableOrder'
  <2>1. ASSUME NEW i \in Inode PROVE disk[Meta(i)] <= table[i] /\ table[i] <= mem'[Meta(i)]
    <3>1. mem[Meta(i)] <= mem'[Meta(i)] /\ table[i] <= mem[Meta(i)] /\ disk[Meta(i)] <= table[i]
      BY <1>3, Objects DEF VersionInv, TableOrder
    <3>2. table[i] \in Nat /\ mem[Meta(i)] \in Nat /\ mem'[Meta(i)] \in Nat
      BY <1>2, VersionTypes, Objects
    <3>3. QED
      BY <3>1, <3>2
  <2>2. QED
    BY <1>1, <2>1 DEF TableOrder
<1>5. CopyOrder'
  <2>1. ASSUME NEW o \in Copied, NEW v \in Nat, v <= mem[o] PROVE v <= mem'[o]
    <3>1. mem[o] \in Nat /\ mem'[o] \in Nat /\ mem[o] <= mem'[o]
      BY <1>2, <1>3, VersionTypes
    <3>2. QED
      BY <2>1, <3>1
  <2>2. \A o \in Copied : disk[o] <= mem'[o]
    BY <2>1, VersionTypes DEF VersionInv, CopyOrder
  <2>3. Recent(Rest)' /\ Recent(First)' /\ Recent(Pending)'
    BY <1>1, <2>1, VersionTypes DEF VersionInv, CopyOrder, Recent
  <2>4. QED
    BY <1>1, <2>2, <2>3 DEF VersionInv, CopyOrder
<1>6. Accounted'
  <2>1. \A o \in Content : o \in dirty' \/ mem'[o] = mem[o]
    BY <1>1, <1>2
  <2>2. \A i \in Inode : (DataAccounted(i) /\ MetaAccounted(i))'
    BY <1>1, <2>1, Objects DEF VersionInv, Accounted, DataAccounted, MetaAccounted, Settled
  <2>3. \A o \in Copied : CopyAccounted(o)'
    BY <1>1, <2>1, VersionTypes DEF VersionInv, Accounted, CopyAccounted, Settled, QueuedNow
  <2>4. QED
    BY <1>1, <2>2, <2>3 DEF VersionInv, Accounted
<1>7. QED
  BY <1>4, <1>5, <1>6 DEF VersionInv

\* The collector has the newest versions of what it marks clean.
LEMMA CollectsVersions ==
    ASSUME WbTypeOK, VersionInv, Collects
    PROVE  VersionInv'
<1>1. /\ Rest' = Rest /\ First' = First /\ UNCHANGED <<mem, disk, lost>> /\ dirty' \subseteq dirty
      /\ late' \in SUBSET Inode
      /\ \A i \in Inode : /\ table'[i] = IF i \in late' THEN mem[Meta(i)] ELSE table[i]
                          /\ Meta(i) \in dirty => Meta(i) \in dirty'
                          /\ Data(i) \in dirty \ dirty' => Held(Data(i))'
                          /\ i \in late' => Held(Meta(i))'
  BY DEF Collects, First
<1>2. \A o : ~Held(o) /\ (Queued(o) => Queued(o)') /\ (Held(o)' => Queued(o)')
  BY ShortQueues DEF Collects, Held, Queued, InGroups
<1>3. Pending = <<>> /\ \A o : Versions(Pending, o) = {}
  BY ShortQueues DEF Collects, Pending, Top
<1>4. TableOrder'
  <2>1. ASSUME NEW i \in Inode PROVE disk[Meta(i)] <= table'[i] /\ table'[i] <= mem[Meta(i)]
    <3>1. table[i] \in Nat /\ mem[Meta(i)] \in Nat /\ disk[Meta(i)] \in Nat
      BY VersionTypes, Objects
    <3>2. table[i] <= mem[Meta(i)] /\ disk[Meta(i)] <= table[i]
      BY DEF VersionInv, TableOrder
    <3>3. QED
      BY <1>1, <3>1, <3>2
  <2>2. QED
    BY <1>1, <2>1 DEF TableOrder
<1>5. CopyOrder'
  <2>1. \A o \in Copied : \A v \in Versions(Pending', o) : v = mem[o]
    BY DEF Collects
  <2>2. \A o \in Copied : disk[o] <= mem[o] /\ mem[o] <= mem[o]
    BY VersionTypes DEF VersionInv, CopyOrder
  <2>3. Recent(Rest)' /\ Recent(First)' /\ Recent(Pending)'
    BY <1>1, <2>1, <2>2 DEF VersionInv, CopyOrder, Recent
  <2>4. Older(Rest', Pending') /\ Older(First', Pending')
    BY <1>1, <2>1 DEF VersionInv, CopyOrder, Recent, Older
  <2>5. QED
    BY <1>1, <2>3, <2>4 DEF VersionInv, CopyOrder, Collects
<1>6. Accounted'
  <2>1. \A i \in Inode : DataAccounted(i)'
    BY <1>1, <1>2 DEF VersionInv, Accounted, DataAccounted, Settled
  <2>2. ASSUME NEW i \in Inode PROVE MetaAccounted(i)'
    <3>1. MetaAccounted(i)
      BY DEF VersionInv, Accounted
    <3>2. table[i] = mem[Meta(i)] => table'[i] = mem[Meta(i)]
      BY <1>1
    <3>3. QED
      BY <1>1, <1>2, <3>1, <3>2 DEF MetaAccounted, Settled
  <2>3. ASSUME NEW o \in Copied PROVE CopyAccounted(o)'
    <3>1. CopyAccounted(o)
      BY DEF VersionInv, Accounted
    <3>2. o \in dirty => o \in dirty' \/ mem[o] \in Versions(Pending', o)
      BY DEF Collects
    <3>3. QED
      BY <1>1, <1>3, <3>1, <3>2 DEF CopyAccounted, Settled, QueuedNow
  <2>4. QED
    BY <1>1, <2>1, <2>2, <2>3 DEF Accounted
<1>7. QED
  BY <1>4, <1>5, <1>6 DEF VersionInv

\* They go behind the first group.
LEMMA PublishesVersions ==
    ASSUME WbTypeOK, VersionInv, Publishes
    PROVE  VersionInv'
<1>1. /\ Rest' = Rest /\ UNCHANGED <<mem, table, dirty, disk>> /\ late = {} /\ late' = {}
      /\ lost \subseteq lost'
  BY DEF Publishes
<1>2. Pending' = <<>> /\ \A o : Versions(Pending', o) = {} /\ ~Held(o)'
  BY ShortQueues DEF Publishes, Pending, Top, Held, InGroups
<1>3. First \in Seq(Blocks) /\ Pending \in Seq(Blocks)
  BY QueueTypes
<1>4. TableOrder'
  BY <1>1 DEF VersionInv, TableOrder
<1>5. \/ /\ First' = First \o Pending /\ \A o : Versions(First', o) = Versions(First, o) \cup Versions(Pending, o)
      \/ /\ First' = First /\ Objs(result) \subseteq lost' /\ collected = <<>>
  <2>1. ASSUME First' = First \o Pending
        PROVE  \A o : Versions(First', o) = Versions(First, o) \cup Versions(Pending, o)
    BY <1>3, <2>1, JoinedQueues
  <2>2. dirtyBlocks' = dirtyBlocks => First' = First
    BY DEF First
  <2>3. QED
    BY <2>1, <2>2 DEF Publishes
<1>6. CopyOrder'
  <2>1. Recent(Rest)' /\ \A o \in Copied : disk'[o] <= mem'[o]
    BY <1>1 DEF VersionInv, CopyOrder, Recent
  <2>2. Sorted(First') /\ Recent(First)' /\ Older(Rest', First')
    <3>1. CASE /\ First' = First \o Pending
               /\ \A o : Versions(First', o) = Versions(First, o) \cup Versions(Pending, o)
      <4>1. Sorted(First')
        BY <1>3, <3>1, JoinedQueues DEF VersionInv, CopyOrder
      <4>2. QED
        BY <1>1, <3>1, <4>1 DEF VersionInv, CopyOrder, Recent, Older
    <3>2. CASE First' = First
      BY <1>1, <3>2 DEF VersionInv, CopyOrder, Recent
    <3>3. QED
      BY <1>5, <3>1, <3>2
  <2>3. Sorted(Pending') /\ Recent(Pending)' /\ Older(Rest', Pending') /\ Older(First', Pending')
    BY <1>2, ShortQueues DEF Recent, Older
  <2>4. QED
    BY <1>1, <2>1, <2>2, <2>3 DEF VersionInv, CopyOrder
<1>7. Accounted'
  <2>1. \A o : Queued(o) => Queued(o)' \/ o \in lost'
    BY <1>1 DEF Publishes, Queued, Held, InGroups
  <2>2. \A i \in Inode : (DataAccounted(i) /\ MetaAccounted(i))'
    BY <1>1, <2>1 DEF VersionInv, Accounted, DataAccounted, MetaAccounted, Settled
  <2>3. ASSUME NEW o \in Copied PROVE CopyAccounted(o)'
    <3>1. CopyAccounted(o)
      BY DEF VersionInv, Accounted
    <3>2. CASE Settled(o) \/ o \in dirty
      BY <1>1, <3>2 DEF CopyAccounted, Settled
    <3>3. CASE QueuedNow(o)
      <4>1. CASE \A x : Versions(First', x) = Versions(First, x) \cup Versions(Pending, x)
        BY <1>1, <3>3, <4>1 DEF CopyAccounted, QueuedNow
      <4>2. CASE First' = First /\ Objs(result) \subseteq lost' /\ collected = <<>>
        <5>1. Pending = result
          BY <4>2, EmptyJoin DEF Pending, Top, WbTypeOK
        <5>2. mem[o] \in Versions(Pending, o) => o \in lost'
          BY <4>2, <5>1 DEF Versions, Objs
        <5>3. QED
          BY <1>1, <3>3, <4>2, <5>2 DEF CopyAccounted, QueuedNow, Settled
      <4>3. QED
        BY <1>5, <4>1, <4>2
    <3>4. QED
      BY <3>1, <3>2, <3>3 DEF CopyAccounted
  <2>4. QED
    BY <1>1, <2>2, <2>3 DEF Accounted
<1>8. QED
  BY <1>4, <1>6, <1>7 DEF VersionInv

\* Inodes are marked clean when the table has their versions; what was changed
\* since is lost.
LEMMA CleansVersions ==
    ASSUME WbTypeOK, VersionInv, Cleans
    PROVE  VersionInv'
<1>1. /\ Pending' = Pending /\ Rest' = Rest /\ First' = First
      /\ \A o : (Held(o)' <=> Held(o)) /\ (Queued(o)' <=> Queued(o))
      /\ UNCHANGED <<mem, table, disk>>
  BY SameQueues DEF Cleans
<1>2. /\ dirty' = dirty \ {Meta(i) : i \in late} /\ late' = {}
      /\ lost' = lost \cup {Meta(i) : i \in {x \in late : table[x] # mem[Meta(x)]}}
  BY DEF Cleans, CClean
<1>3. late \in SUBSET Inode
  BY DEF WbTypeOK
<1>4. TableOrder' /\ CopyOrder'
  BY <1>1 DEF VersionInv, TableOrder, CopyOrder, Recent
<1>5. \A i \in Inode : DataAccounted(i)'
  BY <1>1, <1>2, <1>3, Objects DEF VersionInv, Accounted, DataAccounted, Settled
<1>6. ASSUME NEW i \in Inode PROVE MetaAccounted(i)'
  <2>1. MetaAccounted(i) /\ (i \in late => Queued(Meta(i)))
    BY DEF VersionInv, Accounted, Queued
  <2>2. CASE i \in late
    BY <1>1, <1>2, <2>1, <2>2 DEF MetaAccounted, Settled
  <2>3. CASE i \notin late
    <3>1. Meta(i) \in dirty => Meta(i) \in dirty'
      BY <1>2, <1>3, <2>3, Objects
    <3>2. QED
      BY <1>1, <1>2, <2>1, <3>1 DEF MetaAccounted, Settled
  <2>4. QED
    BY <2>2, <2>3
<1>7. \A o \in Copied : CopyAccounted(o)'
  <2>1. \A o \in Copied : o \in dirty => o \in dirty'
    BY <1>2, <1>3, Objects
  <2>2. QED
    BY <1>1, <1>2, <2>1 DEF VersionInv, Accounted, CopyAccounted, Settled, QueuedNow
<1>8. QED
  BY <1>2, <1>4, <1>5, <1>6, <1>7 DEF VersionInv, Accounted

\* What the submitter takes was in the first group, or has no copies.
LEMMA TakesVersions ==
    ASSUME WbTypeOK, VersionInv, Takes
    PROVE  VersionInv'
<1>1. /\ Pending' = Pending /\ Rest = <<>> /\ \A o : Held(o)' <=> Held(o)
      /\ UNCHANGED <<mem, table, dirty, late, disk, lost>>
  BY DEF Takes, Pending, Held
<1>2. \A o : Versions(Rest, o) = {} /\ o \notin Objs(Rest)
  BY <1>1, ShortQueues
<1>3. /\ Sorted(Rest') /\ Sorted(First')
      /\ \/ \A o \in Copied : Versions(Rest', o) = {} /\ Versions(First', o) = Versions(First, o)
         \/ \A o \in Copied : Versions(Rest', o) = Versions(First, o) /\ Versions(First', o) = {}
  <2>1. CASE Rest' = <<ErrorBlock>> /\ dirtyBlocks' = dirtyBlocks
    <3>1. ErrorBlock \in Blocks /\ ErrorBlock.obj = Super
      BY BlockFields DEF ErrorBlock, EXT2_ERROR_FS
    <3>2. Sorted(Rest') /\ \A o \in Copied : Versions(Rest', o) = {}
      BY <2>1, <3>1, ShortQueues, Objects DEF Copied
    <3>3. First' = First /\ Sorted(First)
      BY <2>1 DEF First, VersionInv, CopyOrder
    <3>4. QED
      BY <3>2, <3>3
  <2>2. CASE /\ Sorted(First) => Sorted(Rest')
             /\ \A o \in Copied : Versions(Rest', o) = Versions(First, o)
             /\ NoCopies(First')
    BY <2>2, NoCopiesQueue DEF VersionInv, CopyOrder
  <2>3. QED
    BY <2>1, <2>2 DEF Takes
<1>4. TableOrder'
  BY <1>1 DEF VersionInv, TableOrder
<1>5. CopyOrder'
  <2>1. Recent(Rest)' /\ Recent(First)' /\ Recent(Pending)'
    BY <1>1, <1>3 DEF VersionInv, CopyOrder, Recent
  <2>2. Older(Rest', First') /\ Older(Rest', Pending') /\ Older(First', Pending')
    BY <1>1, <1>3 DEF VersionInv, CopyOrder, Older
  <2>3. QED
    BY <1>1, <1>3, <2>1, <2>2 DEF VersionInv, CopyOrder
<1>6. Accounted'
  <2>1. \A o : Queued(o) => Queued(o)'
    <3>1. \A o : InGroups(dirtyBlocks, o) => o \in Objs(Rest') \/ InGroups(dirtyBlocks', o)
      BY DEF Takes, TakesGroup
    <3>2. QED
      BY <1>1, <1>2, <3>1 DEF Queued
  <2>2. \A i \in Inode : (DataAccounted(i) /\ MetaAccounted(i))'
    BY <1>1, <2>1 DEF VersionInv, Accounted, DataAccounted, MetaAccounted, Settled
  <2>3. \A o \in Copied : CopyAccounted(o)'
    BY <1>1, <1>2, <1>3 DEF VersionInv, Accounted, CopyAccounted, Settled, QueuedNow
  <2>4. QED
    BY <1>1, <2>2, <2>3 DEF VersionInv, Accounted
<1>7. QED
  BY <1>4, <1>5, <1>6 DEF VersionInv

\* A block that is written is the newest but for those that are still queued;
\* one that fails is lost.
LEMMA WritesVersions ==
    ASSUME WbTypeOK, VersionInv, Writes
    PROVE  VersionInv'
<1> DEFINE b == Head(Rest)
<1>1. /\ Pending' = Pending /\ First' = First /\ \A o : Held(o)' <=> Held(o)
      /\ UNCHANGED <<mem, table, dirty, late>> /\ Rest' = Tail(Rest) /\ b \in Blocks
  BY DEF Writes, Pending, First, Held
<1>2. /\ Objs(Rest) = {b.obj} \cup Objs(Rest')
      /\ \A o : Versions(Rest, o) = Versions(Rest', o) \cup (IF b.obj = o THEN {b.ver} ELSE {})
      /\ Sorted(Rest')
      /\ b.obj \in Copied => \A v \in Versions(Rest', b.obj) : b.ver <= v
  BY FirstBlock DEF Writes, VersionInv, CopyOrder
<1> HIDE DEF b
<1>3. \A o : Queued(o) => Queued(o)' \/ o = b.obj
  BY <1>1, <1>2 DEF Queued, Writes
<1>4. \/ /\ disk' = Written(b)
         /\ lost' = {o \in lost : IF o = Super THEN b.obj # Super
                                              ELSE phase # "open" \/ disk'[o] # mem[o]}
      \/ disk' = disk /\ lost' = lost \cup {b.obj}
  BY DEF Writes, b
<1>5. /\ \A i \in Inode : /\ disk'[Data(i)] \in {mem[Data(i)], disk[Data(i)]}
                          /\ disk'[Meta(i)] \in {table[i], disk[Meta(i)]}
      /\ \A o \in Copied : disk'[o] = disk[o] \/ (b.obj = o /\ disk'[o] = b.ver)
  BY <1>1, <1>4, WrittenDisk
<1>6. /\ \A i \in Inode : b.obj = Data(i) => disk'[Data(i)] = mem[Data(i)] \/ Data(i) \in lost'
      /\ \A i \in Inode : b.obj = Meta(i) => disk'[Meta(i)] = table[i] \/ Meta(i) \in lost'
      /\ \A o \in Copied : b.obj = o => disk'[o] = b.ver \/ o \in lost'
  BY <1>1, <1>4, WrittenDisk
<1>7. \A o \in Content : o \in lost => o \in lost' \/ disk'[o] = mem[o]
  BY <1>4, Objects
<1>8. TableOrder'
  <2>1. ASSUME NEW i \in Inode PROVE disk'[Meta(i)] <= table[i] /\ table[i] <= mem[Meta(i)]
    <3>1. table[i] \in Nat /\ disk[Meta(i)] <= table[i] /\ table[i] <= mem[Meta(i)]
      BY VersionTypes DEF VersionInv, TableOrder
    <3>2. QED
      BY <1>5, <3>1
  <2>2. QED
    BY <1>1, <2>1 DEF TableOrder
<1>9. CopyOrder'
  <2>1. ASSUME NEW o \in Copied, b.obj = o
        PROVE  /\ b.ver <= mem[o]
               /\ \A v \in Versions(Rest', o) \cup Versions(First, o) \cup Versions(Pending, o) : b.ver <= v
    <3>1. b.ver \in Versions(Rest, o)
      BY <1>2, <2>1
    <3>2. QED
      BY <1>2, <2>1, <3>1 DEF VersionInv, CopyOrder, Recent, Older
  <2>2. \A o \in Copied : disk'[o] <= mem[o]
    BY <1>5, <2>1 DEF VersionInv, CopyOrder
  <2>3. Recent(Rest)'
    BY <1>1, <1>2, <1>5, <2>1 DEF VersionInv, CopyOrder, Recent
  <2>4. Recent(First)' /\ Recent(Pending)'
    BY <1>1, <1>5, <2>1 DEF VersionInv, CopyOrder, Recent
  <2>5. Older(Rest', First') /\ Older(Rest', Pending') /\ Older(First', Pending')
    BY <1>1, <1>2 DEF VersionInv, CopyOrder, Older
  <2>6. QED
    BY <1>1, <1>2, <2>2, <2>3, <2>4, <2>5 DEF VersionInv, CopyOrder
<1>10. Accounted'
  <2>1. ASSUME NEW i \in Inode PROVE DataAccounted(i)'
    <3>1. DataAccounted(i) /\ Data(i) \in Content
      BY Objects DEF VersionInv, Accounted
    <3>2. Settled(Data(i)) => Settled(Data(i))'
      BY <1>1, <1>5, <1>7, <3>1 DEF Settled
    <3>3. Queued(Data(i)) => Queued(Data(i))' \/ Settled(Data(i))'
      BY <1>1, <1>3, <1>6 DEF Settled
    <3>4. QED
      BY <1>1, <3>1, <3>2, <3>3 DEF DataAccounted
  <2>2. ASSUME NEW i \in Inode PROVE MetaAccounted(i)'
    <3>1. MetaAccounted(i) /\ Meta(i) \in Content
      BY Objects DEF VersionInv, Accounted
    <3>2. disk[Meta(i)] = mem[Meta(i)] => table[i] = mem[Meta(i)]
      <4>1. disk[Meta(i)] \in Nat /\ table[i] \in Nat /\ mem[Meta(i)] \in Nat
            /\ disk[Meta(i)] <= table[i] /\ table[i] <= mem[Meta(i)]
        BY <3>1, VersionTypes DEF VersionInv, TableOrder
      <4>2. QED
        BY <4>1
    <3>3. Settled(Meta(i)) => Settled(Meta(i))'
      BY <1>1, <1>5, <1>7, <3>1, <3>2 DEF Settled
    <3>4. Queued(Meta(i)) /\ table[i] = mem[Meta(i)] => Queued(Meta(i))' \/ Settled(Meta(i))'
      BY <1>1, <1>3, <1>6 DEF Settled
    <3>5. QED
      BY <1>1, <3>1, <3>3, <3>4 DEF MetaAccounted
  <2>3. ASSUME NEW o \in Copied PROVE CopyAccounted(o)'
    <3>1. CopyAccounted(o) /\ o \in Content
      BY VersionTypes DEF VersionInv, Accounted
    <3>2. Settled(o) => Settled(o)'
      <4>1. ASSUME disk[o] = mem[o], b.obj = o PROVE b.ver = mem[o]
        <5>1. b.ver \in Versions(Rest, o)
          BY <1>2, <4>1
        <5>2. disk[o] <= b.ver /\ b.ver <= mem[o] /\ b.ver \in Nat /\ mem[o] \in Nat
          BY <3>1, <5>1, VersionTypes DEF VersionInv, CopyOrder, Recent
        <5>3. QED
          BY <4>1, <5>2
      <4>2. QED
        BY <1>1, <1>5, <1>7, <3>1, <4>1 DEF Settled
    <3>3. QueuedNow(o) => QueuedNow(o)' \/ Settled(o)'
      BY <1>1, <1>2, <1>6 DEF QueuedNow, Settled
    <3>4. QED
      BY <1>1, <3>1, <3>2, <3>3 DEF CopyAccounted
  <2>4. QED
    BY <1>1, <2>1, <2>2, <2>3 DEF VersionInv, Accounted
<1>11. QED
  BY <1>8, <1>9, <1>10 DEF VersionInv

\* What is not on the device is dirty, queued in its order, or was lost.
LEMMA VersionInvHolds == Spec => []VersionInv
<1>1. Init => VersionInv
  <2>1. SUFFICES ASSUME WbInit PROVE VersionInv
    BY DEF Init
  <2>2. /\ \A o \in Content : mem[o] = 0 /\ disk[o] = 0
        /\ \A i \in Inode : table[i] = 0
        /\ late = {}
    BY <2>1, Objects DEF WbInit
  <2>3. Rest = <<>> /\ First = <<>> /\ Pending = <<>>
    BY <2>1 DEF WbInit, Rest, First, Pending, Top
  <2>4. \A o \in Copied : o \in Content
    BY Objects DEF Copied
  <2>5. TableOrder
    BY <2>2, Objects DEF TableOrder
  <2>6. CopyOrder
    BY <2>2, <2>3, <2>4, ShortQueues DEF CopyOrder, Recent, Older
  <2>7. Accounted
    BY <2>2, <2>4, Objects DEF Accounted, DataAccounted, MetaAccounted, CopyAccounted, Settled
  <2>8. QED
    BY <2>5, <2>6, <2>7 DEF VersionInv
<1>2. QueueInv /\ VersionInv /\ [Next]_vars => VersionInv'
  BY StepKinds, QuietVersions, ChangesVersions, CollectsVersions, PublishesVersions, CleansVersions,
     TakesVersions, WritesVersions DEF QueueInv, PlaceInv
<1>3. QED
  BY <1>1, <1>2, QueueInvHolds, PTL DEF Spec

-----------------------------------------------------------------------------
(***************************************************************************)
(* The superblock.  Until the block of OpenForWrite() is written, nothing  *)
(* else is.  The block that says that the file system is valid is made     *)
(* when nothing is dirty and no inode is left in memory, and it is behind  *)
(* all the others.  What users do later is not collected any more, so that *)
(* no page or inode is queued from then on.                                *)
(***************************************************************************)
Sealed == completed \/ phase \in {"finish", "done"}
Booting == phase = "none" \/ flushNow # <<>> \/ sending = <<ErrorBlock>>
AllEmpty == \A k \in DOMAIN dirtyBlocks : dirtyBlocks[k] = <<>>
Drained == Rest = <<>> /\ result = <<>> /\ collected = <<>> /\ AllEmpty
LastSuper(s) == \A k \in DOMAIN s : s[k].obj = Super => k = Len(s) /\ s[k] = ValidBlock

SealedClean ==
    Sealed => /\ late = {} /\ (result = <<>> \/ result = <<ValidBlock>>)
              /\ \A i \in Inode : ~Queued(Data(i)) /\ ~Queued(Meta(i))
SuperPlace ==
    /\ Super \in Objs(Rest) =>
          \/ sending = <<ErrorBlock>>
          \/ Sealed /\ LastSuper(Rest) /\ result = <<>> /\ AllEmpty
    /\ Super \in Objs(First) => Sealed /\ LastSuper(First) /\ result = <<>>
    /\ Super \in Objs(result) => completed
    /\ ~InGroups(collected, Super)
BootClean == Booting => \A o \in Content : disk[o] = 0
SuperTrue ==
    Booting \/ disk[Super] = EXT2_ERROR_FS \/ Super \in lost \/ (Sealed /\ Drained)

SuperInv == SealedClean /\ SuperPlace /\ BootClean /\ SuperTrue

\* The blocks of the superblock.
LEMMA SuperBlocks ==
    /\ ErrorBlock \in Blocks /\ ErrorBlock.obj = Super /\ ErrorBlock.ver = EXT2_ERROR_FS
    /\ ValidBlock \in Blocks /\ ValidBlock.obj = Super /\ ErrorBlock # ValidBlock
    /\ Objs(<<ErrorBlock>>) = {Super} /\ Objs(<<ValidBlock>>) = {Super}
<1>1. /\ ErrorBlock \in Blocks /\ ErrorBlock.obj = Super /\ ErrorBlock.ver = EXT2_ERROR_FS
      /\ ValidBlock \in Blocks /\ ValidBlock.obj = Super /\ ValidBlock.ver = EXT2_VALID_FS
  BY BlockFields DEF ErrorBlock, ValidBlock, EXT2_ERROR_FS, EXT2_VALID_FS
<1>2. EXT2_ERROR_FS # EXT2_VALID_FS
  BY DEF EXT2_ERROR_FS, EXT2_VALID_FS
<1>3. QED
  BY <1>1, <1>2, ShortQueues

\* A superblock that is last stays last.
LEMMA LastBlock ==
    ASSUME NEW s \in Seq(Blocks), s # <<>>, LastSuper(s)
    PROVE  LastSuper(Tail(s)) /\ (Head(s).obj = Super => Tail(s) = <<>>)
<1>1. /\ Tail(s) \in Seq(Blocks) /\ Len(s) \in Nat /\ Len(Tail(s)) = Len(s) - 1 /\ Head(s) = s[1]
      /\ DOMAIN Tail(s) = 1 .. Len(s) - 1 /\ 1 \in DOMAIN s
      /\ \A k \in DOMAIN Tail(s) : k + 1 \in DOMAIN s /\ Tail(s)[k] = s[k + 1]
  OBVIOUS
<1>2. LastSuper(Tail(s))
  BY <1>1 DEF LastSuper
<1>3. Head(s).obj = Super => Len(s) = 1
  BY <1>1 DEF LastSuper
<1>4. QED
  BY <1>1, <1>2, <1>3

\* The superblock that says that the file system is valid, behind others.
LEMMA ValidBehind ==
    ASSUME NEW s \in Seq(Blocks), Super \notin Objs(s)
    PROVE  LastSuper(s \o <<ValidBlock>>)
<1>1. /\ Len(s) \in Nat /\ Len(s \o <<ValidBlock>>) = Len(s) + 1
      /\ DOMAIN (s \o <<ValidBlock>>) = 1 .. Len(s) + 1
      /\ \A k \in 1 .. Len(s) : k \in DOMAIN s /\ (s \o <<ValidBlock>>)[k] = s[k]
      /\ (s \o <<ValidBlock>>)[Len(s) + 1] = ValidBlock
  BY SuperBlocks
<1>2. \A k \in DOMAIN s : s[k].obj # Super
  BY DEF Objs
<1>3. \A k \in 1 .. Len(s) + 1 : k \in 1 .. Len(s) \/ k = Len(s) + 1
  BY <1>1
<1>4. QED
  BY <1>1, <1>2, <1>3 DEF LastSuper

\* What is true once the file system may say that it is valid.
LEMMA SealedFacts ==
    ASSUME QueueInv, SealedClean, Sealed
    PROVE  /\ collected = <<>> /\ cAt \notin {"get", "append"}
           /\ phase \in {"flush", "finish", "done"} /\ ~(phase = "flush" /\ cAt = "start")
           /\ \A k \in DOMAIN dirtyBlocks : k > 1 => dirtyBlocks[k] = <<>>
<1>1. /\ collected = <<>> /\ cAt \notin {"get", "append"} /\ phase \in {"flush", "finish", "done"}
      /\ ~(phase = "flush" /\ cAt = "start")
  BY DEF QueueInv, PlaceInv, CollectorAt, Sealed
<1>3. ASSUME NEW k \in DOMAIN dirtyBlocks, k > 1 PROVE dirtyBlocks[k] = <<>>
  <2>1. dirtyBlocks[k] \in Seq(Blocks) /\ NoCopies(dirtyBlocks[k])
    BY <1>3 DEF QueueInv, PlaceInv, WbTypeOK, CopiesFirst
  <2>2. ASSUME dirtyBlocks[k] # <<>> PROVE FALSE
    <3> DEFINE o == Head(dirtyBlocks[k]).obj
    <3>1. o \in Objs(dirtyBlocks[k]) /\ o \in Content \cup {Super}
      BY <2>1, <2>2, FirstBlock, BlockFields
    <3> HIDE DEF o
    <3>2. o \notin Copied \cup {Super}
      BY <2>1, <3>1, NoCopiesQueue
    <3>3. PICK i \in Inode : o = Data(i) \/ o = Meta(i)
      BY <3>1, <3>2, Objects
    <3>4. Queued(o)
      BY <3>1 DEF Queued, InGroups
    <3>5. QED
      BY <3>3, <3>4 DEF SealedClean
  <2>3. QED
    BY <2>2
<1>4. QED
  BY <1>1, <1>3

\* A file system is sealed by FlushOrClose(), when nothing is left to write.
LEMMA Seals ==
    ASSUME QueueInv, [Next]_vars, ~Sealed, Sealed'
    PROVE  CFlushOrClose /\ completed'
<1>1. CollectorAt
  BY DEF QueueInv, PlaceInv
<1>2. CASE UserStep \/ UNCHANGED wbVars
  <2>1. completed' = completed /\ (phase' = phase \/ phase' \in {"open", "flush"})
    BY <1>2 DEF UserStep, OpenForWrite, CloseForWrite, Mkdir, MkdirEntry, MkdirLinks, wbVars, cVars
  <2>2. QED
    BY <2>1 DEF Sealed
<1>3. CASE Collector
  <2>1. CFlushOrClose \/ CFinish \/ UNCHANGED <<completed, phase>>
    BY <1>3 DEF Collector, CStart, CGetWrites, CClean, CAppend, CRef, CPush
  <2>2. ~CFinish
    BY <1>1 DEF CFinish, CollectorAt, Sealed
  <2>3. CFlushOrClose => phase' = "flush"
    BY DEF CFlushOrClose
  <2>4. QED
    BY <2>1, <2>2, <2>3 DEF Sealed
<1>4. CASE Submitter
  <2>1. completed' = completed /\ (phase' = phase \/ phase = "finish")
    BY <1>4 DEF Submitter, STake, SFinish, SWrite, cVars
  <2>2. QED
    BY <2>1 DEF Sealed
<1>5. QED
  BY <1>2, <1>3, <1>4, WriterSteps

\* What is true when it does: nothing is dirty, and no page or inode is queued.
LEMMA SealingStep ==
    ASSUME QueueInv, Referred', CFlushOrClose, completed'
    PROVE  /\ dirty' = {} /\ result' = <<ValidBlock>> /\ late' = {} /\ promised' = mem
           /\ \A i \in Inode : ~Queued(Data(i))' /\ ~Queued(Meta(i))'
<1>1. WbTypeOK /\ FlushOutcome /\ loaded' = FlushKept
  BY FlushResult DEF QueueInv, PlaceInv
<1>2. /\ loaded' = {} /\ result' = <<ValidBlock>> /\ late' = {}
      /\ Bitmap \notin dirty' /\ Groups \notin dirty'
  BY <1>1 DEF FlushOutcome
<1>3. \A i \in Inode : ~Around(Data(i))' /\ ~Around(Meta(i))'
  BY <1>2 DEF Referred
<1>4. dirty' = {}
  <2>1. dirty' \subseteq Content
    BY <1>1 DEF FlushOutcome, WbTypeOK
  <2>2. QED
    BY <1>2, <1>3, <2>1, Objects DEF Around, Copied
<1>5. promised' = mem
  BY DEF CFlushOrClose
<1>6. QED
  BY <1>2, <1>3, <1>4, <1>5 DEF Around

\* Once it is sealed, FlushOrClose() is not called again and GetWrites() neither.
LEMMA SealedSteps ==
    ASSUME QueueInv, SealedClean, Sealed, [Next]_vars
    PROVE  ~CFlushOrClose /\ ~CGetWrites /\ ~Collects /\ promised' = promised
<1>1. ~CFlushOrClose /\ ~CGetWrites
  BY SealedFacts DEF CFlushOrClose, CGetWrites
<1>2. promised' = promised
  <2>1. UserStep => promised' = promised
    BY DEF UserStep, OpenForWrite, CloseForWrite, Mkdir, MkdirEntry, MkdirLinks, observers
  <2>2. Collector => promised' = promised
    BY <1>1 DEF Collector, CStart, CClean, CAppend, CRef, CPush, CFinish, observers
  <2>3. Submitter => promised' = promised
    BY DEF Submitter, STake, SFinish, SWrite, observers
  <2>4. UNCHANGED wbVars => promised' = promised
    BY DEF wbVars, observers
  <2>5. QED
    BY <2>1, <2>2, <2>3, <2>4, WriterSteps
<1>3. QED
  BY <1>1, <1>2 DEF Collects

\* A file system that is sealed stays so: what users do is not collected.
LEMMA SealedCleanStep ==
    ASSUME QueueInv, Referred', SealedClean, [Next]_vars
    PROVE  SealedClean'
<1>1. CASE ~Sealed
  BY <1>1, Seals, SealingStep DEF SealedClean
<1>2. CASE Sealed
  <2>1. /\ ~Collects /\ collected = <<>> /\ late = {} /\ (result = <<>> \/ result = <<ValidBlock>>)
        /\ \A i \in Inode : ~Queued(Data(i)) /\ ~Queued(Meta(i))
    BY <1>2, SealedSteps, SealedFacts DEF SealedClean
  <2>2. late' = {} /\ (result' = result \/ result' = <<>>)
    BY <2>1, StepKinds DEF Quiet, Changes, Publishes, Cleans, CClean, Takes, Writes
  <2>3. \A i \in Inode : Data(i) # Super /\ Meta(i) # Super
    BY Objects
  <2>4. ASSUME NEW o, o # Super, Queued(o)' PROVE Queued(o)
    <3>1. CASE Quiet \/ (\E S \in SUBSET Content : Changes(S)) \/ Cleans
      BY <2>4, <3>1 DEF Quiet, Changes, Cleans, Queued, Held
    <3>2. CASE Publishes
      <4>1. ~Held(o)'
        BY <3>2, ShortQueues DEF Publishes, Held, InGroups
      <4>2. QED
        BY <2>4, <3>2, <4>1 DEF Publishes, Queued
    <3>3. CASE Takes
      <4>1. o \in Objs(Rest') \/ InGroups(dirtyBlocks', o) => InGroups(dirtyBlocks, o)
        <5>1. CASE Rest' = <<ErrorBlock>> /\ dirtyBlocks' = dirtyBlocks
          BY <2>4, <5>1, SuperBlocks
        <5>2. CASE TakesGroup /\ Rest' = sending'
          BY <5>2 DEF TakesGroup
        <5>3. QED
          BY <3>3, <5>1, <5>2 DEF Takes
      <4>2. QED
        BY <2>4, <3>3, <4>1 DEF Takes, Queued, Held
    <3>4. CASE Writes
      <4>1. Objs(Rest') \subseteq Objs(Rest)
        BY <3>4, FirstBlock DEF Writes
      <4>2. QED
        BY <2>4, <3>4, <4>1 DEF Writes, Queued, Held
    <3>5. QED
      BY <2>1, <3>1, <3>2, <3>3, <3>4, StepKinds
  <2>5. QED
    BY <2>1, <2>2, <2>3, <2>4 DEF SealedClean
<1>3. QED
  BY <1>1, <1>2

\* A step that leaves alone what the superblock depends on.
LEMMA SameSuper ==
    ASSUME SuperInv, SealedClean', UNCHANGED <<result, collected, dirtyBlocks, sending, disk>>,
           Rest' = Rest, Sealed' <=> Sealed, Booting' <=> Booting, completed => completed',
           lost \subseteq lost'
    PROVE  SuperInv'
<1>1. First' = First /\ (AllEmpty' <=> AllEmpty)
  BY DEF First, AllEmpty
<1>2. SuperPlace'
  BY <1>1 DEF SuperInv, SuperPlace
<1>3. BootClean' /\ SuperTrue'
  BY <1>1 DEF SuperInv, BootClean, SuperTrue, Drained
<1>4. QED
  BY <1>2, <1>3 DEF SuperInv

\* What users do does not change what the superblock says, sealed or not.
LEMMA UserSuper ==
    ASSUME QueueInv, SuperInv, SealedClean', UserStep
    PROVE  SuperInv'
<1>0. Sealed => phase \in {"flush", "finish", "done"}
  BY SealedFacts DEF SuperInv
<1>1. CASE OpenForWrite
  <2>1. /\ phase = "none" /\ phase' = "open" /\ flushNow' = <<ErrorBlock>>
        /\ UNCHANGED <<userVars, dirty, dirtyBlocks, cVars, sVars, diskVars, lost>>
    BY <1>1 DEF OpenForWrite, ErrorBlock, observers
  <2>2. ~Sealed /\ ~Sealed' /\ Booting /\ Booting'
    BY <1>0, <2>1 DEF Sealed, Booting, cVars
  <2>3. Rest' = Rest
    BY <2>1 DEF Rest, sVars
  <2>4. QED
    BY <2>1, <2>2, <2>3, SameSuper DEF userVars, cVars, sVars, diskVars
<1>2. CASE CloseForWrite
  <2>1. /\ phase = "open" /\ phase' = "flush"
        /\ UNCHANGED <<userVars, dirty, listVars, cVars, sVars, diskVars, lost>>
    BY <1>2 DEF CloseForWrite, observers
  <2>2. (Sealed' <=> Sealed) /\ (Booting' <=> Booting) /\ Rest' = Rest
    BY <2>1 DEF Sealed, Booting, Rest, listVars, cVars, sVars
  <2>3. QED
    BY <2>1, <2>2, SameSuper DEF userVars, listVars, cVars, sVars, diskVars
<1>3. ASSUME UNCHANGED <<phase, listVars, cVars, sVars, diskVars, observers>> PROVE SuperInv'
  <2>1. (Sealed' <=> Sealed) /\ (Booting' <=> Booting) /\ Rest' = Rest
        /\ UNCHANGED <<result, collected, dirtyBlocks, sending, disk, completed, lost>>
    BY <1>3 DEF Sealed, Booting, Rest, listVars, cVars, sVars, diskVars, observers
  <2>2. QED
    BY <2>1, SameSuper
<1>4. CASE MkdirEntry \/ MkdirLinks
  BY <1>3, <1>4 DEF MkdirEntry, MkdirLinks
<1>5. ASSUME NEW d \in Inode, NEW ok \in BOOLEAN, Mkdir(d, ok) PROVE SuperInv'
  BY <1>3, <1>5 DEF Mkdir
<1>6. QED
  BY <1>1, <1>2, <1>4, <1>5 DEF UserStep

\* The collector seals a file system when nothing is left, and its block goes
\* behind the others.
LEMMA CollectorSuper ==
    ASSUME QueueInv, SuperInv, SealedClean', Collector
    PROVE  SuperInv'
<1>0. /\ Sealed => collected = <<>> /\ cAt \notin {"get", "append"} /\ ~(phase = "flush" /\ cAt = "start")
      /\ WbTypeOK /\ CollectorAt
  BY SealedFacts DEF SuperInv, QueueInv, PlaceInv
<1>1. CASE CStart
  <2>1. UNCHANGED <<phase, userVars, dirty, listVars, collected, result, completed, sVars, diskVars, lost>>
    BY <1>1 DEF CStart, observers
  <2>2. (Sealed' <=> Sealed) /\ (Booting' <=> Booting) /\ Rest' = Rest
    BY <2>1 DEF Sealed, Booting, Rest, listVars, sVars
  <2>3. QED
    BY <2>1, <2>2, SameSuper DEF userVars, listVars, sVars, diskVars
<1>2. CASE CGetWrites
  <2>1. /\ cAt = "get"
        /\ UNCHANGED <<phase, userVars, listVars, result, completed, sVars, diskVars, lost>>
    BY <1>2 DEF CGetWrites, observers
  <2>2. ~Sealed /\ ~Sealed' /\ (Booting' <=> Booting) /\ Rest' = Rest /\ First' = First
    BY <1>0, <2>1 DEF Sealed, Booting, Rest, First, listVars, sVars
  <2>3. ~InGroups(collected', Super)
    <3>1. \A o : InGroups(collected', o) <=> o \in Objs(FirstWrites) \cup Objs(SecondWrites)
      BY <1>0, <1>2, CollectedGroups
    <3>2. /\ Objs(FirstWrites) = {Data(i) : i \in Datas} \cup {Meta(i) : i \in Metas \ Datas}
                                    \cup (dirty \cap {Bitmap})
          /\ Objs(SecondWrites) = {Meta(i) : i \in Datas \cap Metas}
          /\ Datas \in SUBSET Inode /\ Metas \in SUBSET Inode
      BY <1>0, WritesTyped
    <3>3. QED
      BY <3>1, <3>2, Objects
  <2>4. SuperPlace'
    BY <2>1, <2>2, <2>3 DEF SuperInv, SuperPlace, Sealed, sVars
  <2>5. BootClean' /\ SuperTrue'
    BY <2>1, <2>2 DEF SuperInv, BootClean, SuperTrue, diskVars
  <2>6. QED
    BY <2>4, <2>5 DEF SuperInv
<1>3. CASE CClean
  <2>1. /\ UNCHANGED <<phase, userVars, listVars, collected, result, completed, sVars, diskVars>>
        /\ dirty' \subseteq dirty /\ lost \subseteq lost'
    BY <1>3 DEF CClean
  <2>2. (Sealed' <=> Sealed) /\ (Booting' <=> Booting) /\ Rest' = Rest
    BY <2>1 DEF Sealed, Booting, Rest, listVars, sVars
  <2>3. QED
    BY <2>1, <2>2, SameSuper DEF userVars, listVars, sVars, diskVars
<1>4. CASE CAppend
  <2>1. /\ cAt = "append" /\ dirtyBlocks' = Merged(dirtyBlocks, collected) /\ collected' = <<>>
        /\ UNCHANGED <<phase, flushNow, result, completed, sVars, diskVars, lost>>
    BY <1>4 DEF CAppend, observers
  <2>2. ~Sealed /\ ~Sealed' /\ (Booting' <=> Booting) /\ Rest' = Rest
    BY <1>0, <2>1 DEF Sealed, Booting, Rest, sVars
  <2>3. Super \notin Objs(First')
    <3>1. dirtyBlocks \in Seq(Seq(Blocks)) /\ collected \in Seq(Seq(Blocks))
      BY <1>0 DEF WbTypeOK
    <3>2. Top(dirtyBlocks') = Top(dirtyBlocks) \o Top(collected)
      BY <2>1, <3>1, MergedGroups
    <3>3. Top(dirtyBlocks) \in Seq(Blocks) /\ Top(collected) \in Seq(Blocks)
      BY <3>1, TopGroup
    <3>4. Objs(First') = Objs(First) \cup Objs(Top(collected))
      BY <3>2, <3>3, JoinedQueues DEF First
    <3>5. Super \notin Objs(Top(collected)) /\ Super \notin Objs(First)
      BY <2>2, <3>1, TopGroup DEF SuperInv, SuperPlace
    <3>6. QED
      BY <3>4, <3>5
  <2>4. SuperPlace'
    BY <2>1, <2>2, <2>3 DEF SuperInv, SuperPlace, Sealed, sVars, InGroups
  <2>5. BootClean' /\ SuperTrue'
    BY <2>1, <2>2 DEF SuperInv, BootClean, SuperTrue, diskVars
  <2>6. QED
    BY <2>4, <2>5 DEF SuperInv
<1>5. CASE CFlushOrClose
  <2>1. FlushOutcome /\ loaded' = FlushKept
    BY <1>0, <1>5, FlushResult
  <2>2. /\ cAt = "start" /\ phase = "flush"
        /\ UNCHANGED <<phase, listVars, collected, sVars, diskVars, lost>>
    BY <1>5 DEF CFlushOrClose
  <2>3. ~Sealed /\ (Sealed' <=> completed') /\ (Booting' <=> Booting) /\ Rest' = Rest /\ First' = First
    BY <1>0, <2>2 DEF Sealed, Booting, Rest, First, listVars, sVars
  <2>5. SuperPlace'
    BY <2>1, <2>2, <2>3 DEF SuperInv, SuperPlace, FlushOutcome, sVars
  <2>6. BootClean' /\ SuperTrue'
    BY <2>2, <2>3 DEF SuperInv, BootClean, SuperTrue, diskVars
  <2>7. QED
    BY <2>5, <2>6 DEF SuperInv
<1>6. CASE CRef
  <2>1. /\ dirtyBlocks' = IF dirtyBlocks = <<>> THEN <<(<<>>)>> ELSE dirtyBlocks
        /\ UNCHANGED <<phase, userVars, dirty, flushNow, collected, result, completed, sVars,
                       diskVars, lost>>
    BY <1>6 DEF CRef, observers
  <2>2. (Sealed' <=> Sealed) /\ (Booting' <=> Booting) /\ Rest' = Rest
    BY <2>1 DEF Sealed, Booting, Rest, sVars
  <2>3. First' = First
    BY <2>1 DEF First, Top
  <2>4. AllEmpty => AllEmpty'
    BY <2>1 DEF AllEmpty
  <2>5. SuperPlace'
    BY <2>1, <2>2, <2>3, <2>4 DEF SuperInv, SuperPlace, userVars, sVars
  <2>6. BootClean' /\ SuperTrue'
    BY <2>1, <2>2, <2>4 DEF SuperInv, BootClean, SuperTrue, Drained, diskVars
  <2>7. QED
    BY <2>5, <2>6 DEF SuperInv
<1>7. CASE CPush
  <2>1. /\ result' = <<>> /\ Objs(result') = {} /\ lost \subseteq lost'
        /\ UNCHANGED <<phase, userVars, dirty, flushNow, collected, completed, sVars, diskVars>>
    BY <1>7, ShortQueues DEF CPush
  <2>2. (Sealed' <=> Sealed) /\ (Booting' <=> Booting) /\ Rest' = Rest
    BY <2>1 DEF Sealed, Booting, Rest, sVars
  <2>3. /\ Super \in Objs(First') => Sealed /\ LastSuper(First')
        /\ result = <<>> /\ AllEmpty => AllEmpty'
    <3>1. CASE cList = "ok"
      <4>1. /\ dirtyBlocks \in Seq(Seq(Blocks)) /\ result \in Seq(Blocks) /\ First \in Seq(Blocks)
            /\ dirtyBlocks # <<>> /\ dirtyBlocks' = [dirtyBlocks EXCEPT ![1] = @ \o result]
        BY <1>0, <1>7, <3>1, QueueTypes DEF CPush, CollectorAt, WbTypeOK
      <4>2. /\ Top(dirtyBlocks') = Top(dirtyBlocks) \o result /\ DOMAIN dirtyBlocks' = DOMAIN dirtyBlocks
            /\ \A k \in DOMAIN dirtyBlocks : k > 1 => dirtyBlocks'[k] = dirtyBlocks[k]
        BY <4>1, PushedGroup
      <4>3. First' = First \o result /\ Objs(First') = Objs(First) \cup Objs(result)
        <5>1. First' = First \o result
          BY <4>2 DEF First
        <5>2. QED
          BY <4>1, <5>1, JoinedQueues
      <4>4. Super \in Objs(First') => Sealed /\ LastSuper(First')
        <5>1. CASE Super \in Objs(First)
          <6>1. Sealed /\ LastSuper(First) /\ result = <<>>
            BY <5>1 DEF SuperInv, SuperPlace
          <6>2. First' = First
            BY <4>1, <4>3, <6>1, EmptyJoin
          <6>3. QED
            BY <6>1, <6>2
        <5>2. CASE Super \notin Objs(First) /\ Super \in Objs(result)
          <6>1. Sealed
            BY <5>2 DEF SuperInv, SuperPlace, Sealed
          <6>2. result = <<ValidBlock>>
            BY <5>2, <6>1, ShortQueues DEF SuperInv, SealedClean
          <6>3. QED
            BY <4>1, <4>3, <5>2, <6>1, <6>2, ValidBehind
        <5>3. QED
          BY <4>3, <5>1, <5>2
      <4>5. ASSUME result = <<>>, AllEmpty PROVE AllEmpty'
        <5>1. dirtyBlocks'[1] = <<>>
          BY <4>1, <4>5 DEF AllEmpty
        <5>2. \A k \in DOMAIN dirtyBlocks : k = 1 \/ k > 1
          BY <4>1
        <5>3. QED
          BY <4>2, <4>5, <5>1, <5>2 DEF AllEmpty
      <4>6. QED
        BY <4>4, <4>5
    <3>2. CASE cList # "ok"
      <4>1. dirtyBlocks' = dirtyBlocks
        BY <1>7, <3>2 DEF CPush
      <4>2. QED
        BY <4>1 DEF First, AllEmpty, SuperInv, SuperPlace
    <3>3. QED
      BY <3>1, <3>2
  <2>4. SuperPlace'
    BY <2>1, <2>2, <2>3 DEF SuperInv, SuperPlace, userVars, sVars
  <2>5. BootClean' /\ SuperTrue'
    BY <2>1, <2>2, <2>3 DEF SuperInv, BootClean, SuperTrue, Drained, diskVars
  <2>6. QED
    BY <2>4, <2>5 DEF SuperInv
<1>8. CASE CFinish
  <2>1. /\ cAt = "finish" /\ phase' = "finish" /\ completed' = FALSE
        /\ UNCHANGED <<userVars, dirty, listVars, collected, result, sVars, diskVars, lost>>
    BY <1>8 DEF CFinish, observers
  <2>2. completed /\ phase = "flush" /\ result = <<>>
    BY <1>0, <2>1 DEF CollectorAt
  <2>3. Sealed /\ Sealed' /\ (Booting' <=> Booting) /\ Rest' = Rest /\ First' = First
        /\ (AllEmpty' <=> AllEmpty)
    BY <2>1, <2>2 DEF Sealed, Booting, Rest, First, AllEmpty, listVars, sVars
  <2>4. SuperPlace'
    BY <2>1, <2>2, <2>3, ShortQueues DEF SuperInv, SuperPlace, userVars, sVars
  <2>5. BootClean' /\ SuperTrue'
    BY <2>1, <2>3 DEF SuperInv, BootClean, SuperTrue, Drained, diskVars
  <2>6. QED
    BY <2>4, <2>5 DEF SuperInv
<1>9. QED
  BY <1>1, <1>2, <1>3, <1>4, <1>5, <1>6, <1>7, <1>8 DEF Collector

\* The submitter writes the superblock first, and at the end last.
LEMMA SubmitterSuper ==
    ASSUME QueueInv, SuperInv, SealedClean', Submitter
    PROVE  SuperInv'
<1>0. WbTypeOK /\ SubmitterAt /\ PlaceInv
  BY DEF QueueInv, PlaceInv
<1>1. CASE STake
  <2>1. /\ phase \in {"open", "flush", "finish"}
        /\ UNCHANGED <<phase, userVars, dirty, collected, result, completed, diskVars, lost>>
    BY <1>1 DEF STake, observers
  <2>2. /\ sending = <<>> /\ Rest = <<>> /\ Rest' = sending' /\ flushNow' = <<>>
        /\ TakesNow \/ TakesGroup
    BY <1>0, <1>1, TakeStep
  <2>3. Sealed' <=> Sealed
    BY <2>1 DEF Sealed
  <2>5. CASE TakesNow
    <3>1. Booting /\ Booting' /\ sending' = <<ErrorBlock>> /\ First' = First
      BY <2>5 DEF TakesNow, Booting, First
    <3>2. SuperPlace'
      BY <2>1, <2>3, <3>1 DEF SuperInv, SuperPlace
    <3>3. BootClean' /\ SuperTrue'
      BY <2>1, <3>1 DEF SuperInv, BootClean, SuperTrue, diskVars
    <3>4. QED
      BY <3>2, <3>3 DEF SuperInv
  <2>6. CASE TakesGroup
    <3>1. (Super \in Objs(Rest') <=> Super \in Objs(First)) /\ NoCopies(First')
      BY <1>1, <2>6, TakenCopies
    <3>2. Super \notin Objs(First')
      BY <3>1, NoCopiesQueue
    <3>3. /\ \/ sending' = First
             \/ First = <<>> /\ \E n \in DOMAIN dirtyBlocks : n > 1 /\ sending' = dirtyBlocks[n]
          /\ \A k \in DOMAIN dirtyBlocks' :
                \E j \in DOMAIN dirtyBlocks : j > 1 /\ dirtyBlocks'[k] = dirtyBlocks[j]
          /\ flushNow = <<>> /\ dirtyBlocks # <<>>
      BY <2>6 DEF TakesGroup, First
    <3>4. ASSUME Super \in Objs(Rest')
          PROVE  Sealed /\ LastSuper(Rest') /\ result = <<>> /\ AllEmpty' /\ Rest' # <<ErrorBlock>>
      <4>1. Super \in Objs(First) /\ Sealed /\ LastSuper(First) /\ result = <<>>
        BY <3>1, <3>4 DEF SuperInv, SuperPlace
      <4>2. Rest' = First
        BY <2>2, <3>3, <4>1, ShortQueues
      <4>3. AllEmpty'
        BY <3>3, <4>1, SealedFacts DEF SuperInv, AllEmpty
      <4>4. First # <<ErrorBlock>>
        <5>1. ASSUME First = <<ErrorBlock>> PROVE FALSE
          <6>1. 1 \in DOMAIN First /\ First[1] = ErrorBlock
            BY <5>1
          <6>2. QED
            BY <4>1, <6>1, SuperBlocks DEF LastSuper
        <5>2. QED
          BY <5>1
      <4>5. QED
        BY <4>1, <4>2, <4>3, <4>4
    <3>5. ~Booting /\ ~Booting'
      <4>1. sending' # <<ErrorBlock>>
        BY <2>2, <3>4, SuperBlocks
      <4>2. QED
        BY <2>1, <2>2, <3>3, <4>1 DEF Booting
    <3>6. SuperPlace'
      BY <2>1, <2>3, <3>2, <3>4 DEF SuperInv, SuperPlace
    <3>7. Drained => Drained'
      <4>1. ASSUME AllEmpty PROVE Rest' = <<>> /\ AllEmpty'
        <5>1. First = <<>>
          BY <1>0, <3>3, <4>1 DEF AllEmpty, First, Top, WbTypeOK
        <5>2. QED
          BY <2>2, <3>3, <4>1, <5>1 DEF AllEmpty
      <4>2. QED
        BY <2>1, <4>1 DEF Drained
    <3>8. BootClean' /\ SuperTrue'
      BY <2>1, <2>3, <3>5, <3>7 DEF SuperInv, BootClean, SuperTrue, diskVars
    <3>9. QED
      BY <3>6, <3>8 DEF SuperInv
  <2>7. QED
    BY <2>2, <2>5, <2>6
<1>2. CASE SFinish
  <2>1. /\ phase = "finish" /\ phase' = "done"
        /\ UNCHANGED <<userVars, dirty, listVars, cVars, sVars, diskVars, lost>>
    BY <1>2 DEF SFinish, observers
  <2>2. (Sealed' <=> Sealed) /\ (Booting' <=> Booting) /\ Rest' = Rest
    BY <2>1 DEF Sealed, Booting, Rest, listVars, cVars, sVars
  <2>3. QED
    BY <2>1, <2>2, SameSuper DEF userVars, listVars, cVars, sVars, diskVars
<1>3. CASE SWrite
  <2> DEFINE b == Head(Rest)
  <2>1. /\ Rest \in Seq(Blocks) /\ Rest # <<>> /\ Rest' = Tail(Rest) /\ b \in Blocks /\ sending # <<>>
        /\ \/ /\ disk' = Written(b)
              /\ lost' = {o \in lost : IF o = Super THEN b.obj # Super
                                              ELSE phase # "open" \/ disk'[o] # mem[o]}
           \/ disk' = disk /\ lost' = lost \cup {b.obj}
        /\ UNCHANGED <<phase, userVars, dirty, listVars, cVars>>
    BY <1>0, <1>3, WriteCases
  <2>2. Objs(Rest) = {b.obj} \cup Objs(Rest')
    BY <2>1, FirstBlock
  <2>3. /\ Sealed' <=> Sealed
        /\ First' = First /\ (AllEmpty' <=> AllEmpty) /\ UNCHANGED <<result, collected, completed>>
    BY <2>1 DEF Sealed, First, AllEmpty, listVars, cVars
  <2>4. /\ b.obj = Super => disk'[Super] = b.ver \/ Super \in lost'
        /\ b.obj # Super => disk'[Super] = disk[Super] /\ (Super \in lost => Super \in lost')
    BY <1>0, <2>1, WrittenDisk
  <2>5. phase # "none" /\ flushNow = <<>>
    BY <1>0, <2>1 DEF SubmitterAt
  <2>6. ~Booting'
    <3>1. sent < Len(sending) /\ sent \in Nat
      BY <1>0, <2>1 DEF SubmitterAt, WbTypeOK
    <3>2. sending' = <<>> \/ (sending' = sending /\ sent + 1 # Len(sending))
      BY <1>3 DEF SWrite
    <3>3. sending' # <<ErrorBlock>>
      <4>1. Len(<<ErrorBlock>>) = 1 /\ <<ErrorBlock>> # <<>>
        OBVIOUS
      <4>2. sending = <<ErrorBlock>> => sent = 0 /\ sent + 1 = Len(sending)
        BY <3>1, <4>1
      <4>3. QED
        BY <3>2, <4>1, <4>2
    <3>4. QED
      BY <2>1, <2>5, <3>3 DEF Booting, listVars
  <2>7. BootClean'
    BY <2>1, <2>3, <2>6 DEF SuperInv, BootClean, userVars
  <2>8. CASE sending = <<ErrorBlock>>
    <3>1. sent = 0
      BY <1>0, <2>1, <2>8 DEF SubmitterAt, WbTypeOK
    <3>2. Rest = <<ErrorBlock>>
      BY <1>0, <2>8, <3>1, WholeRest
    <3>3. b = ErrorBlock /\ Rest' = <<>>
      BY <2>1, <3>2
    <3>4. disk'[Super] = EXT2_ERROR_FS \/ Super \in lost'
      BY <2>4, <3>3, SuperBlocks
    <3>5. SuperPlace'
      BY <2>3, <3>3, ShortQueues DEF SuperInv, SuperPlace
    <3>6. QED
      BY <2>7, <3>4, <3>5 DEF SuperInv, SuperTrue
  <2>9. CASE sending # <<ErrorBlock>>
    <3>1. Super \in Objs(Rest) => Sealed /\ LastSuper(Rest) /\ result = <<>> /\ AllEmpty
      BY <2>9 DEF SuperInv, SuperPlace
    <3>2. LastSuper(Rest) => LastSuper(Rest') /\ (b.obj = Super => Rest' = <<>>)
      BY <2>1, LastBlock
    <3>3. SuperPlace'
      BY <2>2, <2>3, <3>1, <3>2 DEF SuperInv, SuperPlace
    <3>4. ~Booting /\ ~Drained
      BY <2>1, <2>5, <2>9 DEF Booting, Drained
    <3>5. CASE b.obj # Super
      <4>1. SuperTrue'
        BY <2>4, <3>4, <3>5 DEF SuperInv, SuperTrue
      <4>2. QED
        BY <2>7, <3>3, <4>1 DEF SuperInv
    <3>6. CASE b.obj = Super
      <4>1. Sealed /\ Rest' = <<>> /\ result = <<>> /\ AllEmpty
        BY <2>2, <3>1, <3>2, <3>6
      <4>2. collected = <<>>
        BY <4>1, SealedFacts DEF SuperInv
      <4>3. SuperTrue'
        BY <2>3, <4>1, <4>2 DEF SuperTrue, Drained
      <4>4. QED
        BY <2>7, <3>3, <4>3 DEF SuperInv
    <3>7. QED
      BY <3>5, <3>6
  <2>10. QED
    BY <2>8, <2>9
<1>4. QED
  BY <1>1, <1>2, <1>3 DEF Submitter

\* What the superblock says, in every state.
LEMMA SuperInvHolds == Spec => []SuperInv
<1>1. Init => SuperInv
  <2>1. SUFFICES ASSUME WbInit PROVE SuperInv
    BY DEF Init
  <2>2. ~Sealed /\ Booting /\ \A o \in Content : disk[o] = 0
    BY <2>1, Objects DEF WbInit, Sealed, Booting
  <2>3. Rest = <<>> /\ First = <<>> /\ result = <<>> /\ collected = <<>>
    BY <2>1 DEF WbInit, Rest, First, Top
  <2>4. SuperPlace
    BY <2>3, ShortQueues DEF SuperPlace, InGroups
  <2>5. QED
    BY <2>2, <2>4 DEF SuperInv, SealedClean, BootClean, SuperTrue
<1>2. QueueInv /\ Referred' /\ SuperInv /\ [Next]_vars => SuperInv'
  <2>0. QueueInv /\ Referred' /\ SuperInv /\ [Next]_vars => SealedClean'
    BY SealedCleanStep DEF SuperInv
  <2>1. ASSUME SuperInv, SealedClean', UNCHANGED wbVars PROVE SuperInv'
    <3>1. /\ (Sealed' <=> Sealed) /\ (Booting' <=> Booting) /\ Rest' = Rest
          /\ UNCHANGED <<result, collected, dirtyBlocks, sending, disk, completed, lost>>
      BY <2>1 DEF Sealed, Booting, Rest, wbVars, userVars, listVars, cVars, sVars, diskVars, observers
    <3>2. QED
      BY <2>1, <3>1, SameSuper
  <2>2. QED
    BY <2>0, <2>1, WriterSteps, UserSuper, CollectorSuper, SubmitterSuper
<1>3. QED
  BY <1>1, <1>2, QueueInvHolds, ReferredHolds, PTL DEF Spec

-----------------------------------------------------------------------------
(***************************************************************************)
(* What FlushOrClose() promises.  Once the file system is sealed, pages    *)
(* and inodes on the device stay as they are, and the copies that are      *)
(* still on their way, before the superblock, end with what was promised.  *)
(***************************************************************************)
OnTheWay(o) == Versions(Rest, o) \cup Versions(First, o)
Kept(o) == disk[o] = promised[o] \/ o \in lost
CopyKept(o) ==
    /\ Kept(o) \/ promised[o] \in OnTheWay(o)
    /\ \A v \in OnTheWay(o) : v <= promised[o]
PromiseKept ==
    Sealed => /\ \A i \in Inode : Kept(Data(i)) /\ Kept(Meta(i))
              /\ \A o \in Copied : CopyKept(o)

\* A copy that is written leaves pages and inodes alone.
LEMMA CopyWritten ==
    ASSUME WbTypeOK, NEW b \in Blocks, b.obj \in Copied \cup {Super}, NEW i \in Inode
    PROVE  Written(b)[Data(i)] = disk[Data(i)] /\ Written(b)[Meta(i)] = disk[Meta(i)]
<1>1. b.obj # Data(i) /\ b.obj # Meta(i) /\ Meta(i) \in Content \cup {Super}
  BY Objects
<1>2. b.obj[1] # "meta"
  BY DEF Copied, Bitmap, Groups, Super
<1>3. Written(b)[Meta(i)] = disk[Meta(i)]
  BY <1>1, <1>2 DEF Written
<1>4. QED
  BY <1>1, <1>3, WrittenDisk

\* When the superblock is given away, all is on the device or is a copy on its
\* way, or was lost.
LEMMA PromiseMade ==
    ASSUME QueueInv, Referred', VersionInv', WbTypeOK', CFlushOrClose, completed'
    PROVE  PromiseKept'
<1>1. /\ dirty' = {} /\ result' = <<ValidBlock>> /\ promised' = mem
      /\ \A i \in Inode : ~Queued(Data(i))' /\ ~Queued(Meta(i))'
  BY SealingStep
<1>2. mem' = mem /\ collected' = <<>>
  BY DEF CFlushOrClose, QueueInv, PlaceInv, CollectorAt
<1>3. \A i \in Inode : (Settled(Data(i)) /\ Settled(Meta(i)))'
  BY <1>1 DEF VersionInv, Accounted, DataAccounted, MetaAccounted
<1>4. Pending' = <<ValidBlock>>
  BY <1>1, <1>2, SuperBlocks, ShortQueues, EmptyJoin DEF Pending, Top
<1>5. \A o \in Copied : Versions(Pending', o) = {}
  BY <1>4, SuperBlocks, ShortQueues, Objects DEF Copied
<1>6. \A o \in Copied : CopyKept(o)'
  <2>1. ASSUME NEW o \in Copied PROVE CopyKept(o)'
    <3>1. Settled(o)' \/ QueuedNow(o)'
      BY <1>1 DEF VersionInv, Accounted, CopyAccounted
    <3>2. Kept(o)' \/ promised'[o] \in OnTheWay(o)'
      BY <1>1, <1>2, <1>5, <3>1 DEF Settled, QueuedNow, Kept, OnTheWay
    <3>3. \A v \in OnTheWay(o)' : v <= promised'[o]
      BY <1>1, <1>2 DEF VersionInv, CopyOrder, Recent, OnTheWay
    <3>4. QED
      BY <3>2, <3>3 DEF CopyKept
  <2>2. QED
    BY <2>1
<1>7. \A i \in Inode : (Kept(Data(i)) /\ Kept(Meta(i)))'
  BY <1>1, <1>2, <1>3 DEF Settled, Kept
<1>8. QED
  BY <1>6, <1>7 DEF PromiseKept

\* A write keeps the promise: it is that of a copy, which is not older than what
\* the device holds and not newer than what was promised.
LEMMA PromiseWritten ==
    ASSUME QueueInv, VersionInv, SealedClean, Sealed, PromiseKept, Writes, promised' = promised
    PROVE  PromiseKept'
<1> DEFINE b == Head(Rest)
<1>1. /\ WbTypeOK /\ phase # "open" /\ collected = <<>>
      /\ \A i \in Inode : ~Queued(Data(i)) /\ ~Queued(Meta(i))
  BY SealedFacts DEF SealedClean, QueueInv, PlaceInv
<1>2. /\ Objs(Rest) = {b.obj} \cup Objs(Rest') /\ b \in Blocks /\ First' = First
      /\ \A o : Versions(Rest, o) = Versions(Rest', o) \cup (IF b.obj = o THEN {b.ver} ELSE {})
  BY FirstBlock DEF Writes, First
<1>3. \/ /\ disk' = Written(b)
         /\ lost' = {o \in lost : IF o = Super THEN b.obj # Super
                                               ELSE phase # "open" \/ disk'[o] # mem[o]}
      \/ disk' = disk /\ lost' = lost \cup {b.obj}
  BY DEF Writes
<1> HIDE DEF b
<1>4. b.obj \in Copied \cup {Super}
  <2>1. b.obj \in Content \cup {Super} /\ Queued(b.obj)
    BY <1>2, BlockFields DEF Queued
  <2>2. QED
    BY <1>1, <2>1, Objects
<1>5. \A o \in Content : o \in lost => o \in lost'
  BY <1>1, <1>3, Objects
<1>6. ASSUME NEW i \in Inode PROVE Kept(Data(i))' /\ Kept(Meta(i))'
  <2>1. disk'[Data(i)] = disk[Data(i)] /\ disk'[Meta(i)] = disk[Meta(i)]
    BY <1>1, <1>2, <1>3, <1>4, CopyWritten
  <2>2. QED
    BY <1>5, <2>1, Objects DEF PromiseKept, Kept
<1>7. ASSUME NEW o \in Copied PROVE CopyKept(o)'
  <2>1. CopyKept(o) /\ o \in Content
    BY VersionTypes, <1>1 DEF PromiseKept
  <2>2. CASE b.obj # o
    <3>1. disk'[o] = disk[o]
      BY <1>1, <1>2, <1>3, <2>2, WrittenDisk
    <3>2. OnTheWay(o)' = OnTheWay(o)
      BY <1>2, <2>2 DEF OnTheWay
    <3>3. QED
      BY <1>5, <2>1, <3>1, <3>2 DEF CopyKept, Kept
  <2>3. CASE b.obj = o
    <3>1. OnTheWay(o) = OnTheWay(o)' \cup {b.ver}
      BY <1>2, <2>3 DEF OnTheWay
    <3>2. disk'[o] = b.ver \/ o \in lost'
      BY <1>1, <1>2, <1>3, <2>3, WrittenDisk
    <3>3. disk[o] = promised[o] => b.ver = promised[o]
      <4>1. b.ver \in Versions(Rest, o) /\ b.ver \in Nat /\ promised[o] \in Nat /\ disk[o] \in Nat
        BY <1>1, <1>2, <2>1, <2>3, BlockFields, VersionTypes DEF WbTypeOK
      <4>2. disk[o] <= b.ver /\ b.ver <= promised[o]
        BY <2>1, <3>1, <4>1 DEF VersionInv, CopyOrder, Recent, CopyKept
      <4>3. QED
        BY <4>1, <4>2
    <3>4. Kept(o)' \/ promised[o] \in OnTheWay(o)'
      BY <1>5, <2>1, <3>1, <3>2, <3>3 DEF CopyKept, Kept
    <3>5. QED
      BY <2>1, <3>1, <3>4 DEF CopyKept
  <2>4. QED
    BY <2>2, <2>3
<1>8. QED
  BY <1>6, <1>7 DEF PromiseKept

\* The promise is kept by every step.
LEMMA PromiseStep ==
    ASSUME QueueInv, Referred', VersionInv, VersionInv', WbTypeOK', SealedClean, PromiseKept,
           [Next]_vars
    PROVE  PromiseKept'
<1>1. CASE ~Sealed
  BY <1>1, Seals, PromiseMade DEF PromiseKept
<1>2. CASE Sealed
  <2>1. /\ ~Collects /\ promised' = promised /\ collected = <<>> /\ WbTypeOK /\ late = {}
        /\ (result = <<>> \/ result = <<ValidBlock>>)
    BY <1>2, SealedSteps, SealedFacts DEF SealedClean, QueueInv, PlaceInv
  <2>2. ASSUME disk' = disk, lost \subseteq lost', \A o \in Copied : OnTheWay(o)' = OnTheWay(o)
        PROVE  PromiseKept'
    BY <1>2, <2>1, <2>2 DEF PromiseKept, Kept, CopyKept
  <2>3. CASE Quiet \/ (\E S \in SUBSET Content : Changes(S)) \/ Cleans
    <3>1. disk' = disk /\ lost \subseteq lost' /\ Rest' = Rest /\ First' = First
      BY <2>3 DEF Quiet, Changes, Cleans, CClean, First
    <3>2. QED
      BY <2>2, <3>1 DEF OnTheWay
  <2>4. CASE Publishes
    <3>1. disk' = disk /\ lost \subseteq lost' /\ Rest' = Rest /\ (First' = First \o Pending \/ First' = First)
      BY <2>4 DEF Publishes, First
    <3>2. \A o \in Copied : Versions(Pending, o) = {}
      <4>1. Pending = result
        BY <2>1, EmptyJoin DEF Pending, Top, WbTypeOK
      <4>2. QED
        BY <2>1, <4>1, SuperBlocks, ShortQueues, Objects DEF Copied
    <3>3. \A o \in Copied : Versions(First', o) = Versions(First, o)
      <4>1. First \in Seq(Blocks) /\ Pending \in Seq(Blocks)
        BY <2>1, QueueTypes
      <4>2. \A o : Versions(First \o Pending, o) = Versions(First, o) \cup Versions(Pending, o)
        BY <4>1, JoinedQueues
      <4>3. QED
        BY <3>1, <3>2, <4>2
    <3>4. QED
      BY <2>2, <3>1, <3>3 DEF OnTheWay
  <2>5. CASE Takes
    <3>1. disk' = disk /\ lost' = lost /\ \A o : Versions(Rest, o) = {}
      BY <2>5, ShortQueues DEF Takes
    <3>2. CASE Rest' = <<ErrorBlock>> /\ dirtyBlocks' = dirtyBlocks
      <4>1. First' = First /\ \A o \in Copied : Versions(Rest', o) = {}
        BY <3>2, SuperBlocks, ShortQueues, Objects DEF Copied, First
      <4>2. QED
        BY <2>2, <3>1, <4>1 DEF OnTheWay
    <3>3. CASE /\ \A o \in Copied : Versions(Rest', o) = Versions(First, o)
               /\ NoCopies(First')
      <4>1. \A o \in Copied : Versions(First', o) = {}
        BY <3>3, NoCopiesQueue
      <4>2. QED
        BY <2>2, <3>1, <3>3, <4>1 DEF OnTheWay
    <3>4. QED
      BY <2>5, <3>2, <3>3 DEF Takes
  <2>6. QED
    BY <1>2, <2>1, <2>3, <2>4, <2>5, StepKinds, PromiseWritten
<1>3. QED
  BY <1>1, <1>2

\* What was promised is on the device, on its way to it, or lost.
LEMMA PromiseKeptHolds == Spec => []PromiseKept
<1>1. Init => PromiseKept
  BY DEF Init, WbInit, Sealed, PromiseKept
<1>2. /\ QueueInv /\ QueueInv' /\ Referred' /\ VersionInv /\ VersionInv' /\ SuperInv
      /\ PromiseKept /\ [Next]_vars
      => PromiseKept'
  BY PromiseStep DEF SuperInv, QueueInv, PlaceInv
<1>3. QED
  BY <1>1, <1>2, QueueInvHolds, ReferredHolds, VersionInvHolds, SuperInvHolds, PTL DEF Spec

\* Whenever the device says that the file system is valid, nothing was written
\* to it yet, or all is that users had done when FlushOrClose() gave away the
\* superblock that says so, but for what was lost: it does that only when
\* nothing is dirty and no inode is in use, then everything on its way is
\* written before it, and nothing that users do later gets to the device.
THEOREM ValidIsCleanHolds == Spec => []ValidIsClean
<1>1. QueueInv /\ SuperInv /\ PromiseKept => ValidIsClean
  <2>1. SUFFICES ASSUME QueueInv, SuperInv, PromiseKept,
                        disk[Super] = EXT2_VALID_FS, Super \notin lost
                 PROVE  \/ \A o \in Content : disk[o] = 0
                        \/ \A o \in Content \ lost : disk[o] = promised[o]
    BY DEF ValidIsClean
  <2>2. CASE Booting
    BY <2>1, <2>2 DEF SuperInv, BootClean
  <2>3. CASE Sealed /\ Drained
    <3>1. Rest = <<>> /\ First = <<>>
      BY <2>1, <2>3 DEF Drained, First, Top, AllEmpty, QueueInv, PlaceInv, WbTypeOK
    <3>2. \A o : OnTheWay(o) = {}
      BY <3>1, ShortQueues DEF OnTheWay
    <3>3. \A o \in Content : Kept(o)
      BY <2>1, <2>3, <3>2, Objects DEF PromiseKept, CopyKept
    <3>4. QED
      BY <3>3 DEF Kept
  <2>4. disk[Super] # EXT2_ERROR_FS
    BY <2>1 DEF EXT2_ERROR_FS, EXT2_VALID_FS
  <2>5. QED
    BY <2>1, <2>2, <2>3, <2>4 DEF SuperInv, SuperTrue
<1>2. QED
  BY <1>1, QueueInvHolds, SuperInvHolds, PromiseKeptHolds, PTL
=============================================================================

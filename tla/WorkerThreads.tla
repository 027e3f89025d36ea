--------------------------- MODULE WorkerThreads ---------------------------
(***************************************************************************)
(* The kernel's worker threads: the blockthread of a user thread, the      *)
(* SyscallAsyncThread of a system call, the two threads of the             *)
(* blockdev_writer, and threads that are joined or detached by whoever     *)
(* started them.  They share nothing: what one does is not changed by what *)
(* another does at the same time, so that a behaviour has one of the four. *)
(***************************************************************************)
EXTENDS BlockThread, SyscallAsyncThread, WriteBack

ASSUME WorkersAssumption == thr # asyncThr

Free == Threads \ {thr, asyncThr}

VARIABLE active   \* which of the four it is

vars == <<threadVars, blockVars, asyncVars, wbVars, active>>

Init ==
    /\ ThreadInit /\ BlockInit /\ AsyncInit /\ WbInit
    /\ active \in {"block", "async", "writer", "free"}

Next ==
    \/ active = "block" /\ BlockNext /\ UNCHANGED <<asyncVars, wbVars, active>>
    \/ active = "async" /\ AsyncNext /\ UNCHANGED <<blockVars, wbVars, active>>
    \/ active = "writer" /\ WbNext /\ UNCHANGED <<threadVars, blockVars, asyncVars, active>>
    \/ /\ active = "free" /\ \E t \in Free : FreeThread(t)
       /\ UNCHANGED <<blockVars, asyncVars, wbVars, active>>

Spec == Init /\ [][Next]_vars

\* Threads run, the functions that are queued return, and a destructor that
\* has begun goes on.  That the destructor of a SyscallAsyncThread gets to the
\* end is not claimed: its worker may wait for a permit that nobody gives.
FairSpec ==
    /\ Spec
    /\ WF_blockVars(Look \/ Run \/ Acquire)
    /\ WF_threadVars(OwnThread)
    /\ WF_asyncVars(AsyncWorks)
    /\ WF_threadVars(AsyncThread)
    /\ WbFairness
    /\ \A t \in Free : ThreadFairness(t)
=============================================================================

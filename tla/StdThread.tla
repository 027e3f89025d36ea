------------------------------ MODULE StdThread ------------------------------
(***************************************************************************)
(* std::thread: the start context that a new thread and the object that    *)
(* started it share, and who of them deletes it.                           *)
(*                                                                         *)
(* The context holds the function, done and detached.  The thread sets     *)
(* done under the context's lock when the function has returned; detach()  *)
(* sets detached under it; each reads the other's flag in the same step.   *)
(***************************************************************************)
EXTENDS Naturals

CONSTANT Threads

VARIABLES
    done, detached,   \* the flags of each context
    deletes,          \* how often each context was deleted
    body,             \* where each thread is: thread_trampoline(), invoke()
    sawDetached,      \* its local copy of detached
    owner,            \* what the std::thread object does
    sawDone           \* the local copy of done in detach()

threadVars == <<done, detached, deletes, body, sawDetached, owner, sawDone>>

ThreadTypeOK ==
    /\ done \in [Threads -> BOOLEAN]
    /\ detached \in [Threads -> BOOLEAN]
    /\ deletes \in [Threads -> 0 .. 1]
    /\ body \in [Threads -> {"none", "run", "mark", "decide", "exit", "ended"}]
    /\ sawDetached \in [Threads -> BOOLEAN]
    /\ owner \in [Threads -> {"none", "have", "wait", "joined", "decide", "gone"}]
    /\ sawDone \in [Threads -> BOOLEAN]

ThreadInit ==
    /\ done = [t \in Threads |-> FALSE]
    /\ detached = [t \in Threads |-> FALSE]
    /\ deletes = [t \in Threads |-> 0]
    /\ body = [t \in Threads |-> "none"]
    /\ sawDetached = [t \in Threads |-> FALSE]
    /\ owner = [t \in Threads |-> "none"]
    /\ sawDone = [t \in Threads |-> FALSE]

Delete(t) == deletes' = [deletes EXCEPT ![t] = @ + 1]

-----------------------------------------------------------------------------

\* The constructor: the context is made and new_task() starts the thread.
Start(t) ==
    /\ owner[t] = "none"
    /\ owner' = [owner EXCEPT ![t] = "have"]
    /\ body' = [body EXCEPT ![t] = "run"]
    /\ UNCHANGED <<done, detached, deletes, sawDetached, sawDone>>

(* The thread *)

\* f() returns.
Finish(t) ==
    /\ body[t] = "run"
    /\ body' = [body EXCEPT ![t] = "mark"]
    /\ UNCHANGED <<done, detached, deletes, sawDetached, owner, sawDone>>

\* Under _lock: done is set and detached is read.
Mark(t) ==
    /\ body[t] = "mark"
    /\ done' = [done EXCEPT ![t] = TRUE]
    /\ sawDetached' = [sawDetached EXCEPT ![t] = detached[t]]
    /\ body' = [body EXCEPT ![t] = "decide"]
    /\ UNCHANGED <<detached, deletes, owner, sawDone>>

\* if (detached) delete this
Decide(t) ==
    /\ body[t] = "decide"
    /\ IF sawDetached[t] THEN Delete(t) ELSE UNCHANGED deletes
    /\ body' = [body EXCEPT ![t] = "exit"]
    /\ UNCHANGED <<done, detached, sawDetached, owner, sawDone>>

\* scheduler->exit(): whoever joins the task is woken.
Exit(t) ==
    /\ body[t] = "exit"
    /\ body' = [body EXCEPT ![t] = "ended"]
    /\ UNCHANGED <<done, detached, deletes, sawDetached, owner, sawDone>>

(* The object *)

\* Faulty variant: join() does not wait.
JoinAtOnce(t) ==
    /\ owner[t] = "have"
    /\ owner' = [owner EXCEPT ![t] = "joined"]
    /\ UNCHANGED <<done, detached, deletes, body, sawDetached, sawDone>>

\* join(): is_done() under _lock, and the scheduler's join() if it is not.
Join(t) ==
    /\ owner[t] = "have"
    /\ owner' = [owner EXCEPT ![t] = IF done[t] THEN "joined" ELSE "wait"]
    /\ UNCHANGED <<done, detached, deletes, body, sawDetached, sawDone>>

\* tasklist::join() returns when the task has ended (JoinAfterEnd of
\* Scheduler) or is not in the list any more.
Joined(t) ==
    /\ owner[t] = "wait" /\ body[t] = "ended"
    /\ owner' = [owner EXCEPT ![t] = "joined"]
    /\ UNCHANGED <<done, detached, deletes, body, sawDetached, sawDone>>

\* ~thread(), or the assignment of another thread to the object.
Destroy(t) ==
    /\ owner[t] = "joined"
    /\ Delete(t)
    /\ owner' = [owner EXCEPT ![t] = "gone"]
    /\ UNCHANGED <<done, detached, body, sawDetached, sawDone>>

\* detach(): under _lock detached is set and done is read.
Detach(t) ==
    /\ owner[t] = "have"
    /\ detached' = [detached EXCEPT ![t] = TRUE]
    /\ sawDone' = [sawDone EXCEPT ![t] = done[t]]
    /\ owner' = [owner EXCEPT ![t] = "decide"]
    /\ UNCHANGED <<done, deletes, body, sawDetached>>

\* Faulty variant: a detached context is always the thread's to delete.
DetachLeave(t) ==
    /\ owner[t] = "decide"
    /\ owner' = [owner EXCEPT ![t] = "gone"]
    /\ UNCHANGED <<done, detached, deletes, body, sawDetached, sawDone>>

\* if (done) delete this; start_context = nullptr
DetachDone(t) ==
    /\ owner[t] = "decide"
    /\ IF sawDone[t] THEN Delete(t) ELSE UNCHANGED deletes
    /\ owner' = [owner EXCEPT ![t] = "gone"]
    /\ UNCHANGED <<done, detached, body, sawDetached, sawDone>>

Body(t) == Finish(t) \/ Mark(t) \/ Decide(t) \/ Exit(t)
JoinAndDestroy(t) == Join(t) \/ Joined(t) \/ Destroy(t)
DetachSteps(t) == Detach(t) \/ DetachDone(t)

\* A thread whose object is not part of something else.
FreeThread(t) == Body(t) \/ Start(t) \/ JoinAndDestroy(t) \/ DetachSteps(t)

\* Threads run, and so do the calls of join() and detach() that were begun.
ThreadFairness(t) ==
    WF_threadVars(Body(t)) /\ WF_threadVars(Joined(t) \/ Destroy(t) \/ DetachDone(t))

-----------------------------------------------------------------------------
(* Properties *)

\* While the thread executes the function, which lives in the context, or
\* has to set its flag, and while the object refers to it, the context is
\* there.
ContextAlive ==
    \A t \in Threads :
        body[t] \in {"run", "mark"} \/ owner[t] \in {"have", "wait", "joined"} => deletes[t] = 0

\* Once both have let go of the context it was deleted, exactly once,
\* whichever of detach() and the end of the function came first.
DeletedOnce ==
    \A t \in Threads :
        /\ deletes[t] <= 1
        /\ body[t] \in {"exit", "ended"} /\ owner[t] = "gone" => deletes[t] = 1
=============================================================================

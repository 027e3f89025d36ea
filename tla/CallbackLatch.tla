--------------------------- MODULE CallbackLatch ---------------------------
(***************************************************************************)
(* CallbackLatch: who started a SCSI command waits in wait(), for a limited *)
(* time, and the callback of the command calls open(), perhaps after the   *)
(* time is up: callback and caller share the latch, which is as old as the *)
(* later of them.  The latch is a mul_semaphore and a flag under mtx.      *)
(***************************************************************************)
EXTENDS MulSemaphore

CONSTANT Callbacks   \* callers of open()

VARIABLES
    success,   \* CallbackLatch::success
    opening,   \* where each callback is in open()
    result,    \* what each wait() returned: "none" before the first
    expired    \* observer: tasks whose time was up in their last wait()

latchVars == <<success, opening, result, expired>>
allVars == <<vars, latchVars>>

LatchTypeOK ==
    /\ TypeOK
    /\ success \in BOOLEAN
    /\ opening \in [Callbacks -> {"idle", "release"}]
    /\ result \in [Tasks -> {"none", "wait", "true", "false"}]
    /\ expired \subseteq Tasks

LatchInit ==
    /\ Init
    /\ success = FALSE
    /\ opening = [c \in Callbacks |-> "idle"]
    /\ result = [t \in Tasks |-> "none"]
    /\ expired = {}

\* Faulty variant: the waiter is woken first.
OpenReversed(c) ==
    \/ /\ opening[c] = "idle"
       /\ Release
       /\ opening' = [opening EXCEPT ![c] = "release"]
       /\ UNCHANGED <<success, result, expired>>
    \/ /\ opening[c] = "release"
       /\ success' = TRUE
       /\ opening' = [opening EXCEPT ![c] = "idle"]
       /\ UNCHANGED <<vars, result, expired>>

\* open(): the flag, under mtx, and then the permit.
Open(c) ==
    \/ /\ opening[c] = "idle"
       /\ success' = TRUE
       /\ opening' = [opening EXCEPT ![c] = "release"]
       /\ UNCHANGED <<vars, result, expired>>
    \/ /\ opening[c] = "release"
       /\ Release
       /\ opening' = [opening EXCEPT ![c] = "idle"]
       /\ UNCHANGED <<success, result, expired>>

\* wait() begins ...
WaitLatch(t) ==
    /\ result[t] # "wait"
    /\ Acquire(t)
    /\ result' = [result EXCEPT ![t] = "wait"]
    /\ expired' = expired \ {t}
    /\ UNCHANGED <<success, opening>>

\* ... goes through acquire() of the semaphore ...
InAcquire(t) == Progress(t) /\ UNCHANGED latchVars

\* ... and reads the flag, under mtx.
WaitReturns(t) ==
    /\ result[t] = "wait" /\ pc[t] = "idle"
    /\ result' = [result EXCEPT ![t] = IF success THEN "true" ELSE "false"]
    /\ UNCHANGED <<vars, success, opening, expired>>

TimeIsUp(t) ==
    /\ Timeout(t)
    /\ expired' = expired \cup {t}
    /\ UNCHANGED <<success, opening, result>>

Next ==
    \/ \E t \in Tasks : WaitLatch(t) \/ InAcquire(t) \/ WaitReturns(t) \/ TimeIsUp(t)
    \/ \E c \in Callbacks : Open(c)

Spec == LatchInit /\ [][Next]_allVars

\* Tasks run, and the timer interrupt comes back until the time is up; that
\* anybody calls open() is not assumed.
FairSpec ==
    /\ Spec
    /\ \A t \in Tasks : WF_allVars(InAcquire(t) \/ WaitReturns(t)) /\ WF_allVars(TimeIsUp(t))

-----------------------------------------------------------------------------
(* Properties *)

\* wait() says that the time is up only if it is: whoever is woken by open(),
\* in whatever order callbacks, timeouts and tasks come, sees its success.
TimeoutIsTrue == \A t \in Tasks : result[t] = "false" => t \in expired
=============================================================================

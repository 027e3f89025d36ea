------------------------------ MODULE Scheduler ------------------------------
(***************************************************************************)
(* tasklist: the tasks of the machine, the switch between them, and the    *)
(* way an ended task is freed.                                             *)
(*                                                                         *)
(* Every method of tasklist runs under _lock with interrupts disabled, so  *)
(* each stretch of code between two acquisitions of _lock is one step (see *)
(* Spinlock).  A processor alternates between the task it executes and the *)
(* interrupt path:                                                         *)
(*   "task"    it executes its current task,                               *)
(*   "trap"    a handler ran on top of the task and will switch,           *)
(*   "switch"  switch_tasks() has queued dead tasks for the reaper and is  *)
(*             about to pick the next task (it dropped _lock in between),  *)
(*   "return"  it switched, and still returns on the old task's stack.     *)
(*                                                                         *)
(* Task numbers are handed out in increasing order and never reused, so    *)
(* the order of the vector tasks is the order of the numbers.              *)
(***************************************************************************)
EXTENDS Integers, FiniteSets

CONSTANTS
    CPUs, BSP,         \* the processors, and the one that boots the machine
    MaxTask,           \* bound on the number of tasks ever created
    MAX_POINTS, CONTINUE_RUNNING_BIAS, RESOURCE_PRIORITY_BIAS, MAX_RESOURCES,
    MaxSleep,          \* longest sleep, in ticks
    Ops,               \* which operations tasks perform in this instance
    Outcomes,          \* how the work a task waits for may end
    UninitCurrent      \* what the uninitialised local current_task of
                       \* switch_tasks() may hold

NoTask == 0
TaskId == 1 .. MaxTask

PRIO_GROUP_IDLE == 0
PRIO_GROUP_LOW == 1
PRIO_GROUP_NORMAL == 2
PRIO_GROUP_REALTIME == 3

ASSUME SchedulerAssumption ==
    /\ BSP \in CPUs
    /\ MaxTask \in Nat \ {0}
    /\ MAX_POINTS \in Nat /\ MAX_RESOURCES \in Nat /\ MaxSleep \in Nat
    /\ CONTINUE_RUNNING_BIAS \in Nat /\ RESOURCE_PRIORITY_BIAS \in Nat
    /\ UninitCurrent \subseteq TaskId \cup {NoTask}
    /\ Outcomes \subseteq {"return", "kill", "terminate"}

VARIABLES
    tasks,      \* the vector tasks, as the set of its task numbers
    serial,     \* tasklist::serial
    multicpu,   \* tasklist::multicpu
    running, blocked, ended, quarantine, cpu, group, points, resources,
                \* task_bits of each task
    waiting,    \* what each task is doing inside a blocking call
    target,     \* the task a join() waits for
    remain,     \* ticks a sleeper still has to wait
    pending,    \* do_when_not_running of each task
    prequeue,   \* task_delete_prequeue
    delqueue,   \* task_delete_queue
    sema,       \* permits of _reaper_sema
    reaper,     \* where the reaper thread is
    reaplist,   \* the tasks the reaper is going to delete
    freed,      \* tasks that were deleted
    online,     \* processors that have their idle task
    mode,       \* what each processor is doing
    stack       \* the task whose stack each processor is using

bitVars == <<running, blocked, ended, quarantine, cpu, group, points, resources>>
waitVars == <<waiting, target, remain, pending>>
reapVars == <<prequeue, delqueue, sema, reaper, reaplist, freed>>
cpuVars == <<online, mode, stack>>
vars == <<tasks, serial, multicpu, bitVars, waitVars, reapVars, cpuVars>>

Modes == {"task", "trap", "switch", "return"}

TypeOK ==
    /\ tasks \subseteq TaskId
    /\ serial \in TaskId
    /\ multicpu \in BOOLEAN
    /\ running \in [TaskId -> BOOLEAN]
    /\ blocked \in [TaskId -> BOOLEAN]
    /\ ended \in [TaskId -> BOOLEAN]
    /\ quarantine \in [TaskId -> BOOLEAN]
    /\ cpu \in [TaskId -> CPUs]
    /\ group \in [TaskId -> PRIO_GROUP_IDLE .. PRIO_GROUP_REALTIME]
    /\ points \in [TaskId -> 0 .. MAX_POINTS]
    /\ resources \in [TaskId -> 0 .. MAX_RESOURCES]
    /\ waiting \in [TaskId -> {"none", "join", "ticks", "nanos", "async"}]
    /\ target \in [TaskId -> TaskId \cup {NoTask}]
    /\ remain \in [TaskId -> 0 .. MaxSleep]
    /\ pending \in [TaskId -> {"none", "unblock", "end"}]
    /\ prequeue \subseteq TaskId
    /\ delqueue \subseteq TaskId
    /\ sema \in Nat
    /\ reaper \in {"acquire", "length", "take", "delete"}
    /\ reaplist \subseteq TaskId
    /\ freed \subseteq TaskId
    /\ online \subseteq CPUs
    /\ mode \in [CPUs -> Modes]
    /\ stack \in [CPUs -> TaskId \cup {NoTask}]

\* create_current_idle_task(0) has made the boot thread a task.
Init ==
    /\ tasks = {1}
    /\ serial = 1
    /\ multicpu = FALSE
    /\ running = [t \in TaskId |-> t = 1]
    /\ blocked = [t \in TaskId |-> FALSE]
    /\ ended = [t \in TaskId |-> FALSE]
    /\ quarantine = [t \in TaskId |-> FALSE]
    /\ cpu = [t \in TaskId |-> BSP]
    /\ group = [t \in TaskId |-> IF t = 1 THEN PRIO_GROUP_IDLE ELSE PRIO_GROUP_NORMAL]
    /\ points = [t \in TaskId |-> 0]
    /\ resources = [t \in TaskId |-> 0]
    /\ waiting = [t \in TaskId |-> "none"]
    /\ target = [t \in TaskId |-> NoTask]
    /\ remain = [t \in TaskId |-> 0]
    /\ pending = [t \in TaskId |-> "none"]
    /\ prequeue = {}
    /\ delqueue = {}
    /\ sema = 0
    /\ reaper = "acquire"
    /\ reaplist = {}
    /\ freed = {}
    /\ online = {BSP}
    /\ mode = [p \in CPUs |-> "task"]
    /\ stack = [p \in CPUs |-> IF p = BSP THEN 1 ELSE NoTask]

-----------------------------------------------------------------------------
(* Who is running *)

\* The tasks get_current_task_with_lock() would find on processor p.
Current(p) == {t \in tasks : running[t] /\ cpu[t] = p}

\* Only idle tasks are pinned to a processor.
Pinned(t) == group[t] = PRIO_GROUP_IDLE

\* Task t executes on processor p and is free to call something.
Executes(p, t) ==
    /\ mode[p] = "task" /\ p \in online
    /\ t \in Current(p)
    /\ ~blocked[t] /\ waiting[t] = "none"

\* A task other than an idle task: idle tasks never wait or end.
Worker(p, t) == Executes(p, t) /\ ~Pinned(t)

\* Faulty variant: the join handler does not compare the task number.
AfterAnyExit(x, b) ==
    [t \in TaskId |-> IF t \in tasks \ {x} /\ waiting[t] = "join" THEN FALSE ELSE b[t]]

\* blocked after the event TASK_EVENT_EXIT of task x reached all other tasks:
\* the handlers of the tasks that join x unblock them.
AfterExitEvent(x, b) ==
    [t \in TaskId |->
        IF t \in tasks \ {x} /\ waiting[t] = "join" /\ target[t] = x THEN FALSE ELSE b[t]]

-----------------------------------------------------------------------------
(* Creation of tasks *)

NewTask(p) ==
    /\ \E t \in TaskId : Executes(p, t)
    /\ serial < MaxTask
    /\ serial' = serial + 1
    /\ tasks' = tasks \cup {serial + 1}
    /\ UNCHANGED <<multicpu, bitVars, waitVars, reapVars, cpuVars>>

StartMultiCpu ==
    /\ ~multicpu
    /\ \E t \in TaskId : Executes(BSP, t)
    /\ multicpu' = TRUE
    /\ cpu' = [t \in TaskId |-> IF t \in tasks THEN BSP ELSE cpu[t]]
    /\ UNCHANGED <<tasks, serial, running, blocked, ended, quarantine, group, points,
                   resources, waitVars, reapVars, cpuVars>>

\* create_current_idle_task(p) on a processor that was started.
CreateIdleTask(p) ==
    /\ multicpu /\ p \notin online
    /\ serial < MaxTask
    /\ LET t == serial + 1 IN
        /\ serial' = t
        /\ tasks' = tasks \cup {t}
        /\ running' = [running EXCEPT ![t] = TRUE]
        /\ cpu' = [cpu EXCEPT ![t] = p]
        /\ group' = [group EXCEPT ![t] = PRIO_GROUP_IDLE]
        /\ stack' = [stack EXCEPT ![p] = t]
    /\ online' = online \cup {p}
    /\ UNCHANGED <<multicpu, blocked, ended, quarantine, points, resources,
                   waitVars, reapVars, mode>>

-----------------------------------------------------------------------------
(* Blocking calls and how they end *)

\* exit() and user_exit(): the task requests the switch itself.
Exit(p) ==
    /\ "exit" \in Ops
    /\ \E t \in TaskId :
        /\ Worker(p, t)
        /\ ended' = [ended EXCEPT ![t] = TRUE]
        /\ blocked' = AfterExitEvent(t, blocked)
    /\ mode' = [mode EXCEPT ![p] = "trap"]
    /\ UNCHANGED <<tasks, serial, multicpu, running, quarantine, cpu, group, points,
                   resources, waitVars, reapVars, online, stack>>

\* The first half of join(): nothing to wait for, or handler and blocked bit.
Join(p, x) ==
    /\ "join" \in Ops
    /\ \E t \in TaskId \ {x} :
        /\ Worker(p, t)
        /\ x \in tasks /\ ~ended[x] /\ ~Pinned(x)
        /\ waiting' = [waiting EXCEPT ![t] = "join"]
        /\ target' = [target EXCEPT ![t] = x]
        /\ blocked' = [blocked EXCEPT ![t] = TRUE]
    /\ UNCHANGED <<tasks, serial, multicpu, running, ended, quarantine, cpu, group, points,
                   resources, remain, pending, reapVars, cpuVars>>

\* ticks_millisleep(): wake when tick_counter has advanced by n.
SleepTicks(p, n) ==
    /\ "ticks" \in Ops
    /\ \E t \in TaskId :
        /\ Worker(p, t)
        /\ waiting' = [waiting EXCEPT ![t] = "ticks"]
        /\ remain' = [remain EXCEPT ![t] = n]
        /\ blocked' = [blocked EXCEPT ![t] = TRUE]
    /\ UNCHANGED <<tasks, serial, multicpu, running, ended, quarantine, cpu, group, points,
                   resources, target, pending, reapVars, cpuVars>>

\* tsc_nanosleep(): the handler looks at the clock in every switch_tasks().
SleepNanos(p) ==
    /\ "nanos" \in Ops
    /\ \E t \in TaskId :
        /\ Worker(p, t)
        /\ waiting' = [waiting EXCEPT ![t] = "nanos"]
        /\ blocked' = [blocked EXCEPT ![t] = TRUE]
    /\ UNCHANGED <<tasks, serial, multicpu, running, ended, quarantine, cpu, group, points,
                   resources, target, remain, pending, reapVars, cpuVars>>

\* The polling loop at the end of join() and the sleeps sees ~is_blocked().
Resume(p) ==
    /\ mode[p] = "task"
    /\ \E t \in Current(p) :
        /\ waiting[t] \in {"join", "ticks", "nanos"} /\ ~blocked[t]
        /\ waiting' = [waiting EXCEPT ![t] = "none"]
        /\ target' = [target EXCEPT ![t] = NoTask]
    /\ UNCHANGED <<tasks, serial, multicpu, bitVars, remain, pending, reapVars, cpuVars>>

\* event(TASK_EVENT_TIMER100HZ) from the boot processor's timer interrupt:
\* the handlers of the sleepers whose time has come unblock them.  The next
\* handler of the same interrupt calls switch_tasks().
Tick ==
    /\ BSP \in online /\ mode[BSP] = "task"
    /\ LET asleep == {t \in tasks : waiting[t] = "ticks" /\ blocked[t]} IN
        /\ asleep # {}
        /\ remain' = [t \in TaskId |-> IF t \in asleep THEN remain[t] - 1 ELSE remain[t]]
        /\ blocked' = [t \in TaskId |-> IF t \in asleep THEN remain[t] > 1 ELSE blocked[t]]
    /\ mode' = [mode EXCEPT ![BSP] = "trap"]
    /\ UNCHANGED <<tasks, serial, multicpu, running, ended, quarantine, cpu, group, points,
                   resources, waiting, target, pending, reapVars, online, stack>>

\* A page fault or an asynchronous system call: the handler blocks the task,
\* hands its work to a kernel thread and goes on to switch_tasks().
Async(p) ==
    /\ "async" \in Ops
    /\ \E t \in TaskId :
        /\ Worker(p, t)
        /\ waiting' = [waiting EXCEPT ![t] = "async"]
        /\ blocked' = [blocked EXCEPT ![t] = TRUE]
    /\ mode' = [mode EXCEPT ![p] = "trap"]
    /\ UNCHANGED <<tasks, serial, multicpu, running, ended, quarantine, cpu, group, points,
                   resources, target, remain, pending, reapVars, online, stack>>

\* A kernel thread or a handler on processor p is done with the work of task t.
Finishes(p, t) ==
    /\ \E u \in TaskId \ {t} : Executes(p, u)
    /\ t \in tasks /\ waiting[t] = "async"
    /\ waiting' = [waiting EXCEPT ![t] = "none"]

\* when_not_running() with a function that unblocks the task: at once, or
\* when the task is switched out.
ReturnAsync(p, t) ==
    /\ "return" \in Outcomes
    /\ Finishes(p, t)
    /\ \/ /\ running[t]
          /\ pending' = [pending EXCEPT ![t] = "unblock"]
          /\ UNCHANGED blocked
       \/ /\ ~running[t]
          /\ blocked' = [blocked EXCEPT ![t] = FALSE]
          /\ UNCHANGED pending
    /\ UNCHANGED <<tasks, serial, multicpu, running, ended, quarantine, cpu, group, points,
                   resources, target, remain, reapVars, cpuVars>>

\* when_not_running() with a function that ends the task; a task that is not
\* running is evicted at once.
KillAsync(p, t) ==
    /\ "kill" \in Outcomes
    /\ Finishes(p, t)
    /\ \/ /\ running[t]
          /\ pending' = [pending EXCEPT ![t] = "end"]
          /\ UNCHANGED <<tasks, blocked, ended, prequeue>>
       \/ /\ ~running[t]
          /\ ended' = [ended EXCEPT ![t] = TRUE]
          /\ tasks' = tasks \ {t}
          /\ prequeue' = prequeue \cup {t}
          /\ blocked' = AfterExitEvent(t, blocked)
          /\ UNCHANGED pending
    /\ UNCHANGED <<serial, multicpu, running, quarantine, cpu, group, points, resources,
                   target, remain, delqueue, sema, reaper, reaplist, freed, cpuVars>>

\* resolved_read_page() of a page that cannot be read: terminate_blocked().
TerminateBlocked(p, t) ==
    /\ "terminate" \in Outcomes
    /\ Finishes(p, t)
    /\ tasks' = tasks \ {t}
    /\ prequeue' = prequeue \cup {t}
    /\ UNCHANGED <<serial, multicpu, bitVars, target, remain, pending,
                   delqueue, sema, reaper, reaplist, freed, cpuVars>>

\* task::resource_acq(): a mutex was handed to the current task, or unlocked.
ResourceAcq(p, d) ==
    /\ "resource" \in Ops
    /\ \E t \in TaskId :
        /\ Worker(p, t)
        /\ resources' = [resources EXCEPT ![t] =
              IF @ + d < 0 THEN 0 ELSE IF @ + d > MAX_RESOURCES THEN MAX_RESOURCES ELSE @ + d]
    /\ UNCHANGED <<tasks, serial, multicpu, running, blocked, ended, quarantine, cpu, group,
                   points, waitVars, reapVars, cpuVars>>

-----------------------------------------------------------------------------
(* switch_tasks() *)

\* Faulty variant: every dead task goes to the reaper, whoever ran it last.
StartSwitchAnyCpu(p) ==
    /\ p \in online /\ mode[p] \in {"task", "trap"}
    /\ prequeue' = {}
    /\ delqueue' = delqueue \cup prequeue
    /\ sema' = IF prequeue = {} THEN sema ELSE sema + 1
    /\ mode' = [mode EXCEPT ![p] = "switch"]
    /\ UNCHANGED <<tasks, serial, multicpu, bitVars, waitVars, reaper, reaplist, freed,
                   online, stack>>

\* Dead tasks this processor no longer stands on go to the reaper.
StartSwitch(p) ==
    /\ p \in online /\ mode[p] \in {"task", "trap"}
    /\ LET dead == {t \in prequeue : cpu[t] = p} IN
        /\ prequeue' = prequeue \ dead
        /\ delqueue' = delqueue \cup dead
        /\ sema' = IF dead = {} THEN sema ELSE sema + 1
    /\ mode' = [mode EXCEPT ![p] = "switch"]
    /\ UNCHANGED <<tasks, serial, multicpu, bitVars, waitVars, reaper, reaplist, freed,
                   online, stack>>

\* Tasks whose cpu field makes them this processor's own.
Mine(p, t) == ~multicpu \/ cpu[t] = p

\* Faulty variant: switch_tasks() leaves the quarantines to the idle loop.
NothingLifted(p) == quarantine

\* The quarantines this switch lifts: the processor has left those stacks.
Lifted(p) == [t \in TaskId |-> IF t \in tasks /\ Mine(p, t) THEN FALSE ELSE quarantine[t]]

\* The tasks one of which the scan of tasks leaves in current_task.
CurrentTask(p) == {t \in tasks : Mine(p, t) /\ ~quarantine[t] /\ running[t]}

\* Tasks the scan admits.  The scan for the groups NORMAL and REALTIME
\* compares with current_task before it has met the current task cur, when
\* the variable still holds the uninitialised value junk.
Eligible(p, cur, junk, b) ==
    {t \in tasks :
        /\ Mine(p, t) \/ ~Pinned(t)
        /\ ~b[t] /\ ~ended[t] /\ ~Lifted(p)[t]
        /\ \/ ~running[t]
           \/ t = cur
           \/ t = junk /\ t < cur /\ group[t] >= PRIO_GROUP_NORMAL}

\* The eligible tasks of the highest priority group that has any.
Pool(p, cur, junk, b) ==
    LET el == Eligible(p, cur, junk, b)
    IN  {t \in el : \A u \in el : group[u] <= group[t]}

\* Faulty variant: the points of the pool do not age.
ChargedNoAging(cur, pool) ==
    IF points[cur] # MAX_POINTS THEN [points EXCEPT ![cur] = @ + 1] ELSE points

\* The points after the current task was charged for its time slice.
Charged(cur, pool) ==
    IF points[cur] # MAX_POINTS THEN [points EXCEPT ![cur] = @ + 1]
    ELSE IF cur \notin pool THEN points
    ELSE [t \in TaskId |-> IF t \in pool /\ points[t] > 0 THEN points[t] - 1 ELSE points[t]]

Reduced(n, bias) == IF n > bias THEN n - bias ELSE 0

\* The points task t competes with.
Biased(t, cur, pts) ==
    LET own == IF t = cur THEN Reduced(pts[t], CONTINUE_RUNNING_BIAS) ELSE pts[t]
    IN  IF resources[t] > 0 THEN Reduced(own, RESOURCE_PRIORITY_BIAS) ELSE own

\* The winner of the pool: a later task wins if its biased points are below
\* the points, not biased, of the best one so far.
Winner(pool, cur, pts) ==
    LET best[i \in 0 .. MaxTask] ==
          IF i = 0 THEN NoTask
          ELSE LET w == best[i-1]
               IN  IF i \in pool /\ (w = NoTask \/ Biased(i, cur, pts) < pts[w])
                   THEN i ELSE w
    IN  best[MaxTask]

\* Sleepers whose clock handler the scan may find expired.
NanoSleepers == {t \in tasks : waiting[t] = "nanos" /\ blocked[t]}

\* The current task stays.
Keep(p, pts, b) ==
    /\ mode' = [mode EXCEPT ![p] = "task"]
    /\ points' = pts
    /\ blocked' = b
    /\ quarantine' = Lifted(p)
    /\ UNCHANGED <<tasks, serial, multicpu, running, ended, cpu, group, resources, waitVars,
                   reapVars, online, stack>>

\* What follows the change of the bits: the functions that waited for cur not
\* to run, and the removal of a task that ended.
ChangeRest(p, cur, pts, b) ==
    LET gone == ended[cur] \/ pending[cur] = "end" IN
    /\ pending' = [pending EXCEPT ![cur] = "none"]
    /\ blocked' = [b EXCEPT ![cur] = IF pending[cur] = "unblock" THEN FALSE ELSE @]
    /\ ended' = [ended EXCEPT ![cur] = gone]
    /\ tasks' = IF gone THEN tasks \ {cur} ELSE tasks
    /\ prequeue' = IF gone THEN prequeue \cup {cur} ELSE prequeue
    /\ points' = pts
    /\ mode' = [mode EXCEPT ![p] = "return"]
    /\ UNCHANGED <<serial, multicpu, group, resources, waiting, target, remain,
                   delqueue, sema, reaper, reaplist, freed, online, stack>>

\* Faulty variant: no stack quarantine.
ChangeNoQuarantine(p, cur, win, pts, b) ==
    /\ quarantine' = Lifted(p)
    /\ running' = [running EXCEPT ![cur] = FALSE, ![win] = TRUE]
    /\ cpu' = [cpu EXCEPT ![win] = IF multicpu THEN p ELSE @]
    /\ ChangeRest(p, cur, pts, b)

\* Faulty variant: the winner keeps the processor it ran on last.
ChangeNoCpu(p, cur, win, pts, b) ==
    /\ quarantine' = [Lifted(p) EXCEPT ![cur] = ~ended[cur]]
    /\ running' = [running EXCEPT ![cur] = FALSE, ![win] = TRUE]
    /\ UNCHANGED cpu
    /\ ChangeRest(p, cur, pts, b)

\* The processor changes from cur to win.
Change(p, cur, win, pts, b) ==
    /\ quarantine' = [Lifted(p) EXCEPT ![cur] = ~ended[cur]]
    /\ running' = [running EXCEPT ![cur] = FALSE, ![win] = TRUE]
    /\ cpu' = [cpu EXCEPT ![win] = IF multicpu THEN p ELSE @]
    /\ ChangeRest(p, cur, pts, b)

\* The scan, the charge and the choice; the bound variables name the values
\* the code computes on the way.
PickTask(p) ==
    /\ mode[p] = "switch"
    /\ \E cur \in CurrentTask(p), junk \in UninitCurrent, expired \in SUBSET NanoSleepers :
       \E b \in {[t \in TaskId |-> blocked[t] /\ t \notin expired]} :
       \E pool \in {Pool(p, cur, junk, b)} :
       \E pts \in {Charged(cur, pool)} :
       \E win \in pool \cap {Winner(pool, cur, pts)} :
            \/ win = cur /\ Keep(p, pts, b)
            \/ win # cur /\ Change(p, cur, win, pts, b)

\* iretq: only now does the processor leave the old task's stack.
ReturnFromSwitch(p) ==
    /\ mode[p] = "return"
    /\ mode' = [mode EXCEPT ![p] = "task"]
    /\ \E t \in Current(p) : stack' = [stack EXCEPT ![p] = t]
    /\ UNCHANGED <<tasks, serial, multicpu, bitVars, waitVars, reapVars, online>>

\* clear_stack_quarantines() in the idle loop, after hlt.
ClearStackQuarantines(p) ==
    /\ multicpu
    /\ \E t \in TaskId : Executes(p, t) /\ Pinned(t)
    /\ \E t \in tasks : cpu[t] = p /\ quarantine[t]
    /\ quarantine' = [t \in TaskId |-> IF t \in tasks /\ cpu[t] = p THEN FALSE ELSE quarantine[t]]
    /\ UNCHANGED <<tasks, serial, multicpu, running, blocked, ended, cpu, group, points,
                   resources, waitVars, reapVars, cpuVars>>

-----------------------------------------------------------------------------
(* thread_reaper() *)

ReaperAcquire ==
    /\ reaper = "acquire" /\ sema > 0
    /\ sema' = sema - 1
    /\ reaper' = "length"
    /\ UNCHANGED <<tasks, serial, multicpu, bitVars, waitVars, prequeue, delqueue, reaplist,
                   freed, cpuVars>>

\* The first critical section reads the length of the queue: the entries that
\* will be taken are the ones that are there now.
ReaperLength ==
    /\ reaper = "length"
    /\ reaplist' = delqueue
    /\ reaper' = IF delqueue = {} THEN "acquire" ELSE "take"
    /\ UNCHANGED <<tasks, serial, multicpu, bitVars, waitVars, prequeue, delqueue, sema, freed,
                   cpuVars>>

\* The second takes that many and clears the queue.
ReaperTake ==
    /\ reaper = "take"
    /\ delqueue' = {}
    /\ reaper' = "delete"
    /\ UNCHANGED <<tasks, serial, multicpu, bitVars, waitVars, prequeue, sema, reaplist, freed,
                   cpuVars>>

\* delete t, and with it the stack of t.
ReaperDelete ==
    /\ reaper = "delete"
    /\ freed' = freed \cup reaplist
    /\ reaplist' = {}
    /\ reaper' = "acquire"
    /\ UNCHANGED <<tasks, serial, multicpu, bitVars, waitVars, prequeue, delqueue, sema, cpuVars>>

Reaper == ReaperAcquire \/ ReaperLength \/ ReaperTake \/ ReaperDelete

-----------------------------------------------------------------------------

TaskStep(p) ==
    \/ NewTask(p) \/ Exit(p) \/ Resume(p) \/ SleepNanos(p) \/ Async(p)
    \/ \E x \in TaskId : Join(p, x)
    \/ \E n \in 1 .. MaxSleep : SleepTicks(p, n)
    \/ \E t \in TaskId : ReturnAsync(p, t) \/ KillAsync(p, t) \/ TerminateBlocked(p, t)
    \/ \E d \in {-1, 1} : ResourceAcq(p, d)
    \/ ClearStackQuarantines(p)

SwitchStep(p) == StartSwitch(p) \/ PickTask(p) \/ ReturnFromSwitch(p)

Next ==
    \/ StartMultiCpu
    \/ \E p \in CPUs : CreateIdleTask(p) \/ TaskStep(p) \/ SwitchStep(p)
    \/ Tick
    \/ Reaper

\* The timer interrupt while the task that runs is ready to go on.
Preempt(p) ==
    /\ mode[p] = "task" /\ \E t \in Current(p) : ~blocked[t] /\ ~ended[t]
    /\ StartSwitch(p)

\* Every processor has a periodic timer whose handler calls switch_tasks(),
\* and finishes that call.  Its period has nothing to do with what tasks do:
\* it does not find a task that is just going to sleep every time.
SwitchFairness ==
    \A p \in CPUs : WF_vars(SwitchStep(p)) /\ SF_vars(Preempt(p))

Spec == Init /\ [][Next]_vars
FairSpec == Spec /\ SwitchFairness

-----------------------------------------------------------------------------
(* Properties *)

\* Every processor that was started has exactly one current task in the
\* list: the code panics ("current task was not found") when there is none,
\* and works on an uninitialised pointer where it does not check.
CurrentFound == \A p \in online : \E t \in TaskId : Current(p) = {t}

\* No two processors are ever on the stack of the same task, the one that
\* still returns from the interrupt that switched away from it included.
StackExclusive ==
    \A p, q \in online : p # q => stack[p] # stack[q]

\* The stack a processor is on has not been freed, and the reaper is not
\* about to free it: a dead task waits in the prequeue until the processor
\* that ran it last comes back to switch_tasks().
StackAlive == \A p \in online : stack[p] \notin freed \cup delqueue \cup reaplist

\* switch_tasks() always finds a task to run ("Task lists are empty").
PoolNeverEmpty ==
    \A p \in online : mode[p] = "switch" =>
        \A cur \in CurrentTask(p) : Pool(p, cur, NoTask, blocked) # {}

\* join() returns only after the task it joins has ended.
JoinAfterEnd ==
    [][\A t \in TaskId : waiting[t] = "join" /\ waiting'[t] = "none"
                           => target[t] \notin tasks \/ ended[target[t]]]_vars

\* A task that stays ready is given a processor, whatever the points and
\* the resources of the others, and however often they go to sleep: the points
\* of all grow less only when the timer finds a running task at the limit.
NoStarvation ==
    \A t \in TaskId :
        []<>(t \notin tasks \/ Pinned(t) \/ running[t] \/ blocked[t] \/ ended[t])
=============================================================================

-------------------------- MODULE SchedulerProofs ---------------------------
(***************************************************************************)
(* TLAPS proofs about Scheduler, for any set of processors, any number of  *)
(* tasks and any of the operations.  Those about stacks and about the      *)
(* current task need the two hypotheses whose absence the runs             *)
(* sched_stale_current and sched_fault_race show to be fatal: current_task *)
(* starts as no task, and nothing terminates a task that may still be      *)
(* running.  The one about join() needs none.                              *)
(***************************************************************************)
EXTENDS Scheduler, TLAPS

CurrentInitialised == UninitCurrent = {NoTask}
NobodyTerminates == "terminate" \notin Outcomes

-----------------------------------------------------------------------------
(***************************************************************************)
(* Processors and the stacks they are on.  A task that runs is in the list *)
(* at home on a processor, and alone there.  A processor is on the stack   *)
(* of a task whose cpu field names it: the task that runs there or, until  *)
(* the interrupt has returned, the one it switched away from, which is     *)
(* then in quarantine or out of the list.                                  *)
(***************************************************************************)
RunningHome ==
    \A t \in TaskId : running[t] => t \in tasks /\ cpu[t] \in online /\ ~quarantine[t]
OneCurrent ==
    \A t, u \in TaskId : running[t] /\ running[u] /\ cpu[t] = cpu[u] => t = u
OnStack ==
    \A p \in online : stack[p] \in TaskId /\ stack[p] <= serial /\ cpu[stack[p]] = p
StackRuns == \A p \in online : mode[p] # "return" => running[stack[p]]
StackLeft ==
    \A p \in online : mode[p] = "return" =>
        /\ stack[p] \in tasks => quarantine[stack[p]]
        /\ \E t \in TaskId : running[t] /\ cpu[t] = p
Alone == ~multicpu => online = {BSP} /\ \A t \in TaskId : cpu[t] = BSP
OfflineIdle == \A p \in CPUs : mode[p] # "task" => p \in online

StackInv ==
    RunningHome /\ OneCurrent /\ OnStack /\ StackRuns /\ StackLeft /\ Alone /\ OfflineIdle

(***************************************************************************)
(* Dead tasks are out of the list, and the ones the reaper may free are    *)
(* nobody's stack; numbers that were not handed out belong to untouched    *)
(* tasks.                                                                  *)
(***************************************************************************)
Dead == prequeue \cup delqueue \cup reaplist \cup freed
DeadGone == tasks \cap Dead = {}
Untouched(t) ==
    /\ t \notin tasks \cup Dead
    /\ ~running[t] /\ ~blocked[t] /\ ~ended[t] /\ ~quarantine[t]
    /\ waiting[t] = "none" /\ pending[t] = "none"
Fresh == \A t \in TaskId : t > serial => Untouched(t)

DeadInv == DeadGone /\ Fresh /\ StackAlive

(***************************************************************************)
(* Every processor has an idle task of its own that is always ready.       *)
(***************************************************************************)
IdleReady ==
    \A t \in TaskId : Pinned(t) =>
        ~blocked[t] /\ ~ended[t] /\ waiting[t] = "none" /\ pending[t] = "none"
HasIdle == \A p \in online : \E t \in tasks : Pinned(t) /\ cpu[t] = p

IdleInv == IdleReady /\ HasIdle

\* A sleeper that counts ticks has some left.
TicksLeft ==
    \A t \in TaskId : waiting[t] = "ticks" /\ blocked[t] => remain[t] > 0

-----------------------------------------------------------------------------
(* Type correctness *)

\* Task numbers start at one and are handed out up to the last one.
LEMMA TaskNumbers ==
    /\ 1 \in TaskId /\ TaskId \subseteq Nat /\ NoTask \notin TaskId
    /\ \A n \in TaskId : n < MaxTask => n + 1 \in TaskId
BY SchedulerAssumption DEF TaskId, NoTask

\* The event of an exit only unblocks.
LEMMA AfterExitEventType ==
    ASSUME TypeOK, NEW x \in TaskId
    PROVE  /\ AfterExitEvent(x, blocked) \in [TaskId -> BOOLEAN]
           /\ \A t \in TaskId : AfterExitEvent(x, blocked)[t] => blocked[t]
BY DEF AfterExitEvent, TypeOK

\* Points stay in their range.
LEMMA ChargedType ==
    ASSUME TypeOK, NEW cur \in TaskId, NEW pool
    PROVE  Charged(cur, pool) \in [TaskId -> 0 .. MAX_POINTS]
<1>1. MAX_POINTS \in Nat /\ points \in [TaskId -> 0 .. MAX_POINTS]
  BY SchedulerAssumption DEF TypeOK
<1>2. CASE points[cur] # MAX_POINTS
  BY <1>1, <1>2 DEF Charged
<1>3. CASE points[cur] = MAX_POINTS
  BY <1>1, <1>3 DEF Charged
<1>4. QED
  BY <1>2, <1>3

\* The values switch_tasks() computes, named: the task it finds current, the
\* winner, the blocked bits after the clock handlers, and the points.
LEMMA PickTaskCases ==
    ASSUME TypeOK, NEW p \in CPUs, PickTask(p)
    PROVE  \E cur \in CurrentTask(p), junk \in UninitCurrent :
           \E b \in [TaskId -> BOOLEAN], pts \in [TaskId -> 0 .. MAX_POINTS] :
           \E win \in Eligible(p, cur, junk, b) :
              /\ \A t \in TaskId : b[t] => blocked[t]
              /\ \/ win = cur /\ Keep(p, pts, b)
                 \/ win # cur /\ Change(p, cur, win, pts, b)
<1>1. PICK cur \in CurrentTask(p), junk \in UninitCurrent, expired \in SUBSET NanoSleepers :
        \E b \in {[t \in TaskId |-> blocked[t] /\ t \notin expired]} :
        \E pool \in {Pool(p, cur, junk, b)} :
        \E pts \in {Charged(cur, pool)} :
        \E win \in pool \cap {Winner(pool, cur, pts)} :
             \/ win = cur /\ Keep(p, pts, b)
             \/ win # cur /\ Change(p, cur, win, pts, b)
  BY DEF PickTask
<1> DEFINE b == [t \in TaskId |-> blocked[t] /\ t \notin expired]
           pool == Pool(p, cur, junk, b)
           pts == Charged(cur, pool)
<1>2. PICK win \in pool :
             \/ win = cur /\ Keep(p, pts, b)
             \/ win # cur /\ Change(p, cur, win, pts, b)
  BY <1>1
<1>3. b \in [TaskId -> BOOLEAN] /\ \A t \in TaskId : b[t] => blocked[t]
  BY DEF TypeOK
<1>4. pts \in [TaskId -> 0 .. MAX_POINTS]
  BY ChargedType DEF CurrentTask, TypeOK
<1>5. win \in Eligible(p, cur, junk, b)
  BY <1>2 DEF Pool
<1> HIDE DEF b, pool, pts
<1>6. QED
  BY <1>2, <1>3, <1>4, <1>5

\* The typing invariant and the one it rests on.
Typed == TypeOK /\ TicksLeft

\* switch_tasks() keeps the types.
LEMMA PickTaskTyped ==
    ASSUME Typed, NEW p \in CPUs, PickTask(p)
    PROVE  Typed'
<1>1. PICK cur \in CurrentTask(p), junk \in UninitCurrent,
           b \in [TaskId -> BOOLEAN], pts \in [TaskId -> 0 .. MAX_POINTS] :
      \E win \in Eligible(p, cur, junk, b) :
          /\ \A t \in TaskId : b[t] => blocked[t]
          /\ \/ win = cur /\ Keep(p, pts, b)
             \/ win # cur /\ Change(p, cur, win, pts, b)
  BY PickTaskCases DEF Typed
<1>2. PICK win \in Eligible(p, cur, junk, b) :
          /\ \A t \in TaskId : b[t] => blocked[t]
          /\ \/ win = cur /\ Keep(p, pts, b)
             \/ win # cur /\ Change(p, cur, win, pts, b)
  BY <1>1
<1>3. cur \in TaskId /\ win \in TaskId
  BY DEF CurrentTask, Eligible, Typed, TypeOK
<1>4. Lifted(p) \in [TaskId -> BOOLEAN]
  BY DEF Lifted, Typed, TypeOK
<1>5. CASE Keep(p, pts, b)
  BY <1>2, <1>3, <1>4, <1>5
     DEF Typed, TypeOK, TicksLeft, Keep, waitVars, reapVars, Modes
<1>6. CASE Change(p, cur, win, pts, b)
  <2>1. \A t \in TaskId : blocked'[t] => blocked[t]
    BY <1>2, <1>3, <1>6 DEF Change, ChangeRest
  <2>2. blocked' \in [TaskId -> BOOLEAN]
    BY <1>3, <1>6 DEF Change, ChangeRest
  <2>3. ended' \in [TaskId -> BOOLEAN] /\ quarantine' \in [TaskId -> BOOLEAN]
    BY <1>3, <1>4, <1>6 DEF Change, ChangeRest, Typed, TypeOK
  <2>4. running' \in [TaskId -> BOOLEAN] /\ cpu' \in [TaskId -> CPUs]
    BY <1>3, <1>6 DEF Change, Typed, TypeOK
  <2>5. tasks' \subseteq TaskId /\ prequeue' \subseteq TaskId
    BY <1>3, <1>6 DEF Change, ChangeRest, Typed, TypeOK
  <2>6. QED
    BY <1>3, <1>6, <2>1, <2>2, <2>3, <2>4, <2>5
       DEF Typed, TypeOK, TicksLeft, Change, ChangeRest, Modes
<1>7. QED
  BY <1>2, <1>5, <1>6

\* Blocking calls and what ends them keep the types.
LEMMA TaskStepTyped ==
    ASSUME Typed, NEW p \in CPUs, TaskStep(p)
    PROVE  Typed'
<1> USE DEF Typed, TypeOK, TicksLeft, waitVars, reapVars, cpuVars, bitVars
<1>1. CASE NewTask(p)
  BY <1>1, TaskNumbers DEF NewTask
<1>2. CASE Exit(p)
  <2>1. PICK t \in TaskId :
          ended' = [ended EXCEPT ![t] = TRUE] /\ blocked' = AfterExitEvent(t, blocked)
    BY <1>2 DEF Exit
  <2>2. blocked' \in [TaskId -> BOOLEAN] /\ \A u \in TaskId : blocked'[u] => blocked[u]
    BY <2>1, AfterExitEventType
  <2>3. QED
    BY <1>2, <2>1, <2>2 DEF Exit, Modes
<1>3. CASE Resume(p)
  BY <1>3 DEF Resume, Current
<1>4. CASE SleepNanos(p)
  BY <1>4 DEF SleepNanos
<1>5. CASE Async(p)
  BY <1>5 DEF Async, Modes
<1>6. ASSUME NEW x \in TaskId, Join(p, x) PROVE Typed'
  BY <1>6 DEF Join
<1>7. ASSUME NEW n \in 1 .. MaxSleep, SleepTicks(p, n) PROVE Typed'
  BY <1>7, SchedulerAssumption DEF SleepTicks
<1>8. ASSUME NEW t \in TaskId, ReturnAsync(p, t) PROVE Typed'
  BY <1>8 DEF ReturnAsync, Finishes
<1>9. ASSUME NEW t \in TaskId, KillAsync(p, t) PROVE Typed'
  <2>1. CASE running[t]
    BY <1>9, <2>1 DEF KillAsync, Finishes
  <2>2. CASE ~running[t]
    <3>1. blocked' \in [TaskId -> BOOLEAN] /\ \A u \in TaskId : blocked'[u] => blocked[u]
      BY <1>9, <2>2, AfterExitEventType DEF KillAsync
    <3>2. QED
      BY <1>9, <2>2, <3>1 DEF KillAsync, Finishes
  <2>3. QED
    BY <2>1, <2>2
<1>10. ASSUME NEW t \in TaskId, TerminateBlocked(p, t) PROVE Typed'
  BY <1>10 DEF TerminateBlocked, Finishes
<1>11. ASSUME NEW d \in {-1, 1}, ResourceAcq(p, d) PROVE Typed'
  BY <1>11, SchedulerAssumption DEF ResourceAcq
<1>12. CASE ClearStackQuarantines(p)
  BY <1>12 DEF ClearStackQuarantines
<1>13. QED
  BY <1>1, <1>2, <1>3, <1>4, <1>5, <1>6, <1>7, <1>8, <1>9, <1>10, <1>11, <1>12 DEF TaskStep

\* Every variable of the scheduler keeps its type in every reachable state,
\* whatever the uninitialised local holds: points and resources stay in
\* their ranges, and no sleeper counts below zero.
THEOREM TypeCorrect == Spec => []TypeOK
<1>1. Init => Typed
  <2>1. SUFFICES ASSUME Init PROVE Typed
    OBVIOUS
  <2>2. group \in [TaskId -> PRIO_GROUP_IDLE .. PRIO_GROUP_REALTIME]
    BY <2>1 DEF Init, PRIO_GROUP_IDLE, PRIO_GROUP_NORMAL, PRIO_GROUP_REALTIME
  <2>3. /\ points \in [TaskId -> 0 .. MAX_POINTS]
        /\ resources \in [TaskId -> 0 .. MAX_RESOURCES]
        /\ remain \in [TaskId -> 0 .. MaxSleep]
        /\ sema \in Nat
    BY <2>1, SchedulerAssumption DEF Init
  <2>4. /\ running \in [TaskId -> BOOLEAN]
        /\ cpu \in [TaskId -> CPUs] /\ online \subseteq CPUs
        /\ mode \in [CPUs -> Modes] /\ stack \in [CPUs -> TaskId \cup {NoTask}]
        /\ tasks \subseteq TaskId /\ serial \in TaskId
    BY <2>1, TaskNumbers, SchedulerAssumption DEF Init, Modes
  <2>5. QED
    BY <2>1, <2>2, <2>3, <2>4 DEF Init, Typed, TypeOK, TicksLeft
<1>2. Typed /\ [Next]_vars => Typed'
  <2>1. SUFFICES ASSUME Typed, [Next]_vars PROVE Typed'
    OBVIOUS
  <2> USE DEF waitVars, reapVars, cpuVars, bitVars
  <2>2. CASE StartMultiCpu
    BY <2>1, <2>2, SchedulerAssumption DEF Typed, TypeOK, TicksLeft, StartMultiCpu
  <2>3. ASSUME NEW p \in CPUs, CreateIdleTask(p) PROVE Typed'
    <3>1. serial' \in TaskId /\ tasks' \subseteq TaskId
      BY <2>1, <2>3, TaskNumbers DEF Typed, TypeOK, CreateIdleTask
    <3>2. group' \in [TaskId -> PRIO_GROUP_IDLE .. PRIO_GROUP_REALTIME]
      <4>1. PRIO_GROUP_IDLE \in PRIO_GROUP_IDLE .. PRIO_GROUP_REALTIME
        BY DEF PRIO_GROUP_IDLE, PRIO_GROUP_REALTIME
      <4>2. group' = [group EXCEPT ![serial + 1] = PRIO_GROUP_IDLE]
        BY <2>3 DEF CreateIdleTask
      <4>3. QED
        BY <2>1, <4>1, <4>2 DEF Typed, TypeOK
    <3>3. QED
      BY <2>1, <2>3, <3>1, <3>2 DEF Typed, TypeOK, TicksLeft, CreateIdleTask
  <2>4. ASSUME NEW p \in CPUs, StartSwitch(p) PROVE Typed'
    BY <2>1, <2>4 DEF Typed, TypeOK, TicksLeft, StartSwitch, Modes
  <2>5. ASSUME NEW p \in CPUs, ReturnFromSwitch(p) PROVE Typed'
    BY <2>1, <2>5 DEF Typed, TypeOK, TicksLeft, ReturnFromSwitch, Modes, Current
  <2>6. CASE Tick
    <3> DEFINE asleep == {t \in tasks : waiting[t] = "ticks" /\ blocked[t]}
    <3>1. /\ remain' = [t \in TaskId |-> IF t \in asleep THEN remain[t] - 1 ELSE remain[t]]
          /\ blocked' = [t \in TaskId |-> IF t \in asleep THEN remain[t] > 1 ELSE blocked[t]]
      BY <2>6 DEF Tick
    <3>2. \A t \in asleep : remain[t] \in 1 .. MaxSleep
      BY <2>1, SchedulerAssumption DEF Typed, TypeOK, TicksLeft
    <3>3. remain' \in [TaskId -> 0 .. MaxSleep]
      BY <2>1, <3>1, <3>2, SchedulerAssumption DEF Typed, TypeOK
    <3>4. /\ blocked' \in [TaskId -> BOOLEAN]
          /\ \A t \in TaskId : blocked'[t] <=> IF t \in asleep THEN remain[t] > 1 ELSE blocked[t]
      <4>1. \A t \in TaskId : (remain[t] > 1) \in BOOLEAN /\ blocked[t] \in BOOLEAN
        BY <2>1 DEF Typed, TypeOK
      <4>2. \A t \in TaskId : (IF t \in asleep THEN remain[t] > 1 ELSE blocked[t]) \in BOOLEAN
        BY <4>1
      <4>3. QED
        BY <3>1, <4>2, Zenon
    <3>5. TicksLeft'
      <4>1. SUFFICES ASSUME NEW t \in TaskId, waiting[t] = "ticks", blocked'[t]
                     PROVE  remain'[t] > 0
        BY <2>6 DEF TicksLeft, Tick
      <4>2. CASE t \in asleep
        BY <2>1, <3>1, <3>2, <3>4, <4>1, <4>2
      <4>3. CASE t \notin asleep
        BY <2>1, <3>1, <3>4, <4>1, <4>3 DEF Typed, TicksLeft
      <4>4. QED
        BY <4>2, <4>3
    <3>6. mode' \in [CPUs -> Modes]
      BY <2>1, <2>6 DEF Typed, TypeOK, Tick, Modes
    <3>7. QED
      BY <2>1, <2>6, <3>3, <3>4, <3>5, <3>6 DEF Typed, TypeOK, Tick
  <2>7. CASE Reaper
    BY <2>1, <2>7 DEF Typed, TypeOK, TicksLeft, Reaper, ReaperAcquire, ReaperLength, ReaperTake,
       ReaperDelete
  <2>8. CASE UNCHANGED vars
    BY <2>1, <2>8 DEF Typed, TypeOK, TicksLeft, vars
  <2>9. QED
    BY <2>1, <2>2, <2>3, <2>4, <2>5, <2>6, <2>7, <2>8, TaskStepTyped, PickTaskTyped
       DEF Next, SwitchStep
<1>3. Typed => TypeOK
  BY DEF Typed
<1>4. QED
  BY <1>1, <1>2, <1>3, PTL DEF Spec

-----------------------------------------------------------------------------
(* Stacks, dead tasks and idle tasks *)

SchedInv == StackInv /\ DeadInv /\ IdleInv

\* A step that starts a wait or ends one leaves the list, the processors and
\* the queues alone, blocks no idle task and touches no fresh one.
LEMMA QuietStep ==
    ASSUME TypeOK, SchedInv,
           UNCHANGED <<tasks, serial, multicpu, running, quarantine, cpu, group, online, stack,
                       prequeue, delqueue, reaplist, freed>>,
           \A p \in CPUs : \/ mode'[p] = mode[p]
                           \/ p \in online /\ mode[p] # "return" /\ mode'[p] # "return",
           \A t \in TaskId : \/ t \in tasks /\ ~Pinned(t)
                             \/ /\ blocked'[t] => blocked[t]
                                /\ ended'[t] => ended[t]
                                /\ waiting'[t] # "none" => waiting[t] # "none"
                                /\ pending'[t] # "none" => pending[t] # "none"
    PROVE  SchedInv'
<1>1. StackInv'
  <2>1. RunningHome' /\ OneCurrent' /\ OnStack' /\ Alone'
    BY DEF SchedInv, StackInv, RunningHome, OneCurrent, OnStack, Alone
  <2>2. StackRuns' /\ StackLeft' /\ OfflineIdle'
    BY DEF SchedInv, StackInv, StackRuns, StackLeft, OfflineIdle, TypeOK
  <2>3. QED
    BY <2>1, <2>2 DEF StackInv
<1>2. DeadInv'
  <2>1. DeadGone' /\ StackAlive'
    BY DEF SchedInv, DeadInv, DeadGone, StackAlive, Dead
  <2>2. Fresh'
    BY DEF SchedInv, DeadInv, Fresh, Untouched, Dead
  <2>3. QED
    BY <2>1, <2>2 DEF DeadInv
<1>3. IdleInv'
  BY DEF SchedInv, IdleInv, IdleReady, HasIdle, Pinned
<1>4. QED
  BY <1>1, <1>2, <1>3 DEF SchedInv

\* new_task() puts an untouched task on the list.
LEMMA NewTaskStep ==
    ASSUME TypeOK, SchedInv, NEW p \in CPUs, NewTask(p)
    PROVE  SchedInv'
<1>1. /\ serial \in TaskId /\ serial + 1 \in TaskId /\ serial \in Int /\ TaskId \subseteq Int
      /\ serial' = serial + 1 /\ tasks' = tasks \cup {serial + 1}
      /\ UNCHANGED <<multicpu, bitVars, waitVars, reapVars, cpuVars>>
  BY TaskNumbers DEF NewTask, TypeOK
<1>2. Untouched(serial + 1)
  BY <1>1 DEF SchedInv, DeadInv, Fresh
<1>3. stack \in [CPUs -> TaskId \cup {NoTask}] /\ online \subseteq CPUs
  BY DEF TypeOK
<1>4. \A q \in online : stack[q] # serial + 1
  BY <1>1 DEF SchedInv, StackInv, OnStack
<1>5. StackInv'
  <2>1. RunningHome' /\ OneCurrent' /\ StackRuns' /\ Alone' /\ OfflineIdle'
    BY <1>1 DEF SchedInv, StackInv, RunningHome, OneCurrent, StackRuns, Alone, OfflineIdle,
       bitVars, cpuVars
  <2>2. OnStack'
    <3>1. \A q \in online : /\ stack[q] \in TaskId /\ stack[q] \in Int
                            /\ stack[q] <= serial /\ cpu[stack[q]] = q
      BY <1>1 DEF SchedInv, StackInv, OnStack
    <3>2. QED
      BY <1>1, <3>1 DEF OnStack, bitVars, cpuVars
  <2>3. StackLeft'
    BY <1>1, <1>4 DEF SchedInv, StackInv, StackLeft, bitVars, cpuVars
  <2>4. QED
    BY <2>1, <2>2, <2>3 DEF StackInv
<1>6. DeadInv'
  BY <1>1, <1>2 DEF SchedInv, DeadInv, DeadGone, Fresh, Untouched, StackAlive, Dead, bitVars,
     waitVars, reapVars, cpuVars
<1>7. IdleInv'
  BY <1>1 DEF SchedInv, IdleInv, IdleReady, HasIdle, Pinned, bitVars, waitVars, cpuVars
<1>8. QED
  BY <1>5, <1>6, <1>7 DEF SchedInv

\* start_multi_cpu() finds all tasks on the boot processor already.
LEMMA StartMultiCpuStep ==
    ASSUME TypeOK, SchedInv, StartMultiCpu
    PROVE  SchedInv'
<1>1. cpu' = cpu
  BY DEF StartMultiCpu, SchedInv, StackInv, Alone, TypeOK
<1>2. multicpu' /\ UNCHANGED <<tasks, serial, running, blocked, ended, quarantine, group, points,
                              resources, waitVars, reapVars, cpuVars>>
  BY DEF StartMultiCpu
<1>3. StackInv'
  BY <1>1, <1>2 DEF SchedInv, StackInv, RunningHome, OneCurrent, OnStack, StackRuns, StackLeft,
     Alone, OfflineIdle, cpuVars
<1>4. DeadInv'
  BY <1>1, <1>2 DEF SchedInv, DeadInv, DeadGone, Fresh, Untouched, StackAlive, Dead, waitVars,
     reapVars, cpuVars
<1>5. IdleInv'
  BY <1>1, <1>2 DEF SchedInv, IdleInv, IdleReady, HasIdle, Pinned, waitVars, cpuVars
<1>6. QED
  BY <1>3, <1>4, <1>5 DEF SchedInv

\* create_current_idle_task() makes the code of a processor that had no task
\* its idle task.
LEMMA CreateIdleTaskStep ==
    ASSUME TypeOK, SchedInv, NEW p \in CPUs, CreateIdleTask(p)
    PROVE  SchedInv'
<1> DEFINE t == serial + 1
<1>1. /\ serial \in TaskId /\ t \in TaskId /\ serial \in Int /\ t > serial /\ TaskId \subseteq Int
  BY TaskNumbers DEF CreateIdleTask, TypeOK
<1>2. /\ multicpu /\ p \notin online
      /\ serial' = t /\ tasks' = tasks \cup {t}
      /\ running' = [running EXCEPT ![t] = TRUE]
      /\ cpu' = [cpu EXCEPT ![t] = p]
      /\ group' = [group EXCEPT ![t] = PRIO_GROUP_IDLE]
      /\ stack' = [stack EXCEPT ![p] = t]
      /\ online' = online \cup {p}
      /\ UNCHANGED <<multicpu, blocked, ended, quarantine, points, resources, waitVars, reapVars,
                     mode>>
  BY DEF CreateIdleTask
<1>3. Untouched(t)
  BY <1>1 DEF SchedInv, DeadInv, Fresh
<1>4. /\ running \in [TaskId -> BOOLEAN] /\ cpu \in [TaskId -> CPUs]
      /\ group \in [TaskId -> PRIO_GROUP_IDLE .. PRIO_GROUP_REALTIME]
      /\ stack \in [CPUs -> TaskId \cup {NoTask}] /\ online \subseteq CPUs
  BY DEF TypeOK
<1>5. mode[p] = "task"
  BY <1>2 DEF SchedInv, StackInv, OfflineIdle
<1>6. \A q \in online : /\ stack[q] \in TaskId /\ stack[q] # t /\ stack'[q] = stack[q] /\ q # p
                        /\ cpu'[stack[q]] = q /\ stack[q] <= t
  <2>1. \A q \in online : /\ stack[q] \in TaskId /\ stack[q] \in Int /\ q # p
                          /\ stack[q] <= serial /\ cpu[stack[q]] = q
    BY <1>1, <1>2 DEF SchedInv, StackInv, OnStack
  <2>2. \A q \in online : stack[q] # t /\ stack[q] <= t
    BY <1>1, <2>1
  <2>3. QED
    BY <1>2, <1>4, <2>1, <2>2
<1>7. stack'[p] = t /\ cpu'[t] = p /\ running'[t]
  BY <1>1, <1>2, <1>4
<1>8. \A u \in TaskId \ {t} : running'[u] = running[u] /\ cpu'[u] = cpu[u] /\ group'[u] = group[u]
  BY <1>2, <1>4
<1> HIDE DEF t
<1>9. RunningHome'
  BY <1>2, <1>3, <1>7, <1>8 DEF SchedInv, StackInv, RunningHome, Untouched
<1>10. OneCurrent'
  BY <1>2, <1>7, <1>8 DEF SchedInv, StackInv, RunningHome, OneCurrent
<1>11. OnStack'
  BY <1>1, <1>2, <1>6, <1>7 DEF OnStack
<1>12. StackRuns'
  BY <1>2, <1>6, <1>7, <1>8 DEF SchedInv, StackInv, StackRuns
<1>13. StackLeft'
  <2>1. SUFFICES ASSUME NEW q \in online, mode[q] = "return"
                 PROVE  /\ stack'[q] \in tasks' => quarantine[stack'[q]]
                        /\ \E u \in TaskId : running'[u] /\ cpu'[u] = q
    BY <1>2, <1>5 DEF StackLeft
  <2>2. PICK u \in TaskId : running[u] /\ cpu[u] = q
    BY <2>1 DEF SchedInv, StackInv, StackLeft
  <2>3. u # t
    BY <1>3, <2>2 DEF Untouched
  <2>4. QED
    BY <1>2, <1>6, <1>8, <2>1, <2>2, <2>3 DEF SchedInv, StackInv, StackLeft
<1>14. Alone' /\ OfflineIdle'
  BY <1>2 DEF SchedInv, StackInv, Alone, OfflineIdle
<1>15. DeadGone' /\ StackAlive'
  BY <1>2, <1>3, <1>6, <1>7
     DEF SchedInv, DeadInv, DeadGone, Untouched, StackAlive, Dead, reapVars
<1>16. Fresh'
  BY <1>1, <1>2, <1>8 DEF SchedInv, DeadInv, Fresh, Untouched, Dead, waitVars, reapVars
<1>17. IdleReady'
  BY <1>2, <1>3, <1>8 DEF SchedInv, IdleInv, IdleReady, Pinned, Untouched, waitVars
<1>18. HasIdle'
  <2>1. group'[t] = PRIO_GROUP_IDLE
    BY <1>1, <1>2, <1>4
  <2>2. ASSUME NEW q \in online PROVE \E u \in tasks' : Pinned(u)' /\ cpu'[u] = q
    <3>1. PICK u \in tasks : Pinned(u) /\ cpu[u] = q
      BY DEF SchedInv, IdleInv, HasIdle
    <3>2. u # t /\ u \in TaskId
      BY <1>3 DEF Untouched, TypeOK
    <3>3. QED
      BY <1>2, <1>8, <3>1, <3>2 DEF Pinned
  <2>3. QED
    BY <1>2, <1>7, <2>1, <2>2 DEF HasIdle, Pinned
<1>19. QED
  BY <1>9, <1>10, <1>11, <1>12, <1>13, <1>14, <1>15, <1>16, <1>17, <1>18
     DEF SchedInv, StackInv, DeadInv, IdleInv

\* when_not_running() evicts a task that is not running and not idle.
LEMMA KillAsyncStep ==
    ASSUME TypeOK, SchedInv, NEW p \in CPUs, NEW t \in TaskId, KillAsync(p, t), ~running[t]
    PROVE  SchedInv'
<1>1. /\ t \in tasks /\ waiting[t] = "async"
      /\ waiting' = [waiting EXCEPT ![t] = "none"] /\ ended' = [ended EXCEPT ![t] = TRUE]
      /\ tasks' = tasks \ {t} /\ prequeue' = prequeue \cup {t}
      /\ UNCHANGED <<serial, multicpu, running, quarantine, cpu, group, pending, delqueue,
                     reaplist, freed, online, mode, stack>>
  BY DEF KillAsync, Finishes, cpuVars
<1>2. \A u \in TaskId : blocked'[u] => blocked[u]
  BY AfterExitEventType DEF KillAsync
<1>3. ~Pinned(t)
  BY <1>1 DEF SchedInv, IdleInv, IdleReady
<1>4. StackInv'
  BY <1>1 DEF SchedInv, StackInv, RunningHome, OneCurrent, OnStack, StackRuns, StackLeft, Alone,
     OfflineIdle
<1>5. DeadGone' /\ StackAlive'
  BY <1>1 DEF SchedInv, DeadInv, DeadGone, StackAlive, Dead
<1>6. Fresh'
  BY <1>1, <1>2 DEF SchedInv, DeadInv, Fresh, Untouched, Dead, TypeOK
<1>7. IdleReady'
  BY <1>1, <1>2, <1>3 DEF SchedInv, IdleInv, IdleReady, Pinned, TypeOK
<1>8. HasIdle'
  BY <1>1, <1>3 DEF SchedInv, IdleInv, HasIdle, Pinned
<1>9. QED
  BY <1>4, <1>5, <1>6, <1>7, <1>8 DEF SchedInv, DeadInv, IdleInv

\* The tasks a processor hands to the reaper are not the one it runs, and
\* other processors are on stacks of tasks with another cpu field.
LEMMA StartSwitchStep ==
    ASSUME TypeOK, SchedInv, NEW p \in CPUs, StartSwitch(p)
    PROVE  SchedInv'
<1> DEFINE dead == {t \in prequeue : cpu[t] = p}
<1>1. /\ p \in online /\ mode[p] # "return" /\ mode' = [mode EXCEPT ![p] = "switch"]
      /\ mode \in [CPUs -> Modes] /\ online \subseteq CPUs
      /\ prequeue' = prequeue \ dead /\ delqueue' = delqueue \cup dead
      /\ UNCHANGED <<tasks, serial, multicpu, bitVars, waitVars, reaplist, freed, online, stack>>
  BY DEF StartSwitch, TypeOK
<1>2. \A q \in online : stack[q] \notin dead
  <2>1. running[stack[p]] /\ stack[p] \in tasks
    BY <1>1 DEF SchedInv, StackInv, StackRuns, OnStack, RunningHome
  <2>2. stack[p] \notin prequeue
    BY <2>1 DEF SchedInv, DeadInv, DeadGone, Dead
  <2>3. QED
    BY <2>2 DEF SchedInv, StackInv, OnStack
<1>3. Dead' = Dead
  BY <1>1 DEF Dead
<1> HIDE DEF dead
<1>4. StackInv'
  BY <1>1 DEF SchedInv, StackInv, RunningHome, OneCurrent, OnStack, StackRuns, StackLeft, Alone,
     OfflineIdle, bitVars
<1>5. StackAlive'
  BY <1>1, <1>2 DEF SchedInv, DeadInv, StackAlive
<1>6. DeadGone' /\ Fresh'
  BY <1>1, <1>3 DEF SchedInv, DeadInv, DeadGone, Fresh, Untouched, bitVars, waitVars
<1>7. IdleInv'
  BY <1>1 DEF SchedInv, IdleInv, IdleReady, HasIdle, Pinned, bitVars, waitVars
<1>8. QED
  BY <1>4, <1>5, <1>6, <1>7 DEF SchedInv, DeadInv

\* The reaper moves tasks that are already its own.
LEMMA ReaperStep ==
    ASSUME SchedInv, Reaper
    PROVE  SchedInv'
<1>1. /\ UNCHANGED <<tasks, serial, multicpu, bitVars, waitVars, prequeue, online, mode, stack>>
      /\ (delqueue \cup reaplist \cup freed)' \subseteq delqueue \cup reaplist \cup freed
  BY DEF Reaper, ReaperAcquire, ReaperLength, ReaperTake, ReaperDelete, cpuVars
<1>2. Dead' \subseteq Dead
  BY <1>1 DEF Dead
<1>3. StackInv'
  BY <1>1 DEF SchedInv, StackInv, RunningHome, OneCurrent, OnStack, StackRuns, StackLeft, Alone,
     OfflineIdle, bitVars
<1>4. DeadInv'
  BY <1>1, <1>2 DEF SchedInv, DeadInv, DeadGone, Fresh, Untouched, StackAlive, bitVars, waitVars
<1>5. IdleInv'
  BY <1>1 DEF SchedInv, IdleInv, IdleReady, HasIdle, Pinned, bitVars, waitVars
<1>6. QED
  BY <1>3, <1>4, <1>5 DEF SchedInv

\* The idle loop lifts the quarantine of tasks its processor has left.
LEMMA ClearStep ==
    ASSUME TypeOK, SchedInv, NEW p \in CPUs, ClearStackQuarantines(p)
    PROVE  SchedInv'
<1>1. /\ mode[p] = "task"
      /\ quarantine' = [t \in TaskId |-> IF t \in tasks /\ cpu[t] = p THEN FALSE ELSE quarantine[t]]
      /\ UNCHANGED <<tasks, serial, multicpu, running, blocked, ended, cpu, group, waitVars,
                     reapVars, online, mode, stack>>
  BY DEF ClearStackQuarantines, Executes, cpuVars
<1>2. \A t \in TaskId : quarantine'[t] => quarantine[t]
  BY <1>1
<1>3. \A q \in online : q # p => quarantine'[stack[q]] = quarantine[stack[q]]
  BY <1>1 DEF SchedInv, StackInv, OnStack
<1>4. StackInv'
  BY <1>1, <1>2, <1>3 DEF SchedInv, StackInv, RunningHome, OneCurrent, OnStack, StackRuns,
     StackLeft, Alone, OfflineIdle
<1>5. DeadInv'
  BY <1>1, <1>2 DEF SchedInv, DeadInv, DeadGone, Fresh, Untouched, StackAlive, Dead, waitVars,
     reapVars
<1>6. IdleInv'
  BY <1>1 DEF SchedInv, IdleInv, IdleReady, HasIdle, Pinned, waitVars
<1>7. QED
  BY <1>4, <1>5, <1>6 DEF SchedInv

\* The return from the interrupt leaves the old stack for the one of the
\* task that now runs, which is alive and on no other processor.
LEMMA ReturnStep ==
    ASSUME TypeOK, SchedInv, NEW p \in CPUs, ReturnFromSwitch(p)
    PROVE  SchedInv'
<1>1. PICK t \in Current(p) : stack' = [stack EXCEPT ![p] = t]
  BY DEF ReturnFromSwitch
<1>2. /\ mode[p] = "return" /\ mode' = [mode EXCEPT ![p] = "task"]
      /\ mode \in [CPUs -> Modes] /\ stack \in [CPUs -> TaskId \cup {NoTask}] /\ online \subseteq CPUs
      /\ UNCHANGED <<tasks, serial, multicpu, bitVars, waitVars, reapVars, online>>
  BY DEF ReturnFromSwitch, TypeOK
<1>3. t \in tasks /\ t \in TaskId /\ running[t] /\ cpu[t] = p /\ p \in online
  BY <1>2 DEF Current, TypeOK, SchedInv, StackInv, OfflineIdle
<1>4. t <= serial /\ t \notin Dead
  <2>1. ~Untouched(t)
    BY <1>3 DEF Untouched
  <2>2. t \in Int /\ serial \in Int
    BY <1>3, TaskNumbers DEF TypeOK
  <2>3. QED
    BY <1>3, <2>1, <2>2 DEF SchedInv, DeadInv, Fresh, DeadGone
<1>5. StackInv'
  BY <1>1, <1>2, <1>3, <1>4 DEF SchedInv, StackInv, RunningHome, OneCurrent, OnStack, StackRuns,
     StackLeft, Alone, OfflineIdle, bitVars
<1>6. DeadInv'
  <2>1. DeadGone' /\ Fresh'
    BY <1>2 DEF SchedInv, DeadInv, DeadGone, Fresh, Untouched, Dead, bitVars, waitVars, reapVars
  <2>2. StackAlive'
    BY <1>1, <1>2, <1>4 DEF SchedInv, DeadInv, StackAlive, Dead, reapVars
  <2>3. QED
    BY <2>1, <2>2 DEF DeadInv
<1>7. IdleInv'
  BY <1>2 DEF SchedInv, IdleInv, IdleReady, HasIdle, Pinned, bitVars, waitVars
<1>8. QED
  BY <1>5, <1>6, <1>7 DEF SchedInv

\* What switch_tasks() on processor p knows of the current task, of the
\* quarantines it lifts and of a winner.
LEMMA SwitchFacts ==
    ASSUME CurrentInitialised, TypeOK, SchedInv, NEW p \in CPUs, mode[p] = "switch",
           NEW cur \in CurrentTask(p), NEW junk \in UninitCurrent,
           NEW b \in [TaskId -> BOOLEAN], NEW win \in Eligible(p, cur, junk, b)
    PROVE  /\ p \in online
           /\ cur \in tasks /\ cur \in TaskId /\ running[cur] /\ cpu[cur] = p /\ stack[p] = cur
           /\ win \in tasks /\ win \in TaskId /\ (win # cur => ~running[win])
           /\ ~Lifted(p)[win]
           /\ Pinned(win) => cpu[win] = p
           /\ ~multicpu => p = BSP
           /\ \A q \in online : mode[q] = "return" => stack[q] # win
<1>1. p \in online
  BY DEF SchedInv, StackInv, OfflineIdle
<1>2. ~multicpu => p = BSP /\ \A t \in TaskId : cpu[t] = p
  BY <1>1 DEF SchedInv, StackInv, Alone
<1>3. cur \in tasks /\ cur \in TaskId /\ running[cur] /\ cpu[cur] = p
  BY <1>2 DEF CurrentTask, Mine, TypeOK
<1>4. stack[p] = cur
  BY <1>1, <1>3 DEF SchedInv, StackInv, StackRuns, OnStack, OneCurrent
<1>5. win \in tasks /\ win \in TaskId /\ (win # cur => ~running[win]) /\ ~Lifted(p)[win]
  BY TaskNumbers DEF Eligible, CurrentInitialised, TypeOK
<1>6. Pinned(win) => cpu[win] = p
  BY <1>2, <1>5 DEF Eligible, Mine
<1>7. ASSUME NEW q \in online, mode[q] = "return", stack[q] = win PROVE FALSE
  <2>1. quarantine[win] /\ cpu[win] = q /\ q # p
    BY <1>5, <1>7 DEF SchedInv, StackInv, StackLeft, OnStack
  <2>2. ~Mine(p, win)
    BY <1>2, <1>5, <2>1 DEF Mine
  <2>3. QED
    BY <1>5, <2>1, <2>2 DEF Lifted
<1>8. QED
  BY <1>1, <1>2, <1>3, <1>4, <1>5, <1>6, <1>7

\* The quarantines a switch of p lifts are not those that protect a stack.
LEMMA LiftedFacts ==
    ASSUME TypeOK, SchedInv, NEW p \in CPUs, mode[p] = "switch"
    PROVE  /\ Lifted(p) \in [TaskId -> BOOLEAN]
           /\ \A t \in TaskId : Lifted(p)[t] => quarantine[t]
           /\ \A q \in online : mode[q] = "return" /\ quarantine[stack[q]] => Lifted(p)[stack[q]]
<1>1. Lifted(p) \in [TaskId -> BOOLEAN] /\ \A t \in TaskId : Lifted(p)[t] => quarantine[t]
  BY DEF Lifted, TypeOK
<1>2. ASSUME NEW q \in online, mode[q] = "return", quarantine[stack[q]]
      PROVE  Lifted(p)[stack[q]]
  <2>1. p \in online /\ q # p /\ stack[q] \in TaskId /\ cpu[stack[q]] = q
    BY <1>2 DEF SchedInv, StackInv, OfflineIdle, OnStack
  <2>2. multicpu
    BY <2>1 DEF SchedInv, StackInv, Alone
  <2>3. QED
    BY <1>2, <2>1, <2>2 DEF Lifted, Mine
<1>3. QED
  BY <1>1, <1>2

\* A switch that keeps the current task.
LEMMA KeepStep ==
    ASSUME TypeOK, SchedInv, NEW p \in CPUs, mode[p] = "switch", NEW pts,
           NEW b \in [TaskId -> BOOLEAN], \A t \in TaskId : b[t] => blocked[t], Keep(p, pts, b)
    PROVE  SchedInv'
<1>1. /\ mode' = [mode EXCEPT ![p] = "task"] /\ blocked' = b /\ quarantine' = Lifted(p)
      /\ mode \in [CPUs -> Modes] /\ online \subseteq CPUs
      /\ UNCHANGED <<tasks, serial, multicpu, running, ended, cpu, group, waitVars, reapVars,
                     online, stack>>
  BY DEF Keep, TypeOK
<1>2. StackInv'
  BY <1>1, LiftedFacts DEF SchedInv, StackInv, RunningHome, OneCurrent, OnStack, StackRuns,
     StackLeft, Alone, OfflineIdle
<1>3. DeadInv'
  BY <1>1, LiftedFacts DEF SchedInv, DeadInv, DeadGone, Fresh, Untouched, StackAlive, Dead,
     waitVars, reapVars
<1>4. IdleInv'
  BY <1>1 DEF SchedInv, IdleInv, IdleReady, HasIdle, Pinned, waitVars
<1>5. QED
  BY <1>2, <1>3, <1>4 DEF SchedInv

\* A switch from one task to another.
LEMMA ChangeStep ==
    ASSUME CurrentInitialised, TypeOK, SchedInv, NEW p \in CPUs, mode[p] = "switch",
           NEW cur \in CurrentTask(p), NEW junk \in UninitCurrent,
           NEW b \in [TaskId -> BOOLEAN], NEW win \in Eligible(p, cur, junk, b), NEW pts,
           \A t \in TaskId : b[t] => blocked[t], win # cur, Change(p, cur, win, pts, b)
    PROVE  SchedInv'
<1> DEFINE gone == ended[cur] \/ pending[cur] = "end"
<1>1. /\ p \in online
      /\ cur \in tasks /\ cur \in TaskId /\ running[cur] /\ cpu[cur] = p /\ stack[p] = cur
      /\ win \in tasks /\ win \in TaskId /\ ~running[win]
      /\ ~Lifted(p)[win]
      /\ Pinned(win) => cpu[win] = p
      /\ ~multicpu => p = BSP
      /\ \A q \in online : mode[q] = "return" => stack[q] # win
  BY SwitchFacts
<1>2. /\ quarantine' = [Lifted(p) EXCEPT ![cur] = ~ended[cur]]
      /\ running' = [running EXCEPT ![cur] = FALSE, ![win] = TRUE]
      /\ cpu' = [cpu EXCEPT ![win] = IF multicpu THEN p ELSE @]
      /\ pending' = [pending EXCEPT ![cur] = "none"]
      /\ blocked' = [b EXCEPT ![cur] = IF pending[cur] = "unblock" THEN FALSE ELSE @]
      /\ ended' = [ended EXCEPT ![cur] = gone]
      /\ tasks' = IF gone THEN tasks \ {cur} ELSE tasks
      /\ prequeue' = IF gone THEN prequeue \cup {cur} ELSE prequeue
      /\ mode' = [mode EXCEPT ![p] = "return"]
      /\ UNCHANGED <<serial, multicpu, group, waiting, delqueue, reaplist, freed, online, stack>>
  BY DEF Change, ChangeRest
<1>3. /\ running \in [TaskId -> BOOLEAN] /\ cpu \in [TaskId -> CPUs] /\ mode \in [CPUs -> Modes]
      /\ ended \in [TaskId -> BOOLEAN] /\ pending \in [TaskId -> {"none", "unblock", "end"}]
      /\ online \subseteq CPUs /\ tasks \subseteq TaskId
  BY DEF TypeOK
<1>4. cpu'[win] = p /\ \A t \in TaskId \ {win} : cpu'[t] = cpu[t]
  BY <1>1, <1>2, <1>3 DEF SchedInv, StackInv, Alone
<1>5. /\ ~running'[cur] /\ running'[win]
      /\ \A t \in TaskId \ {cur, win} : running'[t] = running[t]
  BY <1>1, <1>2, <1>3
<1>6. /\ quarantine'[cur] = ~ended[cur]
      /\ \A t \in TaskId \ {cur} : quarantine'[t] = Lifted(p)[t]
  BY <1>1, <1>2, LiftedFacts
<1>7. \A t \in TaskId \ {cur} : /\ t \in tasks' <=> t \in tasks
                                /\ t \in prequeue' <=> t \in prequeue
                                /\ blocked'[t] => blocked[t]
                                /\ ended'[t] = ended[t] /\ pending'[t] = pending[t]
  BY <1>1, <1>2, <1>3
<1>8. cur \in tasks' => ~ended[cur]
  BY <1>2
<1>9. /\ mode'[p] = "return"
      /\ \A q \in CPUs \ {p} : mode'[q] = mode[q]
  BY <1>2, <1>3
<1>10. \A q \in online \ {p} : stack[q] \in TaskId \ {cur, win} /\ cpu[stack[q]] = q
  <2>1. SUFFICES ASSUME NEW q \in online, q # p PROVE stack[q] \in TaskId \ {cur, win} /\ cpu[stack[q]] = q
    OBVIOUS
  <2>2. stack[q] \in TaskId /\ cpu[stack[q]] = q
    BY DEF SchedInv, StackInv, OnStack
  <2>3. stack[q] # cur
    BY <1>1, <2>1, <2>2
  <2>4. stack[q] # win
    BY <1>1 DEF SchedInv, StackInv, StackRuns
  <2>5. QED
    BY <2>2, <2>3, <2>4
<1>11. cur \notin Dead /\ win \notin Dead /\ ~Untouched(cur) /\ ~Untouched(win)
  BY <1>1 DEF SchedInv, DeadInv, DeadGone, Untouched
<1>12. Dead' \subseteq Dead \cup {cur} /\ (gone => tasks' = tasks \ {cur}) /\ (~gone => Dead' = Dead)
  BY <1>2 DEF Dead
<1>13. ~Pinned(cur) \/ ~gone
  BY <1>1 DEF SchedInv, IdleInv, IdleReady
<1> HIDE DEF gone
<1>14. RunningHome'
  <2>1. SUFFICES ASSUME NEW t \in TaskId, running'[t]
                 PROVE  t \in tasks' /\ cpu'[t] \in online /\ ~quarantine'[t]
    BY <1>2 DEF RunningHome
  <2>2. t # cur
    BY <1>5, <2>1
  <2>3. CASE t = win
    BY <1>1, <1>4, <1>6, <1>7, <2>2, <2>3
  <2>4. CASE t # win
    <3>1. running[t] /\ t \in tasks /\ cpu[t] \in online /\ ~quarantine[t]
      BY <1>5, <2>1, <2>2, <2>4 DEF SchedInv, StackInv, RunningHome
    <3>2. ~Lifted(p)[t]
      BY <3>1, LiftedFacts
    <3>3. QED
      BY <1>4, <1>6, <1>7, <2>2, <2>4, <3>1, <3>2
  <2>5. QED
    BY <2>3, <2>4
<1>15. OneCurrent'
  BY <1>1, <1>4, <1>5 DEF SchedInv, StackInv, OneCurrent
<1>16. OnStack'
  BY <1>1, <1>2, <1>4, <1>10 DEF SchedInv, StackInv, OnStack
<1>17. StackRuns'
  BY <1>1, <1>2, <1>3, <1>5, <1>9, <1>10 DEF SchedInv, StackInv, StackRuns
<1>18. StackLeft'
  <2>1. SUFFICES ASSUME NEW q \in online, mode'[q] = "return"
                 PROVE  /\ stack[q] \in tasks' => quarantine'[stack[q]]
                        /\ \E t \in TaskId : running'[t] /\ cpu'[t] = q
    BY <1>2 DEF StackLeft
  <2>2. CASE q = p
    BY <1>1, <1>4, <1>5, <1>6, <1>8, <2>2
  <2>3. CASE q # p
    <3>1. mode[q] = "return" /\ stack[q] \in TaskId \ {cur, win}
      BY <1>3, <1>9, <1>10, <2>1, <2>3
    <3>2. stack[q] \in tasks' => quarantine'[stack[q]]
      BY <1>6, <1>7, <3>1, LiftedFacts DEF SchedInv, StackInv, StackLeft
    <3>3. PICK t \in TaskId : running[t] /\ cpu[t] = q
      BY <3>1 DEF SchedInv, StackInv, StackLeft
    <3>4. t # cur /\ t # win
      BY <1>1, <2>3, <3>3
    <3>5. QED
      BY <1>4, <1>5, <3>2, <3>3, <3>4
  <2>4. QED
    BY <2>2, <2>3
<1>19. Alone'
  BY <1>1, <1>2, <1>4 DEF SchedInv, StackInv, Alone
<1>20. OfflineIdle'
  BY <1>1, <1>2, <1>9 DEF SchedInv, StackInv, OfflineIdle
<1>21. DeadGone'
  BY <1>2, <1>11, <1>12 DEF SchedInv, DeadInv, DeadGone
<1>22. StackAlive'
  BY <1>2 DEF SchedInv, DeadInv, StackAlive
<1>23. Fresh'
  <2>1. SUFFICES ASSUME NEW t \in TaskId, t > serial PROVE Untouched(t)'
    BY <1>2 DEF Fresh
  <2>2. Untouched(t)
    BY <2>1 DEF SchedInv, DeadInv, Fresh
  <2>3. t # cur /\ t # win
    BY <1>11, <2>2
  <2>4. t \notin tasks' \cup Dead'
    BY <1>7, <1>12, <2>2, <2>3 DEF Untouched
  <2>5. QED
    BY <1>2, <1>5, <1>6, <1>7, <2>2, <2>3, <2>4, LiftedFacts DEF Untouched
<1>24. IdleReady'
  <2>1. SUFFICES ASSUME NEW t \in TaskId, Pinned(t)
                 PROVE  ~blocked'[t] /\ ~ended'[t] /\ waiting[t] = "none" /\ pending'[t] = "none"
    BY <1>2 DEF IdleReady, Pinned
  <2>2. ~blocked[t] /\ ~ended[t] /\ waiting[t] = "none" /\ pending[t] = "none"
    BY <2>1 DEF SchedInv, IdleInv, IdleReady
  <2>3. CASE t # cur
    BY <1>7, <2>2, <2>3
  <2>4. CASE t = cur
    BY <1>2, <1>3, <1>13, <2>1, <2>2, <2>4
  <2>5. QED
    BY <2>3, <2>4
<1>25. HasIdle'
  <2>1. SUFFICES ASSUME NEW q \in online PROVE \E t \in tasks' : Pinned(t) /\ cpu'[t] = q
    BY <1>2 DEF HasIdle, Pinned
  <2>2. PICK t \in tasks : Pinned(t) /\ cpu[t] = q
    BY DEF SchedInv, IdleInv, HasIdle
  <2>3. t \in tasks' /\ t \in TaskId
    BY <1>2, <1>3, <1>13, <2>2
  <2>4. cpu'[t] = q
    BY <1>1, <1>4, <2>2, <2>3
  <2>5. QED
    BY <2>2, <2>3, <2>4
<1>26. QED
  BY <1>14, <1>15, <1>16, <1>17, <1>18, <1>19, <1>20, <1>21, <1>22, <1>23, <1>24, <1>25
     DEF SchedInv, StackInv, DeadInv, IdleInv

\* A blocking call, or what ends one, keeps the invariant.
LEMMA TaskStepStep ==
    ASSUME NobodyTerminates, TypeOK, SchedInv, NEW p \in CPUs, TaskStep(p)
    PROVE  SchedInv'
<1> DEFINE Quiet ==
      /\ UNCHANGED <<tasks, serial, multicpu, running, quarantine, cpu, group, online, stack,
                     prequeue, delqueue, reaplist, freed>>
      /\ \A q \in CPUs : \/ mode'[q] = mode[q]
                         \/ q \in online /\ mode[q] # "return" /\ mode'[q] # "return"
      /\ \A t \in TaskId : \/ t \in tasks /\ ~Pinned(t)
                           \/ /\ blocked'[t] => blocked[t]
                              /\ ended'[t] => ended[t]
                              /\ waiting'[t] # "none" => waiting[t] # "none"
                              /\ pending'[t] # "none" => pending[t] # "none"
<1>1. ASSUME Quiet PROVE SchedInv'
  BY <1>1, QuietStep
<1> USE DEF TypeOK, Worker, Executes, Current, waitVars, reapVars, cpuVars, bitVars
<1>2. CASE Exit(p)
  <2>1. PICK t \in TaskId : /\ Worker(p, t) /\ ended' = [ended EXCEPT ![t] = TRUE]
                            /\ blocked' = AfterExitEvent(t, blocked)
    BY <1>2 DEF Exit
  <2>2. \A u \in TaskId : blocked'[u] => blocked[u]
    BY <2>1, AfterExitEventType
  <2>3. Quiet
    BY <1>2, <2>1, <2>2 DEF Exit
  <2>4. QED
    BY <1>1, <2>3
<1>3. CASE Resume(p)
  <2>1. Quiet
    BY <1>3 DEF Resume
  <2>2. QED
    BY <1>1, <2>1
<1>4. CASE SleepNanos(p)
  <2>1. Quiet
    BY <1>4 DEF SleepNanos
  <2>2. QED
    BY <1>1, <2>1
<1>5. CASE Async(p)
  <2>1. Quiet
    BY <1>5 DEF Async
  <2>2. QED
    BY <1>1, <2>1
<1>6. ASSUME NEW x \in TaskId, Join(p, x) PROVE SchedInv'
  <2>1. Quiet
    BY <1>6 DEF Join
  <2>2. QED
    BY <1>1, <2>1
<1>7. ASSUME NEW n \in 1 .. MaxSleep, SleepTicks(p, n) PROVE SchedInv'
  <2>1. Quiet
    BY <1>7 DEF SleepTicks
  <2>2. QED
    BY <1>1, <2>1
<1>8. ASSUME NEW t \in TaskId, ReturnAsync(p, t) PROVE SchedInv'
  <2>1. t \in tasks /\ ~Pinned(t)
    BY <1>8 DEF ReturnAsync, Finishes, SchedInv, IdleInv, IdleReady
  <2>2. Quiet
    BY <1>8, <2>1 DEF ReturnAsync, Finishes
  <2>3. QED
    BY <1>1, <2>2
<1>9. ASSUME NEW t \in TaskId, KillAsync(p, t) PROVE SchedInv'
  <2>1. t \in tasks /\ ~Pinned(t)
    BY <1>9 DEF KillAsync, Finishes, SchedInv, IdleInv, IdleReady
  <2>2. CASE running[t]
    <3>1. Quiet
      BY <1>9, <2>1, <2>2 DEF KillAsync, Finishes
    <3>2. QED
      BY <1>1, <3>1
  <2>3. CASE ~running[t]
    BY <1>9, <2>3, KillAsyncStep
  <2>4. QED
    BY <2>2, <2>3
<1>10. ASSUME NEW t \in TaskId PROVE ~TerminateBlocked(p, t)
  BY DEF TerminateBlocked, NobodyTerminates
<1>11. ASSUME NEW d \in {-1, 1}, ResourceAcq(p, d) PROVE SchedInv'
  <2>1. Quiet
    BY <1>11 DEF ResourceAcq
  <2>2. QED
    BY <1>1, <2>1
<1> HIDE DEF Quiet, TypeOK, Worker, Executes, Current, waitVars, reapVars, cpuVars, bitVars
<1>12. QED
  BY <1>2, <1>3, <1>4, <1>5, <1>6, <1>7, <1>8, <1>9, <1>10, <1>11, NewTaskStep, ClearStep
     DEF TaskStep

\* switch_tasks() keeps the invariant.
LEMMA PickTaskStep ==
    ASSUME CurrentInitialised, TypeOK, SchedInv, NEW p \in CPUs, PickTask(p)
    PROVE  SchedInv'
<1>1. mode[p] = "switch"
  BY DEF PickTask
<1>2. PICK cur \in CurrentTask(p), junk \in UninitCurrent,
           b \in [TaskId -> BOOLEAN], pts \in [TaskId -> 0 .. MAX_POINTS] :
      \E win \in Eligible(p, cur, junk, b) :
          /\ \A t \in TaskId : b[t] => blocked[t]
          /\ \/ win = cur /\ Keep(p, pts, b)
             \/ win # cur /\ Change(p, cur, win, pts, b)
  BY PickTaskCases
<1>3. QED
  BY <1>1, <1>2, KeepStep, ChangeStep

\* The tick only unblocks.
LEMMA TickStep ==
    ASSUME TypeOK, SchedInv, Tick
    PROVE  SchedInv'
<1>1. \A t \in TaskId : blocked'[t] => blocked[t]
  BY DEF Tick
<1>2. UNCHANGED <<tasks, serial, multicpu, running, quarantine, cpu, group, online, stack,
                  prequeue, delqueue, reaplist, freed, ended, waiting, pending>>
  BY DEF Tick, reapVars
<1>3. \A p \in CPUs : \/ mode'[p] = mode[p]
                      \/ p \in online /\ mode[p] # "return" /\ mode'[p] # "return"
  BY DEF Tick, TypeOK
<1>4. QED
  BY <1>1, <1>2, <1>3, QuietStep

\* The invariant holds from the boot thread on.
LEMMA SchedInvHolds ==
    ASSUME CurrentInitialised, NobodyTerminates
    PROVE  Spec => []SchedInv
<1>1. Init => SchedInv
  <2>1. SUFFICES ASSUME Init PROVE SchedInv
    OBVIOUS
  <2>2. /\ 1 \in TaskId /\ BSP \in CPUs /\ online = {BSP} /\ stack[BSP] = 1 /\ tasks = {1}
        /\ serial = 1 /\ \A t \in TaskId : running[t] <=> t = 1
        /\ \A t \in TaskId : cpu[t] = BSP /\ ~quarantine[t]
        /\ \A p \in CPUs : mode[p] = "task"
    BY <2>1, TaskNumbers, SchedulerAssumption DEF Init
  <2>3. StackInv
    BY <2>2 DEF StackInv, RunningHome, OneCurrent, OnStack, StackRuns, StackLeft, Alone,
       OfflineIdle
  <2>4. DeadInv
    <3>1. Dead = {}
      BY <2>1 DEF Init, Dead
    <3>2. \A t \in TaskId : t > serial => t # 1
      BY <2>2, TaskNumbers
    <3>3. Fresh
      BY <2>1, <2>2, <3>1, <3>2 DEF Init, Fresh, Untouched
    <3>4. QED
      BY <2>1, <3>1, <3>3 DEF Init, DeadInv, DeadGone, StackAlive
  <2>5. IdleInv
    BY <2>1, TaskNumbers DEF Init, IdleInv, IdleReady, HasIdle, Pinned
  <2>6. QED
    BY <2>3, <2>4, <2>5 DEF SchedInv
<1>2. TypeOK /\ SchedInv /\ [Next]_vars => SchedInv'
  <2>1. SUFFICES ASSUME TypeOK, SchedInv, [Next]_vars PROVE SchedInv'
    OBVIOUS
  <2>2. CASE UNCHANGED vars
    <3>1. UNCHANGED <<tasks, serial, multicpu, running, quarantine, cpu, group, online, stack,
                      prequeue, delqueue, reaplist, freed, mode, blocked, ended, waiting, pending>>
      BY <2>2 DEF vars, bitVars, waitVars, reapVars, cpuVars
    <3>2. QED
      BY <2>1, <3>1, QuietStep
  <2>3. QED
    BY <2>1, <2>2, CurrentInitialised, NobodyTerminates, StartMultiCpuStep, CreateIdleTaskStep,
       TaskStepStep, StartSwitchStep, PickTaskStep, ReturnStep, TickStep, ReaperStep
       DEF Next, SwitchStep
<1>3. QED
  BY <1>1, <1>2, TypeCorrect, PTL DEF Spec

-----------------------------------------------------------------------------
(* The theorems *)

\* On any number of processors, each one that was started has exactly one
\* current task.
THEOREM CurrentFoundHolds ==
    ASSUME CurrentInitialised, NobodyTerminates
    PROVE  Spec => []CurrentFound
<1>1. TypeOK /\ SchedInv => CurrentFound
  <2>1. SUFFICES ASSUME TypeOK, SchedInv, NEW p \in online
                 PROVE  \E t \in TaskId : Current(p) = {t}
    BY DEF CurrentFound
  <2>2. PICK t \in TaskId : running[t] /\ cpu[t] = p
    BY <2>1 DEF SchedInv, StackInv, OnStack, StackRuns, StackLeft
  <2>3. Current(p) = {t}
    BY <2>1, <2>2 DEF Current, SchedInv, StackInv, RunningHome, OneCurrent, TypeOK
  <2>4. QED
    BY <2>3
<1>2. QED
  BY <1>1, SchedInvHolds, TypeCorrect, PTL

\* No two processors are ever on the stack of the same task, the return path
\* of the switch included: the one cycle of stack quarantine is enough.
THEOREM StackExclusiveHolds ==
    ASSUME CurrentInitialised, NobodyTerminates
    PROVE  Spec => []StackExclusive
<1>1. SchedInv => StackExclusive
  BY DEF SchedInv, StackInv, OnStack, StackExclusive
<1>2. QED
  BY <1>1, SchedInvHolds, PTL

\* A stack is not freed, nor handed to the reaper, while a processor is on it.
THEOREM StackAliveHolds ==
    ASSUME CurrentInitialised, NobodyTerminates
    PROVE  Spec => []StackAlive
<1>1. SchedInv => StackAlive
  BY DEF SchedInv, DeadInv
<1>2. QED
  BY <1>1, SchedInvHolds, PTL

\* switch_tasks() always finds a task to run: the idle task of the processor
\* at least.
THEOREM PoolNeverEmptyHolds ==
    ASSUME CurrentInitialised, NobodyTerminates
    PROVE  Spec => []PoolNeverEmpty
<1>1. TypeOK /\ SchedInv => PoolNeverEmpty
  <2>1. SUFFICES ASSUME TypeOK, SchedInv, NEW p \in online, mode[p] = "switch",
                        NEW cur \in CurrentTask(p)
                 PROVE  Pool(p, cur, NoTask, blocked) # {}
    BY DEF PoolNeverEmpty
  <2> DEFINE el == Eligible(p, cur, NoTask, blocked)
  <2>2. PICK idle \in tasks : Pinned(idle) /\ cpu[idle] = p
    BY <2>1 DEF SchedInv, IdleInv, HasIdle
  <2>3. idle \in TaskId /\ cur \in TaskId /\ running[cur] /\ cpu[cur] = p
    BY <2>1 DEF TypeOK, CurrentTask, Mine, SchedInv, StackInv, Alone
  <2>4. idle \in el
    <3>1. ~blocked[idle] /\ ~ended[idle] /\ (running[idle] => idle = cur)
      BY <2>1, <2>2, <2>3 DEF SchedInv, IdleInv, IdleReady, StackInv, OneCurrent
    <3>2. Mine(p, idle) /\ ~Lifted(p)[idle]
      BY <2>2, <2>3 DEF Mine, Lifted
    <3>3. QED
      BY <3>1, <3>2 DEF Eligible
  <2>5. \A t \in el : group[t] \in 0 .. 3
    BY <2>1 DEF Eligible, TypeOK, PRIO_GROUP_IDLE, PRIO_GROUP_REALTIME
  <2> HIDE DEF el
  <2>6. PICK t \in el : \A u \in el : group[u] <= group[t]
    <3>1. CASE \E t \in el : group[t] = 3
      BY <2>5, <3>1
    <3>2. CASE (\E t \in el : group[t] = 2) /\ ~\E t \in el : group[t] = 3
      BY <2>5, <3>2
    <3>3. CASE (\E t \in el : group[t] = 1) /\ ~\E t \in el : group[t] \in {2, 3}
      BY <2>5, <3>3
    <3>4. CASE ~\E t \in el : group[t] \in {1, 2, 3}
      BY <2>4, <2>5, <3>4
    <3>5. QED
      BY <3>1, <3>2, <3>3, <3>4
  <2>7. QED
    BY <2>6 DEF el, Pool
<1>2. QED
  BY <1>1, SchedInvHolds, TypeCorrect, PTL

-----------------------------------------------------------------------------
(***************************************************************************)
(* join().  A task that waits asynchronously stays blocked, and so does    *)
(* one whose wait has ended but whose unblocking, or end, waits until the  *)
(* processor has left it: neither can begin to join before that.  Only     *)
(* tasks that have been created are joined, so that the number a task      *)
(* waits for does not come back, and a task that joins is unblocked when   *)
(* the other one has ended, or is gone.                                    *)
(***************************************************************************)
AsyncBlocked(t) == waiting[t] = "async" => blocked[t] /\ pending[t] = "none"
PendingBlocked(t) == pending[t] # "none" => blocked[t] /\ waiting[t] = "none"
JoinsCreated(t) == waiting[t] = "join" => target[t] \in TaskId /\ target[t] <= serial
UnblockedAfterEnd(t) ==
    waiting[t] = "join" /\ ~blocked[t] => target[t] \notin tasks \/ ended[target[t]]
JoinOK(t) == AsyncBlocked(t) /\ PendingBlocked(t) /\ JoinsCreated(t) /\ UnblockedAfterEnd(t)
Numbered == \A t \in tasks : t <= serial
JoinInv == Numbered /\ \A t \in TaskId : JoinOK(t)

\* Tasks only leave the list, except for new numbers, and ended tasks stay
\* so.
OnlyNewTasks ==
    /\ serial' \in TaskId /\ serial <= serial' /\ tasks' \subseteq TaskId
    /\ \A t \in tasks' : t \in tasks \/ (serial < t /\ t <= serial')
    /\ \A t \in TaskId : ended[t] => ended'[t]
\* What the invariant says about task t does not change but for the list.
SameWait(t) ==
    /\ waiting'[t] = waiting[t] /\ target'[t] = target[t]
    /\ blocked'[t] = blocked[t] /\ pending'[t] = pending[t]

\* A step has to be looked at only for the tasks whose wait it changes.
LEMMA JoinFrame ==
    ASSUME TypeOK, JoinInv, OnlyNewTasks,
           \A t \in TaskId : SameWait(t) \/ JoinOK(t)'
    PROVE  JoinInv'
<1>1. /\ serial \in Nat /\ serial' \in Nat /\ TaskId \subseteq Nat
      /\ tasks \subseteq Nat /\ tasks' \subseteq Nat
  BY TaskNumbers DEF TypeOK, OnlyNewTasks
<1>2. Numbered'
  BY <1>1 DEF Numbered, JoinInv, OnlyNewTasks
<1>3. ASSUME NEW t \in TaskId, SameWait(t) PROVE JoinOK(t)'
  <2>1. JoinOK(t)
    BY DEF JoinInv
  <2>2. AsyncBlocked(t)' /\ PendingBlocked(t)'
    BY <1>3, <2>1 DEF SameWait, JoinOK, AsyncBlocked, PendingBlocked
  <2>3. JoinsCreated(t)'
    <3>1. \A n \in TaskId : n <= serial => n <= serial'
      BY <1>1 DEF OnlyNewTasks
    <3>2. QED
      BY <1>3, <2>1, <3>1 DEF SameWait, JoinOK, JoinsCreated
  <2>4. UnblockedAfterEnd(t)'
    <3>1. SUFFICES ASSUME waiting'[t] = "join", ~blocked'[t]
                   PROVE  target'[t] \notin tasks' \/ ended'[target'[t]]
      BY DEF UnblockedAfterEnd
    <3>2. /\ target'[t] = target[t] /\ target[t] \in TaskId /\ target[t] <= serial
          /\ target[t] \notin tasks \/ ended[target[t]]
      BY <1>3, <2>1, <3>1 DEF SameWait, JoinOK, JoinsCreated, UnblockedAfterEnd
    <3>3. QED
      <4>1. \A n \in TaskId : n <= serial /\ n \in tasks' => n \in tasks
        BY <1>1 DEF OnlyNewTasks
      <4>2. \A n \in TaskId : ended[n] => ended'[n]
        BY DEF OnlyNewTasks
      <4>3. QED
        BY <3>2, <4>1, <4>2
  <2>5. QED
    BY <2>2, <2>3, <2>4 DEF JoinOK
<1>4. QED
  BY <1>2, <1>3 DEF JoinInv

\* A task that executes waits for nothing, and nothing is pending for it.
LEMMA ExecutesIdle ==
    ASSUME TypeOK, JoinInv, NEW p \in CPUs, NEW t \in TaskId, Executes(p, t)
    PROVE  pending[t] = "none"
BY DEF JoinInv, JoinOK, PendingBlocked, Executes

\* The event of an exit unblocks those who join the task that ends.
LEMMA ExitUnblocks ==
    ASSUME TypeOK, JoinInv, NEW x \in TaskId, NEW t \in TaskId,
           blocked' = AfterExitEvent(x, blocked),
           waiting'[t] = waiting[t], target'[t] = target[t], pending'[t] = pending[t],
           serial' = serial,
           x \notin tasks' \/ ended'[x]
    PROVE  SameWait(t) \/ JoinOK(t)'
<1>1. CASE t \in tasks \ {x} /\ waiting[t] = "join" /\ target[t] = x
  <2>1. pending[t] = "none" /\ target[t] <= serial
    BY <1>1 DEF JoinInv, JoinOK, PendingBlocked, JoinsCreated
  <2>2. QED
    BY <1>1, <2>1 DEF JoinOK, AsyncBlocked, PendingBlocked, JoinsCreated, UnblockedAfterEnd
<1>2. CASE ~(t \in tasks \ {x} /\ waiting[t] = "join" /\ target[t] = x)
  <2>1. blocked'[t] = blocked[t]
    BY <1>2 DEF AfterExitEvent, TypeOK
  <2>2. QED
    BY <2>1 DEF SameWait
<1>3. QED
  BY <1>1, <1>2

\* The end of asynchronous work: nothing that waits for the task's processor
\* was registered before, and the task is left blocked or ready.
LEMMA FinishesOK ==
    ASSUME TypeOK, JoinInv, NEW p \in CPUs, NEW t \in TaskId, Finishes(p, t)
    PROVE  /\ blocked[t] /\ pending[t] = "none" /\ waiting'[t] = "none" /\ waiting[t] = "async"
           /\ \A u \in TaskId \ {t} : waiting'[u] = waiting[u]
           /\ (pending'[t] # "none" => blocked'[t]) => JoinOK(t)'
<1>1. blocked[t] /\ pending[t] = "none"
  BY DEF Finishes, JoinInv, JoinOK, AsyncBlocked
<1>2. waiting'[t] = "none" /\ waiting[t] = "async" /\ \A u \in TaskId \ {t} : waiting'[u] = waiting[u]
  BY DEF Finishes, TypeOK
<1>3. QED
  BY <1>1, <1>2 DEF JoinOK, AsyncBlocked, PendingBlocked, JoinsCreated, UnblockedAfterEnd

\* switch_tasks() unblocks sleepers whose time has come and the task it leaves
\* if that was pending, and nobody else.
LEMMA SwitchUnblocks ==
    ASSUME TypeOK, NEW p \in CPUs, PickTask(p)
    PROVE  /\ UNCHANGED <<serial, waiting, target>>
           /\ tasks' \subseteq tasks /\ \A t \in TaskId : ended[t] => ended'[t]
           /\ \A t \in TaskId :
                /\ pending'[t] \in {pending[t], "none"}
                /\ \/ blocked'[t] = blocked[t]
                   \/ waiting[t] = "nanos"
                   \/ pending[t] = "unblock" /\ pending'[t] = "none"
<1>1. PICK cur \in CurrentTask(p), junk \in UninitCurrent, expired \in SUBSET NanoSleepers :
        \E b \in {[t \in TaskId |-> blocked[t] /\ t \notin expired]} :
        \E pool \in {Pool(p, cur, junk, b)} :
        \E pts \in {Charged(cur, pool)} :
        \E win \in pool \cap {Winner(pool, cur, pts)} :
             \/ win = cur /\ Keep(p, pts, b)
             \/ win # cur /\ Change(p, cur, win, pts, b)
  BY DEF PickTask
<1> DEFINE b == [t \in TaskId |-> blocked[t] /\ t \notin expired]
<1>2. \A t \in TaskId : b[t] = blocked[t] \/ waiting[t] = "nanos"
  BY DEF TypeOK, NanoSleepers
<1>3. b \in [TaskId -> BOOLEAN]
  BY DEF TypeOK
<1>4. cur \in TaskId
  BY DEF CurrentTask, TypeOK
<1> HIDE DEF b
<1>5. \E pts, win : Keep(p, pts, b) \/ Change(p, cur, win, pts, b)
  BY <1>1 DEF b
<1>6. CASE \E pts : Keep(p, pts, b)
  BY <1>2, <1>6 DEF Keep, waitVars
<1>7. CASE \E pts, win : Change(p, cur, win, pts, b)
  <2>1. PICK pts, win : ChangeRest(p, cur, pts, b)
    BY <1>7 DEF Change
  <2>2. UNCHANGED <<serial, waiting, target>> /\ tasks' \subseteq tasks
    BY <2>1 DEF ChangeRest
  <2>3. /\ \A t \in TaskId \ {cur} : pending'[t] = pending[t] /\ blocked'[t] = b[t]
        /\ pending'[cur] = "none"
        /\ pending[cur] # "unblock" => blocked'[cur] = b[cur]
    BY <1>3, <1>4, <2>1 DEF ChangeRest, TypeOK
  <2>4. \A t \in TaskId : ended[t] => ended'[t]
    BY <1>4, <2>1 DEF ChangeRest, TypeOK
  <2>5. QED
    BY <1>2, <2>2, <2>3, <2>4
<1>8. QED
  BY <1>5, <1>6, <1>7

\* The calls of tasks and the ends of asynchronous work keep the invariant of
\* join().
LEMMA TaskStepJoins ==
    ASSUME TypeOK, TypeOK', JoinInv, NEW p \in CPUs, TaskStep(p)
    PROVE  JoinInv'
<1>0. serial \in Nat /\ serial' \in TaskId /\ TaskId \subseteq Nat /\ tasks' \subseteq TaskId
  BY TaskNumbers DEF TypeOK
<1> USE DEF waitVars, bitVars
<1>1. CASE NewTask(p)
  <2>1. OnlyNewTasks
    BY <1>0, <1>1 DEF NewTask, OnlyNewTasks
  <2>2. \A t \in TaskId : SameWait(t)
    BY <1>1 DEF NewTask, SameWait
  <2>3. QED
    BY <2>1, <2>2, JoinFrame
<1>2. CASE Exit(p)
  <2>1. PICK x \in TaskId :
          ended' = [ended EXCEPT ![x] = TRUE] /\ blocked' = AfterExitEvent(x, blocked)
    BY <1>2 DEF Exit
  <2>2. OnlyNewTasks /\ ended'[x]
    BY <1>0, <1>2, <2>1 DEF Exit, OnlyNewTasks, TypeOK
  <2>3. UNCHANGED <<serial, waiting, target, pending>>
    BY <1>2 DEF Exit
  <2>4. \A t \in TaskId : SameWait(t) \/ JoinOK(t)'
    BY <2>1, <2>2, <2>3, ExitUnblocks
  <2>5. QED
    BY <2>2, <2>4, JoinFrame
<1>3. CASE Resume(p)
  <2>1. PICK t \in Current(p) :
          /\ waiting[t] \in {"join", "ticks", "nanos"} /\ ~blocked[t]
          /\ waiting' = [waiting EXCEPT ![t] = "none"]
          /\ target' = [target EXCEPT ![t] = NoTask]
    BY <1>3 DEF Resume
  <2>2. t \in TaskId
    BY DEF Current, TypeOK
  <2>3. OnlyNewTasks
    BY <1>0, <1>3 DEF Resume, OnlyNewTasks
  <2>4. UNCHANGED <<blocked, pending>>
    BY <1>3 DEF Resume
  <2>5. \A u \in TaskId \ {t} : SameWait(u)
    BY <2>1, <2>2, <2>4 DEF SameWait, TypeOK
  <2>6. JoinOK(t)'
    <3>1. pending[t] = "none"
      BY <2>1, <2>2 DEF JoinInv, JoinOK, PendingBlocked
    <3>2. waiting'[t] = "none"
      BY <2>1, <2>2 DEF TypeOK
    <3>3. QED
      BY <2>4, <3>1, <3>2 DEF JoinOK, AsyncBlocked, PendingBlocked, JoinsCreated,
         UnblockedAfterEnd
  <2>7. QED
    BY <2>3, <2>5, <2>6, JoinFrame
<1>4. ASSUME NEW t \in TaskId, NEW w \in {"join", "ticks", "nanos", "async"}, Executes(p, t),
             waiting' = [waiting EXCEPT ![t] = w], blocked' = [blocked EXCEPT ![t] = TRUE],
             UNCHANGED <<tasks, serial, ended, pending>>,
             \/ w = "join" /\ \E x \in tasks : target' = [target EXCEPT ![t] = x]
             \/ w # "join" /\ UNCHANGED target
      PROVE  JoinInv'
  <2>1. OnlyNewTasks
    BY <1>0, <1>4 DEF OnlyNewTasks
  <2>2. \A u \in TaskId \ {t} : SameWait(u)
    BY <1>4 DEF SameWait, TypeOK
  <2>3. waiting'[t] = w /\ blocked'[t] /\ pending'[t] = "none"
    BY <1>4, ExecutesIdle DEF TypeOK
  <2>4. w = "join" => target'[t] \in TaskId /\ target'[t] <= serial
    BY <1>4 DEF TypeOK, JoinInv, Numbered
  <2>5. JoinOK(t)'
    BY <1>4, <2>3, <2>4 DEF JoinOK, AsyncBlocked, PendingBlocked, JoinsCreated,
       UnblockedAfterEnd
  <2>6. QED
    BY <2>1, <2>2, <2>5, JoinFrame
<1>5. CASE SleepNanos(p)
  BY <1>4, <1>5 DEF SleepNanos, Worker
<1>6. CASE Async(p)
  BY <1>4, <1>6 DEF Async, Worker
<1>7. ASSUME NEW x \in TaskId, Join(p, x) PROVE JoinInv'
  BY <1>4, <1>7 DEF Join, Worker
<1>8. ASSUME NEW n \in 1 .. MaxSleep, SleepTicks(p, n) PROVE JoinInv'
  BY <1>4, <1>8 DEF SleepTicks, Worker
<1>9. ASSUME NEW t \in TaskId, ReturnAsync(p, t) PROVE JoinInv'
  <2>1. Finishes(p, t) /\ UNCHANGED <<tasks, serial, ended, target>>
    BY <1>9 DEF ReturnAsync
  <2>2. OnlyNewTasks
    BY <1>0, <2>1 DEF OnlyNewTasks
  <2>3. \A u \in TaskId \ {t} : blocked'[u] = blocked[u] /\ pending'[u] = pending[u]
    BY <1>9 DEF ReturnAsync, TypeOK
  <2>4. \A u \in TaskId \ {t} : SameWait(u)
    BY <2>1, <2>3, FinishesOK DEF SameWait
  <2>5. pending'[t] # "none" => blocked'[t]
    BY <1>9, <2>1, FinishesOK DEF ReturnAsync
  <2>6. JoinOK(t)'
    BY <2>1, <2>5, FinishesOK
  <2>7. QED
    BY <2>2, <2>4, <2>6, JoinFrame
<1>10. ASSUME NEW t \in TaskId, KillAsync(p, t) PROVE JoinInv'
  <2>1. Finishes(p, t) /\ UNCHANGED <<serial, target>>
    BY <1>10 DEF KillAsync
  <2>2. OnlyNewTasks
    BY <1>0, <1>10 DEF KillAsync, OnlyNewTasks, TypeOK
  <2>3. \A u \in TaskId \ {t} : pending'[u] = pending[u] /\ waiting'[u] = waiting[u]
    BY <1>10, <2>1, FinishesOK DEF KillAsync, TypeOK
  <2>4. CASE running[t]
    <3>1. UNCHANGED blocked
      BY <1>10, <2>4 DEF KillAsync
    <3>2. JoinOK(t)'
      BY <2>1, <3>1, FinishesOK
    <3>3. \A u \in TaskId \ {t} : SameWait(u)
      BY <2>1, <2>3, <3>1 DEF SameWait
    <3>4. QED
      BY <2>2, <3>2, <3>3, JoinFrame
  <2>5. CASE ~running[t]
    <3>1. t \notin tasks' /\ blocked' = AfterExitEvent(t, blocked) /\ UNCHANGED pending
      BY <1>10, <2>5 DEF KillAsync
    <3>2. JoinOK(t)'
      BY <2>1, <3>1, FinishesOK
    <3>3. \A u \in TaskId \ {t} : SameWait(u) \/ JoinOK(u)'
      BY <2>1, <2>3, <3>1, ExitUnblocks
    <3>4. QED
      BY <2>2, <3>2, <3>3, JoinFrame
  <2>6. QED
    BY <2>4, <2>5
<1>11. ASSUME NEW t \in TaskId, TerminateBlocked(p, t) PROVE JoinInv'
  <2>1. Finishes(p, t) /\ UNCHANGED <<serial, target, blocked, pending, ended>> /\ tasks' \subseteq tasks
    BY <1>11 DEF TerminateBlocked
  <2>2. OnlyNewTasks
    BY <1>0, <2>1 DEF OnlyNewTasks
  <2>3. \A u \in TaskId \ {t} : SameWait(u)
    BY <2>1, FinishesOK DEF SameWait
  <2>4. JoinOK(t)'
    BY <2>1, FinishesOK
  <2>5. QED
    BY <2>2, <2>3, <2>4, JoinFrame
<1>12. ASSUME UNCHANGED <<tasks, serial, ended, waiting, target, blocked, pending>> PROVE JoinInv'
  <2>1. OnlyNewTasks /\ \A t \in TaskId : SameWait(t)
    BY <1>0, <1>12 DEF OnlyNewTasks, SameWait
  <2>2. QED
    BY <2>1, JoinFrame
<1>13. ASSUME NEW d \in {-1, 1}, ResourceAcq(p, d) PROVE JoinInv'
  BY <1>12, <1>13 DEF ResourceAcq
<1>14. CASE ClearStackQuarantines(p)
  BY <1>12, <1>14 DEF ClearStackQuarantines
<1>15. QED
  BY <1>1, <1>2, <1>3, <1>5, <1>6, <1>7, <1>8, <1>9, <1>10, <1>11, <1>13, <1>14 DEF TaskStep

\* The invariant of join() holds, whatever the uninitialised local holds and
\* however asynchronous work ends.
LEMMA JoinInvHolds == Spec => []JoinInv
<1>1. Init => JoinInv
  BY TaskNumbers DEF Init, JoinInv, Numbered, JoinOK, AsyncBlocked, PendingBlocked,
     JoinsCreated, UnblockedAfterEnd
<1>2. TypeOK /\ TypeOK' /\ JoinInv /\ [Next]_vars => JoinInv'
  <2>1. SUFFICES ASSUME TypeOK, TypeOK', JoinInv, [Next]_vars PROVE JoinInv'
    OBVIOUS
  <2>2. serial \in Nat /\ serial' \in TaskId /\ TaskId \subseteq Nat /\ tasks' \subseteq TaskId
    BY <2>1, TaskNumbers DEF TypeOK
  <2> USE DEF waitVars, bitVars
  <2>3. ASSUME UNCHANGED <<tasks, serial, ended, waiting, target, blocked, pending>> PROVE JoinInv'
    <3>1. OnlyNewTasks /\ \A t \in TaskId : SameWait(t)
      BY <2>2, <2>3 DEF OnlyNewTasks, SameWait
    <3>2. QED
      BY <2>1, <3>1, JoinFrame
  <2>4. CASE StartMultiCpu
    BY <2>3, <2>4 DEF StartMultiCpu
  <2>5. ASSUME NEW p \in CPUs, CreateIdleTask(p) PROVE JoinInv'
    <3>1. OnlyNewTasks
      BY <2>1, <2>2, <2>5 DEF CreateIdleTask, OnlyNewTasks
    <3>2. \A t \in TaskId : SameWait(t)
      BY <2>5 DEF CreateIdleTask, SameWait
    <3>3. QED
      BY <2>1, <3>1, <3>2, JoinFrame
  <2>6. ASSUME NEW p \in CPUs, SwitchStep(p) PROVE JoinInv'
    <3>1. CASE StartSwitch(p)
      BY <2>3, <3>1 DEF StartSwitch
    <3>2. CASE ReturnFromSwitch(p)
      BY <2>3, <3>2 DEF ReturnFromSwitch
    <3>3. CASE PickTask(p)
      <4>1. OnlyNewTasks
        <5>1. serial' = serial /\ tasks' \subseteq tasks /\ \A t \in TaskId : ended[t] => ended'[t]
          BY <2>1, <3>3, SwitchUnblocks
        <5>2. QED
          BY <2>2, <5>1 DEF OnlyNewTasks
      <4>2. ASSUME NEW t \in TaskId PROVE SameWait(t) \/ JoinOK(t)'
        <5>1. JoinOK(t)
          BY <2>1 DEF JoinInv
        <5>2. /\ UNCHANGED <<serial, waiting, target>> /\ pending'[t] \in {pending[t], "none"}
              /\ \/ blocked'[t] = blocked[t]
                 \/ waiting[t] = "nanos"
                 \/ pending[t] = "unblock" /\ pending'[t] = "none"
          BY <2>1, <3>3, SwitchUnblocks
        <5>3. CASE blocked'[t] = blocked[t] /\ pending'[t] = pending[t]
          BY <5>2, <5>3 DEF SameWait
        <5>4. CASE pending'[t] = "none" /\ pending[t] # "none"
          BY <5>1, <5>2, <5>4
             DEF JoinOK, AsyncBlocked, PendingBlocked, JoinsCreated, UnblockedAfterEnd
        <5>5. CASE waiting[t] = "nanos"
          BY <5>1, <5>2, <5>5
             DEF JoinOK, AsyncBlocked, PendingBlocked, JoinsCreated, UnblockedAfterEnd
        <5>6. QED
          BY <5>2, <5>3, <5>4, <5>5
      <4>3. QED
        BY <2>1, <4>1, <4>2, JoinFrame
    <3>4. QED
      BY <2>6, <3>1, <3>2, <3>3 DEF SwitchStep
  <2>7. CASE Tick
    <3>1. UNCHANGED <<tasks, serial, ended, waiting, target, pending>>
      BY <2>7 DEF Tick
    <3>2. OnlyNewTasks
      BY <2>2, <3>1 DEF OnlyNewTasks
    <3>3. \A t \in TaskId : waiting[t] # "ticks" => blocked'[t] = blocked[t]
      BY <2>1, <2>7 DEF Tick, TypeOK
    <3>4. ASSUME NEW t \in TaskId PROVE SameWait(t) \/ JoinOK(t)'
      <4>1. JoinOK(t)
        BY <2>1 DEF JoinInv
      <4>2. CASE waiting[t] = "ticks"
        BY <3>1, <4>1, <4>2
           DEF JoinOK, AsyncBlocked, PendingBlocked, JoinsCreated, UnblockedAfterEnd
      <4>3. CASE waiting[t] # "ticks"
        BY <3>1, <3>3, <4>3 DEF SameWait
      <4>4. QED
        BY <4>2, <4>3
    <3>5. QED
      BY <2>1, <3>2, <3>4, JoinFrame
  <2>8. CASE Reaper
    BY <2>3, <2>8 DEF Reaper, ReaperAcquire, ReaperLength, ReaperTake, ReaperDelete
  <2>9. CASE UNCHANGED vars
    BY <2>3, <2>9 DEF vars
  <2>10. QED
    BY <2>1, <2>4, <2>5, <2>6, <2>7, <2>8, <2>9, TaskStepJoins DEF Next
<1>3. QED
  BY <1>1, <1>2, TypeCorrect, PTL DEF Spec

\* A step that ends a join() is the one of the polling loop, of a task that is
\* not blocked.
LEMMA JoinEnds ==
    ASSUME TypeOK, JoinInv, [Next]_vars, NEW t \in TaskId,
           waiting[t] = "join", waiting'[t] = "none"
    PROVE  ~blocked[t]
<1> USE DEF waitVars, bitVars
<1>1. CASE \E p \in CPUs : Resume(p)
  BY <1>1 DEF Resume, Current, TypeOK
<1>2. ASSUME NEW p \in CPUs, NEW u \in TaskId, Finishes(p, u) PROVE FALSE
  BY <1>2 DEF Finishes, TypeOK
<1>3. ASSUME NEW p \in CPUs, TaskStep(p), ~Resume(p) PROVE FALSE
  <2>1. ASSUME NEW u \in TaskId, Executes(p, u), NEW w, w # "none",
               waiting' = [waiting EXCEPT ![u] = w]
        PROVE  FALSE
    BY <2>1 DEF TypeOK
  <2>2. CASE \/ NewTask(p) \/ Exit(p) \/ ClearStackQuarantines(p)
             \/ \E d \in {-1, 1} : ResourceAcq(p, d)
    BY <2>2 DEF NewTask, Exit, ClearStackQuarantines, ResourceAcq
  <2>3. CASE \/ SleepNanos(p) \/ Async(p) \/ \E x \in TaskId : Join(p, x)
             \/ \E n \in 1 .. MaxSleep : SleepTicks(p, n)
    BY <2>1, <2>3 DEF SleepNanos, Async, Join, SleepTicks, Worker
  <2>4. CASE \E u \in TaskId : ReturnAsync(p, u) \/ KillAsync(p, u) \/ TerminateBlocked(p, u)
    BY <1>2, <2>4 DEF ReturnAsync, KillAsync, TerminateBlocked
  <2>5. QED
    BY <1>3, <2>2, <2>3, <2>4 DEF TaskStep
<1>4. ASSUME NEW p \in CPUs, CreateIdleTask(p) \/ SwitchStep(p) PROVE FALSE
  BY <1>4, SwitchUnblocks DEF CreateIdleTask, SwitchStep, StartSwitch, ReturnFromSwitch
<1>5. CASE StartMultiCpu \/ Tick \/ Reaper \/ UNCHANGED vars
  BY <1>5 DEF StartMultiCpu, Tick, Reaper, ReaperAcquire, ReaperLength, ReaperTake,
     ReaperDelete, vars
<1>6. QED
  BY <1>1, <1>3, <1>4, <1>5 DEF Next

\* join() returns only after the task it joins has ended, whatever else
\* unblocks tasks: ticks, clocks, work that ends asynchronously.
THEOREM JoinAfterEndHolds == Spec => JoinAfterEnd
<1>1. TypeOK /\ JoinInv /\ [Next]_vars =>
        [\A t \in TaskId : waiting[t] = "join" /\ waiting'[t] = "none"
                             => target[t] \notin tasks \/ ended[target[t]]]_vars
  BY JoinEnds DEF JoinInv, JoinOK, UnblockedAfterEnd
<1>2. QED
  BY <1>1, JoinInvHolds, TypeCorrect, PTL DEF Spec, JoinAfterEnd
=============================================================================

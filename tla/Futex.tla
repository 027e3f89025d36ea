-------------------------------- MODULE Futex --------------------------------
(***************************************************************************)
(* FUTEX_WAIT and FUTEX_WAKE, and the way a signal or exit_group() gets    *)
(* hold of a thread that sleeps in them.                                   *)
(*                                                                         *)
(* The threads belong to one process.  Futex::mtx protects the list        *)
(* waiting, Process::mtx the list of aborter functions and the signals;    *)
(* each stretch of code under one of them is a step.  A thread that will   *)
(* sleep leaves its system call asynchronously: returnAsync() may come     *)
(* before the thread has been switched out, and takes effect after         *)
(* (when_not_running() of Scheduler).                                      *)
(***************************************************************************)
EXTENDS Integers, Sequences, SequencesExt, FiniteSets

CONSTANTS
    Threads,        \* the threads of the process
    Addr,           \* addresses of futex words
    WakeNums,       \* arguments of FUTEX_WAKE
    NoThread,
    UninitHandle    \* whose aborter the uninitialised aborterFuncHandle of a
                    \* new ProcThread may name

ASSUME FutexAssumption ==
    /\ NoThread \notin Threads
    /\ WakeNums \subseteq Nat
    /\ UninitHandle \subseteq Threads \cup {NoThread} /\ UninitHandle # {}

VARIABLES
    mem,        \* the futex words
    pc,         \* where each thread is
    addr, val,  \* the arguments of its system call
    waiting,    \* Futex::waiting
    wakeups,    \* the local wakeups of each thread in FUTEX_WAKE
    aborters,   \* Process::aborterFunc
    fresh,      \* threads whose aborterFuncHandle was never assigned
    own,        \* threads whose ProcThread::aborterFunc is set
    returns,    \* calls of returnAsync() for the system call in progress
    toabort,    \* the local copy of the aborters in CallAbortAll()
    sigpending, \* a signal with a handler is pending
    killed,     \* Process::killed
    killer,     \* the process or the keyboard handler that sends the signal
    robbed      \* observer: threads whose aborter left the list through the
                \* uninitialised handle of another thread, or their own

memVars == <<mem, addr, val>>
futexVars == <<waiting, wakeups>>
abortVars == <<aborters, fresh, own, toabort, robbed>>
signalVars == <<sigpending, killed, killer>>
vars == <<memVars, pc, futexVars, abortVars, returns, signalVars>>

Values == {0, 1}

Labels == {"user", "lock", "check", "abort", "async", "off", "fast", "wake", "waking",
           "exit", "abortall", "ended"}

Entry == [thread : Threads, addr : Addr, val : Values]
Aborter == [thread : Threads, addr : Addr]
Idle == [at |-> "idle"]
About == [at |-> "abort"]

TypeOK ==
    /\ mem \in [Addr -> Values]
    /\ pc \in [Threads -> Labels]
    /\ addr \in [Threads -> Addr]
    /\ val \in [Threads -> Values]
    /\ waiting \in Seq(Entry)
    /\ wakeups \in [Threads -> Seq(Threads)]
    /\ aborters \in Seq(Aborter)
    /\ fresh \subseteq Threads
    /\ own \subseteq Threads
    /\ returns \in [Threads -> 0 .. 2]
    /\ toabort \in [Threads -> Seq(Aborter)]
    /\ sigpending \in BOOLEAN
    /\ killed \in BOOLEAN
    /\ killer \in {Idle, About} \cup [at : {"run"}, func : Aborter]
    /\ robbed \subseteq Threads

Init ==
    /\ mem = [a \in Addr |-> 0]
    /\ pc = [t \in Threads |-> "user"]
    /\ addr \in {f \in [Threads -> Addr] : \A t, u \in Threads : f[t] = f[u]}
    /\ val = [t \in Threads |-> 0]
    /\ waiting = <<>>
    /\ wakeups = [t \in Threads |-> <<>>]
    /\ aborters = <<>>
    /\ fresh = Threads
    /\ own = {}
    /\ returns = [t \in Threads |-> 0]
    /\ toabort = [t \in Threads |-> <<>>]
    /\ sigpending = FALSE
    /\ killed = FALSE
    /\ killer = Idle
    /\ robbed = {}

Goto(t, label) == pc' = [pc EXCEPT ![t] = label]

-----------------------------------------------------------------------------
(* returnAsync() and the aborter function of a wait *)

\* std::vector::erase() of the first entry at one of the indices, if any.
EraseFirst(list, at) == IF at = {} THEN list ELSE RemoveAt(list, Min(at))

\* ClearAborterFunc(): the thread's entry leaves the list.
Without(list, t) == EraseFirst(list, {i \in DOMAIN list : list[i].thread = t})

\* returnAsync(): the aborter is cleared, and the return is left for when
\* the thread does not run.
ReturnAsync(t) ==
    /\ aborters' = Without(aborters, t)
    /\ own' = own \ {t}
    /\ returns' = [returns EXCEPT ![t] = @ + 1]
    /\ robbed' = robbed \ {t}

\* Where the wait of aborter f is in the list.
Entered(f) ==
    {i \in DOMAIN waiting : waiting[i].thread = f.thread /\ waiting[i].addr = f.addr}

\* Faulty variant: -EINTR is returned whether the entry was found or not.
RunAborterAlways(f) ==
    /\ waiting' = EraseFirst(waiting, Entered(f))
    /\ ReturnAsync(f.thread)

\* The aborter of a wait: -EINTR for a thread that is still in the list.
RunAborter(f) ==
    \/ /\ Entered(f) # {}
       /\ waiting' = EraseFirst(waiting, Entered(f))
       /\ ReturnAsync(f.thread)
    \/ /\ Entered(f) = {}
       /\ UNCHANGED <<waiting, aborters, own, returns, robbed>>

\* The function given to when_not_running(): the thread ends, or takes the
\* pending signal on its way back to user mode.
Resume(t) ==
    /\ pc[t] = "off" /\ returns[t] > 0
    /\ returns' = [returns EXCEPT ![t] = 0]
    /\ Goto(t, IF killed THEN "ended" ELSE "user")
    /\ sigpending' = (sigpending /\ killed)
    /\ UNCHANGED <<memVars, futexVars, abortVars, killed, killer>>

\* HandleSignalInFastReturn() at the end of a system call that did not wait.
FastReturn(t) ==
    /\ pc[t] = "fast"
    /\ Goto(t, "user")
    /\ sigpending' = FALSE
    /\ UNCHANGED <<memVars, futexVars, abortVars, returns, killed, killer>>

-----------------------------------------------------------------------------
(* FUTEX_WAIT *)

\* The compare and exchange of the word with val, before the lock is taken.
Wait(t, a, v) ==
    /\ pc[t] = "user"
    /\ addr' = [addr EXCEPT ![t] = a]
    /\ val' = [val EXCEPT ![t] = v]
    /\ Goto(t, IF mem[a] = v THEN "lock" ELSE "fast")
    /\ UNCHANGED <<mem, futexVars, abortVars, returns, signalVars>>

\* AborterFunc(): the new function is added, then the previous one removed;
\* the first time, whatever the uninitialised handle names, which may be the
\* aborter of another thread or the new one.
SetAborter(t) ==
    LET mine == [thread |-> t, addr |-> addr[t]]
        list == Append(aborters, mine)
    IN  /\ \/ /\ t \in fresh
              /\ \E junk \in UninitHandle :
                    /\ aborters' = Without(list, junk)
                    /\ robbed' = robbed \cup {u \in {junk} : \E f \in ToSet(list) : f.thread = u}
           \/ /\ t \notin fresh
              /\ aborters' = Append(Without(aborters, t), mine)
              /\ UNCHANGED robbed
        /\ fresh' = fresh \ {t}
        /\ own' = own \cup {t}

\* Faulty variant: the word is not looked at again under the lock.
EnqueueUnchecked(t) ==
    /\ pc[t] = "lock"
    /\ waiting' = Append(waiting, [thread |-> t, addr |-> addr[t], val |-> val[t]])
    /\ SetAborter(t)
    /\ Goto(t, "check")
    /\ UNCHANGED <<memVars, wakeups, toabort, returns, signalVars>>

\* Under Futex::mtx: the word is read again, and the thread is entered.
Enqueue(t) ==
    /\ pc[t] = "lock"
    /\ \/ /\ mem[addr[t]] = val[t]
          /\ waiting' = Append(waiting, [thread |-> t, addr |-> addr[t], val |-> val[t]])
          /\ SetAborter(t)
          /\ Goto(t, "check")
       \/ /\ mem[addr[t]] # val[t]
          /\ Goto(t, "fast")
          /\ UNCHANGED <<waiting, aborters, fresh, own, robbed>>
    /\ UNCHANGED <<memVars, wakeups, toabort, returns, signalVars>>

\* Faulty variant: only the signals that come later are noticed.
CheckNothing(t) ==
    /\ pc[t] = "check"
    /\ Goto(t, "async")
    /\ UNCHANGED <<memVars, futexVars, abortVars, returns, signalVars>>

\* HasPendingSignalOrKill() after the lock was dropped.
CheckPending(t) ==
    /\ pc[t] = "check"
    /\ Goto(t, IF sigpending \/ killed THEN "abort" ELSE "async")
    /\ UNCHANGED <<memVars, futexVars, abortVars, returns, signalVars>>

\* ProcThread::CallAbort(): the thread's own aborter, if it is still set.
AbortOwn(t) ==
    /\ pc[t] = "abort"
    /\ \/ t \in own /\ RunAborter([thread |-> t, addr |-> addr[t]])
       \/ t \notin own /\ UNCHANGED <<waiting, aborters, own, returns, robbed>>
    /\ Goto(t, "async")
    /\ UNCHANGED <<memVars, wakeups, fresh, toabort, signalVars>>

\* async() blocks the task, and the system call ends in a task switch.
SwitchOut(t) ==
    /\ pc[t] = "async"
    /\ Goto(t, "off")
    /\ UNCHANGED <<memVars, futexVars, abortVars, returns, signalVars>>

-----------------------------------------------------------------------------
(* FUTEX_WAKE *)

\* A thread changes the word in user mode, and will call FUTEX_WAKE.
Store(t, a) ==
    /\ pc[t] = "user"
    /\ mem' = [mem EXCEPT ![a] = 1 - @]
    /\ addr' = [addr EXCEPT ![t] = a]
    /\ Goto(t, "wake")
    /\ UNCHANGED <<val, futexVars, abortVars, returns, signalVars>>

\* The first n entries of address a.
Woken(a, n) ==
    LET at(i) == Cardinality({j \in 1 .. i : waiting[j].addr = a})
    IN  {i \in DOMAIN waiting : waiting[i].addr = a /\ at(i) <= n}

\* The members of a set of indices in ascending order.
Ascending(S) ==
    {f \in [1 .. Cardinality(S) -> S] : \A i, j \in DOMAIN f : i < j => f[i] < f[j]}

\* Under Futex::mtx: the entries to wake leave the list.
Wake(t, n) ==
    /\ pc[t] = "wake"
    /\ LET hit == Woken(addr[t], n)
       IN  \E picked \in Ascending(hit), rest \in Ascending(DOMAIN waiting \ hit) :
            /\ wakeups' = [wakeups EXCEPT ![t] =
                  [k \in DOMAIN picked |-> waiting[picked[k]].thread]]
            /\ waiting' = [k \in DOMAIN rest |-> waiting[rest[k]]]
    /\ Goto(t, "waking")
    /\ UNCHANGED <<memVars, abortVars, returns, signalVars>>

\* The wakeup functions are called one by one, outside the lock.
Wakeup(t) ==
    /\ pc[t] = "waking" /\ wakeups[t] # <<>>
    /\ ReturnAsync(Head(wakeups[t]))
    /\ wakeups' = [wakeups EXCEPT ![t] = Tail(@)]
    /\ UNCHANGED <<memVars, pc, waiting, fresh, toabort, signalVars>>

WakeDone(t) ==
    /\ pc[t] = "waking" /\ wakeups[t] = <<>>
    /\ Goto(t, "fast")
    /\ UNCHANGED <<memVars, futexVars, abortVars, returns, signalVars>>

-----------------------------------------------------------------------------
(* Signals and exit_group() *)

\* setsignal()
SetSignal ==
    /\ killer = Idle
    /\ sigpending' = TRUE
    /\ killer' = About
    /\ UNCHANGED <<memVars, pc, futexVars, abortVars, returns, killed>>

\* Process::CallAbort(): the first aborter is copied under the lock ...
CallAbort ==
    /\ killer = About
    /\ killer' = IF aborters = <<>> THEN Idle ELSE [at |-> "run", func |-> Head(aborters)]
    /\ UNCHANGED <<memVars, pc, futexVars, abortVars, returns, sigpending, killed>>

\* ... and called after it.
KillerRuns ==
    /\ killer.at = "run"
    /\ RunAborter(killer.func)
    /\ killer' = Idle
    /\ UNCHANGED <<memVars, pc, wakeups, fresh, toabort, sigpending, killed>>

\* exit_group(): SetKilled().
ExitGroup(t) ==
    /\ pc[t] = "user"
    /\ killed' = TRUE
    /\ Goto(t, "exit")
    /\ UNCHANGED <<memVars, futexVars, abortVars, returns, sigpending, killer>>

\* Faulty variant: CallAbort() in place of CallAbortAll().
CallAbortFirst(t) ==
    /\ pc[t] = "exit"
    /\ toabort' = [toabort EXCEPT ![t] = IF aborters = <<>> THEN <<>> ELSE <<Head(aborters)>>]
    /\ Goto(t, "abortall")
    /\ UNCHANGED <<memVars, futexVars, aborters, fresh, own, robbed, returns, signalVars>>

\* CallAbortAll(): the list is copied under the lock ...
CallAbortAll(t) ==
    /\ pc[t] = "exit"
    /\ toabort' = [toabort EXCEPT ![t] = aborters]
    /\ Goto(t, "abortall")
    /\ UNCHANGED <<memVars, futexVars, aborters, fresh, own, robbed, returns, signalVars>>

\* ... and called one by one.
AbortNext(t) ==
    /\ pc[t] = "abortall" /\ toabort[t] # <<>>
    /\ RunAborter(Head(toabort[t]))
    /\ toabort' = [toabort EXCEPT ![t] = Tail(@)]
    /\ UNCHANGED <<memVars, pc, wakeups, fresh, signalVars>>

Ended(t) ==
    /\ pc[t] = "abortall" /\ toabort[t] = <<>>
    /\ Goto(t, "ended")
    /\ UNCHANGED <<memVars, futexVars, abortVars, returns, signalVars>>

-----------------------------------------------------------------------------

\* What a thread, or the kernel on its behalf, does inside a system call.
Progress(t) ==
    \/ Enqueue(t) \/ CheckPending(t) \/ AbortOwn(t) \/ SwitchOut(t) \/ Resume(t)
    \/ FastReturn(t) \/ (\E n \in WakeNums : Wake(t, n)) \/ Wakeup(t) \/ WakeDone(t)
    \/ CallAbortAll(t) \/ AbortNext(t) \/ Ended(t)

Killer == CallAbort \/ KillerRuns

Next ==
    \/ \E t \in Threads :
        \/ \E a \in Addr, v \in Values : Wait(t, a, v)
        \/ \E a \in Addr : Store(t, a)
        \/ ExitGroup(t)
        \/ Progress(t)
    \/ SetSignal
    \/ Killer

Spec == Init /\ [][Next]_vars

-----------------------------------------------------------------------------
(* Properties *)

Asleep(t) == pc[t] = "off" /\ returns[t] = 0

\* A thread's system call is returned from once, although a waker, its own
\* check, a signal and exit_group() all try to end it.
OneReturn ==
    \A t \in Threads : returns[t] > 0 =>
        returns[t] = 1 /\ pc[t] \in {"check", "abort", "async", "off"}

\* Nobody sleeps on a value the word no longer has, unless the thread that
\* changed it has not called FUTEX_WAKE yet (programs that wake everybody).
NoMissedWake ==
    \A i \in DOMAIN waiting : mem[waiting[i].addr] # waiting[i].val =>
        \E t \in Threads : pc[t] = "wake" /\ addr[t] = waiting[i].addr

\* A signal that was sent completely does not leave all threads asleep, unless
\* the aborter of every one of them was taken off the list through a handle that
\* was never assigned.
SignalFindsSleeper ==
    sigpending /\ killer = Idle =>
        (\E t \in Threads : ~Asleep(t)) \/ Threads \subseteq robbed

\* After exit_group() every thread that still sleeps in FUTEX_WAIT is going
\* to be found: by the thread that calls the aborters, or by a wakeup or a
\* signal that took it in hand before; except a thread whose aborter was taken
\* off the list through a handle that was never assigned.
KilledSleepersFound ==
    \A t \in Threads \ robbed : killed /\ Asleep(t) =>
        \/ \E u \in Threads :
            \/ pc[u] = "exit"
            \/ \E i \in DOMAIN toabort[u] : toabort[u][i].thread = t
            \/ \E i \in DOMAIN wakeups[u] : wakeups[u][i] = t
        \/ killer.at = "run" /\ killer.func.thread = t
=============================================================================

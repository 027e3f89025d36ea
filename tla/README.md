# A TLA+ verification of jeokernel

jeokernel is a C++ operating system kernel for x86_64 with a port to aarch64
in progress. It brings up all processors of the machine, schedules kernel and
user threads on them, manages physical and virtual memory, drives PCI, USB, PS/2
and SCSI devices, reads ext2 file systems and runs Linux binaries through a
system call layer. The code is compiled without optimisation (`-g` only), so a
loop that polls memory really polls it.

## 1. Inventory

### Concurrency primitives

* `critical_section` (`kernel/arch/*/critical_section.cpp`): saves the interrupt
  flag and disables interrupts; the destructor restores the flag.
* `hw_spinlock`, `raw_spinlock` (`kernel/arch/*/{hw,raw}_spinlock.cpp`): ticket
  locks on two 32 bit counters; `hw_spinlock` also parks its owner's
  `critical_section` in the lock object.
* `raw_semaphore` (`kernel/arch/*/raw_semaphore.cpp`): a ticket counter and a
  limit counter; a caller whose ticket is beyond the limit installs a task event
  handler, marks itself blocked and gives up the processor.
* `std::mutex` (`kernel/concurrency/mutex.cpp`): a ticket mutex that blocks its
  waiters in the same way and is woken by the event of `unlock()`.
* `mul_semaphore` (`kernel/concurrency/mul_semaphore.cpp`): a counting semaphore
  whose waiters each own a slot (a `raw_semaphore` and a timeout).
* `delay`, `pthreadwrappers`, `std::thread` start and join handshake.

Correct means: one owner, first come first served, nobody misses the wakeup
meant for it, interrupts are off while a lock that handlers also take is held
and are restored as they were, and all of it survives counters that wrap.

### Scheduler

`tasklist` (`kernel/tasks/tasklist.cpp`, `include/core/scheduler.h`) keeps all
tasks of the machine: which run on which processor, which are blocked, ended or
in stack quarantine, their points and priorities, event handlers, timers, and
the queue of ended tasks that the reaper thread frees. It is entered from the
timer interrupt, from `int 0xFE`, and from every primitive above. Hard: a task
that is switched out may not run elsewhere before its processor has left its
stack, an ended task may not be freed while its stack is in use, a wakeup may
come before the sleep, and the event handlers run while tasks change.

### Memory

`pagealloc.cpp`, `physpagemap.cpp`, `vmem.cpp`, `pagetable.cpp`,
`include/vpallocator.h` and `kernel/kmemory/` keep physical page maps, virtual
address ranges and the kernel heap. Correct means no page or byte range is handed
out twice and everything freed can be allocated again.

### Processes

`kernel/exec/` keeps processes, threads, their memory mappings, file
descriptors, futexes, pipes, signals, restartable sequences and the blocking
thread that runs file system work; `kernel/syscall/` has one handler per system
call. Hard: a wait races a wake, a signal or a kill; exactly one of them may
finish the waiting system call. Page faults are resolved on the spot or by one
`[pfault]` thread for the whole machine, which reads files without the lock of
the process while other threads map and unmap; pages that are unmapped should
outlive every processor that may still have them in its page table cache. Correct
means that every fault is answered once, that no page table entry outlives its
mapping, and that no page is given back while it can be reached. The last is true
of the code in part only (section 4).

### Files and block devices

`kernel/kfs`, `kernel/devfs`, `kernel/procfs`, `kernel/blockdevs` (ext2, GPT,
MBR), `kernel/blockdevsystem` (page cache and write back), and the reference
counting of `include/resource`. Write back has two threads: the collector asks
each mounted file system for its dirty blocks, the submitter writes them. Hard:
both work while users change the same pages, a block holds references that keep
its file system open, a write may fail, and the machine may stop at any moment.
Correct means that what users do gets to the device, that the device never says
"valid" about a file system that is not complete up to the moment it was closed,
and that an unmount ends.

### Devices

USB host controllers and hubs (`kernel/usb`), SCSI, PS/2, PCI, serial, keyboard
and terminal (`kernel/tty`), framebuffer and text console, kernel shell.

### Boot and vendored code

`boot32`, `uefi64*`, `arm64shim*`, `kernel/arch/*/{bootstrap,ApStartup}` bring up
the machine. ACPICA and libcxxrt are third-party code.

## 2. Modules and how they correspond to the code

```
FifoLock <--implements-- Spinlock         CountingSemaphore <--implements-- RawSemaphore
    ^                       |                     ^
    +----implements------ KMutex                  +-- used by -- MulSemaphore, BlockThread,
                            |                                    SyscallAsyncThread, PageFault
              Scheduler (atomic steps: Spinlock; wakeups: KMutex, RawSemaphore, Futex)
                            |
     StdThread <--extends-- BlockThread, SyscallAsyncThread      Futex
                                 ^             ^
     WriteBack <--extends-- WorkerThreads -----+
     MulSemaphore <--extends-- CallbackLatch
     MemorySnapshot <--extends-- PageFault
```

The modules are layered in the way the code is. `Spinlock` shows that code under
an `hw_spinlock` is atomic with respect to all other users of that lock and to
interrupt handlers of its own processor, and every module above takes a stretch
of code between `lock()` and `unlock()` as one step. `Scheduler` shows that a
task that is ready runs; the modules above it assume as fairness what it shows.
`RawSemaphore` is shown to be a counting semaphore, and the modules that use one
have the counter in place of the tickets.

| Module | Code | State | Actions |
|---|---|---|---|
| `Spinlock` | `hw_spinlock`, `raw_spinlock`, `critical_section` | the two counters, the `critical_section` parked in the lock, per context its ticket, its position and its own `critical_section`, the interrupt flags | each atomic access of `lock()`, `try_lock()`, `unlock()`; interrupts; a caller's own critical section |
| `Scheduler` | `tasklist.cpp`, `scheduler.h`, the fault paths of `process.cpp` | the task list and `task_bits`, what each task waits for, the queues of the reaper, what each processor executes and on whose stack it stands | creation, exit, join, sleeps, asynchronous work and its three outcomes, the timer tick, `switch_tasks()` in the two critical sections it really has, the return from the interrupt, quarantine clearing, the reaper in its four steps |
| `KMutex` | `mutex.cpp`, `mutex.h`, `resource_acq()` | counters, tickets, blocked bits, handlers, resource counts | each step of `lock()` and `unlock()`; the event is one step under the scheduler's lock |
| `RawSemaphore` | `raw_semaphore.cpp` | counters, tickets, blocked bits, handlers | each step of `acquire()`, `release()`, `release_from_event()` |
| `MulSemaphore` | `mul_semaphore.cpp` | count, queue of slots, timeouts, which slots exist | each critical section of `acquire()`, `release()`, the timeout |
| `Futex` | `futex.cpp`, and from `callctx.cpp`, `procthread.cpp`, `process.cpp`, `syscall/`: aborters, signals, `exit_group()` | the words, the list of waiters, aborters, pending returns, signal and kill flags | each critical section of wait and wake, `CallAbort()`, `CallAbortAll()`, the asynchronous return |
| `CallbackLatch` | `scsi/CallbackLatch.cpp`, on top of `MulSemaphore` | the success flag, where each callback is, what each wait returned | the two steps of `open()`, the begin and the end of `wait()`, and all steps of the semaphore between |
| `PageFault` | from `process.cpp`: `page_fault()`, `sync_resolve_page()`, the `[pfault]` thread, `resolve_page()`, `resolved_read_page()`, `resolve_read()`, `readable()`, `Map()`, `ClearRange()`, `DisableRange()` | the mappings and page tables of each process, what each thread does and at which page, `p_faults`, the entry in work, the `[pfault]` thread | each critical section of the above; threads that get and leave a processor |
| `MemorySnapshot` | `MemoryMapSnapshotBarrier`, `DeferredReleasePage`, `task_enter()`, `task_leave()` | the snapshots of each process with what hangs on them, who runs, what a `munmap()` holds | take, leave, release, defer, drop |
| `StdThread` | `std/thread.h`, `thread.cpp` | the flags of the start context, how often it was deleted, where the thread and its owner are | start, the end of the function, join, detach, destruction |
| `BlockThread` | `blockthread.cpp` | queue, stop flag, permits, the worker | `Queue()`, `Stop()`, the worker's loop, together with the steps of its `StdThread` |
| `SyscallAsyncThread` | `SyscallAsyncThread.cpp` | queue, permits, the round of the worker | `Queue()` with the start of the thread, the destructor, the worker's loop |
| `WriteBack` | `blockdev_writer.cpp`, and of ext2 `GetWrites()`, `FlushOrClose()` and what `mkdir()` changes | a version of each object in memory, in the inode table's page and on the device; dirty marks; the lists of the file system; where collector and submitter are | mount, unmount, `mkdir()` in its critical sections, each critical section of the two threads, a write that fails |
| `WorkerThreads` | the kernel's worker threads together | which of them a behaviour is about | theirs |
| `FifoLock`, `CountingSemaphore` | what `Spinlock`/`KMutex` and `RawSemaphore` promise | a queue and its head's ownership; a number | arrive, grant, try, release; acquire, release |

Abstractions that run through all of them:

* A task, a thread, a queued function or a slot is its number or a model value.
  Task numbers are not reused and the vector of tasks is in their order, so the
  list is a set of numbers and its order is that of the numbers.
* Counters keep their wrapping, with a smaller modulus (`TicketMod`), and the
  comparisons keep the code's form: `Reached` of `KMutex` is the handler's
  `>=` with its special case, `Served` of `RawSemaphore` the sign of the
  difference.
* Polling loops that change nothing are a guard.
* In `PageFault` a page is a number that is the same in each process, a mapping is
  what it covers, its kind and the pages that have a `PhysMapping`, and the
  address of a `MemMapping` object is a number that is reused as soon as nobody
  refers to the object, as the allocator does. Pages are readable; write faults
  and copy on write are left out.
* In `WriteBack` the contents of an object is the number of its changes. Blocks of
  pages and inodes have no contents of their own, because they point to the page;
  those of bitmaps, group descriptors and the superblock are copies. A change and
  its dirty mark are one step, and so are the allocations that `mkdir()` makes one
  after the other: the marks of bitmaps are taken under the file system's `mtx`,
  which the allocations hold, so nobody sees the one without the other, and the
  steps between them touch nothing else. Mounting, `mkdir()` and unmounting are
  those of one file system. An `mkdir()` may begin in every phase once the file
  system is mounted: a call that has looked it up before `umount` is not stopped.
  Whether the new entry makes its directory longer (`SetFileSize()`) is the
  parameter `Grows`. `CPush` puts all blocks of one `FlushOrClose()` into the list
  in one step, and `Nth` takes inodes in the order of their numbers, where the code
  takes them in the order of its map. Left out are the error returns of `Create()`
  behind the allocation of the inode (a directory that cannot be read), which
  release it again.
* `WorkerThreads` composes four kinds of workers that have no state in common, so
  a behaviour follows one kind; their interleavings with each other would only
  multiply states.
* The observers (`seen`, `between`, `clean`, `expired`, `robbed`, `leaked`, `lost`,
  `promised`) record what happened. No guard reads them but `leaked`, whose blocks
  keep the references they hold. `seen` has the threads whose run may use pages
  that were put aside, and `between` those of them that came between the two halves
  of `munmap()`. `clean` has the threads whose fault nobody interfered with and that
  found the memory and the file they need. `robbed` has the threads whose aborter
  left the list through an uninitialised handle. `lost` has the objects whose last
  write failed, was put into a list that was gone, or was overtaken by the late
  clearing of a dirty mark; while the file system is mounted a later write makes up
  for it. `leaked` has those of blocks that went into a list that was gone, and
  `promised` what users had written when `FlushOrClose()` gave the valid superblock
  away. Properties make exceptions for `between`, for threads that are not `clean`,
  and for `robbed`, `leaked` and `lost`, because in these places the code does what
  it should not (section 4); the hazards in `PROJECT.json` say for each whether a
  property would notice it.
* The uninitialised local `current_task` of `switch_tasks()` and the
  uninitialised member `aborterFuncHandle` are choices over the sets
  `UninitCurrent` and `UninitHandle`.
* Definitions marked "Faulty variant" are not part of any specification. Each is
  a plausible mistake in the definition that follows it (a guard dropped, a step
  left out, an order swapped), and `PROJECT.json` names the property that
  notices it when it takes the place of the real one.

Three definitions bound the models where the code has no guard, because the
situation they exclude needs 2^31 or 2^32 operations inside a short stretch of
code: `NoLap` of `Spinlock` (between the load and the compare-and-exchange of
`try_lock()` with interrupts disabled), `NoLap` of `RawSemaphore` (while one
task passes through `acquire()`), and `MaxLocks` below `TicketMod` in `KMutex`.

## 3. Runs

| Run | Instance | What it shows |
|---|---|---|
| `spinlock` | 2 processors with a task and a handler each, 5 counter values | One owner; the interrupt flag comes back as it was although it was stored in the shared lock; every ticket is served; the lock implements `FifoLock` |
| `sched_core` | 2 processors, 4 tasks (two of them idle), exit, join, sleep, asynchronous work that returns or kills | Each processor has exactly one current task; no two share a stack, not even during the return from the interrupt; no stack is freed while in use; there is always a task to pick; `join()` returns only after the end of the joined task |
| `sched_fair` | 1 processor, 4 tasks, points up to 1 with both biases, tasks that sleep, take resources and are terminated | A task that stays ready is not starved |
| `sched_stale_current` | as `sched_core`, `UninitCurrent` any task | **Violated**: see finding 1 |
| `sched_fault_race` | as `sched_core` with `terminate_blocked()` | **Violated**: see finding 2 |
| `mutex` | 3 tasks, 6 calls of `lock()` | One owner, in ticket order (`FifoLock`); no wakeup is lost; the raised priority is given back; every `lock()` returns |
| `mutex_wrap` | the same with counters two tickets before the overflow | **Violated**: see finding 3 |
| `semaphore` | 2 tasks and the timer handler, 8 counter values, unbounded run | No lost or double wakeup, no handler left behind, every served caller returns, implements `CountingSemaphore` |
| `timed_semaphore` | a latch with 3 callers of `wait()`, 2 callbacks, at most 2 permits in store | No slot is used after its deletion, no release is lost, every `acquire()` ends, and a `wait()` that a callback ended does not say that the time was up |
| `futex` | 3 threads on one word, a signal, `exit_group()`; an uninitialised handle names nobody or any thread | Each wait returns once; no wake or signal is missed; a kill finds all sleepers; but for threads whose aborter an uninitialised handle removed |
| `worker_threads` | a blockthread with 5 functions; a `SyscallAsyncThread` with 4; two free threads; a file system with 2 inodes, one `mkdir()` at any time, which makes its directory longer, and one failing write | Functions run once and in order and none is stranded; `~blockthread()` returns; each start context is deleted once and not too early; what users change gets to the device; the device says "valid" only of a file system that has all that was done until it was closed; an unmount ends |
| `page_fault` | 2 processors, 2 threads of one process and 1 of another with a file mapped at the same 3 pages; 3 accesses or calls (touch, read of two pages, unmap at the bottom, in the middle, at the top, map anew) | A waiting thread is known to exactly one place and gets its answer; a page is asked for once at a time; a page table entry has its mapping; a thread is killed only if its file cannot be read, memory is exhausted or somebody interfered; pages that are cut off a mapping outlive the runs that began before |

Why the bounds are enough. Two processors and two tasks besides the idle ones
give every race between a switch, a wakeup and the reaper that the scheduler's
lock allows; the unbounded parts (number of switches, sleeps, wakeups) are not
bounded. Three tasks on the mutex give an owner, the next owner and one behind
it, which is what late events need; a fourth would only lengthen the queue. Five
and eight counter values are just more than the number of contexts or tasks, so
the counters wrap in every few steps and are met in every relative position. In
`mutex` they do not wrap, on purpose: `mutex_wrap` does that. Three futex
threads are a waiter, a waker and one that exits or waits too. `MaxFuncs` is 5 so that the
queue, the function in progress and those that ran can all be non-empty. In
`page_fault` three calls are a fault, one that joins or follows it, and a change
of the mapping, or a fault of the other process; three pages let a mapping be cut
at either end and in the middle; more calls repeat these on a page that nobody
waits for. In `worker_threads` one `mkdir()` gives every object a change, most of
them two in different steps, so that collector and submitter meet a change before,
between and after theirs, and one failing write can hit any block. With two calls
of `mkdir()` and no failing write the invariants hold too, and with a directory that
does not grow all the properties do; the theorem about `ValidIsClean` is for both.
The passing runs have between 16 and 713 thousand distinct states.

`CHECK_DEADLOCK FALSE` stands where the system may really stop: the calls of
`lock()`, of user programs or of the functions to queue are used up, or all
threads have ended.
The scheduler, the spin lock and the semaphores are checked for deadlock.

Fairness and why the code has it:

* `Spinlock`: a processor goes on executing what it is in, an owner unlocks (the
  critical sections contain no loop that waits for others), handlers return.
* `Scheduler`: `SwitchStep` of each processor, because each has a periodic timer
  whose handler calls `switch_tasks()` (`main.cpp:1271`). Strong fairness of
  `Preempt` says that the timer, which runs by a clock of its own, does not find
  every time a task that is just about to sleep: points age only when a running
  task at the limit is still ready at the switch, and without this assumption
  tasks that always sleep right before the tick would starve the others.
* `PageFault`: the `[pfault]` thread runs and files are read or fail; a thread in
  the kernel goes on; a blocked or terminated thread is switched away from. That a
  ready thread runs is not needed.
* `WriteBack`: both threads wake up from their sleeps, and an `mkdir()` that has
  begun ends. Nobody is assumed to unmount.
* `CallbackLatch`: tasks run and the timer ticks. Callbacks may never come.
* `KMutex`, `RawSemaphore`, `MulSemaphore`, `StdThread`, `BlockThread`,
  `SyscallAsyncThread`: a task
  that is not blocked runs (`NoStarvation`); an owner of a mutex unlocks it; the
  timer ticks. Strong fairness in `RawSemaphore` stands for the scheduler's lock,
  which the timer handler takes again and again but which serves its callers in
  order (`TicketServed`). Nobody is assumed to call `release()` or `unlock()`
  on anything not owned, and in `MulSemaphore` nobody is assumed to call
  `release()` at all. The destructor of a `SyscallAsyncThread` is not claimed to
  end.

Properties of the form `[]<>P` say that `P` is true again and again: `FaultServed`
that no thread waits for ever, `QueuedRuns` and `AsyncRuns` that whatever is queued
is run in its order at some time, `AllWrittenBack` that memory and device agree
again.

The type invariants are part of the invariants that are proved in section 5.

## 4. Findings

1. **`switch_tasks()` reads an uninitialised pointer**
   (`kernel/tasks/tasklist.cpp:118`). The scan compares `current_task` with tasks
   that come before the current one in the list, when it has not been assigned.
   The slot of the stack may still hold what the last call left there, which is
   the task that was current then and may now run on another processor. It then
   enters the pool, and two processors run on one stack. `sched_stale_current`
   finds it; `StackExclusiveHolds` proves that initialising the pointer is
   enough.
2. **`terminate_blocked()` does not wait until its task has stopped**
   (`kernel/exec/process.cpp:2451`). The fault thread may erase the task from
   the list before the processor that took the fault has switched away from it.
   That processor has no current task any more. The other outcomes of a fault go
   through `when_not_running()`. `sched_fault_race` finds it.
3. **The mutex loses a wakeup when its tickets overflow**
   (`kernel/concurrency/mutex.cpp:40`). The special case covers a waiter with a
   large ticket that sees an event with a small one, not the reverse: the event
   for 0xFFFFFFFF removes the handler of a waiter with ticket 0, which then
   sleeps for ever as the owner. `mutex_wrap` finds it; `NoLostWakeupHolds`
   proves that it cannot happen before.

Observed while reading, and not modelled:

* x86_64 `try_lock()` and `try_acquire_ticket()` compare with the ticket before
  the one that is served, and `raw_semaphore::try_acquire()` does not hand out
  the last permit; neither has a caller on that architecture, and `Spinlock` has
  the aarch64 `try_lock()`.
* Two `hw_spinlock`s that are not released in the reverse order of their
  acquisition would restore the interrupt flag too early.
* `usleep` without a reliable clock does not wait when the time is a multiple of
  a millisecond.
* The reaper reads the length of its queue, drops the lock and later clears the
  whole queue; tasks queued in between are never freed. `Scheduler` has this
  behaviour; no property speaks of memory that is lost.
* A task that ends by `set_not_running()` (`scheduler.h:164`) is evicted without
  `TASK_EVENT_EXIT`, so that a task that joins it would not be woken; only user
  threads end this way, and nobody joins those.
* `aborterFuncHandle` of a new thread has no value (`procthread.cpp:71`). If it
  happens to be the number of a live aborter, the first wait of the thread removes
  that aborter, which may be its own, and no signal and no kill finds its thread.
  `Futex` has this, with the thread in `robbed`.
* `HasPendingSignalOrKill()` looks at masked signals too (`process.cpp:3101`).
* The destructor of `SyscallAsyncThread` joins a worker that nobody wakes, and that
  of `blockdev_writer` two threads that do not look at `stop`; none of these
  objects is ever destroyed.
* `Pipe` reads that ask for more than is left when the writer goes are not
  finished, and a direct read returns 0.
* The range allocator loses a range when it frees below the first one of a page
  (`include/vpallocator.h:197`).
* A blockthread whose last reference is dropped by a function that it runs joins
  itself.

Observed in page faults and memory maps. `PageFault` has the first six; its
`KilledOnlyIfDisturbed` says that nothing but the first four, and a file that cannot
be read, kills a thread, and `ReleaseProtected` leaves the next two out.

* A thread that faults at a page that another thread makes present meanwhile is
  killed: neither `sync_resolve_page()` nor `resolve_page()` takes a page that is
  there already for success.
* `p_faults` is searched by address only (`process.cpp:1367`), so that a fault of
  another process joins an entry that is not about its page. It faults again if
  the entry succeeds and is killed if it fails.
* An `munmap()` of another part of the mapping while the file is read makes the
  comparison after it fail, and the faulting thread is killed.
* When there is no memory for an anonymous page the fault goes to the `[pfault]`
  thread, which does not resolve such pages, and the thread is killed
  (`process.cpp:1768`, `2103`).
* The pages of a mapping that `ClearRange()` erases as a whole are freed at once by
  `~MemMapping()` (`process.cpp:750`, `130`), whoever may have them in a page table
  cache.
* The entries of the page table stay present from `ClearRange()` to `DisableRange()`
  (`Munmap.cpp:17`). A thread that gets a processor in between takes a newer
  snapshot than the one that the pages hang on, may use them, and does not keep
  them from being freed.
* `ClearRange()` does not adjust `image_skip_pages` of the upper part of a mapping
  that it cuts, and gives `DeferredReleasePage` a byte address as a page number
  (`process.cpp:165`).
* A callback of `resolve_read()` keeps a reference to a parameter of the call.
* A thread that runs without being switched away from keeps all pages that are
  unmapped meanwhile.

Observed in write back. `WriteBack` has the first four, the first three of them as
exceptions of its properties.

* The collector fills the list of a file system that is being closed without the
  lock (`blockdev_writer.cpp:91`). If the submitter takes the list meanwhile the
  blocks go into memory that has been freed: what they hold is not written, and the
  references they keep may keep the file system open.
* `GetMetaWrites()` clears the dirty mark of an inode after it has copied it, without
  a lock against those who change it (`ext2fs_inode.cpp:523`).
* A block that cannot be written is not tried again, and the file system is marked
  valid at the end (`blockdev_writer.cpp:241`).
* Nothing keeps an `mkdir()` that has looked up the file system from beginning after
  `umount` (`kdirectory_impl.cpp:52`, `kshell_umount.cpp:80`). It changes a file
  system that is being flushed, which then waits for it, or one that was closed
  already: that change is never written. `ValidIsClean` says that the device keeps
  what was promised all the same. Mounting the file system again while such a call
  goes on is not modelled.
* After a short write the offset in the page is not advanced
  (`blockdev_writer.cpp:245`).
* The loop of `filepage_data::setDirty()` compares with the value of the round before
  (`filepage.cpp:99`).
* `CreateDirectory()` counts the new directory in the group of its parent.
* A file system that is mounted again before its `umount` is finished exists twice.

## 5. Proofs

TLAPS checks the proofs in eight modules, one for each family of components. All of
them are for every value of the constants that satisfies the named `ASSUME` of the
component's module; where a theorem has a further hypothesis it is named below.

**`SpinlockProofs`** (`TicketModAssumption`: finitely many processors, fewer
contexts than counter values). `TypeCorrect` and `MutualExclusionHolds`. Mutual
exclusion alone is not inductive: a second owner appears if two callers have the
same ticket, which happens if a counter laps the other. `TicketInv` therefore
says that tickets in use lie between the counters (`InRange`), are distinct
(`Distinct`), that there are exactly as many as the counters are apart
(`Counted`, so that the counters cannot lap because there are too few contexts),
that owners have the ticket being served (`OwnerServed`), and that the value a
`try_lock()` has loaded is not ahead of the counters (`LoadedOld`). Distances are
taken modulo `TicketMod`, and lemmas about `Dist` and `Inc` carry the arithmetic.
`FlagRestoredHolds` rests on `FlagInv`: a context inside the code of the lock runs
with interrupts off, so that its processor executes no other (`InsideRuns`), and the
flag that it saved is on its own stack or, while it owns the lock, parked in the lock
(`SavedFlag`); the second part needs mutual exclusion. `FifoImplemented` is the
refinement of `FifoLock`: every ticket between the counters is held (`Filled`), so
that the line of waiting contexts, which the refinement mapping reads off the
tickets, has no gap and each step changes it as the abstract lock does, or not at all.

**`KMutexProofs`** (`KMutexAssumption`). `TypeCorrect` and `MutualExclusionHolds`
hold wherever the counters start, overflow included; the argument is that of the
spin lock with positions counted from the first ticket. `NoLostWakeupHolds` and
`PriorityReturnedHolds` have the hypothesis `TicketsBelowMark` that no ticket
reaches the range of the overflow case; `mutex_wrap` shows that the first is
false without it. `WaitInv` says who has a handler (`HandlerWaits`), that a
waiter without one is being served (`NoHandlerIsServed`), that events on their
way are not ahead of the counter (`NoticeOld`), who may be blocked
(`BlockedWaits`, `UnblockServed`, `SleeperHandled`), and that the event for a
sleeper whose turn has come is on its way (`SleeperNoticed`). `PriorityInv` says
that a task is raised at most once and not while it has its handler.
`FifoImplemented` is the refinement of `FifoLock`, again by the absence of gaps
(`Filled`) in the line, and without the hypothesis on the overflow case.

**`SchedulerProofs`** (`SchedulerAssumption`). `TypeCorrect` holds as it stands
(with `TicksLeft`, which keeps the countdown of a sleeper positive).
`CurrentFoundHolds`, `StackExclusiveHolds`, `StackAliveHolds` and
`PoolNeverEmptyHolds` have two hypotheses, `CurrentInitialised` and
`NobodyTerminates`, which exclude findings 1 and 2; the two violation runs show
that they are needed. The invariant is `SchedInv`:

* `StackInv`: a task that runs is in the list, at a processor that is on line and
  not in quarantine, and alone there; a processor stands on the stack of a task
  whose `cpu` field names it; that task runs or, until the interrupt returns, is
  in quarantine or out of the list; before `start_multi_cpu()` only the boot
  processor has tasks.
* `DeadInv`: tasks given to the reaper are out of the list and are nobody's
  stack; numbers not handed out belong to untouched tasks.
* `IdleInv`: every processor has an idle task of its own that is never blocked,
  ended or waiting.

`StackExclusive` follows because `cpu` is a function, and quarantine is what keeps
`cpu` of a task whose stack is being left from changing.

`JoinAfterEndHolds` needs none of the two hypotheses. Its invariant `JoinInv` says that
a task in asynchronous work, or with a function pending for it, stays blocked
(`AsyncBlocked`, `PendingBlocked`), so that no late unblocking meets a join; that the
number it joins was handed out (`JoinsCreated`) and cannot come back; and that a task
which joins is unblocked only after the end of the other (`UnblockedAfterEnd`).
Each invariant was model-checked
on the instances of section 3 before it was proved.

**`RawSemaphoreProofs`** (`RawSemaphoreAssumption`: finitely many tasks, an even
counter width, and fewer tasks and stored permits than half of it).
`NoStaleHandlerHolds` follows from `HandlerInv`, which says between which steps a
task may have a handler. `SemaphoreImplemented` is the refinement of
`CountingSemaphore`, for counters that wrap. Its invariant is `PermitInv`: the limit
is never half the range ahead of a ticket that a task waits with (`InReach`, which
makes the sign of the difference the true order), and every ticket that was drawn
and is beyond the limit belongs to a task that waits for it (`UnservedHeld`).
Without the second part the number of permits, which the refinement mapping counts
from the tasks that wait, would not change by one with the limit.

**`CallbackLatchProofs`** (`MulSemaphore` and `CallbackLatch`). `SlotInv` says where
a task is while its slot is queued, armed or allocated (`QueuedAt`, `ArmedAt`,
`LiveAt`), that it is queued once, and that each of the two permits a slot can get,
that of `release()` and that of the timer, is given once (`GivenOnce`).
`SlotsAliveHolds` and `DequeuedIsGrantedHolds` follow. `TimeoutIsTrueHolds` adds
`ClosedIsExpired`: as long as nobody has opened the latch, all permits come from
the timer.

**`FutexProofs`** (`FutexAssumption`). `OneReturnHolds` rests on `TokenInv`: whoever
is going to return from a thread's system call holds the only token for it, which is
the thread's entry in `waiting`, then its place in the `wakeups` of one thread, then
the return itself. `NoMissedWakeHolds` needs that a wake is for at least as many
waiters as there are threads, since a smaller one leaves waiters behind on purpose.
`SignalFindsSleeperHolds` and `KilledSleepersFoundHolds` rest on `SleeperInv`: a
thread that has not got its return is in some list (`Listed`), a thread that waits
can be found through its aborter (`Findable`), and only those who looked before the
signal or the kill still sleep (`SignalFinds`, `KillFinds`), each with the exception
of `robbed` threads. The handle that a new thread never initialises may name any
aborter in these theorems. Their one hypothesis is that there is a thread: without
one, "all threads" are asleep.

**`WorkerThreadsProofs`**. `ContextAliveHolds` and `DeletedOnceHolds` rest on
`ContextInv`: the flags tell where the thread and its object are, and of the two
that let go of the context exactly one has seen that the other was first.
`RunsInOrderHolds`, `NoIdleWaitHolds` and the same two for `SyscallAsyncThread` are
the safety part of `QueuedRuns`, `StopReturns` and `AsyncRuns`: functions run once
and in their order, and a worker does not wait without a permit while there is
something to do. The invariants (`BlockPermits`, `AsyncPermitsInv`) say by how much
permits and queued functions may differ, because a worker looks at its queue once
without a permit.

`ValidIsCleanHolds`, for any number of inodes and any bounds (`WriteBackAssumption`),
follows the way of a block: what the collector holds (`Pending`), the first group of
the list (`First`), and what is left of the group that is being written (`Rest`). It
takes five invariants, each inductive on top of the ones before.

* `QueueInv`: types, where the two threads are while their locals and lists hold
  something, and that copies (bitmaps, group descriptors, the superblock) are in
  first groups only (`CopiesFirst`), so that no later group overtakes them.
* `Referred`: an inode that is in use, dirty or in a queue is in memory. This is
  what `FlushOrClose()` relies on when it takes an empty map of inodes for the end.
* `VersionInv`: the table is never older than the device (`TableOrder`); copies of
  an object are on their way in the order of their versions (`CopyOrder`), since
  otherwise an old copy could be written over a new one; and whatever is not on the
  device is dirty, or queued with its newest version, or lost (`Accounted`).
* `SuperInv`: until the superblock of `OpenForWrite()` is written nothing else is
  (`BootClean`), and the one that says that the file system is valid is made when
  nothing is dirty and stays behind all other blocks (`SuperPlace`). From then on no
  page and no inode is queued (`SealedClean`), because nothing is collected any
  more, whatever a late `mkdir()` marks dirty.
* `PromiseKept`: from then on pages and inodes on the device are what was promised,
  and of bitmaps and group descriptors that is on the device or still on its way,
  with nothing newer behind it.

Steps are sorted by what they do to the queues first (`StepKinds`), so that the
argument about versions has seven cases, and not one for each action.

**`PageFaultProofs`** (`PageFaultAssumption`).

* `ReleaseProtectedHolds`: each run has a snapshot, and what a run that began before
  `ClearRange()` (`Early`) has seen hangs on that one or a newer one (`SeenHangs`).
  This is why `Release()` has to hand what hangs on a snapshot to the one before.
  For a run that began later it is false, since the vector hangs on an older one.
* `FaultHeldHolds` and `TypeCorrect`, from `HeldInv`: all that refer to a thread
  refer to one that waits, they are different places, and each that waits is
  referred to.
* `OneEntryPerPageHolds` and `PresentIsBackedHolds`, each inductive on top of
  `HeldInv`.
* `KilledOnlyIfDisturbedHolds`, from `CleanInv`: the members of an entry are at its
  page (`EntryAtPage`), so an undisturbed thread is alone in an entry of its own
  process, its page has a mapping that waits for the file, and the `[pfault]`
  thread finds that mapping as it left it.

Invariants of the form `\A t \in seen[r] : ...` and lists that are searched need the
lemmas about erasing, appending and splitting of sequences that open these modules.

Model-checked only: everything temporal (`TicketServed`, `LockServed`,
`PermitTaken`, `AcquireReturns`, `NoStarvation`, `QueuedRuns`, `AsyncRuns`,
`StopReturns`, `FaultServed`, `AllWrittenBack`, `CloseCompletes`), since liveness
under fairness is out of the prover's reach. Every invariant of a passing run is
also stated by a theorem.

## 6. Not modelled

* Saving and restoring of registers, FPU state and page tables in a switch, the
  statistics of the scheduler, and the resources tasks carry.
* `raw_semaphore::try_acquire()`, `mutex::try_lock()` and the pthread wrappers.
* Signal numbers, masks and handlers: in `Futex` a signal is pending or not.
  (The code itself has no futex timeouts or bitsets; the argument is ignored.)
* Copy on write, `fork()`, `mprotect()`, physical pages and the kernel heap; `exec`,
  `wait` and the delivery of signals.
* Pipes, file descriptors, the terminal, `select` and timers of user programs.
* Reading of file systems, the layout of ext2 on the disk, the split of a write into
  blocks of the device, and what a crash leaves beyond the state of the device.
* Boot code, drivers, the console and other code that talks to hardware: its
  correctness is in the registers it writes.
* ACPICA, libcxxrt and other third-party code.

## 7. Plan

Done, in this order: `Spinlock` and `FifoLock`; `Scheduler`; `KMutex`;
`RawSemaphore` and `CountingSemaphore`; `MulSemaphore`; `Futex`; `StdThread` and
`BlockThread`; the proofs about the first three; `MemorySnapshot` and `PageFault`;
`SyscallAsyncThread`; `CallbackLatch`; `WriteBack`; `WorkerThreads`.

Then the proofs about the other five families of modules, in the order of section 5.
No proof of an invariant is left.

Models that are left, most important first:

1. Copy on write and `fork()` on top of `PageFault`; waiting for children against
   their exit; delivery of signals and masks.
2. Pipes (readers, writers and end of file), the terminal and `nanosleep`: the
   other places where a system call returns asynchronously.
3. Memory: the range allocator of `vpallocator.h` as an abstract set of free
   addresses that the page lists implement, the physical page map, the heap.
4. The retries of SCSI commands; USB port connection and removal; the reference
   counts of `include/resource`.

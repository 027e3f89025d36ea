------------------------------ MODULE PageFault ------------------------------
(***************************************************************************)
(* Page faults of user threads, and system calls that read user memory.    *)
(*                                                                         *)
(* A fault is first tried on the spot, under the process's lock mtx        *)
(* (sync_resolve_page); a page that must come from a file is left to the   *)
(* [pfault] thread, by an entry of p_faults that later faults on the same  *)
(* page join.  That thread reads the file without mtx, so that it has to   *)
(* look at the mapping again.  Other threads map and unmap meanwhile.      *)
(*                                                                         *)
(* Mappings are anonymous or of a file, and readable; copy on write is     *)
(* left out.  Of the physical pages the model has that a mapping has one   *)
(* (entries), and the vectors of those that are put aside.  pfault_sema is *)
(* a CountingSemaphore (RawSemaphore implements it).                       *)
(***************************************************************************)
EXTENDS MemorySnapshot

CONSTANTS
    NumPages,   \* virtual pages 1 .. NumPages, at the same place in each process
    Mapped,     \* the kind of the mapping that exec() made of them
    NumCpus,    \* processors
    MaxMap,     \* bound on the MemMapping objects of a process
    MaxCalls,   \* bound on the accesses and system calls of the threads
    Ops         \* what each thread may ask for

ASSUME PageFaultAssumption ==
    /\ NumPages \in Nat \ {0} /\ NumCpus \in Nat \ {0}
    /\ MaxMap \in Nat \ {0} /\ MaxCalls \in Nat
    /\ Mapped \in [Proc -> {"anon", "file"}]
    /\ Ops \in [Thread -> SUBSET
          [op : {"touch", "read", "unmap", "anon", "file"}, lo : 1 .. NumPages, hi : 1 .. NumPages]]
    /\ \A t \in Thread : \A r \in Ops[t] : r.lo <= r.hi

Page == 1 .. NumPages
Kind == {"anon", "file"}
PageRange == {lo .. hi : lo, hi \in Page} \ {{}}

VARIABLES
    maps,      \* Process::mappings: what each covers and its PhysMappings
    present,   \* the pages with a present entry in the page table
    st,        \* what each thread does
    page,      \* the page it faulted at or reads, 0 for none
    last,      \* the last page its system call reads
    range,     \* the pages its munmap() is about
    resume,    \* when_not_running() calls that wait for their thread to leave
    faults,    \* p_faults
    pfault,    \* the entry the [pfault] thread has: <<>> or one
    permits,   \* permits of pfault_sema
    pfAt,      \* where the [pfault] thread is
    pfMap,     \* resolve_page(): <<>>, or the mapping it found and its pagenum
    pfOk,      \* its result
    pfCall,    \* the threads whose callback is being run: none or one
    calls,     \* accesses and system calls so far
    clean      \* observer: the threads whose fault nobody interfered with and
               \* that found the memory and the file they need

pageVars == <<maps, present, st, page, last, range, resume, calls>>
faultVars == <<faults, permits>>
pfVars == <<pfault, pfAt, pfMap, pfOk, pfCall>>
vars == <<snapshotVars, pageVars, faultVars, pfVars, clean>>

MapId == 1 .. MaxMap
Mapping == [id : MapId, pages : PageRange, kind : Kind, entries : SUBSET Page]
Entry == [proc : Proc, page : Page, threads : SUBSET Thread, callbacks : SUBSET Thread]

TypeOK ==
    /\ SnapshotTypeOK
    /\ maps \in [Proc -> SUBSET Mapping]
    /\ present \in [Proc -> SUBSET Page]
    /\ st \in [Thread -> {"user", "trap", "fault", "check", "sync", "call", "clear",
                          "wait", "dead"}]
    /\ page \in [Thread -> {0} \cup Page]
    /\ last \in [Thread -> {0} \cup Page]
    /\ range \in [Thread -> {{}} \cup PageRange]
    /\ resume \in SUBSET Thread
    /\ faults \in Seq(Entry)
    /\ pfault \in {<<>>} \cup {<<e>> : e \in Entry}
    /\ permits \in Nat
    /\ pfAt \in {"none", "acquire", "take", "resolve", "load", "relock", "unlist",
                 "report", "check", "sync", "call"}
    /\ pfMap \in {<<>>} \cup (MapId \X Page)
    /\ pfOk \in BOOLEAN
    /\ pfCall \in SUBSET Thread
    /\ calls \in 0 .. MaxCalls
    /\ clean \in SUBSET Thread

\* No thread runs, and exec() has mapped the pages of each process.
Init ==
    /\ SnapshotInit
    /\ maps = [p \in Proc |->
                  {[id |-> 1, pages |-> Page, kind |-> Mapped[p], entries |-> {}]}]
    /\ present = [p \in Proc |-> {}]
    /\ st = [t \in Thread |-> "user"]
    /\ page = [t \in Thread |-> 0]
    /\ last = [t \in Thread |-> 0]
    /\ range = [t \in Thread |-> {}]
    /\ resume = {}
    /\ faults = <<>>
    /\ pfault = <<>>
    /\ permits = 0
    /\ pfAt = "none"
    /\ pfMap = <<>>
    /\ pfOk = FALSE
    /\ pfCall = {}
    /\ calls = 0
    /\ clean = {}

-----------------------------------------------------------------------------
(* Mappings *)

\* The mapping of page g (CheckMapOverlap() keeps mappings apart).
MappingOf(p, g) == {m \in maps[p] : g \in m.pages}

\* MemMapping objects are compared by address: an object that resolve_page()
\* still refers to keeps its address.
FreeIds(p) ==
    {i \in MapId : /\ \A m \in maps[p] : m.id # i
                   /\ pfMap = <<>> \/ pfault[1].proc # p \/ pfMap[1] # i}

\* MemMapping::pagenum
First(m) == CHOOSE g \in m.pages : \A h \in m.pages : g <= h

NewId(p) == CHOOSE i \in FreeIds(p) : \A j \in FreeIds(p) : i <= j

\* The mapping with a PhysMapping for page g, if the page is one of its pages.
WithEntry(m, g) == IF g \in m.pages THEN [m EXCEPT !.entries = @ \cup {g}] ELSE m

\* The page gets its PhysMapping and its page table entry.
MapPage(p, g) ==
    /\ maps' = [maps EXCEPT ![p] = {WithEntry(m, g) : m \in @}]
    /\ present' = [present EXCEPT ![p] = @ \cup {g}]

\* The threads of process p that are at a page of U.
Hit(p, U) == {u \in Thread : ProcOf[u] = p /\ page[u] \in U}

\* What is left of mapping m when the pages U are cleared: all of it, nothing,
\* one object, or two of which the upper one is new.
Remains(m, U, id) ==
    LET below == {g \in m.pages : \A u \in U : g < u}
        above == {g \in m.pages : \A u \in U : g > u}
        Cut(P, i) == [m EXCEPT !.pages = P, !.entries = @ \cap P, !.id = i]
    IN  IF m.pages \cap U = {} THEN {m}
        ELSE IF below = {} /\ above = {} THEN {}
        ELSE IF above = {} THEN {Cut(below, m.id)}
        ELSE IF below = {} THEN {Cut(above, m.id)}
        ELSE {Cut(below, m.id), Cut(above, id)}

\* The physical pages that go into the vector: those of the part that is cut off
\* a mapping.  The pages of a mapping that is cleared whole are freed with it.
PutAside(p, U) ==
    UNION {IF m.pages \subseteq U THEN {} ELSE m.entries \cap U : m \in maps[p]}

\* The thread runs in user mode.
Begin(t) ==
    /\ t \in running /\ st[t] = "user"
    /\ calls < MaxCalls
    /\ calls' = calls + 1

\* Map(): with a file or without.
Map(t, U, k) ==
    LET p == ProcOf[t]
    IN  /\ Begin(t)
        /\ \A m \in maps[p] : m.pages \cap U = {}
        /\ FreeIds(p) # {}
        /\ maps' = [maps EXCEPT ![p] = @ \cup
              {[id |-> NewId(p), pages |-> U, kind |-> k, entries |-> {}]}]
        /\ present' = [present EXCEPT ![p] = @ \ U]
        /\ clean' = clean \ Hit(p, U)
        /\ UNCHANGED <<snapshotVars, st, page, last, range, resume, faultVars, pfVars>>

\* Munmap: ClearRange(), under mtx.  A vector without pages is nobody's business.
ClearRange(t, U) ==
    LET p == ProcOf[t]
    IN  /\ Begin(t)
        /\ FreeIds(p) # {}
        /\ maps' = [maps EXCEPT ![p] = UNION {Remains(m, U, NewId(p)) : m \in @}]
        /\ IF PutAside(p, U) = {} THEN UNCHANGED snapshotVars ELSE Defer(t)
        /\ st' = [st EXCEPT ![t] = "clear"]
        /\ range' = [range EXCEPT ![t] = U]
        /\ clean' = clean \ Hit(p, UNION {m.pages : m \in {x \in maps[p] : x.pages \cap U # {}}})
        /\ UNCHANGED <<present, page, last, resume, faultVars, pfVars>>

\* Then DisableRange(), without it, and the end of the call.
DisableRange(t) ==
    /\ st[t] = "clear"
    /\ present' = [present EXCEPT ![ProcOf[t]] = @ \ range[t]]
    /\ st' = [st EXCEPT ![t] = "user"]
    /\ range' = [range EXCEPT ![t] = {}]
    /\ DropDiscard(t)
    /\ UNCHANGED <<maps, page, last, resume, calls, faultVars, pfVars, clean>>

-----------------------------------------------------------------------------
(* Processors *)

\* A ready thread is given a processor.
Enter(t) ==
    /\ st[t] = "user" /\ Cardinality(running) < NumCpus
    /\ TakeSnapshot(t)
    /\ UNCHANGED <<pageVars, faultVars, pfVars, clean>>

\* It is switched away from.  System calls and page faults run with interrupts
\* off; a thread that was terminated is off its processor at the next switch.
Leave(t) ==
    /\ st[t] \in {"user", "wait", "dead"}
    /\ LeaveSnapshot(t)
    /\ st' = [st EXCEPT ![t] = IF t \in resume THEN "user" ELSE @]
    /\ page' = [page EXCEPT ![t] = IF t \in resume THEN 0 ELSE @]
    /\ last' = [last EXCEPT ![t] = IF t \in resume THEN 0 ELSE @]
    /\ resume' = resume \ {t}
    /\ clean' = IF t \in resume THEN clean \ {t} ELSE clean
    /\ UNCHANGED <<maps, present, range, calls, faultVars, pfVars>>

ReleaseRun(t) == Release(t) /\ UNCHANGED <<pageVars, faultVars, pfVars, clean>>

-----------------------------------------------------------------------------
(* Faults *)

Others(t, g) == {u \in Thread \ {t} : page[u] = g}

\* The processor raises the exception.
Touch(t, g) ==
    /\ Begin(t) /\ g \notin present[ProcOf[t]]
    /\ st' = [st EXCEPT ![t] = "trap"]
    /\ page' = [page EXCEPT ![t] = g]
    /\ clean' = (clean \ Others(t, g)) \cup
                {u \in {t} : Others(t, g) = {} /\ MappingOf(ProcOf[t], g) # {}}
    /\ UNCHANGED <<snapshotVars, maps, present, last, range, resume, faultVars, pfVars>>

\* Faulty variant: anonymous pages are left to the [pfault] thread.
SyncLoadedOnly(p, g) ==
    /\ g \notin present[p]
    /\ \E m \in MappingOf(p, g) : g \in m.entries

\* What sync_resolve_page() can do, if there is memory: a page that is in the page
\* table already, by another processor's fault, is not one of them.
SyncResolves(p, g) ==
    /\ g \notin present[p]
    /\ \E m \in MappingOf(p, g) : m.kind = "anon" \/ g \in m.entries

\* It has to call ppagealloc() first, which fails when memory is exhausted.
MayLackMemory(p, g) ==
    /\ SyncResolves(p, g)
    /\ \E m \in MappingOf(p, g) : m.kind = "anon" /\ g \notin m.entries

\* page_fault(): sync_resolve_page(), or set_blocked("pfault", true).
SyncFault(t) ==
    LET p == ProcOf[t]
    IN  /\ st[t] = "trap"
        /\ \/ /\ SyncResolves(p, page[t])
              /\ MapPage(p, page[t])
              /\ st' = [st EXCEPT ![t] = "user"]
              /\ page' = [page EXCEPT ![t] = 0]
              /\ clean' = clean \ {t}
           \/ /\ ~SyncResolves(p, page[t]) \/ MayLackMemory(p, page[t])
              /\ st' = [st EXCEPT ![t] = "fault"]
              /\ clean' = IF MayLackMemory(p, page[t]) THEN clean \ {t} ELSE clean
              /\ UNCHANGED <<maps, present, page>>
        /\ UNCHANGED <<snapshotVars, last, range, resume, calls, faultVars, pfVars>>

\* p_faults_in_progress has what the [pfault] thread works on, up to the end of
\* resolve_page().
Listed == pfAt \in {"resolve", "load", "relock", "unlist"}

\* Faulty variant: whoever comes last is remembered.
JoinReplacing(e, T, C) == [e EXCEPT !.threads = T, !.callbacks = C]

Join(e, T, C) == [e EXCEPT !.threads = @ \cup T, !.callbacks = @ \cup C]

\* Faulty variant: an entry that is in progress is not looked for.
RecordInQueueOnly(p, g, T, C) ==
    LET queued == {i \in DOMAIN faults : faults[i].page = g}
    IN  /\ IF queued # {}
           THEN /\ \E i \in queued : faults' = [faults EXCEPT ![i] = Join(@, T, C)]
                /\ UNCHANGED permits
           ELSE /\ faults' = Append(faults, [proc |-> p, page |-> g, threads |-> T, callbacks |-> C])
                /\ permits' = permits + 1
        /\ UNCHANGED pfault

\* Faulty variant: the semaphore is released when the queue was empty.
RecordFirstReleases(p, g, T, C) ==
    LET queued == {i \in DOMAIN faults : faults[i].page = g}
    IN  IF queued # {}
        THEN /\ \E i \in queued : faults' = [faults EXCEPT ![i] = Join(@, T, C)]
             /\ UNCHANGED <<permits, pfault>>
        ELSE IF Listed /\ pfault[1].page = g
        THEN /\ pfault' = <<Join(pfault[1], T, C)>>
             /\ UNCHANGED faultVars
        ELSE /\ faults' = Append(faults, [proc |-> p, page |-> g, threads |-> T, callbacks |-> C])
             /\ permits' = IF faults = <<>> THEN permits + 1 ELSE permits
             /\ UNCHANGED pfault

\* Under pfault_lck: threads T and callbacks C join the entry for the page,
\* wherever it is and of whatever process, or make a new one and release
\* the semaphore.
Record(p, g, T, C) ==
    LET queued == {i \in DOMAIN faults : faults[i].page = g}
    IN  IF queued # {}
        THEN /\ \E i \in queued : faults' = [faults EXCEPT ![i] = Join(@, T, C)]
             /\ UNCHANGED <<permits, pfault>>
        ELSE IF Listed /\ pfault[1].page = g
        THEN /\ pfault' = <<Join(pfault[1], T, C)>>
             /\ UNCHANGED faultVars
        ELSE /\ faults' = Append(faults, [proc |-> p, page |-> g, threads |-> T, callbacks |-> C])
             /\ permits' = permits + 1
             /\ UNCHANGED pfault

\* page_fault(): the entry, and the [pfault] thread if it is the first.
QueueFault(t) ==
    /\ st[t] = "fault"
    /\ Record(ProcOf[t], page[t], {t}, {})
    /\ st' = [st EXCEPT ![t] = "wait"]
    /\ pfAt' = IF pfAt = "none" THEN "acquire" ELSE pfAt
    /\ UNCHANGED <<snapshotVars, maps, present, page, last, range, resume, calls,
                   pfMap, pfOk, pfCall, clean>>

-----------------------------------------------------------------------------
(* System calls that read user memory: resolve_read() *)

\* The call begins with pages g to h.
Read(t, g, h) ==
    /\ Begin(t) /\ g <= h
    /\ st' = [st EXCEPT ![t] = "check"]
    /\ page' = [page EXCEPT ![t] = g]
    /\ last' = [last EXCEPT ![t] = h]
    /\ clean' = clean \ Others(t, g)
    /\ UNCHANGED <<snapshotVars, maps, present, range, resume, faultVars, pfVars>>

Readable(p, g) == g \in present[p] /\ MappingOf(p, g) # {}

\* The next page, or func(true) and the return from the system call.
NextPage(t) ==
    LET more == page[t] < last[t]
        next == IF more THEN page[t] + 1 ELSE 0
    IN  /\ page' = [page EXCEPT ![t] = next]
        /\ last' = [last EXCEPT ![t] = IF more THEN @ ELSE 0]
        /\ st' = [st EXCEPT ![t] = IF more THEN "check" ELSE "user"]
        /\ clean' = IF more THEN clean \ Others(t, next) ELSE clean

\* readable(), and if it says no ...
ReadCheck(t) ==
    /\ st[t] = "check"
    /\ IF Readable(ProcOf[t], page[t])
       THEN NextPage(t)
       ELSE /\ st' = [st EXCEPT ![t] = "sync"]
            /\ UNCHANGED <<page, last, clean>>
    /\ UNCHANGED <<snapshotVars, maps, present, range, resume, calls, faultVars, pfVars>>

\* ... sync_resolve_page(), and if that says no too ...
ReadSync(t) ==
    /\ st[t] = "sync"
    /\ \/ /\ SyncResolves(ProcOf[t], page[t])
          /\ MapPage(ProcOf[t], page[t]) /\ NextPage(t)
       \/ /\ ~SyncResolves(ProcOf[t], page[t]) \/ MayLackMemory(ProcOf[t], page[t])
          /\ st' = [st EXCEPT ![t] = "call"]
          /\ UNCHANGED <<maps, present, page, last, clean>>
    /\ UNCHANGED <<snapshotVars, range, resume, calls, faultVars, pfVars>>

\* ... a callback that goes on from here: the system call is asynchronous.
QueueRead(t) ==
    /\ st[t] = "call"
    /\ Record(ProcOf[t], page[t], {}, {t})
    /\ st' = [st EXCEPT ![t] = "wait"]
    /\ pfAt' = IF pfAt = "none" THEN "acquire" ELSE pfAt
    /\ UNCHANGED <<snapshotVars, maps, present, page, last, range, resume, calls,
                   pfMap, pfOk, pfCall, clean>>

-----------------------------------------------------------------------------
(* The [pfault] thread *)

PfAcquire ==
    /\ pfAt = "acquire" /\ permits > 0
    /\ permits' = permits - 1
    /\ pfAt' = "take"
    /\ UNCHANGED <<snapshotVars, pageVars, faults, pfault, pfMap, pfOk, pfCall, clean>>

\* Under pfault_lck: the first entry, if there is one.
PfTake ==
    /\ pfAt = "take"
    /\ IF faults = <<>>
       THEN pfAt' = "acquire" /\ UNCHANGED <<faults, pfault>>
       ELSE /\ pfault' = <<Head(faults)>>
            /\ faults' = Tail(faults)
            /\ pfAt' = "resolve"
    /\ UNCHANGED <<snapshotVars, pageVars, permits, pfMap, pfOk, pfCall, clean>>

\* resolve_page(), first part under mtx: a page of a file that was not loaded
\* yet is its business; there may be no mapping, somebody else was faster, or
\* there was no memory ("Should have been resolved synchronously").
PfResolve ==
    LET p == pfault[1].proc
        g == pfault[1].page
        todo == {m \in MappingOf(p, g) : m.kind # "anon" /\ g \notin m.entries /\ g \notin present[p]}
    IN  /\ pfAt = "resolve"
        /\ \/ \E m \in todo : pfMap' = <<m.id, First(m)>> /\ pfAt' = "load" /\ UNCHANGED pfOk
           \/ todo = {} /\ pfOk' = FALSE /\ pfAt' = "unlist" /\ UNCHANGED pfMap
        /\ UNCHANGED <<snapshotVars, pageVars, faultVars, pfault, pfCall, clean>>

\* Without mtx: GetPage() of the file, which may fail, as may the page that its
\* last, incomplete page is copied to.
PfLoad ==
    /\ pfAt = "load"
    /\ \/ pfAt' = "relock" /\ UNCHANGED <<pfMap, pfOk, clean>>
       \/ /\ pfAt' = "unlist" /\ pfOk' = FALSE /\ pfMap' = <<>>
          /\ clean' = clean \ pfault[1].threads
    /\ UNCHANGED <<snapshotVars, pageVars, faultVars, pfault, pfCall>>

\* Faulty variant: the mapping that was found before is used.
PfRelockUnchecked ==
    LET p == pfault[1].proc
        g == pfault[1].page
    IN  /\ pfAt = "relock"
        /\ MapPage(p, g)
        /\ pfOk' = TRUE
        /\ pfAt' = "unlist" /\ pfMap' = <<>>
        /\ UNCHANGED <<snapshotVars, st, page, last, range, resume, calls, faultVars,
                       pfault, pfCall, clean>>

\* Under mtx again: the page must still belong to the same mapping and be at
\* the same place of the file, which a cut at the low end of the mapping moves.
PfRelock ==
    LET p == pfault[1].proc
        g == pfault[1].page
        same == \E m \in MappingOf(p, g) : pfMap = <<m.id, First(m)>>
    IN  /\ pfAt = "relock"
        /\ IF same THEN MapPage(p, g) ELSE UNCHANGED <<maps, present>>
        /\ pfOk' = same
        /\ pfAt' = "unlist" /\ pfMap' = <<>>
        /\ UNCHANGED <<snapshotVars, st, page, last, range, resume, calls, faultVars,
                       pfault, pfCall, clean>>

\* Under pfault_lck: the entry leaves p_faults_in_progress.
PfUnlist ==
    /\ pfAt = "unlist"
    /\ pfAt' = "report"
    /\ UNCHANGED <<snapshotVars, pageVars, faultVars, pfault, pfMap, pfOk, pfCall, clean>>

\* when_not_running(): at once, or when the thread leaves its processor.
WhenNotRunning(t) ==
    IF t \in running
    THEN resume' = resume \cup {t} /\ UNCHANGED <<st, page, last, clean>>
    ELSE /\ st' = [st EXCEPT ![t] = "user"]
         /\ page' = [page EXCEPT ![t] = 0]
         /\ last' = [last EXCEPT ![t] = 0]
         /\ clean' = clean \ {t}
         /\ UNCHANGED resume

\* resolved_read_page(): first the threads, which go on or are terminated.
PfThread(t) ==
    /\ pfAt = "report" /\ t \in pfault[1].threads
    /\ pfault' = <<[pfault[1] EXCEPT !.threads = @ \ {t}]>>
    /\ IF pfOk
       THEN WhenNotRunning(t)
       ELSE /\ st' = [st EXCEPT ![t] = "dead"]
            /\ page' = [page EXCEPT ![t] = 0]
            /\ UNCHANGED <<last, resume, clean>>
    /\ UNCHANGED <<snapshotVars, maps, present, range, calls, faultVars, pfAt, pfMap, pfOk, pfCall>>

\* Then the callbacks: the system call fails, is complete, or goes on with its
\* next page, on the [pfault] thread.
PfCallback(t) ==
    /\ pfAt = "report" /\ pfault[1].threads = {} /\ t \in pfault[1].callbacks
    /\ pfault' = <<[pfault[1] EXCEPT !.callbacks = @ \ {t}]>>
    /\ IF pfOk /\ page[t] < last[t]
       THEN /\ page' = [page EXCEPT ![t] = @ + 1]
            /\ clean' = clean \ Others(t, page[t] + 1)
            /\ pfCall' = {t} /\ pfAt' = "check"
            /\ UNCHANGED <<st, last, resume>>
       ELSE WhenNotRunning(t) /\ UNCHANGED <<pfCall, pfAt>>
    /\ UNCHANGED <<snapshotVars, maps, present, range, calls, faultVars, pfMap, pfOk>>

\* The next page of the system call, or its end.
PfNextPage(t) ==
    IF page[t] < last[t]
    THEN /\ page' = [page EXCEPT ![t] = @ + 1]
         /\ clean' = clean \ Others(t, page[t] + 1)
         /\ pfAt' = "check"
         /\ UNCHANGED <<st, last, resume, pfCall>>
    ELSE WhenNotRunning(t) /\ pfAt' = "report" /\ pfCall' = {}

\* resolve_read() again, for the system call of t.
PfRead(t) ==
    /\ t \in pfCall
    /\ \/ /\ pfAt = "check" /\ Readable(ProcOf[t], page[t])
          /\ PfNextPage(t)
          /\ UNCHANGED <<maps, present, faultVars, pfault>>
       \/ /\ pfAt = "check" /\ ~Readable(ProcOf[t], page[t])
          /\ pfAt' = "sync"
          /\ UNCHANGED <<maps, present, st, page, last, resume, faultVars, pfault, pfCall, clean>>
       \/ /\ pfAt = "sync" /\ SyncResolves(ProcOf[t], page[t])
          /\ MapPage(ProcOf[t], page[t])
          /\ PfNextPage(t)
          /\ UNCHANGED <<faultVars, pfault>>
       \/ /\ pfAt = "sync"
          /\ ~SyncResolves(ProcOf[t], page[t]) \/ MayLackMemory(ProcOf[t], page[t])
          /\ pfAt' = "call"
          /\ UNCHANGED <<maps, present, st, page, last, resume, faultVars, pfault, pfCall, clean>>
       \/ /\ pfAt = "call"
          /\ Record(ProcOf[t], page[t], {}, {t})
          /\ pfAt' = "report" /\ pfCall' = {}
          /\ UNCHANGED <<maps, present, st, page, last, resume, clean>>
    /\ UNCHANGED <<snapshotVars, range, calls, pfMap, pfOk>>

PfDone ==
    /\ pfAt = "report" /\ pfault[1].threads = {} /\ pfault[1].callbacks = {}
    /\ pfault' = <<>>
    /\ pfAt' = "acquire" /\ pfOk' = FALSE
    /\ UNCHANGED <<snapshotVars, pageVars, faultVars, pfMap, pfCall, clean>>

-----------------------------------------------------------------------------

\* What a thread does by itself: an access to a page, read(), munmap(), mmap()
\* without a file and with one.
User(t) ==
    \E r \in Ops[t] :
        \/ r.op = "touch" /\ Touch(t, r.lo)
        \/ r.op = "read" /\ Read(t, r.lo, r.hi)
        \/ r.op = "unmap" /\ ClearRange(t, r.lo .. r.hi)
        \/ r.op \in Kind /\ Map(t, r.lo .. r.hi, r.op)

\* What it does in the kernel, until it returns or waits.
Kernel(t) ==
    \/ DisableRange(t) \/ SyncFault(t) \/ QueueFault(t)
    \/ ReadCheck(t) \/ ReadSync(t) \/ QueueRead(t)

Pf ==
    \/ PfAcquire \/ PfTake \/ PfResolve \/ PfLoad \/ PfRelock \/ PfUnlist \/ PfDone
    \/ \E t \in Thread : PfThread(t) \/ PfCallback(t) \/ PfRead(t)

Next ==
    \/ Pf
    \/ \E t \in Thread : Enter(t) \/ Leave(t) \/ ReleaseRun(t) \/ User(t) \/ Kernel(t)

Spec == Init /\ [][Next]_vars

\* The [pfault] thread runs and files are read; a call into the kernel goes on;
\* a thread that is blocked, or gone, is switched away from.
FairSpec ==
    /\ Spec
    /\ WF_vars(Pf)
    /\ \A t \in Thread :
        WF_vars(Kernel(t) \/ ReleaseRun(t) \/ (st[t] \in {"wait", "dead"} /\ Leave(t)))

-----------------------------------------------------------------------------
(* Properties *)

\* A thread that waits for a page is known to exactly one of p_faults, the
\* entry in work, the callback that is run and the scheduler's when_not_running
\* calls: nobody forgets it and nobody answers it twice.
FaultHeld ==
    \A t \in Thread : st[t] = "wait" =>
        Cardinality({i \in DOMAIN faults : t \in faults[i].threads \cup faults[i].callbacks})
        + Cardinality({i \in DOMAIN pfault : t \in pfault[i].threads \cup pfault[i].callbacks})
        + Cardinality(pfCall \cap {t}) + Cardinality(resume \cap {t}) = 1

\* No page is asked for twice at a time: neither twice in p_faults nor there
\* while it is in p_faults_in_progress.
OneEntryPerPage ==
    /\ \A i, j \in DOMAIN faults : faults[i].page = faults[j].page => i = j
    /\ Listed => \A i \in DOMAIN faults : faults[i].page # pfault[1].page

\* A present page belongs to a mapping that has the physical page, except
\* between the two halves of munmap(): the file that is read without the lock
\* does not end up in a page table after its mapping has gone.
PresentIsBacked ==
    \A p \in Proc : \A g \in present[p] :
        \/ \E m \in MappingOf(p, g) : g \in m.entries
        \/ \E t \in Thread : st[t] = "clear" /\ ProcOf[t] = p /\ g \in range[t]

\* A thread is terminated for a page of a mapping only if the file cannot be
\* read, memory is exhausted or somebody interfered: another thread, of any
\* process, that was at the same page number at the time, or a change of the
\* mapping.
KilledOnlyIfDisturbed == \A t \in Thread : st[t] = "dead" => t \notin clean

\* Every fault and every read is answered.
FaultServed == \A t \in Thread : []<>(st[t] # "wait")
=============================================================================

--------------------------- MODULE MemorySnapshot ---------------------------
(***************************************************************************)
(* MemoryMapSnapshotBarrier and the deferred release of physical pages.    *)
(*                                                                         *)
(* A processor may go on using the pages that another thread of the        *)
(* process unmaps until it reloads its page tables, which it does in       *)
(* task_enter().  Each run of a thread on a processor therefore holds a    *)
(* snapshot, and the pages that ClearRange() cuts off a mapping hang on    *)
(* the newest snapshot.  A snapshot that goes hands what hangs on it to    *)
(* the next older one; only the oldest lets it go.                         *)
(*                                                                         *)
(* Two things are outside this protection.  A mapping that is cleared      *)
(* whole takes its pages with it: ~MemMapping() frees them at once, and    *)
(* they are in no vector.  And the entries of the page table stay present  *)
(* until DisableRange(), so that a run may begin meanwhile, with a newer   *)
(* snapshot, and use the pages that were put aside.                        *)
(***************************************************************************)
EXTENDS Naturals, Sequences, FiniteSets

CONSTANTS
    Thread, Proc,
    ProcOf,        \* the process of each thread
    MaxRelease     \* bound on the vectors of pages alive at a time

ASSUME SnapshotAssumption ==
    ProcOf \in [Thread -> Proc] /\ MaxRelease \in Nat

ReleaseId == 1 .. MaxRelease   \* vectors of DeferredReleasePage

VARIABLES
    running,     \* the threads on a processor, task_enter() done
    leaving,     \* those switched away from, whose Release() comes when the
                 \* scheduler's lock is dropped
    snapshots,   \* memoryMapSnapshots of each process, oldest first: the
                 \* thread whose run took it, and deferredRelease
    discard,     \* the vector that a call of munmap() still holds, 0 for none
    seen,        \* observer: the threads whose run may use the pages of the
                 \* vector: they were on a processor when it was made, or came
                 \* before DisableRange()
    between      \* observer: the latter ones

snapshotVars == <<running, leaving, snapshots, discard, seen, between>>

Snapshot == [thread : Thread, deferred : SUBSET ReleaseId]

SnapshotTypeOK ==
    /\ running \in SUBSET Thread
    /\ leaving \in SUBSET Thread
    /\ snapshots \in [Proc -> Seq(Snapshot)]
    /\ discard \in [Thread -> {0} \cup ReleaseId]
    /\ seen \in [ReleaseId -> SUBSET Thread]
    /\ between \in [ReleaseId -> SUBSET Thread]

SnapshotInit ==
    /\ running = {}
    /\ leaving = {}
    /\ snapshots = [p \in Proc |-> <<>>]
    /\ discard = [t \in Thread |-> 0]
    /\ seen = [r \in ReleaseId |-> {}]
    /\ between = [r \in ReleaseId |-> {}]

\* A vector is alive while a snapshot or a call refers to it.
Alive(r) ==
    \/ \E t \in Thread : discard[t] = r
    \/ \E p \in Proc : \E i \in DOMAIN snapshots[p] : r \in snapshots[p][i].deferred

\* The vectors of process p whose pages are still in the page table: their call
\* of munmap() has not been through DisableRange().
Reachable(p) == {discard[u] : u \in {x \in Thread : ProcOf[x] = p}} \ {0}

-----------------------------------------------------------------------------

\* The constructor of the barrier, called by task_enter().  The barrier of
\* the thread's last run is gone: the task is in stack quarantine until the
\* processor it ran on has been through switch_tasks() again.
TakeSnapshot(t) ==
    /\ t \notin running \cup leaving
    /\ running' = running \cup {t}
    /\ snapshots' = [snapshots EXCEPT ![ProcOf[t]] =
                        Append(@, [thread |-> t, deferred |-> {}])]
    /\ seen' = [r \in ReleaseId |-> seen[r] \cup {u \in {t} : r \in Reachable(ProcOf[t])}]
    /\ between' = [r \in ReleaseId |-> between[r] \cup {u \in {t} : r \in Reachable(ProcOf[t])}]
    /\ UNCHANGED <<leaving, discard>>

\* task_leave(): Release() is left to when_out_of_lock().
LeaveSnapshot(t) ==
    /\ t \in running
    /\ running' = running \ {t}
    /\ leaving' = leaving \cup {t}
    /\ seen' = [r \in ReleaseId |-> seen[r] \ {t}]
    /\ between' = [r \in ReleaseId |-> between[r] \ {t}]
    /\ UNCHANGED <<snapshots, discard>>

\* The list without its element i, whose vectors go to the element before it
\* or, from the oldest one, nowhere.
Without(s, i) ==
    [j \in 1 .. (Len(s) - 1) |->
        IF j < i - 1 THEN s[j]
        ELSE IF j = i - 1 THEN [s[j] EXCEPT !.deferred = @ \cup s[i].deferred]
        ELSE s[j + 1]]

\* Faulty variant: the vectors go with the snapshot they hang on.
ReleaseOwn(t) ==
    /\ t \in leaving
    /\ leaving' = leaving \ {t}
    /\ snapshots' = [snapshots EXCEPT ![ProcOf[t]] = SelectSeq(@, LAMBDA s : s.thread # t)]
    /\ UNCHANGED <<running, discard, seen, between>>

\* Release(), under the process's lock.
Release(t) ==
    /\ t \in leaving
    /\ leaving' = leaving \ {t}
    /\ \E i \in DOMAIN snapshots[ProcOf[t]] :
        /\ snapshots[ProcOf[t]][i].thread = t
        /\ snapshots' = [snapshots EXCEPT ![ProcOf[t]] = Without(@, i)]
    /\ UNCHANGED <<running, discard, seen, between>>

\* Vector r hangs on the newest snapshot, if there is one.
Hang(s, r) == IF s = <<>> THEN s ELSE [s EXCEPT ![Len(s)].deferred = @ \cup {r}]

\* The end of ClearRange(): the new vector hangs on the newest snapshot, and the
\* caller has it too.
Defer(t) ==
    LET p == ProcOf[t]
        free == {r \in ReleaseId : ~Alive(r)}
        r == CHOOSE x \in free : \A y \in free : x <= y
    IN  /\ free # {}
        /\ snapshots' = [snapshots EXCEPT ![p] = Hang(@, r)]
        /\ discard' = [discard EXCEPT ![t] = r]
        /\ seen' = [seen EXCEPT ![r] = {u \in running : ProcOf[u] = p}]
        /\ between' = [between EXCEPT ![r] = {}]
        /\ UNCHANGED <<running, leaving>>

\* The caller is done: discard = {}.
DropDiscard(t) ==
    /\ discard' = [discard EXCEPT ![t] = 0]
    /\ UNCHANGED <<running, leaving, snapshots, seen, between>>

-----------------------------------------------------------------------------
(* Properties *)

\* What ClearRange() has put aside is not let go of while a thread is on a
\* processor that was there before, and may have the pages in its cache of the
\* page tables, in whatever order the runs end.  Only a run that began between
\* the two halves of munmap() may still use them after that.
ReleaseProtected == \A r \in ReleaseId : Alive(r) \/ seen[r] \subseteq between[r]
=============================================================================

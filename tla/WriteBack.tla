----------------------------- MODULE WriteBack -----------------------------
(***************************************************************************)
(* Writing an ext2 file system back to its block device.                   *)
(*                                                                         *)
(* Users change pages and inodes in memory and mark them dirty.  The       *)
(* collector thread of blockdev_writer asks the file system for what is    *)
(* dirty, in groups of which an earlier one must be written first, and the *)
(* submitter thread writes the groups.  Blocks of pages and inodes are     *)
(* pointers: what is written is what the page holds then; bitmaps, group   *)
(* descriptors and the superblock are copied when they are collected.      *)
(* After CloseForWrite() the collector calls FlushOrClose() until the file *)
(* system has nothing left and no inode is in use; the last thing it gives *)
(* away is a superblock that says that the file system is valid.           *)
(*                                                                         *)
(* A crash leaves what disk holds, so an invariant about disk says what a  *)
(* crash at any moment leaves.  The only change that is modelled is        *)
(* mkdir(), which is the only one that user programs can make, one at a    *)
(* time; the inodes share one page of the inode table, and each has one    *)
(* page of data.                                                           *)
(***************************************************************************)
EXTENDS Naturals, Sequences, FiniteSets

CONSTANTS
    NumInodes,   \* inodes 1 .. NumInodes; 1 is the root directory
    MaxMkdir,    \* bound on the calls of mkdir()
    MaxErrors,   \* bound on the writes that fail
    Grows        \* whether a new entry makes its directory longer: TRUE, FALSE or both

ASSUME WriteBackAssumption ==
    /\ NumInodes \in Nat \ {0} /\ MaxMkdir \in Nat /\ MaxErrors \in Nat
    /\ Grows \subseteq BOOLEAN

Inode == 1 .. NumInodes
Data(i) == <<"data", i>>
Meta(i) == <<"meta", i>>
Bitmap == <<"bitmap", 0>>
Groups == <<"groups", 0>>
Super == <<"super", 0>>
Content == {Data(i) : i \in Inode} \cup {Meta(i) : i \in Inode} \cup {Bitmap, Groups}

EXT2_VALID_FS == 1
EXT2_ERROR_FS == 2

VARIABLES
    phase,        \* which list of the blockdev_writer the file system is in
    loaded,       \* ext2fs::inodes
    inodeCount,   \* inodes 1 .. inodeCount are allocated
    mk,           \* the mkdir() in progress: where it is, parent and child
    mem,          \* what users have written: a version of each object
    table,        \* the inodes as they are in the page of the inode table
    dirty,        \* objects with their dirty mark
    dirtyBlocks,  \* blockdev_writeable_filesystem::dirtyBlocks
    flushNow,     \* and its flushNow
    cAt,          \* the collector: where it is,
    collected,    \*   its local blocks,
    late,         \*   inodes it has copied but not marked clean yet,
    result,       \*   what FlushOrClose() returned,
    completed,
    cList,        \*   the list that its reference is to: "none", "ok", "gone"
    sending,      \* the submitter: its local flushNow
    sent,         \*   and how much of it has been written
    disk,         \* what the device holds
    errors,       \* writes that failed
    leaked,       \* observer: blocks put into a list that was gone
    lost,         \* observer: objects whose last write was lost
    promised      \* observer: what users had written when FlushOrClose() gave
                  \* away the valid superblock

userVars == <<loaded, inodeCount, mk, mem>>
listVars == <<dirtyBlocks, flushNow>>
cVars == <<cAt, collected, late, result, completed, cList>>
sVars == <<sending, sent>>
diskVars == <<disk, errors>>
observers == <<leaked, lost, promised>>
wbVars ==
    <<phase, userVars, table, dirty, listVars, cVars, sVars, diskVars, observers>>

DirtyBlock(o, v) == [obj |-> o, ver |-> v]
Blocks == [obj : Content \cup {Super}, ver : Nat]

WbTypeOK ==
    /\ phase \in {"none", "open", "flush", "finish", "done"}
    /\ loaded \in SUBSET Inode /\ inodeCount \in Inode
    /\ mk \in [at : {"idle", "entry", "links"}, dir : Inode, new : Inode]
    /\ mem \in [Content -> Nat] /\ table \in [Inode -> Nat] /\ dirty \in SUBSET Content
    /\ dirtyBlocks \in Seq(Seq(Blocks)) /\ flushNow \in Seq(Blocks)
    /\ cAt \in {"start", "get", "append", "ref", "push", "finish"}
    /\ collected \in Seq(Seq(Blocks)) /\ late \in SUBSET Inode
    /\ result \in Seq(Blocks) /\ completed \in BOOLEAN /\ cList \in {"none", "ok", "gone"}
    /\ sending \in Seq(Blocks) /\ sent \in 0 .. Len(sending)
    /\ disk \in [Content \cup {Super} -> Nat] /\ errors \in 0 .. MaxErrors
    /\ leaked \in SUBSET (Content \cup {Super}) /\ lost \in SUBSET (Content \cup {Super})
    /\ promised \in [Content -> Nat]

\* A file system that is valid, before it is mounted.
WbInit ==
    /\ phase = "none"
    /\ loaded = {} /\ inodeCount = 1
    /\ mk = [at |-> "idle", dir |-> 1, new |-> 1]
    /\ mem = [o \in Content |-> 0] /\ table = [i \in Inode |-> 0] /\ dirty = {}
    /\ dirtyBlocks = <<>> /\ flushNow = <<>>
    /\ cAt = "start" /\ collected = <<>> /\ late = {}
    /\ result = <<>> /\ completed = FALSE /\ cList = "none"
    /\ sending = <<>> /\ sent = 0
    /\ disk = [o \in Content \cup {Super} |-> IF o = Super THEN EXT2_VALID_FS ELSE 0]
    /\ errors = 0 /\ leaked = {} /\ lost = {} /\ promised = mem

-----------------------------------------------------------------------------
(* Who refers to pages and inodes: shared_ptr::use_count() *)

Objs(s) == {s[k].obj : k \in DOMAIN s}

\* The objects of all the blocks that are around.
InBlocks ==
    (UNION {Objs(dirtyBlocks[k]) : k \in DOMAIN dirtyBlocks})
    \cup (UNION {Objs(collected[k]) : k \in DOMAIN collected})
    \cup Objs(flushNow) \cup Objs(result) \cup Objs(sending) \cup leaked

\* An inode is referred to by its users and, through fsref, by its blocks.
InUse(i) ==
    \/ Meta(i) \in InBlocks
    \/ mk.at # "idle" /\ i \in {mk.dir, mk.new}

-----------------------------------------------------------------------------
(* Mounting, unmounting, and the users *)

\* OpenForWrite(): the superblock goes first.
OpenForWrite ==
    /\ phase = "none"
    /\ phase' = "open"
    /\ flushNow' = <<DirtyBlock(Super, EXT2_ERROR_FS)>>
    /\ UNCHANGED <<userVars, table, dirty, dirtyBlocks, cVars, sVars, diskVars, observers>>

CloseForWrite ==
    /\ phase = "open"
    /\ phase' = "flush"
    /\ UNCHANGED <<userVars, table, dirty, listVars, cVars, sVars, diskVars, observers>>

Change(S) == mem' = [o \in Content |-> IF o \in S THEN mem[o] + 1 ELSE mem[o]]
MarkDirty(S) == dirty' = dirty \cup S
At(label) == mk' = [mk EXCEPT !.at = label]

\* AllocateInode(), AllocateBlocks(), ReleaseInode() and ReleaseBlock(), each
\* under the file system's mtx: the bitmaps and the free counts of the group.
Allocation == {Bitmap, Groups}

\* The inodes S are in memory.
GetInode(S) == loaded' = loaded \cup S

\* The page and the inode of a directory that is made.
InitializeDirectory(n) == {Data(n), Meta(n)}

\* CreateDirectory() up to the new inode: its block and the inode are allocated
\* and the inode is filled in; or, if there is none left or the name exists (not
\* ok), what was allocated is released.  Nobody asks whether the file system is
\* still mounted: a call that looked it up before umount may begin at any time.
Mkdir(d, ok) ==
    LET n == inodeCount + 1
        got == {n} \cap Inode
        changed == Allocation \cup {Meta(i) : i \in IF ok THEN got ELSE {}}
    IN  /\ mk.at = "idle" /\ mem[Bitmap] < MaxMkdir
        /\ phase # "none" /\ d <= inodeCount
        /\ ok => got # {}
        /\ GetInode({d} \cup got)
        /\ inodeCount' = IF ok THEN n ELSE inodeCount
        /\ mk' = IF ok THEN [at |-> "entry", dir |-> d, new |-> n] ELSE mk
        /\ Change(changed) /\ MarkDirty(changed)
        /\ UNCHANGED <<phase, table, listVars, cVars, sVars, diskVars, observers>>

\* The rest is done without the mtx: the entry in the parent directory, which may
\* make it longer (SetFileSize()), the page and the inode of the new one ...
MkdirEntry ==
    /\ mk.at = "entry" /\ At("links")
    /\ \E grows \in Grows :
        LET changed == {Data(mk.dir)} \cup InitializeDirectory(mk.new)
                         \cup (IF grows THEN {Meta(mk.dir)} ELSE {})
        IN  Change(changed) /\ MarkDirty(changed)
    /\ UNCHANGED <<phase, loaded, inodeCount, table, listVars, cVars, sVars, diskVars, observers>>

\* ... the parent's link count and the number of directories.
MkdirLinks ==
    LET changed == {Meta(mk.dir), Groups}
    IN  /\ mk.at = "links" /\ At("idle")
        /\ Change(changed) /\ MarkDirty(changed)
        /\ UNCHANGED <<phase, loaded, inodeCount, table, listVars, cVars, sVars, diskVars,
                       observers>>

-----------------------------------------------------------------------------
(* The collector thread *)

\* The inode at place k of the inodes S.
Nth(S, k) == CHOOSE i \in S : Cardinality({j \in S : j <= i}) = k

\* A list of the data of some inodes and of others themselves, inode by inode.
BlocksOf(datas, metas) ==
    LET Block(i) == DirtyBlock(IF i \in datas THEN Data(i) ELSE Meta(i), 0)
    IN  [k \in 1 .. Cardinality(datas \cup metas) |-> Block(Nth(datas \cup metas, k))]

\* GetBitmapWrites()
DirtyBitmap == IF Bitmap \in dirty THEN <<DirtyBlock(Bitmap, mem[Bitmap])>> ELSE <<>>

\* GetMetaWrites(): the inodes of S are written into the page of the table and
\* are then marked clean, which is not one step for somebody who changes them.
CopyInodes(S) ==
    /\ table' = [i \in Inode |-> IF i \in S THEN mem[Meta(i)] ELSE table[i]]
    /\ late' = S

\* Under the lock: the collector sees that the file system is mounted, which may
\* be over when it asks for the writes.
CStart ==
    /\ cAt = "start" /\ phase = "open"
    /\ cAt' = "get"
    /\ UNCHANGED <<phase, userVars, table, dirty, listVars, collected, late, result,
                   completed, cList, sVars, diskVars, observers>>

\* ext2fs::GetWrites(), under its mtx: data before inodes, bitmaps with the
\* first group.  An inode without dirty data is in the first group too.
CGetWrites ==
    LET d == {i \in loaded : Data(i) \in dirty}
        m == {i \in loaded : Meta(i) \in dirty}
        first == BlocksOf(d, m \ d) \o DirtyBitmap
        second == BlocksOf({}, d \cap m)
    IN  /\ cAt = "get"
        /\ collected' = IF second # <<>> THEN <<first, second>>
                    ELSE IF first # <<>> THEN <<first>> ELSE <<>>
        /\ CopyInodes(m)
        /\ dirty' = dirty \ ({Data(i) : i \in d} \cup {Bitmap})
        /\ cAt' = "append"
        /\ UNCHANGED <<phase, userVars, listVars, result, completed, cList,
                       sVars, diskVars, observers>>

\* The rest of GetMetaWrites(): a change since, and its mark, are overwritten.
CClean ==
    /\ late # {}
    /\ dirty' = dirty \ {Meta(i) : i \in late}
    /\ lost' = lost \cup {Meta(i) : i \in
          {x \in late : table[x] # mem[Meta(x)] }}
    /\ late' = {}
    /\ UNCHANGED <<phase, userVars, table, listVars, cAt, collected, result,
                   completed, cList, sVars, diskVars, leaked, promised>>

\* Faulty variant: only groups that are there already are added to.
MergedExisting(a, b) ==
    IF a = <<>> THEN b
    ELSE [k \in DOMAIN a |-> IF k <= Len(b) THEN a[k] \o b[k] ELSE a[k]]

\* Group k of the one behind group k of the other.
Merged(a, b) ==
    LET len == IF Len(a) > Len(b) THEN Len(a) ELSE Len(b)
        Group(s, k) == IF k <= Len(s) THEN s[k] ELSE <<>>
    IN  [k \in 1 .. len |-> Group(a, k) \o Group(b, k)]

\* Under the lock.
CAppend ==
    /\ cAt = "append" /\ late = {}
    /\ dirtyBlocks' = Merged(dirtyBlocks, collected)
    /\ collected' = <<>>
    /\ cAt' = "start"
    /\ UNCHANGED <<phase, userVars, table, dirty, flushNow, late, result,
                   completed, cList, sVars, diskVars, observers>>

\* Faulty variant: inodes that are in use are overlooked.
NothingDirty(kept) == TRUE

\* The file system may be closed when none of its inodes is left in memory.
AllDropped(kept) == kept = {}

\* FlushData(): nobody refers to the inode or its data, which is written.
FlushData(i) == ~InUse(i) /\ Data(i) \notin dirty \cup InBlocks

\* GetDataWritesForFlush(): what of the inodes that are flushed, and of the data
\* of the others, is dirty, and the inodes that are not dropped.
DataWritesForFlush ==
    LET flushed == {i \in loaded : FlushData(i)}
        m == {i \in flushed : Meta(i) \in dirty}
    IN  [metas |-> m, datas |-> {i \in loaded \ flushed : Data(i) \in dirty},
         kept |-> loaded \ (flushed \ m)]

\* ext2fs::FlushOrClose(), under its mtx.
CFlushOrClose ==
    LET m1 == DataWritesForFlush.metas
        d1 == DataWritesForFlush.datas
        kept == DataWritesForFlush.kept
        m2 == {i \in kept : Meta(i) \in dirty}
        Return(blocks, metas, clean, done) ==
            /\ result' = blocks
            /\ CopyInodes(metas)
            /\ dirty' = dirty \ clean
            /\ completed' = done
            /\ promised' = IF done THEN mem ELSE promised
    IN  /\ cAt = "start" /\ phase = "flush"
        /\ loaded' = kept
        /\ cAt' = "ref"
        /\ CASE m1 \cup d1 # {} ->
                  Return(BlocksOf(d1, m1), m1, {Data(i) : i \in d1}, FALSE)
             [] m1 \cup d1 = {} /\ m2 # {} ->
                  Return(BlocksOf({}, m2), m2, {}, FALSE)
             [] m1 \cup d1 \cup m2 = {} /\ Bitmap \in dirty ->
                  Return(DirtyBitmap, {}, {Bitmap}, FALSE)
             [] m1 \cup d1 \cup m2 = {} /\ Bitmap \notin dirty /\ Groups \in dirty ->
                  Return(<<DirtyBlock(Groups, mem[Groups])>>, {}, {Groups}, FALSE)
             [] OTHER ->
                  IF AllDropped(kept)
                  THEN Return(<<DirtyBlock(Super, EXT2_VALID_FS)>>, {}, {}, TRUE)
                  ELSE Return(<<>>, {}, {}, FALSE)
        /\ UNCHANGED <<phase, inodeCount, mk, mem, listVars, collected, cList,
                       sVars, diskVars, leaked, lost>>

\* Without the lock: a reference to the first group, or to a new one ...
CRef ==
    /\ cAt = "ref" /\ late = {}
    /\ dirtyBlocks' = IF dirtyBlocks = <<>> THEN <<(<<>>)>> ELSE dirtyBlocks
    /\ cList' = "ok" /\ cAt' = "push"
    /\ UNCHANGED <<phase, userVars, table, dirty, flushNow, collected, late, result,
                   completed, sVars, diskVars, observers>>

\* ... and the blocks are put there, wherever that is by now.
CPush ==
    /\ cAt = "push"
    /\ IF cList = "ok"
       THEN /\ dirtyBlocks' = [dirtyBlocks EXCEPT ![1] = @ \o result]
            /\ UNCHANGED <<leaked, lost>>
       ELSE /\ leaked' = leaked \cup Objs(result)
            /\ lost' = lost \cup Objs(result)
            /\ UNCHANGED dirtyBlocks
    /\ result' = <<>> /\ cList' = "none"
    /\ cAt' = IF completed THEN "finish" ELSE "start"
    /\ UNCHANGED <<phase, userVars, table, dirty, flushNow, collected, late,
                   completed, sVars, diskVars, promised>>

\* Under the lock: the file system moves on.
CFinish ==
    /\ cAt = "finish"
    /\ phase' = "finish"
    /\ completed' = FALSE /\ cAt' = "start"
    /\ UNCHANGED <<userVars, table, dirty, listVars, collected, late, result, cList,
                   sVars, diskVars, observers>>

-----------------------------------------------------------------------------
(* The submitter thread *)

\* Faulty variant: a group is not taken off the list.
STakeKeeps ==
    /\ sending = <<>> /\ phase \in {"open", "flush", "finish"}
    /\ dirtyBlocks # <<>> \/ flushNow # <<>>
    /\ sending' = IF flushNow # <<>> THEN flushNow ELSE Head(dirtyBlocks)
    /\ flushNow' = <<>>
    /\ UNCHANGED <<phase, userVars, table, dirty, dirtyBlocks, cVars, sent, diskVars,
                   observers>>

\* Under the lock: what is to be written now, or the first group that is not
\* empty.  Groups are taken off the list from the front.
STake ==
    LET full == {k \in DOMAIN dirtyBlocks : dirtyBlocks[k] # <<>>}
        n == IF full = {} THEN Len(dirtyBlocks) ELSE CHOOSE k \in full : \A j \in full : k <= j
        pop == flushNow = <<>>
    IN  /\ sending = <<>> /\ phase \in {"open", "flush", "finish"}
        /\ dirtyBlocks # <<>> \/ flushNow # <<>>
        /\ sending' = IF pop THEN dirtyBlocks[n] ELSE flushNow
        /\ dirtyBlocks' = IF pop THEN SubSeq(dirtyBlocks, n + 1, Len(dirtyBlocks)) ELSE dirtyBlocks
        /\ cList' = IF cList = "ok" /\ dirtyBlocks' = <<>> THEN "gone" ELSE cList
        /\ flushNow' = <<>>
        /\ UNCHANGED <<phase, userVars, table, dirty, cAt, collected, late, result,
                       completed, sent, diskVars, observers>>

\* A file system that was closed and has nothing left to write is done.
SFinish ==
    /\ sending = <<>> /\ phase = "finish" /\ dirtyBlocks = <<>> /\ flushNow = <<>>
    /\ phase' = "done"
    /\ UNCHANGED <<userVars, table, dirty, listVars, cVars, sVars, diskVars, observers>>

\* What a block holds when it is written.  The block of an inode is the page of
\* the table, up to it.
Written(b) ==
    [o \in Content \cup {Super} |->
        IF o = b.obj
        THEN CASE o[1] = "data" -> mem[o] [] o[1] = "meta" -> table[o[2]] [] OTHER -> b.ver
        ELSE IF b.obj[1] = "meta" /\ o[1] = "meta" /\ o[2] < b.obj[2] THEN table[o[2]]
        ELSE disk[o]]

\* WriteBlock(); a block that fails is not tried again.  A later write makes up
\* for it as long as the file system is mounted and keeps the page in memory.
SWrite ==
    /\ sending # <<>>
    /\ IF sent + 1 = Len(sending)
       THEN sending' = <<>> /\ sent' = 0
       ELSE sent' = sent + 1 /\ UNCHANGED sending
    /\ \/ /\ disk' = Written(sending[sent + 1])
          /\ lost' = {o \in lost : IF o = Super THEN sending[sent + 1].obj # Super
                                               ELSE phase # "open" \/ disk'[o] # mem[o]}
          /\ UNCHANGED errors
       \/ /\ errors < MaxErrors
          /\ errors' = errors + 1
          /\ lost' = lost \cup {sending[sent + 1].obj}
          /\ UNCHANGED disk
    /\ UNCHANGED <<phase, userVars, table, dirty, listVars, cVars, leaked, promised>>

-----------------------------------------------------------------------------

Collector ==
    \/ CStart \/ CGetWrites \/ CClean \/ CAppend
    \/ CFlushOrClose \/ CRef \/ CPush \/ CFinish

Submitter == STake \/ SFinish \/ SWrite

WbNext ==
    \/ OpenForWrite \/ CloseForWrite
    \/ \E d \in Inode, ok \in BOOLEAN : Mkdir(d, ok)
    \/ MkdirEntry \/ MkdirLinks
    \/ Collector \/ Submitter

\* The two threads wake up from their sleep, and a mkdir() that has begun ends.
WbFairness ==
    /\ WF_wbVars(Collector)
    /\ WF_wbVars(Submitter)
    /\ WF_wbVars(MkdirEntry \/ MkdirLinks)

-----------------------------------------------------------------------------
(* Properties *)

\* Whenever the device says that the file system is valid, it is what it was
\* when it was mounted, or holds all that users had done when FlushOrClose() gave
\* that superblock away, except what a write that failed or was lost was about.
\* So a crash at any moment leaves a file system that is complete up to then or
\* says that it may not be: FlushOrClose() says so only when nothing is dirty,
\* queued or on its way, and nothing that users do later gets to the device.
ValidIsClean ==
    disk[Super] = EXT2_VALID_FS /\ Super \notin lost =>
        \/ \A o \in Content : disk[o] = 0
        \/ \A o \in Content \ lost : disk[o] = promised[o]

\* While the file system is mounted, what users do gets to the device once they
\* stop, whatever collector and submitter are doing when it is done.  (The
\* counts of the group descriptors have to wait until it is unmounted.)
AllWrittenBack ==
    []<>(phase \in {"none", "open"} =>
            \A o \in Content \ {Groups} : disk[o] = mem[o] \/ o \in lost)

\* A file system that is unmounted gets to the end: the references that its
\* blocks hold do not keep it open for ever, unless they were put into a list
\* that was gone.
CloseCompletes == []<>(phase \in {"flush", "finish"} => leaked # {})
=============================================================================

------------------------------ MODULE WriteVersion ------------------------------
(***************************************************************************)
(* src/longtail.c: WriteAssets, the part that WriteVersion and             *)
(* ChangeVersion share.  Assets whose chunks are all in one block are      *)
(* written by that block's job (WriteAssetsFromBlock), after its reader.   *)
(* The others - spread over blocks, empty, or directories - are written in *)
(* parts of as many blocks as there are threads: a part's write job waits  *)
(* for its readers and for a sync job; when it starts, it creates the jobs *)
(* of the next part in the same context, so that blocks are read ahead,    *)
(* then writes its own chunks, and readies the next part's sync job.       *)
(*                                                                         *)
(* Jobs: <<"read", b>> and <<"write", b>> of a block job; and of the part  *)
(* of asset a from chunk o on, <<"partread", a, o, b>>, <<"partsync", a,   *)
(* o>> and <<"partwrite", a, o>>.  A job that touches nothing another      *)
(* thread uses meanwhile is one step; a part's write job is not.           *)
(*                                                                         *)
(* The memory CreateJobs takes does not fail (most callers assert that),   *)
(* and a file that is open closes without error.                           *)
(***************************************************************************)
EXTENDS WriteContent

CONSTANTS Ancestors,  \* the directories above each path
          MaxReaders  \* blocks a part reads: workers + 1, and 64 at the most

ASSUME ReadersType == MaxReaders = IF Workers + 1 < 64 THEN Workers + 1 ELSE 64

VARIABLES
    reader,      \* BlockReaderJob of each reader: m_Err, m_StoredBlock
    blockErr,    \* m_Err of each WriteAssetsFromBlockJob
    ctx,         \* WritePartialAssetFromBlocksJob of each asset
    part,        \* where the write jobs of parts that run are
    disk,        \* the target folder
    todo,        \* block jobs and assets WriteAssets has not made jobs of yet
    overwritten  \* history: assets whose error was overwritten with success

uploadVars == <<store, put>>
contextVars == <<reader, blockErr, ctx, part>>

Nothing == [kind |-> "none", chunks |-> <<>>, perm |-> "default"]

--------------------------------------------------------------------------------
(* The write list *)

AssetChunks(a) == call.version[a].chunks
BlockFor(h) == BlockOfChunk(call.content, h)
BlockIndex(b) == SelectInSeq(call.content.blocks, LAMBDA c : c = b)

IsBlockJob(a) ==
    AssetChunks(a) # <<>> /\
    \A h \in ToSet(AssetChunks(a)) : BlockFor(h) = BlockFor(Head(AssetChunks(a)))

(* The blocks that have a job, and the assets each job writes. *)
BlockJobAssets(b) == {a \in call.assets : IsBlockJob(a) /\ BlockFor(Head(AssetChunks(a))) = b}
BlockJobs == {BlockFor(Head(AssetChunks(a))) : a \in {a \in call.assets : IsBlockJob(a)}}
AssetJobs == {a \in call.assets : ~IsBlockJob(a)}

(* The blocks of an asset's chunks from o + 1 to e. *)
BlocksBetween(a, o, e) == {BlockFor(AssetChunks(a)[i]) : i \in (o + 1)..e}

(* A part ends with the asset or as soon as it has all its readers. *)
PartEnd(a, o) ==
    CHOOSE e \in o..Len(AssetChunks(a)) :
        /\ e = Len(AssetChunks(a)) \/ Cardinality(BlocksBetween(a, o, e)) = MaxReaders
        /\ \A d \in o..(e - 1) : Cardinality(BlocksBetween(a, o, d)) < MaxReaders
PartBlocks(a, o) == BlocksBetween(a, o, PartEnd(a, o))
IsLastPart(a, o) == PartEnd(a, o) = Len(AssetChunks(a))

(* Mutant of AssetJobCount: the sync jobs are not counted. *)
AssetJobCount_NoSync(a) ==
    LET len == Len(AssetChunks(a))
        count[o \in 0..len] == IF o = len THEN 0
                               ELSE Cardinality(PartBlocks(a, o)) + 1 + count[PartEnd(a, o)]
    IN  IF len = 0 THEN 1 ELSE count[0]

(* The jobs WriteAssets reserves for an asset: for each part its readers,  *)
(* a write job and a sync job; an asset without chunks has a write job.    *)
AssetJobCount(a) ==
    LET len == Len(AssetChunks(a))
        count[o \in 0..len] == IF o = len THEN 0
                               ELSE Cardinality(PartBlocks(a, o)) + 2 + count[PartEnd(a, o)]
    IN  IF len = 0 THEN 1 ELSE count[0]

ReservedJobs ==
    2 * Cardinality({a \in call.assets : IsBlockJob(a)}) + MapThenSumSet(AssetJobCount, AssetJobs)

ReadJob(b) == <<"read", b>>
WriteJob(b) == <<"write", b>>
PartReads(a, o) == {<<"partread", a, o, b>> : b \in PartBlocks(a, o)}
PartSync(a, o) == <<"partsync", a, o>>
PartWrite(a, o) == <<"partwrite", a, o>>

--------------------------------------------------------------------------------
(* Creating jobs *)

NewReaders(js) == Extend(reader, js, [err |-> "initial", block |-> "none"])

(* Mutant of CreatePartialAssetWriteJob: the write job waits for a sync    *)
(* job that is not created.                                                *)
CreatePartialAssetWriteJob_NoSync(g, a, o) ==
    IF PartReads(a, o) = {} THEN CreateJobs(g, {PartWrite(a, o)})
    ELSE LET created == CreateJobs(g, PartReads(a, o) \cup {PartWrite(a, o)})
         IN  ReadyJobs(AddDependencies(created, PartWrite(a, o),
                           PartReads(a, o) \cup {PartSync(a, o)}), PartReads(a, o))

(* Mutant of CreatePartialAssetWriteJob: the write job waits for its       *)
(* readers only.                                                           *)
CreatePartialAssetWriteJob_NoWait(g, a, o) ==
    IF PartReads(a, o) = {} THEN CreateJobs(g, {PartWrite(a, o)})
    ELSE LET created == CreateJobs(g, PartReads(a, o) \cup {PartWrite(a, o), PartSync(a, o)})
         IN  ReadyJobs(AddDependencies(created, PartWrite(a, o), PartReads(a, o)),
                       PartReads(a, o))

(* CreatePartialAssetWriteJob: the write job, the readers and the sync job *)
(* of a part; the readers are ready at once.  Without a chunk there is     *)
(* only the write job.                                                     *)
CreatePartialAssetWriteJob(g, a, o) ==
    IF PartReads(a, o) = {} THEN CreateJobs(g, {PartWrite(a, o)})
    ELSE LET created == CreateJobs(g, PartReads(a, o) \cup {PartWrite(a, o), PartSync(a, o)})
             waits == AddDependencies(created, PartWrite(a, o),
                                      PartReads(a, o) \cup {PartSync(a, o)})
         IN  ReadyJobs(waits, PartReads(a, o))

(* The job CreatePartialAssetWriteJob returns for its caller to ready. *)
PartGate(a, o) == IF PartReads(a, o) = {} THEN PartWrite(a, o) ELSE PartSync(a, o)

(* Every chunk is in the content index and nothing failed before the group *)
(* is there: it is reserved for all jobs, and none is created.             *)
StartWriteAssets ==
    /\ \A a \in call.assets : \A h \in ToSet(AssetChunks(a)) : HasChunk(call.content, h)
    /\ group' = NewGroup(ReservedJobs)
    /\ todo' = [blocks |-> BlockJobs, assets |-> AssetJobs]
    /\ reader' = <<>> /\ blockErr' = <<>> /\ ctx' = <<>> /\ part' = <<>>
    /\ NoFail
    /\ UNCHANGED <<call, uploadVars, disk, overwritten>>

(* BuildAssetWriteList returns ENOENT. *)
ChunkIsMissing ==
    \E a \in call.assets : \E h \in ToSet(AssetChunks(a)) : ~HasChunk(call.content, h)

(* The loop over block jobs (lines 5487 to 5549), which are in the order   *)
(* of their blocks; see BlockJobCompare.                                   *)
CreateBlockJob ==
    /\ \E b \in todo.blocks :
         LET created == AddDependencies(CreateJobs(group, {ReadJob(b), WriteJob(b)}),
                                        WriteJob(b), {ReadJob(b)})
         IN  /\ \A c \in todo.blocks : BlockIndex(b) <= BlockIndex(c)
             /\ group' = ReadyJobs(created, {ReadJob(b)})
             /\ reader' = NewReaders({ReadJob(b)})
             /\ blockErr' = Extend(blockErr, {b}, "initial")
             /\ todo' = [todo EXCEPT !.blocks = @ \ {b}]
    /\ NoFail
    /\ UNCHANGED <<call, uploadVars, ctx, part, disk, overwritten>>

(* The loop over the other assets (lines 5590 to 5619), in whatever order  *)
(* the caller lists them.                                                  *)
CreateAssetJob ==
    /\ todo.blocks = {}
    /\ \E a \in todo.assets :
         /\ group' = ReadyJobs(CreatePartialAssetWriteJob(group, a, 0), {PartGate(a, 0)})
         /\ reader' = NewReaders(PartReads(a, 0))
         /\ ctx' = Extend(ctx, {a}, [offset |-> 0, file |-> FALSE, err |-> "initial"])
         /\ todo' = [todo EXCEPT !.assets = @ \ {a}]
    /\ NoFail
    /\ UNCHANGED <<call, uploadVars, blockErr, part, disk, overwritten>>

JobsAreCreated == todo.blocks = {} /\ todo.assets = {}

StartWaiting ==
    /\ JobsAreCreated /\ ~group.waiting
    /\ group' = WaitForJobs(group)
    /\ NoFail
    /\ UNCHANGED <<call, uploadVars, contextVars, disk, todo, overwritten>>

CreateJobsNext == CreateBlockJob \/ CreateAssetJob \/ StartWaiting

--------------------------------------------------------------------------------
(* BlockReader and BlockReaderJobOnComplete *)

ReaderStarts(j) == j \in DOMAIN reader /\ reader[j].block = "none" /\ CanStart(group, j)

ReaderSays(j, err, block) == reader' = [reader EXCEPT ![j] = [err |-> err, block |-> block]]

readerRest == <<call, uploadVars, blockErr, ctx, part, disk, todo, overwritten>>

ReaderCancelled(j) ==
    /\ ReaderStarts(j) /\ group.cancelled
    /\ ReaderSays(j, "cancelled", "none")
    /\ group' = EndJob(group, j)
    /\ NoFail
    /\ UNCHANGED readerRest

(* The store refuses.  Content indexes name blocks it has, see UploadKept. *)
ReaderRefused(j) ==
    /\ ReaderStarts(j) /\ ~group.cancelled
    /\ ReaderSays(j, "failed", "none")
    /\ group' = EndJob(group, j)
    /\ Fail
    /\ UNCHANGED readerRest

ReaderAccepted(j) ==
    /\ ReaderStarts(j) /\ ~group.cancelled
    /\ ReaderSays(j, "initial", "asked")
    /\ group' = BlockJob(group, j)
    /\ NoFail
    /\ UNCHANGED readerRest

(* The store's OnComplete: a block that is the job's to dispose, or an     *)
(* error; the job is resumed.                                              *)
ReaderComplete(j) ==
    /\ j \in DOMAIN reader /\ reader[j].block = "asked"
    /\ group' = ReadyJobs(group, {j})
    /\ \/ ReaderSays(j, "ok", "lent") /\ NoFail
       \/ ReaderSays(j, "failed", "empty") /\ Fail
    /\ UNCHANGED readerRest

ReaderResumed(j) ==
    /\ j \in DOMAIN reader /\ reader[j].block \in {"lent", "empty"} /\ CanStart(group, j)
    /\ group' = EndJob(group, j)
    /\ NoFail
    /\ UNCHANGED <<readerRest, reader>>

ReaderNext ==
    \E j \in DOMAIN reader : \/ ReaderCancelled(j) \/ ReaderRefused(j) \/ ReaderAccepted(j)
                             \/ ReaderComplete(j) \/ ReaderResumed(j)

(* Dispose of the blocks some readers were given. *)
Dispose(js) ==
    reader' = [j \in DOMAIN reader |->
                 IF j \notin js THEN reader[j]
                 ELSE [reader[j] EXCEPT !.block = CASE @ = "lent" -> "disposed"
                                                    [] @ = "disposed" -> "twice"
                                                    [] OTHER -> @]]

(* The blocks some readers were given are lost. *)
Leak(js) ==
    reader' = [j \in DOMAIN reader |->
                 IF j \in js /\ reader[j].block = "lent"
                 THEN [reader[j] EXCEPT !.block = "leaked"] ELSE reader[j]]

--------------------------------------------------------------------------------
(* The target folder *)

(* A scan goes into the folders it lists, and these have no data.          *)
IsTree(v) ==
    \A p \in DOMAIN v : /\ Ancestors[p] \subseteq DirPaths \cap DOMAIN v
                        /\ p \in DirPaths => v[p].chunks = <<>>

(* EnsureParentPathExists, of each of some assets. *)
WithParents(d, as) ==
    [p \in Paths |-> IF d[p].kind = "none" /\ \E a \in as : p \in Ancestors[a]
                     THEN [Nothing EXCEPT !.kind = "dir"] ELSE d[p]]

(* A file that is there is made writable. *)
MadeWritable(d, a) ==
    IF d[a].kind = "file" /\ d[a].perm = "ro" THEN [d EXCEPT ![a].perm = "rw"] ELSE d

(* OpenWriteFile empties the file, or makes it with n holes in it. *)
Opened(d, a, n) ==
    [MadeWritable(WithParents(d, {a}), a) EXCEPT
        ![a].kind = "file", ![a].chunks = [i \in 1..n |-> 0]]

(* The data a block has for a chunk: where its block index lists the hash. *)
DataOf(h) == store[BlockFor(h)][SelectInSeq(BlockFor(h), LAMBDA c : c = h)]

(* The chunks of the asset after o are written up to e. *)
FileData(old, a, o, e) ==
    [i \in 1..(IF Len(old) > e THEN Len(old) ELSE e) |->
        IF i > o /\ i <= e THEN DataOf(AssetChunks(a)[i]) ELSE old[i]]
Written(d, a, o, e) == [d EXCEPT ![a].chunks = FileData(@, a, o, e)]

Permitted(d, a) ==
    IF call.retain THEN [d EXCEPT ![a].perm = call.version[a].perm] ELSE d

(* What is left of an asset that cannot be opened: nothing is changed, or  *)
(* its parents are there, or it is writable as well.                       *)
NotOpened(d, a) == {d, WithParents(d, {a}), MadeWritable(WithParents(d, {a}), a)}

(* What a block job leaves of an asset at which it fails. *)
HalfWritten(d, a) ==
    LET len == Len(AssetChunks(a)) IN
    NotOpened(d, a) \cup
    {Written(Opened(d, a, 0), a, 0, n) : n \in 0..(IF call.retain THEN len ELSE len - 1)}

(* Some assets of a block job written, each in full. *)
WithAssets(as) ==
    [p \in Paths |->
        IF p \in as THEN Permitted(Written(Opened(disk, p, 0), p, 0, Len(AssetChunks(p))), p)[p]
                    ELSE WithParents(disk, as)[p]]

--------------------------------------------------------------------------------
(* WriteAssetsFromBlock: once its reader is done, one step; its assets and *)
(* its block are its own.                                                  *)

blockRest == <<call, uploadVars, ctx, part, todo, overwritten>>

BlockJobEnds(b, err) ==
    /\ blockErr' = [blockErr EXCEPT ![b] = err]
    /\ group' = EndJob(group, WriteJob(b))

BlockJobStarts(b) == b \in DOMAIN blockErr /\ CanStart(group, WriteJob(b))

BlockReadFailed(b) ==
    /\ BlockJobStarts(b)
    /\ reader[ReadJob(b)].err # "ok"
    /\ BlockJobEnds(b, reader[ReadJob(b)].err)
    /\ NoFail
    /\ UNCHANGED <<blockRest, reader, disk>>

BlockCancelled(b) ==
    /\ BlockJobStarts(b)
    /\ reader[ReadJob(b)].err = "ok" /\ group.cancelled
    /\ Dispose({ReadJob(b)})
    /\ BlockJobEnds(b, "cancelled")
    /\ NoFail
    /\ UNCHANGED <<blockRest, disk>>

BlockJobGoesOn(b) ==
    /\ BlockJobStarts(b)
    /\ reader[ReadJob(b)].err = "ok" /\ ~group.cancelled
    /\ Dispose({ReadJob(b)})

BlockWritten(b) ==
    /\ BlockJobGoesOn(b)
    /\ BlockJobEnds(b, "ok")
    /\ disk' = WithAssets(BlockJobAssets(b))
    /\ NoFail
    /\ UNCHANGED blockRest

(* No memory for the lookup, or a step of an asset fails.  The assets of a *)
(* block are in the order the sort of block jobs leaves them in.           *)
BlockNotWritten(b) ==
    /\ BlockJobGoesOn(b)
    /\ BlockJobEnds(b, "failed")
    /\ \E a \in BlockJobAssets(b) : \E before \in SUBSET (BlockJobAssets(b) \ {a}) :
         disk' \in HalfWritten(WithAssets(before), a)
    /\ Fail
    /\ UNCHANGED blockRest

BlockJobNext ==
    \E b \in DOMAIN blockErr : \/ BlockReadFailed(b) \/ BlockCancelled(b)
                               \/ BlockWritten(b) \/ BlockNotWritten(b)

--------------------------------------------------------------------------------
(* WritePartialAssetFromBlocks *)

partRest == <<call, uploadVars, blockErr, todo>>

(* The write job of the part at o is called; o is what its context says. *)
PartStarts(a, o) ==
    /\ a \in DOMAIN ctx /\ o = ctx[a].offset
    /\ PartWrite(a, o) \in Jobs(group) /\ CanStart(group, PartWrite(a, o))

ReadErrors(a, o) == {reader[j].err : j \in PartReads(a, o)} \ {"ok"}
EarlierPartFailed(a, o) == ~ctx[a].file /\ o > 0
PartGoesOn(a, o) ==
    PartStarts(a, o) /\ ~EarlierPartFailed(a, o) /\ ~group.cancelled /\ ReadErrors(a, o) = {}

(* The part is over with an error, before it wrote anything. *)
PartGivesUp(a, o, err) ==
    /\ Dispose(PartReads(a, o))
    /\ ctx' = [ctx EXCEPT ![a].file = FALSE, ![a].err = err]
    /\ group' = EndJob(group, PartWrite(a, o))
    /\ UNCHANGED <<partRest, part, overwritten>>

(* Mutant of PartAfterFailure: the blocks are not disposed of. *)
PartAfterFailure_Leaks(a, o) ==
    /\ PartStarts(a, o) /\ EarlierPartFailed(a, o)
    /\ group' = EndJob(group, PartWrite(a, o))
    /\ NoFail
    /\ UNCHANGED <<partRest, contextVars, disk, overwritten>>

(* The context keeps the error of the part before.  This is what a build   *)
(* without LONGTAIL_ASSERTS does also when m_Err is 0.                     *)
PartAfterFailure(a, o) ==
    /\ PartStarts(a, o) /\ EarlierPartFailed(a, o)
    /\ PartGivesUp(a, o, ctx[a].err)
    /\ NoFail /\ UNCHANGED disk

(* LONGTAIL_FATAL_ASSERT(job->m_Err != 0, return 0): the part before       *)
(* failed, but the one before that was late to set m_Err to 0.  A build    *)
(* with LONGTAIL_ASSERTS returns before it disposes of the blocks.         *)
PartAsserts(a, o) ==
    /\ PartStarts(a, o) /\ EarlierPartFailed(a, o) /\ ctx[a].err = "ok"
    /\ Leak(PartReads(a, o))
    /\ group' = EndJob(group, PartWrite(a, o))
    /\ NoFail
    /\ UNCHANGED <<partRest, ctx, part, disk, overwritten>>

PartCancelled(a, o) ==
    /\ PartStarts(a, o) /\ ~EarlierPartFailed(a, o) /\ group.cancelled
    /\ PartGivesUp(a, o, "cancelled")
    /\ NoFail /\ UNCHANGED disk

PartReadsFailed(a, o) ==
    /\ PartStarts(a, o) /\ ~EarlierPartFailed(a, o) /\ ~group.cancelled
    /\ ReadErrors(a, o) # {}
    /\ PartGivesUp(a, o, "failed")
    /\ NoFail /\ UNCHANGED disk

(* EnsureParentPathExists, the permissions or OpenWriteFile fail; for a    *)
(* directory also SafeCreateDir.                                           *)
PartNotOpened(a, o) ==
    /\ PartGoesOn(a, o) /\ o = 0
    /\ PartGivesUp(a, o, "failed")
    /\ disk' \in IF a \in DirPaths THEN {disk, WithParents(disk, {a})} ELSE NotOpened(disk, a)
    /\ Fail

(* A directory is created if it is not there.  Its permissions are not set. *)
PartDirectory(a, o) ==
    /\ PartGoesOn(a, o) /\ o = 0 /\ a \in DirPaths
    /\ PartGivesUp(a, o, "ok")
    /\ disk' = [WithParents(disk, {a}) EXCEPT
                  ![a] = IF @.kind = "none" THEN [Nothing EXCEPT !.kind = "dir"] ELSE @]
    /\ NoFail

(* The first part opens the file; a part that is not the last one reuses   *)
(* its context for the next part and creates that part's jobs.             *)
PartOpens(a, o) ==
    /\ PartGoesOn(a, o) /\ a \notin DirPaths
    /\ disk' = IF o = 0 THEN Opened(disk, a, Len(AssetChunks(a))) ELSE disk
    /\ part' = Extend(part, {PartWrite(a, o)}, "writing")
    /\ LET running == [group EXCEPT !.job[PartWrite(a, o)] = "running"]
           next == PartEnd(a, o)
       IN  IF IsLastPart(a, o)
           THEN /\ group' = running
                /\ ctx' = [ctx EXCEPT ![a].file = TRUE]
                /\ UNCHANGED reader
           ELSE /\ group' = CreatePartialAssetWriteJob(running, a, next)
                /\ ctx' = [ctx EXCEPT ![a] = [offset |-> next, file |-> TRUE, err |-> "initial"]]
                /\ reader' = NewReaders(PartReads(a, next))
    /\ NoFail
    /\ UNCHANGED <<partRest, overwritten>>

InPart(a, o, where) ==
    PartWrite(a, o) \in DOMAIN part /\ part[PartWrite(a, o)] = where

PartEnds(g, a, o) ==
    /\ group' = EndJob(g, PartWrite(a, o))
    /\ part' = Restrict(part, DOMAIN part \ {PartWrite(a, o)})

(* The group after the next part's sync job, if there is one, is readied. *)
NextReleased(a, o) ==
    IF IsLastPart(a, o) THEN group ELSE ReadyJobs(group, {PartSync(a, PartEnd(a, o))})

(* All chunks of a part that is not the last are written, its blocks are   *)
(* disposed and the next part is released; m_Err is still to be set.       *)
PartWritten(a, o) ==
    /\ InPart(a, o, "writing") /\ ~IsLastPart(a, o)
    /\ disk' = Written(disk, a, o, PartEnd(a, o))
    /\ Dispose(PartReads(a, o))
    /\ group' = NextReleased(a, o)
    /\ part' = [part EXCEPT ![PartWrite(a, o)] = "ok"]
    /\ NoFail
    /\ UNCHANGED <<partRest, ctx, overwritten>>

(* The last part closes the file and sets its permissions. *)
LastPartWritten(a, o) ==
    /\ InPart(a, o, "writing") /\ IsLastPart(a, o)
    /\ Dispose(PartReads(a, o))
    /\ \/ /\ disk' = Permitted(Written(disk, a, o, PartEnd(a, o)), a)
          /\ ctx' = [ctx EXCEPT ![a].file = FALSE, ![a].err = "ok"]
          /\ NoFail
       \/ /\ call.retain
          /\ disk' = Written(disk, a, o, PartEnd(a, o))
          /\ ctx' = [ctx EXCEPT ![a].file = FALSE, ![a].err = "failed"]
          /\ Fail
    /\ PartEnds(group, a, o)
    /\ UNCHANGED <<partRest, overwritten>>

(* Mutant of PartWriteFails: the next part is not released. *)
PartWriteFails_Holds(a, o) ==
    /\ InPart(a, o, "writing")
    /\ \E e \in o..(PartEnd(a, o) - 1) : disk' = Written(disk, a, o, e)
    /\ Dispose(PartReads(a, o))
    /\ ctx' = [ctx EXCEPT ![a].file = FALSE, ![a].err = "failed"]
    /\ PartEnds(group, a, o)
    /\ Fail
    /\ UNCHANGED <<partRest, overwritten>>

(* Write fails at a chunk: the file is closed, the error set and only then *)
(* the next part released.                                                 *)
PartWriteFails(a, o) ==
    /\ InPart(a, o, "writing")
    /\ \E e \in o..(PartEnd(a, o) - 1) : disk' = Written(disk, a, o, e)
    /\ Dispose(PartReads(a, o))
    /\ ctx' = [ctx EXCEPT ![a].file = FALSE, ![a].err = "failed"]
    /\ PartEnds(NextReleased(a, o), a, o)
    /\ Fail
    /\ UNCHANGED <<partRest, overwritten>>

(* No memory for the lookup of chunks: the file is closed, the next part   *)
(* released and only then the error set.  (The code does the same when a   *)
(* block lacks a chunk, which a content index of true pairs rules out.)    *)
PartHasNoLookup(a, o) ==
    /\ InPart(a, o, "writing")
    /\ Dispose(PartReads(a, o))
    /\ ctx' = [ctx EXCEPT ![a].file = FALSE]
    /\ group' = NextReleased(a, o)
    /\ part' = [part EXCEPT ![PartWrite(a, o)] = "failed"]
    /\ Fail
    /\ UNCHANGED <<partRest, disk, overwritten>>

(* The job sets m_Err, of a context that the next part may be done with. *)
PartSetsError(a, o) ==
    /\ InPart(a, o, "ok") \/ InPart(a, o, "failed")
    /\ ctx' = [ctx EXCEPT ![a].err = part[PartWrite(a, o)]]
    /\ overwritten' = IF part[PartWrite(a, o)] = "ok" /\ ctx[a].err \in {"failed", "cancelled"}
                      THEN overwritten \cup {a} ELSE overwritten
    /\ PartEnds(group, a, o)
    /\ NoFail
    /\ UNCHANGED <<partRest, reader, disk>>

PartNext ==
    \E a \in DOMAIN ctx : \E o \in 0..Len(AssetChunks(a)) :
        \/ PartAfterFailure(a, o) \/ PartAsserts(a, o)
        \/ PartCancelled(a, o) \/ PartReadsFailed(a, o)
        \/ PartNotOpened(a, o) \/ PartDirectory(a, o) \/ PartOpens(a, o)
        \/ PartWritten(a, o) \/ LastPartWritten(a, o) \/ PartWriteFails(a, o)
        \/ PartHasNoLookup(a, o) \/ PartSetsError(a, o)

(* WriteReady: nothing to do, a synchronization point. *)
WriteReady ==
    \E a \in DOMAIN ctx : \E o \in 0..Len(AssetChunks(a)) :
        /\ PartSync(a, o) \in Jobs(group) /\ CanStart(group, PartSync(a, o))
        /\ group' = EndJob(group, PartSync(a, o))
        /\ NoFail
        /\ UNCHANGED <<call, uploadVars, contextVars, disk, todo, overwritten>>

WriteAssetsNext == ReaderNext \/ BlockJobNext \/ PartNext \/ WriteReady

(* Mutant of WriteAssetsResult: only block jobs are asked for their error. *)
WriteAssetsResult_BlockJobs ==
    IF group.cancelled THEN "cancelled"
    ELSE IF \A b \in DOMAIN blockErr : blockErr[b] = "ok" THEN "ok" ELSE "failed"

(* What the call returns when all jobs are done (lines 5621 to 5667). *)
WriteAssetsResult ==
    IF group.cancelled THEN "cancelled"
    ELSE IF /\ \A b \in DOMAIN blockErr : blockErr[b] = "ok"
            /\ \A a \in DOMAIN ctx : ctx[a].err = "ok"
         THEN "ok" ELSE "failed"

WriteVersionType ==
    /\ \A j \in DOMAIN reader :
         /\ reader[j].err \in Errors
         /\ reader[j].block \in {"none", "asked", "empty", "lent", "disposed", "leaked", "twice"}
    /\ \A b \in DOMAIN blockErr : blockErr[b] \in Errors
    /\ \A a \in DOMAIN ctx : /\ ctx[a].offset \in 0..Len(AssetChunks(a))
                             /\ ctx[a].file \in BOOLEAN /\ ctx[a].err \in Errors
    /\ \A j \in DOMAIN part : part[j] \in {"writing", "ok", "failed"}
    /\ DOMAIN disk = Paths
    /\ \A p \in Paths : disk[p].kind \in {"none", "dir", "file"}
    /\ overwritten \subseteq Paths
================================================================================

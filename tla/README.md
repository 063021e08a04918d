# Longtail in TLA+

Specifications of [longtail](../src/README.md), a C library that stores and
restores versions of a folder as content addressed blocks.  The modules here
model the parts of it in which threads, processes and failures meet - the block
stores that are stacked on one another, the jobs that write and read blocks and
files - and the arithmetic of indexes that decides what they do.  TLC checks them
on small instances; TLAPS proves the safety properties of the block stores for any
number of calls, processes, threads and faults, and those of the jobs, of the indexes, and
of what an upload, a download and a read leave behind for any versions, stores, workers and faults.

Paths such as `longtail_shareblockstore.c:303` are in `src/lib/<component>/`;
`longtail.c` and `longtail.h` are in `src/src/`.

## 1. The system

A *version* is a folder.  It is indexed (files, chunks, hashes), its chunks are
packed into *blocks*, and a *content index* lists blocks and the chunks in them.
Blocks are put to and got from a **block store**, the interface
`Longtail_BlockStoreAPI` (`longtail.h:635`): `PutStoredBlock`, `PreflightGet`,
`GetStoredBlock`, `RetargetContent`, `GetStats`, `Flush` and `Dispose`.  Stores
are stacked; each forwards to a *backing* store, and answers come back through
`OnComplete` of a completion object, before or after the call returns and on any
thread.  The command line tool builds, from the top,

    share -> LRU -> compress -> cache -> fs (local), fs (remote)

with a cache folder, and without one straight from `compress` to the one `fs`
(`cmd/main.c:632-648`, `1209-1225`).  Jobs of a thread pool read and write blocks
and files; a job that waits for a block returns `EBUSY` and is resumed by the
completion.

### Components

| Component | State it keeps | Operations | What makes it correct |
|---|---|---|---|
| **Share store** `shareblockstore` | map hash -> shared block, map hash -> wait list, reference counts, pending count, queued flushes; one spin lock | Get (hit, join, first), completion, block Dispose, Flush, Dispose | one backing read per block; a lent block stays in memory; one answer per call; Flush and Dispose wait for what is in flight |
| **LRU store** `lrublockstore` | the same, and an array of the last blocks in order of use | the same, with eviction | the array and the map agree; eviction never frees a lent block |
| **File system store** `fsblockstore` | per process: block states, added block indexes, a content index; on disk: block files, `store.lci`; a lock file between processes | Put, Get, RetargetContent, Flush, Dispose | what is listed is stored; processes do not lose each other's blocks; Flush lists what was put |
| Cache store `cacheblockstore` | pending count, flushes; two backing stores | Put to both, Get local then remote with a copy back | a Put is answered once, with the remote's result; counts return to 0 |
| Compress store `compressblockstore` | pending count, flushes | transforms blocks on the way | as above; blocks freed once |
| Job system `bikeshed`, `atomiccancel` | job groups, pending and completed counts, dependencies, cancel tokens | reserve, create, ready, wait, resume | every job runs once after those it depends on; waiting ends |
| Write and read jobs `longtail.c:3855-5790` | graphs of jobs with a block or an error per job | WriteContent, WriteVersion, ChangeVersion | no job reads a block that is not there; errors are not lost |
| Index algebra `longtail.c:5793-7000` | none | missing content, retarget, merge, add, version diff | equal to their set definitions |
| Indexing, chunking | none beyond jobs | CreateVersionIndex | same input, same chunks |
| Block store storage `blockstorestorage` | open files over a version and a block store, each with the place of its last read | read-only storage API | a read gives the bytes of the version, whatever was read before |
| File and memory storage, platform | the file system | files, locks, threads | promises the above rely on |
| Command line tool `cmd/main.c` | none of its own | `UpSync`, `DownSync`, `VersionIndex_cp` and commands that print | what it publishes is stored; success means the folder is the version |
| Registries, hashes, compression, formats | none of interest | | |

Modelled are the five stores, the index algebra and the jobs of `longtail.c`; in part
the job system, the block store storage and the command line tool; the rest is not
(see 6).  `PROJECT.json` says for each part what is left out and why, and lists under
`hazards` the places in this code that a test would hardly reach, with the properties
aimed at them.

### Where it is hard

* A spin lock guards the maps but not what happens between two critical
  sections: reference counts drop to 0 outside the lock, completions are called
  outside it, a victim of the LRU cache is disposed of after it.
* A backing store may answer in three ways: `OnComplete` with a block,
  `OnComplete` with an error, or an error return and no `OnComplete`.
* Several processes rewrite `store.lci` by remove and rename, any of them may
  die in between, and each keeps its own idea of what is stored.
* Allocation failures leave half of an operation done.
* A Put of the cache store is two calls with two completions, in any order; a Get
  may be three, the last of them behind the caller's back.
* An asset that spans many blocks is written in parts.  Each part's write job makes
  the jobs of the next part *in the same context* before it writes its own chunks, so
  that reading overlaps writing; jobs are created against a number that was reserved
  before; errors travel through contexts that later jobs reuse.

## 2. Modules

| Module | Models | Role |
|---|---|---|
| `BlockLending` | the promise of `GetStoredBlock` to its callers, no implementation | abstract specification of both in-memory stores |
| `ShareBlockStore` | `longtail_shareblockstore.c` | state machine, properties, refinement |
| `LRUBlockStore` | `longtail_lrublockstore.c` | state machine, properties, refinement |
| `FSBlockStore` | `longtail_fsblockstore.c` with the files it shares with other processes | state machine, properties |
| `CacheBlockStore` | `longtail_cacheblockstore.c` over two external stores | actions, for whoever calls it |
| `CompressBlockStore` | `longtail_compressblockstore.c`; extends the former, as the tool stacks them | state machine of both, properties |
| `ShareBlockStoreProofs`, `LRUBlockStoreProofs`, `FSBlockStoreProofs`, `CompressBlockStoreProofs` | | inductive invariants and theorems, see section 5 |
| `ContentIndex` | index arithmetic of `longtail.c` | pure operators and what is expected of them |
| `JobSystem` | `longtail_bikeshed.c`, `longtail_atomiccancel.c` | operators on a job group |
| `WriteContent` | `Longtail_WriteContent` and its jobs | actions; extends `ContentIndex`, `JobSystem` |
| `WriteVersion` | `WriteAssets` of `longtail.c` and its jobs | actions; extends `WriteContent` |
| `BlockStoreStorage` | `longtail_blockstorestorage.c` | actions; extends `WriteContent` |
| `Sync` | `UpSync`, `DownSync`, `VersionIndex_cp` of `cmd/main.c`; `ChangeVersion` and `WriteVersion` of `longtail.c` | state machine of the five above, properties |
| `JobSystemProofs`, `ContentIndexProofs`, `WriteVersionProofs` | | lemmas about the operators of those modules, and the part of the invariant that speaks of `WriteAssets` |
| `SyncProofs` | | inductive invariant of `Sync` and theorems; extends the three above |
| `MCShareBlockStore`, `MCLRUBlockStore`, `MCFSBlockStore`, `MCCompressBlockStore`, `MCSync` | | constants, symmetry and inputs for TLC |

Definitions named `<Action>_<What>` are *mutants*: an action with a plausible bug.
No specification uses them; `PROJECT.json` says which property each one breaks
when it takes the place of its action.

### ShareBlockStore and LRUBlockStore

A member of `Requests` is one call of `GetStoredBlock`.  The one that finds
neither a block nor a wait list (`GetFirst`) also owns the read of the backing
store and the block made from it, so `fetch`, `calls`, `refCount` and `mem` are
indexed by requests too.  One action is one critical section of `m_Lock`, or what
a thread does between two of them:

| Code (share store) | Actions |
|---|---|
| `GetStoredBlock` 240-326 | `GetHit`/`CallHit`, `GetJoin`, `GetFirst` then `CallBacking` or `NoMemory` |
| the backing store answers 168-238, 303-323 | `BackingDelivers`, `BackingFails`, `BackingRefuses`, then `CallWaiter` for every completion and `ReturnRefused` |
| `CompleteRequest` 46-63 | `CompleteRequest`, `Unlock`, `CallFlush` |
| `SharedStoredBlock_Dispose` 65-88 | `DropReference`, `Unmap`, `Free` |
| `Flush` 371, `Dispose` 388 | `Flush`, `Dispose` |

`Unlock` is a step of its own because `Dispose` polls the count without the lock:
it can see 0 while `CompleteRequest` has still to unlock the lock that `Dispose`
frees.  The LRU store has no such split (its `Dispose` is modelled as one step
after the count is 0), and adds `DropVictim`/`RefreshVictim` after a delivery into
a full cache and `RefreshReturned` for a reader that takes the count to 1.  Its
maximal size is chosen in `Init` from `MaxCounts`.

After a use of freed memory the program can do anything, so both models stop
there (`uaf`).  A freed object is never allocated again in the model: a request
makes at most one block.

A caller that breaks the interface is not modelled: it disposes of a block once
and `Dispose`s of the store with no call under way.

### FSBlockStore

A member of `Stores` is a store object in a process of its own; `Home` says which
store a thread calls.  On disk are `stored` (block files), `index` (`store.lci`)
and `fileLock`; in memory `state` (`m_BlockState`), `added`
(`m_AddedBlockIndexes`), `memIndex` (`m_ContentIndex`).  A content index is the
set of blocks it lists.  A Put is `PutStart`, `PutCheck`, `PutRename`,
`PutRecord`; a Get `GetStart`, `GetSpin`, `GetRead`; `RetargetContent` is
`IndexKnown` or `IndexStart`, `IndexUnlisted`, `IndexLoad`; a Flush `FlushCall`, where
it waits for `m_Lock` (line 966), `FlushStart`, `FlushLock`, `FlushRemove`,
`FlushRename`, `FlushEnd`, and `Dispose` is a Flush with `closing` set that frees
the store in the end.  Failures are actions of their
own (`PutFails`, `PutNoMemory`, `IndexFails`, `IndexNoMemory`, `FlushNoMemory`,
`FlushFails`), as is `Crash(s)`, which ends a process at any point; `MaxFaults`
bounds how many of them a behaviour has.

What is assumed of the outside: a lock file excludes every other store and is
freed when its holder dies.  On POSIX `Longtail_LockFile` opens `lockfile.tmp` in
the working directory and ignores its argument (`longtail_platform.c:1711`), so
there the assumption holds only for processes of one working directory.  A rename
replaces nothing and is atomic.  The merge of lines 821-841 is not modelled: it
would need `m_ContentIndex` to appear while the lock is held.

### CacheBlockStore and CompressBlockStore

The unit is an *item*: one call of the local or the remote store with the completion
object it was given.  A Put is the items `remote` and `local`, a Get `local`, then
perhaps `remote`, then perhaps `copy`.  Each moves through the stages of `Stages`; the
two stores under the cache are external and may refuse a call, or accept it and
complete it at any time from then on, even before the call returns, with either result.

Either store's `CompleteRequest` is two steps: the decrement, and after it the list of
flushes and the unlock, with `m_Lock` held in between (stages "emptied", "unlocking").
`Dispose` polls the count without the lock (cache 750, compress 477), so it can free the
store between them; the thread in `CompleteRequest` then uses freed memory, and either
goes on as if it were there or ends the process (`UseFreed`).

| Code | Actions |
|---|---|
| cache `PutStoredBlock` 148-219 and its two completions 99-146 | `PutStoredBlock`, `PutNoMemory`, `RemoteRefusesPut`, `PutFails`, `RemoteAcceptsPut`, `LocalPutNoMemory`, `PutRemoteComplete`, `PutLocalComplete` |
| cache `GetStoredBlock` 515-553, local completion 454-513 | `GetStoredBlock`, `GetNoMemory`, `GetLocalComplete`, `GetLocalMisses`, `GetRemoteNoMemory`, `RemoteRefusesGet`, `RemoteAcceptsGet`, `LocalGoesOn` |
| remote completion 396-444, the copy behind it 343-394 | `GetRemoteFails`, `GetRemoteComplete`, `CopyToLocal`, `CopyNoMemory`, `LocalRefusesCopy`, `LocalAcceptsCopy`, `RemoteGoesOn`, `CopyComplete` |
| cache `RetargetContent` 656-700 and its completions 563-655 | `Ask`, `AskLocalComplete`, `AskRemoteComplete`, `AskFails` |
| compress `PutStoredBlock` 152-210, `GetStoredBlock` 363-407 | `RequestFails`, `CompressPut`, `BackingRefusesPut`, `CompressGet`, `BackingRefusesGet`, `ReturnError` |
| its completions 133-150, 309-361 | `OnPutBackingStoreComplete`, `OnGetBackingStoreComplete`, `DisposeBlock`, `CompressCompleteRequest` |
| `CompleteRequest` of either (cache 24-39, compress 25-40), `Flush`, `Dispose` | `CompleteRequest`, `Unlock`, `CallFlush`, `Flush`, `CompressCompleteRequest`, `CompressUnlock`, `CompressCallFlush`, `CompressFlush`, `CompressDispose`, `CacheDispose`, `UseFreed` |

The composition is by shared state: what the compress store calls is the first step of
the cache's call, and the cache's call of `OnComplete` is the compress store's
completion, which the cache's item waits for (`AnswerReturns`).

### ContentIndex, JobSystem, WriteContent, WriteVersion

`ContentIndex` keeps what the order of the code's arrays decides: a content index is
the sequence of its blocks and the sequence of its chunks, each with the index of its
block, and every operator lists blocks and chunks in the order the loops do.  A block
hash is the hash of its chunk hashes, so it is modelled as the sequence of them; a chunk
is its hash.  A path is a number; a version maps paths to assets.

`JobSystem` is the state of one job group, a record, and operators on it; the modules
above it compose them into the steps of their job functions.  A job that touches
nothing another thread uses meanwhile is one step.  A job that asks a store for a block
is two: the store accepts the call (`BlockJob`), and the job returns `EBUSY`
(`ReturnJob`).  The completion may come between them, resume the job, and have another
thread run it to its end before the first call has returned; that call holds its thread
until then (`returning`), and looks at neither the job nor its group.  A call of a group
that is over takes no thread of the next group in the model.

`WriteContent` and `WriteVersion` keep what
the job contexts keep: `put` (`WriteBlockJob`), `reader` (`BlockReaderJob`), `blockErr`
(`WriteAssetsFromBlockJob`), `ctx` (`WritePartialAssetFromBlocksJob`), and `part`, the
places where write jobs of parts are between two accesses to the shared context.
`disk` is the target folder and `store` the block store, by the data that blocks really
have, not by what their hash says: a chunk read from a wrong offset shows.

`todo` has the blocks and the assets `WriteAssets` has still to create jobs for.  Block jobs are
created in the order of their blocks (`BlockJobCompare`), the other assets in any order,
which is more than the code does: the order is the caller's, and nothing depends on
it.  For the same reason `BlockNotWritten` stops after any of the assets of its block.

| Code (`longtail.c`) | Actions |
|---|---|
| `WriteContent` 4104-4294, its jobs 3911-4102 and their completion 3879-3899 | `StartWriteContent`, `PutJobCancelled`, `PutJobFails`, `PutRefused`, `PutAccepted`, `PutComplete`, `PutResumed` |
| `WriteAssets` 5333-5668 | `StartWriteAssets`, `CreateBlockJob`, `CreateAssetJob`, `StartWaiting` |
| `BlockReader` 4325-4363, its completion 4308-4323 | `ReaderCancelled`, `ReaderRefused`, `ReaderAccepted`, `ReaderComplete`, `ReaderResumed` |
| `WriteAssetsFromBlock` 4938-5151 | `BlockReadFailed`, `BlockCancelled`, `BlockWritten`, `BlockNotWritten` |
| `WritePartialAssetFromBlocks` 4530-4899 | `PartAfterFailure`, `PartAsserts`, `PartCancelled`, `PartReadsFailed`, `PartNotOpened`, `PartDirectory`, `PartOpens`, `PartWritten`, `LastPartWritten`, `PartWriteFails`, `PartHasNoLookup`, `PartSetsError`; the sync job (`WriteReady` 4365-4369) |

### BlockStoreStorage

An open file is a `handle`: its path and the chunk, with its offset, where the last Read
ended.  A Read (`StartRead`) moves the handle to the start of the range (`SeekFile`,
with the search by halves of `FindStartChunk`), goes over the chunks of the range
and makes for each block one range, from the block's first to its last chunk, whatever
other blocks have chunks in between; one job for each block then gets the block and
copies (`CopyRefused`, `CopyAccepted`, `CopyComplete`, `CopyGivesUp`, `CopyEnds`).  A byte
is a chunk and a place in it, so that `buffer` shows every byte that is wrong or missing.

### Sync

A behaviour starts from one of `Inputs`: an old and a new version, the blocks the store
has, and whether permissions are retained.  It uploads the new version or skips that, and
then brings the folder to it with `ChangeVersion`, or with `WriteVersion` if the folder is
empty, or reads from a file of it as `cp` does.  Everything computed from the input alone
is an operator of the input (`Existing`, `Missing`, `Merged`, `Diff`, ...); `Situation` collects the
results, once per behaviour, and the steps take them from there.  The removal of
assets and the setting of permissions are loops of the calling thread with nobody else
running, one step each, with a step for each way they can stop half way.  One call fails
per behaviour (`MaxFailures`), at any point; `Cancel` may come while jobs are waited for.

## 3. Properties

**Share store.**
`PendingCountsInFlight`, `RefCountsHolders` tie the two counters to the calls they
stand for.  `OneFetchPerHash` is what the store is for.  `NoUseAfterFree` says
that no block is used after it is freed, and states the exception: a Get that
finds a block whose last holder is between lines 68 and 75 (`revived`).
`AnsweredOnce`, `FlushCovers`, `DisposeQuiesces` speak of completions, flushes and
disposal.  `EveryGetAnswered` and `EveryFlushCompletes` are liveness, again with
the exceptions of the code spelled out.  `LendingSpec` is the refinement of
`BlockLending`.

**LRU store.**
`PendingCountsRequests` counts the double completion of line 408 in; the array and
the map agree (`CacheMatchesMap`); the rest as above.  Here `LendingSpec` has no exception:
the cache's own reference keeps a block from being found with count 0.

**File system store.**
`KnownBlocksStored`: whatever an index, an index to be or a block state calls
stored has its file, through crashes.  `IndexKeepsBlocks`: no process drops from
`store.lci` what another listed, unless a process died or failed between remove and
rename (`torn`).  `FlushListsBlocks`: when a Flush answers 0, `store.lci` lists every
block whose entry in `m_BlockState` is 1, since of those the session has answered or
will answer a Put with 0.  Its exceptions are what the code does not list:

* an error that Flush drops (lines 1018, 1029: `silent`), or a torn index;
* blocks `GetIndexSync` has put into `m_ContentIndex`, from `m_AddedBlockIndexes` or because
  it found their files, where Flush takes them for written (852-878, 1032: `absorbed`);
* blocks a Flush without memory has dropped: it answers `ENOMEM`, frees their indexes and
  leaves their entries at 1 (1007-1014), so no later Flush of the session lists them; and
  blocks whose entry a Get has set, having found the file (690).  Both are in `unkept`;
* a Put answered 0 at 599 while the entry is 0, as the Put that writes the block is still under way or
  has failed (629, 641), promises nothing: such an entry is not 1, so the property
  does not speak of it.

`EveryGetAnswered`, `EveryFlushEnds` are liveness.  A Flush begins when it is called, not
when it has `m_Lock`.  The exception of both is a `GetIndexSync` that returns at 818 with
`m_Lock` held (`Wedged`): every later call that wants it spins for ever.

**Cache and compress stores.**
`PendingCountsRequests` ties the count of either store to the completions it stands for; a
store that is disposed of has none but those between the decrement and the unlock.
`OneTrueOutcome`: a call has one outcome, and a Put answered with success is in the
remote store, whichever store completed first.  `BlocksOutliveTheirUse`: a compressed
block lives as long as a store may read it and is freed when the Put is over; a block
that is copied to the local store has as many references as users.  The exception is
a Put that ran out of memory between the two stores (line 195): it returns an error with
the remote Put under way, and the caller frees the block (`starved`).  `FlushCovers` and
`RetargetFindsStored` speak of the two calls across both stores.  `NothingLeftWaiting` is
the absence of stuck calls, but for a request that is lost between the two reads
("lost": line 470 answers and forgets to take it out of the count).

**Uploading and writing.**
`IndexAlgebra` compares each operation with its definition on sets, for the inputs and for
pairs of content indexes with overlapping blocks.  `UploadKept`: what UpSync publishes is
in the store, with the data its hashes stand for.  `RoundTrip`: success means that the
folder is the new version, through failures, cancellation and every order of jobs, but
for an asset whose error a late job has cleared (`overwritten`).  `OneWriterPerFile` and
`BlocksDisposedOnce` speak of the contexts that parts share.  The exception of the latter:
the part that follows a failure asserts that the context has an error (line 4541).
`m_Err` may have been cleared by then (4897); in a build with `LONGTAIL_ASSERTS`, such as a
debug build, the assertion returns before the loop that disposes of the part's blocks
(4544-4552), and they leak ("leaked").  Without assertions they are disposed of; the model
has both (`PartAsserts`, `PartAfterFailure`).  `JobsFitReservation`: the
number of jobs reserved before covers all that jobs create later.  `SyncEnds`: whatever
fails, no job waits for one that nobody readies.  After line 5583, which frees contexts
of jobs that may be running, nothing is followed ("abandoned").

**Block store storage.**
`ReadsAreExact`: a Read fills the buffer with the bytes of the range, whatever earlier
reads, also failed ones, did to the handle.  The exception is a block that could not be
had: its job keeps the error in `m_Err`, nobody looks at it (line 598), and Read
returns 0; `cp` does not look at what Read returns either (`main.c:1427`).

An exception in a property is not a way to make it hold: each is a history
variable, or a state of its own, set by the step of the code that causes it, named in
the comment with its line, and listed as a hazard.

## 4. Runs

| Run | Instance | Shows |
|---|---|---|
| `share_safety` | 3 Gets, 2 hashes, 1 Flush; 77,827 states | all safety properties and the refinement |
| `share_live` | the same with 1 hash, no symmetry; 126,631 states | every Get is answered, every Flush completes, but for an orphaned wait list and a leaked count |
| `share_refused` | as `share_safety` | violation, see below |
| `lru_safety` | 3 Gets, 3 hashes, 1 Flush, caches of 1 and 2; 138,399 states | all safety properties and the refinement |
| `lru_assert`, `lru_lookup` | as `lru_safety` | violations, see below |
| `fs_safety` | 2 processes of one thread, 2 blocks, 1 fault; 1.85 million states | all safety properties |
| `fs_live` | 2 processes, of two threads and of one, 1 block, 1 fault; 136,719 states | liveness only: every Get that waits ends, unless the Put it waits for failed or `m_Lock` was left locked; every Flush ends, from its call on, unless `m_Lock` was left locked |
| `fs_existing` | as `fs_safety`, no fault | violation, see below |
| `compress_safety` | a Put and a Get of one block, one of them tagged, with a Flush of one store or a RetargetContent; 1.39 million states | all properties of both stores |
| `sync_safety` | 5 inputs, two threads, 1 failure, up to 2 reads of 4 ranges; 165,455 states | all properties of upload, download and reading, liveness included |
| `sync_lost_error` | as `sync_safety` | violation, see below |

*Why these bounds.*  Three requests on one hash give an owner, one that joins and
one that comes while the block is delivered, given back or freed; every race
above needs two or three.  A second hash makes a map of more than one entry; the LRU run
needs three, so that a cache of two evicts.  One Flush is enough because flushes
do not depend on each other: the list is taken as a whole.  Two processes of one
thread are the two sides of the lock file, two threads of one process the two
sides of `m_Lock`; `fs_live` has both, so that `m_Lock` and the lock file are contended
at once, and its third thread, alone in its process, only loads the index and flushes
(`ThirdOnlyIndexes`), which is all that concerns the others.  One fault at any point, followed by all the others' steps,
covers each failure and each crash by itself.  Interchangeable are the blocks and the
two processes, each with its thread, in `fs_safety`, and requests and hashes in the
share and LRU safety runs: no definition tells them apart, so symmetry is sound; the
liveness runs use none, nor do `compress_safety` and the `sync` runs.

In `compress_safety` the local store starts empty, so that a Get goes the whole way; the
Put and the Get are of one block, so that they meet in both stores.  A Flush and a
RetargetContent never meet in the code's state, and the counts of the two stores are
apart, so one of them at a time (`OneAtATime`) is enough; a RetargetContent asks for both
blocks (`AsksForAll`), for what it finds of one does not depend on the other.  The cache
store does not look at the tag, so a RetargetContent and a Flush of that store meet one
tagging each (`OneTagging`): the first a block that the Put stores while it asks, the
second a Get that copies what it read; a Flush of the compress store meets both.  The
block of the Put and the Get is in the remote store if the Get's is tagged, that is, if
what the remote store holds is compressed; the other block always is.  The five inputs of `sync_safety` are: a
large file into an empty folder (four blocks, read in three parts, one of them with a
chunk of a block that an earlier part has read); a store that has some of the blocks, in another order,
with a directory and a file to remove; a modified file, an added directory with a file
in it, and a change of permissions alone; a folder to be emptied; nothing to do.  With one worker
the waiting thread is the second, and a part has two readers, the least with which parts
follow one another.  The four ranges begin and end at and within chunks, lie before and
behind one another, and one spans a block with chunks on both sides of others.

*Deadlock.*  The share and LRU stores' behaviours end when every call was made, so those
configurations turn the check off, as does `fs_live`, where a `GetIndexSync` that fails
can leave `m_Lock` locked.  `compress_safety` ends when the stores are disposed of and the
`sync` runs when the tool does; there `NothingLeftWaiting` and `SyncEnds` say that they end
nowhere else.  `fs_safety` and `fs_existing` check it.

*Fairness.*  Share store: weak fairness of `Progress(r)`, for each request: a thread
that is inside the store goes on, and the backing store answers a read some time.
Callers need not call, and need not dispose of a block.  File system store: strong
fairness of `Step(t)` without faults, because a spin lock and `flock` are only
granted by chance: a thread that finds the lock free again and again gets it some
time.  The wait of a Flush for `m_Lock` (`FlushStart`) is such a step, its call is not.
Calls, faults and crashes are not fair.  `IndexLoad` and `IndexUnlisted`
are among the steps, `IndexFails` is not.  `Sync`: weak fairness of `Next`
as a whole, because every step of it is one of a running thread (`JobReturns` among them)
or a completion that the store owes; this is enough, since a behaviour has no cycles.

### What the violations show

* `share_refused`: a backing store returns an error.  The comment at
  `longtail_shareblockstore.c:315` says that anybody *else* on the wait list gets
  the error in `OnComplete`; the caller is on the list as well, so it gets it there
  and as the return value (319, 323), and the count of 298 is never taken back.  The
  file system store and the compress store return errors in this way; the LRU store,
  which is below in the command line tool's stack, only when it is out of memory.
* `lru_assert`: in the same case the LRU store calls its `OnComplete` (407), which
  completes the request (282), and completes it again (408).  The assertion at 112,
  compiled into debug builds, says that the count is positive.
* `lru_lookup`: a reader drops the count to 1 and then reads the block to refresh
  it (143); meanwhile an eviction can drop the last reference and free it.
* `fs_existing`: `SafeWriteStoredBlock` takes an existing file to mean that the index
  is out of sync (226); a process that has not read `store.lci` finds the files of
  blocks that are listed.  `Longtail_AddContentIndex` (`longtail.c:6596`) would list
  them twice.
* `sync_lost_error`: a write job of a part releases the next part (4890) and then sets
  `m_Err` of the context they share to 0 (4897).  If the next part fails in between, its
  error is gone, and ChangeVersion returns success over a file that is not whole.  Tests
  such as `test.cpp:5617` expect the error of the disk.

## 5. Proofs

### The stores

Each store has a proof module that extends its specification.  It states an inductive
invariant `IInv`, proves it (`Invariance`), and derives from it:

| Property | `ShareBlockStoreProofs` | `LRUBlockStoreProofs` | `FSBlockStoreProofs` | `CompressBlockStoreProofs` |
|---|---|---|---|---|
| `TypeOK` | `TypeCorrect` | `TypeCorrect` | `TypeCorrect` | `TypeCorrect` |
| the pending count | `PendingCorrect` | `PendingCorrect` | | `PendingCorrect` |
| reference counts, lives of blocks | `RefCountCorrect`, `BlocksAreSafe` | `RefCountCorrect` | | `BlocksCorrect` |
| one fetch for all that wait | `FetchesAreShared` | `FetchesAreShared` | | |
| outcomes | `AnswersAreSingle` | | | `OutcomesCorrect` |
| `Flush` | `FlushesCover` | `FlushesCover` | `FlushCorrect` | `FlushesCover` |
| `Dispose` | `DisposalIsQuiet` | | | in `PendingCorrect` |
| what is stored, cached, found | | `CacheCorrect` | `BlocksCorrect`, `IndexCorrect` | `RetargetCorrect` |
| refines `BlockLending` | `KeepsLendingPromise` | `KeepsLendingPromise` | | |

These are all the safety properties of the four stores' runs but `NothingLeftWaiting`.  The
theorems hold for every value of the constants under the modules' named assumptions, which
TLC evaluates in the runs, and nothing else is assumed:

* share and LRU: `Requests` is finite (each makes one call; the counts are cardinalities),
  `None` is no request and no hash, a cache holds at least one block;
* file system: any `Stores`, `Threads` and `Blocks`, `Home` gives each thread its process,
  `MaxFaults` is a natural number, `None` and `Missing` are nothing else;
* cache and compress: `Puts` and `Gets` are finite and apart, `BlockOf` gives each its block.

Each action has a lemma `<Action>Step` (in the compress store, some have two, one for a Put and
one for a Get) with a step for each conjunct of `IInv` that the action can disturb; frame lemmas say what a
step of one request, thread or store leaves alone for the others, and `NextIInv` puts them
together.  Every `IInv` was an invariant of a TLC run on the instances of section 4
before it was proved.

**Share store.**  None of the properties is inductive by itself.  `TypeOK` already is not: that
`pending` stays a natural number needs `PendingCountsInFlight`, that `told` stays at
most 2 needs to know that a request is on one wait list or in the hands of one
fetch.  `IInv` therefore says, by subject:

* `Beginnings`: a call that has not begun owns nothing;
* `WaitLists`: whoever is on a list waits for that hash and has no block; a fetch
  that is `Open` is on its own list, its hash is not in the map, and no other open
  fetch has the hash (this is `OneFetchPerHash` made inductive);
* `InHand`: what a fetch took off a list is in nobody else's hands;
* `Answers`: how often each caller was told, by where it is;
* `Blocks`: blocks exist from their delivery on, and the map finds the right one;
* `Memory`: until a dying block is revived, at most one caller is disposing of a
  block, the count is 0 then, and the map entry goes before the memory;
* `Flushing`: a flush taken off the list covers only fetches that are past;
* `Disposal`: what is left after `Dispose`.

The refinement needs `IInv` too: that a block is live when it is
lent, and lent to nobody when it is freed, is in `Memory`.

**LRU store.**  The first five are alike; only a refused fetch completes more than once, and
`pending` falls below the number of requests in flight by one for each.  New are

* `Array`: the array and the map have the same blocks, each once, and each has the
  cache's own reference;
* `Evictions`: a block is evicted once, and is not in the array then.

The lemmas on sequences say what `LRU_Put`, `LRU_Evict` and `LRU_Refresh` do to an array
without duplicates: `AppendSet`, `TailSet`, `RemoveAtSet`, `RefreshedSet`.  That the array never
grows past `m_MaxCount` is its length being the cardinality of its set
(`DistinctCardinality`).

**File system store.**  `IInv` says where each thing is on its way:

* `Stage` of a thread: what it holds and has found by its program counter.  This is mutual
  exclusion, for `m_Lock` (`Alone`) and for `store.lci` (`OneWriter`), with what the
  lock is held for: a Flush that writes has this session's index in its draft;
* `Placed`: a draft, and a block about to be called stored, name stored blocks only, which
  makes `KnownBlocksStored` inductive;
* `Listing`: while `store.lci` is removed, somebody is about to rename one into place that
  lists all that was listed, unless a rewriting was interrupted (`torn`);
* `Accounted`: a block the session owes a Flush (`Owed`: it calls it stored, and it is not one of
  `unkept`) waits for a Flush, is in one, was listed, or was taken by `GetIndexSync`; `FlushListsBlocks` follows because none
  is in a Flush when it ends.

A crash takes all threads of one process away at once (`ProcessDies`); `OtherStores` says that it
leaves the others' stages as they are.

**Cache and compress stores.**  A request is three calls deep, with up to three completions in
any order, so `IInv` lists for each Put and Get the combinations its parts can be in:

* `PutStage`, `GetStage`: the completions of the cache's calls against `m_PendingCount` and
  what the caller was told;
* `PutCall`, `GetCall`: where the compress store's request is, by what the cache told it;
* in `GetInv`, the references of a block that was read: one while the copy to the local store uses it
  and one while the caller, or the compress store for it, does;
* `Flushing`, `ZFlushing`, `Asking`: flushes and `RetargetContent` of either store;
* `Emptying`, kept beside `IInv`: the completion that took a count to 0 has `m_Lock` until it has taken
  the flushes, so what they cover is answered by then, also where `Dispose` comes in between.

### The jobs

`SyncProofs` proves of `Sync`, whose behaviours are those of `UpSync`, `DownSync` and `cp`:

| Property | Theorem | What it rules out, for any versions, store, number of workers and failures |
|---|---|---|
| | `SyncInvariance` | (the inductive invariant `SyncInv`) |
| `TypeOK` | `TypeCorrect` | a job that waits for one that does not exist, an offset past the end of an asset |
| `OneWriterPerFile` | `WritersCorrect` | two parts of an asset that write at once, or without their blocks; a file left open |
| `BlocksDisposedOnce` | `BlocksCorrect` | a block disposed of twice, or never, or used after it, on any path of failure but the assertion of line 4541 |
| `JobsFitReservation` | `ReservationCorrect` | more jobs than were reserved; a pending count that is wrong, or not 0 in the end |
| `IndexAlgebra` | `AlgebraCorrect` | a chunk lost or named twice, a block listed that has nothing, limits of a block passed, a diff that misses an asset |
| `UploadKept` | `UploadCorrect` | an upload that publishes a chunk no block has, a block that was not stored, or one with other data than its hash says |
| `RoundTrip` | `RoundTripCorrect` | success over a folder that is not the version, whatever failed, was cancelled, or came late on the way |
| `ReadsAreExact` | `ReadsCorrect` | a byte of the buffer that is wrong or was not written though each block came, after any reads before it on the handle |

Assumed are the shapes of the constants, by name (`PathsType`, `LimitsType`, `WorkersType`,
`ReadersType`, `RangesType`), `ContentsType`, that the chunks of a content index are in blocks of it, and
`InputsType`:

* some path is a file, and the blocks of the store are sequences of chunks; they may overlap
  and have what they like in them;
* a version has finitely many paths, each with a sequence of chunks and one of two
  permissions (`IsVersion`), and none of its chunks is empty: `DynamicChunking` chunks only a
  file that is not (`longtail.c:1390`), and `HPCDCChunker_NextChunk` never returns a chunk of
  length 0 (`longtail_hpcdcchunker.c:338`);
* it is a tree (`IsTree`): the folders above a path are paths of the version, because
  `RecurseTree` goes into folders it has listed only (`longtail.c:981-1021`), and folders have no chunks.

That the versions are true, which `Sync` assumes of its start, is part of `Init`.

**`SyncInv`** says of every stage what the calls that have returned leave (`Stable`), of an
upload and of a read of a file how each job and its block go together (`Uploading`,
`Copying`), and while `WriteAssets` runs it is `WriteInv` and `JobsPlanned` of
`WriteVersionProofs`.

**`WriteInv`** is the hard part, since jobs create jobs.  By subject:

* `Graph`: a job waits for jobs that were created and are not complete; the counts are right;
* `JobsKnown`: the jobs are those of the blocks and parts that were begun;
* `ReaderFits`: what a read job is doing, by the state of the job and of its block, and who
  will dispose of the block;
* `BlockJobFits`: the same of a block and the job that writes its assets;
* `AssetFits`: where a chain of parts is.  `offset` is the part that was begun last; its
  readers may run while the one before it still writes, but then its sync job is only
  created, and nobody else readies that.  Parts begun earlier are over.  That is why two parts
  never write at once, although the jobs of both exist: `OneWriterPerFile` says it of one moment and is not
  inductive, for it does not say what keeps the next part from starting.

**`JobsPlanned`** is why the reservation is enough.  How many jobs the parts of an asset
take depends on which parts fail, but there is a finite set `P` of jobs, of at most as many
members as `WriteAssets` reserves, that holds every job created so far and every one that
the rest of `todo` and of each chain can create (`PlanFrom`).  It is chosen when
`WriteAssets` starts, and no step has to enlarge it; at the start its size is
compared with `AssetJobCount`, the sum the code makes.

**The content indexes.**  `IndexAlgebra` is no invariant that steps could break: it compares
folds and recursive functions over sequences with their definitions on sets.  What is
an induction over data elsewhere is one over numbers here: `WithoutSteps` and its like say that
a fold is a function on `0..Len(s)` whose value at `k` comes from that at `k - 1`, and
`RangeInduction` - a set of numbers with 0 in it that has the successor of each is all of them, from
`LeastNumber` - does the rest without an operator as a parameter.  So `Without`,
`UniqueHashes` and `InOrder` have the right members in the right order
(`WithoutMembers`, `IndexOf`), the blocks `CreateContentIndexRaw` fills are
grouped and within their limits (`RawExact`), and the operators are exact: `RetargetExact`, `MissingWhole`,
`MergeExact`, `AddExact`, `MissingExact`, `MergedIsValid`, `DiffExact`.

**The data of an upload** is `StoreKept`: the store has the blocks of the input and those that were put
without error, each with the data of its hash.  Only `WriteContent` puts, and what it puts
was read at the offset `AssetPart` gives (`BlockDataIsTrue`), which is that of the chunk
because no two chunks of a file begin at one offset (`OffsetsGrow`).

**The data of a download** is `FolderInv`.  By stage: the folder is the old version until
`ChangeVersion` has it change; then all but the assets of the call is as the new version has
it, but for permissions that are set at the end; then all of it is.  While `WriteAssets` runs it
is `DataInv` of `WriteVersionProofs`:

* `SourceFits`: each chunk of the assets is in the store, in the block the content index
  gives for it;
* `WorkKnown`: an asset has a job, or will have one;
* `BlockKept`: the assets of a block job that ended without error are whole;
* `FileKept`: an open file has all chunks of the parts that are over (`WrittenTo`).  A file that is
  closed is untouched, is whole, or its asset has failed, which is the error in its context, an
  error a part is about to set, or one that is known to be overwritten (`Failed`).  With the
  history variable `overwritten` left out this is false, and `sync_lost_error` shows why;
* `DirKept`, `DirsFit`: folders are folders, whether a job of their own made them or one of an asset below.

That a step of one job does not disturb the assets of the others is `Leaves`: what changes
elsewhere is only that folders of the version appear.  That two parts of one asset do not disturb one another is
`WriteInv`, so `RoundTrip` rests on all of `SyncInv`.

**The data of a read** is `ReadInv`, which goes from the handle to the buffer:

* `HandleFits`: the handle is at the first byte of one of the file's chunks, whether the last read
  went on, went back, or failed for memory.  A read from elsewhere seeks: `FindStartChunk`
  searches the offsets by halves, and ends in the chunk that has the byte, because
  offsets grow and its function is defined by numbers that shrink;
* `RangesFit`: each chunk the read has a part of is in the range of its block, a range
  begins at the offset of its first chunk, and no chunk but its last goes beyond the read;
* `BufferFills`: where a job has copied its block without error, all bytes that chunks of the block have
  in the read are right.  A job goes through its range with a copy position (`Steps`): chunks of other blocks
  are stepped over, so the position is that of the chunk, and what is written is either
  right or was there before; no job undoes what another has done, in whatever order the blocks come.

A chunk may be in several blocks of the store; the range of the block the content index gives has it,
and what a second block writes there is the same.  That the blocks can be had with
the right data is `StoreKept` again.  When a read returns every job has copied its block or has an error
(`Copied`), so each byte of the file in the read has been written, and `ReadIsWhole` adds the bytes up.

Lemmas of general use are in `JobSystemProofs`, which says what each operation does to a group and that
it keeps `Graph`, and in `ContentIndexProofs`.

`SyncInv` quantifies over all sets `P` and all offsets, which TLC cannot enumerate.
TLC checked it with bounds instead - `P` built from the plan of the call, offsets up to the length of
the asset - as an invariant of the instance of `sync_safety`, before it was proved.

### Only model-checked

* Liveness (`EveryGetAnswered`, `EveryFlushCompletes`, `EveryFlushEnds`, `SyncEnds`), and
  `NothingLeftWaiting`, which says `ENABLED`: out of the prover's reach.

## 6. What the models leave out

*In all modules:* statistics, logging, argument checks, the bytes of blocks.

*Share and LRU stores:* the calls that only forward (`PutStoredBlock`, `PreflightGet` and
`RetargetContent`).  The order within a wait list.  That a null pointer is written
through when `CreateLRUBlock` cannot allocate (`longtail_lrublockstore.c:170`).

*File system store:* temporary files, `PreflightGet`, and the jobs of `ReadContent`, taken
as one scan of the block files; while a scan runs under `m_Lock` its thread may execute a
job of another group (`fsblockstore.c:510`), for which `JobSystem` would need a second group.

*Cache and compress stores:* `PreflightGet`, which changes nothing of them.  That a block
which is stored uncompressed is disposed of through a null pointer when the backing store
refuses it (`compressblockstore.c:206`) is modelled as the end of the process ("crashed").

*Job system:* waits that nest, `CreateJobs` without memory (most callers assert that it
succeeds), a shed that is full, progress reports.

*Core library:* the reading and writing of index files, `GetPathEntriesForVersion` and other
functions that copy or measure indexes, chunking and hashing, and a source folder that changes
while it is uploaded: `Sync` assumes that version indexes are true.  In `WriteVersion` an
open file closes without error.

*Block store storage:* the look-up of paths, listing of directories, `IsDir`, `IsFile` and
permissions, which are searches in tables built once; two threads with one handle.  A Read of
a file without chunks, which divides by 0 (line 503).  That `cp` frees an index twice when the
store does not have the version (`main.c:1311`, `1318`): the model ends there.

*Not modelled at all:* indexing and chunking (a rolling hash over bytes, whose result the models
abstract to chunks), the storage back ends, the platform layer, the registries of hashes and
compression.  Of the 104,446 lines of C in the repository about 19,300 are longtail's own, with its tests;
the rest is vendored compression and hash code, so the share of all lines that a
model of longtail can stand for is small: the map covers about 7,300.

## 7. Plan

Done: `BlockLending`, `ShareBlockStore`; `LRUBlockStore`; `FSBlockStore`;
`CacheBlockStore` and `CompressBlockStore`; `ContentIndex`, `JobSystem`, `WriteContent`,
`WriteVersion`, `BlockStoreStorage` and `Sync`; the proofs about the four stores, and
those about `Sync`, the indexes, the upload, the download and the reads.

Next: a second job group, for waits that nest (`ReadContent` under `m_Lock`, and block store
storage used from within a job).

To check anything by hand, in this directory: `tlc -config MCShareBlockStore.cfg
MCShareBlockStore`, `tlapm ShareBlockStoreProofs.tla`.

------------------------------- MODULE SyncProofs -------------------------------
(***************************************************************************)
(* UpSync, DownSync and VersionIndex_cp keep their jobs, blocks and files  *)
(* in order, for any versions and store, any number of workers, and any    *)
(* failures; what is uploaded is what was missing, and what is downloaded  *)
(* is the version.  All the safety properties of Sync.                     *)
(***************************************************************************)
EXTENDS Sync, WriteVersionProofs

--------------------------------------------------------------------------------
(* The invariant *)

CopyStates == {"none", "asked", "lent", "disposed"}

Scalars ==
    /\ input \in Situations
    /\ stage \in Stages /\ result \in {"none", "ok", "failed", "cancelled", "read"}
    /\ failures \in 0..MaxFailures

(* The reading side: a handle, and a copier for each block of the last     *)
(* read.                                                                   *)
Reads ==
    /\ handle \in [path : Paths \ DirPaths, chunk : {handle.chunk}, pos : {handle.pos}]
    /\ reads \in 0..MaxReads
    /\ DOMAIN copier = DOMAIN read.ranges
    /\ copier \in [DOMAIN copier -> [err : {"ok", "failed"}, block : CopyStates]]

Puts == put \in [DOMAIN put -> [err : Errors, block : {"none", "lent", "disposed"}]]

(* The contexts of WriteAssets, which outlive it here.                     *)
Contexts ==
    /\ reader \in [DOMAIN reader -> [err : Errors, block : BlockStates]]
    /\ blockErr \in [DOMAIN blockErr -> Errors]
    /\ ctx \in [DOMAIN ctx -> [offset : Nat, file : BOOLEAN, err : Errors]]
    /\ part \in [DOMAIN part -> {"writing", "ok", "failed"}]
    /\ \A a \in DOMAIN ctx : ctx[a].offset \in 0..Len(AssetChunks(a))

GroupFits ==
    /\ IsGroup(group) /\ Counted(group)
    /\ Cardinality(Jobs(group)) <= group.reserved

(* What the calls that have returned, or are not yet made, leave.          *)
NoPartWrites ==
    \A a \in DOMAIN ctx : \A o \in 0..Len(AssetChunks(a)) : ~InPart(a, o, "writing")
NothingPut == \A h \in DOMAIN put : put[h].block # "lent"
NoContexts == reader = <<>> /\ blockErr = <<>> /\ ctx = <<>> /\ part = <<>>

Stable ==
    /\ stage \notin {"uploading", "writing", "copying", "abandoned"} => group.pending = 0
    /\ stage \notin {"writing", "permitting", "done", "abandoned"} => NoContexts
    /\ stage # "writing" => NoPartWrites
    /\ stage # "uploading" => NothingPut
    /\ stage \notin {"opened", "copying", "copied", "done"} => copier = <<>>
    /\ stage \in {"removing", "listing"} => CallType
    /\ stage \in {"opened", "copying", "copied"} => FileChunks \in Seq(Nat)

(* Nobody waits for a job, and a job is blocked while the store has its    *)
(* call.                                                                   *)
NoWaits == \A j \in Jobs(group) : group.waitsFor[j] = {}

Uploading ==
    /\ Jobs(group) = {PutJob(h) : h \in DOMAIN put} /\ NoWaits
    /\ \A h \in DOMAIN put :
         \/ group.job[PutJob(h)] \in {"ready", "complete"} /\ put[h].block # "lent"
         \/ group.job[PutJob(h)] = "blocked" /\ put[h].block = "lent"

Copying ==
    /\ Jobs(group) = {CopyJob(b) : b \in DOMAIN copier} /\ NoWaits
    /\ \A b \in DOMAIN copier :
         \/ group.job[CopyJob(b)] = "ready" /\ copier[b].block \in {"none", "lent"}
         \/ group.job[CopyJob(b)] = "blocked" /\ copier[b].block = "asked"
         \/ group.job[CopyJob(b)] = "complete" /\ copier[b].block \in {"none", "disposed"}

SyncInv ==
    /\ Scalars /\ Reads /\ Puts /\ Contexts /\ GroupFits /\ DiskShape /\ Stable
    /\ stage = "uploading" => Uploading
    /\ stage = "copying" => Copying
    /\ stage = "writing" => WriteInv /\ JobsPlanned

(* What it says is what is to be proved.                                   *)
LEMMA SyncInvTypes == SyncInv => TypeOK
<1> SUFFICES ASSUME SyncInv PROVE TypeOK
  OBVIOUS
<1>1. GroupType(group)
  BY GroupIsTyped DEF SyncInv, GroupFits
<1>2. PutType
  BY DEF SyncInv, Puts, PutType
<1>3. WriteVersionType
  <2>1. /\ \A j \in DOMAIN reader :
             /\ reader[j].err \in Errors
             /\ reader[j].block \in {"none", "asked", "empty", "lent", "disposed", "leaked",
                                    "twice"}
        /\ \A b \in DOMAIN blockErr : blockErr[b] \in Errors
    BY DEF SyncInv, Contexts, BlockStates
  <2>2. /\ \A a \in DOMAIN ctx : /\ ctx[a].offset \in 0..Len(AssetChunks(a))
                                 /\ ctx[a].file \in BOOLEAN /\ ctx[a].err \in Errors
        /\ \A j \in DOMAIN part : part[j] \in {"writing", "ok", "failed"}
    BY DEF SyncInv, Contexts
  <2>3. /\ DOMAIN disk = Paths
        /\ \A p \in Paths : disk[p].kind \in {"none", "dir", "file"}
        /\ overwritten \subseteq Paths
    BY DEF SyncInv, DiskShape, IsDisk, IsAsset
  <2> QED
    BY <2>1, <2>2, <2>3 DEF WriteVersionType
<1>4. ReadType
  <2>1. /\ handle.path \in Paths \ DirPaths
        /\ reads \in 0..MaxReads
        /\ DOMAIN copier = DOMAIN read.ranges
    BY DEF SyncInv, Reads
  <2>2. \A b \in DOMAIN copier : /\ copier[b].err \in {"ok", "failed"}
                                 /\ copier[b].block \in {"none", "asked", "lent", "disposed"}
    BY DEF SyncInv, Reads, CopyStates
  <2> QED
    BY <2>1, <2>2 DEF ReadType
<1>5. \E i \in Inputs : /\ input.old = i.old /\ input.new = i.new
                        /\ input.blocks = i.blocks /\ input.retain = i.retain
  BY DEF SyncInv, Scalars, Situations, Situation
<1> QED
  BY <1>1, <1>2, <1>3, <1>4, <1>5 DEF SyncInv, Scalars, TypeOK

(* One writer at a time, from the invariant of WriteAssets.                *)
LEMMA SyncInvWriters == SyncInv => OneWriterPerFile
<1> SUFFICES ASSUME SyncInv PROVE OneWriterPerFile
  OBVIOUS
<1>1. ASSUME NEW a \in DOMAIN ctx
      PROVE  LET writing == {o \in 0..Len(AssetChunks(a)) : InPart(a, o, "writing")} IN
             /\ Cardinality(writing) <= 1
             /\ \A o \in writing : /\ ctx[a].file
                                   /\ \A j \in PartReads(a, o) : reader[j].block = "lent"
  <2>1. CASE stage = "writing"
    BY <2>1, OneWriter DEF SyncInv
  <2>2. CASE stage # "writing"
    <3> DEFINE writing == {o \in 0..Len(AssetChunks(a)) : InPart(a, o, "writing")}
    <3>1. writing = {}
      BY <2>2 DEF SyncInv, Stable, NoPartWrites
    <3>2. Cardinality(writing) = 0
      BY <3>1, FS_EmptySet
    <3> QED
      BY <3>1, <3>2
  <2> QED
    BY <2>1, <2>2
<1>2. ASSUME stage = "writing", AllJobsDone(group) PROVE \A a \in DOMAIN ctx : ~ctx[a].file
  <2>1. \A j \in Jobs(group) : group.job[j] = "complete"
    BY <1>2, DoneFacts DEF SyncInv, GroupFits
  <2> QED
    BY <1>2, <2>1, NothingIsLeft DEF SyncInv
<1> QED
  BY <1>1, <1>2 DEF OneWriterPerFile

(* Blocks are disposed of once, from what is said of each job's block.     *)
LEMMA SyncInvBlocks == SyncInv => BlocksDisposedOnce
<1> SUFFICES ASSUME SyncInv PROVE BlocksDisposedOnce
  OBVIOUS
<1> DEFINE all == {reader[j].block : j \in DOMAIN reader} \cup {put[h].block : h \in DOMAIN put}
                   \cup {copier[b].block : b \in DOMAIN copier}
<1>1. "twice" \notin all
  <2>1. \A j \in DOMAIN reader : reader[j].block # "twice"
    BY DEF SyncInv, Contexts, BlockStates
  <2>2. \A h \in DOMAIN put : put[h].block # "twice"
    BY DEF SyncInv, Puts
  <2>3. \A b \in DOMAIN copier : copier[b].block # "twice"
    BY DEF SyncInv, Reads, CopyStates
  <2> QED
    BY <2>1, <2>2, <2>3
<1>2. ASSUME stage \in {"uploading", "writing", "copying"}, AllJobsDone(group)
      PROVE  all \cap {"asked", "lent"} = {}
  <2>1. \A j \in Jobs(group) : group.job[j] = "complete"
    BY <1>2, DoneFacts DEF SyncInv, GroupFits
  <2>2. \A j \in DOMAIN reader : reader[j].block \notin {"asked", "lent"}
    <3>1. CASE stage = "writing"
      BY <2>1, <3>1, NothingIsLeft DEF SyncInv
    <3>2. CASE stage # "writing"
      BY <1>2, <3>2 DEF SyncInv, Stable, NoContexts
    <3> QED
      BY <3>1, <3>2
  <2>3. \A h \in DOMAIN put : put[h].block \notin {"asked", "lent"}
    <3>1. \A h \in DOMAIN put : put[h].block # "asked"
      BY DEF SyncInv, Puts
    <3>2. CASE stage = "uploading"
      BY <2>1, <3>1, <3>2 DEF SyncInv, Uploading
    <3>3. CASE stage # "uploading"
      BY <3>1, <3>3 DEF SyncInv, Stable, NothingPut
    <3> QED
      BY <3>2, <3>3
  <2>4. \A b \in DOMAIN copier : copier[b].block \notin {"asked", "lent"}
    <3>1. CASE stage = "copying"
      BY <2>1, <3>1 DEF SyncInv, Copying
    <3>2. CASE stage # "copying"
      BY <1>2, <3>2 DEF SyncInv, Stable
    <3> QED
      BY <3>1, <3>2
  <2> QED
    BY <2>2, <2>3, <2>4
<1> QED
  BY <1>1, <1>2 DEF BlocksDisposedOnce

(* The reservation suffices, from the count of the group.                  *)
LEMMA SyncInvJobs == SyncInv => JobsFitReservation
BY DEF SyncInv, GroupFits, Counted, Stable, JobsFitReservation

--------------------------------------------------------------------------------
(* What a behaviour starts from *)

(* The new version is of a folder; what is missing of it is a sequence of  *)
(* blocks, and what changes is of the new version.                         *)
LEMMA InputFacts ==
    ASSUME input \in Situations
    PROVE  /\ DOMAIN input.new \subseteq Paths /\ IsFiniteSet(DOMAIN input.new)
           /\ \A p \in DOMAIN input.new : input.new[p].chunks \in Seq(Nat)
           /\ \E B : input.missing.blocks \in Seq(B)
           /\ input.diff.added \cup input.diff.modified \subseteq DOMAIN input.new
<1>1. PICK i \in Inputs : input = Situation(i)
  BY DEF Situations
<1>2. input.new = i.new /\ input.missing = Missing(i) /\ input.diff = Diff(i)
  BY <1>1 DEF Situation
<1>3. IsVersion(i.new) /\ IsFolder(i.new) /\ HaveSizes(ChunksOf(i.new, DOMAIN i.new))
  BY InputsType, VersionFacts
<1>4. Missing(i).blocks \in Seq(Seq(Nat))
  <2>1. IsContent(Missing(i))
    BY <1>3, MissingExact DEF Missing
  <2> QED
    BY <2>1 DEF IsContent
<1>5. Diff(i).added \cup Diff(i).modified \subseteq DOMAIN i.new
  BY DEF Diff, CreateVersionDiff
<1> QED
  BY <1>2, <1>3, <1>4, <1>5 DEF IsVersion, IsFolder

(* The group of a call that creates all its jobs at once.                  *)
LEMMA StartedGroup ==
    ASSUME NEW n \in Nat, NEW js, IsFiniteSet(js), Cardinality(js) <= n,
           NEW g, g = WaitForJobs(ReadyJobs(CreateJobs(NewGroup(n), js), js))
    PROVE  /\ IsGroup(g) /\ Counted(g) /\ Jobs(g) = js /\ g.reserved = n
           /\ \A j \in js : g.job[j] = "ready" /\ g.waitsFor[j] = {}
<1> DEFINE g0 == NewGroup(n)
           g1 == CreateJobs(g0, js)
           g2 == ReadyJobs(g1, js)
<1>0. IsGroup(g0) /\ Counted(g0)
  BY NewGroupFacts
<1>1. Jobs(g0) = {} /\ g0.reserved = n
  BY NewGroupFacts
<1> HIDE DEF g0
<1>2. /\ IsGroup(g1) /\ Counted(g1) /\ Jobs(g1) = js /\ g1.reserved = n
      /\ \A j \in js : g1.job[j] = "created" /\ g1.waitsFor[j] = {}
  <2>1. js \cap Jobs(g0) = {}
    BY <1>1
  <2>2. ASSUME NEW h, h = CreateJobs(g0, js)
        PROVE  /\ IsGroup(h) /\ Counted(h) /\ SameCall(g0, h)
               /\ Jobs(h) = Jobs(g0) \cup js
               /\ \A j \in js : h.job[j] = "created" /\ h.waitsFor[j] = {}
    BY ONLY IsFiniteSet(js), <1>0, <2>1, <2>2, CreateJobsFacts
  <2> QED
    BY <1>1, <2>2 DEF SameCall
<1> HIDE DEF g1
<1>3. /\ IsGroup(g2) /\ Counted(g2) /\ Jobs(g2) = js /\ g2.reserved = n
      /\ \A j \in js : g2.job[j] = "ready" /\ g2.waitsFor[j] = {}
  <2>1. \A j \in js \cap Jobs(g1) : g1.job[j] # "complete"
    BY <1>2
  <2> HIDE DEF g2
  <2>2. /\ IsGroup(g2) /\ Counted(g2) /\ SameCall(g1, g2)
        /\ Jobs(g2) = Jobs(g1) /\ g2.waitsFor = g1.waitsFor
        /\ \A j \in js \cap Jobs(g1) : g2.job[j] = "ready"
    BY <1>2, <2>1, ReadyJobsFacts DEF g2
  <2> QED
    BY <1>2, <2>2 DEF SameCall
<1> HIDE DEF g2
<1>4. g = WaitForJobs(g2)
  BY DEF g0, g1, g2
<1>5. IsGroup(g) /\ Counted(g) /\ Jobs(g) = Jobs(g2) /\ g.job = g2.job /\ g.waitsFor = g2.waitsFor
  BY <1>3, <1>4, WaitFacts
<1>6. g.reserved = g2.reserved
  BY <1>3, <1>4 DEF WaitForJobs, IsGroup
<1> QED
  BY <1>3, <1>5, <1>6

(* A behaviour starts with no job, block or file at hand.                  *)
LEMMA InitInv == Init => SyncInv
<1> SUFFICES ASSUME Init PROVE SyncInv
  OBVIOUS
<1>1. Scalars
  BY InputsType DEF Init, Scalars, Stages
<1>2. Reads
  <2> DEFINE files == Paths \ DirPaths
  <2>1. files \in SUBSET Nat /\ files # {}
    BY PathsType, InputsType
  <2>2. PICK m \in files : \A k \in files : m <= k
    <3> HIDE DEF files
    <3> QED
      BY <2>1, LeastNumber
  <2>3. Min(files) \in files
    BY <2>2 DEF Min
  <2>4. handle = [path |-> Min(files), chunk |-> 1, pos |-> 0]
    BY DEF Init, OpenReadFile
  <2>5. DOMAIN copier = DOMAIN read.ranges /\ copier = <<>> /\ reads = 0
    BY DEF Init, NoRead
  <2> HIDE DEF files
  <2>6. handle \in [path : files, chunk : {handle.chunk}, pos : {handle.pos}]
    BY <2>3, <2>4
  <2> QED
    BY <2>5, <2>6, InputsType DEF Reads, files
<1>3. Puts /\ Contexts
  BY DEF Init, Puts, Contexts
<1>4. GroupFits /\ group.pending = 0 /\ Jobs(group) = {}
  <2>1. /\ IsGroup(group) /\ Counted(group) /\ Jobs(group) = {}
        /\ group.reserved = 0 /\ group.pending = 0
    BY NewGroupFacts DEF Init
  <2> QED
    BY <2>1, FS_EmptySet DEF GroupFits
<1>5. DiskShape
  <2>1. IsDisk(disk)
    BY DEF Init, IsDisk, IsAsset, Nothing
  <2> QED
    BY <2>1 DEF Init, DiskShape
<1>6. Stable
  BY <1>4 DEF Init, Stable, NoContexts, NoPartWrites, NothingPut
<1> QED
  BY <1>1, <1>2, <1>3, <1>4, <1>5, <1>6 DEF SyncInv, Init

(* A step outside of the calls that have jobs, and into no other one.      *)
LEMMA Settles ==
    ASSUME SyncInv, UNCHANGED <<coreRest, input>>, IsDisk(disk)',
           stage' \in Stages \ {"uploading", "writing", "copying"},
           result' \in {"none", "ok", "failed", "cancelled", "read"},
           failures' \in 0..MaxFailures,
           stage' = "abandoned" \/ group.pending = 0,
           stage' \in {"permitting", "done", "abandoned"} \/ NoContexts,
           NoPartWrites, NothingPut,
           stage' \in {"opened", "copied", "done"} \/ copier = <<>>,
           stage' \in {"removing", "listing"} => CallType',
           stage' \in {"opened", "copied"} => (FileChunks \in Seq(Nat))',
           call' = call \/ NoContexts
    PROVE  SyncInv'
<1>1. UNCHANGED <<group, put, reader, blockErr, ctx, part, todo, overwritten,
                  handle, read, copier, buffer, reads>>
  BY DEF coreRest, contextVars, readVars
<1>2. Scalars'
  BY DEF SyncInv, Scalars
<1>3. Reads' /\ Puts'
  BY <1>1 DEF SyncInv, Reads, Puts
<1>4. \A a \in DOMAIN ctx' : AssetChunks(a)' = AssetChunks(a)
  BY <1>1 DEF NoContexts, AssetChunks
<1>5. Contexts'
  BY <1>1, <1>4 DEF SyncInv, Contexts
<1>6. GroupFits' /\ DiskShape'
  BY <1>1 DEF SyncInv, GroupFits, DiskShape
<1>7. Stable'
  <2>1. stage' \notin {"writing", "permitting", "done", "abandoned"} => NoContexts'
    BY <1>1 DEF NoContexts
  <2>2. NoPartWrites'
    BY <1>1, <1>4 DEF NoPartWrites, InPart
  <2>3. NothingPut'
    BY <1>1 DEF NothingPut
  <2> QED
    BY <1>1, <2>1, <2>2, <2>3 DEF Stable
<1> QED
  BY <1>2, <1>3, <1>5, <1>6, <1>7 DEF SyncInv

--------------------------------------------------------------------------------
(* The steps between the calls that have jobs *)

(* Where no call is running nothing is left of one.                        *)
LEMMA NothingRuns ==
    ASSUME SyncInv, stage \notin {"uploading", "writing", "copying", "abandoned"}
    PROVE  /\ group.pending = 0 /\ NoPartWrites /\ NothingPut
           /\ stage \in {"begin", "uploaded", "found", "removing", "listing", "opened", "copied"}
                => NoContexts
           /\ stage \in {"begin", "uploaded", "found", "removing", "listing", "permitting"}
                => copier = <<>>
           /\ stage \in {"removing", "listing"} => CallType
           /\ stage \in {"opened", "copied"} => FileChunks \in Seq(Nat)
BY DEF SyncInv, Stable

(* Failures are counted up to their bound.                                 *)
LEMMA FailureCounts == ASSUME SyncInv, Fail \/ NoFail PROVE failures' \in 0..MaxFailures
BY InputsType DEF SyncInv, Scalars, Fail, NoFail

(* A call that ends, or that there is nothing to do for.                   *)
LEMMA CallsEnd ==
    ASSUME SyncInv,
           \/ UploadNothing \/ SkipUpload \/ PreparationFails \/ ListFails
           \/ OpenRefused \/ CloseVersionFile
    PROVE  SyncInv'
<1>1. /\ stage \in {"begin", "uploaded", "found", "removing", "listing", "opened", "copied"}
      /\ stage' \in {"uploaded", "found", "done"}
      /\ stage \in {"opened", "copied"} => stage' = "done"
      /\ result' \in {result, "failed", "read"} /\ (Fail \/ NoFail)
      /\ UNCHANGED <<coreRest, call, disk, input>>
  BY DEF UploadNothing, SkipUpload, PreparationFails, ListFails, OpenRefused,
         CloseVersionFile, Finish
<1>2. stage' \in Stages \ {"uploading", "writing", "copying"}
  BY <1>1 DEF Stages
<1>3. IsDisk(disk)' /\ result' \in {"none", "ok", "failed", "cancelled", "read"}
  BY <1>1 DEF SyncInv, DiskShape, IsDisk, Scalars
<1>4. /\ group.pending = 0 /\ NoPartWrites /\ NothingPut /\ NoContexts
      /\ stage' = "done" \/ copier = <<>>
  BY <1>1, NothingRuns
<1> QED
  BY <1>1, <1>2, <1>3, <1>4, FailureCounts, Settles

(* The call gets its assets from the new version.                          *)
LEMMA PlansEnd == ASSUME SyncInv, PlanWriteVersion \/ PlanChangeVersion PROVE SyncInv'
<1>1. /\ stage \in {"uploaded", "found"} /\ stage' \in {"listing", "removing", "done"}
      /\ result' \in {result, "ok"} /\ NoFail
      /\ UNCHANGED <<coreRest, disk, input>>
  BY DEF PlanWriteVersion, PlanChangeVersion, Finish
<1>2. stage' \in {"removing", "listing"} =>
        call'.version = input.new /\ call'.assets \subseteq DOMAIN input.new
  BY InputFacts DEF PlanWriteVersion, PlanChangeVersion, Finish, SyncInv, Scalars
<1>3. ASSUME stage' \in {"removing", "listing"} PROVE CallType'
  <2>1. /\ DOMAIN input.new \subseteq Paths /\ IsFiniteSet(DOMAIN input.new)
        /\ \A p \in DOMAIN input.new : input.new[p].chunks \in Seq(Nat)
    BY InputFacts DEF SyncInv, Scalars
  <2>2. call'.assets \subseteq Paths /\ IsFiniteSet(call'.assets)
    BY <1>2, <1>3, <2>1, FS_Subset
  <2>3. \A a \in call'.assets : call'.version[a].chunks \in Seq(Nat)
    BY <1>2, <1>3, <2>1
  <2> QED
    BY <2>2, <2>3 DEF CallType, AssetChunks
<1>4. stage' \in Stages \ {"uploading", "writing", "copying"}
  BY <1>1 DEF Stages
<1>5. IsDisk(disk)' /\ result' \in {"none", "ok", "failed", "cancelled", "read"}
  BY <1>1 DEF SyncInv, DiskShape, IsDisk, Scalars
<1>6. group.pending = 0 /\ NoPartWrites /\ NothingPut /\ NoContexts /\ copier = <<>>
  BY <1>1, NothingRuns
<1> QED
  BY <1>1, <1>3, <1>4, <1>5, <1>6, FailureCounts, Settles

(* Assets are removed, and the permissions of some others are set.         *)
FolderChanges(gone, some, perm) ==
    disk' = [p \in Paths |-> IF p \in gone THEN Nothing
                             ELSE IF p \in some THEN [disk[p] EXCEPT !.perm = perm[p]]
                             ELSE disk[p]]

(* The folder stays one.                                                   *)
LEMMA FoldersChange ==
    ASSUME IsDisk(disk), NEW gone, NEW some, NEW perm, FolderChanges(gone, some, perm)
    PROVE  IsDisk(disk)'
<1>0. disk' = [p \in Paths |-> IF p \in gone THEN Nothing
                               ELSE IF p \in some THEN [disk[p] EXCEPT !.perm = perm[p]]
                               ELSE disk[p]]
  BY DEF FolderChanges
<1>1. ASSUME NEW p \in Paths PROVE IsAsset(disk'[p])
  <2>1. IsAsset(disk[p]) /\ IsAsset(Nothing)
    BY DEF IsDisk, IsAsset, Nothing
  <2>2. IsAsset([disk[p] EXCEPT !.perm = perm[p]])
    <3> DEFINE x == disk[p]
    <3>1. /\ x = [kind |-> x.kind, chunks |-> x.chunks, perm |-> x.perm]
          /\ x.kind \in {"none", "dir", "file"}
      BY <2>1 DEF IsAsset
    <3> HIDE DEF x
    <3>2. IsAsset([x EXCEPT !.perm = perm[p]])
      BY <3>1 DEF IsAsset
    <3> QED
      BY <3>2 DEF x
  <2> QED
    BY <1>0, <2>1, <2>2
<1>2. disk' = [p \in Paths |-> disk'[p]]
  BY <1>0
<1> QED
  BY <1>1, <1>2 DEF IsDisk

(* The assets that are gone are removed, or some of them are not.          *)
LEMMA RemovalsEnd ==
    ASSUME SyncInv, RemoveAssets \/ RemoveFails \/ RemoveReportsError PROVE SyncInv'
<1>1. /\ stage = "removing" /\ stage' \in {"permitting", "listing", "done"}
      /\ result' \in {result, "failed"} /\ (Fail \/ NoFail)
      /\ UNCHANGED <<coreRest, call, input>>
  BY DEF RemoveAssets, RemoveFails, RemoveReportsError, Finish
<1>2. IsDisk(disk)'
  <2>1. CASE RemoveAssets \/ RemoveReportsError
    <3> DEFINE gone == diff.removed
               some == {}
    <3>1. FolderChanges(gone, some, disk)
      BY <2>1 DEF RemoveAssets, RemoveReportsError, FolderChanges
    <3> HIDE DEF gone, some
    <3> QED
      BY <3>1, FoldersChange DEF SyncInv, DiskShape
  <2>2. CASE RemoveFails
    <3>1. PICK kept \in SUBSET diff.removed \ {{}} :
            \E opened \in SUBSET kept :
              disk' = [p \in Paths |-> IF p \in diff.removed \ kept THEN Nothing
                                       ELSE IF p \in opened THEN [disk[p] EXCEPT !.perm = "rw"]
                                       ELSE disk[p]]
      BY <2>2 DEF RemoveFails
    <3>2. PICK opened \in SUBSET kept :
              disk' = [p \in Paths |-> IF p \in diff.removed \ kept THEN Nothing
                                       ELSE IF p \in opened THEN [disk[p] EXCEPT !.perm = "rw"]
                                       ELSE disk[p]]
      BY <3>1
    <3> DEFINE gone == diff.removed \ kept
               perm == [p \in Paths |-> "rw"]
    <3>3. FolderChanges(gone, opened, perm)
      BY <3>2 DEF FolderChanges
    <3> HIDE DEF gone, perm
    <3> QED
      BY <3>3, FoldersChange DEF SyncInv, DiskShape
  <2> QED
    BY <1>1, <2>1, <2>2
<1>3. CallType'
  <2>1. CallType
    BY <1>1, NothingRuns
  <2> QED
    BY <1>1, <2>1 DEF CallType, AssetChunks
<1>4. stage' \in Stages \ {"uploading", "writing", "copying"}
  BY <1>1 DEF Stages
<1>5. result' \in {"none", "ok", "failed", "cancelled", "read"}
  BY <1>1 DEF SyncInv, Scalars
<1>6. group.pending = 0 /\ NoPartWrites /\ NothingPut /\ NoContexts /\ copier = <<>>
  BY <1>1, NothingRuns
<1> QED
  BY <1>1, <1>2, <1>3, <1>4, <1>5, <1>6, FailureCounts, Settles

(* ChangeVersion sets what permissions it has to, and returns.             *)
LEMMA PermissionsEnd == ASSUME SyncInv, SetPermissions PROVE SyncInv'
<1>1. /\ stage = "permitting" /\ stage' = "done" /\ result' \in {"ok", "failed"}
      /\ (Fail \/ NoFail) /\ UNCHANGED <<coreRest, call, input>>
  BY DEF SetPermissions, Finish
<1>2. IsDisk(disk)'
  <2>1. \E some : disk' = [p \in Paths |-> IF p \in some
                                    THEN [disk[p] EXCEPT !.perm = input.new[p].perm]
                                    ELSE disk[p]]
    <3>1. CASE \E some : disk' = [p \in Paths |-> IF p \in some
                                    THEN [disk[p] EXCEPT !.perm = input.new[p].perm]
                                    ELSE disk[p]]
      BY <3>1
    <3>2. CASE disk' = [p \in Paths |-> IF call.retain /\ p \in diff.permissions
                                        THEN [disk[p] EXCEPT !.perm = input.new[p].perm]
                                        ELSE disk[p]]
      <4> DEFINE some == {p \in diff.permissions : call.retain}
      <4>1. disk' = [p \in Paths |-> IF p \in some
                                    THEN [disk[p] EXCEPT !.perm = input.new[p].perm]
                                    ELSE disk[p]]
        BY <3>2
      <4> HIDE DEF some
      <4> QED
        BY <4>1
    <3> QED
      BY <3>1, <3>2 DEF SetPermissions
  <2>2. PICK some : disk' = [p \in Paths |-> IF p \in some
                                    THEN [disk[p] EXCEPT !.perm = input.new[p].perm]
                                    ELSE disk[p]]
    BY <2>1
  <2> DEFINE gone == {}
             perm == [p \in Paths |-> input.new[p].perm]
  <2>3. FolderChanges(gone, some, perm)
    BY <2>2 DEF FolderChanges
  <2> HIDE DEF gone, perm
  <2> QED
    BY <2>3, FoldersChange DEF SyncInv, DiskShape
<1>3. stage' \in Stages \ {"uploading", "writing", "copying"}
  BY <1>1 DEF Stages
<1>4. group.pending = 0 /\ NoPartWrites /\ NothingPut
  BY <1>1, NothingRuns
<1> QED
  BY <1>1, <1>2, <1>3, <1>4, FailureCounts, Settles

--------------------------------------------------------------------------------
(* A call that had jobs returns *)

(* WriteContent returns: the store has answered each call.                 *)
LEMMA UploadEnds == ASSUME SyncInv, EndUpload PROVE SyncInv'
<1>1. /\ stage = "uploading" /\ AllJobsDone(group) /\ stage' \in {"uploaded", "done"}
      /\ result' \in {result, "ok", "failed", "cancelled"} /\ NoFail
      /\ UNCHANGED <<coreRest, call, disk, input>>
  BY DEF EndUpload, Finish, WriteContentResult
<1>2. group.pending = 0 /\ \A j \in Jobs(group) : group.job[j] = "complete"
  BY <1>1, DoneFacts DEF SyncInv, GroupFits
<1>3. NothingPut
  BY <1>1, <1>2 DEF SyncInv, Uploading, NothingPut
<1>4. NoContexts /\ NoPartWrites /\ copier = <<>>
  BY <1>1 DEF SyncInv, Stable
<1>5. stage' \in Stages \ {"uploading", "writing", "copying"}
  BY <1>1 DEF Stages
<1>6. IsDisk(disk)' /\ result' \in {"none", "ok", "failed", "cancelled", "read"}
  BY <1>1 DEF SyncInv, DiskShape, IsDisk, Scalars
<1> QED
  BY <1>1, <1>2, <1>3, <1>4, <1>5, <1>6, FailureCounts, Settles

(* WriteAssets returns: no part is at work.                                *)
LEMMA WritingEnds == ASSUME SyncInv, EndWriteAssets PROVE SyncInv'
<1>1. /\ stage = "writing" /\ AllJobsDone(group) /\ stage' \in {"permitting", "done"}
      /\ result' \in {result, "ok", "failed", "cancelled"} /\ NoFail
      /\ UNCHANGED <<coreRest, call, disk, input>>
  BY DEF EndWriteAssets, Finish, WriteAssetsResult
<1>2. group.pending = 0 /\ \A j \in Jobs(group) : group.job[j] = "complete"
  BY <1>1, DoneFacts DEF SyncInv, GroupFits
<1>3. NoPartWrites
  BY <1>1, <1>2, NothingIsLeft DEF SyncInv, NoPartWrites
<1>4. NothingPut /\ copier = <<>>
  BY <1>1 DEF SyncInv, Stable
<1>5. stage' \in Stages \ {"uploading", "writing", "copying"}
  BY <1>1 DEF Stages
<1>6. IsDisk(disk)' /\ result' \in {"none", "ok", "failed", "cancelled", "read"}
  BY <1>1 DEF SyncInv, DiskShape, IsDisk, Scalars
<1> QED
  BY <1>1, <1>2, <1>3, <1>4, <1>5, <1>6, FailureCounts, Settles

(* The one return that leaves jobs behind: it comes before the first       *)
(* context of an asset.                                                    *)
LEMMA WritingIsAbandoned == ASSUME SyncInv, AssetContextsFail PROVE SyncInv'
<1>1. /\ stage = "writing" /\ ctx = <<>> /\ stage' \in {"done", "abandoned"}
      /\ stage' = "abandoned" \/ group.pending = 0
      /\ result' \in {result, "failed"} /\ Fail
      /\ UNCHANGED <<coreRest, call, disk, input>>
  BY DEF AssetContextsFail, Finish
<1>2. NoPartWrites
  BY <1>1 DEF NoPartWrites
<1>3. NothingPut /\ copier = <<>>
  BY <1>1 DEF SyncInv, Stable
<1>4. stage' \in Stages \ {"uploading", "writing", "copying"}
  BY <1>1 DEF Stages
<1>5. IsDisk(disk)' /\ result' \in {"none", "ok", "failed", "cancelled", "read"}
  BY <1>1 DEF SyncInv, DiskShape, IsDisk, Scalars
<1> QED
  BY <1>1, <1>2, <1>3, <1>4, <1>5, FailureCounts, Settles

(* Read returns.                                                           *)
LEMMA ReadEnds == ASSUME SyncInv, EndRead PROVE SyncInv'
<1>1. /\ stage = "copying" /\ AllJobsDone(group) /\ stage' = "copied"
      /\ NoFail /\ UNCHANGED <<coreRest, call, disk, input, result>>
  BY DEF EndRead
<1>2. group.pending = 0
  BY <1>1 DEF AllJobsDone
<1>3. NoContexts /\ NoPartWrites /\ NothingPut /\ FileChunks \in Seq(Nat)
  BY <1>1 DEF SyncInv, Stable
<1>4. stage' \in Stages \ {"uploading", "writing", "copying"}
  BY <1>1 DEF Stages
<1>5. IsDisk(disk)' /\ result' \in {"none", "ok", "failed", "cancelled", "read"}
  BY <1>1 DEF SyncInv, DiskShape, IsDisk, Scalars
<1>6. (FileChunks \in Seq(Nat))'
  BY <1>1, <1>3 DEF FileChunks, coreRest, readVars
<1> QED
  BY <1>1, <1>2, <1>3, <1>4, <1>5, <1>6, FailureCounts, Settles

--------------------------------------------------------------------------------
(* A call that has jobs begins *)

(* WriteContent makes a job for each block.                                *)
LEMMA UploadStarts == ASSUME SyncInv, StartUpload PROVE SyncInv'
<1> DEFINE blocks == input.missing.blocks
           n == Len(blocks)
           js == {PutJob(h) : h \in ToSet(blocks)}
<1>1. /\ stage = "begin" /\ stage' = "uploading" /\ UNCHANGED <<input, result, disk, overwritten>>
      /\ UNCHANGED contextVars /\ UNCHANGED readVars /\ NoFail
      /\ group' = WaitForJobs(ReadyJobs(CreateJobs(NewGroup(n), js), js))
      /\ put' = [h \in ToSet(blocks) |-> [err |-> "initial", block |-> "none"]]
  BY DEF StartUpload, StartWriteContent
<1>2. /\ NoContexts /\ copier = <<>>
  BY <1>1, NothingRuns
<1>3. n \in Nat /\ IsFiniteSet(js) /\ Cardinality(js) <= n
  <2>1. PICK B : blocks \in Seq(B)
    BY InputFacts DEF SyncInv, Scalars
  <2>2. n \in Nat /\ DOMAIN blocks = 1..n
    BY <2>1
  <2> DEFINE f == [i \in 1..n |-> PutJob(blocks[i])]
  <2>3. f \in Surjection(1..n, js)
    BY <2>2 DEF Surjection, ToSet
  <2>4. IsFiniteSet(1..n) /\ Cardinality(1..n) = n
    BY <2>2, FS_Interval
  <2> HIDE DEF n, js, f
  <2>5. IsFiniteSet(js) /\ Cardinality(js) <= Cardinality(1..n)
    BY <2>3, <2>4, FS_Surjection
  <2> QED
    BY <2>2, <2>4, <2>5
<1>4. /\ IsGroup(group') /\ Counted(group') /\ Jobs(group') = js /\ group'.reserved = n
      /\ \A j \in js : group'.job[j] = "ready" /\ group'.waitsFor[j] = {}
  <2> HIDE DEF n, js
  <2> QED
    BY <1>1, <1>3, StartedGroup
<1>5. GroupFits'
  BY <1>3, <1>4 DEF GroupFits
<1>6. Uploading'
  <2>1. js = {PutJob(h) : h \in DOMAIN put'}
    BY <1>1
  <2>2. NoWaits'
    BY <1>4 DEF NoWaits
  <2>3. \A h \in DOMAIN put' : group'.job[PutJob(h)] = "ready" /\ put'[h].block = "none"
    BY <1>1, <1>4
  <2>4. \A h : PutJob(h)' = PutJob(h)
    BY DEF PutJob
  <2> QED
    BY <1>4, <2>1, <2>2, <2>3, <2>4 DEF Uploading
<1>7. UNCHANGED <<reader, blockErr, ctx, part, handle, read, copier, buffer, reads>>
  BY <1>1 DEF contextVars, readVars
<1>8. Scalars'
  BY <1>1 DEF SyncInv, Scalars, Stages, NoFail
<1>9. Reads' /\ Contexts' /\ Puts'
  <2>1. Reads'
    BY <1>7 DEF SyncInv, Reads
  <2>2. Contexts'
    BY <1>2, <1>7 DEF NoContexts, Contexts
  <2>3. Puts'
    BY <1>1 DEF Puts, Errors
  <2> QED
    BY <2>1, <2>2, <2>3
<1>10. DiskShape'
  BY <1>1 DEF SyncInv, DiskShape
<1>11. Stable'
  BY <1>1, <1>2, <1>7 DEF Stable, NoContexts, NoPartWrites
<1> QED
  BY <1>1, <1>5, <1>6, <1>8, <1>9, <1>10, <1>11 DEF SyncInv

(* WriteAssets makes its group, with no job yet.                           *)
LEMMA WritingStarts == ASSUME SyncInv, ListAssets PROVE SyncInv'
<1>1. /\ stage = "listing" /\ stage' = "writing" /\ StartWriteAssets
      /\ UNCHANGED readVars /\ UNCHANGED <<input, result>>
  BY DEF ListAssets
<1>2. CallType /\ NothingPut /\ copier = <<>>
  BY <1>1, NothingRuns
<1>3. WriteInv' /\ JobsPlanned'
  BY <1>1, <1>2, StartWriteAssetsStep DEF SyncInv
<1>4. /\ reader' = <<>> /\ blockErr' = <<>> /\ ctx' = <<>> /\ part' = <<>>
      /\ NoFail /\ UNCHANGED put
  BY <1>1 DEF StartWriteAssets, uploadVars
<1>5. UNCHANGED <<handle, read, copier, buffer, reads>>
  BY <1>1 DEF readVars
<1>6. Scalars'
  BY <1>1, <1>4 DEF SyncInv, Scalars, Stages, NoFail
<1>7. Reads' /\ Contexts' /\ Puts'
  <2>1. Reads'
    BY <1>5 DEF SyncInv, Reads
  <2>2. Contexts'
    BY <1>4 DEF Contexts
  <2>3. Puts'
    BY <1>4 DEF SyncInv, Puts
  <2> QED
    BY <2>1, <2>2, <2>3
<1>8. GroupFits'
  <2>1. IsGroup(group)' /\ Counted(group)'
    BY <1>3 DEF WriteInv, WriteShapes
  <2>2. (IsGroup(group) /\ JobsPlanned => Cardinality(Jobs(group)) <= group.reserved)'
    BY PlanFits, PTL
  <2> QED
    BY <1>3, <2>1, <2>2 DEF GroupFits
<1>9. DiskShape'
  BY <1>3 DEF WriteInv
<1>10. Stable'
  BY <1>1, <1>2, <1>4, <1>5 DEF Stable, NothingPut
<1> QED
  BY <1>1, <1>3, <1>6, <1>7, <1>8, <1>9, <1>10 DEF SyncInv

(* A file of the version is opened.                                        *)
LEMMA FileOpens == ASSUME SyncInv, OpenVersionFile PROVE SyncInv'
<1>1. /\ stage \in {"uploaded", "found"} /\ stage' = "opened"
      /\ call'.version = input.new
      /\ UNCHANGED <<group, put, contextVars, overwritten, read, copier, reads,
                     disk, input, result, failures>>
  BY DEF OpenVersionFile, NoFail
<1>2. PICK p \in DOMAIN input.new \ DirPaths : handle' = OpenReadFile(p)
  BY DEF OpenVersionFile
<1>3. handle' = [path |-> p, chunk |-> 1, pos |-> 0]
  BY <1>2 DEF OpenReadFile
<1>4. p \in Paths /\ input.new[p].chunks \in Seq(Nat)
  BY <1>2, InputFacts DEF SyncInv, Scalars
<1>5. group.pending = 0 /\ NothingPut /\ NoContexts /\ copier = <<>>
  BY <1>1, NothingRuns
<1>6. UNCHANGED <<reader, blockErr, ctx, part>>
  BY <1>1 DEF contextVars
<1>7. Scalars'
  BY <1>1 DEF SyncInv, Scalars, Stages
<1>8. Reads'
  BY <1>1, <1>2, <1>3, <1>4 DEF SyncInv, Reads
<1>9. Contexts' /\ Puts'
  BY <1>1, <1>5, <1>6 DEF SyncInv, NoContexts, Contexts, Puts
<1>10. GroupFits' /\ DiskShape'
  BY <1>1 DEF SyncInv, GroupFits, DiskShape
<1>11. (FileChunks \in Seq(Nat))'
  BY <1>1, <1>3, <1>4 DEF FileChunks
<1>12. Stable'
  BY <1>1, <1>5, <1>6, <1>11 DEF Stable, NoContexts, NoPartWrites, NothingPut
<1> QED
  BY <1>1, <1>7, <1>8, <1>9, <1>10, <1>12 DEF SyncInv

--------------------------------------------------------------------------------
(* The jobs of UpSync and of Read *)

(* One job moves, of jobs that do not wait for each other.                 *)
Moves(g, h, j, s) ==
    /\ IsGroup(h) /\ Counted(h) /\ h.reserved = g.reserved /\ Jobs(h) = Jobs(g)
    /\ \A k \in Jobs(g) : h.waitsFor[k] = {}
    /\ h.job[j] = s
    /\ \A k \in Jobs(g) \ {j} : h.job[k] = g.job[k]

(* What EndJob, BlockJob and ResumeJob do to such a job.                   *)
LEMMA OneJobMoves ==
    ASSUME NEW g, IsGroup(g), Counted(g), \A k \in Jobs(g) : g.waitsFor[k] = {},
           NEW j \in Jobs(g), g.job[j] # "complete"
    PROVE  /\ Moves(g, EndJob(g, j), j, "complete")
           /\ Moves(g, BlockJob(g, j), j, "blocked")
           /\ Moves(g, ReadyJobs(g, {j}), j, "ready")
<1>1. ASSUME NEW h, h = EndJob(g, j) PROVE Moves(g, h, j, "complete")
  <2>1. /\ IsGroup(h) /\ Counted(h) /\ SameCall(g, h)
        /\ Jobs(h) = Jobs(g)
        /\ h.job[j] = "complete"
        /\ \A k \in Jobs(g) \ {j} :
             h.job[k] = IF g.waitsFor[k] = {j} THEN "ready" ELSE g.job[k]
        /\ \A k \in Jobs(g) : h.waitsFor[k] = g.waitsFor[k] \ {j}
    BY <1>1, EndJobFacts
  <2>2. \A k \in Jobs(g) : g.waitsFor[k] = {} /\ g.waitsFor[k] # {j}
    OBVIOUS
  <2> QED
    BY <2>1, <2>2 DEF Moves, SameCall
<1>2. ASSUME NEW s, s = "blocked", NEW h, h = BlockJob(g, j)
      PROVE  Moves(g, h, j, s)
  <2>1. /\ IsGroup(h) /\ Counted(h) /\ SameCall(g, h)
        /\ Jobs(h) = Jobs(g) /\ h.waitsFor = g.waitsFor
        /\ h.job[j] = s
        /\ \A k \in Jobs(g) \ {j} : h.job[k] = g.job[k]
    BY <1>2, JobCalledFacts DEF JobStates
  <2> QED
    BY <2>1 DEF Moves, SameCall
<1>3. ASSUME NEW h, h = ReadyJobs(g, {j}) PROVE Moves(g, h, j, "ready")
  <2> DEFINE js == {j}
  <2>1. h = ReadyJobs(g, js) /\ \A k \in js \cap Jobs(g) : g.job[k] # "complete"
    BY <1>3
  <2>2. j \in js \cap Jobs(g) /\ Jobs(g) \ js = Jobs(g) \ {j}
    OBVIOUS
  <2> HIDE DEF js
  <2>3. /\ IsGroup(h) /\ Counted(h) /\ SameCall(g, h)
        /\ Jobs(h) = Jobs(g) /\ h.waitsFor = g.waitsFor
        /\ \A k \in js \cap Jobs(g) : h.job[k] = "ready"
        /\ \A k \in Jobs(g) \ js : h.job[k] = g.job[k]
    BY <2>1, ReadyJobsFacts
  <2> QED
    BY <2>2, <2>3 DEF Moves, SameCall
<1> QED
  BY <1>1, <1>2, <1>3

(* The job of one block moves, and what it holds of the block.             *)
LEMMA PutMoves ==
    ASSUME SyncInv, stage = "uploading", NEW h \in DOMAIN put,
           NEW err \in Errors, NEW block, NEW s,
           Moves(group, group', PutJob(h), s),
           put' = [put EXCEPT ![h] = [err |-> err, block |-> block]],
           \/ s \in {"ready", "complete"} /\ block \in {"none", "disposed"}
           \/ s = "blocked" /\ block = "lent",
           Fail \/ NoFail,
           UNCHANGED <<call, contextVars, disk, todo, overwritten, readVars, syncRest>>
    PROVE  SyncInv'
<1>1. UNCHANGED <<reader, blockErr, ctx, part, handle, read, copier, buffer, reads,
                  input, stage, result>>
  BY DEF contextVars, readVars, syncRest
<1>2. NoContexts /\ copier = <<>>
  BY DEF SyncInv, Stable
<1>3. /\ put \in [DOMAIN put -> [err : Errors, block : {"none", "lent", "disposed"}]]
      /\ put' \in [DOMAIN put -> [err : Errors, block : {"none", "lent", "disposed"}]]
      /\ DOMAIN put' = DOMAIN put /\ put'[h].block = block
      /\ \A i \in DOMAIN put \ {h} : put'[i] = put[i]
  BY DEF SyncInv, Puts
<1>4. Scalars'
  <2>1. failures' \in 0..MaxFailures
    BY FailureCounts
  <2> QED
    BY <1>1, <2>1 DEF SyncInv, Scalars
<1>5. Reads' /\ Puts' /\ Contexts'
  <2>1. Reads'
    BY <1>1 DEF SyncInv, Reads
  <2>2. Contexts'
    BY <1>1, <1>2 DEF NoContexts, Contexts
  <2> QED
    BY <1>3, <2>1, <2>2 DEF Puts
<1>6. GroupFits' /\ DiskShape'
  BY DEF SyncInv, GroupFits, Moves, DiskShape
<1>7. Stable'
  BY <1>1, <1>2 DEF Stable, NoContexts, NoPartWrites
<1>8. Uploading'
  <2>1. Jobs(group') = {PutJob(i) : i \in DOMAIN put'} /\ NoWaits'
    BY <1>3 DEF SyncInv, Uploading, Moves, NoWaits, PutJob
  <2>2. \A i \in DOMAIN put \ {h} : /\ PutJob(i) # PutJob(h) /\ PutJob(i) \in Jobs(group)
                                    /\ group'.job[PutJob(i)] = group.job[PutJob(i)]
    BY DEF SyncInv, Uploading, Moves, PutJob
  <2>3. \A i : PutJob(i)' = PutJob(i)
    BY DEF PutJob
  <2>4. group'.job[PutJob(h)] = s
    BY DEF Moves
  <2>5. ASSUME NEW i \in DOMAIN put
        PROVE  \/ group'.job[PutJob(i)] \in {"ready", "complete"} /\ put'[i].block # "lent"
               \/ group'.job[PutJob(i)] = "blocked" /\ put'[i].block = "lent"
    <3>1. CASE i = h
      BY <1>3, <2>4, <3>1
    <3>2. CASE i # h
      BY <1>3, <2>2, <3>2 DEF SyncInv, Uploading
    <3> QED
      BY <3>1, <3>2
  <2> QED
    BY <1>3, <2>1, <2>3, <2>5 DEF Uploading
<1> QED
  BY <1>1, <1>4, <1>5, <1>6, <1>7, <1>8 DEF SyncInv

(* A job of WriteContent takes a step.                                     *)
LEMMA Uploads == ASSUME SyncInv, Upload PROVE SyncInv'
<1>1. PICK h \in DOMAIN put :
        \/ PutJobCancelled(h) \/ PutJobFails(h) \/ PutRefused(h)
        \/ PutAccepted(h) \/ PutComplete(h) \/ PutResumed(h)
  BY DEF Upload, WriteContentNext
<1>2. /\ stage = "uploading" /\ UNCHANGED call
      /\ UNCHANGED <<call, contextVars, disk, todo, overwritten, readVars, syncRest>>
  BY <1>1 DEF Upload, PutJobCancelled, PutJobFails, PutRefused, PutAccepted, PutComplete,
              PutResumed
<1> DEFINE j == PutJob(h)
<1>3. /\ put[h] \in [err : Errors, block : {"none", "lent", "disposed"}] /\ j \in Jobs(group)
      /\ \/ group.job[j] \in {"ready", "complete"} /\ put[h].block # "lent"
         \/ group.job[j] = "blocked" /\ put[h].block = "lent"
  BY <1>1, <1>2 DEF SyncInv, Puts, Uploading
<1>4. group.job[j] # "complete"
  BY <1>1, <1>3 DEF PutJobCancelled, PutJobFails, PutRefused, PutAccepted, PutComplete,
                    PutResumed, PutStarts, CanStart
<1>5. /\ Moves(group, EndJob(group, j), j, "complete")
      /\ Moves(group, BlockJob(group, j), j, "blocked")
      /\ Moves(group, ReadyJobs(group, {j}), j, "ready")
  <2>1. \A k \in Jobs(group) : group.waitsFor[k] = {}
    BY <1>2 DEF SyncInv, Uploading, NoWaits
  <2> HIDE DEF j
  <2> QED
    BY <1>3, <1>4, <2>1, OneJobMoves DEF SyncInv, GroupFits
<1> DEFINE Says(err, block) == put' = [put EXCEPT ![h] = [err |-> err, block |-> block]]
<1>6. CASE PutJobCancelled(h) \/ PutJobFails(h) \/ PutRefused(h)
  <2>1. \E err \in Errors, block \in {"none", "disposed"} : Says(err, block)
    BY <1>6 DEF PutJobCancelled, PutJobFails, PutRefused, PutEnds, Errors
  <2>2. Moves(group, group', j, "complete") /\ (Fail \/ NoFail)
    BY <1>5, <1>6 DEF PutJobCancelled, PutJobFails, PutRefused, PutEnds
  <2> HIDE DEF j
  <2> QED
    BY <1>1, <1>2, <2>1, <2>2, PutMoves DEF j
<1>7. CASE PutAccepted(h)
  <2>1. Says(put[h].err, "lent") /\ put[h].err \in Errors
    <3> DEFINE x == put[h]
    <3>1. put' = [put EXCEPT ![h] = [x EXCEPT !.block = "lent"]]
      BY <1>7 DEF PutAccepted
    <3>2. x \in [err : Errors, block : {"none", "lent", "disposed"}]
      BY <1>3
    <3> HIDE DEF x
    <3>3. [x EXCEPT !.block = "lent"] = [err |-> x.err, block |-> "lent"] /\ x.err \in Errors
      BY <3>2
    <3> QED
      BY <3>1, <3>3 DEF x
  <2>2. Moves(group, group', j, "blocked") /\ NoFail
    BY <1>5, <1>7 DEF PutAccepted
  <2> QED
    BY <1>1, <1>2, <2>1, <2>2, PutMoves
<1>8. CASE PutComplete(h)
  <2>1. \E err \in Errors : Says(err, "disposed")
    BY <1>8 DEF PutComplete, Errors
  <2>2. Moves(group, group', j, "ready") /\ (Fail \/ NoFail)
    BY <1>5, <1>8 DEF PutComplete
  <2> QED
    BY <1>1, <1>2, <2>1, <2>2, PutMoves
<1>9. CASE PutResumed(h)
  <2>1. Says(put[h].err, "disposed") /\ put[h].err \in Errors
    <3>1. put[h].block = "disposed" /\ put' = put
      BY <1>9 DEF PutResumed
    <3>2. put[h] = [err |-> put[h].err, block |-> "disposed"] /\ put[h].err \in Errors
      BY <1>3, <3>1
    <3> QED
      BY <3>1, <3>2 DEF SyncInv, Puts
  <2>2. Moves(group, group', j, "complete") /\ NoFail
    BY <1>5, <1>9 DEF PutResumed
  <2> QED
    BY <1>1, <1>2, <2>1, <2>2, PutMoves
<1> QED
  BY <1>1, <1>6, <1>7, <1>8, <1>9

(* A read starts, or has no memory *)

(* A read moves its handle within the file.                                *)
LEMMA HandleMoves ==
    ASSUME SyncInv, NEW start, NEW size, handle' = Moved(start, size)
    PROVE  handle' \in [path : {handle.path}, chunk : {handle'.chunk}, pos : {handle'.pos}]
<1> DEFINE h == SeekFile(start)
<1>1. handle \in [path : {handle.path}, chunk : {handle.chunk}, pos : {handle.pos}]
  BY DEF SyncInv, Reads
<1>2. h \in [path : {handle.path}, chunk : {h.chunk}, pos : {h.pos}]
  <2>1. \/ h = handle
        \/ \E c, p : h = [handle EXCEPT !.chunk = c, !.pos = p]
    BY DEF SeekFile
  <2>2. ASSUME NEW c, NEW p, h = [handle EXCEPT !.chunk = c, !.pos = p]
        PROVE  h \in [path : {handle.path}, chunk : {h.chunk}, pos : {h.pos}]
    <3> HIDE DEF h
    <3> QED
      BY <1>1, <2>2
  <2> HIDE DEF h
  <2> QED
    BY <1>1, <2>1, <2>2
<1>3. \E c, p : handle' = [h EXCEPT !.chunk = c, !.pos = p]
  BY DEF Moved
<1>4. PICK c, p : handle' = [h EXCEPT !.chunk = c, !.pos = p]
  BY <1>3
<1> HIDE DEF h
<1> QED
  BY <1>2, <1>4

(* The blocks a read is of are finitely many. *)
LEMMA RangesAreFinite ==
    ASSUME FileChunks \in Seq(Nat), NEW h, NEW end
    PROVE  IsFiniteSet(DOMAIN ChunkRanges(h, end))
<1> DEFINE within == {c \in DOMAIN FileChunks : h.chunk <= c /\ c <= EndChunk(h, end)}
           blocks == {BlockOfChunk(call.content, FileChunks[c]) : c \in within}
           f == [c \in within |-> BlockOfChunk(call.content, FileChunks[c])]
<1>1. DOMAIN ChunkRanges(h, end) = blocks
  BY DEF ChunkRanges
<1>2. IsFiniteSet(within)
  <2>1. Len(FileChunks) \in Nat /\ DOMAIN FileChunks = 1..Len(FileChunks)
    OBVIOUS
  <2>2. IsFiniteSet(1..Len(FileChunks)) /\ within \subseteq 1..Len(FileChunks)
    BY <2>1, FS_Interval
  <2> HIDE DEF within
  <2> QED
    BY <2>2, FS_Subset
<1>3. f \in Surjection(within, blocks)
  <2> HIDE DEF within
  <2> QED
    BY DEF Surjection
<1> HIDE DEF within, blocks, f
<1>4. IsFiniteSet(blocks)
  BY <1>2, <1>3, FS_Surjection
<1> QED
  BY <1>1, <1>4

(* A read makes a job for each block, and makes all of them ready.         *)
ReadJobs(start, size) ==
    {CopyJob(b) : b \in DOMAIN ChunkRanges(SeekFile(start), start + size)}

(* So they are when it begins.                                             *)
LEMMA CopiesAreReady ==
    ASSUME FileChunks \in Seq(Nat), NEW start, NEW size, StartRead(start, size),
           NEW js, js = ReadJobs(start, size)
    PROVE  /\ IsGroup(group') /\ Counted(group') /\ Jobs(group') = js
           /\ group'.reserved = Cardinality(js) /\ Cardinality(js) \in Nat
           /\ \A j \in js : group'.job[j] = "ready" /\ group'.waitsFor[j] = {}
<1> DEFINE ranges == ChunkRanges(SeekFile(start), start + size)
           n == Cardinality(js)
<1>1. group' = WaitForJobs(ReadyJobs(CreateJobs(NewGroup(n), js), js))
  BY DEF StartRead, ReadJobs
<1>2. IsFiniteSet(DOMAIN ranges)
  BY RangesAreFinite
<1> HIDE DEF ranges
<1>3. IsFiniteSet(js)
  <2> DEFINE f == [b \in DOMAIN ranges |-> CopyJob(b)]
  <2>1. f \in Surjection(DOMAIN ranges, js)
    BY DEF Surjection, ranges, ReadJobs
  <2> HIDE DEF f
  <2> QED
    BY <1>2, <2>1, FS_Surjection
<1>4. n \in Nat /\ Cardinality(js) <= n
  <2>1. n \in Nat
    BY <1>3, FS_CardinalityType
  <2> QED
    BY <2>1
<1> HIDE DEF n
<1>5. /\ IsGroup(group') /\ Counted(group') /\ Jobs(group') = js /\ group'.reserved = n
      /\ \A j \in js : group'.job[j] = "ready" /\ group'.waitsFor[j] = {}
  BY ONLY <1>1, <1>3, <1>4, StartedGroup
<1> QED
  BY <1>4, <1>5 DEF n

(* Read makes a job for each block, or has no memory.                      *)
LEMMA FilesAreRead == ASSUME SyncInv, ReadFile PROVE SyncInv'
<1>1. PICK r \in Ranges : \/ StartRead(r[1], r[2]) /\ stage' = "copying"
                          \/ ReadNoMemory(r[1], r[2]) /\ stage' = "opened"
  BY DEF ReadFile
<1>2. /\ stage \in {"opened", "copied"} /\ reads < MaxReads /\ reads' = reads + 1
      /\ handle' = Moved(r[1], r[2]) /\ (Fail \/ NoFail)
      /\ UNCHANGED <<call, put, contextVars, disk, overwritten, input, result>>
  BY <1>1 DEF ReadFile, StartRead, ReadNoMemory, ReadIsPossible
<1>3. NoContexts /\ NothingPut /\ group.pending = 0 /\ FileChunks \in Seq(Nat)
  BY <1>2, NothingRuns
<1>4. handle' \in [path : {handle.path}, chunk : {handle'.chunk}, pos : {handle'.pos}]
  BY <1>2, HandleMoves
<1>5. (FileChunks \in Seq(Nat))'
  BY <1>2, <1>3, <1>4 DEF FileChunks
<1>6. UNCHANGED <<reader, blockErr, ctx, part>>
  BY <1>2 DEF contextVars
<1>7. Scalars'
  <2>1. failures' \in 0..MaxFailures
    BY <1>2, FailureCounts
  <2> QED
    BY <1>1, <1>2, <2>1 DEF SyncInv, Scalars, Stages
<1>8. handle' \in [path : Paths \ DirPaths, chunk : {handle'.chunk}, pos : {handle'.pos}]
  BY <1>4 DEF SyncInv, Reads
<1>9. reads' \in 0..MaxReads
  BY <1>2, InputsType DEF SyncInv, Reads
<1>10. Contexts' /\ Puts' /\ DiskShape'
  BY <1>2, <1>3, <1>6 DEF SyncInv, NoContexts, Contexts, Puts, DiskShape
<1>11. NoContexts' /\ NoPartWrites' /\ NothingPut'
  BY <1>2, <1>3, <1>6 DEF NoContexts, NoPartWrites, NothingPut
<1>12. CASE ReadNoMemory(r[1], r[2]) /\ stage' = "opened"
  <2>1. UNCHANGED <<group, read, copier>>
    BY <1>12 DEF ReadNoMemory
  <2>2. Reads'
    BY <1>8, <1>9, <2>1 DEF SyncInv, Reads
  <2>3. GroupFits'
    BY <2>1 DEF SyncInv, GroupFits
  <2>4. Stable'
    BY <1>3, <1>5, <1>11, <1>12, <2>1 DEF Stable
  <2> QED
    BY <1>7, <1>10, <1>12, <2>2, <2>3, <2>4 DEF SyncInv
<1>13. CASE StartRead(r[1], r[2]) /\ stage' = "copying"
  <2> DEFINE ranges == ChunkRanges(SeekFile(r[1]), r[1] + r[2])
             js == {CopyJob(b) : b \in DOMAIN ranges}
             n == Cardinality(js)
  <2>1. /\ read' = [start |-> r[1], size |-> r[2], ranges |-> ranges]
        /\ copier' = [b \in DOMAIN ranges |-> [err |-> "ok", block |-> "none"]]
    BY <1>13 DEF StartRead
  <2>2. js = ReadJobs(r[1], r[2])
    BY DEF ReadJobs
  <2>3. /\ n \in Nat /\ n <= n
        /\ IsGroup(group') /\ Counted(group') /\ Jobs(group') = js /\ group'.reserved = n
        /\ \A j \in js : group'.job[j] = "ready" /\ group'.waitsFor[j] = {}
    <3> HIDE DEF js
    <3>1. /\ IsGroup(group') /\ Counted(group') /\ Jobs(group') = js /\ group'.reserved = n
          /\ n \in Nat /\ \A j \in js : group'.job[j] = "ready" /\ group'.waitsFor[j] = {}
      BY <1>3, <1>13, <2>2, CopiesAreReady
    <3> HIDE DEF n
    <3> QED
      BY <3>1
  <2> HIDE DEF ranges
  <2>4. /\ IsGroup(group') /\ Counted(group') /\ Jobs(group') = js /\ group'.reserved = n
        /\ \A j \in js : group'.job[j] = "ready" /\ group'.waitsFor[j] = {}
    BY <2>3
  <2>5. GroupFits'
    BY <2>3, <2>4 DEF GroupFits
  <2>6. DOMAIN copier' = DOMAIN ranges /\ read'.ranges = ranges
    BY <2>1
  <2>7. Reads'
    <3>1. copier' \in [DOMAIN copier' -> [err : {"ok", "failed"}, block : CopyStates]]
      BY <2>1 DEF CopyStates
    <3> QED
      BY <1>8, <1>9, <2>6, <3>1 DEF Reads
  <2>8. Copying'
    <3>1. \A b : CopyJob(b)' = CopyJob(b)
      BY DEF CopyJob
    <3>2. \A b \in DOMAIN ranges : group'.job[CopyJob(b)] = "ready" /\ copier'[b].block = "none"
      BY <2>1, <2>4
    <3> QED
      BY <2>4, <2>6, <3>1, <3>2 DEF Copying, NoWaits
  <2>9. Stable'
    BY <1>5, <1>11, <1>13 DEF Stable
  <2> QED
    BY <1>7, <1>10, <1>13, <2>5, <2>7, <2>8, <2>9 DEF SyncInv
<1> QED
  BY <1>1, <1>12, <1>13

(* The job of one block moves, and what it holds of the block.             *)
LEMMA CopyMoves ==
    ASSUME SyncInv, stage = "copying", NEW b \in DOMAIN copier,
           NEW err \in {"ok", "failed"}, NEW block, NEW s,
           Moves(group, group', CopyJob(b), s),
           copier' = [copier EXCEPT ![b] = [err |-> err, block |-> block]],
           \/ s = "ready" /\ block \in {"none", "lent"}
           \/ s = "blocked" /\ block = "asked"
           \/ s = "complete" /\ block \in {"none", "disposed"},
           Fail \/ NoFail,
           UNCHANGED <<call, put, handle, read, reads, contextVars, disk, todo, overwritten,
                       syncRest>>
    PROVE  SyncInv'
<1>1. UNCHANGED <<reader, blockErr, ctx, part, input, stage, result>>
  BY DEF contextVars, syncRest
<1>2. NoContexts /\ NothingPut /\ FileChunks \in Seq(Nat)
  BY DEF SyncInv, Stable
<1>3. /\ copier \in [DOMAIN copier -> [err : {"ok", "failed"}, block : CopyStates]]
      /\ copier' \in [DOMAIN copier -> [err : {"ok", "failed"}, block : CopyStates]]
      /\ DOMAIN copier' = DOMAIN copier /\ copier'[b].block = block
      /\ \A i \in DOMAIN copier \ {b} : copier'[i] = copier[i]
  BY DEF SyncInv, Reads, CopyStates
<1>4. Scalars'
  <2>1. failures' \in 0..MaxFailures
    BY FailureCounts
  <2> QED
    BY <1>1, <2>1 DEF SyncInv, Scalars
<1>5. Reads'
  BY <1>3 DEF SyncInv, Reads
<1>6. Puts' /\ Contexts'
  BY <1>1, <1>2 DEF SyncInv, NoContexts, Contexts, Puts
<1>7. GroupFits' /\ DiskShape'
  BY DEF SyncInv, GroupFits, Moves, DiskShape
<1>8. Stable'
  BY <1>1, <1>2 DEF Stable, NoContexts, NoPartWrites, NothingPut, FileChunks
<1>9. Copying'
  <2>1. Jobs(group') = {CopyJob(i) : i \in DOMAIN copier'} /\ NoWaits'
    BY <1>3 DEF SyncInv, Copying, Moves, NoWaits, CopyJob
  <2>2. \A i \in DOMAIN copier \ {b} : /\ CopyJob(i) # CopyJob(b) /\ CopyJob(i) \in Jobs(group)
                                       /\ group'.job[CopyJob(i)] = group.job[CopyJob(i)]
    BY DEF SyncInv, Copying, Moves, CopyJob
  <2>3. \A i : CopyJob(i)' = CopyJob(i)
    BY DEF CopyJob
  <2>4. group'.job[CopyJob(b)] = s
    BY DEF Moves
  <2>5. ASSUME NEW i \in DOMAIN copier
        PROVE  \/ group'.job[CopyJob(i)] = "ready" /\ copier'[i].block \in {"none", "lent"}
               \/ group'.job[CopyJob(i)] = "blocked" /\ copier'[i].block = "asked"
               \/ group'.job[CopyJob(i)] = "complete" /\ copier'[i].block \in {"none", "disposed"}
    <3>1. CASE i = b
      BY <1>3, <2>4, <3>1
    <3>2. CASE i # b
      BY <1>3, <2>2, <3>2 DEF SyncInv, Copying
    <3> QED
      BY <3>1, <3>2
  <2> QED
    BY <1>3, <2>1, <2>3, <2>5 DEF Copying
<1> QED
  BY <1>1, <1>4, <1>5, <1>6, <1>7, <1>8, <1>9 DEF SyncInv

(* A job of Read takes a step.                                             *)
LEMMA Copies == ASSUME SyncInv, CopyBlocks PROVE SyncInv'
<1>1. PICK b \in DOMAIN copier :
        \/ CopyRefused(b) \/ CopyAccepted(b) \/ CopyComplete(b)
        \/ CopyGivesUp(b) \/ CopyEnds(b)
  BY DEF CopyBlocks, CopyNext
<1>2. /\ stage = "copying"
      /\ UNCHANGED <<call, put, handle, read, reads, contextVars, disk, todo, overwritten,
                     syncRest>>
  BY DEF CopyBlocks, CopyNext
<1> DEFINE j == CopyJob(b)
           Says(err, block) == copier' = [copier EXCEPT ![b] = [err |-> err, block |-> block]]
<1>3. /\ copier \in [DOMAIN copier -> [err : {"ok", "failed"}, block : CopyStates]]
      /\ j \in Jobs(group)
      /\ \/ group.job[j] = "ready" /\ copier[b].block \in {"none", "lent"}
         \/ group.job[j] = "blocked" /\ copier[b].block = "asked"
         \/ group.job[j] = "complete" /\ copier[b].block \in {"none", "disposed"}
  BY <1>1, <1>2 DEF SyncInv, Reads, Copying
<1>4. group.job[j] # "complete"
  BY <1>1, <1>3 DEF CopyRefused, CopyAccepted, CopyComplete, CopyGivesUp, CopyEnds,
                    CopyStarts, CanStart
<1>5. /\ Moves(group, EndJob(group, j), j, "complete")
      /\ Moves(group, BlockJob(group, j), j, "blocked")
      /\ Moves(group, ReadyJobs(group, {j}), j, "ready")
  <2>1. \A k \in Jobs(group) : group.waitsFor[k] = {}
    BY <1>2 DEF SyncInv, Copying, NoWaits
  <2> HIDE DEF j
  <2> QED
    BY <1>3, <1>4, <2>1, OneJobMoves DEF SyncInv, GroupFits
<1>6. CASE CopyRefused(b)
  <2>1. Says("failed", "none") /\ Moves(group, group', j, "complete") /\ Fail
    BY <1>5, <1>6 DEF CopyRefused, Copier
  <2> QED
    BY <1>1, <1>2, <2>1, CopyMoves
<1>7. CASE CopyAccepted(b)
  <2>1. Says("ok", "asked") /\ Moves(group, group', j, "blocked") /\ NoFail
    BY <1>5, <1>7 DEF CopyAccepted, Copier
  <2> QED
    BY <1>1, <1>2, <2>1, CopyMoves
<1>8. CASE CopyComplete(b)
  <2>1. Moves(group, group', j, "ready")
    BY <1>5, <1>8 DEF CopyComplete
  <2>2. \/ Says("ok", "lent") /\ NoFail
        \/ Says("failed", "none") /\ Fail
    BY <1>8 DEF CopyComplete, Copier
  <2> QED
    BY <1>1, <1>2, <2>1, <2>2, CopyMoves
<1>9. CASE CopyGivesUp(b)
  <2>1. Moves(group, group', j, "complete") /\ NoFail
    BY <1>5, <1>9 DEF CopyGivesUp
  <2>2. Says("failed", "none")
    BY <1>3, <1>9 DEF CopyGivesUp
  <2> QED
    BY <1>1, <1>2, <2>1, <2>2, CopyMoves
<1>10. CASE CopyEnds(b)
  <2>1. Moves(group, group', j, "complete")
    BY <1>5, <1>10 DEF CopyEnds
  <2>2. \/ Says("ok", "disposed") /\ NoFail
        \/ Says("failed", "disposed") /\ Fail
    BY <1>10 DEF CopyEnds, Copier
  <2> QED
    BY <1>1, <1>2, <2>1, <2>2, CopyMoves
<1> QED
  BY <1>1, <1>6, <1>7, <1>8, <1>9, <1>10

--------------------------------------------------------------------------------
(* The jobs of WriteAssets *)

(* The steps of its modules, where nothing else moves.                     *)
LEMMA WritingGoesOn ==
    ASSUME SyncInv, stage = "writing", WriteInv', JobsPlanned', Fail \/ NoFail,
           UNCHANGED <<put, readVars, syncRest>>
    PROVE  SyncInv'
<1>1. UNCHANGED <<handle, read, copier, buffer, reads, input, stage, result>>
  BY DEF readVars, syncRest
<1>2. NothingPut /\ copier = <<>>
  BY DEF SyncInv, Stable
<1>3. Scalars'
  <2>1. failures' \in 0..MaxFailures
    BY FailureCounts
  <2> QED
    BY <1>1, <2>1 DEF SyncInv, Scalars
<1>4. Reads' /\ Puts'
  BY <1>1 DEF SyncInv, Reads, Puts
<1>5. Contexts'
  <2>1. /\ reader' \in [DOMAIN reader' -> [err : Errors, block : BlockStates]]
        /\ blockErr' \in [DOMAIN blockErr' -> Errors]
        /\ ctx' \in [DOMAIN ctx' -> [offset : Nat, file : BOOLEAN, err : Errors]]
        /\ part' \in [DOMAIN part' -> {"writing", "ok", "failed"}]
    BY DEF WriteInv, WriteShapes
  <2>2. (\A a \in DOMAIN ctx : ctx[a].offset \in 0..Len(AssetChunks(a)))'
    BY DEF WriteInv, AssetFits
  <2> QED
    BY <2>1, <2>2 DEF Contexts
<1>6. GroupFits'
  <2>1. IsGroup(group)' /\ Counted(group)'
    BY DEF WriteInv, WriteShapes
  <2>2. (IsGroup(group) /\ JobsPlanned => Cardinality(Jobs(group)) <= group.reserved)'
    BY PlanFits, PTL
  <2> QED
    BY <2>1, <2>2 DEF GroupFits
<1>7. DiskShape'
  BY DEF WriteInv
<1>8. Stable'
  BY <1>1, <1>2 DEF Stable, NothingPut
<1> QED
  BY <1>1, <1>3, <1>4, <1>5, <1>6, <1>7, <1>8 DEF SyncInv

(* The jobs of WriteAssets are made.                                       *)
LEMMA JobsAreCreatedStep == ASSUME SyncInv, CreateAssetJobs PROVE SyncInv'
<1>1. stage = "writing" /\ CreateJobsNext /\ UNCHANGED <<readVars, syncRest>>
  BY DEF CreateAssetJobs
<1>2. UNCHANGED put /\ NoFail
  BY <1>1 DEF CreateJobsNext, CreateBlockJob, CreateAssetJob, StartWaiting, uploadVars
<1>3. WriteInv' /\ JobsPlanned'
  BY <1>1, CreateJobsStep, CreateJobsPlanned DEF SyncInv
<1> QED
  BY <1>1, <1>2, <1>3, WritingGoesOn

(* The jobs of WriteAssets run.                                            *)
LEMMA AssetsAreWritten == ASSUME SyncInv, WriteAssets PROVE SyncInv'
<1>1. stage = "writing" /\ WriteAssetsNext /\ UNCHANGED <<readVars, syncRest>>
  BY DEF WriteAssets
<1>2. UNCHANGED uploadVars /\ (Fail \/ NoFail)
  <2>1. CASE ReaderNext
    BY <2>1 DEF ReaderNext, ReaderCancelled, ReaderRefused, ReaderAccepted, ReaderComplete,
                ReaderResumed, readerRest
  <2>2. CASE BlockJobNext
    BY <2>2 DEF BlockJobNext, BlockReadFailed, BlockCancelled, BlockWritten, BlockNotWritten,
                blockRest
  <2>3. CASE PartNext
    BY <2>3 DEF PartNext, PartAfterFailure, PartAsserts, PartCancelled, PartReadsFailed, PartNotOpened,
                PartDirectory, PartOpens, PartWritten, LastPartWritten, PartWriteFails,
                PartHasNoLookup, PartSetsError, PartGivesUp, partRest
  <2>4. CASE WriteReady
    BY <2>4 DEF WriteReady
  <2> QED
    BY <1>1, <2>1, <2>2, <2>3, <2>4 DEF WriteAssetsNext
<1>3. UNCHANGED put
  BY <1>2 DEF uploadVars
<1>4. WriteInv' /\ JobsPlanned'
  BY <1>1, WriteAssetsStep, WriteAssetsPlanned DEF SyncInv
<1> QED
  BY <1>1, <1>2, <1>3, <1>4, WritingGoesOn

(* No job moves: the token is cancelled, a job returns EBUSY, or nothing   *)
(* happens.                                                                *)
LEMMA GroupAlone ==
    ASSUME SyncInv, NoFail,
           group' \in {group, CancelJobs(group)} \/ \E j : group' = ReturnJob(group, j),
           UNCHANGED <<call, put, contextVars, disk, todo, overwritten, readVars,
                       input, stage, result>>
    PROVE  SyncInv'
<1>1. UNCHANGED <<call, failures, put, disk, todo, overwritten, input, stage, result>>
  BY DEF NoFail
<1>2. UNCHANGED <<reader, blockErr, ctx, part, handle, read, copier, buffer, reads>>
  BY DEF contextVars, readVars
<1>3. /\ IsGroup(group') /\ Counted(group')
      /\ group'.reserved = group.reserved /\ group'.pending = group.pending
      /\ Jobs(group') = Jobs(group) /\ group'.job = group.job
      /\ group'.waitsFor = group.waitsFor
  <2>1. IsGroup(group) /\ Counted(group)
    BY DEF SyncInv, GroupFits
  <2>2. CASE group' = group
    BY <2>1, <2>2
  <2>3. CASE group' = CancelJobs(group) \/ \E j : group' = ReturnJob(group, j)
    BY <2>1, <2>3, WaitFacts
  <2> QED
    BY <2>2, <2>3
<1>4. Scalars' /\ Reads' /\ Puts' /\ GroupFits' /\ DiskShape'
  BY <1>1, <1>2, <1>3 DEF SyncInv, Scalars, Reads, Puts, GroupFits, DiskShape
<1>5. \A a : AssetChunks(a)' = AssetChunks(a)
  BY <1>1 DEF AssetChunks
<1>6. Contexts'
  BY <1>2, <1>5 DEF SyncInv, Contexts
<1>7. Stable'
  <2>1. NoPartWrites => NoPartWrites'
    BY <1>1, <1>2, <1>3, <1>5 DEF NoPartWrites, InPart, PartWrite
  <2>2. CallType => CallType'
    BY <1>1, <1>5 DEF CallType
  <2>3. (NoContexts => NoContexts') /\ (NothingPut => NothingPut')
    BY <1>1, <1>2 DEF NoContexts, NothingPut
  <2>4. FileChunks' = FileChunks
    BY <1>1, <1>2 DEF FileChunks
  <2> QED
    BY <1>1, <1>2, <1>3, <2>1, <2>2, <2>3, <2>4 DEF SyncInv, Stable
<1>8. stage = "uploading" => Uploading'
  <2>1. \A h : PutJob(h)' = PutJob(h)
    BY DEF PutJob
  <2> QED
    BY <1>1, <1>3, <2>1 DEF SyncInv, Uploading, NoWaits
<1>9. stage = "copying" => Copying'
  <2>1. \A b : CopyJob(b)' = CopyJob(b)
    BY DEF CopyJob
  <2> QED
    BY <1>1, <1>2, <1>3, <2>1 DEF SyncInv, Copying, NoWaits
<1>10. stage = "writing" => WriteInv' /\ JobsPlanned'
  <2> SUFFICES ASSUME stage = "writing" PROVE WriteInv' /\ JobsPlanned'
    OBVIOUS
  <2>1. WriteInv'
    BY <1>1, <1>2, GroupWaits DEF SyncInv, contextVars
  <2>2. JobsPlanned'
    BY <1>1, <1>2, CancelPlanned DEF SyncInv
  <2> QED
    BY <2>1, <2>2
<1> QED
  BY <1>1, <1>4, <1>6, <1>7, <1>8, <1>9, <1>10 DEF SyncInv

(* The three steps of Sync in which no job moves.                          *)
LEMMA NoJobMoves == ASSUME SyncInv, Cancel \/ JobReturns \/ UNCHANGED vars PROVE SyncInv'
<1>1. CASE Cancel
  BY <1>1, GroupAlone DEF Cancel
<1>2. CASE JobReturns
  BY <1>2, GroupAlone DEF JobReturns
<1>3. CASE UNCHANGED vars
  BY <1>3, GroupAlone DEF vars, NoFail
<1> QED
  BY <1>1, <1>2, <1>3

--------------------------------------------------------------------------------
(* Every step of the specification *)

(* Each action of Sync keeps the invariant.                                *)
LEMMA StepInv == SyncInv /\ [Next]_vars => SyncInv'
<1> SUFFICES ASSUME SyncInv, [Next]_vars PROVE SyncInv'
  OBVIOUS
<1>1. CASE \/ UploadNothing \/ SkipUpload \/ PreparationFails \/ ListFails
           \/ OpenRefused \/ CloseVersionFile
  BY <1>1, CallsEnd
<1>2. CASE StartUpload \/ Upload \/ EndUpload
  BY <1>2, UploadStarts, Uploads, UploadEnds
<1>3. CASE PlanWriteVersion \/ PlanChangeVersion
  BY <1>3, PlansEnd
<1>4. CASE RemoveAssets \/ RemoveFails \/ RemoveReportsError
  BY <1>4, RemovalsEnd
<1>5. CASE ListAssets \/ CreateAssetJobs \/ WriteAssets \/ AssetContextsFail \/ EndWriteAssets
  BY <1>5, WritingStarts, JobsAreCreatedStep, AssetsAreWritten, WritingIsAbandoned, WritingEnds
<1>6. CASE SetPermissions
  BY <1>6, PermissionsEnd
<1>7. CASE OpenVersionFile \/ ReadFile \/ CopyBlocks \/ EndRead
  BY <1>7, FileOpens, FilesAreRead, Copies, ReadEnds
<1>8. CASE Cancel \/ JobReturns \/ UNCHANGED vars
  BY <1>8, NoJobMoves
<1> QED
  BY <1>1, <1>2, <1>3, <1>4, <1>5, <1>6, <1>7, <1>8 DEF Next

(* The invariant, of every behaviour, whatever the versions, the blocks in *)
(* the store, the number of workers and what fails (UpSync, DownSync and   *)
(* VersionIndex_cp of cmd/main.c, and what they call of src/longtail.c).   *)
THEOREM SyncInvariance == Spec => []SyncInv
BY InitInv, StepInv, PTL DEF Spec

(* Every variable has its type; a job waits for jobs that were created     *)
(* only (CreatePartialAssetWriteJob).                                      *)
THEOREM TypeCorrect == Spec => []TypeOK
BY SyncInvariance, SyncInvTypes, PTL

(* No two write jobs of an asset are between opening and closing of their  *)
(* parts at once, the one that is has the file open and its blocks at      *)
(* hand, and every file is closed at the end                               *)
(* (WritePartialAssetFromBlocks and its sync job).                         *)
THEOREM WritersCorrect == Spec => []OneWriterPerFile
BY SyncInvariance, SyncInvWriters, PTL

(* No stored block a job was given is disposed of twice, and none is left  *)
(* when the jobs are done (BlockReader, WriteAssetsFromBlock,              *)
(* WritePartialAssetFromBlocks, BlockWriterJobOnComplete, Read).           *)
THEOREM BlocksCorrect == Spec => []BlocksDisposedOnce
BY SyncInvariance, SyncInvBlocks, PTL

(* What WriteContent, WriteAssets and Read reserve is enough for the jobs  *)
(* they create, at any time; the pending count is right, and 0 at the end. *)
THEOREM ReservationCorrect == Spec => []JobsFitReservation
BY SyncInvariance, SyncInvJobs, PTL

--------------------------------------------------------------------------------
(* The arithmetic of content indexes *)

(* The input is one of those given, with what is computed from it.         *)
LEMMA InputOf ==
    ASSUME input \in Situations
    PROVE  \E i \in Inputs :
             /\ IsVersion(i.old) /\ IsVersion(i.new) /\ i.blocks \in Seq(Seq(Nat))
             /\ input.old = i.old /\ input.new = i.new /\ input.blocks = i.blocks
             /\ input.existing = Existing(i) /\ input.missing = Missing(i)
             /\ input.merged = Merged(i) /\ input.diff = Diff(i)
             /\ input.contentFound = Retargeted(i, i.blocks)
             /\ input.contentUploaded = Retargeted(i, Uploaded(i))
             /\ input.versionUploaded = VersionUploaded(i)
             /\ \A c \in input.readable : ValidateContent(c, i.new)
<1>1. PICK i \in Inputs : input = Situation(i)
  BY DEF Situations
<1> QED
  BY <1>1, InputsType DEF Situation

(* What IndexAlgebra says of content indexes is so for all of them.        *)
LEMMA ContentsAreExact == ContentsAgree
<1>1. ASSUME NEW c \in Contents, NEW d \in Contents
      PROVE  /\ RetargetIsExact(c, d) /\ MissingBlocksAreWhole(c, d)
             /\ MergeIsUnion(c, d) /\ AddKeepsBoth(c, d)
  <2>1. IsContent(c) /\ IsContent(d)
    BY ContentsType
  <2>2. RetargetIsExact(c, d)
    BY <2>1, RetargetExact
  <2>3. MissingBlocksAreWhole(c, d)
    BY <2>1, MissingWhole
  <2>4. MergeIsUnion(c, d)
    BY <2>1, MergeExact
  <2>5. AddKeepsBoth(c, d)
    BY <2>1, AddExact
  <2> QED
    BY <2>2, <2>3, <2>4, <2>5
<1> QED
  BY <1>1 DEF ContentsAgree

(* And of versions: what is between two, and what one has more than a      *)
(* store.                                                                  *)
LEMMA VersionsAreExact ==
    ASSUME NEW v, NEW w, IsVersion(v), IsVersion(w)
    PROVE  DiffIsExact(v, w)
<1>1. IsFolder(v) /\ IsFolder(w) /\ HaveSizes(ChunksOf(w, DOMAIN w))
  BY VersionFacts
<1>2. \A u \in {v, w} : \A p \in DOMAIN u : u[p] = [chunks |-> u[p].chunks, perm |-> u[p].perm]
  <2>1. \A p \in DOMAIN v : v[p] = [chunks |-> v[p].chunks, perm |-> v[p].perm]
    BY VersionFacts
  <2>2. \A p \in DOMAIN w : w[p] = [chunks |-> w[p].chunks, perm |-> w[p].perm]
    BY VersionFacts
  <2> QED
    BY <2>1, <2>2
<1> QED
  BY <1>1, <1>2, DiffExact

LEMMA MissingIsMerged ==
    ASSUME NEW c, NEW v, IsContent(c), IsVersion(v)
    PROVE  /\ MissingIsExact(c, v)
           /\ ValidateContent(MergeContentIndex(c, CreateMissingContent(c, v)), v)
<1>1. IsFolder(v) /\ HaveSizes(ChunksOf(v, DOMAIN v))
  BY VersionFacts
<1>2. MissingIsExact(c, v)
  BY <1>1, MissingExact
<1> QED
  BY <1>1, <1>2, MergedIsValid

LEMMA SyncInvAlgebra == SyncInv => IndexAlgebra
<1> SUFFICES ASSUME SyncInv PROVE IndexAlgebra
  OBVIOUS
<1>1. PICK i \in Inputs : /\ IsVersion(i.old) /\ IsVersion(i.new) /\ i.blocks \in Seq(Seq(Nat))
                          /\ input.old = i.old /\ input.new = i.new /\ input.blocks = i.blocks
  BY InputOf DEF SyncInv, Scalars
<1>2. DiffIsExact(input.old, input.new) /\ DiffIsExact(input.new, input.old)
  BY <1>1, VersionsAreExact
<1>3. ASSUME NEW c \in Contents \cup {ContentIndexFromBlocks(input.blocks)},
             NEW v \in {input.old, input.new}
      PROVE  /\ MissingIsExact(c, v)
             /\ ValidateContent(MergeContentIndex(c, CreateMissingContent(c, v)), v)
  <2>1. IsContent(c)
    BY <1>1, ContentsType, ContentOfBlocks
  <2>2. IsVersion(v)
    BY <1>1
  <2> QED
    BY <2>1, <2>2, MissingIsMerged
<1> QED
  BY <1>2, <1>3, ContentsAreExact DEF IndexAlgebra
--------------------------------------------------------------------------------
(* What is uploaded *)

(* What is at the offset of a chunk is the chunk.                          *)
LEMMA OffsetRead ==
    ASSUME NEW H, ArePositive(H), NEW chunks \in Seq(H), NEW i \in DOMAIN chunks
    PROVE  ReadAsset(chunks, OffsetOf(chunks, i)) = chunks[i]
<1>1. \A j \in DOMAIN chunks : OffsetOf(chunks, j) = OffsetOf(chunks, i) => j = i
  BY OffsetsGrow
<1>2. (CHOOSE j \in DOMAIN chunks : OffsetOf(chunks, j) = OffsetOf(chunks, i)) = i
  BY <1>1
<1> QED
  BY <1>2 DEF ReadAsset

(* A block that WriteContent reads out of the version has its chunks.      *)
LEMMA BlockDataIsTrue ==
    ASSUME NEW v, IsVersion(v), NEW block \in Seq(ChunksOf(v, DOMAIN v))
    PROVE  BlockData(v, block) = block
<1>1. ASSUME NEW i \in DOMAIN block
      PROVE  LET piece == AssetPart(v, block[i]) IN
             ReadAsset(v[piece.path].chunks, piece.offset) = block[i]
  <2> DEFINE piece == AssetPart(v, block[i])
             chunks == v[piece.path].chunks
             H == ToSet(chunks)
  <2>1. IsFolder(v) /\ block[i] \in ChunksOf(v, DOMAIN v)
    BY VersionFacts
  <2>2. /\ piece.path \in DOMAIN v
        /\ \E k \in DOMAIN chunks : chunks[k] = block[i] /\ piece.offset = OffsetOf(chunks, k)
    BY <2>1, PartHasChunk
  <2> HIDE DEF piece
  <2>3. PICK k \in DOMAIN chunks : chunks[k] = block[i] /\ piece.offset = OffsetOf(chunks, k)
    BY <2>2
  <2>4. chunks \in Seq(Nat)
    BY <2>1, <2>2 DEF IsFolder
  <2>5. chunks \in Seq(H)
    <3> HIDE DEF chunks
    <3>1. \A j \in 1..Len(chunks) : chunks[j] \in H
      BY <2>4 DEF ToSet
    <3> QED
      BY <2>4, <3>1, SequenceIn
  <2>6. ArePositive(H)
    BY <2>2 DEF IsVersion, ArePositive
  <2>7. ReadAsset(chunks, OffsetOf(chunks, k)) = chunks[k]
    <3> HIDE DEF chunks, H
    <3> QED
      BY <2>3, <2>5, <2>6, OffsetRead
  <2>8. ReadAsset(chunks, piece.offset) = block[i]
    BY <2>3, <2>7
  <2> QED
    BY <2>8 DEF piece
<1>2. BlockData(v, block) = [i \in DOMAIN block |-> block[i]]
  BY <1>1 DEF BlockData
<1> QED
  BY <1>2

(* What is there of a version, in a store with these blocks, names only    *)
(* them, and says the truth about them.                                    *)
LEMMA RetargetedIsKept ==
    ASSUME NEW blocks \in Seq(Seq(Nat)), NEW requested, NEW r,
           r = RetargetContent(ContentIndexFromBlocks(blocks), requested)
    PROVE  /\ IsContent(r) /\ PairsAreTrue(r)
           /\ ToSet(r.blocks) \subseteq ToSet(blocks)
<1> DEFINE ci == ContentIndexFromBlocks(blocks)
<1>1. IsContent(ci) /\ ci.blocks = blocks
  BY ContentOfBlocks
<1>2. PairsAreTrue(ci)
  BY BlocksAreTrue
<1> HIDE DEF ci
<1>3. IsContent(r) /\ RetargetIsExact(ci, requested)
  BY <1>1, RetargetExact DEF ci
<1>4. Pairs(r) \subseteq Pairs(ci) /\ Compact(r)
  BY <1>3 DEF RetargetIsExact, ci
<1>5. PairsAreTrue(r)
  BY <1>2, <1>4 DEF PairsAreTrue
<1>6. ASSUME NEW b \in ToSet(r.blocks) PROVE b \in ToSet(blocks)
  <2>1. PICK k \in DOMAIN r.blocks : b = r.blocks[k]
    BY DEF ToSet
  <2>2. PICK i \in DOMAIN r.chunks : r.chunks[i].block = k
    BY <1>4 DEF Compact
  <2>3. <<r.chunks[i].hash, b>> \in Pairs(ci)
    BY <1>4, <2>1, <2>2 DEF Pairs, BlockHashAt
  <2>4. PICK j \in DOMAIN ci.chunks : <<r.chunks[i].hash, b>> = <<ci.chunks[j].hash, BlockHashAt(ci, j)>>
    BY <2>3 DEF Pairs
  <2>5. b = ci.blocks[ci.chunks[j].block] /\ ci.chunks[j].block \in DOMAIN ci.blocks
    BY <1>1, <2>4 DEF BlockHashAt, IsContent
  <2> QED
    BY <1>1, <2>5 DEF ToSet
<1> QED
  BY <1>3, <1>5, <1>6

(* What UpSync writes and what it publishes.                               *)
LEMMA UploadFacts ==
    ASSUME input \in Situations
    PROVE  /\ input.blocks \in Seq(Seq(Nat))
           /\ IsVersion(input.new)
           /\ \A h \in ToSet(input.missing.blocks) : h \in Seq(ChunksOf(input.new, DOMAIN input.new))
           /\ ValidateContent(input.merged, input.new) /\ PairsAreTrue(input.merged)
           /\ ToSet(input.merged.blocks) \subseteq
                ToSet(input.missing.blocks) \cup ToSet(input.blocks)
<1>1. PICK i \in Inputs :
        /\ IsVersion(i.new) /\ i.blocks \in Seq(Seq(Nat))
        /\ input.new = i.new /\ input.blocks = i.blocks
        /\ input.missing = Missing(i) /\ input.merged = Merged(i)
  BY InputOf
<1> DEFINE v == i.new
           e == Existing(i)
           m == Missing(i)
           g == Merged(i)
<1>2. IsContent(e) /\ PairsAreTrue(e) /\ ToSet(e.blocks) \subseteq ToSet(i.blocks)
  BY <1>1, RetargetedIsKept DEF Existing
<1>3. m = CreateMissingContent(e, v) /\ g = MergeContentIndex(e, m)
  BY DEF Missing, Merged
<1> HIDE DEF e, m, g
<1>4. IsFolder(v) /\ HaveSizes(ChunksOf(v, DOMAIN v))
  BY <1>1, VersionFacts
<1>5. /\ IsContent(m) /\ PairsAreTrue(m) /\ ChunksIn(m.blocks) \subseteq ChunksOf(v, DOMAIN v)
      /\ ValidateContent(g, v)
  <2> HIDE DEF v
  <2> QED
    BY <1>2, <1>3, <1>4, MissingExact, MergedIsValid
<1>6. /\ MergeIsUnion(e, m)
      /\ ToSet(g.blocks) \subseteq ToSet(m.blocks) \cup ToSet(e.blocks)
  BY <1>2, <1>3, <1>5, MergeExact
<1>7. Pairs(g) \subseteq Pairs(m) \cup Pairs(e)
  BY <1>3, <1>6 DEF MergeIsUnion
<1>8. PairsAreTrue(g)
  BY <1>2, <1>5, <1>7 DEF PairsAreTrue
<1>9. ASSUME NEW h \in ToSet(m.blocks) PROVE h \in Seq(ChunksOf(v, DOMAIN v))
  <2> DEFINE H == ChunksOf(v, DOMAIN v)
  <2>1. PICK b \in DOMAIN m.blocks : h = m.blocks[b]
    BY DEF ToSet
  <2>2. h \in Seq(Nat)
    BY <1>5, <2>1 DEF IsContent
  <2>3. ToSet(h) \subseteq H
    BY <1>5, <2>1 DEF ChunksIn
  <2> HIDE DEF H
  <2>4. h \in Seq(ToSet(h))
    BY <2>2, SequenceIn
  <2>5. h \in Seq(H)
    BY <2>3, <2>4, SequenceIn
  <2> QED
    BY <2>5 DEF H
<1> QED
  BY <1>1, <1>2, <1>5, <1>6, <1>8, <1>9 DEF m, g

(* The store has the blocks it had and those that were put without error,  *)
(* each with the data its hash stands for.  UpSync publishes what it has   *)
(* found and what it puts.                                                 *)
PutsAreKept ==
    /\ call.version = input.new /\ published = input.merged
    /\ DOMAIN put = ToSet(input.missing.blocks)
    /\ \A h \in DOMAIN put : put[h].err = "ok" => h \in DOMAIN store

StoreKept ==
    /\ ToSet(input.blocks) \subseteq DOMAIN store
    /\ \A b \in DOMAIN store : store[b] = b
    /\ stage = "uploading" => PutsAreKept
    /\ stage = "uploaded" => /\ published = input.merged
                             /\ ToSet(input.missing.blocks) \subseteq DOMAIN store

LEMMA InitStore == Init => StoreKept
BY DEF Init, StoreKept

(* What is published is of the store then, and complete.                   *)
LEMMA StoreIsKept == SyncInv /\ StoreKept => UploadKept
<1> SUFFICES ASSUME SyncInv, StoreKept, stage = "uploaded"
             PROVE  /\ ValidateContent(published, input.new) /\ PairsAreTrue(published)
                    /\ \A b \in ToSet(published.blocks) : b \in DOMAIN store
                    /\ \A b \in DOMAIN store : store[b] = b
  BY DEF UploadKept
<1>1. /\ ValidateContent(input.merged, input.new) /\ PairsAreTrue(input.merged)
      /\ ToSet(input.merged.blocks) \subseteq ToSet(input.missing.blocks) \cup ToSet(input.blocks)
  BY UploadFacts DEF SyncInv, Scalars
<1> QED
  BY <1>1 DEF StoreKept

(* Only WriteContent puts blocks.                                          *)
LEMMA StoreStays ==
    ASSUME Next, ~StartUpload, ~UploadNothing, ~EndUpload, ~Upload
    PROVE  /\ UNCHANGED <<input, store>>
           /\ stage' # "uploaded"
           /\ stage' = "uploading" => stage = "uploading" /\ UNCHANGED <<call, put, published>>
<1>1. CASE SkipUpload \/ PlanWriteVersion \/ PlanChangeVersion \/ PreparationFails
  BY <1>1 DEF SkipUpload, PlanWriteVersion, PlanChangeVersion, PreparationFails, Finish
<1>2. CASE RemoveAssets \/ RemoveFails \/ RemoveReportsError \/ ListFails
  BY <1>2 DEF RemoveAssets, RemoveFails, RemoveReportsError, ListFails, Finish
<1>3. CASE ListAssets \/ AssetContextsFail \/ EndWriteAssets \/ SetPermissions
  BY <1>3 DEF ListAssets, AssetContextsFail, EndWriteAssets, SetPermissions, Finish,
              StartWriteAssets, uploadVars
<1>4. CASE OpenVersionFile \/ OpenRefused \/ EndRead \/ CloseVersionFile \/ ReadFile \/ CopyBlocks
  <2>1. CASE OpenVersionFile \/ OpenRefused \/ EndRead \/ CloseVersionFile
    BY <2>1 DEF OpenVersionFile, OpenRefused, EndRead, CloseVersionFile, Finish
  <2>2. CASE ReadFile
    BY <2>2 DEF ReadFile, StartRead, ReadNoMemory
  <2>3. CASE CopyBlocks
    BY <2>3 DEF CopyBlocks, CopyNext, syncRest
  <2> QED
    BY <1>4, <2>1, <2>2, <2>3
<1>5. CASE Cancel \/ JobReturns
  BY <1>5 DEF Cancel, JobReturns
<1>6. CASE CreateAssetJobs
  BY <1>6 DEF CreateAssetJobs, CreateJobsNext, CreateBlockJob, CreateAssetJob, StartWaiting,
              uploadVars, syncRest
<1>7. CASE WriteAssets
  <2>1. UNCHANGED uploadVars
    <3>1. CASE ReaderNext
      BY <3>1 DEF ReaderNext, ReaderCancelled, ReaderRefused, ReaderAccepted, ReaderComplete,
                  ReaderResumed, readerRest
    <3>2. CASE BlockJobNext
      BY <3>2 DEF BlockJobNext, BlockReadFailed, BlockCancelled, BlockWritten, BlockNotWritten,
                  blockRest
    <3>3. CASE PartNext
      BY <3>3 DEF PartNext, PartAfterFailure, PartAsserts, PartCancelled, PartReadsFailed, PartNotOpened,
                  PartDirectory, PartOpens, PartWritten, LastPartWritten, PartWriteFails,
                  PartHasNoLookup, PartSetsError, PartGivesUp, partRest
    <3>4. CASE WriteReady
      BY <3>4 DEF WriteReady
    <3> QED
      BY <1>7, <3>1, <3>2, <3>3, <3>4 DEF WriteAssets, WriteAssetsNext
  <2> QED
    BY <1>7, <2>1 DEF WriteAssets, uploadVars, syncRest
<1> QED
  BY <1>1, <1>2, <1>3, <1>4, <1>5, <1>6, <1>7 DEF Next

(* A block that is put has the data of its hash.                           *)
LEMMA PutsStep == ASSUME SyncInv, StoreKept, Upload PROVE StoreKept'
<1>1. stage = "uploading" /\ UNCHANGED <<input, stage, published>> /\ WriteContentNext
  BY DEF Upload, syncRest
<1>2. PICK h \in DOMAIN put : \/ PutJobCancelled(h) \/ PutJobFails(h) \/ PutRefused(h)
                              \/ PutAccepted(h) \/ PutComplete(h) \/ PutResumed(h)
  BY <1>1 DEF WriteContentNext
<1>3. PutsAreKept
  BY <1>1 DEF StoreKept
<1>4. call' = call /\ DOMAIN put' = DOMAIN put
  BY <1>2 DEF PutJobCancelled, PutJobFails, PutRefused, PutAccepted, PutComplete, PutResumed,
              PutEnds
<1>5. /\ DOMAIN store \subseteq DOMAIN store'
      /\ \A b \in DOMAIN store' : store'[b] = b
      /\ \A k \in DOMAIN put : put'[k].err = "ok" => k \in DOMAIN store'
  <2>1. CASE PutJobCancelled(h) \/ PutJobFails(h) \/ PutRefused(h)
    <3>1. UNCHANGED store /\ \E e \in {"failed", "cancelled"} : \E b : PutEnds(h, e, b)
      BY <2>1 DEF PutJobCancelled, PutJobFails, PutRefused
    <3> QED
      BY <1>3, <3>1 DEF StoreKept, PutsAreKept, PutEnds
  <2>2. CASE PutAccepted(h)
    BY <1>3, <2>2 DEF StoreKept, PutsAreKept, PutAccepted
  <2>3. CASE PutResumed(h)
    BY <1>3, <2>3 DEF StoreKept, PutsAreKept, PutResumed
  <2>4. CASE store' = store /\ put' = [put EXCEPT ![h] = [err |-> "failed", block |-> "disposed"]]
    BY <1>3, <2>4 DEF StoreKept, PutsAreKept
  <2>5. CASE /\ put' = [put EXCEPT ![h] = [err |-> "ok", block |-> "disposed"]]
             /\ store' = Extend(store, {h}, BlockData(call.version, h))
    <3>1. BlockData(call.version, h) = h
      BY <1>3, UploadFacts, BlockDataIsTrue DEF PutsAreKept, SyncInv, Scalars
    <3>2. DOMAIN store' = {h} \cup DOMAIN store
      BY <2>5, <3>1 DEF Extend
    <3>3. \A b \in DOMAIN store' : store'[b] = b
      BY <2>5, <3>1, <3>2 DEF StoreKept, Extend
    <3>4. \A k \in DOMAIN put : k # h => put'[k] = put[k]
      BY <2>5
    <3> QED
      BY <1>3, <3>2, <3>3, <3>4 DEF PutsAreKept
  <2>6. CASE PutComplete(h)
    BY <2>4, <2>5, <2>6 DEF PutComplete
  <2> QED
    BY <1>2, <2>1, <2>2, <2>3, <2>6
<1> HIDE DEF WriteContentNext
<1> QED
  BY <1>1, <1>3, <1>4, <1>5 DEF StoreKept, PutsAreKept

(* The store is kept by every step.                                        *)
LEMMA StepStore == SyncInv /\ StoreKept /\ [Next]_vars => StoreKept'
<1> SUFFICES ASSUME SyncInv, StoreKept, [Next]_vars PROVE StoreKept'
  OBVIOUS
<1>1. CASE StartUpload
  <2>1. /\ UNCHANGED <<input, store>> /\ stage' = "uploading" /\ published' = input.merged
        /\ call'.version = input.new
        /\ put' = [h \in ToSet(input.missing.blocks) |-> [err |-> "initial", block |-> "none"]]
    BY <1>1 DEF StartUpload, StartWriteContent
  <2> QED
    BY <2>1 DEF StoreKept, PutsAreKept
<1>2. CASE UploadNothing
  <2>1. /\ UNCHANGED <<input, store>> /\ stage' = "uploaded" /\ published' = input.merged
        /\ input.missing.blocks = <<>>
    BY <1>2 DEF UploadNothing
  <2>2. ToSet(input.missing.blocks) = {}
    BY <2>1 DEF ToSet
  <2> QED
    BY <2>1, <2>2 DEF StoreKept
<1>3. CASE EndUpload
  <2>1. /\ UNCHANGED <<input, store, put, published>> /\ stage = "uploading"
        /\ stage' \in {"uploaded", "done"}
        /\ stage' = "uploaded" => \A h \in DOMAIN put : put[h].err = "ok"
    BY <1>3 DEF EndUpload, Finish, WriteContentResult, coreRest
  <2> QED
    BY <2>1 DEF StoreKept, PutsAreKept
<1>4. CASE Upload
  BY <1>4, PutsStep
<1>5. CASE Next /\ ~StartUpload /\ ~UploadNothing /\ ~EndUpload /\ ~Upload
  BY <1>5, StoreStays DEF StoreKept, PutsAreKept
<1>6. CASE UNCHANGED vars
  BY <1>6 DEF vars, StoreKept, PutsAreKept
<1> QED
  BY <1>1, <1>2, <1>3, <1>4, <1>5, <1>6

--------------------------------------------------------------------------------
(* What a folder is changed to *)

(* The block a lookup table gives for a chunk is one of the content.       *)
LEMMA ChunkFound ==
    ASSUME NEW ci, IsContent(ci), NEW h, HasChunk(ci, h)
    PROVE  /\ BlockOfChunk(ci, h) \in ToSet(ci.blocks)
           /\ <<h, BlockOfChunk(ci, h)>> \in Pairs(ci)
<1> DEFINE n == Len(ci.chunks)
           I == {i \in 1..n : ci.chunks[i].hash = h}
<1>1. n \in Nat /\ DOMAIN ci.chunks = 1..n
  BY DEF IsContent
<1>2. I # {}
  BY <1>1 DEF HasChunk, ChunkHashes, ToSet
<1>3. Min(I) \in I
  <2>1. I \in SUBSET (1..n)
    OBVIOUS
  <2> HIDE DEF I
  <2> QED
    BY <1>1, <1>2, <2>1, FirstIndex
<1>4. BlockOfChunk(ci, h) = BlockHashAt(ci, Min(I))
  BY <1>2 DEF BlockOfChunk, SelectInSeq
<1>5. Min(I) \in DOMAIN ci.chunks /\ ci.chunks[Min(I)].hash = h
  BY <1>1, <1>3
<1> HIDE DEF I
<1> QED
  BY <1>4, <1>5, BlocksOfChunks DEF Pairs

(* A content index tells the truth about blocks the store has.             *)
ContentIsThere(ci) ==
    IsContent(ci) /\ PairsAreTrue(ci) /\ ToSet(ci.blocks) \subseteq DOMAIN store

(* Its blocks have the chunks it says they have.                           *)
LEMMA ChunksAreThere ==
    ASSUME ContentIsThere(call.content), \A b \in DOMAIN store : store[b] = b,
           NEW h, HasChunk(call.content, h)
    PROVE  DataOf(h) = h
<1> DEFINE b == BlockFor(h)
           i == SelectInSeq(b, LAMBDA c : c = h)
<1>1. b \in ToSet(call.content.blocks) /\ <<h, b>> \in Pairs(call.content)
  BY ChunkFound DEF BlockFor, ContentIsThere
<1>2. b \in DOMAIN store /\ store[b] = b /\ h \in ToSet(b) /\ b \in Seq(Nat)
  <2> HIDE DEF b
  <2>1. b \in DOMAIN store /\ store[b] = b
    BY <1>1 DEF ContentIsThere
  <2>2. Contains(b, h)
    BY <1>1 DEF ContentIsThere, PairsAreTrue
  <2>3. b \in Seq(Nat)
    BY <1>1 DEF ContentIsThere, IsContent, ToSet
  <2>4. h \in ToSet(b)
    BY <2>2, <2>3 DEF Contains, ToSet
  <2> QED
    BY <2>1, <2>3, <2>4
<1>3. i = IndexIn(b, h)
  BY DEF IndexIn, SelectInSeq
<1>4. b[IndexIn(b, h)] = h
  <2> HIDE DEF b, i
  <2> QED
    BY <1>2, IndexOf
<1> QED
  BY <1>2, <1>3, <1>4 DEF DataOf

(* What DownSync asks for is there, before and after UpSync, and so is     *)
(* what UpSync has published.                                              *)
LEMMA ContentsAreThere ==
    ASSUME input \in Situations, StoreKept
    PROVE  /\ ContentIsThere(input.existing) /\ ContentIsThere(input.contentFound)
           /\ ToSet(input.missing.blocks) \subseteq DOMAIN store =>
                /\ ContentIsThere(input.merged) /\ ContentIsThere(input.contentUploaded)
                /\ ContentIsThere(input.versionUploaded)
<1>1. PICK i \in Inputs :
        /\ IsVersion(i.new) /\ i.blocks \in Seq(Seq(Nat))
        /\ input.blocks = i.blocks
        /\ input.existing = Existing(i) /\ input.missing = Missing(i) /\ input.merged = Merged(i)
        /\ input.contentFound = Retargeted(i, i.blocks)
        /\ input.contentUploaded = Retargeted(i, Uploaded(i))
        /\ input.versionUploaded = VersionUploaded(i)
  BY InputOf
<1>2. ToSet(i.blocks) \subseteq DOMAIN store
  BY <1>1 DEF StoreKept
<1>3. ASSUME NEW blocks \in Seq(Seq(Nat)), NEW requested, NEW r,
             ToSet(blocks) \subseteq DOMAIN store,
             r = RetargetContent(ContentIndexFromBlocks(blocks), requested)
      PROVE  ContentIsThere(r)
  BY <1>3, RetargetedIsKept DEF ContentIsThere
<1>4. ContentIsThere(Existing(i)) /\ ContentIsThere(Retargeted(i, i.blocks))
  BY <1>1, <1>2, <1>3 DEF Existing, Retargeted
<1>5. ASSUME ToSet(Missing(i).blocks) \subseteq DOMAIN store
      PROVE  /\ ContentIsThere(Merged(i)) /\ ContentIsThere(Retargeted(i, Uploaded(i)))
             /\ ContentIsThere(VersionUploaded(i))
  <2>1. IsContent(Missing(i))
    BY <1>1, VersionFacts, MissingExact DEF Missing
  <2>2. IsContent(Merged(i))
    BY <1>4, <2>1, MergeExact DEF Merged, ContentIsThere
  <2>3. PairsAreTrue(Merged(i)) /\ ToSet(Merged(i).blocks) \subseteq DOMAIN store
    BY <1>1, <1>2, <1>5, UploadFacts
  <2> DEFINE rest == Without(Missing(i).blocks, ToSet(i.blocks))
  <2>4. rest \in Seq(Seq(Nat)) /\ ToSet(rest) \subseteq ToSet(Missing(i).blocks)
    <3>1. Missing(i).blocks \in Seq(Seq(Nat))
      BY <2>1 DEF IsContent
    <3> DEFINE H == Seq(Nat)
    <3> HIDE DEF H
    <3>2. rest \in Seq(H) /\ ToSet(rest) = ToSet(Missing(i).blocks) \ ToSet(i.blocks)
      BY <3>1, WithoutMembers DEF H
    <3> QED
      BY <3>2 DEF H
  <2> HIDE DEF rest
  <2>5. Uploaded(i) \in Seq(Seq(Nat)) /\ ToSet(Uploaded(i)) \subseteq DOMAIN store
    <3> DEFINE H == Seq(Nat)
               u == i.blocks \o rest
    <3> HIDE DEF H
    <3>1. u \in Seq(H) /\ ToSet(u) = ToSet(i.blocks) \cup ToSet(rest)
      BY <1>1, <2>4, ConcatFacts DEF H
    <3> QED
      BY <1>2, <1>5, <2>4, <3>1 DEF H, Uploaded, rest
  <2>6. ContentIsThere(Retargeted(i, Uploaded(i))) /\ ContentIsThere(VersionUploaded(i))
    BY <1>3, <2>5 DEF Retargeted, VersionUploaded
  <2> QED
    BY <2>2, <2>3, <2>6 DEF ContentIsThere
<1> QED
  BY <1>1, <1>4, <1>5

(* The assets that are written, and those that are not.                    *)
Rewritten == input.diff.added \cup input.diff.modified

LEMMA DiffFacts ==
    ASSUME input \in Situations
    PROVE  /\ IsTree(input.new) /\ IsTree(input.old)
           /\ DOMAIN input.new \subseteq Paths /\ Rewritten \subseteq DOMAIN input.new
           /\ \A p \in DOMAIN input.new : input.new[p].chunks \in Seq(Nat)
           /\ \A p \in Rewritten \cap DirPaths : p \notin DOMAIN input.old
           /\ \A p \in DOMAIN input.new \ Rewritten :
                /\ p \in DOMAIN input.old /\ p \notin input.diff.removed
                /\ input.old[p].chunks = input.new[p].chunks
                /\ p \notin input.diff.permissions => input.old[p].perm = input.new[p].perm
           /\ \A p \in DOMAIN input.old \ DOMAIN input.new : p \in input.diff.removed
           /\ input.diff.permissions \subseteq DOMAIN input.new
           /\ DOMAIN input.old = {} =>
                input.diff.permissions = {} /\ Rewritten = DOMAIN input.new
<1>1. PICK i \in Inputs : input = Situation(i)
  BY DEF Situations
<1>2. input.new = i.new /\ input.old = i.old /\ input.diff = CreateVersionDiff(i.old, i.new)
  BY <1>1 DEF Situation, Diff
<1>3. IsVersion(i.new) /\ IsVersion(i.old) /\ IsTree(i.new) /\ IsTree(i.old)
  BY InputsType
<1>4. DOMAIN i.new \subseteq Paths /\ \A p \in DOMAIN i.new : i.new[p].chunks \in Seq(Nat)
  BY <1>3, VersionFacts DEF IsVersion, IsFolder
<1>5. \A p \in DirPaths : /\ p \in DOMAIN i.old => i.old[p].chunks = <<>>
                          /\ p \in DOMAIN i.new => i.new[p].chunks = <<>>
  BY <1>3 DEF IsTree
<1> QED
  BY <1>2, <1>3, <1>4, <1>5 DEF Rewritten, CreateVersionDiff

(* The folder is the old version.                                          *)
AssetOf(v, p) == [kind |-> IF p \in DirPaths THEN "dir" ELSE "file",
                  chunks |-> v[p].chunks, perm |-> v[p].perm]
FolderIsOld ==
    disk = [p \in Paths |-> IF p \in DOMAIN input.old THEN AssetOf(input.old, p) ELSE Nothing]

(* An asset is as the new version has it, but maybe for permissions that   *)
(* are to be set at the end.                                               *)
AssetIsNew(p) ==
    /\ disk[p].kind = IF p \in DirPaths THEN "dir" ELSE "file"
    /\ disk[p].chunks = input.new[p].chunks
PermissionIsNew(p) ==
    input.retain /\ (p \in DirPaths => p \in DOMAIN input.old) => disk[p].perm = input.new[p].perm

(* All but these assets are.                                               *)
OthersAreNew(S) ==
    \A p \in Paths \ S :
        IF p \in DOMAIN input.new
        THEN AssetIsNew(p) /\ (p \in input.diff.permissions \/ PermissionIsNew(p))
        ELSE disk[p] = Nothing

(* The call is for the new version, and for what is to be written of it.   *)
CallIsNew ==
    /\ call.version = input.new /\ call.retain = input.retain /\ call.assets = Rewritten
    /\ diff.permissions = input.diff.permissions

(* The folder is the old version until it is changed; what is not to be    *)
(* written is as it is to be when the writing begins, and what is written  *)
(* when it ends.                                                           *)
FolderInv ==
    /\ stage \in {"begin", "uploading", "uploaded", "found", "removing"} => FolderIsOld
    /\ stage \in {"begin", "uploading", "uploaded", "found"} => diff = NoDiff
    /\ stage = "found" => published = input.existing
    /\ stage \in {"removing", "listing", "writing", "permitting"} => CallIsNew
    /\ stage = "removing" => diff = input.diff
    /\ stage \in {"removing", "listing"} => ContentIsThere(call.content)
    /\ stage \in {"listing", "writing"} => OthersAreNew(call.assets)
    /\ stage = "listing" => DirsFit(disk)
    /\ stage = "writing" => DataInv
    /\ stage = "permitting" /\ overwritten = {} => OthersAreNew({})
    /\ RoundTrip

LEMMA InitFolder == Init => FolderInv
BY DEF Init, FolderInv, FolderIsOld, AssetOf, RoundTrip

(* Nothing changes until the assets are removed.                           *)
LEMMA UploadFolder ==
    ASSUME SyncInv, FolderInv, StartUpload \/ UploadNothing \/ SkipUpload \/ EndUpload \/ Upload
    PROVE  FolderInv'
<1>1. /\ UNCHANGED <<disk, input, diff>>
      /\ stage \in {"begin", "uploading"}
      /\ stage' \in {"uploading", "uploaded", "found", "done"}
      /\ stage' = "done" => result' # "ok"
      /\ stage' = "found" => published' = input.existing
  BY DEF StartUpload, UploadNothing, SkipUpload, EndUpload, Upload, Finish, syncRest
<1> QED
  BY <1>1 DEF FolderInv, FolderIsOld, RoundTrip

(* A call fails.                                                           *)
LEMMA FailedFolder ==
    ASSUME \/ PreparationFails \/ RemoveFails \/ RemoveReportsError \/ ListFails
           \/ AssetContextsFail \/ OpenRefused \/ CloseVersionFile
    PROVE  FolderInv'
<1>1. stage' \in {"done", "abandoned"} /\ (stage' = "done" => result' # "ok")
  BY DEF PreparationFails, RemoveFails, RemoveReportsError, ListFails, AssetContextsFail,
         OpenRefused, CloseVersionFile, Finish
<1> QED
  BY <1>1 DEF FolderInv, RoundTrip

(* A file is read.                                                         *)
LEMMA ReadFolder ==
    ASSUME OpenVersionFile \/ ReadFile \/ CopyBlocks \/ EndRead
    PROVE  FolderInv'
<1>1. stage' \in {"opened", "copying", "copied"}
  BY DEF OpenVersionFile, ReadFile, CopyBlocks, EndRead, syncRest
<1> QED
  BY <1>1 DEF FolderInv, RoundTrip

(* What is not written and not removed is of both versions.                *)
LEMMA OldIsNew ==
    ASSUME input \in Situations, FolderIsOld
    PROVE  /\ \A p \in DOMAIN input.new \ Rewritten :
                /\ p \in Paths /\ p \notin input.diff.removed
                /\ AssetIsNew(p) /\ (p \in input.diff.permissions \/ PermissionIsNew(p))
           /\ \A p \in Paths \ DOMAIN input.new : p \in input.diff.removed \/ disk[p] = Nothing
           /\ \A p \in Rewritten \cap DirPaths : p \in Paths /\ disk[p] = Nothing
<1>1. /\ \A p \in DOMAIN input.new \ Rewritten :
           /\ p \in DOMAIN input.old /\ p \notin input.diff.removed
           /\ input.old[p].chunks = input.new[p].chunks
           /\ p \notin input.diff.permissions => input.old[p].perm = input.new[p].perm
      /\ \A p \in DOMAIN input.old \ DOMAIN input.new : p \in input.diff.removed
      /\ Rewritten \subseteq DOMAIN input.new /\ DOMAIN input.new \subseteq Paths
      /\ \A p \in Rewritten \cap DirPaths : p \notin DOMAIN input.old
  BY DiffFacts
<1>2. \A p \in Paths : disk[p] = IF p \in DOMAIN input.old THEN AssetOf(input.old, p) ELSE Nothing
  BY DEF FolderIsOld
<1>3. ASSUME NEW p \in DOMAIN input.new \ Rewritten
      PROVE  AssetIsNew(p) /\ (p \in input.diff.permissions \/ PermissionIsNew(p))
  <2>1. disk[p] = AssetOf(input.old, p)
    BY <1>1, <1>2
  <2>2. /\ disk[p].kind = IF p \in DirPaths THEN "dir" ELSE "file"
        /\ disk[p].chunks = input.old[p].chunks /\ disk[p].perm = input.old[p].perm
    BY <2>1 DEF AssetOf
  <2>3. AssetIsNew(p)
    BY <1>1, <2>2 DEF AssetIsNew
  <2>4. p \in input.diff.permissions \/ PermissionIsNew(p)
    BY <1>1, <2>2 DEF PermissionIsNew
  <2> QED
    BY <2>3, <2>4
<1> QED
  BY <1>1, <1>2, <1>3

(* What is removed is not of the new version.                              *)
LEMMA RemovedIsNew ==
    ASSUME input \in Situations, FolderIsOld, UNCHANGED input,
           \A p \in Paths : disk'[p] = IF p \in input.diff.removed THEN Nothing ELSE disk[p]
    PROVE  /\ OthersAreNew(Rewritten)'
           /\ \A p \in Rewritten \cap DirPaths : disk'[p] = Nothing
<1>1. Rewritten' = Rewritten
  BY DEF Rewritten
<1>2. ASSUME NEW p \in Paths \ Rewritten, p \in DOMAIN input.new
      PROVE  AssetIsNew(p)' /\ (p \in input.diff.permissions \/ PermissionIsNew(p)')
  <2>1. disk'[p] = disk[p]
    BY <1>2, OldIsNew
  <2>2. AssetIsNew(p) /\ (p \in input.diff.permissions \/ PermissionIsNew(p))
    BY <1>2, OldIsNew
  <2> QED
    BY <2>1, <2>2 DEF AssetIsNew, PermissionIsNew
<1>3. \A p \in Paths \ DOMAIN input.new : disk'[p] = Nothing
  BY OldIsNew
<1>4. \A p \in Rewritten \cap DirPaths : disk'[p] = Nothing
  BY OldIsNew
<1> QED
  BY <1>1, <1>2, <1>3, <1>4 DEF OthersAreNew

(* All that is to be done is done.                                         *)
LEMMA DoneIsNew ==
    ASSUME input \in Situations, OthersAreNew({}), input.diff.permissions = {} \/ ~input.retain
    PROVE  FolderIsNew
<1>1. ASSUME NEW p \in DOMAIN input.new
      PROVE  AssetIsNew(p) /\ PermissionIsNew(p)
  <2>1. AssetIsNew(p) /\ (p \in input.diff.permissions \/ PermissionIsNew(p))
    BY <1>1, DiffFacts DEF OthersAreNew
  <2>2. ~input.retain => PermissionIsNew(p)
    BY DEF PermissionIsNew
  <2> QED
    BY <2>1, <2>2
<1>2. \A p \in Paths \ DOMAIN input.new : disk[p] = Nothing
  BY DEF OthersAreNew
<1> QED
  BY <1>1, <1>2 DEF FolderIsNew, AssetIsNew, PermissionIsNew

(* The same, of the folder and input that are the same.                    *)
LEMMA SameFolder ==
    ASSUME UNCHANGED <<disk, input>>
    PROVE  /\ \A S : OthersAreNew(S) => OthersAreNew(S)'
           /\ FolderIsNew => FolderIsNew'
           /\ FolderIsOld => FolderIsOld'
           /\ Rewritten' = Rewritten
BY DEF OthersAreNew, AssetIsNew, PermissionIsNew, FolderIsNew, FolderIsOld, Rewritten

(* A call is planned, or there is nothing to do.                           *)
LEMMA PlanFolder ==
    ASSUME SyncInv, StoreKept, FolderInv, PlanWriteVersion \/ PlanChangeVersion
    PROVE  FolderInv'
<1>1. /\ stage \in {"uploaded", "found"} /\ FolderIsOld /\ input \in Situations
      /\ UNCHANGED <<disk, input, store>>
  BY DEF FolderInv, SyncInv, Scalars, PlanWriteVersion, PlanChangeVersion
<1>2. /\ stage = "found" => ContentIsThere(input.existing) /\ ContentIsThere(input.contentFound)
      /\ stage = "uploaded" => ContentIsThere(input.merged) /\ ContentIsThere(input.contentUploaded)
  <2>1. stage = "uploaded" => ToSet(input.missing.blocks) \subseteq DOMAIN store
    BY DEF StoreKept
  <2> QED
    BY <1>1, <2>1, ContentsAreThere
<1>3. ContentIsThere(call.content)' <=> ContentIsThere(call'.content)
  BY <1>1 DEF ContentIsThere
<1>4. CASE PlanWriteVersion
  <2>1. /\ DOMAIN input.old = {} /\ diff' = diff
        /\ call' = [content |-> published, version |-> input.new,
                    assets |-> DOMAIN input.new, retain |-> input.retain]
        /\ \/ DOMAIN input.new = {} /\ stage' = "done"
           \/ stage' = "listing"
    BY <1>4 DEF PlanWriteVersion, Finish
  <2>2. \A p \in Paths : disk'[p] = Nothing
    BY <1>1, <2>1 DEF FolderIsOld
  <2>3. CASE DOMAIN input.new = {} /\ stage' = "done"
    <3>1. FolderIsNew'
      BY <1>1, <2>2, <2>3 DEF FolderIsNew
    <3> QED
      BY <2>3, <3>1 DEF FolderInv, RoundTrip
  <2>4. CASE stage' = "listing"
    <3>1. Rewritten = DOMAIN input.new /\ Rewritten' = Rewritten
      BY <1>1, <2>1, DiffFacts, SameFolder
    <3>2. call'.assets = DOMAIN input.new
      BY <2>1
    <3>3. OthersAreNew(call.assets)'
      BY <1>1, <2>2, <3>2 DEF OthersAreNew
    <3>4. DirsFit(disk)'
      BY <1>1, <2>2, <3>2, DiffFacts DEF DirsFit, Nothing
    <3>5. ContentIsThere(call.content)'
      BY <1>2, <1>3, <1>1, <2>1 DEF FolderInv, StoreKept
    <3>6. diff'.permissions = input'.diff.permissions
      <4>1. diff = NoDiff
        BY <1>1 DEF FolderInv
      <4> QED
        BY <1>1, <2>1, <4>1, DiffFacts DEF NoDiff
    <3>7. CallIsNew'
      BY <1>1, <2>1, <3>1, <3>6 DEF CallIsNew
    <3> QED
      BY <2>4, <3>3, <3>4, <3>5, <3>7 DEF FolderInv, RoundTrip
  <2> QED
    BY <2>1, <2>3, <2>4
<1>5. CASE PlanChangeVersion
  <2>1. /\ diff' = input.diff
        /\ \/ NothingToDo(input.diff, input.retain) /\ stage' = "done"
           \/ /\ stage' = "removing"
              /\ call' = [content |-> IF stage = "found" THEN input.contentFound
                                                         ELSE input.contentUploaded,
                          version |-> input.new,
                          assets |-> input.diff.added \cup input.diff.modified,
                          retain |-> input.retain]
    BY <1>5 DEF PlanChangeVersion, Finish
  <2>2. CASE NothingToDo(input.diff, input.retain) /\ stage' = "done"
    <3>1. /\ Rewritten = {} /\ input.diff.removed = {}
          /\ input.diff.permissions = {} \/ ~input.retain
      BY <2>2 DEF NothingToDo, Rewritten
    <3>2. OthersAreNew({})
      BY <1>1, <3>1, OldIsNew DEF OthersAreNew
    <3>3. FolderIsNew'
      BY <1>1, <3>1, <3>2, DoneIsNew, SameFolder
    <3> QED
      BY <2>2, <3>3 DEF FolderInv, RoundTrip
  <2>3. CASE /\ stage' = "removing"
             /\ call' = [content |-> IF stage = "found" THEN input.contentFound
                                                        ELSE input.contentUploaded,
                         version |-> input.new,
                         assets |-> input.diff.added \cup input.diff.modified,
                         retain |-> input.retain]
    <3>1. CallIsNew' /\ FolderIsOld'
      BY <1>1, <2>1, <2>3, SameFolder DEF CallIsNew, Rewritten
    <3>2. ContentIsThere(call.content)'
      BY <1>1, <1>2, <1>3, <2>3
    <3> QED
      BY <1>1, <2>1, <2>3, <3>1, <3>2 DEF FolderInv, RoundTrip
  <2> QED
    BY <2>1, <2>2, <2>3
<1> QED
  BY <1>4, <1>5

(* The removal leaves what is to be written, if there is any.              *)
LEMMA RemovalFolder ==
    ASSUME SyncInv, FolderInv, RemoveAssets
    PROVE  FolderInv'
<1>1. /\ stage = "removing" /\ stage' = IF call.assets = {} THEN "permitting" ELSE "listing"
      /\ disk' = [p \in Paths |-> IF p \in diff.removed THEN Nothing ELSE disk[p]]
      /\ UNCHANGED <<call, store, input, diff>>
  BY DEF RemoveAssets
<1>2. /\ input \in Situations /\ FolderIsOld /\ CallIsNew /\ diff = input.diff
      /\ ContentIsThere(call.content)
  BY <1>1 DEF FolderInv, SyncInv, Scalars
<1>3. OthersAreNew(Rewritten)' /\ \A p \in Rewritten \cap DirPaths : disk'[p] = Nothing
  <2>1. \A p \in Paths : disk'[p] = IF p \in input.diff.removed THEN Nothing ELSE disk[p]
    BY <1>1, <1>2
  <2> QED
    BY <1>1, <1>2, <2>1, RemovedIsNew
<1>4. call'.assets = Rewritten /\ Rewritten' = Rewritten
  BY <1>1, <1>2 DEF CallIsNew, Rewritten
<1>5. OthersAreNew(call.assets)'
  BY <1>3, <1>4 DEF OthersAreNew
<1>6. call.assets = {} => OthersAreNew({})'
  BY <1>1, <1>4, <1>5 DEF OthersAreNew
<1>7. DirsFit(disk)'
  BY <1>3, <1>4 DEF DirsFit, Nothing
<1>8. CallIsNew' /\ ContentIsThere(call.content)'
  BY <1>1, <1>2, <1>4 DEF CallIsNew, ContentIsThere
<1> QED
  BY <1>1, <1>5, <1>6, <1>7, <1>8 DEF FolderInv, RoundTrip

(* The writing begins: the blocks of the assets have their chunks.         *)
LEMMA ListFolder ==
    ASSUME SyncInv, StoreKept, FolderInv, ListAssets
    PROVE  FolderInv'
<1>1. /\ stage = "listing" /\ stage' = "writing" /\ StartWriteAssets
      /\ UNCHANGED <<input, diff, call, store, disk>>
  BY DEF ListAssets, StartWriteAssets, uploadVars
<1>2. /\ input \in Situations /\ CallIsNew /\ ContentIsThere(call.content)
      /\ OthersAreNew(call.assets) /\ DirsFit(disk) /\ \A b \in DOMAIN store : store[b] = b
  BY <1>1 DEF FolderInv, SyncInv, Scalars, StoreKept
<1>3. ASSUME NEW a \in call.assets PROVE DataIsThere(a)
  <2>1. AssetChunks(a) \in Seq(Nat)
    BY <1>2, DiffFacts DEF CallIsNew, AssetChunks
  <2>2. ASSUME NEW i \in 1..Len(AssetChunks(a))
        PROVE  DataOf(AssetChunks(a)[i]) = AssetChunks(a)[i]
    <3> DEFINE h == AssetChunks(a)[i]
    <3>1. h \in ToSet(AssetChunks(a))
      BY <2>1 DEF ToSet
    <3> HIDE DEF h
    <3>2. HasChunk(call.content, h)
      BY <1>1, <3>1 DEF StartWriteAssets
    <3>3. DataOf(h) = h
      BY <1>2, <3>2, ChunksAreThere
    <3> QED
      BY <3>3 DEF h
  <2> QED
    BY <2>1, <2>2 DEF DataIsThere
<1>4. SourceFits
  BY <1>2, <1>3, DiffFacts DEF SourceFits, CallIsNew
<1>5. DataInv'
  BY <1>1, <1>2, <1>4, StartData
<1>6. OthersAreNew(call.assets)' /\ CallIsNew'
  BY <1>1, <1>2, SameFolder DEF CallIsNew
<1> QED
  BY <1>1, <1>5, <1>6 DEF FolderInv, RoundTrip

(* The jobs of WriteAssets leave all other assets alone.                   *)
LEMMA WritingFolder ==
    ASSUME SyncInv, FolderInv, stage = "writing", UNCHANGED <<call, store, syncRest>>,
           DataInv', Leaves(disk, disk', call.assets)
    PROVE  FolderInv'
<1>1. UNCHANGED <<input, stage, diff>>
  BY DEF syncRest
<1>2. /\ input \in Situations /\ CallIsNew /\ OthersAreNew(call.assets)
      /\ call.version = input.new
  BY DEF FolderInv, SyncInv, Scalars, CallIsNew
<1>3. ASSUME NEW p \in Paths \ call.assets PROVE disk'[p] = disk[p]
  <2>1. p \in DirPaths \cap DOMAIN input.new => disk[p].kind = "dir"
    BY <1>2 DEF OthersAreNew, AssetIsNew
  <2> QED
    BY <1>2, <2>1 DEF Leaves
<1>4. OthersAreNew(call.assets)'
  BY <1>1, <1>2, <1>3 DEF OthersAreNew, AssetIsNew, PermissionIsNew
<1>5. CallIsNew'
  BY <1>1, <1>2 DEF CallIsNew, Rewritten
<1> QED
  BY <1>1, <1>4, <1>5 DEF FolderInv, RoundTrip

(* The jobs of WriteAssets read their call and the store only.             *)
LEMMA WritingReads == ASSUME WriteAssetsNext PROVE UNCHANGED <<call, store>>
<1>1. CASE ReaderNext
  BY <1>1 DEF ReaderNext, ReaderCancelled, ReaderRefused, ReaderAccepted, ReaderComplete,
              ReaderResumed, readerRest, uploadVars
<1>2. CASE BlockJobNext
  BY <1>2 DEF BlockJobNext, BlockReadFailed, BlockCancelled, BlockWritten, BlockNotWritten,
              blockRest, uploadVars
<1>3. CASE PartNext
  BY <1>3 DEF PartNext, PartAfterFailure, PartAsserts, PartCancelled, PartReadsFailed, PartNotOpened,
              PartDirectory, PartOpens, PartWritten, LastPartWritten, PartWriteFails,
              PartHasNoLookup, PartSetsError, PartGivesUp, partRest, uploadVars
<1>4. CASE WriteReady
  BY <1>4 DEF WriteReady, uploadVars
<1> QED
  BY <1>1, <1>2, <1>3, <1>4 DEF WriteAssetsNext

(* So does a cancellation.                                                 *)
LEMMA JobsFolder ==
    ASSUME SyncInv, FolderInv, Cancel \/ CreateAssetJobs \/ WriteAssets
    PROVE  FolderInv'
<1>1. CASE Cancel
  <2>1. /\ UNCHANGED <<call, store, disk, todo, overwritten, input, stage, diff, published, result>>
        /\ UNCHANGED <<reader, blockErr, ctx, part>>
        /\ stage \in {"uploading", "writing"}
    BY <1>1 DEF Cancel, contextVars
  <2>2. CASE stage = "writing"
    <3>1. DataInv' /\ Leaves(disk, disk', call.assets)
      BY <2>1, <2>2, DataStays DEF FolderInv, SyncInv
    <3> QED
      BY <2>1, <2>2, <3>1, WritingFolder DEF syncRest
  <2>3. CASE stage = "uploading"
    BY <2>1, <2>3, SameFolder DEF FolderInv, RoundTrip
  <2> QED
    BY <2>1, <2>2, <2>3
<1>2. CASE CreateAssetJobs \/ WriteAssets
  <2>1. stage = "writing" /\ UNCHANGED syncRest /\ (CreateJobsNext \/ WriteAssetsNext)
    BY <1>2 DEF CreateAssetJobs, WriteAssets
  <2>2. UNCHANGED <<call, store>>
    <3>1. CASE CreateJobsNext
      BY <3>1 DEF CreateJobsNext, CreateBlockJob, CreateAssetJob, StartWaiting, uploadVars
    <3>2. CASE WriteAssetsNext
      BY <3>2, WritingReads
    <3> QED
      BY <2>1, <3>1, <3>2
  <2>3. DataInv' /\ Leaves(disk, disk', call.assets)
    BY <2>1, CreateJobsData, WriteAssetsData DEF FolderInv, SyncInv
  <2> QED
    BY <2>1, <2>2, <2>3, WritingFolder
<1> QED
  BY <1>1, <1>2

(* When the jobs are done without an error all assets are written.         *)
LEMMA WrittenFolder ==
    ASSUME SyncInv, FolderInv, EndWriteAssets
    PROVE  FolderInv'
<1>1. /\ stage = "writing" /\ AllJobsDone(group)
      /\ UNCHANGED <<disk, call, input, diff, overwritten>>
      /\ \/ /\ WriteAssetsResult = "ok" /\ stage' = "permitting"
         \/ /\ stage' = "done" /\ result' = WriteAssetsResult
            /\ WriteAssetsResult # "ok" \/ DOMAIN input.old = {}
  BY DEF EndWriteAssets, Finish, coreRest
<1>2. /\ input \in Situations /\ CallIsNew /\ OthersAreNew(call.assets) /\ DataInv
      /\ WriteInv /\ JobsPlanned /\ IsGroup(group) /\ Counted(group)
  BY <1>1 DEF FolderInv, SyncInv, Scalars, GroupFits
<1>3. ASSUME WriteAssetsResult = "ok", overwritten = {} PROVE OthersAreNew({})
  <2>1. \A j \in Jobs(group) : group.job[j] = "complete"
    BY <1>1, <1>2, DoneFacts
  <2>2. \A a \in call.assets : IF a \in DirPaths THEN disk[a].kind = "dir" ELSE Whole(disk, a)
    BY <1>1, <1>2, <1>3, <2>1, AllWritten
  <2>3. ASSUME NEW p \in call.assets
        PROVE  p \in DOMAIN input.new /\ AssetIsNew(p) /\ PermissionIsNew(p)
    <3>1. p \in DOMAIN input.new /\ p \in Rewritten /\ AssetChunks(p) = input.new[p].chunks
      BY <1>2, DiffFacts DEF CallIsNew, AssetChunks
    <3>2. CASE p \in DirPaths
      <4>1. p \notin DOMAIN input.old /\ input.new[p].chunks = <<>>
        BY <1>2, <3>1, <3>2, DiffFacts DEF IsTree
      <4>2. disk[p].kind = "dir" /\ disk[p].chunks = <<>>
        BY <1>2, <2>2, <3>2 DEF DataInv, DirsFit
      <4> QED
        BY <3>1, <3>2, <4>1, <4>2 DEF AssetIsNew, PermissionIsNew
    <3>3. CASE p \notin DirPaths
      BY <1>2, <2>2, <3>1, <3>3 DEF AssetIsNew, PermissionIsNew, Whole, CallIsNew
    <3> QED
      BY <3>2, <3>3
  <2> QED
    BY <1>2, <2>3 DEF OthersAreNew
<1>4. CASE WriteAssetsResult = "ok" /\ stage' = "permitting"
  <2>1. overwritten' = {} => OthersAreNew({})'
    BY <1>1, <1>3, <1>4, SameFolder
  <2>2. CallIsNew'
    BY <1>1, <1>2 DEF CallIsNew, Rewritten
  <2> QED
    BY <1>4, <2>1, <2>2 DEF FolderInv, RoundTrip
<1>5. CASE stage' = "done"
  <2>1. ASSUME result' = "ok", overwritten' = {} PROVE FolderIsNew'
    <3>1. OthersAreNew({}) /\ DOMAIN input.old = {}
      BY <1>1, <1>3, <1>5, <2>1
    <3>2. FolderIsNew
      BY <1>2, <3>1, DiffFacts, DoneIsNew
    <3> QED
      BY <1>1, <3>2, SameFolder
  <2> QED
    BY <1>5, <2>1 DEF FolderInv, RoundTrip
<1> QED
  BY <1>1, <1>4, <1>5

(* The permissions that are left are set.                                  *)
LEMMA PermissionsFolder ==
    ASSUME SyncInv, FolderInv, SetPermissions
    PROVE  FolderInv'
<1>1. /\ stage = "permitting" /\ stage' = "done" /\ UNCHANGED <<call, input, diff, overwritten>>
      /\ result' = "ok" =>
           disk' = [p \in Paths |-> IF call.retain /\ p \in diff.permissions
                                    THEN [disk[p] EXCEPT !.perm = input.new[p].perm]
                                    ELSE disk[p]]
  BY DEF SetPermissions, Finish, coreRest
<1>2. /\ input \in Situations /\ CallIsNew /\ IsDisk(disk)
      /\ overwritten = {} => OthersAreNew({})
  BY <1>1 DEF FolderInv, SyncInv, Scalars, DiskShape
<1>3. ASSUME result' = "ok", overwritten = {} PROVE FolderIsNew'
  <2>1. call.retain = input.retain /\ diff.permissions = input.diff.permissions
    BY <1>2 DEF CallIsNew
  <2>2. ASSUME NEW p \in DOMAIN input.new
        PROVE  (AssetIsNew(p) /\ PermissionIsNew(p))'
    <3>1. p \in Paths /\ AssetIsNew(p) /\ (p \in input.diff.permissions \/ PermissionIsNew(p))
      BY <1>2, <1>3, DiffFacts DEF OthersAreNew
    <3>2. CASE input.retain /\ p \in input.diff.permissions
      <4>1. disk'[p] = [disk[p] EXCEPT !.perm = input.new[p].perm]
        BY <1>1, <1>3, <2>1, <3>1, <3>2
      <4>2. IsAsset(disk[p])
        BY <1>2, <3>1 DEF IsDisk
      <4>3. /\ disk'[p].kind = disk[p].kind /\ disk'[p].chunks = disk[p].chunks
            /\ disk'[p].perm = input.new[p].perm
        BY <4>1, <4>2, AssetFields
      <4> QED
        BY <1>1, <3>1, <4>3 DEF AssetIsNew, PermissionIsNew
    <3>3. CASE ~(input.retain /\ p \in input.diff.permissions)
      <4>1. disk'[p] = disk[p]
        BY <1>1, <1>3, <2>1, <3>1, <3>3
      <4>2. PermissionIsNew(p)
        BY <3>1, <3>3 DEF PermissionIsNew
      <4> QED
        BY <1>1, <3>1, <4>1, <4>2 DEF AssetIsNew, PermissionIsNew
    <3> QED
      BY <3>2, <3>3
  <2>3. ASSUME NEW p \in Paths \ DOMAIN input.new PROVE disk'[p] = Nothing
    <3>1. p \notin input.diff.permissions /\ disk[p] = Nothing
      BY <1>2, <1>3, DiffFacts DEF OthersAreNew
    <3> QED
      BY <1>1, <1>3, <2>1, <3>1
  <2> QED
    BY <1>1, <2>2, <2>3 DEF FolderIsNew, AssetIsNew, PermissionIsNew
<1> QED
  BY <1>1, <1>3 DEF FolderInv, RoundTrip

(* Every step keeps it.                                                    *)
LEMMA StepFolder == SyncInv /\ StoreKept /\ FolderInv /\ [Next]_vars => FolderInv'
<1> SUFFICES ASSUME SyncInv, StoreKept, FolderInv, [Next]_vars PROVE FolderInv'
  OBVIOUS
<1>1. CASE StartUpload \/ UploadNothing \/ SkipUpload \/ EndUpload \/ Upload
  BY <1>1, UploadFolder
<1>2. CASE \/ PreparationFails \/ RemoveFails \/ RemoveReportsError \/ ListFails
           \/ AssetContextsFail \/ OpenRefused \/ CloseVersionFile
  BY <1>2, FailedFolder
<1>3. CASE OpenVersionFile \/ ReadFile \/ CopyBlocks \/ EndRead
  BY <1>3, ReadFolder
<1>4. CASE PlanWriteVersion \/ PlanChangeVersion \/ RemoveAssets
  BY <1>4, PlanFolder, RemovalFolder
<1>5. CASE ListAssets \/ Cancel \/ CreateAssetJobs \/ WriteAssets
  BY <1>5, ListFolder, JobsFolder
<1>6. CASE EndWriteAssets \/ SetPermissions
  BY <1>6, WrittenFolder, PermissionsFolder
<1>7. CASE JobReturns \/ UNCHANGED vars
  <2>1. /\ UNCHANGED <<call, store, disk, todo, overwritten, input, stage, diff, published, result>>
        /\ UNCHANGED <<reader, blockErr, ctx, part>>
    BY <1>7 DEF JobReturns, vars, contextVars
  <2>2. stage = "writing" => DataInv'
    BY <2>1, DataStays DEF FolderInv, SyncInv
  <2>3. /\ CallIsNew => CallIsNew'
        /\ ContentIsThere(call.content) => ContentIsThere(call.content)'
        /\ DirsFit(disk) => DirsFit(disk)'
    BY <2>1, SameFolder DEF CallIsNew, ContentIsThere, DirsFit
  <2> QED
    BY <2>1, <2>2, <2>3, SameFolder DEF FolderInv, RoundTrip
<1> QED
  BY <1>1, <1>2, <1>3, <1>4, <1>5, <1>6, <1>7 DEF Next

--------------------------------------------------------------------------------
(* What a file is read from *)

(* The file that is open is of the version, its content is there, and the  *)
(* handle is at the beginning of a chunk.                                  *)
HandleFits ==
    FileChunks # <<>> => /\ handle.chunk \in DOMAIN FileChunks
                         /\ handle.pos = OffsetOf(FileChunks, handle.chunk)
FileIsThere ==
    /\ FileChunks \in Seq(Nat) /\ ArePositive(ToSet(FileChunks))
    /\ ContentIsThere(call.content)
    /\ \A h \in ToSet(FileChunks) : HasChunk(call.content, h)

(* The range of a block begins where its first chunk does and has no chunk *)
(* but its last that goes beyond the read.                                 *)
ReadEnd == read.start + read.size
RangeFits(r) ==
    /\ r.start \in DOMAIN FileChunks /\ r.end \in DOMAIN FileChunks /\ r.start <= r.end
    /\ r.offset = OffsetOf(FileChunks, r.start)
    /\ \A c \in r.start..(r.end - 1) : OffsetOf(FileChunks, c + 1) <= ReadEnd
IsInRange(b, c) ==
    Contains(b, FileChunks[c]) /\ read.ranges[b].start <= c /\ c <= read.ranges[b].end

(* Each chunk the read has a part of is in the range of its block.         *)
RangesFit ==
    /\ read.start \in Nat /\ read.size \in Nat /\ ReadEnd <= FileSize
    /\ \A b \in DOMAIN read.ranges : /\ b \in ToSet(call.content.blocks)
                                     /\ RangeFits(read.ranges[b])
    /\ \A c \in DOMAIN FileChunks :
         OffsetOf(FileChunks, c) < ReadEnd /\ read.start < OffsetOf(FileChunks, c + 1)
           => \E b \in DOMAIN read.ranges : IsInRange(b, c)

(* The bytes of a chunk are where they belong in a buffer.                 *)
BytesAreRight(buf, c) ==
    \A i \in 1..read.size : \A j \in 1..ChunkSize[FileChunks[c]] :
        OffsetOf(FileChunks, c) + j = read.start + i => buf[i] = FileBytes[read.start + i]
IsBuffer(buf) == buf \in [1..read.size -> Nat \X Int]
Copied(b) == copier[b].err = "ok" /\ copier[b].block = "disposed"
BufferFills ==
    /\ IsBuffer(buffer)
    /\ \A b \in DOMAIN copier : Copied(b) =>
         \A c \in DOMAIN FileChunks : IsInRange(b, c) => BytesAreRight(buffer, c)

(* A job that is complete has copied its block, or has an error.           *)
ReadInv ==
    /\ stage \in {"opened", "copying", "copied"} => FileIsThere /\ HandleFits
    /\ stage \in {"copying", "copied"} => RangesFit /\ BufferFills
    /\ stage = "copying" => \A b \in DOMAIN copier :
         group.job[CopyJob(b)] = "complete" => copier[b].err # "ok" \/ Copied(b)
    /\ stage = "copied" => \A b \in DOMAIN copier : copier[b].err # "ok" \/ Copied(b)

(* The chunks of the file lie one behind the other.                        *)
LEMMA FileOffsets == FileIsThere => OffsetsAreSums(FileChunks)
<1> SUFFICES ASSUME FileIsThere PROVE OffsetsAreSums(FileChunks)
  OBVIOUS
<1> DEFINE H == ToSet(FileChunks)
           F == FileChunks
<1>1. F \in Seq(Nat) /\ ArePositive(H)
  BY DEF FileIsThere
<1>2. F \in Seq(H)
  <2>1. \A i \in 1..Len(F) : F[i] \in H
    BY <1>1 DEF ToSet
  <2> HIDE DEF F, H
  <2> QED
    BY <1>1, <2>1, SequenceIn
<1> HIDE DEF F, H
<1>3. OffsetsAreSums(F)
  BY <1>1, <1>2, OffsetSteps
<1> QED
  BY <1>3 DEF F

(* They are what the file has.                                             *)
LEMMA BytesOfFile ==
    FileIsThere =>
        /\ FileBytes \in Seq(Nat \X Nat) /\ Len(FileBytes) = FileSize
        /\ \A c \in DOMAIN FileChunks : \A j \in 1..ChunkSize[FileChunks[c]] :
             FileBytes[OffsetOf(FileChunks, c) + j] = <<FileChunks[c], j>>
<1> SUFFICES ASSUME FileIsThere
             PROVE  /\ FileBytes \in Seq(Nat \X Nat) /\ Len(FileBytes) = FileSize
                    /\ \A c \in DOMAIN FileChunks : \A j \in 1..ChunkSize[FileChunks[c]] :
                         FileBytes[OffsetOf(FileChunks, c) + j] = <<FileChunks[c], j>>
  OBVIOUS
<1> DEFINE F == FileChunks
           n == Len(F)
           B == Nat \X Nat
           seqs == [c \in DOMAIN F |-> [i \in 1..ChunkSize[F[c]] |-> <<F[c], i>>]]
<1>1. F \in Seq(Nat) /\ n \in Nat /\ DOMAIN F = 1..n /\ OffsetsAreSums(F)
  BY FileOffsets DEF FileIsThere
<1>2. /\ OffsetOf(F, 1) = 0 /\ OffsetOf(F, n + 1) = FileSize
      /\ \A i \in 1..(n + 1) : OffsetOf(F, i) \in Nat
      /\ \A i \in 1..n : /\ ChunkSize[F[i]] \in Nat
                         /\ OffsetOf(F, i + 1) = OffsetOf(F, i) + ChunkSize[F[i]]
  BY <1>1 DEF OffsetsAreSums, FileSize
<1>3. FileBytes = FlattenSeq(seqs)
  BY DEF FileBytes
<1> HIDE DEF F, n
<1>4. ASSUME NEW c \in 1..n
      PROVE  /\ seqs[c] \in Seq(B) /\ Len(seqs[c]) = ChunkSize[F[c]]
             /\ \A j \in 1..ChunkSize[F[c]] : seqs[c][j] = <<F[c], j>>
  <2> DEFINE s == [i \in 1..ChunkSize[F[c]] |-> <<F[c], i>>]
  <2>1. seqs[c] = s
    BY <1>1
  <2>2. F[c] \in Nat /\ ChunkSize[F[c]] \in Nat
    BY <1>1, <1>2
  <2>3. s \in Seq(B) /\ Len(s) = ChunkSize[F[c]]
    BY <2>2
  <2> QED
    BY <2>1, <2>3
<1>5. seqs \in Seq(Seq(B)) /\ Len(seqs) = n
  <2> DEFINE V == Seq(B)
  <2>1. DOMAIN seqs = 1..n /\ \A c \in 1..n : seqs[c] \in V
    BY <1>1, <1>4
  <2>2. seqs = [c \in 1..n |-> seqs[c]]
    BY <1>1
  <2> HIDE DEF seqs, V
  <2>3. seqs \in [1..n -> V]
    BY <2>1, <2>2
  <2>4. seqs \in Seq(V) /\ Len(seqs) = n
    BY <1>1, <2>3
  <2> QED
    BY <2>4 DEF V
<1> HIDE DEF seqs, B
<1>6. /\ FlattenSeq(seqs) \in Seq(B)
      /\ \E e : /\ AreEnds(e, seqs) /\ Placed(FlattenSeq(seqs), seqs, Len(seqs), e)
                /\ Len(FlattenSeq(seqs)) = e[Len(seqs)]
  BY <1>5, FlattenPlaces
<1>7. PICK e : /\ AreEnds(e, seqs) /\ Placed(FlattenSeq(seqs), seqs, Len(seqs), e)
               /\ Len(FlattenSeq(seqs)) = e[Len(seqs)]
  BY <1>6
<1>8. \A k \in 0..n : e[k] = OffsetOf(F, k + 1)
  <2> DEFINE Q == {k \in 0..n : e[k] = OffsetOf(F, k + 1)}
  <2>1. 0 \in Q
    BY <1>1, <1>2, <1>7 DEF AreEnds
  <2>2. ASSUME NEW k \in 1..n, k - 1 \in Q PROVE k \in Q
    <3>1. e[k - 1] = OffsetOf(F, k) /\ e[k] = e[k - 1] + Len(seqs[k])
      BY <1>1, <1>5, <1>7, <2>2 DEF AreEnds
    <3>2. Len(seqs[k]) = ChunkSize[F[k]]
      BY <1>4
    <3> QED
      BY <1>1, <1>2, <3>1, <3>2
  <2>3. \A k \in 0..n : k \in Q
    <3> HIDE DEF Q
    <3> QED
      BY <1>1, <2>1, <2>2, RangeInduction
  <2> QED
    BY <2>3
<1>9. Len(FileBytes) = FileSize
  BY <1>1, <1>2, <1>3, <1>5, <1>7, <1>8
<1>10. ASSUME NEW c \in 1..n, NEW j \in 1..ChunkSize[F[c]]
       PROVE  FileBytes[OffsetOf(F, c) + j] = <<F[c], j>>
  <2>1. e[c - 1] = OffsetOf(F, c)
    <3>1. c - 1 \in 0..n /\ (c - 1) + 1 = c
      BY <1>1
    <3> QED
      BY <1>8, <3>1
  <2>2. j \in 1..Len(seqs[c]) /\ seqs[c][j] = <<F[c], j>>
    BY <1>4
  <2>3. FlattenSeq(seqs)[e[c - 1] + j] = seqs[c][j]
    BY <1>5, <1>7, <2>2 DEF Placed
  <2> QED
    BY <1>3, <2>1, <2>2, <2>3
<1> QED
  BY <1>1, <1>3, <1>6, <1>9, <1>10 DEF F, B

(* The first chunk, from one on, that ends at a place or behind it.        *)
EndsAt(e, first, end) ==
    /\ e \in first..Len(FileChunks) /\ OffsetOf(FileChunks, e + 1) >= end
    /\ \A d \in first..(e - 1) : OffsetOf(FileChunks, d + 1) < end

LEMMA ChunkEnds ==
    ASSUME FileIsThere, NEW first \in DOMAIN FileChunks, NEW end \in Nat, end <= FileSize
    PROVE  \E e : EndsAt(e, first, end)
<1> DEFINE F == FileChunks
           n == Len(F)
           S == {e \in first..n : OffsetOf(F, e + 1) >= end}
<1>1. F \in Seq(Nat) /\ n \in Nat /\ DOMAIN F = 1..n /\ OffsetsAreSums(F)
  BY FileOffsets DEF FileIsThere
<1>2. OffsetOf(F, n + 1) = FileSize /\ \A i \in 1..(n + 1) : OffsetOf(F, i) \in Nat
  BY <1>1 DEF OffsetsAreSums, FileSize
<1> HIDE DEF F, n
<1>3. first \in 1..n
  BY <1>1 DEF F
<1>4. S \in SUBSET Nat /\ n \in S
  BY <1>1, <1>2, <1>3
<1>5. PICK m \in S : \A k \in S : m <= k
  <2> HIDE DEF S
  <2> QED
    BY <1>4, LeastNumber
<1>6. ASSUME NEW d \in first..(m - 1) PROVE OffsetOf(F, d + 1) < end
  <2>1. m \in first..n /\ d \in first..n /\ d < m /\ d + 1 \in 1..(n + 1)
    BY <1>1, <1>3, <1>5
  <2>2. d \notin S
    <3> HIDE DEF S
    <3> QED
      BY <1>1, <1>4, <1>5, <2>1
  <2> QED
    BY <1>2, <2>1, <2>2
<1>7. m \in first..n /\ OffsetOf(F, m + 1) >= end
  BY <1>5
<1> QED
  BY <1>6, <1>7 DEF EndsAt, F, n

(* Each byte of the file is one of a chunk.                                *)
LEMMA ChunkOfByte ==
    ASSUME FileIsThere, NEW p \in 1..FileSize
    PROVE  \E c \in DOMAIN FileChunks : \E j \in 1..ChunkSize[FileChunks[c]] :
             p = OffsetOf(FileChunks, c) + j
<1> DEFINE F == FileChunks
           n == Len(F)
<1>1. F \in Seq(Nat) /\ n \in Nat /\ DOMAIN F = 1..n /\ OffsetsAreSums(F)
  BY FileOffsets DEF FileIsThere
<1>2. /\ OffsetOf(F, 1) = 0 /\ OffsetOf(F, n + 1) = FileSize
      /\ \A i \in 1..(n + 1) : OffsetOf(F, i) \in Nat
      /\ \A i \in 1..n : /\ ChunkSize[F[i]] \in Nat
                         /\ OffsetOf(F, i + 1) = OffsetOf(F, i) + ChunkSize[F[i]]
  BY <1>1 DEF OffsetsAreSums, FileSize
<1>3. p \in Nat /\ p >= 1 /\ p <= FileSize /\ FileSize \in Nat
  BY <1>1, <1>2
<1>4. 1 \in DOMAIN F
  BY <1>1, <1>2, <1>3
<1>5. PICK e : EndsAt(e, 1, p)
  BY <1>3, <1>4, ChunkEnds
<1>6. /\ e \in 1..n /\ OffsetOf(F, e + 1) >= p
      /\ \A d \in 1..(e - 1) : OffsetOf(F, d + 1) < p
  BY <1>5 DEF EndsAt
<1> HIDE DEF F, n
<1>7. OffsetOf(F, e) < p
  <2>1. CASE e = 1
    BY <1>2, <1>3, <2>1
  <2>2. CASE e # 1
    <3>1. e - 1 \in 1..(e - 1) /\ (e - 1) + 1 = e
      BY <1>1, <1>6, <2>2
    <3> QED
      BY <1>6, <3>1
  <2> QED
    BY <2>1, <2>2
<1>8. OffsetOf(F, e) \in Nat /\ ChunkSize[F[e]] \in Nat
      /\ OffsetOf(F, e + 1) = OffsetOf(F, e) + ChunkSize[F[e]]
  BY <1>1, <1>2, <1>6
<1> DEFINE j == p - OffsetOf(F, e)
<1>9. j \in 1..ChunkSize[F[e]] /\ p = OffsetOf(F, e) + j
  BY <1>3, <1>6, <1>7, <1>8
<1> QED
  BY <1>1, <1>6, <1>9 DEF F

(* The search by halves ends at a chunk that does not start behind pos.    *)
LEMMA StartChunkFound ==
    ASSUME FileIsThere, FileChunks # <<>>, NEW pos \in Nat
    PROVE  /\ FindStartChunk(pos) \in DOMAIN FileChunks
           /\ OffsetOf(FileChunks, FindStartChunk(pos)) <= pos
<1> DEFINE a == ChunkAssetOffsets
           n == Len(a)
           D == {s \in (1..(n + 1)) \X (0..n) : s[1] + s[2] <= n + 1}
           It(s) == s[1] + s[2] \div 2
           Left(s) == <<It(s) + 1, s[2] - s[2] \div 2 - 1>>
           Right(s) == <<s[1], s[2] \div 2>>
           IsSearch(f) == f = [s \in D |->
             LET step == s[2] \div 2
                 it == s[1] + step
             IN  IF s[2] = 0 THEN s[1]
                 ELSE IF a[it] < pos THEN f[<<it + 1, s[2] - step - 1>>]
                                     ELSE f[<<s[1], step>>]]
           search == CHOOSE f : IsSearch(f)
           found == search[<<1, n>>]
           base == {s \in D : s[2] = 0}
           value == [s \in D |-> s[1]]
           next == [s \in D \ base |-> IF a[It(s)] < pos THEN Left(s) ELSE Right(s)]
           step == [s \in D \ base |-> [v \in Nat |-> v]]
           rank == [s \in D |-> s[2]]
<1>1. /\ n \in Nat /\ n >= 1 /\ DOMAIN FileChunks = 1..n /\ DOMAIN a = 1..n
      /\ \A c \in 1..n : a[c] = OffsetOf(FileChunks, c) /\ a[c] \in Nat
      /\ a[1] = 0
  <2> DEFINE F == FileChunks
             m == Len(F)
  <2>1. F \in Seq(Nat) /\ OffsetsAreSums(F) /\ F # <<>>
    BY FileOffsets DEF FileIsThere
  <2>2. m \in Nat /\ m >= 1 /\ DOMAIN F = 1..m
    <3> HIDE DEF F
    <3> QED
      BY <2>1
  <2>3. OffsetOf(F, 1) = 0 /\ \A c \in 1..m : OffsetOf(F, c) \in Nat
    BY <2>1, <2>2 DEF OffsetsAreSums
  <2>4. a = [c \in 1..m |-> OffsetOf(F, c)]
    BY <2>2 DEF ChunkAssetOffsets
  <2> HIDE DEF F, m, a
  <2>5. a \in [1..m -> Nat]
    BY <2>3, <2>4
  <2>6. Len(a) = m
    BY <2>2, <2>5
  <2> QED
    BY <2>2, <2>3, <2>4, <2>6 DEF F, m
<1>2. FindStartChunk(pos) = IF found = n + 1 \/ a[found] > pos THEN found - 1 ELSE found
  BY DEF FindStartChunk
<1> HIDE DEF a, n
<1>3. ASSUME NEW s \in D \ base
      PROVE  /\ It(s) \in 1..n /\ Left(s) \in D /\ Right(s) \in D
             /\ Left(s)[2] < s[2] /\ Right(s)[2] < s[2]
             /\ Left(s)[1] = It(s) + 1 /\ Right(s)[1] = s[1]
  <2>1. PICK i \in 1..(n + 1), k \in 0..n : s = <<i, k>>
    OBVIOUS
  <2>2. i \in Nat /\ k \in Nat /\ i >= 1 /\ i + k <= n + 1 /\ k # 0 /\ s[1] = i /\ s[2] = k
    BY <1>1, <2>1
  <2> DEFINE q == k \div 2
  <2>3. q \in Nat /\ q < k
    BY <2>2
  <2> HIDE DEF q
  <2>4. It(s) = i + q /\ Left(s) = <<i + q + 1, k - q - 1>> /\ Right(s) = <<i, q>>
    BY <2>2 DEF q
  <2>5. i + q \in 1..n /\ i + q + 1 \in 1..(n + 1) /\ k - q - 1 \in 0..n /\ q \in 0..n
        /\ (i + q + 1) + (k - q - 1) <= n + 1 /\ i + q <= n + 1 /\ k - q - 1 < k
    BY <1>1, <2>2, <2>3
  <2> HIDE DEF It, Left, Right
  <2>6. <<i + q + 1, k - q - 1>> \in D /\ <<i, q>> \in D
    BY <2>5
  <2> QED
    BY <2>2, <2>3, <2>4, <2>5, <2>6
<1>4. /\ value \in [D -> Nat] /\ next \in [D \ base -> D]
      /\ step \in [D \ base -> [Nat -> Nat]] /\ rank \in [D -> Nat]
      /\ (\A s \in D : rank[s] < n + 1) /\ \A s \in D \ base : rank[next[s]] < rank[s]
  <2>1. \A s \in D : s[1] \in Nat /\ s[2] \in Nat /\ s[2] < n + 1
    BY <1>1
  <2>2. value \in [D -> Nat] /\ rank \in [D -> Nat] /\ \A s \in D : rank[s] < n + 1
    <3> HIDE DEF D
    <3> QED
      BY <2>1
  <2> HIDE DEF D, base, It, Left, Right
  <2>3. next \in [D \ base -> D] /\ \A s \in D \ base : next[s] \in {Left(s), Right(s)}
    BY <1>3
  <2>4. step \in [D \ base -> [Nat -> Nat]]
    OBVIOUS
  <2>5. ASSUME NEW s \in D \ base PROVE rank[next[s]] < rank[s]
    <3>1. next[s] \in D /\ (next[s])[2] < s[2]
      <4> HIDE DEF next
      <4> QED
        BY <1>3, <2>3
    <3> HIDE DEF next
    <3> QED
      BY <3>1
  <2> QED
    BY <2>2, <2>3, <2>4, <2>5
<1>5. \E f \in [D -> Nat] : Solves(f, D, base, value, next, step)
  <2> DEFINE m == n + 1
  <2>1. m \in Nat
    BY <1>1
  <2> HIDE DEF D, base, value, next, step, rank, m
  <2>2. IsRecursion(D, Nat, base, value, next, step, rank, m)
    BY <1>4, <2>1 DEF IsRecursion, m
  <2> QED
    BY ONLY <2>2, LinearRecursion
<1>6. PICK f \in [D -> Nat] : Solves(f, D, base, value, next, step)
  BY <1>5
<1>7. ASSUME NEW s \in D
      PROVE  f[s] = IF s[2] = 0 THEN s[1] ELSE IF a[It(s)] < pos THEN f[Left(s)] ELSE f[Right(s)]
  <2>1. f[s] = IF s \in base THEN value[s] ELSE step[s][f[next[s]]]
    BY <1>6 DEF Solves
  <2>2. CASE s[2] = 0
    <3>1. s \in base
      BY <2>2
    <3> HIDE DEF D, base
    <3> QED
      BY <2>1, <2>2, <3>1
  <2>3. CASE s[2] # 0
    <3>1. s \in D \ base /\ s \notin base
      BY <2>3
    <3> HIDE DEF D, base, It, Left, Right
    <3>2. next[s] = (IF a[It(s)] < pos THEN Left(s) ELSE Right(s)) /\ next[s] \in D
      BY <1>4, <3>1
    <3>3. f[next[s]] \in Nat
      BY <3>2
    <3>4. step[s] = [v \in Nat |-> v]
      BY <3>1
    <3> HIDE DEF next, step, value
    <3>5. f[s] = f[next[s]]
      BY <2>1, <3>1, <3>3, <3>4
    <3> QED
      BY <2>3, <3>2, <3>5
  <2> QED
    BY <2>2, <2>3
<1>8. IsSearch(f)
  <2>1. \A s \in D : f[s] = LET step1 == s[2] \div 2
                                it == s[1] + step1
                            IN  IF s[2] = 0 THEN s[1]
                                ELSE IF a[it] < pos THEN f[<<it + 1, s[2] - step1 - 1>>]
                                                    ELSE f[<<s[1], step1>>]
    <3> HIDE DEF D
    <3> QED
      BY <1>7
  <2> HIDE DEF D
  <2> QED
    BY <2>1
<1>9. IsSearch(search)
  <2> HIDE DEF IsSearch
  <2> QED
    BY <1>8
<1> HIDE DEF search
<1>10. ASSUME NEW s \in D
       PROVE  search[s] = IF s[2] = 0 THEN s[1]
                          ELSE IF a[It(s)] < pos THEN search[Left(s)] ELSE search[Right(s)]
  <2> HIDE DEF D
  <2> QED
    BY <1>9
<1> HIDE DEF IsSearch
<1> DEFINE Before(c) == c = 1 \/ a[c - 1] < pos
           Q == {s \in D : Before(s[1]) => search[s] \in 1..(n + 1) /\ Before(search[s])}
<1>11. D \subseteq Q
  <2>1. ASSUME NEW s \in D, \A y \in D : rank[y] < rank[s] => y \in Q PROVE s \in Q
    <3> SUFFICES ASSUME Before(s[1]) PROVE search[s] \in 1..(n + 1) /\ Before(search[s])
      OBVIOUS
    <3>1. s[1] \in 1..(n + 1)
      OBVIOUS
    <3>2. CASE s[2] = 0
      <4>1. search[s] = s[1]
        BY <1>10, <3>2
      <4> QED
        BY <3>1, <4>1
    <3>3. CASE s[2] # 0
      <4>1. s \in D \ base
        BY <3>3
      <4>2. /\ It(s) \in 1..n /\ Left(s) \in D /\ Right(s) \in D
            /\ Left(s)[2] < s[2] /\ Right(s)[2] < s[2]
            /\ Left(s)[1] = It(s) + 1 /\ Right(s)[1] = s[1]
        BY <1>3, <4>1
      <4>3. search[s] = IF a[It(s)] < pos THEN search[Left(s)] ELSE search[Right(s)]
        BY <1>10, <3>3
      <4> HIDE DEF D, It, Left, Right
      <4>4. Left(s) \in Q /\ Right(s) \in Q
        <5>1. rank[Left(s)] < rank[s] /\ rank[Right(s)] < rank[s]
          BY <4>2
        <5> HIDE DEF Q, rank
        <5> QED
          BY <2>1, <4>2, <5>1
      <4>5. CASE a[It(s)] < pos
        <5>1. (It(s) + 1) - 1 = It(s)
          BY <4>2
        <5>2. Before(Left(s)[1])
          BY <4>2, <4>5, <5>1
        <5> QED
          BY <4>3, <4>4, <4>5, <5>2
      <4>6. CASE ~(a[It(s)] < pos)
        <5>1. Before(Right(s)[1])
          BY <4>2
        <5> QED
          BY <4>3, <4>4, <4>6, <5>1
      <4> QED
        BY <4>5, <4>6
    <3> QED
      BY <3>2, <3>3
  <2> HIDE DEF D, Q, rank
  <2>2. rank \in [D -> Nat]
    BY <1>4
  <2>3. \A x \in D : (\A y \in D : rank[y] < rank[x] => y \in Q) => x \in Q
    BY <2>1
  <2> QED
    BY ONLY <2>2, <2>3, RankInduction
<1>12. found \in 1..(n + 1) /\ Before(found)
  <2>1. <<1, n>> \in D /\ Before(1)
    BY <1>1
  <2>2. <<1, n>> \in Q /\ <<1, n>>[1] = 1
    <3> HIDE DEF D, Q
    <3> QED
      BY <1>11, <2>1
  <2> QED
    BY <2>1, <2>2
<1> HIDE DEF found
<1>13. CASE found = n + 1 \/ a[found] > pos
  <2>1. found # 1
    BY <1>1, <1>13
  <2>2. found - 1 \in 1..n /\ a[found - 1] < pos
    BY <1>1, <1>12, <2>1
  <2>3. FindStartChunk(pos) = found - 1 /\ a[found - 1] \in Nat
    BY <1>1, <1>2, <1>13, <2>2
  <2> QED
    BY <1>1, <2>2, <2>3
<1>14. CASE ~(found = n + 1 \/ a[found] > pos)
  <2>1. found \in 1..n
    BY <1>1, <1>12, <1>14
  <2>2. a[found] <= pos /\ FindStartChunk(pos) = found
    BY <1>1, <1>2, <1>14, <2>1
  <2> QED
    BY <1>1, <2>1, <2>2
<1> QED
  BY <1>13, <1>14

(* Seeking leaves the handle at the beginning of a chunk, not behind pos.  *)
LEMMA SeekIsBefore ==
    ASSUME SyncInv, FileIsThere, HandleFits, FileChunks # <<>>, NEW pos \in Nat
    PROVE  /\ SeekFile(pos).chunk \in DOMAIN FileChunks
           /\ OffsetOf(FileChunks, SeekFile(pos).chunk) <= pos
<1> DEFINE a == ChunkAssetOffsets
           here == /\ pos >= a[handle.chunk]
                   /\ handle.chunk = Len(a) \/ pos < a[handle.chunk + 1]
           found == FindStartChunk(pos)
<1>1. /\ handle.chunk \in DOMAIN FileChunks
      /\ handle.pos = OffsetOf(FileChunks, handle.chunk)
  BY DEF HandleFits
<1>2. a[handle.chunk] = OffsetOf(FileChunks, handle.chunk)
  BY <1>1 DEF ChunkAssetOffsets
<1>3. found \in DOMAIN FileChunks /\ OffsetOf(FileChunks, found) <= pos
  BY StartChunkFound
<1>4. CASE pos = handle.pos \/ here
  <2>1. SeekFile(pos) = handle
    BY <1>4 DEF SeekFile
  <2>2. OffsetOf(FileChunks, handle.chunk) \in Nat
    <3>1. OffsetsAreSums(FileChunks) /\ FileChunks \in Seq(Nat)
      BY FileOffsets DEF FileIsThere
    <3>2. handle.chunk \in 1..(Len(FileChunks) + 1)
      BY <1>1, <3>1
    <3> QED
      BY <3>1, <3>2 DEF OffsetsAreSums
  <2> HIDE DEF a
  <2> QED
    BY <1>1, <1>2, <1>4, <2>1, <2>2
<1>5. CASE ~(pos = handle.pos \/ here)
  <2>1. SeekFile(pos) = [handle EXCEPT !.chunk = found, !.pos = a[found]]
    BY <1>5 DEF SeekFile
  <2>2. handle \in [path : {handle.path}, chunk : {handle.chunk}, pos : {handle.pos}]
    BY DEF SyncInv, Reads
  <2>3. SeekFile(pos).chunk = found
    <3> HIDE DEF found, a
    <3> QED
      BY <2>1, <2>2
  <2> QED
    BY <1>3, <2>3
<1> QED
  BY <1>4, <1>5

(* The ranges a read is made of lie between the chunk at which it begins   *)
(* and that in which it ends, and each chunk between them is in one.       *)
LEMMA RangesOfRead ==
    ASSUME FileIsThere, NEW h, NEW end, NEW first \in DOMAIN FileChunks, NEW last \in DOMAIN FileChunks,
           h.chunk = first, EndChunk(h, end) = last, NEW ranges, ranges = ChunkRanges(h, end)
    PROVE  /\ \A b \in DOMAIN ranges :
                /\ b \in ToSet(call.content.blocks)
                /\ ranges[b].start \in first..last /\ ranges[b].end \in first..last
                /\ ranges[b].start <= ranges[b].end
                /\ ranges[b].offset = OffsetOf(FileChunks, ranges[b].start)
           /\ \A c \in first..last : \E b \in DOMAIN ranges :
                /\ Contains(b, FileChunks[c])
                /\ ranges[b].start <= c /\ c <= ranges[b].end
<1> DEFINE F == FileChunks
           n == Len(F)
           Block(c) == BlockOfChunk(call.content, F[c])
           within == {c \in DOMAIN F : h.chunk <= c /\ c <= EndChunk(h, end)}
           chunksOf(b) == {c \in within : Block(c) = b}
           blocks == {Block(c) : c \in within}
<1>1. F \in Seq(Nat) /\ n \in Nat /\ DOMAIN F = 1..n
  BY DEF FileIsThere
<1>2. within = first..last /\ first \in 1..n /\ last \in 1..n
  BY <1>1
<1>3. /\ DOMAIN ranges = blocks
      /\ \A b \in blocks : /\ ranges[b].start = Min(chunksOf(b))
                           /\ ranges[b].end = Max(chunksOf(b))
                           /\ ranges[b].offset = ChunkAssetOffsets[Min(chunksOf(b))]
  BY DEF ChunkRanges
<1>4. ASSUME NEW c \in first..last
      PROVE  /\ Block(c) \in ToSet(call.content.blocks)
             /\ Contains(Block(c), F[c])
  <2>1. c \in DOMAIN F
    BY <1>1, <1>2
  <2>2. HasChunk(call.content, F[c])
    BY <1>1, <2>1 DEF FileIsThere, ToSet
  <2> HIDE DEF F
  <2>3. /\ Block(c) \in ToSet(call.content.blocks)
        /\ <<F[c], Block(c)>> \in Pairs(call.content)
    BY <2>2, ChunkFound DEF FileIsThere, ContentIsThere
  <2>4. Contains(Block(c), F[c])
    <3> HIDE DEF Block
    <3> QED
      BY <2>3 DEF FileIsThere, ContentIsThere, PairsAreTrue
  <2> QED
    BY <2>3, <2>4
<1>5. \A c \in 1..n : ChunkAssetOffsets[c] = OffsetOf(F, c)
  BY <1>1 DEF ChunkAssetOffsets
<1> HIDE DEF F, n, Block, within
<1>6. ASSUME NEW b \in blocks
      PROVE  /\ chunksOf(b) \in SUBSET (1..n) /\ chunksOf(b) # {}
             /\ Min(chunksOf(b)) \in chunksOf(b) /\ Max(chunksOf(b)) \in chunksOf(b)
             /\ \A c \in chunksOf(b) : Min(chunksOf(b)) <= c /\ c <= Max(chunksOf(b))
  <2> DEFINE S == chunksOf(b)
  <2>1. S \in SUBSET (1..n) /\ S # {}
    BY <1>1, <1>2
  <2> HIDE DEF S
  <2>2. Min(S) \in S /\ \A c \in S : Min(S) <= c
    BY <1>1, <2>1, FirstIndex
  <2>3. Max(S) \in S /\ \A c \in S : c <= Max(S)
    BY <1>1, <2>1, LastIndex
  <2> QED
    BY <2>1, <2>2, <2>3 DEF S
<1>7. ASSUME NEW b \in blocks
      PROVE  /\ b \in ToSet(call.content.blocks)
             /\ ranges[b].start \in first..last /\ ranges[b].end \in first..last
             /\ ranges[b].start <= ranges[b].end
             /\ ranges[b].offset = OffsetOf(F, ranges[b].start)
  <2>1. PICK c \in first..last : b = Block(c)
    BY <1>2
  <2>2. /\ ranges[b].start = Min(chunksOf(b)) /\ ranges[b].end = Max(chunksOf(b))
        /\ ranges[b].offset = ChunkAssetOffsets[Min(chunksOf(b))]
    BY <1>3
  <2>3. chunksOf(b) \subseteq first..last
    BY <1>2
  <2> HIDE DEF chunksOf, blocks
  <2>4. Min(chunksOf(b)) \in first..last /\ Max(chunksOf(b)) \in first..last
    BY <1>6, <2>3
  <2>5. Min(chunksOf(b)) <= Max(chunksOf(b)) /\ Min(chunksOf(b)) \in 1..n
    BY <1>6
  <2> QED
    BY <1>4, <1>5, <2>1, <2>2, <2>4, <2>5
<1>8. ASSUME NEW c \in first..last
      PROVE  \E b \in blocks : /\ Contains(b, F[c])
                               /\ ranges[b].start <= c /\ c <= ranges[b].end
  <2> DEFINE b == Block(c)
  <2>1. b \in blocks /\ c \in chunksOf(b)
    BY <1>2
  <2>2. Contains(b, F[c])
    BY <1>4
  <2>3. ranges[b].start = Min(chunksOf(b)) /\ ranges[b].end = Max(chunksOf(b))
    BY <1>3, <2>1
  <2> HIDE DEF chunksOf, blocks, b
  <2>4. Min(chunksOf(b)) <= c /\ c <= Max(chunksOf(b))
    BY <1>6, <2>1
  <2> QED
    BY <2>1, <2>2, <2>3, <2>4
<1> QED
  BY <1>3, <1>7, <1>8 DEF F

(* A read of the file moves the handle to the chunk it ends in, and its    *)
(* ranges have all of what it is to read.                                  *)
LEMMA ReadIsPlanned ==
    ASSUME SyncInv, FileIsThere, HandleFits, FileChunks # <<>>,
           NEW start \in Nat, NEW size \in Nat, start + size <= FileSize,
           handle' = Moved(start, size), UNCHANGED call,
           NEW ranges, ranges = ChunkRanges(SeekFile(start), start + size)
    PROVE  /\ FileChunks' = FileChunks /\ HandleFits'
           /\ read' = [start |-> start, size |-> size, ranges |-> ranges] => RangesFit'
<1> DEFINE F == FileChunks
           n == Len(F)
           h == SeekFile(start)
           end == start + size
           first == h.chunk
           last == EndChunk(h, end)
<1>1. F \in Seq(Nat) /\ n \in Nat /\ DOMAIN F = 1..n /\ OffsetsAreSums(F)
  BY FileOffsets DEF FileIsThere
<1>2. first \in DOMAIN F /\ OffsetOf(F, first) <= start
  BY SeekIsBefore
<1>3. end \in Nat /\ end <= FileSize
  OBVIOUS
<1>4. EndsAt(last, first, end)
  <2>1. \E e : EndsAt(e, first, end)
    <3> HIDE DEF first, end
    <3> QED
      BY <1>2, <1>3, ChunkEnds
  <2>2. last = CHOOSE e \in first..n : /\ OffsetOf(F, e + 1) >= end
                                       /\ \A d \in first..(e - 1) : OffsetOf(F, d + 1) < end
    BY DEF EndChunk
  <2> HIDE DEF last, first, end, h
  <2> QED
    BY <2>1, <2>2 DEF EndsAt
<1>5. /\ last \in first..n /\ OffsetOf(F, last + 1) >= end
      /\ \A d \in first..(last - 1) : OffsetOf(F, d + 1) < end
  <2> HIDE DEF last, first, end
  <2> QED
    BY <1>4 DEF EndsAt
<1>6. handle' \in [path : {handle.path}, chunk : {handle'.chunk}, pos : {handle'.pos}]
  BY HandleMoves
<1>7. FileChunks' = FileChunks
  BY <1>6 DEF FileChunks
<1>8. handle'.chunk = last /\ handle'.pos = ChunkAssetOffsets[last]
  <2>1. handle' = [h EXCEPT !.chunk = last, !.pos = ChunkAssetOffsets[last]]
    BY DEF Moved
  <2>2. DOMAIN h = {"path", "chunk", "pos"}
    <3>1. handle \in [path : {handle.path}, chunk : {handle.chunk}, pos : {handle.pos}]
      BY DEF SyncInv, Reads
    <3>2. h = handle \/ \E c, p : h = [handle EXCEPT !.chunk = c, !.pos = p]
      BY DEF SeekFile
    <3> HIDE DEF h
    <3> QED
      BY <3>1, <3>2
  <2> HIDE DEF h, last
  <2> QED
    BY <2>1, <2>2
<1>9. HandleFits'
  <2>1. last \in DOMAIN F
    <3> HIDE DEF last, first
    <3> QED
      BY <1>1, <1>2, <1>5
  <2>2. ChunkAssetOffsets[last] = OffsetOf(F, last)
    <3> HIDE DEF last
    <3> QED
      BY <2>1 DEF ChunkAssetOffsets
  <2> HIDE DEF last
  <2> QED
    BY <1>7, <1>8, <2>1, <2>2 DEF HandleFits
<1>10. ASSUME read' = [start |-> start, size |-> size, ranges |-> ranges] PROVE RangesFit'
  <2>1. read'.start = start /\ read'.size = size /\ read'.ranges = ranges /\ ReadEnd' = end
    BY <1>10 DEF ReadEnd
  <2>2. FileSize' = FileSize /\ call' = call
    BY <1>7 DEF FileSize
  <2>3. first \in 1..n /\ last \in 1..n /\ first <= last
    <3> HIDE DEF last, first
    <3> QED
      BY <1>1, <1>2, <1>5
  <2>4. /\ \A b \in DOMAIN ranges :
             /\ b \in ToSet(call.content.blocks)
             /\ ranges[b].start \in first..last /\ ranges[b].end \in first..last
             /\ ranges[b].start <= ranges[b].end
             /\ ranges[b].offset = OffsetOf(F, ranges[b].start)
        /\ \A c \in first..last : \E b \in DOMAIN ranges :
             /\ Contains(b, F[c])
             /\ ranges[b].start <= c /\ c <= ranges[b].end
    <3> DEFINE R == ChunkRanges(h, end)
    <3>1. ranges = R /\ h.chunk = first /\ EndChunk(h, end) = last
      OBVIOUS
    <3>2. first \in DOMAIN F /\ last \in DOMAIN F
      BY <1>1, <2>3
    <3> HIDE DEF h, end, first, last
    <3> QED
      BY <3>1, <3>2, RangesOfRead
  <2>5. /\ \A i \in 1..(n + 1) : OffsetOf(F, i) \in Nat
        /\ \A i \in 1..(n + 1) : \A j \in 1..(n + 1) : i < j => OffsetOf(F, i) < OffsetOf(F, j)
    BY <1>1 DEF OffsetsAreSums
  <2> HIDE DEF F, n, h, end, first, last
  <2>6. ASSUME NEW b \in DOMAIN ranges
        PROVE  LET r == ranges[b] IN
               /\ r.start \in DOMAIN F /\ r.end \in DOMAIN F /\ r.start <= r.end
               /\ r.offset = OffsetOf(F, r.start)
               /\ \A c \in r.start..(r.end - 1) : OffsetOf(F, c + 1) <= end
    <3> DEFINE r == ranges[b]
    <3>1. /\ r.start \in first..last /\ r.end \in first..last /\ r.start <= r.end
          /\ r.offset = OffsetOf(F, r.start)
      BY <2>4
    <3> HIDE DEF r
    <3>2. ASSUME NEW c \in r.start..(r.end - 1) PROVE OffsetOf(F, c + 1) <= end
      <4>1. c \in first..(last - 1) /\ c + 1 \in 1..(n + 1)
        BY <1>1, <2>3, <3>1
      <4>2. OffsetOf(F, c + 1) < end /\ OffsetOf(F, c + 1) \in Nat
        BY <1>5, <2>5, <4>1
      <4> QED
        BY <1>3, <4>2
    <3>3. r.start \in DOMAIN F /\ r.end \in DOMAIN F
      BY <1>1, <2>3, <3>1
    <3> QED
      BY <3>1, <3>2, <3>3 DEF r
  <2>7. ASSUME NEW c \in 1..n, OffsetOf(F, c) < end, start < OffsetOf(F, c + 1)
        PROVE  c \in first..last
    <3>1. c \in Nat /\ c + 1 \in 1..(n + 1) /\ first \in 1..(n + 1) /\ last + 1 \in 1..(n + 1)
          /\ c \in 1..(n + 1)
      BY <1>1, <2>3
    <3>2. ~(c < first)
      <4> SUFFICES ASSUME c < first PROVE FALSE
        OBVIOUS
      <4>1. c + 1 < first \/ c + 1 = first
        BY <2>3, <3>1
      <4>2. OffsetOf(F, c + 1) <= OffsetOf(F, first)
        BY <2>5, <3>1, <4>1
      <4>3. OffsetOf(F, c + 1) \in Nat /\ OffsetOf(F, first) \in Nat
        BY <2>5, <3>1
      <4> QED
        BY <1>2, <2>7, <4>2, <4>3
    <3>3. ~(last < c)
      <4> SUFFICES ASSUME last < c PROVE FALSE
        OBVIOUS
      <4>1. last + 1 < c \/ last + 1 = c
        BY <2>3, <3>1
      <4>2. OffsetOf(F, last + 1) <= OffsetOf(F, c)
        BY <2>5, <3>1, <4>1
      <4>3. OffsetOf(F, c) \in Nat /\ OffsetOf(F, last + 1) \in Nat
        BY <2>5, <3>1
      <4> QED
        BY <1>3, <1>5, <2>7, <4>2, <4>3
    <3> QED
      BY <2>3, <3>1, <3>2, <3>3
  <2>8. \A b \in DOMAIN ranges : b \in ToSet(call.content.blocks)' /\ RangeFits(ranges[b])'
    <3>1. \A b \in DOMAIN ranges : b \in ToSet(call.content.blocks)
      BY <2>4
    <3> QED
      BY <1>7, <2>1, <2>2, <2>6, <3>1 DEF RangeFits, F
  <2>9. \A c \in DOMAIN F : OffsetOf(F, c) < end /\ start < OffsetOf(F, c + 1)
          => \E b \in DOMAIN ranges : IsInRange(b, c)'
    <3> SUFFICES ASSUME NEW c \in 1..n, OffsetOf(F, c) < end, start < OffsetOf(F, c + 1)
                 PROVE  \E b \in DOMAIN ranges : IsInRange(b, c)'
      BY <1>1
    <3>1. c \in first..last
      BY <2>7
    <3>2. PICK b \in DOMAIN ranges : /\ Contains(b, F[c])
                                     /\ ranges[b].start <= c /\ c <= ranges[b].end
      BY <2>4, <3>1
    <3> QED
      BY <1>7, <2>1, <3>2 DEF IsInRange, F
  <2>10. start \in Nat /\ size \in Nat /\ end <= FileSize
    BY <1>3
  <2> QED
    BY <1>7, <2>1, <2>2, <2>8, <2>9, <2>10 DEF RangesFit, F
<1> QED
  BY <1>7, <1>9, <1>10

--------------------------------------------------------------------------------
(* What a block adds to the buffer *)

(* Copying so far: an offset in the file, and the buffer.                  *)
CopyState == [offset : Int, buffer : [1..read.size -> Nat \X Int]]

(* The parts of CopyChunk.                                                 *)
Skipped(s) == IF s.offset < read.start THEN read.start - s.offset ELSE 0
CopiedTo(s) == s.offset + Skipped(s) - read.start
CopiedBytes(s, size) ==
    IF size - Skipped(s) <= ReadEnd - s.offset - Skipped(s)
    THEN size - Skipped(s) ELSE ReadEnd - s.offset - Skipped(s)
Steps(b, c, s, t) ==
    LET size == ChunkSize[FileChunks[c]]
        copied == CopiedBytes(s, size) IN
    /\ t \in CopyState
    /\ ~Contains(b, FileChunks[c]) => t.offset = s.offset + size /\ t.buffer = s.buffer
    /\ Contains(b, FileChunks[c]) =>
         /\ t.offset = s.offset + Skipped(s) + copied
         /\ \A i \in 1..read.size :
              t.buffer[i] = IF i > CopiedTo(s) /\ i <= CopiedTo(s) + copied
                            THEN <<FileChunks[c], Skipped(s) + i - CopiedTo(s)>> ELSE s.buffer[i]

LEMMA CopyChunkSteps ==
    ASSUME FileIsThere, read.start \in Nat, read.size \in Nat,
           NEW b \in Seq(Nat), store[b] = b, NEW c \in DOMAIN FileChunks, NEW s \in CopyState,
           NEW t, t = CopyChunk(b, s, c)
    PROVE  Steps(b, c, s, t)
<1> DEFINE x == FileChunks[c]
           size == ChunkSize[x]
           copied == CopiedBytes(s, size)
           from == CopiedTo(s)
           Byte(i) == IF i > from /\ i <= from + copied
                      THEN <<store[b][IndexIn(b, x)], Skipped(s) + i - from>> ELSE s.buffer[i]
<1>1. x \in Nat /\ size \in Nat
  <2>1. FileChunks \in Seq(Nat) /\ x \in ToSet(FileChunks)
    BY DEF FileIsThere, ToSet
  <2> QED
    BY <2>1 DEF FileIsThere, ArePositive
<1>2. s.offset \in Int /\ s.buffer \in [1..read.size -> Nat \X Int]
  BY DEF CopyState
<1>3. Skipped(s) \in Int /\ from \in Int /\ ReadEnd \in Int
  BY <1>2 DEF Skipped, CopiedTo, ReadEnd
<1>4. /\ copied \in Int
      /\ copied = Min({size - Skipped(s), read.start + read.size - s.offset - Skipped(s)})
  <2> DEFINE p == size - Skipped(s)
             q == read.start + read.size - s.offset - Skipped(s)
  <2>1. p \in Int /\ q \in Int
    <3>1. size \in Int /\ Skipped(s) \in Int /\ s.offset \in Int
      BY <1>1, <1>2, <1>3
    <3>2. read.start \in Int /\ read.size \in Int
      OBVIOUS
    <3> HIDE DEF size
    <3>3. read.size - s.offset - Skipped(s) \in Int
      BY ONLY <3>1, <3>2
    <3> QED
      BY ONLY <3>1, <3>2, <3>3
  <2>2. copied = IF p <= q THEN p ELSE q
    <3>1. copied = IF p <= ReadEnd - s.offset - Skipped(s) THEN p
                   ELSE ReadEnd - s.offset - Skipped(s)
      BY DEF CopiedBytes
    <3>2. ReadEnd = read.start + read.size
      BY DEF ReadEnd
    <3>3. q = ReadEnd - s.offset - Skipped(s)
      BY <1>2, <1>3, <3>2
    <3> HIDE DEF p, q, copied
    <3> QED
      BY <3>1, <3>3
  <2> HIDE DEF p, q, copied
  <2>3. copied \in {p, q} /\ copied <= p /\ copied <= q
    BY <2>1, <2>2
  <2>4. \A y \in {p, q} : (\A z \in {p, q} : y <= z) => y = copied
    BY <2>1, <2>3
  <2>5. Min({p, q}) = copied
    BY <2>3, <2>4 DEF Min
  <2> QED
    BY <2>1, <2>2, <2>5 DEF p, q
<1>5. CASE ~Contains(b, x)
  <2>1. t = [s EXCEPT !.offset = @ + size]
    BY <1>5 DEF CopyChunk
  <2>2. t \in CopyState /\ t.offset = s.offset + size /\ t.buffer = s.buffer
    <3> DEFINE B == [1..read.size -> Nat \X Int]
    <3> HIDE DEF size, B
    <3>1. s \in [offset : Int, buffer : B]
      BY DEF CopyState, B
    <3>2. t \in [offset : Int, buffer : B] /\ t.offset = s.offset + size /\ t.buffer = s.buffer
      BY ONLY <1>1, <2>1, <3>1
    <3> QED
      BY <3>2 DEF CopyState, B
  <2> QED
    BY <1>5, <2>2 DEF Steps
<1>6. CASE Contains(b, x)
  <2>1. b[IndexIn(b, x)] = x
    <3>1. x \in ToSet(b)
      BY <1>6, SequenceIn
    <3> HIDE DEF x
    <3> QED
      BY <3>1, IndexOf
  <2> DEFINE new == [i \in DOMAIN s.buffer |-> Byte(i)]
  <2>2. t = [offset |-> s.offset + Skipped(s) + copied, buffer |-> new]
    <3> HIDE DEF copied
    <3> QED
      BY <1>4, <1>6 DEF CopyChunk, Skipped, CopiedTo
  <2>3. DOMAIN s.buffer = 1..read.size
    BY <1>2
  <2> HIDE DEF x, size, copied, from
  <2>4. ASSUME NEW i \in 1..read.size
        PROVE  /\ Byte(i) \in Nat \X Int
               /\ Byte(i) = IF i > from /\ i <= from + copied
                            THEN <<x, Skipped(s) + i - from>> ELSE s.buffer[i]
    <3>1. Byte(i) = IF i > from /\ i <= from + copied
                    THEN <<x, Skipped(s) + i - from>> ELSE s.buffer[i]
      BY <2>1
    <3>2. <<x, Skipped(s) + i - from>> \in Nat \X Int
      BY <1>1, <1>3
    <3>3. s.buffer[i] \in Nat \X Int
      BY <1>2
    <3> HIDE DEF Byte
    <3> QED
      BY <3>1, <3>2, <3>3
  <2>5. new \in [1..read.size -> Nat \X Int] /\ \A i \in 1..read.size : new[i] = Byte(i)
    <3> HIDE DEF Byte
    <3> QED
      BY <2>3, <2>4
  <2> HIDE DEF new, Byte
  <2>6. t \in CopyState /\ t.offset = s.offset + Skipped(s) + copied /\ t.buffer = new
    BY <1>2, <1>3, <1>4, <2>2, <2>5 DEF CopyState
  <2>7. \A i \in 1..read.size :
          t.buffer[i] = IF i > from /\ i <= from + copied
                        THEN <<x, Skipped(s) + i - from>> ELSE s.buffer[i]
    BY <2>4, <2>5, <2>6
  <2> QED
    BY <1>6, <2>6, <2>7 DEF Steps, x, size, copied, from
<1> QED
  BY <1>5, <1>6

(* A chunk that is copied from where it begins is copied to where it       *)
(* belongs, and nothing else is.                                           *)
LEMMA ChunkIsCopied ==
    ASSUME FileIsThere, read.start \in Nat, read.size \in Nat,
           NEW b, NEW c \in DOMAIN FileChunks, NEW s \in CopyState, NEW t, Steps(b, c, s, t),
           s.offset = OffsetOf(FileChunks, c)
    PROVE  /\ OffsetOf(FileChunks, c + 1) <= ReadEnd => t.offset = OffsetOf(FileChunks, c + 1)
           /\ \A i \in 1..read.size : t.buffer[i] \in {s.buffer[i], FileBytes[read.start + i]}
           /\ Contains(b, FileChunks[c]) => BytesAreRight(t.buffer, c)
<1> DEFINE x == FileChunks[c]
           size == ChunkSize[x]
           off == OffsetOf(FileChunks, c)
           start == read.start
           copied == CopiedBytes(s, size)
           from == CopiedTo(s)
           skipped == Skipped(s)
<1>1. /\ FileChunks \in Seq(Nat) /\ OffsetsAreSums(FileChunks)
      /\ c \in 1..Len(FileChunks) /\ Len(FileChunks) \in Nat
  BY FileOffsets DEF FileIsThere
<1>2. /\ off \in Nat /\ size \in Nat /\ size > 0 /\ OffsetOf(FileChunks, c + 1) = off + size
  <2>1. c \in 1..(Len(FileChunks) + 1)
    BY <1>1
  <2> QED
    BY <1>1, <2>1 DEF OffsetsAreSums
<1>3. /\ skipped = (IF off < start THEN start - off ELSE 0) /\ skipped \in Nat
      /\ from = off + skipped - start /\ from \in Nat
      /\ ReadEnd = start + read.size
      /\ copied = IF size - skipped <= start + read.size - off - skipped
                  THEN size - skipped ELSE start + read.size - off - skipped
      /\ copied \in Int
  <2>1. ReadEnd = start + read.size
    BY DEF ReadEnd
  <2>2. skipped = (IF off < start THEN start - off ELSE 0) /\ skipped \in Nat
    BY <1>2 DEF Skipped
  <2>3. from = off + skipped - start
    BY DEF CopiedTo
  <2>4. from \in Nat
    <3> HIDE DEF skipped, off, from
    <3> QED
      BY <1>2, <2>2, <2>3
  <2>5. copied = IF size - skipped <= start + read.size - off - skipped
                 THEN size - skipped ELSE start + read.size - off - skipped
    <3>1. copied = IF size - skipped <= ReadEnd - s.offset - skipped
                   THEN size - skipped ELSE ReadEnd - s.offset - skipped
      BY DEF CopiedBytes
    <3>2. s.offset = off
      OBVIOUS
    <3> HIDE DEF copied, size, skipped, off
    <3> QED
      BY <1>2, <2>1, <2>2, <3>1, <3>2
  <2>6. copied \in Int
    <3> HIDE DEF skipped, off, copied, size
    <3> QED
      BY <1>2, <2>2, <2>5
  <2> QED
    BY <2>1, <2>2, <2>3, <2>4, <2>5, <2>6
<1>4. \A j \in 1..size : FileBytes[off + j] = <<x, j>>
  BY BytesOfFile
<1>5. CASE ~Contains(b, x)
  <2>1. t.offset = s.offset + size /\ t.buffer = s.buffer
    BY <1>5 DEF Steps
  <2> QED
    BY <1>2, <1>5, <2>1
<1>6. CASE Contains(b, x)
  <2>1. /\ t.offset = off + skipped + copied
        /\ \A i \in 1..read.size :
             t.buffer[i] = IF i > from /\ i <= from + copied
                           THEN <<x, skipped + i - from>> ELSE s.buffer[i]
    BY <1>6 DEF Steps
  <2> HIDE DEF off, size, copied, from, skipped, x
  <2>2. off + size <= ReadEnd => t.offset = off + size
    BY <1>2, <1>3, <2>1
  <2>3. ASSUME NEW i \in 1..read.size
        PROVE  t.buffer[i] \in {s.buffer[i], FileBytes[start + i]}
    <3>1. CASE i > from /\ i <= from + copied
      <4> DEFINE j == skipped + i - from
      <4>1. j \in 1..size /\ off + j = start + i
        BY <1>2, <1>3, <3>1
      <4>2. t.buffer[i] = <<x, j>>
        BY <2>1, <3>1
      <4>3. FileBytes[off + j] = <<x, j>>
        <5> HIDE DEF j
        <5> QED
          BY <1>4, <4>1
      <4> QED
        BY <4>1, <4>2, <4>3
    <3>2. CASE ~(i > from /\ i <= from + copied)
      BY <2>1, <3>2
    <3> QED
      BY <3>1, <3>2
  <2>4. ASSUME NEW i \in 1..read.size, NEW j \in 1..size, off + j = start + i
        PROVE  t.buffer[i] = FileBytes[start + i]
    <3>1. i > from /\ i <= from + copied /\ skipped + i - from = j
      BY <1>2, <1>3, <2>4
    <3>2. t.buffer[i] = <<x, j>>
      BY <2>1, <3>1
    <3> QED
      BY <1>4, <2>4, <3>2
  <2> QED
    BY <1>2, <2>2, <2>3, <2>4 DEF BytesAreRight, off, size, x
<1> QED
  BY <1>5, <1>6

(* A block is copied chunk by chunk of its range.                          *)
LEMMA BlockSteps ==
    ASSUME FileIsThere, RangesFit, IsBuffer(buffer),
           NEW b \in DOMAIN read.ranges, b \in Seq(Nat), store[b] = b,
           NEW r, r = read.ranges[b], NEW m, m = r.end - r.start + 1
    PROVE  \E g \in [0..m -> CopyState] :
             /\ g[0] = [offset |-> r.offset, buffer |-> buffer]
             /\ ReadFromBlock(b) = g[m].buffer
             /\ \A k \in 1..m : Steps(b, r.start + k - 1, g[k - 1], g[k])
<1> DEFINE s == [k \in 1..m |-> r.start + k - 1]
           D == SUBSET (1..m)
           V == CopyState
           Move(k, v) == CopyChunk(b, v, s[k])
           none == [offset |-> r.offset, buffer |-> buffer]
           IsFold(f) == f = [T \in SUBSET (DOMAIN s) |-> IF T = {} THEN none
                                         ELSE Move(Max(T), f[T \ {Max(T)}])]
           fold == CHOOSE f : IsFold(f)
           move == [k \in 1..m |-> [v \in V |-> Move(k, v)]]
<1>1. /\ r.start \in DOMAIN FileChunks /\ r.end \in DOMAIN FileChunks /\ r.start <= r.end
      /\ r.offset = OffsetOf(FileChunks, r.start)
      /\ read.start \in Nat /\ read.size \in Nat
  BY DEF RangesFit, RangeFits
<1>2. /\ FileChunks \in Seq(Nat) /\ Len(FileChunks) \in Nat
      /\ DOMAIN FileChunks = 1..Len(FileChunks) /\ r.offset \in Nat
  <2>1. FileChunks \in Seq(Nat) /\ OffsetsAreSums(FileChunks)
    BY FileOffsets DEF FileIsThere
  <2>2. r.start \in 1..(Len(FileChunks) + 1)
    <3>1. DOMAIN FileChunks = 1..Len(FileChunks) /\ Len(FileChunks) \in Nat
      BY ONLY <2>1
    <3> QED
      BY ONLY <1>1, <3>1
  <2> QED
    BY <1>1, <2>1, <2>2 DEF OffsetsAreSums
<1>3. m \in Nat /\ \A k \in 1..m : s[k] = r.start + k - 1 /\ s[k] \in DOMAIN FileChunks
  <2> DEFINE first == r.start
             last == r.end
             n == Len(FileChunks)
  <2>1. first \in 1..n /\ last \in 1..n /\ first <= last /\ n \in Nat /\ m = last - first + 1
    BY <1>1, <1>2
  <2>2. \A k \in 1..m : s[k] = first + k - 1
    OBVIOUS
  <2> HIDE DEF first, last, n, s
  <2>3. m \in Nat /\ \A k \in 1..m : first + k - 1 \in 1..n
    BY ONLY <2>1
  <2> QED
    BY <1>2, <2>2, <2>3 DEF first, n
<1>4. none \in V
  BY <1>2 DEF CopyState, IsBuffer
<1>5. DOMAIN s = 1..m
  OBVIOUS
<1>6. ReadFromBlock(b) = fold[DOMAIN s].buffer
  BY DEF ReadFromBlock, FoldLeft, MapThenFoldSet
<1>7. ASSUME NEW k \in 1..m, NEW v \in V
      PROVE  Move(k, v) \in V /\ Steps(b, s[k], v, Move(k, v))
  <2> DEFINE c == s[k]
             t == CopyChunk(b, v, c)
  <2>1. c \in DOMAIN FileChunks
    BY <1>3
  <2> HIDE DEF c, s
  <2>2. Steps(b, c, v, t)
    <3> HIDE DEF t
    <3>1. t = CopyChunk(b, v, c)
      BY DEF t
    <3> QED
      BY <1>1, <2>1, <3>1, CopyChunkSteps
  <2>3. t \in V
    BY <2>2 DEF Steps
  <2> QED
    BY <2>2, <2>3 DEF c
<1>8. IsFold(fold) <=> fold = [T \in D |-> IF T = {} THEN none
                                           ELSE Move(Max(T), fold[T \ {Max(T)}])]
  BY <1>5
<1> HIDE DEF V, Move, none
<1>9. move \in [1..m -> [V -> V]]
  BY <1>7
<1>10. PICK f \in [D -> V] :
        \A T \in D : f[T] = IF T = {} THEN none ELSE move[Max(T)][f[T \ {Max(T)}]]
  <2>1. AreSteps(m, V, none, move)
    <3> HIDE DEF move
    <3> QED
      BY <1>3, <1>4, <1>9 DEF AreSteps
  <2> HIDE DEF move
  <2>2. PICK f \in [SUBSET (1..m) -> V] : Folds(f, m, none, move)
    BY ONLY <2>1, FoldExists
  <2> QED
    BY <2>2 DEF Folds
<1>11. ASSUME NEW T \in D, T # {} PROVE Max(T) \in 1..m /\ T \ {Max(T)} \in D
  BY <1>3, <1>11, LastIndex
<1>12. IsFold(f)
  <2>1. ASSUME NEW T \in D, T # {}
        PROVE  f[T] = Move(Max(T), f[T \ {Max(T)}])
    BY <1>10, <1>11, <2>1
  <2>2. {} \in D /\ f[{}] = none
    BY <1>10
  <2> HIDE DEF D, move
  <2>3. f = [T \in D |-> IF T = {} THEN none ELSE Move(Max(T), f[T \ {Max(T)}])]
    BY <1>10, <2>1, <2>2
  <2>4. SUBSET (DOMAIN s) = D
    BY <1>5 DEF D
  <2> HIDE DEF s
  <2> QED
    BY <2>3, <2>4
<1>13. IsFold(fold)
  <2> HIDE DEF IsFold
  <2> QED
    BY <1>12
<1> HIDE DEF fold, s
<1>14. ASSUME NEW T \in D
       PROVE  fold[T] = IF T = {} THEN none ELSE Move(Max(T), fold[T \ {Max(T)}])
  <2> HIDE DEF D
  <2> QED
    BY <1>8, <1>13
<1>15. fold[{}] = none
  BY <1>14
<1>16. ASSUME NEW T \in D, T # {}, fold[T \ {Max(T)}] \in V
       PROVE  fold[T] = move[Max(T)][fold[T \ {Max(T)}]]
  BY <1>11, <1>14, <1>16
<1>17. PICK g \in [0..m -> V] : IsRun(g, m, none, move) /\ fold[1..m] = g[m]
  <2>1. \A T \in SUBSET (1..m) : T # {} /\ fold[T \ {Max(T)}] \in V =>
          fold[T] = move[Max(T)][fold[T \ {Max(T)}]]
    BY <1>16
  <2> HIDE DEF move
  <2>2. AreSteps(m, V, none, move)
    BY <1>3, <1>4, <1>9 DEF AreSteps
  <2>3. FoldsIn(fold, m, V, none, move)
    BY <1>15, <2>1 DEF FoldsIn
  <2> QED
    BY ONLY <2>2, <2>3, FoldSteps
<1>18. \A k \in 1..m : g[k - 1] \in V /\ g[k] = Move(k, g[k - 1])
  <2>1. \A k \in 1..m : k - 1 \in 0..m
    BY <1>3
  <2>2. \A k \in 1..m : g[k - 1] \in V
    BY <2>1
  <2> QED
    BY <1>17, <2>2 DEF IsRun
<1>19. \A k \in 1..m : Steps(b, r.start + k - 1, g[k - 1], g[k])
  BY <1>3, <1>7, <1>18
<1>20. g[0] = none /\ ReadFromBlock(b) = g[m].buffer
  BY <1>5, <1>6, <1>17 DEF IsRun
<1> QED
  BY <1>19, <1>20 DEF V, none

(* So what the block has of its range is where it belongs, and nothing of  *)
(* the buffer becomes wrong.                                               *)
LEMMA BlockIsCopied ==
    ASSUME FileIsThere, RangesFit, IsBuffer(buffer),
           NEW b \in DOMAIN read.ranges, b \in Seq(Nat), store[b] = b,
           NEW new, new = ReadFromBlock(b)
    PROVE  /\ IsBuffer(new)
           /\ \A i \in 1..read.size : new[i] \in {buffer[i], FileBytes[read.start + i]}
           /\ \A c \in DOMAIN FileChunks : IsInRange(b, c) => BytesAreRight(new, c)
<1> DEFINE r == read.ranges[b]
           first == r.start
           last == r.end
           m == last - first + 1
           n == Len(FileChunks)
           Off(c) == OffsetOf(FileChunks, c)
<1>1. /\ first \in DOMAIN FileChunks /\ last \in DOMAIN FileChunks /\ first <= last
      /\ r.offset = Off(first)
      /\ \A c \in first..(last - 1) : Off(c + 1) <= ReadEnd
      /\ read.start \in Nat /\ read.size \in Nat
  BY DEF RangesFit, RangeFits
<1>2. n \in Nat /\ DOMAIN FileChunks = 1..n
  BY DEF FileIsThere
<1>3. PICK g \in [0..m -> CopyState] :
        /\ g[0] = [offset |-> r.offset, buffer |-> buffer]
        /\ ReadFromBlock(b) = g[m].buffer
        /\ \A k \in 1..m : Steps(b, first + k - 1, g[k - 1], g[k])
  <2>1. \E g \in [0..m -> CopyState] :
        /\ g[0] = [offset |-> r.offset, buffer |-> buffer]
        /\ ReadFromBlock(b) = g[m].buffer
        /\ \A k \in 1..m : Steps(b, r.start + k - 1, g[k - 1], g[k])
    <3> DEFINE x == r.end - r.start + 1
    <3>1. x = r.end - r.start + 1
      OBVIOUS
    <3> HIDE DEF r, x
    <3>2. \E g \in [0..x -> CopyState] :
            /\ g[0] = [offset |-> r.offset, buffer |-> buffer]
            /\ ReadFromBlock(b) = g[x].buffer
            /\ \A k \in 1..x : Steps(b, r.start + k - 1, g[k - 1], g[k])
      BY <3>1, BlockSteps, SMTT(30) DEF r
    <3> QED
      BY <3>2 DEF x
  <2> QED
    BY <2>1
<1> HIDE DEF r, first, last
<1>4. m \in Nat /\ \A k \in 1..m : /\ first + k - 1 \in 1..n /\ k - 1 \in 0..m
                                   /\ k < m => first + k - 1 \in first..(last - 1)
  <2>1. n \in Nat /\ first \in 1..n /\ last \in 1..n /\ first <= last
    BY <1>1, <1>2
  <2> QED
    BY ONLY <2>1
<1> HIDE DEF m, n, Off
<1> DEFINE Keeps(x) == \A i \in 1..read.size : x[i] \in {buffer[i], FileBytes[read.start + i]}
           Has(x, k) == \A c \in first..(first + k - 1) :
                          Contains(b, FileChunks[c]) => BytesAreRight(x, c)
           Q == {k \in 0..m : /\ k < m => g[k].offset = Off(first + k)
                              /\ Keeps(g[k].buffer) /\ Has(g[k].buffer, k)}
<1>5. 0 \in Q
  <2>1. g[0].offset = Off(first) /\ g[0].buffer = buffer /\ first \in Nat
    BY <1>1, <1>2, <1>3
  <2>2. Keeps(buffer)
    OBVIOUS
  <2>3. Has(buffer, 0)
    BY <2>1
  <2>4. first + 0 = first
    BY <2>1
  <2> HIDE DEF Keeps, Has
  <2> QED
    BY <1>4, <2>1, <2>2, <2>3, <2>4
<1>6. ASSUME NEW k \in 1..m, k - 1 \in Q PROVE k \in Q
  <2> DEFINE c == first + k - 1
             s == g[k - 1]
             t == g[k]
  <2>1. c \in 1..n /\ k \in Nat /\ first \in Nat /\ c \in Nat
    BY <1>1, <1>2, <1>4
  <2>2. /\ k - 1 < m /\ k \in 0..m /\ first + (k - 1) = c /\ c + 1 = first + k
        /\ first + (k - 1) - 1 = c - 1
        /\ k < m => c \in first..(last - 1)
    BY <1>4, <2>1
  <2>3. s \in CopyState /\ t \in CopyState /\ Steps(b, c, s, t)
    BY <1>3, <1>4, <2>2
  <2> HIDE DEF s, t, c, Keeps, Has
  <2>4. s.offset = Off(c) /\ Keeps(s.buffer) /\ Has(s.buffer, k - 1)
    BY <1>6, <2>2 DEF s
  <2>5. /\ Off(c + 1) <= ReadEnd => t.offset = Off(c + 1)
        /\ \A i \in 1..read.size : t.buffer[i] \in {s.buffer[i], FileBytes[read.start + i]}
        /\ Contains(b, FileChunks[c]) => BytesAreRight(t.buffer, c)
    BY <1>1, <1>2, <2>1, <2>3, <2>4, ChunkIsCopied DEF Off
  <2>6. k < m => t.offset = Off(first + k)
    <3> SUFFICES ASSUME k < m PROVE t.offset = Off(first + k)
      OBVIOUS
    <3>1. c \in first..(last - 1)
      BY <2>2
    <3>2. Off(c + 1) <= ReadEnd
      BY <1>1, <3>1
    <3> QED
      BY <2>2, <2>5, <3>2
  <2>7. Keeps(t.buffer)
    BY <2>4, <2>5 DEF Keeps
  <2>8. Has(t.buffer, k)
    <3> SUFFICES ASSUME NEW d \in first..(first + k - 1), Contains(b, FileChunks[d])
                 PROVE  BytesAreRight(t.buffer, d)
      BY DEF Has
    <3>1. CASE d = c
      BY <2>5, <3>1
    <3>2. CASE d # c
      <4>1. d \in first..(first + (k - 1) - 1)
        BY <2>1, <2>2, <3>2 DEF c
      <4>2. BytesAreRight(s.buffer, d)
        BY <2>4, <4>1 DEF Has
      <4> QED
        BY <2>5, <4>2 DEF BytesAreRight
    <3> QED
      BY <3>1, <3>2
  <2> QED
    BY <2>2, <2>6, <2>7, <2>8 DEF t
<1>7. m \in Q
  <2>1. \A k \in 0..m : k \in Q
    <3> HIDE DEF Q
    <3> QED
      BY <1>4, <1>5, <1>6, RangeInduction
  <2>2. m \in 0..m
    BY <1>4
  <2> QED
    BY <2>1, <2>2
<1>8. new = g[m].buffer /\ g[m] \in CopyState
  BY <1>3, <1>4
<1>9. Keeps(new) /\ Has(new, m) /\ IsBuffer(new)
  BY <1>7, <1>8 DEF CopyState, IsBuffer
<1>10. ASSUME NEW c \in DOMAIN FileChunks, IsInRange(b, c) PROVE BytesAreRight(new, c)
  <2>1. Contains(b, FileChunks[c]) /\ first <= c /\ c <= last
    BY <1>10 DEF IsInRange, first, last, r
  <2>2. c \in first..(first + m - 1)
    BY <1>1, <1>2, <2>1 DEF m
  <2> QED
    BY <1>9, <2>1, <2>2
<1> QED
  BY <1>9, <1>10

--------------------------------------------------------------------------------
(* What is read, step by step *)

(* The file that is opened is of the version, and what the store has of    *)
(* the version is all of it.                                               *)
LEMMA FileIsOpened ==
    ASSUME SyncInv, StoreKept, OpenVersionFile
    PROVE  FileIsThere' /\ HandleFits'
<1>1. /\ stage \in {"uploaded", "found"} /\ StoredContent \in input.readable
      /\ call'.content = StoredContent /\ call'.version = input.new /\ store' = store
      /\ input \in Situations
  BY DEF OpenVersionFile, SyncInv, Scalars
<1>2. PICK p \in DOMAIN input.new : handle' = [path |-> p, chunk |-> 1, pos |-> 0]
  BY DEF OpenVersionFile, OpenReadFile
<1> DEFINE v == input.new
           F == v[p].chunks
           ci == StoredContent
<1>3. IsVersion(v) /\ ValidateContent(ci, v)
  BY <1>1, InputOf
<1>4. IsFolder(v) /\ ArePositive(ChunksOf(v, DOMAIN v))
  BY <1>3, VersionFacts
<1>5. ContentIsThere(ci)
  <2>1. stage = "uploaded" => ToSet(input.missing.blocks) \subseteq DOMAIN store
    BY DEF StoreKept
  <2> QED
    BY <1>1, <2>1, ContentsAreThere DEF StoredContent
<1>6. F \in Seq(Nat) /\ ToSet(F) \subseteq ChunksOf(v, DOMAIN v)
  BY <1>2, <1>4 DEF IsFolder, ChunksOf
<1>7. \A h \in ToSet(F) : HasChunk(ci, h)
  BY <1>3, <1>4, <1>6, VersionMembers DEF ValidateContent, HasChunk
<1>8. ArePositive(ToSet(F))
  BY <1>4, <1>6 DEF ArePositive
<1>9. FileChunks' = F
  BY <1>1, <1>2 DEF FileChunks
<1>10. FileIsThere'
  BY <1>1, <1>5, <1>6, <1>7, <1>8, <1>9 DEF FileIsThere, ContentIsThere
<1>11. HandleFits'
  <2>1. F \in Seq(ToSet(F))
    <3>1. \A i \in 1..Len(F) : F[i] \in ToSet(F)
      BY <1>6 DEF ToSet
    <3> HIDE DEF F
    <3> QED
      BY <1>6, <3>1, SequenceIn
  <2> DEFINE H == ToSet(F)
  <2> HIDE DEF F
  <2>2. OffsetsAreSums(F)
    <3>1. F \in Seq(H) /\ ArePositive(H)
      BY <1>8, <2>1
    <3> HIDE DEF H
    <3> QED
      BY <3>1, OffsetSteps
  <2>3. OffsetOf(F, 1) = 0 /\ (F # <<>> => 1 \in DOMAIN F)
    BY <1>6, <2>2 DEF OffsetsAreSums
  <2> QED
    BY <1>2, <1>9, <2>3 DEF HandleFits
<1> QED
  BY <1>10, <1>11

(* What is read from stays what it is.                                     *)
LEMMA FileStays ==
    ASSUME UNCHANGED <<call, store>>, handle'.path = handle.path
    PROVE  FileChunks' = FileChunks /\ (FileIsThere => FileIsThere')
<1>1. FileChunks' = FileChunks
  BY DEF FileChunks
<1> QED
  BY <1>1 DEF FileIsThere, ContentIsThere

(* And so do a read that was begun and what it has copied.                 *)
LEMMA ReadStays ==
    ASSUME UNCHANGED <<call, store, handle, read>>
    PROVE  /\ FileIsThere /\ HandleFits => (FileIsThere /\ HandleFits)'
           /\ RangesFit => RangesFit'
           /\ FileBytes' = FileBytes
           /\ \A b, c : IsInRange(b, c)' <=> IsInRange(b, c)
           /\ UNCHANGED <<copier, buffer>> /\ BufferFills => BufferFills'
<1>1. FileChunks' = FileChunks /\ (FileIsThere => FileIsThere')
  BY FileStays
<1>2. HandleFits => HandleFits'
  BY <1>1 DEF HandleFits
<1>3. \A b, c : IsInRange(b, c)' <=> IsInRange(b, c)
  BY <1>1 DEF IsInRange
<1>4. RangesFit => RangesFit'
  <2>1. \A r : RangeFits(r)' <=> RangeFits(r)
    BY <1>1 DEF RangeFits, ReadEnd
  <2> QED
    BY <1>1, <1>3, <2>1 DEF RangesFit, ReadEnd, FileSize
<1>5. FileBytes' = FileBytes
  BY <1>1 DEF FileBytes
<1>6. ASSUME UNCHANGED <<copier, buffer>>, BufferFills PROVE BufferFills'
  BY <1>1, <1>3, <1>5, <1>6 DEF BufferFills, IsBuffer, Copied, BytesAreRight
<1> QED
  BY <1>1, <1>2, <1>3, <1>4, <1>5, <1>6

(* A read is begun, or has no memory.                                      *)
LEMMA BeginRead ==
    ASSUME SyncInv, ReadInv, ReadFile
    PROVE  ReadInv'
<1>1. PICK r \in Ranges : \/ StartRead(r[1], r[2]) /\ stage' = "copying"
                          \/ ReadNoMemory(r[1], r[2]) /\ stage' = "opened"
  BY DEF ReadFile
<1> DEFINE start == r[1]
           size == r[2]
           ranges == ChunkRanges(SeekFile(start), start + size)
<1>2. /\ stage \in {"opened", "copied"} /\ handle' = Moved(start, size)
      /\ UNCHANGED <<call, store>> /\ FileChunks # <<>> /\ start + size <= FileSize
  BY <1>1 DEF ReadFile, StartRead, ReadNoMemory, ReadIsPossible
<1>3. start \in Nat /\ size \in Nat
  BY RangesType
<1>4. FileIsThere /\ HandleFits
  BY <1>2 DEF ReadInv
<1> HIDE DEF start, size
<1>5. /\ FileChunks' = FileChunks /\ HandleFits'
      /\ read' = [start |-> start, size |-> size, ranges |-> ranges] => RangesFit'
  <2> HIDE DEF ranges
  <2>1. ranges = ChunkRanges(SeekFile(start), start + size)
    BY DEF ranges
  <2> QED
    BY <1>2, <1>3, <1>4, <2>1, ReadIsPlanned
<1>6. FileIsThere'
  BY <1>2, <1>4, <1>5 DEF FileIsThere, ContentIsThere
<1>7. CASE ReadNoMemory(start, size) /\ stage' = "opened"
  BY <1>5, <1>6, <1>7 DEF ReadInv
<1>8. CASE StartRead(start, size) /\ stage' = "copying"
  <2> DEFINE js == {CopyJob(b) : b \in DOMAIN ranges}
  <2>1. /\ read' = [start |-> start, size |-> size, ranges |-> ranges]
        /\ copier' = [b \in DOMAIN ranges |-> [err |-> "ok", block |-> "none"]]
        /\ buffer' = [i \in 1..size |-> <<0, 0>>]
    BY <1>8 DEF StartRead
  <2>2. RangesFit'
    BY <1>5, <2>1
  <2>3. \A b \in DOMAIN copier' : copier'[b].block = "none"
    BY <2>1
  <2>4. read'.size = size
    BY <2>1
  <2>5. BufferFills'
    <3>1. IsBuffer(buffer)'
      BY <1>3, <2>1, <2>4 DEF IsBuffer
    <3> QED
      BY <2>3, <3>1 DEF BufferFills, Copied
  <2>6. Jobs(group') = js /\ \A j \in js : group'.job[j] = "ready"
    <3>1. StartRead(start, size) /\ FileChunks \in Seq(Nat)
      BY <1>4, <1>8 DEF FileIsThere
    <3>2. js = ReadJobs(start, size)
      BY DEF ReadJobs
    <3> HIDE DEF js, ranges
    <3>3. /\ IsGroup(group') /\ Counted(group') /\ Jobs(group') = js
          /\ group'.reserved = Cardinality(js) /\ Cardinality(js) \in Nat
          /\ \A j \in js : group'.job[j] = "ready" /\ group'.waitsFor[j] = {}
      BY <3>1, <3>2, CopiesAreReady
    <3> QED
      BY <3>3
  <2>7. ASSUME NEW b \in DOMAIN copier' PROVE group'.job[CopyJob(b)'] # "complete"
    <3>1. CopyJob(b)' = CopyJob(b) /\ b \in DOMAIN ranges
      BY <2>1 DEF CopyJob
    <3> HIDE DEF ranges
    <3> QED
      BY <2>6, <3>1
  <2> QED
    BY <1>5, <1>6, <1>8, <2>2, <2>5, <2>7 DEF ReadInv
<1> QED
  BY <1>1, <1>7, <1>8 DEF start, size

(* The job of one block moves, and copies the block or does not.           *)
LEMMA OneBlockRead ==
    ASSUME SyncInv, StoreKept, ReadInv, stage = "copying",
           UNCHANGED <<call, store, handle, read, stage>>,
           NEW b \in DOMAIN copier, NEW err, NEW block, NEW s,
           Moves(group, group', CopyJob(b), s),
           copier' = [copier EXCEPT ![b] = [err |-> err, block |-> block]],
           s = "complete" => err # "ok" \/ block = "disposed",
           \/ buffer' = buffer /\ (err # "ok" \/ block # "disposed")
           \/ buffer' = ReadFromBlock(b)
    PROVE  ReadInv'
<1>1. /\ FileIsThere /\ HandleFits /\ RangesFit /\ BufferFills
      /\ \A k \in DOMAIN copier :
           group.job[CopyJob(k)] = "complete" => copier[k].err # "ok" \/ Copied(k)
  BY DEF ReadInv
<1>2. /\ FileIsThere' /\ HandleFits' /\ RangesFit' /\ FileBytes' = FileBytes
      /\ \A k, c : IsInRange(k, c)' <=> IsInRange(k, c)
  BY <1>1, ReadStays
<1>3. FileChunks' = FileChunks
  BY FileStays
<1>4. /\ DOMAIN copier' = DOMAIN copier /\ DOMAIN copier = DOMAIN read.ranges
      /\ copier'[b].err = err /\ copier'[b].block = block
      /\ \A k \in DOMAIN copier \ {b} : copier'[k] = copier[k]
  BY DEF SyncInv, Reads
<1>5. \A k \in DOMAIN copier \ {b} : Copied(k)' <=> Copied(k)
  BY <1>4 DEF Copied
<1>6. ASSUME NEW k \in DOMAIN copier, group'.job[CopyJob(k)] = "complete"
      PROVE  copier'[k].err # "ok" \/ Copied(k)'
  <2>1. CASE k = b
    <3>1. s = "complete"
      BY <1>6, <2>1 DEF Moves
    <3> QED
      BY <1>4, <2>1, <3>1 DEF Copied
  <2>2. CASE k # b
    <3>1. CopyJob(k) \in Jobs(group) \ {CopyJob(b)}
      BY <2>2 DEF SyncInv, Copying, CopyJob
    <3>2. group.job[CopyJob(k)] = "complete"
      BY <1>6, <3>1 DEF Moves
    <3> QED
      BY <1>1, <1>4, <1>5, <2>2, <3>2
  <2> QED
    BY <2>1, <2>2
<1>7. BufferFills'
  <2>1. CASE buffer' = buffer /\ (err # "ok" \/ block # "disposed")
    <3>1. ~Copied(b)'
      BY <1>4, <2>1 DEF Copied
    <3>2. \A c : BytesAreRight(buffer, c)' <=> BytesAreRight(buffer, c)
      BY <1>2, <1>3, <2>1 DEF BytesAreRight
    <3>3. IsBuffer(buffer)'
      BY <1>1, <2>1 DEF BufferFills, IsBuffer
    <3> QED
      BY <1>1, <1>2, <1>3, <1>4, <1>5, <3>1, <3>2, <3>3 DEF BufferFills
  <2>2. CASE buffer' = ReadFromBlock(b)
    <3>1. b \in DOMAIN read.ranges /\ b \in ToSet(call.content.blocks)
      BY <1>1, <1>4 DEF RangesFit
    <3>2. b \in Seq(Nat) /\ store[b] = b
      BY <1>1, <3>1 DEF FileIsThere, ContentIsThere, IsContent, ToSet, StoreKept
    <3>3. IsBuffer(buffer)
      BY <1>1 DEF BufferFills
    <3>4. /\ IsBuffer(buffer')
          /\ \A i \in 1..read.size : buffer'[i] \in {buffer[i], FileBytes[read.start + i]}
          /\ \A c \in DOMAIN FileChunks : IsInRange(b, c) => BytesAreRight(buffer', c)
      BY <1>1, <2>2, <3>1, <3>2, <3>3, BlockIsCopied
    <3>5. ASSUME NEW k \in DOMAIN copier, Copied(k)', NEW c \in DOMAIN FileChunks,
                 IsInRange(k, c)
          PROVE  BytesAreRight(buffer', c)
      <4>1. CASE k = b
        BY <3>4, <3>5, <4>1
      <4>2. CASE k # b
        <5>1. BytesAreRight(buffer, c)
          BY <1>1, <1>5, <3>5, <4>2 DEF BufferFills
        <5> QED
          BY <3>4, <5>1 DEF BytesAreRight
      <4> QED
        BY <4>1, <4>2
    <3>6. \A c : BytesAreRight(buffer, c)' <=> BytesAreRight(buffer', c)
      BY <1>2, <1>3 DEF BytesAreRight
    <3>7. IsBuffer(buffer)'
      BY <3>4 DEF IsBuffer
    <3> QED
      BY <1>2, <1>3, <1>4, <3>5, <3>6, <3>7 DEF BufferFills
  <2> QED
    BY <2>1, <2>2
<1>8. \A k : CopyJob(k)' = CopyJob(k)
  BY DEF CopyJob
<1> QED
  BY <1>2, <1>4, <1>6, <1>7, <1>8 DEF ReadInv

(* A job of Read takes a step.                                             *)
LEMMA BlocksAreRead == ASSUME SyncInv, StoreKept, ReadInv, CopyBlocks PROVE ReadInv'
<1>1. PICK b \in DOMAIN copier :
        \/ CopyRefused(b) \/ CopyAccepted(b) \/ CopyComplete(b)
        \/ CopyGivesUp(b) \/ CopyEnds(b)
  BY DEF CopyBlocks, CopyNext
<1>2. stage = "copying" /\ UNCHANGED <<call, store, handle, read, stage>>
  BY DEF CopyBlocks, CopyNext, syncRest
<1> DEFINE j == CopyJob(b)
           Says(err, block) == copier' = [copier EXCEPT ![b] = [err |-> err, block |-> block]]
<1>3. /\ copier \in [DOMAIN copier -> [err : {"ok", "failed"}, block : CopyStates]]
      /\ j \in Jobs(group)
      /\ \/ group.job[j] = "ready" /\ copier[b].block \in {"none", "lent"}
         \/ group.job[j] = "blocked" /\ copier[b].block = "asked"
         \/ group.job[j] = "complete" /\ copier[b].block \in {"none", "disposed"}
  BY <1>1, <1>2 DEF SyncInv, Reads, Copying
<1>4. group.job[j] # "complete"
  BY <1>1, <1>3 DEF CopyRefused, CopyAccepted, CopyComplete, CopyGivesUp, CopyEnds,
                    CopyStarts, CanStart
<1>5. /\ Moves(group, EndJob(group, j), j, "complete")
      /\ Moves(group, BlockJob(group, j), j, "blocked")
      /\ Moves(group, ReadyJobs(group, {j}), j, "ready")
  <2>1. \A k \in Jobs(group) : group.waitsFor[k] = {}
    BY <1>2 DEF SyncInv, Copying, NoWaits
  <2> HIDE DEF j
  <2> QED
    BY <1>3, <1>4, <2>1, OneJobMoves DEF SyncInv, GroupFits
<1>6. CASE CopyRefused(b)
  <2>1. Says("failed", "none") /\ Moves(group, group', j, "complete") /\ buffer' = buffer
    BY <1>5, <1>6 DEF CopyRefused, Copier
  <2> QED
    BY <1>1, <1>2, <2>1, OneBlockRead
<1>7. CASE CopyAccepted(b)
  <2>1. Says("ok", "asked") /\ Moves(group, group', j, "blocked") /\ buffer' = buffer
    BY <1>5, <1>7 DEF CopyAccepted, Copier
  <2> QED
    BY <1>1, <1>2, <2>1, OneBlockRead
<1>8. CASE CopyComplete(b)
  <2>1. Moves(group, group', j, "ready") /\ buffer' = buffer
    BY <1>5, <1>8 DEF CopyComplete
  <2>2. Says("ok", "lent") \/ Says("failed", "none")
    BY <1>8 DEF CopyComplete, Copier
  <2> QED
    BY <1>1, <1>2, <2>1, <2>2, OneBlockRead
<1>9. CASE CopyGivesUp(b)
  <2>1. Moves(group, group', j, "complete") /\ buffer' = buffer
    BY <1>5, <1>9 DEF CopyGivesUp
  <2>2. Says("failed", "none")
    BY <1>3, <1>9 DEF CopyGivesUp
  <2> QED
    BY <1>1, <1>2, <2>1, <2>2, OneBlockRead
<1>10. CASE CopyEnds(b)
  <2>1. Moves(group, group', j, "complete")
    BY <1>5, <1>10 DEF CopyEnds
  <2>2. \/ Says("ok", "disposed") /\ buffer' = ReadFromBlock(b)
        \/ Says("failed", "disposed") /\ buffer' = buffer
    BY <1>10 DEF CopyEnds, Copier
  <2> QED
    BY <1>1, <1>2, <2>1, <2>2, OneBlockRead
<1> QED
  BY <1>1, <1>6, <1>7, <1>8, <1>9, <1>10

(* Read returns: each block is copied, or could not be had.                *)
LEMMA ReadReturns == ASSUME SyncInv, ReadInv, EndRead PROVE ReadInv'
<1>1. /\ stage = "copying" /\ AllJobsDone(group) /\ stage' = "copied"
      /\ UNCHANGED <<call, store, handle, read, copier, buffer, group>>
  BY DEF EndRead, coreRest, readVars
<1>2. \A j \in Jobs(group) : group.job[j] = "complete"
  BY <1>1, DoneFacts DEF SyncInv, GroupFits
<1>3. /\ FileIsThere /\ HandleFits /\ RangesFit /\ BufferFills
      /\ \A b \in DOMAIN copier : copier[b].err # "ok" \/ Copied(b)
  <2>1. \A b \in DOMAIN copier : CopyJob(b) \in Jobs(group)
    BY <1>1 DEF SyncInv, Copying
  <2> QED
    BY <1>1, <1>2, <2>1 DEF ReadInv
<1>4. (FileIsThere /\ HandleFits)' /\ RangesFit' /\ BufferFills'
  BY <1>1, <1>3, ReadStays
<1>5. \A b : Copied(b)' <=> Copied(b)
  BY <1>1 DEF Copied
<1> QED
  BY <1>1, <1>3, <1>4, <1>5 DEF ReadInv

(* The other steps do not read a file.                                     *)
LEMMA OthersDoNotRead ==
    ASSUME Next, ~OpenVersionFile, ~ReadFile, ~CopyBlocks, ~EndRead, ~JobReturns
    PROVE  stage' \notin {"opened", "copying", "copied"}
<1>1. CASE StartUpload \/ UploadNothing \/ SkipUpload \/ EndUpload \/ Upload
  BY <1>1 DEF StartUpload, UploadNothing, SkipUpload, EndUpload, Upload, Finish, syncRest
<1>2. CASE PlanWriteVersion \/ PlanChangeVersion \/ PreparationFails
  BY <1>2 DEF PlanWriteVersion, PlanChangeVersion, PreparationFails, Finish
<1>3. CASE RemoveAssets \/ RemoveFails \/ RemoveReportsError \/ ListFails
  BY <1>3 DEF RemoveAssets, RemoveFails, RemoveReportsError, ListFails, Finish
<1>4. CASE ListAssets \/ AssetContextsFail \/ EndWriteAssets \/ SetPermissions
  BY <1>4 DEF ListAssets, AssetContextsFail, EndWriteAssets, SetPermissions, Finish
<1>5. CASE OpenRefused \/ CloseVersionFile
  BY <1>5 DEF OpenRefused, CloseVersionFile, Finish
<1>6. CASE Cancel \/ CreateAssetJobs \/ WriteAssets
  BY <1>6 DEF Cancel, CreateAssetJobs, WriteAssets, syncRest
<1> QED
  BY <1>1, <1>2, <1>3, <1>4, <1>5, <1>6 DEF Next

(* No read has been begun.                                                 *)
LEMMA InitRead == Init => ReadInv
BY DEF Init, ReadInv

(* Every step keeps what is said of reads.                                 *)
LEMMA StepRead == SyncInv /\ StoreKept /\ ReadInv /\ [Next]_vars => ReadInv'
<1> SUFFICES ASSUME SyncInv, StoreKept, ReadInv, [Next]_vars PROVE ReadInv'
  OBVIOUS
<1>1. CASE OpenVersionFile
  <2>1. stage' = "opened"
    BY <1>1 DEF OpenVersionFile
  <2> QED
    BY <1>1, <2>1, FileIsOpened DEF ReadInv
<1>2. CASE ReadFile
  BY <1>2, BeginRead
<1>3. CASE CopyBlocks
  BY <1>3, BlocksAreRead
<1>4. CASE EndRead
  BY <1>4, ReadReturns
<1>5. CASE Next /\ ~OpenVersionFile /\ ~ReadFile /\ ~CopyBlocks /\ ~EndRead /\ ~JobReturns
  BY <1>5, OthersDoNotRead DEF ReadInv
<1>6. CASE JobReturns \/ UNCHANGED vars
  <2>1. UNCHANGED <<call, store, handle, read, copier, buffer, stage>>
    BY <1>6 DEF JobReturns, vars, readVars
  <2>2. group'.job = group.job
    <3>1. CASE JobReturns
      BY <3>1, WaitFacts DEF JobReturns, SyncInv, GroupFits
    <3>2. CASE UNCHANGED vars
      BY <3>2 DEF vars
    <3> QED
      BY <1>6, <3>1, <3>2
  <2>3. /\ FileIsThere /\ HandleFits => (FileIsThere /\ HandleFits)'
        /\ RangesFit => RangesFit'
        /\ BufferFills => BufferFills'
    BY <2>1, ReadStays
  <2>4. \A b : (Copied(b)' <=> Copied(b)) /\ CopyJob(b)' = CopyJob(b)
    BY <2>1 DEF Copied, CopyJob
  <2> QED
    BY <2>1, <2>2, <2>3, <2>4 DEF ReadInv
<1> QED
  BY <1>1, <1>2, <1>3, <1>4, <1>5, <1>6

(* When each block of a read is copied each byte of it is right.           *)
LEMMA ReadIsWhole ==
    ASSUME FileIsThere, RangesFit, BufferFills,
           \A b \in DOMAIN read.ranges : b \in DOMAIN copier /\ Copied(b)
    PROVE  BufferIsExact
<1> DEFINE start == read.start
           size == read.size
           bytes == FileBytes
<1>1. /\ start \in Nat /\ size \in Nat /\ start + size <= FileSize /\ ReadEnd = start + size
      /\ \A c \in DOMAIN FileChunks :
           OffsetOf(FileChunks, c) < start + size /\ start < OffsetOf(FileChunks, c + 1)
             => \E b \in DOMAIN read.ranges : IsInRange(b, c)
  BY DEF RangesFit, ReadEnd
<1>2. bytes \in Seq(Nat \X Nat) /\ Len(bytes) = FileSize
  BY BytesOfFile
<1>3. /\ FileChunks \in Seq(Nat) /\ FileSize \in Nat
      /\ \A c \in DOMAIN FileChunks :
           /\ OffsetOf(FileChunks, c) \in Nat /\ ChunkSize[FileChunks[c]] \in Nat
           /\ OffsetOf(FileChunks, c + 1) = OffsetOf(FileChunks, c) + ChunkSize[FileChunks[c]]
  <2>1. FileChunks \in Seq(Nat) /\ OffsetsAreSums(FileChunks)
    BY FileOffsets DEF FileIsThere
  <2>2. \A c \in DOMAIN FileChunks : c \in 1..(Len(FileChunks) + 1) /\ c \in 1..Len(FileChunks)
    BY <2>1
  <2>3. Len(FileChunks) + 1 \in 1..(Len(FileChunks) + 1)
    BY <2>1
  <2> QED
    BY <2>1, <2>2, <2>3 DEF OffsetsAreSums, FileSize
<1>4. buffer \in [1..size -> Nat \X Int]
  BY DEF BufferFills, IsBuffer
<1> HIDE DEF start, size, bytes
<1>5. ASSUME NEW i \in 1..size PROVE buffer[i] = bytes[start + i]
  <2>1. start + i \in 1..FileSize
    BY <1>1, <1>3
  <2>2. PICK c \in DOMAIN FileChunks : \E j \in 1..ChunkSize[FileChunks[c]] :
          start + i = OffsetOf(FileChunks, c) + j
    <3> DEFINE p == start + i
    <3>1. p \in 1..FileSize
      BY <2>1
    <3> HIDE DEF p
    <3>2. \E c \in DOMAIN FileChunks : \E j \in 1..ChunkSize[FileChunks[c]] :
            p = OffsetOf(FileChunks, c) + j
      BY <3>1, ChunkOfByte
    <3> QED
      BY <3>2 DEF p
  <2>3. PICK j \in 1..ChunkSize[FileChunks[c]] : start + i = OffsetOf(FileChunks, c) + j
    BY <2>2
  <2>4. OffsetOf(FileChunks, c) < start + size /\ start < OffsetOf(FileChunks, c + 1)
    <3> DEFINE o == OffsetOf(FileChunks, c)
               l == ChunkSize[FileChunks[c]]
    <3>1. /\ o \in Nat /\ l \in Nat /\ OffsetOf(FileChunks, c + 1) = o + l
          /\ start \in Nat /\ size \in Nat /\ i \in 1..size /\ j \in 1..l /\ start + i = o + j
      BY <1>1, <1>3, <2>3
    <3> HIDE DEF o, l
    <3>2. o < start + size /\ start < o + l
      BY ONLY <3>1
    <3> QED
      BY <3>1, <3>2 DEF o
  <2>5. PICK b \in DOMAIN read.ranges : IsInRange(b, c)
    BY <1>1, <2>4
  <2>6. BytesAreRight(buffer, c)
    BY <2>5 DEF BufferFills
  <2> QED
    BY <2>3, <2>6 DEF BytesAreRight, start, size, bytes
<1>6. SubSeq(bytes, start + 1, start + size) = [i \in 1..size |-> bytes[start + i]]
  <2> DEFINE B == Nat \X Nat
             n == Len(bytes)
             first == start + 1
             last == start + size
             s == SubSeq(bytes, first, last)
  <2> HIDE DEF B
  <2>1. /\ bytes \in Seq(B) /\ n \in Nat /\ first \in 1..(n + 1) /\ last \in Nat
        /\ last <= n /\ first <= last + 1 /\ last - first + 1 = size
        /\ \A i \in 1..size : first + i - 1 = start + i
    <3>1. bytes \in Seq(B) /\ n \in Nat
      BY <1>2 DEF B
    <3>2. n = FileSize /\ start \in Nat /\ size \in Nat /\ start + size <= FileSize
      BY <1>1, <1>2
    <3>3. /\ first \in 1..(n + 1) /\ last \in Nat
          /\ last <= n /\ first <= last + 1 /\ last - first + 1 = size
      BY ONLY <3>1, <3>2
    <3>4. \A i \in 1..size : first + i - 1 = start + i
      BY ONLY <3>2
    <3> QED
      BY ONLY <3>1, <3>3, <3>4
  <2> HIDE DEF n, first, last
  <2>2. s \in Seq(B) /\ Len(s) = size /\ \A i \in 1..size : s[i] = bytes[first + i - 1]
    BY <1>1, <2>1 DEF n
  <2> HIDE DEF s
  <2>3. s = [i \in 1..size |-> s[i]]
    BY <2>2
  <2>4. s = [i \in 1..size |-> bytes[start + i]]
    BY <2>1, <2>2, <2>3
  <2> QED
    BY <2>4 DEF s, first, last
<1>7. buffer = SubSeq(bytes, start + 1, start + size)
  <2>1. buffer = [i \in 1..size |-> buffer[i]]
    BY <1>4
  <2> QED
    BY <1>5, <1>6, <2>1
<1> QED
  BY <1>7 DEF BufferIsExact, start, size, bytes

(* What is read is then exactly the bytes of the file.                     *)
LEMMA ReadInvIsExact == SyncInv /\ ReadInv => ReadsAreExact
<1> SUFFICES ASSUME SyncInv, ReadInv PROVE ReadsAreExact
  OBVIOUS
<1>1. ASSUME stage = "copied", ~CopyFailed PROVE BufferIsExact
  <2>1. FileIsThere /\ RangesFit /\ BufferFills /\ DOMAIN copier = DOMAIN read.ranges
    BY <1>1 DEF ReadInv, SyncInv, Reads
  <2>2. \A b \in DOMAIN copier : Copied(b)
    BY <1>1 DEF ReadInv, CopyFailed
  <2> QED
    BY <2>1, <2>2, ReadIsWhole
<1>2. ASSUME stage \in {"opened", "copied"}, FileChunks # <<>>
      PROVE  handle.pos = ChunkAssetOffsets[handle.chunk]
  BY <1>2 DEF ReadInv, HandleFits, ChunkAssetOffsets
<1> QED
  BY <1>1, <1>2 DEF ReadsAreExact

--------------------------------------------------------------------------------
(* Theorems about the data *)

(* The arithmetic of content indexes and of version diffs does what the    *)
(* names of its functions promise, for any versions, blocks and content    *)
(* indexes (RetargetContent, MergeContentIndex, CreateMissingContent,      *)
(* GetMissingContent, AddContentIndex and CreateVersionDiff of             *)
(* src/longtail.c).                                                        *)
THEOREM AlgebraCorrect == Spec => []IndexAlgebra
BY SyncInvariance, SyncInvAlgebra, PTL

(* The store has what was put and is true, in every behaviour.             *)
LEMMA StoreInvariance == Spec => []StoreKept
BY InitInv, StepInv, InitStore, StepStore, PTL DEF Spec

(* An upload that succeeds has published a content index that has every    *)
(* chunk of the version, tells the truth about its blocks, and names only  *)
(* blocks the store has, with their data (UpSync of cmd/main.c and         *)
(* WriteContentBlockJob of src/longtail.c).                                *)
THEOREM UploadCorrect == Spec => []UploadKept
BY SyncInvariance, StoreInvariance, StoreIsKept, PTL

(* The folder is on its way from the old version to the new.              *)
LEMMA FolderInvariance == Spec => []FolderInv
<1>1. Spec => []SyncInv /\ []StoreKept
  BY SyncInvariance, StoreInvariance
<1>2. SyncInv /\ StoreKept /\ FolderInv /\ [Next]_vars => FolderInv'
  BY StepFolder
<1> QED
  BY <1>1, <1>2, InitFolder, PTL DEF Spec

(* ChangeVersion and WriteVersion return success only when the folder is   *)
(* the new version, for any two versions of folders, any store and any     *)
(* number of workers, whatever fails or is cancelled on the way, unless    *)
(* the error of an asset was overwritten (Longtail_ChangeVersion,          *)
(* Longtail_WriteVersion and WriteAssets of src/longtail.c).               *)
THEOREM RoundTripCorrect == Spec => []RoundTrip
<1>1. FolderInv => RoundTrip
  BY DEF FolderInv
<1> QED
  BY <1>1, FolderInvariance, PTL

(* What is read of a file is as it was planned, and what has been copied   *)
(* of it is right.                                                         *)
LEMMA ReadInvariance == Spec => []ReadInv
<1>1. Spec => []SyncInv /\ []StoreKept
  BY SyncInvariance, StoreInvariance
<1>2. SyncInv /\ StoreKept /\ ReadInv /\ [Next]_vars => ReadInv'
  BY StepRead
<1> QED
  BY <1>1, <1>2, InitRead, PTL DEF Spec

(* A read returns exactly the bytes of the file it was asked for, for any  *)
(* file of any version, any blocks it is spread over, any reads before it  *)
(* on the same handle, and any order in which the blocks arrive, unless    *)
(* one of them cannot be had (BlockStoreStorageAPI_Read and                *)
(* BlockStoreStorageAPI_ReadFromBlock of                                   *)
(* blockstorestorage/longtail_blockstorestorage.c).                        *)
THEOREM ReadsCorrect == Spec => []ReadsAreExact
BY SyncInvariance, ReadInvariance, ReadInvIsExact, PTL

================================================================================

---------------------------------- MODULE Sync ----------------------------------
(***************************************************************************)
(* cmd/main.c and src/longtail.c: a version is uploaded to a block store   *)
(* and then brought to a folder that has another version, or none.         *)
(*                                                                         *)
(* UpSync asks the store what it has of the version, writes what is        *)
(* missing, and publishes the merged content index.  DownSync compares the *)
(* two versions, asks the store for the content of the difference, and     *)
(* calls ChangeVersion: it removes what is gone, writes what is new or     *)
(* changed, and sets permissions.  Into an empty folder WriteVersion       *)
(* writes everything, from the published content index.  VersionIndex_cp    *)
(* reads a file of the version through BlockStoreStorage.                  *)
(*                                                                         *)
(* The version indexes are true: the folders do not change between the     *)
(* scan and the writing, and two paths do not name one file.               *)
(***************************************************************************)
EXTENDS WriteVersion, BlockStoreStorage

CONSTANTS Inputs,   \* the situations a behaviour may start in
          Contents  \* content indexes for IndexAlgebra

ASSUME InputsType ==
    /\ MaxFailures \in Nat /\ MaxReads \in Nat
    /\ Paths \ DirPaths # {}
    /\ \A i \in Inputs : /\ IsVersion(i.old) /\ IsVersion(i.new)
                        /\ IsTree(i.old) /\ IsTree(i.new)
                        /\ i.blocks \in Seq(Seq(Nat))
ASSUME ContentsType == \A c \in Contents : IsContent(c)

VARIABLES
    input,     \* the old and the new version, the blocks the store has, retain
    stage,     \* how far UpSync, then DownSync or WriteVersion, has come
    result,    \* what the last of them returned
    published, \* the content index UpSync publishes
    diff       \* the version diff of DownSync

vars == <<group, call, store, failures, put, contextVars, disk, todo, overwritten,
          readVars, input, stage, result, published, diff>>

coreRest == <<group, put, contextVars, todo, overwritten, readVars>>
syncRest == <<input, stage, result, published, diff>>
NoCall == [content |-> EmptyContent, version |-> <<>>, assets |-> {}, retain |-> FALSE]
NoDiff == [removed |-> {}, added |-> {}, modified |-> {}, permissions |-> {}]

--------------------------------------------------------------------------------
(* What is computed from the input.  The version indexes do not change, so *)
(* each is a function of the input.  A store answers RetargetContent from  *)
(* the content index of all blocks it has.                                 *)

(* UpSync: what the store has of the new version, what is missing, and the *)
(* content index it publishes.                                             *)
Existing(i) == RetargetContent(ContentIndexFromBlocks(i.blocks), CreateContentIndex(i.new))
Missing(i) == CreateMissingContent(Existing(i), i.new)
Merged(i) == MergeContentIndex(Existing(i), Missing(i))

(* DownSync: the version diff, and the content for it of a store with the  *)
(* blocks of the input, or with those that are uploaded as well.           *)
Diff(i) == CreateVersionDiff(i.old, i.new)
Uploaded(i) == i.blocks \o Without(Missing(i).blocks, ToSet(i.blocks))
Retargeted(i, blocks) ==
    RetargetContent(ContentIndexFromBlocks(blocks), CreateContentIndexFromDiff(i.new, Diff(i)))

(* VersionIndex_cp: what the store has of the version.                     *)
VersionUploaded(i) ==
    RetargetContent(ContentIndexFromBlocks(Uploaded(i)), CreateContentIndex(i.new))

(* An input with all of it. *)
Situation(i) ==
    [old |-> i.old, new |-> i.new, blocks |-> i.blocks, retain |-> i.retain,
     existing |-> Existing(i), missing |-> Missing(i), merged |-> Merged(i), diff |-> Diff(i),
     contentFound |-> Retargeted(i, i.blocks), contentUploaded |-> Retargeted(i, Uploaded(i)),
     versionUploaded |-> VersionUploaded(i),
     readable |-> {c \in {Existing(i), VersionUploaded(i)} : ValidateContent(c, i.new)}]
Situations == {Situation(i) : i \in Inputs}

StoredContent == IF stage = "found" THEN input.existing ELSE input.versionUploaded

--------------------------------------------------------------------------------
Init ==
    /\ input \in Situations
    /\ stage = "begin" /\ result = "none"
    /\ published = EmptyContent /\ diff = NoDiff
    /\ call = NoCall /\ failures = 0
    /\ store = [b \in ToSet(input.blocks) |-> b]
    /\ disk = [p \in Paths |->
                 IF p \notin DOMAIN input.old THEN Nothing
                 ELSE [kind |-> IF p \in DirPaths THEN "dir" ELSE "file",
                       chunks |-> input.old[p].chunks, perm |-> input.old[p].perm]]
    /\ group = NewGroup(0) /\ put = <<>> /\ reader = <<>> /\ blockErr = <<>>
    /\ ctx = <<>> /\ part = <<>> /\ todo = [blocks |-> {}, assets |-> {}]
    /\ overwritten = {}
    /\ handle = OpenReadFile(Min(Paths \ DirPaths)) /\ read = NoRead
    /\ copier = <<>> /\ buffer = <<>> /\ reads = 0

Finish(r) == stage' = "done" /\ result' = r

--------------------------------------------------------------------------------
(* UpSync *)

StartUpload ==
    /\ stage = "begin"
    /\ StartWriteContent(input.missing, input.new)
    /\ published' = input.merged
    /\ stage' = "uploading"
    /\ NoFail
    /\ UNCHANGED <<store, contextVars, disk, todo, overwritten, readVars,
                   input, result, diff>>

(* WriteContent has no block to write. *)
UploadNothing ==
    /\ stage = "begin" /\ input.missing.blocks = <<>>
    /\ published' = input.merged
    /\ stage' = "uploaded"
    /\ NoFail
    /\ UNCHANGED <<coreRest, call, store, disk, input, result, diff>>

(* The version is not uploaded, or was uploaded to another store: what     *)
(* follows finds what this one has.                                        *)
SkipUpload ==
    /\ stage = "begin"
    /\ published' = input.existing
    /\ stage' = "found"
    /\ NoFail
    /\ UNCHANGED <<coreRest, call, store, disk, input, result, diff>>

EndUpload ==
    /\ stage = "uploading" /\ AllJobsDone(group)
    /\ IF WriteContentResult = "ok" THEN stage' = "uploaded" /\ UNCHANGED result
                                    ELSE Finish(WriteContentResult)
    /\ NoFail
    /\ UNCHANGED <<coreRest, call, store, disk, input, published, diff>>

--------------------------------------------------------------------------------
(* DownSync and WriteVersion *)

PlanWriteVersion ==
    /\ stage \in {"uploaded", "found"} /\ DOMAIN input.old = {}
    /\ call' = [content |-> published, version |-> input.new,
                assets |-> DOMAIN input.new, retain |-> input.retain]
    /\ IF DOMAIN input.new = {} THEN Finish("ok") ELSE stage' = "listing" /\ UNCHANGED result
    /\ NoFail
    /\ UNCHANGED <<coreRest, store, disk, input, published, diff>>

PlanChangeVersion ==
    /\ stage \in {"uploaded", "found"}
    /\ diff' = input.diff
    /\ IF NothingToDo(input.diff, input.retain)
       THEN Finish("ok") /\ UNCHANGED call
       ELSE /\ call' = [content |-> IF stage = "found" THEN input.contentFound
                                                     ELSE input.contentUploaded,
                        version |-> input.new,
                        assets |-> input.diff.added \cup input.diff.modified,
                        retain |-> input.retain]
            /\ stage' = "removing"
            /\ UNCHANGED result
    /\ NoFail
    /\ UNCHANGED <<coreRest, store, disk, input, published>>

(* A call that only prepares fails: for memory, or because the store does  *)
(* not answer, the folder cannot be made, PreflightGet fails or the cancel *)
(* token is set before there is a job.                                     *)
PreparationFails ==
    /\ stage \in {"begin", "uploaded", "found", "removing", "listing"}
    /\ Finish("failed")
    /\ Fail
    /\ UNCHANGED <<coreRest, call, store, disk, input, published, diff>>

(* The removal loop of ChangeVersion, with its ten rounds, is one step.    *)
RemoveAssets ==
    /\ stage = "removing"
    /\ disk' = [p \in Paths |-> IF p \in diff.removed THEN Nothing ELSE disk[p]]
    /\ stage' = IF call.assets = {} THEN "permitting" ELSE "listing"
    /\ NoFail
    /\ UNCHANGED <<coreRest, call, store, input, result, published, diff>>

(* Some assets cannot be removed, nor can the directories they are in.     *)
(* They may have been made writable.                                       *)
RemoveFails ==
    /\ stage = "removing"
    /\ \E kept \in SUBSET diff.removed \ {{}} : \E opened \in SUBSET kept :
         /\ \A p \in kept : Ancestors[p] \cap diff.removed \subseteq kept
         /\ disk' = [p \in Paths |-> IF p \in diff.removed \ kept THEN Nothing
                                    ELSE IF p \in opened THEN [disk[p] EXCEPT !.perm = "rw"]
                                    ELSE disk[p]]
    /\ Finish("failed")
    /\ Fail
    /\ UNCHANGED <<coreRest, call, store, input, published, diff>>

(* The last removal reports an error although the asset is gone: nothing   *)
(* resets the error, and ChangeVersion returns it if it has nothing to     *)
(* write and no permissions to set.                                        *)
RemoveReportsError ==
    /\ stage = "removing" /\ diff.removed # {}
    /\ call.assets = {} /\ (diff.permissions = {} \/ ~call.retain)
    /\ disk' = [p \in Paths |-> IF p \in diff.removed THEN Nothing ELSE disk[p]]
    /\ Finish("failed")
    /\ Fail
    /\ UNCHANGED <<coreRest, call, store, input, published, diff>>

ListAssets ==
    /\ stage = "listing"
    /\ StartWriteAssets
    /\ stage' = "writing"
    /\ UNCHANGED <<readVars, input, result, published, diff>>

ListFails ==
    /\ stage = "listing" /\ ChunkIsMissing
    /\ Finish("failed")
    /\ NoFail
    /\ UNCHANGED <<coreRest, call, store, disk, input, published, diff>>

(* No memory for the contexts of asset jobs: WriteAssets frees those of    *)
(* the block jobs and returns, while block jobs may be running (line       *)
(* 5583).  What becomes of the program then is not modelled.               *)
AssetContextsFail ==
    /\ stage = "writing"
    /\ todo.blocks = {} /\ ctx = <<>> /\ ~group.waiting
    /\ IF group.pending = 0 THEN Finish("failed")
                            ELSE stage' = "abandoned" /\ UNCHANGED result
    /\ Fail
    /\ UNCHANGED <<coreRest, call, store, disk, input, published, diff>>

EndWriteAssets ==
    /\ stage = "writing" /\ AllJobsDone(group)
    /\ IF WriteAssetsResult = "ok" /\ DOMAIN input.old # {}
       THEN stage' = "permitting" /\ UNCHANGED result
       ELSE Finish(WriteAssetsResult)
    /\ NoFail
    /\ UNCHANGED <<coreRest, call, store, disk, input, published, diff>>

(* The permissions that are all an asset changes, if they are retained. *)
SetPermissions ==
    /\ stage = "permitting"
    /\ \/ /\ disk' = [p \in Paths |-> IF call.retain /\ p \in diff.permissions
                                      THEN [disk[p] EXCEPT !.perm = input.new[p].perm]
                                      ELSE disk[p]]
          /\ Finish("ok")
          /\ NoFail
       \/ /\ call.retain
          /\ \E some \in SUBSET diff.permissions \ {diff.permissions} :
               disk' = [p \in Paths |-> IF p \in some
                                        THEN [disk[p] EXCEPT !.perm = input.new[p].perm]
                                        ELSE disk[p]]
          /\ Finish("failed")
          /\ Fail
    /\ UNCHANGED <<coreRest, call, store, input, published, diff>>

--------------------------------------------------------------------------------
(* VersionIndex_cp, of this version and this store: a file is opened, read *)
(* piece by piece and closed.                                              *)

OpenVersionFile ==
    /\ stage \in {"uploaded", "found"} /\ StoredContent \in input.readable
    /\ \E p \in DOMAIN input.new \ DirPaths : handle' = OpenReadFile(p)
    /\ call' = [content |-> StoredContent, version |-> input.new,
                assets |-> {}, retain |-> FALSE]
    /\ stage' = "opened"
    /\ NoFail
    /\ UNCHANGED <<group, put, contextVars, todo, overwritten, read, copier, buffer, reads,
                   store, disk, input, result, published, diff>>

OpenRefused ==
    /\ stage \in {"uploaded", "found"} /\ StoredContent \notin input.readable
    /\ Finish("failed")
    /\ NoFail
    /\ UNCHANGED <<coreRest, call, store, disk, input, published, diff>>

ReadFile ==
    /\ stage \in {"opened", "copied"}
    /\ \E r \in Ranges : \/ StartRead(r[1], r[2]) /\ stage' = "copying"
                         \/ ReadNoMemory(r[1], r[2]) /\ stage' = "opened"
    /\ UNCHANGED <<contextVars, disk, todo, overwritten, input, result, published, diff>>

CopyBlocks == /\ stage = "copying" /\ CopyNext
              /\ UNCHANGED <<contextVars, disk, todo, overwritten, syncRest>>

(* Read returns 0, whatever its jobs did. *)
EndRead ==
    /\ stage = "copying" /\ AllJobsDone(group)
    /\ stage' = "copied"
    /\ NoFail
    /\ UNCHANGED <<coreRest, call, store, disk, input, result, published, diff>>

CloseVersionFile ==
    /\ stage \in {"opened", "copied"}
    /\ Finish("read")
    /\ NoFail
    /\ UNCHANGED <<coreRest, call, store, disk, input, published, diff>>

--------------------------------------------------------------------------------
(* Whoever has the cancel token cancels it while jobs are waited for; Read *)
(* waits without one.                                                      *)
Cancel ==
    /\ stage \in {"uploading", "writing"} /\ CanCancel(group)
    /\ group' = CancelJobs(group)
    /\ NoFail
    /\ UNCHANGED <<call, store, put, contextVars, disk, todo, overwritten, readVars,
                   input, stage, result, published, diff>>

(* A job that the store accepted a call of returns. *)
JobReturns ==
    /\ stage \in {"uploading", "writing", "copying"}
    /\ \E j \in group.returning : group' = ReturnJob(group, j)
    /\ NoFail
    /\ UNCHANGED <<call, store, put, contextVars, disk, todo, overwritten, readVars,
                   input, stage, result, published, diff>>

Upload == /\ stage = "uploading" /\ WriteContentNext
          /\ UNCHANGED <<contextVars, disk, todo, overwritten, readVars, syncRest>>
CreateAssetJobs == stage = "writing" /\ CreateJobsNext /\ UNCHANGED <<readVars, syncRest>>
WriteAssets == stage = "writing" /\ WriteAssetsNext /\ UNCHANGED <<readVars, syncRest>>

Next ==
    \/ StartUpload \/ UploadNothing \/ SkipUpload \/ EndUpload
    \/ PlanWriteVersion \/ PlanChangeVersion \/ PreparationFails
    \/ RemoveAssets \/ RemoveFails \/ RemoveReportsError
    \/ ListAssets \/ ListFails \/ AssetContextsFail \/ EndWriteAssets \/ SetPermissions
    \/ OpenVersionFile \/ OpenRefused \/ EndRead \/ CloseVersionFile
    \/ Cancel \/ JobReturns \/ Upload \/ CreateAssetJobs \/ WriteAssets \/ ReadFile \/ CopyBlocks

(* Threads run, and the store calls every OnComplete it was given: while   *)
(* something can be done something is.                                     *)
Spec == Init /\ [][Next]_vars /\ WF_vars(Next)

--------------------------------------------------------------------------------
(* Properties *)

Stages == {"begin", "uploading", "uploaded", "found", "removing", "listing", "writing",
           "permitting", "opened", "copying", "copied", "done", "abandoned"}

(* Every variable has its type: in particular the jobs a job waits for     *)
(* have been created.                                                      *)
TypeOK ==
    /\ GroupType(group) /\ PutType /\ WriteVersionType /\ ReadType
    /\ stage \in Stages /\ result \in {"none", "ok", "failed", "cancelled", "read"}
    /\ failures \in 0..MaxFailures
    /\ \E i \in Inputs : /\ input.old = i.old /\ input.new = i.new
                        /\ input.blocks = i.blocks /\ input.retain = i.retain

ContentsAgree ==
    \A c, d \in Contents : /\ RetargetIsExact(c, d) /\ MissingBlocksAreWhole(c, d)
                           /\ MergeIsUnion(c, d) /\ AddKeepsBoth(c, d)

(* The arithmetic of content indexes and versions does what the functions  *)
(* of its name promise (see ContentIndex), for the versions of the input,  *)
(* what the store has, and the content indexes of Contents - blocks may    *)
(* overlap in them, as they do in a store that several versions were       *)
(* uploaded to.  What is missing, merged with what is there, has all of    *)
(* the version (RetargetContent, MergeContentIndex and                     *)
(* CreateMissingContent of src/longtail.c).                                *)
IndexAlgebra ==
    /\ ContentsAgree
    /\ stage = "begin" =>
         /\ DiffIsExact(input.old, input.new) /\ DiffIsExact(input.new, input.old)
         /\ \A c \in Contents \cup {ContentIndexFromBlocks(input.blocks)} : \A v \in {input.old, input.new} :
              /\ MissingIsExact(c, v)
              /\ ValidateContent(MergeContentIndex(c, CreateMissingContent(c, v)), v)

(* When UpSync has succeeded, the content index it publishes has every     *)
(* chunk of the version and names blocks the store has, each with the data *)
(* its hash stands for: every block of WriteContent was read from the      *)
(* right offset of the right file and put without an error.                *)
UploadKept ==
    stage = "uploaded" =>
        /\ ValidateContent(published, input.new) /\ PairsAreTrue(published)
        /\ \A b \in ToSet(published.blocks) : b \in DOMAIN store
        /\ \A b \in DOMAIN store : store[b] = b

(* The folder is the new version.  An added directory does not get the     *)
(* permissions of the version, and nothing does if they are not retained.  *)
FolderIsNew ==
    /\ \A p \in Paths \ DOMAIN input.new : disk[p] = Nothing
    /\ \A p \in DOMAIN input.new :
         /\ disk[p].kind = IF p \in DirPaths THEN "dir" ELSE "file"
         /\ disk[p].chunks = input.new[p].chunks
         /\ input.retain /\ (p \in DirPaths => p \in DOMAIN input.old)
              => disk[p].perm = input.new[p].perm

(* ChangeVersion and WriteVersion return success only when the folder is   *)
(* the new version, whatever failed or was cancelled on the way; but for   *)
(* an asset whose error a late job has overwritten, see FailureIsReported. *)
RoundTrip ==
    stage = "done" /\ result = "ok" /\ overwritten = {} => FolderIsNew

(* What the tests expect of ChangeVersion: when the disk fails while it    *)
(* writes, it says so.  So success means that the folder is as it was      *)
(* asked for.                                                              *)
FailureIsReported ==
    stage = "done" /\ result = "ok" => FolderIsNew

(* The parts of an asset are written one after the other although the      *)
(* blocks of the next are read meanwhile: no two write jobs of an asset    *)
(* are between opening and closing of their part at once, the one that is  *)
(* has the file open and its blocks at hand, and when all jobs are done    *)
(* every file is closed (WritePartialAssetFromBlocks and its sync job).    *)
OneWriterPerFile ==
    /\ \A a \in DOMAIN ctx :
         LET writing == {o \in 0..Len(AssetChunks(a)) : InPart(a, o, "writing")} IN
         /\ Cardinality(writing) <= 1
         /\ \A o \in writing : /\ ctx[a].file
                               /\ \A j \in PartReads(a, o) : reader[j].block = "lent"
    /\ stage = "writing" /\ AllJobsDone(group) => \A a \in DOMAIN ctx : ~ctx[a].file

(* Each stored block a job is given is disposed of once, by whatever path  *)
(* the job ends (BlockReader, WriteAssetsFromBlock, the ten exits of       *)
(* WritePartialAssetFromBlocks, BlockWriterJobOnComplete, and the jobs of  *)
(* Read).  The exception is the eleventh exit of                           *)
(* WritePartialAssetFromBlocks, the assertion of line 4541 (PartAsserts):  *)
(* the blocks of that part are "leaked", in builds that have assertions.   *)
BlocksDisposedOnce ==
    LET all == {reader[j].block : j \in DOMAIN reader} \cup {put[h].block : h \in DOMAIN put}
                \cup {copier[b].block : b \in DOMAIN copier}
    IN  /\ "twice" \notin all
        /\ stage \in {"uploading", "writing", "copying"} /\ AllJobsDone(group) =>
             all \cap {"asked", "lent"} = {}

(* Read puts the bytes of the range in the buffer, wherever the reads      *)
(* before it left the handle, however the blocks of the range interleave   *)
(* in the file, and in whatever order they arrive; but for a block that    *)
(* cannot be had, which Read does not report (line 598).                   *)
ReadsAreExact ==
    /\ stage = "copied" /\ ~CopyFailed => BufferIsExact
    /\ stage \in {"opened", "copied"} /\ FileChunks # <<>> =>
         handle.pos = ChunkAssetOffsets[handle.chunk]

(* The jobs that WriteAssets reserves, before it knows which parts fail,   *)
(* are enough for all that jobs create while they run; the pending count   *)
(* is that of the jobs which are not complete, and none is left when the   *)
(* call has returned, but for the return of line 5583.                     *)
JobsFitReservation ==
    /\ Cardinality(Jobs(group)) <= group.reserved
    /\ group.pending = Cardinality(Jobs(group) \ InState(group, "complete"))
    /\ stage = "done" => group.pending = 0

(* Upload and download come to an end, whatever fails and whenever they    *)
(* are cancelled: no job waits for one that nobody readies.                *)
SyncEnds == <>(stage \in {"done", "abandoned"})
================================================================================

------------------------------ MODULE WriteContent ------------------------------
(***************************************************************************)
(* src/longtail.c: Longtail_WriteContent.  One job for each block of a     *)
(* content index: it reads the block's chunks out of the source folder and *)
(* gives the block to the block store, returns EBUSY, and is resumed by    *)
(* the store's OnComplete.                                                 *)
(*                                                                         *)
(* The block store is external: it may refuse a call, or accept it and     *)
(* call OnComplete once, later, with or without an error.  The modules of  *)
(* the block stores say how far each of them keeps to that.                *)
(*                                                                         *)
(* Failures of what the code calls (memory, disk, store) are counted and   *)
(* there are at most MaxFailures of them.  An error code is "failed", or   *)
(* "cancelled"; "initial" is the EINVAL that m_Err starts with.            *)
(***************************************************************************)
EXTENDS ContentIndex, JobSystem

CONSTANT MaxFailures   \* bound on the failures of a behaviour

VARIABLES
    call,      \* the arguments of the call that is running
    store,     \* the block store: the data of the blocks it has, by block hash
    failures,  \* failures so far
    put        \* WriteBlockJob of each block: m_Err, and its stored block

Errors == {"initial", "ok", "failed", "cancelled"}

Fail == failures < MaxFailures /\ failures' = failures + 1
NoFail == UNCHANGED failures

(* What is read from an asset of the source folder at an offset. *)
ReadAsset(chunks, offset) ==
    IF \E i \in DOMAIN chunks : OffsetOf(chunks, i) = offset
    THEN chunks[CHOOSE i \in DOMAIN chunks : OffsetOf(chunks, i) = offset]
    ELSE 0

(* The data WriteContentBlockJob puts in a block of these chunk hashes. *)
BlockData(v, block) ==
    [i \in DOMAIN block |-> LET part == AssetPart(v, block[i])
                            IN  ReadAsset(v[part.path].chunks, part.offset)]

PutJob(h) == <<"put", h>>

(* Lines 4104 to 4248: a group with a job for each block, all ready; with  *)
(* no block there is nothing to do (see UploadNothing of Sync).            *)
StartWriteContent(content, v) ==
    LET jobs == {PutJob(h) : h \in ToSet(content.blocks)} IN
    /\ content.blocks # <<>>
    /\ call' = [content |-> content, version |-> v, assets |-> {}, retain |-> FALSE]
    /\ group' = WaitForJobs(ReadyJobs(CreateJobs(NewGroup(Len(content.blocks)), jobs), jobs))
    /\ put' = [h \in ToSet(content.blocks) |-> [err |-> "initial", block |-> "none"]]

(* The thread that executes the job calls it for the first time: its       *)
(* OnComplete is not set.                                                  *)
PutStarts(h) == h \in DOMAIN put /\ put[h].block = "none" /\ CanStart(group, PutJob(h))

PutEnds(h, err, block) ==
    /\ put' = [put EXCEPT ![h] = [err |-> err, block |-> block]]
    /\ group' = EndJob(group, PutJob(h))

PutJobCancelled(h) ==
    /\ PutStarts(h)
    /\ group.cancelled
    /\ PutEnds(h, "cancelled", "none")
    /\ NoFail
    /\ UNCHANGED <<call, store>>

(* No memory, or a source file that cannot be read or is too short. *)
PutJobFails(h) ==
    /\ PutStarts(h)
    /\ ~group.cancelled
    /\ PutEnds(h, "failed", "none")
    /\ Fail
    /\ UNCHANGED <<call, store>>

(* PutStoredBlock returns an error: the job disposes the block. *)
PutRefused(h) ==
    /\ PutStarts(h)
    /\ ~group.cancelled
    /\ PutEnds(h, "failed", "disposed")
    /\ Fail
    /\ UNCHANGED <<call, store>>

PutAccepted(h) ==
    /\ PutStarts(h)
    /\ ~group.cancelled
    /\ put' = [put EXCEPT ![h].block = "lent"]
    /\ group' = BlockJob(group, PutJob(h))
    /\ NoFail
    /\ UNCHANGED <<call, store>>

(* BlockWriterJobOnComplete: the block is disposed, the error kept and the *)
(* job resumed.  A store that reports no error has the block.              *)
PutComplete(h) ==
    /\ h \in DOMAIN put /\ put[h].block = "lent"
    /\ group' = ReadyJobs(group, {PutJob(h)})
    /\ \/ /\ store' = Extend(store, {h}, BlockData(call.version, h))
          /\ put' = [put EXCEPT ![h] = [err |-> "ok", block |-> "disposed"]]
          /\ NoFail
       \/ /\ store' = store
          /\ put' = [put EXCEPT ![h] = [err |-> "failed", block |-> "disposed"]]
          /\ Fail
    /\ UNCHANGED call

(* The job is called again and finds its OnComplete set. *)
PutResumed(h) ==
    /\ h \in DOMAIN put /\ put[h].block = "disposed" /\ CanStart(group, PutJob(h))
    /\ group' = EndJob(group, PutJob(h))
    /\ NoFail
    /\ UNCHANGED <<call, store, put>>

WriteContentNext ==
    \E h \in DOMAIN put : \/ PutJobCancelled(h) \/ PutJobFails(h) \/ PutRefused(h)
                          \/ PutAccepted(h) \/ PutComplete(h) \/ PutResumed(h)

(* What the call returns when all jobs are done (lines 4250 to 4284). *)
WriteContentResult ==
    IF group.cancelled THEN "cancelled"
    ELSE IF \A h \in DOMAIN put : put[h].err = "ok" THEN "ok" ELSE "failed"

PutType == \A h \in DOMAIN put : /\ put[h].err \in Errors
                                 /\ put[h].block \in {"none", "lent", "disposed"}
================================================================================

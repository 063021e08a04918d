------------------------------ MODULE FSBlockStore ------------------------------
(***************************************************************************)
(* lib/fsblockstore/longtail_fsblockstore.c: blocks as files of a content  *)
(* path, listed by store.lci, which several stores (processes) share.      *)
(*                                                                         *)
(* A store is an instance of FSBlockStoreAPI opened on the content path; a *)
(* thread makes one call of its store after the other.  m_Lock (mutex) is  *)
(* held by a thread across Flush and the first GetIndexSync, which         *)
(* wait for the lock file while they hold it.  A content index is the set  *)
(* of blocks it lists; MergeContentIndex and AddContentIndex are unions.   *)
(* The lock file of lines 748 and 1029 excludes all other stores (on POSIX *)
(* as long as they run in one directory: longtail_platform.c line 1711     *)
(* ignores the path); the system frees it when its holder dies.            *)
(* A Get that answers ENOENT, PreflightGet and GetStats change nothing and *)
(* are left out, as are temporary files, which ScanBlock skips.            *)
(***************************************************************************)
EXTENDS Naturals

CONSTANTS Stores, Threads, Blocks,
          Home,      \* the store a thread calls
          MaxFaults, \* bound on the failures of storage or memory and crashes
          None,      \* no thread, no store, no block
          Missing    \* no content index

ASSUME MaxFaultsNatural == MaxFaults \in Nat
ASSUME HomeType == Home \in [Threads -> Stores]
ASSUME NobodyApart == None \notin Stores \cup Threads \cup Blocks
ASSUME MissingApart == \A i \in SUBSET Blocks : i # Missing

VARIABLES
    stored,    \* disk: the block files
    index,     \* disk: store.lci
    fileLock,  \* the store that holds the lock file
    open,      \* the store accepts calls
    state,     \* m_BlockState: no entry, 0 or 1
    added,     \* m_AddedBlockIndexes
    memIndex,  \* m_ContentIndex
    mutex,     \* the thread that holds m_Lock across steps
    pc,        \* where a thread is
    block,     \* argument of its Put or Get
    fresh,     \* Flush: new_block_count > 0
    draft,     \* Flush: the merged index in the temporary file
    closing,   \* this Flush was called by Dispose
    listed,    \* history: blocks store.lci ever listed
    torn,      \* history: a Flush died or failed with store.lci removed
    unkept,    \* history: blocks known as stored, their index not kept for Flush
    absorbed,  \* history: those GetIndexSync found or took, unwritten since
    silent,    \* history: a Flush of this session dropped an error
    abandoned, \* history: blocks with a Put that failed in this session
    faults     \* how many faults there were

disk      == <<stored, index, fileLock>>
memory    == <<open, state, added, memIndex>>
flushVars == <<fresh, draft, closing>>
history   == <<listed, torn, unkept, absorbed, silent, abandoned>>
vars == <<disk, memory, mutex, pc, block, flushVars, history, faults>>

PutPCs   == {"checking", "putting", "written"}
GetPCs   == {"spinning", "reading"}
IndexPCs == {"locking", "scanning"}
FlushPCs == {"waiting", "removing", "renaming", "flushed"} \* with m_Lock

TypeOK ==
    /\ stored \in SUBSET Blocks
    /\ index \in {Missing} \cup SUBSET Blocks
    /\ fileLock \in Stores \cup {None}
    /\ open \in [Stores -> BOOLEAN]
    /\ state \in [Stores -> [Blocks -> {"absent", "writing", "stored"}]]
    /\ added \in [Stores -> SUBSET Blocks]
    /\ memIndex \in [Stores -> {Missing} \cup SUBSET Blocks]
    /\ mutex \in [Stores -> Threads \cup {None}]
    /\ pc \in [Threads -> {"idle", "entering"} \cup PutPCs \cup GetPCs \cup IndexPCs \cup FlushPCs]
    /\ block \in [Threads -> Blocks \cup {None}]
    /\ fresh \in [Threads -> BOOLEAN]
    /\ draft \in [Threads -> SUBSET Blocks]
    /\ closing \in [Threads -> BOOLEAN]
    /\ listed \in SUBSET Blocks
    /\ torn \in BOOLEAN
    /\ unkept \in [Stores -> SUBSET Blocks]
    /\ absorbed \in [Stores -> SUBSET Blocks]
    /\ silent \in [Stores -> BOOLEAN]
    /\ abandoned \in [Stores -> SUBSET Blocks]
    /\ faults \in 0..MaxFaults
    /\ \A t \in Threads : pc[t] \in FlushPCs \ {"flushed"} => memIndex[Home[t]] # Missing

Init ==
    /\ stored = {} /\ index = Missing /\ fileLock = None
    /\ open = [s \in Stores |-> TRUE]
    /\ state = [s \in Stores |-> [b \in Blocks |-> "absent"]]
    /\ added = [s \in Stores |-> {}]
    /\ memIndex = [s \in Stores |-> Missing]
    /\ mutex = [s \in Stores |-> None]
    /\ pc = [t \in Threads |-> "idle"]
    /\ block = [t \in Threads |-> None]
    /\ fresh = [t \in Threads |-> FALSE]
    /\ draft = [t \in Threads |-> {}]
    /\ closing = [t \in Threads |-> FALSE]
    /\ listed = {} /\ torn = FALSE
    /\ unkept = [s \in Stores |-> {}]
    /\ absorbed = [s \in Stores |-> {}]
    /\ silent = [s \in Stores |-> FALSE]
    /\ abandoned = [s \in Stores |-> {}]
    /\ faults = 0

Names(i) == IF i = Missing THEN {} ELSE i

Goto(t, l) == pc' = [pc EXCEPT ![t] = l]

(* The end of a Put or Get. *)
Return(t) == Goto(t, "idle") /\ block' = [block EXCEPT ![t] = None]

(* A new call, and a step that takes and releases m_Lock. *)
Idle(t) == pc[t] = "idle" /\ open[Home[t]]
Unlocked(t) == mutex[Home[t]] = None

SetState(t, v) == state' = [state EXCEPT ![Home[t]][block[t]] = v]

--------------------------------------------------------------------------------
(* PutStoredBlock *)

(* The block gets an entry v; no other Put of it will be started. *)
Claim(t, b, v) ==
    /\ Idle(t) /\ Unlocked(t)
    /\ state[Home[t]][b] = "absent"
    /\ state' = [state EXCEPT ![Home[t]][b] = v]
    /\ block' = [block EXCEPT ![t] = b]
    /\ Goto(t, "checking")
    /\ UNCHANGED <<disk, open, added, memIndex, mutex, flushVars, history>>

(* Unknown to this session.  A Put of a known block is answered with 0 at  *)
(* once, whether it is stored or still being written.                      *)
PutStart(t, b) == Claim(t, b, "writing")

(* A block file that exists is not written again. *)
PutCheck(t) ==
    /\ pc[t] = "checking"
    /\ Goto(t, IF block[t] \in stored THEN "written" ELSE "putting")
    /\ UNCHANGED <<disk, memory, mutex, block, flushVars, history>>

(* The temporary file is complete and takes the block's name; a file of    *)
(* that name that another store put there meanwhile is as good.            *)
PutRename(t) ==
    /\ pc[t] = "putting"
    /\ stored' = stored \cup {block[t]}
    /\ Goto(t, "written")
    /\ UNCHANGED <<index, fileLock, memory, mutex, block, flushVars, history>>

(* The write fails: the error is answered and the entry becomes v. *)
GiveUp(t, v) ==
    /\ pc[t] = "putting" /\ Unlocked(t)
    /\ SetState(t, v)
    /\ abandoned' = [abandoned EXCEPT ![Home[t]] = @ \cup {block[t]}]
    /\ Return(t)
    /\ UNCHANGED <<disk, open, added, memIndex, mutex, flushVars, listed,
                   torn, unkept, absorbed, silent>>

(* Mutant of PutFails: the failed block is marked stored. *)
PutFails_MarksStored(t) == GiveUp(t, "stored")

(* The entry is deleted. *)
PutFails(t) == GiveUp(t, "absent")

(* No memory to copy the block index: an error is answered, the entry      *)
(* stays 0.                                                                *)
PutNoMemory(t) ==
    /\ pc[t] = "written"
    /\ abandoned' = [abandoned EXCEPT ![Home[t]] = @ \cup {block[t]}]
    /\ Return(t)
    /\ UNCHANGED <<disk, memory, mutex, flushVars, listed, torn, unkept,
                   absorbed, silent>>

(* The block is in place: its index is kept for Flush. *)
Record(t, v) ==
    /\ pc[t] = "written" /\ Unlocked(t)
    /\ SetState(t, v)
    /\ added' = [added EXCEPT ![Home[t]] = @ \cup {block[t]}]
    /\ Return(t)
    /\ UNCHANGED <<disk, open, memIndex, mutex, flushVars, history>>

(* Mutant of PutRecord: the entry stays 0. *)
PutRecord_KeepsWriting(t) == Record(t, "writing")

PutRecord(t) == Record(t, "stored")

--------------------------------------------------------------------------------
(* GetStoredBlock *)

(* A block that is on disk and unknown becomes known as stored; a later    *)
(* Put of it will not add it to the index.                                 *)
GetStart(t, b) ==
    /\ Idle(t) /\ Unlocked(t)
    /\ state[Home[t]][b] # "absent" \/ b \in stored
    /\ block' = [block EXCEPT ![t] = b]
    /\ IF state[Home[t]][b] = "absent"
       THEN /\ state' = [state EXCEPT ![Home[t]][b] = "stored"]
            /\ unkept' = [unkept EXCEPT ![Home[t]] = @ \cup {b}]
       ELSE UNCHANGED <<state, unkept>>
    /\ Goto(t, IF state[Home[t]][b] = "writing" THEN "spinning" ELSE "reading")
    /\ UNCHANGED <<disk, open, added, memIndex, mutex, flushVars, listed, torn,
                   absorbed, silent, abandoned>>

(* hmget of a deleted entry is 0 as well, so only a stored block ends this. *)
GetSpin(t) ==
    /\ pc[t] = "spinning" /\ Unlocked(t)
    /\ state[Home[t]][block[t]] = "stored"
    /\ Goto(t, "reading")
    /\ UNCHANGED <<disk, memory, mutex, block, flushVars, history>>

(* The file is read and the caller answered, with the block or an error. *)
GetRead(t) ==
    /\ pc[t] = "reading"
    /\ Return(t)
    /\ UNCHANGED <<disk, memory, mutex, flushVars, history>>

--------------------------------------------------------------------------------
(* GetIndexSync, the only step of RetargetContent that touches the store *)

(* The index i becomes this session's, with the blocks added to it.  Of    *)
(* those, the ones of found are in no store.lci either.                    *)
Absorb(s, i, found) ==
    /\ memIndex' = [memIndex EXCEPT ![s] = i \cup added[s]]
    /\ added' = [added EXCEPT ![s] = {}]
    /\ absorbed' = [absorbed EXCEPT ![s] = @ \cup added[s] \cup found]

(* The blocks of an index from disk are known as stored from now on. *)
Known(s, i) ==
    state' = [state EXCEPT ![s] = [b \in Blocks |-> IF b \in i THEN "stored" ELSE @[b]]]

IndexKnown(t) ==
    /\ Idle(t) /\ Unlocked(t)
    /\ memIndex[Home[t]] # Missing
    /\ Absorb(Home[t], memIndex[Home[t]], {})
    /\ UNCHANGED <<disk, open, state, mutex, pc, block, flushVars, listed, torn,
                   unkept, silent, abandoned>>

IndexStart(t) ==
    /\ Idle(t) /\ Unlocked(t)
    /\ memIndex[Home[t]] = Missing
    /\ mutex' = [mutex EXCEPT ![Home[t]] = t]
    /\ Goto(t, "locking")
    /\ UNCHANGED <<disk, memory, block, flushVars, history>>

(* LockFile, the read of store.lci or the scan fails: the error is         *)
(* returned with m_Lock still held (lines 813 to 819).                     *)
IndexFails(t) ==
    /\ pc[t] \in IndexPCs
    /\ Goto(t, "idle")
    /\ UNCHANGED <<disk, memory, mutex, block, flushVars, history>>

(* What the thread that has m_Lock and the lock file goes on with: the     *)
(* index is loaded from store.lci or, without one and after releasing the  *)
(* lock file, from the block files.                                        *)
OnDisk(t) == \/ pc[t] = "locking" /\ fileLock = None /\ index # Missing
             \/ pc[t] = "scanning"
DiskIndex(t) == IF pc[t] = "scanning" THEN stored ELSE index
Scanned(t) == IF pc[t] = "scanning" THEN stored ELSE {}

IndexUnlisted(t) ==
    /\ pc[t] = "locking" /\ fileLock = None /\ index = Missing
    /\ Goto(t, "scanning")
    /\ UNCHANGED <<disk, memory, mutex, block, flushVars, history>>

IndexLoad(t) ==
    /\ OnDisk(t)
    /\ Absorb(Home[t], DiskIndex(t), Scanned(t))
    /\ Known(Home[t], DiskIndex(t))
    /\ mutex' = [mutex EXCEPT ![Home[t]] = None]
    /\ Goto(t, "idle")
    /\ UNCHANGED <<disk, open, block, flushVars, listed, torn, unkept, silent,
                   abandoned>>

(* The index is loaded, and there is no memory to extend it (line 860). *)
IndexNoMemory(t) ==
    /\ OnDisk(t)
    /\ added[Home[t]] # {}
    /\ memIndex' = [memIndex EXCEPT ![Home[t]] = DiskIndex(t)]
    /\ absorbed' = [absorbed EXCEPT ![Home[t]] = @ \cup Scanned(t)]
    /\ Known(Home[t], DiskIndex(t))
    /\ mutex' = [mutex EXCEPT ![Home[t]] = None]
    /\ Goto(t, "idle")
    /\ UNCHANGED <<disk, open, added, block, flushVars, listed, torn, unkept, silent,
                   abandoned>>

--------------------------------------------------------------------------------
(* Flush, by a caller or by Dispose *)

(* The call waits for m_Lock.  Dispose, its last one, wants no other call  *)
(* to be under way.                                                        *)
FlushCall(t, last) ==
    /\ Idle(t)
    /\ last => \A u \in Threads : Home[u] = Home[t] => pc[u] = "idle"
    /\ open' = [open EXCEPT ![Home[t]] = ~last]
    /\ closing' = [closing EXCEPT ![t] = last]
    /\ Goto(t, "entering")
    /\ UNCHANGED <<disk, state, added, memIndex, mutex, block, fresh, draft, history>>

(* m_Lock is taken, and so are the added blocks. *)
Begin(t) ==
    /\ pc[t] = "entering" /\ Unlocked(t)
    /\ fresh' = [fresh EXCEPT ![t] = added[Home[t]] # {}]
    /\ added' = [added EXCEPT ![Home[t]] = {}]
    /\ mutex' = [mutex EXCEPT ![Home[t]] = t]

(* Mutant of FlushStart: writes an index whether there is one or not. *)
FlushStart_NoIndexCheck(t) ==
    /\ Begin(t)
    /\ LET s == Home[t]
       IN memIndex' = [memIndex EXCEPT
                        ![s] = IF added[s] = {} THEN @ ELSE Names(@) \cup added[s]]
    /\ Goto(t, "waiting")
    /\ UNCHANGED <<disk, open, state, block, draft, closing, history>>

(* The blocks added since the last time go to the session's index; without *)
(* an index there is nothing to write.                                     *)
FlushStart(t) ==
    /\ Begin(t)
    /\ LET s == Home[t]
           i == IF added[s] = {} THEN memIndex[s] ELSE Names(memIndex[s]) \cup added[s]
       IN /\ memIndex' = [memIndex EXCEPT ![s] = i]
          /\ Goto(t, IF i = Missing THEN "flushed" ELSE "waiting")
    /\ UNCHANGED <<disk, open, state, block, draft, closing, history>>

(* The index cannot be extended: the added blocks are dropped, though      *)
(* m_BlockState goes on to call them stored, and the caller gets the error *)
(* (lines 1007 to 1014).                                                   *)
FlushNoMemory(t) ==
    /\ Begin(t)
    /\ added[Home[t]] # {}
    /\ unkept' = [unkept EXCEPT ![Home[t]] = @ \cup added[Home[t]]]
    /\ Goto(t, IF memIndex[Home[t]] = Missing THEN "flushed" ELSE "waiting")
    /\ UNCHANGED <<disk, open, state, memIndex, block, draft, closing, listed, torn,
                   absorbed, silent, abandoned>>

(* With the lock file, and if the index has to be written, this session's  *)
(* index and the names found in store.lci go to a temporary file.          *)
WriteDraft(t, dirty, found) ==
    /\ pc[t] = "waiting" /\ fileLock = None
    /\ fileLock' = Home[t]
    /\ IF dirty
       THEN /\ draft' = [draft EXCEPT ![t] = memIndex[Home[t]] \cup found]
            /\ Goto(t, IF index = Missing THEN "renaming" ELSE "removing")
       ELSE UNCHANGED draft /\ Goto(t, "flushed")
    /\ UNCHANGED <<stored, index, memory, mutex, block, fresh, closing, history>>

(* Mutant of FlushLock: only a missing store.lci is written. *)
FlushLock_MissingOnly(t) == WriteDraft(t, index = Missing, Names(index))

(* Mutant of FlushLock: what other stores wrote is not read. *)
FlushLock_OwnOnly(t) == WriteDraft(t, fresh[t] \/ index = Missing, {})

(* There is something to write if blocks were added or store.lci is gone. *)
FlushLock(t) == WriteDraft(t, fresh[t] \/ index = Missing, Names(index))

FlushRemove(t) ==
    /\ pc[t] = "removing"
    /\ index' = Missing
    /\ Goto(t, "renaming")
    /\ UNCHANGED <<stored, fileLock, memory, mutex, block, flushVars, history>>

FlushRename(t) ==
    /\ pc[t] = "renaming"
    /\ index' = draft[t]
    /\ memIndex' = [memIndex EXCEPT ![Home[t]] = draft[t]]
    /\ listed' = listed \cup draft[t]
    /\ absorbed' = [absorbed EXCEPT ![Home[t]] = {}]
    /\ Goto(t, "flushed")
    /\ UNCHANGED <<stored, fileLock, open, state, added, mutex, block, flushVars,
                   torn, unkept, silent, abandoned>>

(* Any of these fails.  The err that is set is not the one that is         *)
(* answered (lines 1018, 1029); a failed rename leaves no store.lci.       *)
FlushFails(t) ==
    /\ pc[t] \in {"waiting", "removing", "renaming"}
    /\ silent' = [silent EXCEPT ![Home[t]] = TRUE]
    /\ torn' = (torn \/ (pc[t] = "renaming" /\ listed # {}))
    /\ Goto(t, "flushed")
    /\ UNCHANGED <<disk, memory, mutex, block, flushVars, listed, unkept, absorbed,
                   abandoned>>

(* The locals of threads ts go. *)
Forget(ts) ==
    /\ fresh' = [t \in Threads |-> fresh[t] /\ t \notin ts]
    /\ draft' = [t \in Threads |-> IF t \in ts THEN {} ELSE draft[t]]
    /\ closing' = [t \in Threads |-> closing[t] /\ t \notin ts]

(* The memory of a store goes. *)
Fresh(s) ==
    /\ open' = [open EXCEPT ![s] = FALSE]
    /\ state' = [state EXCEPT ![s] = [b \in Blocks |-> "absent"]]
    /\ added' = [added EXCEPT ![s] = {}]
    /\ memIndex' = [memIndex EXCEPT ![s] = Missing]
    /\ unkept' = [unkept EXCEPT ![s] = {}]
    /\ absorbed' = [absorbed EXCEPT ![s] = {}]
    /\ silent' = [silent EXCEPT ![s] = FALSE]
    /\ abandoned' = [abandoned EXCEPT ![s] = {}]

(* m_Lock is released and the lock file left to l; Dispose then frees the  *)
(* store.                                                                  *)
EndFlush(t, l) ==
    /\ pc[t] = "flushed"
    /\ fileLock' = l
    /\ mutex' = [mutex EXCEPT ![Home[t]] = None]
    /\ Goto(t, "idle")
    /\ Forget({t})
    /\ IF closing[t] THEN Fresh(Home[t]) /\ UNCHANGED <<listed, torn>>
                     ELSE UNCHANGED <<memory, history>>
    /\ UNCHANGED <<stored, index, block>>

(* Mutant of FlushEnd: the lock file stays locked. *)
FlushEnd_KeepsLockFile(t) == EndFlush(t, fileLock)

(* Both locks are released. *)
FlushEnd(t) == EndFlush(t, IF fileLock = Home[t] THEN None ELSE fileLock)

--------------------------------------------------------------------------------
(* A process dies in the middle of anything, and a store is opened again.  *)
Inside(s) == {t \in Threads : Home[t] = s /\ pc[t] # "idle"}

Crash(s) ==
    /\ Fresh(s)
    /\ fileLock' = IF fileLock = s THEN None ELSE fileLock
    /\ mutex' = [mutex EXCEPT ![s] = None]
    /\ pc' = [t \in Threads |-> IF Home[t] = s THEN "idle" ELSE pc[t]]
    /\ block' = [t \in Threads |-> IF Home[t] = s THEN None ELSE block[t]]
    /\ Forget(Inside(s))
    /\ torn' = (torn \/ (listed # {} /\ \E t \in Inside(s) : pc[t] = "renaming"))
    /\ UNCHANGED <<stored, index, listed>>

Open(s) ==
    /\ ~open[s] /\ Inside(s) = {}
    /\ open' = [open EXCEPT ![s] = TRUE]
    /\ UNCHANGED <<disk, state, added, memIndex, mutex, pc, block, flushVars, history>>

--------------------------------------------------------------------------------
Call(t) == \/ \E b \in Blocks : PutStart(t, b) \/ GetStart(t, b)
           \/ IndexKnown(t) \/ IndexStart(t)
           \/ \E last \in BOOLEAN : FlushCall(t, last)

(* What a thread in a call goes on to do. *)
Step(t) == \/ PutCheck(t) \/ PutRename(t) \/ PutRecord(t)
           \/ GetSpin(t) \/ GetRead(t)
           \/ IndexUnlisted(t) \/ IndexLoad(t)
           \/ FlushStart(t) \/ FlushLock(t) \/ FlushRemove(t) \/ FlushRename(t) \/ FlushEnd(t)

Fault(t) == \/ PutFails(t) \/ PutNoMemory(t)
            \/ IndexFails(t) \/ IndexNoMemory(t)
            \/ FlushNoMemory(t) \/ FlushFails(t)

Next == \/ /\ \/ \E t \in Threads : Call(t) \/ Step(t)
              \/ \E s \in Stores : Open(s)
           /\ UNCHANGED faults
        \/ /\ faults < MaxFaults
           /\ faults' = faults + 1
           /\ \/ \E t \in Threads : Fault(t)
              \/ \E s \in Stores : Crash(s)

Spec == Init /\ [][Next]_vars

(* A thread in a call keeps running, and a lock that is free again and     *)
(* again (the spin lock, flock) is got in the end.                         *)
FairSpec == Spec /\ \A t \in Threads : SF_vars(Step(t) /\ UNCHANGED faults)

--------------------------------------------------------------------------------
(* Whatever an index, an index to be, or m_BlockState says is stored has   *)
(* its file, so a Get it leads to finds it (lines 690 to 705, 848).        *)
KnownBlocksStored ==
    /\ Names(index) \subseteq stored
    /\ \A s \in Stores : /\ added[s] \cup Names(memIndex[s]) \subseteq stored
                         /\ \A b \in Blocks : state[s][b] = "stored" => b \in stored
    /\ \A t \in Threads : pc[t] = "reading" => block[t] \in stored

(* No store drops from store.lci what another one listed (lines 116 to     *)
(* 219), unless one died or failed between removing and renaming it.       *)
IndexKeepsBlocks == index # Missing /\ ~torn => listed \subseteq index

(* What a Flush has to list.  A Put of a block with entry 1 in             *)
(* m_BlockState is or was answered 0, at 643 by the Put that wrote it, at  *)
(* 599 by any later one.  Not among them are the blocks whose entry is not *)
(* from a Put (a Get found the file and set it, line 690) and those that a *)
(* Flush without memory, which answered ENOMEM, dropped (lines 1007 to     *)
(* 1014): no Flush of the session lists either of them.                    *)
Owed(s) == {b \in Blocks : state[s][b] = "stored"} \ unkept[s]

(* When Flush answers 0, store.lci lists every block that the session owes *)
(* it, unless an error was dropped (lines 1018, 1029), a rename was        *)
(* interrupted, or GetIndexSync put the block into m_ContentIndex, from    *)
(* m_AddedBlockIndexes or because it found its file, where Flush takes it  *)
(* for written (lines 852 to 878, 1032).  A Put answered 0 at 599 while    *)
(* the entry is 0, as another Put of the block is under way or has failed  *)
(* at 629 or 641, promises nothing.                                        *)
FlushListsBlocks ==
    \A t \in Threads : pc[t] = "flushed" /\ ~silent[Home[t]] /\ ~torn =>
        Owed(Home[t]) \subseteq Names(index) \cup absorbed[Home[t]]

(* Line 226: a file that is there already is not in the index. *)
ExistingBlockUnlisted ==
    [][\A t \in Threads : PutCheck(t) /\ block[t] \in stored =>
           block[t] \notin Names(index)]_vars

(* A Get that found a Put under way ends, unless a Put of the block failed *)
(* in this session or GetIndexSync has left m_Lock locked.                 *)
Wedged(s) == \E t \in Threads : mutex[s] = t /\ pc[t] \notin IndexPCs \cup FlushPCs
EveryGetAnswered ==
    \A t \in Threads :
        (pc[t] = "spinning") ~> \/ pc[t] # "spinning"
                                \/ block[t] \in abandoned[Home[t]]
                                \/ Wedged(Home[t])

(* Every Flush ends, from the wait for m_Lock on, unless a GetIndexSync    *)
(* that failed has left m_Lock locked (lines 813 to 819): then it and all  *)
(* later ones spin for ever.                                               *)
EveryFlushEnds ==
    \A t \in Threads : (pc[t] \in {"entering"} \cup FlushPCs) ~> \/ pc[t] = "idle"
                                                                \/ Wedged(Home[t])
================================================================================

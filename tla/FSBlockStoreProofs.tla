-------------------------- MODULE FSBlockStoreProofs --------------------------
(***************************************************************************)
(* Proofs about FSBlockStore, for any sets of stores, threads and blocks   *)
(* and any number of faults.                                               *)
(***************************************************************************)
EXTENDS FSBlockStore, TLAPS

--------------------------------------------------------------------------------
(* The inductive invariant *)

(* The calls that hold m_Lock across steps, and a Flush that has           *)
(* something to write, or may have.                                        *)
LockPCs == IndexPCs \cup FlushPCs
Writing(t) == pc[t] \in {"removing", "renaming"}
Flushing(t) == Writing(t) \/ pc[t] = "waiting"

(* Where a thread is says what its call has found or done: m_Lock is held  *)
(* for it; an index is loaded by a session without one; a Flush has taken  *)
(* the added blocks, and goes on only with an index; it rewrites store.lci *)
(* under the lock file, from this session's index; and one that dropped no *)
(* error had no index to write or still holds the lock file, with          *)
(* store.lci in place.                                                     *)
Stage(t) ==
    /\ pc[t] \in LockPCs => mutex[Home[t]] = t
    /\ pc[t] \in PutPCs \cup GetPCs => block[t] \in Blocks
    /\ pc[t] \in IndexPCs => memIndex[Home[t]] = Missing
    /\ pc[t] \in FlushPCs => added[Home[t]] = {}
    /\ Flushing(t) => memIndex[Home[t]] # Missing
    /\ Writing(t) => fileLock = Home[t] /\ memIndex[Home[t]] \subseteq draft[t]
    /\ pc[t] = "flushed" /\ ~silent[Home[t]] =>
           memIndex[Home[t]] = Missing \/ (fileLock = Home[t] /\ index # Missing)

(* What is about to be called stored, or listed, has its file. *)
Placed ==
    \A t \in Threads : /\ draft[t] \subseteq stored
                       /\ pc[t] = "written" => block[t] \in stored

(* While store.lci is removed, somebody is about to put one in its place   *)
(* that lists all that was listed before.  What it lists was listed.       *)
Listing ==
    /\ Names(index) \subseteq listed
    /\ ~torn => /\ index = Missing => listed = {} \/ \E t \in Threads : pc[t] = "renaming"
                /\ \A t \in Threads : Writing(t) => listed \subseteq draft[t]

(* Where a block that this session owes Flush is: it waits for a Flush, is *)
(* in a Flush, was listed, or was found or taken by GetIndexSync.          *)
Traced(s, b) ==
    \/ b \in added[s] \cup absorbed[s] \cup listed
    \/ \E t \in Threads : Home[t] = s /\ Flushing(t) /\ fresh[t] /\ b \in memIndex[s]

Accounted(s) ==
    /\ absorbed[s] \subseteq Names(memIndex[s])
    /\ memIndex[s] = Missing => Owed(s) \subseteq added[s]
    /\ ~silent[s] => \A b \in Owed(s) : Traced(s, b)

IInv ==
    /\ TypeOK
    /\ \A t \in Threads : Stage(t)
    /\ Placed
    /\ KnownBlocksStored
    /\ Listing
    /\ IndexKeepsBlocks
    /\ \A s \in Stores : Accounted(s)

--------------------------------------------------------------------------------
(* What steps leave alone *)

LEMMA SameOwed ==
  ASSUME NEW s \in Stores, UNCHANGED <<state, unkept>>
  PROVE  Owed(s)' = Owed(s)
BY DEF Owed

(* A step of store s disturbs the calls and the blocks of no other store:  *)
(* it takes the lock file only when it is free, gives back only its own,   *)
(* and removes store.lci only while it holds it.                           *)
LEMMA OtherStores ==
  ASSUME IInv, NEW s \in Stores,
         \A u \in Threads : Home[u] # s =>
             /\ pc'[u] = pc[u] /\ block'[u] = block[u]
             /\ draft'[u] = draft[u] /\ fresh'[u] = fresh[u],
         \A z \in Stores \ {s} :
             /\ mutex'[z] = mutex[z] /\ memIndex'[z] = memIndex[z] /\ added'[z] = added[z]
             /\ silent'[z] = silent[z] /\ unkept'[z] = unkept[z]
             /\ absorbed'[z] = absorbed[z] /\ state'[z] = state[z],
         listed \subseteq listed',
         fileLock' = fileLock \/ fileLock \in {None, s},
         index' = Missing => index = Missing \/ fileLock = s
  PROVE  /\ \A u \in Threads : Home[u] # s => Stage(u)'
         /\ \A z \in Stores \ {s} : Accounted(z)'
<1>1. ASSUME NEW u \in Threads, Home[u] # s PROVE Stage(u)'
  <2>1. Home[u] \in Stores \ {s} /\ Home[u] # None
    BY <1>1, HomeType, NobodyApart
  <2>2. Stage(u)
    BY DEF IInv
  <2> QED BY <1>1, <2>1, <2>2 DEF Stage, Writing, Flushing
<1>2. ASSUME NEW z \in Stores \ {s} PROVE Accounted(z)'
  <2>1. Accounted(z)
    BY DEF IInv
  <2>2. \A b \in Owed(z) : Traced(z, b) => Traced(z, b)'
    BY DEF Traced, Flushing, Writing
  <2>3. Owed(z)' = Owed(z)
    BY DEF Owed
  <2> QED BY <2>1, <2>2, <2>3 DEF Accounted, Names
<1> QED BY <1>1, <1>2

(* When m_Lock is free or held by t, no other thread of the store is in    *)
(* GetIndexSync or Flush.                                                  *)
LEMMA Alone ==
  ASSUME IInv, NEW t \in Threads, pc[t] \in LockPCs \/ Unlocked(t),
         NEW u \in Threads, u # t, Home[u] = Home[t]
  PROVE  pc[u] \notin LockPCs
<1>1. Stage(t) /\ Stage(u) /\ u # None
  BY NobodyApart DEF IInv
<1> QED BY <1>1 DEF Stage, Unlocked

(* A step of a thread that has m_Lock, or takes it: of the calls and the   *)
(* blocks only those of the thread and of its store are disturbed.         *)
LEMMA LockedStep ==
  ASSUME IInv, NEW t \in Threads, pc[t] \in LockPCs \/ Unlocked(t),
         \A u \in Threads \ {t} :
             /\ pc'[u] = pc[u] /\ block'[u] = block[u]
             /\ draft'[u] = draft[u] /\ fresh'[u] = fresh[u],
         \A z \in Stores \ {Home[t]} :
             /\ mutex'[z] = mutex[z] /\ memIndex'[z] = memIndex[z] /\ added'[z] = added[z]
             /\ silent'[z] = silent[z] /\ unkept'[z] = unkept[z]
             /\ absorbed'[z] = absorbed[z] /\ state'[z] = state[z],
         listed \subseteq listed',
         fileLock' = fileLock \/ fileLock \in {None, Home[t]},
         index' = Missing => index = Missing \/ fileLock = Home[t],
         Stage(t)', Accounted(Home[t])'
  PROVE  /\ \A u \in Threads : Stage(u)'
         /\ \A z \in Stores : Accounted(z)'
<1>1. Home[t] \in Stores
  BY HomeType
<1>2. /\ \A u \in Threads : Home[u] # Home[t] => Stage(u)'
      /\ \A z \in Stores \ {Home[t]} : Accounted(z)'
  BY <1>1, OtherStores
<1>3. ASSUME NEW u \in Threads \ {t}, Home[u] = Home[t] PROVE Stage(u)'
  <2>1. pc[u] \notin LockPCs
    BY <1>3, Alone
  <2>2. Stage(u)
    BY DEF IInv
  <2> QED BY <2>1, <2>2 DEF Stage, LockPCs, Flushing, Writing, FlushPCs
<1> QED BY <1>2, <1>3

(* A step of a Put or Get: it changes no lock and no index, and adds       *)
(* blocks for Flush only when m_Lock is free.                              *)
LEMMA QuietStep ==
  ASSUME IInv, NEW t \in Threads, pc[t] \notin LockPCs, pc'[t] \notin LockPCs,
         \A u \in Threads \ {t} : pc'[u] = pc[u] /\ block'[u] = block[u],
         pc'[t] \in PutPCs \cup GetPCs => block'[t] \in Blocks,
         UNCHANGED <<index, fileLock, memIndex, mutex, fresh, draft, listed, torn,
                     absorbed, silent>>,
         \A s \in Stores : /\ added[s] \subseteq added'[s]
                           /\ mutex[s] # None => added'[s] = added[s]
                           /\ Owed(s)' \subseteq Owed(s) \cup added'[s]
  PROVE  /\ \A u \in Threads : Stage(u)'
         /\ Listing' /\ IndexKeepsBlocks'
         /\ \A s \in Stores : Accounted(s)'
<1>1. ASSUME NEW u \in Threads PROVE Stage(u)'
  <2>1. Stage(u) /\ Home[u] \in Stores /\ u # None
    BY HomeType, NobodyApart DEF IInv
  <2> QED BY <2>1 DEF Stage, LockPCs, Flushing, Writing, FlushPCs, IndexPCs, flushVars
<1>2. Listing'
  BY DEF IInv, Listing, Writing, flushVars, LockPCs, FlushPCs
<1>3. IndexKeepsBlocks'
  BY DEF IInv, IndexKeepsBlocks
<1>4. ASSUME NEW s \in Stores PROVE Accounted(s)'
  <2>1. Accounted(s)
    BY DEF IInv
  <2>2. \A b \in Owed(s) : Traced(s, b) => Traced(s, b)'
    BY DEF Traced, Flushing, Writing, flushVars, LockPCs, FlushPCs
  <2>3. \A b \in added'[s] : Traced(s, b)'
    BY DEF Traced
  <2> QED BY <2>1, <2>2, <2>3 DEF Accounted
<1> QED BY <1>1, <1>2, <1>3, <1>4

--------------------------------------------------------------------------------
(* Puts and Gets *)

(* PutStart: an unknown block is claimed for one Put. *)
LEMMA PutStartStep ==
  ASSUME IInv, faults' \in 0..MaxFaults, NEW t \in Threads, NEW b \in Blocks, PutStart(t, b)
  PROVE  IInv'
<1>1. /\ pc[t] = "idle"
      /\ pc' = [pc EXCEPT ![t] = "checking"]
      /\ block' = [block EXCEPT ![t] = b]
      /\ state' = [state EXCEPT ![Home[t]][b] = "writing"]
      /\ UNCHANGED <<disk, open, added, memIndex, mutex, flushVars, history>>
  BY DEF PutStart, Claim, Idle, Goto
<1>2. /\ \A u \in Threads : Stage(u)'
      /\ Listing' /\ IndexKeepsBlocks'
      /\ \A s \in Stores : Accounted(s)'
  <2>1. /\ pc[t] \notin LockPCs /\ pc'[t] \notin LockPCs /\ block'[t] \in Blocks
        /\ \A u \in Threads \ {t} : pc'[u] = pc[u] /\ block'[u] = block[u]
    BY <1>1 DEF IInv, TypeOK, LockPCs, IndexPCs, FlushPCs
  <2>2. \A s \in Stores : added'[s] = added[s] /\ Owed(s)' \subseteq Owed(s)
    BY <1>1, HomeType DEF Owed, history, IInv, TypeOK
  <2> QED BY <1>1, <2>1, <2>2, QuietStep DEF disk, flushVars, history
<1>3. TypeOK'
  <2>1. state' \in [Stores -> [Blocks -> {"absent", "writing", "stored"}]]
    BY <1>1, HomeType DEF IInv, TypeOK
  <2> QED BY <1>1, <1>2, <2>1 DEF IInv, TypeOK, Stage, Flushing, Writing, PutPCs, FlushPCs,
             disk, flushVars, history
<1>4. Placed'
  BY <1>1 DEF IInv, TypeOK, Placed, disk, flushVars
<1>5. KnownBlocksStored'
  BY <1>1, HomeType DEF IInv, TypeOK, KnownBlocksStored, disk
<1> QED BY <1>2, <1>3, <1>4, <1>5 DEF IInv

(* PutCheck: a file that exists is as good as one that is written. *)
LEMMA PutCheckStep ==
  ASSUME IInv, faults' \in 0..MaxFaults, NEW t \in Threads, PutCheck(t)
  PROVE  IInv'
<1>1. /\ pc[t] = "checking"
      /\ pc' = [pc EXCEPT ![t] = IF block[t] \in stored THEN "written" ELSE "putting"]
      /\ UNCHANGED <<disk, memory, mutex, block, flushVars, history>>
  BY DEF PutCheck, Goto
<1>2. /\ \A u \in Threads : Stage(u)'
      /\ Listing' /\ IndexKeepsBlocks'
      /\ \A s \in Stores : Accounted(s)'
  <2>1. block[t] \in Blocks
    BY <1>1 DEF IInv, Stage, PutPCs
  <2>2. \A s \in Stores : added'[s] = added[s] /\ Owed(s)' = Owed(s)
    BY <1>1, SameOwed DEF memory, history
  <2>3. /\ pc[t] \notin LockPCs /\ pc'[t] \notin LockPCs /\ block'[t] \in Blocks
        /\ \A u \in Threads \ {t} : pc'[u] = pc[u] /\ block'[u] = block[u]
    BY <1>1, <2>1 DEF IInv, TypeOK, LockPCs, IndexPCs, FlushPCs
  <2> QED BY <1>1, <2>2, <2>3, QuietStep DEF disk, memory, flushVars, history
<1>3. TypeOK'
  BY <1>1, <1>2 DEF IInv, TypeOK, Stage, Flushing, Writing, PutPCs, FlushPCs, disk, memory,
     flushVars, history
<1>4. Placed'
  BY <1>1 DEF IInv, TypeOK, Placed, disk, flushVars
<1>5. KnownBlocksStored'
  BY <1>1 DEF IInv, TypeOK, KnownBlocksStored, disk, memory
<1> QED BY <1>2, <1>3, <1>4, <1>5 DEF IInv

(* PutRename: the file of the block appears. *)
LEMMA PutRenameStep ==
  ASSUME IInv, faults' \in 0..MaxFaults, NEW t \in Threads, PutRename(t)
  PROVE  IInv'
<1>1. /\ pc[t] = "putting"
      /\ pc' = [pc EXCEPT ![t] = "written"]
      /\ stored' = stored \cup {block[t]}
      /\ UNCHANGED <<index, fileLock, memory, mutex, block, flushVars, history>>
  BY DEF PutRename, Goto
<1>2. block[t] \in Blocks
  BY <1>1 DEF IInv, Stage, PutPCs
<1>3. /\ \A u \in Threads : Stage(u)'
      /\ Listing' /\ IndexKeepsBlocks'
      /\ \A s \in Stores : Accounted(s)'
  <2>1. \A s \in Stores : added'[s] = added[s] /\ Owed(s)' = Owed(s)
    BY <1>1, SameOwed DEF memory, history
  <2>2. /\ pc[t] \notin LockPCs /\ pc'[t] \notin LockPCs
        /\ \A u \in Threads \ {t} : pc'[u] = pc[u] /\ block'[u] = block[u]
    BY <1>1 DEF IInv, TypeOK, LockPCs, IndexPCs, FlushPCs
  <2> QED BY <1>1, <1>2, <2>1, <2>2, QuietStep DEF memory, flushVars, history
<1>4. TypeOK'
  BY <1>1, <1>2, <1>3 DEF IInv, TypeOK, Stage, Flushing, Writing, PutPCs, FlushPCs, memory,
     flushVars, history
<1>5. Placed'
  BY <1>1 DEF IInv, TypeOK, Placed, flushVars
<1>6. KnownBlocksStored'
  BY <1>1 DEF IInv, TypeOK, KnownBlocksStored, memory
<1> QED BY <1>3, <1>4, <1>5, <1>6 DEF IInv

(* PutFails: the entry is deleted; nothing said that the block is stored. *)
LEMMA PutFailsStep ==
  ASSUME IInv, faults' \in 0..MaxFaults, NEW t \in Threads, PutFails(t)
  PROVE  IInv'
<1>1. /\ pc[t] = "putting"
      /\ pc' = [pc EXCEPT ![t] = "idle"]
      /\ block' = [block EXCEPT ![t] = None]
      /\ state' = [state EXCEPT ![Home[t]][block[t]] = "absent"]
      /\ abandoned' = [abandoned EXCEPT ![Home[t]] = @ \cup {block[t]}]
      /\ UNCHANGED <<disk, open, added, memIndex, mutex, flushVars, listed, torn, unkept,
                     absorbed, silent>>
  BY DEF PutFails, GiveUp, Return, Goto, SetState
<1>2. block[t] \in Blocks /\ Home[t] \in Stores
  BY <1>1, HomeType DEF IInv, Stage, PutPCs
<1>3. /\ \A u \in Threads : Stage(u)'
      /\ Listing' /\ IndexKeepsBlocks'
      /\ \A s \in Stores : Accounted(s)'
  <2>1. \A s \in Stores : added'[s] = added[s] /\ Owed(s)' \subseteq Owed(s)
    BY <1>1, <1>2 DEF Owed, IInv, TypeOK
  <2>2. /\ pc[t] \notin LockPCs /\ pc'[t] \notin LockPCs
        /\ pc'[t] \notin PutPCs \cup GetPCs
        /\ \A u \in Threads \ {t} : pc'[u] = pc[u] /\ block'[u] = block[u]
    BY <1>1 DEF IInv, TypeOK, LockPCs, IndexPCs, FlushPCs, PutPCs, GetPCs
  <2> QED BY <1>1, <2>1, <2>2, QuietStep DEF disk, flushVars
<1>4. TypeOK'
  <2>1. state' \in [Stores -> [Blocks -> {"absent", "writing", "stored"}]]
    BY <1>1, <1>2 DEF IInv, TypeOK
  <2>2. abandoned' \in [Stores -> SUBSET Blocks]
    BY <1>1, <1>2 DEF IInv, TypeOK
  <2> QED BY <1>1, <1>3, <2>1, <2>2 DEF IInv, TypeOK, Stage, Flushing, Writing, FlushPCs,
             disk, flushVars
<1>5. Placed'
  BY <1>1 DEF IInv, TypeOK, Placed, disk, flushVars
<1>6. KnownBlocksStored'
  BY <1>1, <1>2 DEF IInv, TypeOK, KnownBlocksStored, disk
<1> QED BY <1>3, <1>4, <1>5, <1>6 DEF IInv

(* PutNoMemory: an error is answered, and the entry stays 0. *)
LEMMA PutNoMemoryStep ==
  ASSUME IInv, faults' \in 0..MaxFaults, NEW t \in Threads, PutNoMemory(t)
  PROVE  IInv'
<1>1. /\ pc[t] = "written"
      /\ pc' = [pc EXCEPT ![t] = "idle"]
      /\ block' = [block EXCEPT ![t] = None]
      /\ abandoned' = [abandoned EXCEPT ![Home[t]] = @ \cup {block[t]}]
      /\ UNCHANGED <<disk, memory, mutex, flushVars, listed, torn, unkept, absorbed, silent>>
  BY DEF PutNoMemory, Return, Goto
<1>2. block[t] \in Blocks /\ Home[t] \in Stores
  BY <1>1, HomeType DEF IInv, Stage, PutPCs
<1>3. /\ \A u \in Threads : Stage(u)'
      /\ Listing' /\ IndexKeepsBlocks'
      /\ \A s \in Stores : Accounted(s)'
  <2>1. \A s \in Stores : added'[s] = added[s] /\ Owed(s)' = Owed(s)
    BY <1>1, SameOwed DEF memory
  <2>2. /\ pc[t] \notin LockPCs /\ pc'[t] \notin LockPCs
        /\ pc'[t] \notin PutPCs \cup GetPCs
        /\ \A u \in Threads \ {t} : pc'[u] = pc[u] /\ block'[u] = block[u]
    BY <1>1 DEF IInv, TypeOK, LockPCs, IndexPCs, FlushPCs, PutPCs, GetPCs
  <2> QED BY <1>1, <2>1, <2>2, QuietStep DEF disk, memory, flushVars
<1>4. TypeOK'
  <2>1. abandoned' \in [Stores -> SUBSET Blocks]
    BY <1>1, <1>2 DEF IInv, TypeOK
  <2> QED BY <1>1, <1>3, <2>1 DEF IInv, TypeOK, Stage, Flushing, Writing, FlushPCs, disk,
             memory, flushVars
<1>5. Placed'
  BY <1>1 DEF IInv, TypeOK, Placed, disk, flushVars
<1>6. KnownBlocksStored'
  BY <1>1 DEF IInv, TypeOK, KnownBlocksStored, disk, memory
<1> QED BY <1>3, <1>4, <1>5, <1>6 DEF IInv

(* PutRecord: the block has its file and is kept for Flush. *)
LEMMA PutRecordStep ==
  ASSUME IInv, faults' \in 0..MaxFaults, NEW t \in Threads, PutRecord(t)
  PROVE  IInv'
<1>1. /\ pc[t] = "written" /\ mutex[Home[t]] = None
      /\ pc' = [pc EXCEPT ![t] = "idle"]
      /\ block' = [block EXCEPT ![t] = None]
      /\ state' = [state EXCEPT ![Home[t]][block[t]] = "stored"]
      /\ added' = [added EXCEPT ![Home[t]] = @ \cup {block[t]}]
      /\ UNCHANGED <<disk, open, memIndex, mutex, flushVars, history>>
  BY DEF PutRecord, Record, Unlocked, Return, Goto, SetState
<1>2. block[t] \in Blocks /\ Home[t] \in Stores /\ block[t] \in stored
  BY <1>1, HomeType DEF IInv, Stage, PutPCs, Placed
<1>3. /\ \A u \in Threads : Stage(u)'
      /\ Listing' /\ IndexKeepsBlocks'
      /\ \A s \in Stores : Accounted(s)'
  <2>1. \A s \in Stores : /\ added[s] \subseteq added'[s]
                          /\ mutex[s] # None => added'[s] = added[s]
                          /\ Owed(s)' \subseteq Owed(s) \cup added'[s]
    BY <1>1, <1>2 DEF Owed, history, IInv, TypeOK
  <2>2. /\ pc[t] \notin LockPCs /\ pc'[t] \notin LockPCs
        /\ pc'[t] \notin PutPCs \cup GetPCs
        /\ \A u \in Threads \ {t} : pc'[u] = pc[u] /\ block'[u] = block[u]
    BY <1>1 DEF IInv, TypeOK, LockPCs, IndexPCs, FlushPCs, PutPCs, GetPCs
  <2> QED BY <1>1, <2>1, <2>2, QuietStep DEF disk, flushVars, history
<1>4. TypeOK'
  <2>1. state' \in [Stores -> [Blocks -> {"absent", "writing", "stored"}]]
    BY <1>1, <1>2 DEF IInv, TypeOK
  <2>2. added' \in [Stores -> SUBSET Blocks]
    BY <1>1, <1>2 DEF IInv, TypeOK
  <2> QED BY <1>1, <1>3, <2>1, <2>2 DEF IInv, TypeOK, Stage, Flushing, Writing, FlushPCs,
             disk, flushVars, history
<1>5. Placed'
  BY <1>1 DEF IInv, TypeOK, Placed, disk, flushVars
<1>6. KnownBlocksStored'
  BY <1>1, <1>2 DEF IInv, TypeOK, KnownBlocksStored, disk
<1> QED BY <1>3, <1>4, <1>5, <1>6 DEF IInv

(* GetStart: an unknown block becomes known only when its file is there. *)
LEMMA GetStartStep ==
  ASSUME IInv, faults' \in 0..MaxFaults, NEW t \in Threads, NEW b \in Blocks, GetStart(t, b)
  PROVE  IInv'
<1>1. /\ pc[t] = "idle"
      /\ block' = [block EXCEPT ![t] = b]
      /\ UNCHANGED <<disk, open, added, memIndex, mutex, flushVars, listed, torn, absorbed,
                     silent, abandoned>>
  BY DEF GetStart, Idle
<1>2. \/ pc' = [pc EXCEPT ![t] = "spinning"]
      \/ pc' = [pc EXCEPT ![t] = "reading"] /\ state[Home[t]][b] # "writing"
  BY DEF GetStart, Goto
<1>3. /\ state' \in [Stores -> [Blocks -> {"absent", "writing", "stored"}]]
      /\ \A s \in Stores, c \in Blocks :
             state'[s][c] = state[s][c] \/ (c = b /\ b \in stored)
      /\ unkept' \in [Stores -> SUBSET Blocks]
      /\ \A s \in Stores : Owed(s)' \subseteq Owed(s)
  <2>0. Home[t] \in Stores
    BY HomeType
  <2>1. CASE UNCHANGED <<state, unkept>>
    BY <2>1, SameOwed DEF IInv, TypeOK
  <2>2. CASE /\ b \in stored /\ state' = [state EXCEPT ![Home[t]][b] = "stored"]
             /\ unkept' = [unkept EXCEPT ![Home[t]] = @ \cup {b}]
    <3>1. unkept' \in [Stores -> SUBSET Blocks] /\ unkept'[Home[t]] = unkept[Home[t]] \cup {b}
      BY <2>0, <2>2 DEF IInv, TypeOK
    <3>2. \A s \in Stores, c \in Blocks :
              c # b => state'[s][c] = state[s][c]
      BY <2>0, <2>2 DEF IInv, TypeOK
    <3>3. \A s \in Stores \ {Home[t]} : state'[s] = state[s] /\ unkept'[s] = unkept[s]
      BY <2>0, <2>2 DEF IInv, TypeOK
    <3>4. \A s \in Stores : Owed(s)' \subseteq Owed(s)
      BY <3>1, <3>2, <3>3 DEF Owed
    <3> QED BY <2>0, <2>2, <3>1, <3>4 DEF IInv, TypeOK
  <2> QED BY <2>1, <2>2 DEF GetStart
<1>4. /\ \A u \in Threads : Stage(u)'
      /\ Listing' /\ IndexKeepsBlocks'
      /\ \A s \in Stores : Accounted(s)'
  <2>1. /\ pc[t] \notin LockPCs /\ pc'[t] \notin LockPCs /\ block'[t] \in Blocks
        /\ \A u \in Threads \ {t} : pc'[u] = pc[u] /\ block'[u] = block[u]
    BY <1>1, <1>2 DEF IInv, TypeOK, LockPCs, IndexPCs, FlushPCs
  <2>2. \A s \in Stores : added'[s] = added[s] /\ Owed(s)' \subseteq Owed(s)
    BY <1>1, <1>3
  <2> QED BY <1>1, <2>1, <2>2, QuietStep DEF disk, flushVars
<1>5. TypeOK'
  <2>1. pc' \in [Threads -> {"idle", "entering"} \cup PutPCs \cup GetPCs \cup IndexPCs \cup FlushPCs]
    BY <1>2 DEF IInv, TypeOK, GetPCs
  <2> QED BY <1>1, <1>3, <1>4, <2>1 DEF IInv, TypeOK, Stage, Flushing, Writing, FlushPCs,
             disk, flushVars
<1>6. Placed'
  BY <1>1, <1>2 DEF IInv, TypeOK, Placed, disk, flushVars
<1>7. KnownBlocksStored'
  <2>1. \A s \in Stores, c \in Blocks : state'[s][c] = "stored" => c \in stored
    BY <1>3 DEF IInv, KnownBlocksStored
  <2>2. pc'[t] = "reading" => b \in stored
    <3>1. CASE b \in stored
      BY <3>1
    <3>2. CASE b \notin stored
      <4>1. state[Home[t]][b] # "stored"
        BY <1>1, HomeType, <3>2 DEF IInv, TypeOK, KnownBlocksStored
      <4>2. state[Home[t]][b] # "absent"
        BY <3>2 DEF GetStart
      <4>3. state[Home[t]][b] = "writing"
        BY <4>1, <4>2, HomeType DEF IInv, TypeOK
      <4> QED BY <1>2, <4>3 DEF IInv, TypeOK
    <3> QED BY <3>1, <3>2
  <2>3. \A u \in Threads : pc'[u] = "reading" => block'[u] \in stored
    BY <1>1, <1>2, <2>2 DEF IInv, TypeOK, KnownBlocksStored
  <2> QED BY <1>1, <2>1, <2>3 DEF IInv, KnownBlocksStored, disk
<1> QED BY <1>4, <1>5, <1>6, <1>7 DEF IInv

(* GetSpin: the block that was waited for is stored. *)
LEMMA GetSpinStep ==
  ASSUME IInv, faults' \in 0..MaxFaults, NEW t \in Threads, GetSpin(t)
  PROVE  IInv'
<1>1. /\ pc[t] = "spinning" /\ state[Home[t]][block[t]] = "stored"
      /\ pc' = [pc EXCEPT ![t] = "reading"]
      /\ UNCHANGED <<disk, memory, mutex, block, flushVars, history>>
  BY DEF GetSpin, Goto
<1>2. block[t] \in Blocks /\ Home[t] \in Stores
  BY <1>1, HomeType DEF IInv, Stage, GetPCs
<1>3. /\ \A u \in Threads : Stage(u)'
      /\ Listing' /\ IndexKeepsBlocks'
      /\ \A s \in Stores : Accounted(s)'
  <2>1. \A s \in Stores : added'[s] = added[s] /\ Owed(s)' = Owed(s)
    BY <1>1, SameOwed DEF memory, history
  <2>2. /\ pc[t] \notin LockPCs /\ pc'[t] \notin LockPCs /\ block'[t] \in Blocks
        /\ \A u \in Threads \ {t} : pc'[u] = pc[u] /\ block'[u] = block[u]
    BY <1>1, <1>2 DEF IInv, TypeOK, LockPCs, IndexPCs, FlushPCs
  <2> QED BY <1>1, <2>1, <2>2, QuietStep DEF disk, memory, flushVars, history
<1>4. TypeOK'
  BY <1>1, <1>3 DEF IInv, TypeOK, Stage, Flushing, Writing, GetPCs, FlushPCs, disk, memory,
     flushVars, history
<1>5. Placed'
  BY <1>1 DEF IInv, TypeOK, Placed, disk, flushVars
<1>6. KnownBlocksStored'
  <2>1. block[t] \in stored
    BY <1>1, <1>2 DEF IInv, KnownBlocksStored
  <2> QED BY <1>1, <2>1 DEF IInv, TypeOK, KnownBlocksStored, disk, memory
<1> QED BY <1>3, <1>4, <1>5, <1>6 DEF IInv

(* GetRead: the call ends. *)
LEMMA GetReadStep ==
  ASSUME IInv, faults' \in 0..MaxFaults, NEW t \in Threads, GetRead(t)
  PROVE  IInv'
<1>1. /\ pc[t] = "reading"
      /\ pc' = [pc EXCEPT ![t] = "idle"]
      /\ block' = [block EXCEPT ![t] = None]
      /\ UNCHANGED <<disk, memory, mutex, flushVars, history>>
  BY DEF GetRead, Return, Goto
<1>2. /\ \A u \in Threads : Stage(u)'
      /\ Listing' /\ IndexKeepsBlocks'
      /\ \A s \in Stores : Accounted(s)'
  <2>1. \A s \in Stores : added'[s] = added[s] /\ Owed(s)' = Owed(s)
    BY <1>1, SameOwed DEF memory, history
  <2>2. /\ pc[t] \notin LockPCs /\ pc'[t] \notin LockPCs
        /\ pc'[t] \notin PutPCs \cup GetPCs
        /\ \A u \in Threads \ {t} : pc'[u] = pc[u] /\ block'[u] = block[u]
    BY <1>1 DEF IInv, TypeOK, LockPCs, IndexPCs, FlushPCs, PutPCs, GetPCs
  <2> QED BY <1>1, <2>1, <2>2, QuietStep DEF disk, memory, flushVars, history
<1>3. TypeOK'
  BY <1>1, <1>2 DEF IInv, TypeOK, Stage, Flushing, Writing, FlushPCs, disk, memory,
     flushVars, history
<1>4. Placed'
  BY <1>1 DEF IInv, TypeOK, Placed, disk, flushVars
<1>5. KnownBlocksStored'
  BY <1>1 DEF IInv, TypeOK, KnownBlocksStored, disk, memory
<1> QED BY <1>2, <1>3, <1>4, <1>5 DEF IInv

--------------------------------------------------------------------------------
(* GetIndexSync *)

(* IndexKnown: the added blocks go to the index of the session. *)
LEMMA IndexKnownStep ==
  ASSUME IInv, faults' \in 0..MaxFaults, NEW t \in Threads, IndexKnown(t)
  PROVE  IInv'
<1> DEFINE s == Home[t]
<1>1. /\ pc[t] = "idle" /\ mutex[s] = None /\ memIndex[s] # Missing
      /\ memIndex' = [memIndex EXCEPT ![s] = memIndex[s] \cup added[s]]
      /\ added' = [added EXCEPT ![s] = {}]
      /\ absorbed' = [absorbed EXCEPT ![s] = @ \cup added[s]]
      /\ UNCHANGED <<disk, open, state, mutex, pc, block, flushVars, listed, torn, unkept,
                     silent, abandoned>>
  BY DEF IndexKnown, Idle, Unlocked, Absorb, Names
<1>2. s \in Stores /\ memIndex[s] \in SUBSET Blocks /\ added[s] \in SUBSET Blocks
  BY <1>1, HomeType DEF IInv, TypeOK
<1>3. memIndex[s] \cup added[s] # Missing
  BY <1>2, MissingApart
<1>4. Accounted(s)'
  <2>1. Accounted(s)
    BY <1>2 DEF IInv
  <2>2. \A b \in Owed(s) : Traced(s, b) => Traced(s, b)'
    BY <1>1, <1>2 DEF IInv, TypeOK, Traced, Flushing, Writing, flushVars
  <2>3. /\ memIndex'[s] = memIndex[s] \cup added[s] /\ memIndex'[s] # Missing
        /\ absorbed'[s] = absorbed[s] \cup added[s]
        /\ Owed(s)' = Owed(s) /\ silent'[s] = silent[s]
    BY <1>1, <1>2, <1>3, SameOwed DEF IInv, TypeOK
  <2> QED BY <1>1, <2>1, <2>2, <2>3 DEF Accounted, Names
<1>5. /\ \A u \in Threads : Stage(u)'
      /\ \A z \in Stores : Accounted(z)'
  <2>1. Stage(t)'
    BY <1>1 DEF IInv, Stage, LockPCs, IndexPCs, FlushPCs, PutPCs, GetPCs, Flushing, Writing
  <2>2. \A z \in Stores \ {s} : /\ memIndex'[z] = memIndex[z] /\ added'[z] = added[z]
                                /\ absorbed'[z] = absorbed[z]
    BY <1>1, <1>2 DEF IInv, TypeOK
  <2> QED BY <1>1, <1>4, <2>1, <2>2, LockedStep DEF Unlocked, disk, flushVars
<1>6. TypeOK'
  <2>1. /\ memIndex' \in [Stores -> {Missing} \cup SUBSET Blocks]
        /\ added' \in [Stores -> SUBSET Blocks]
        /\ absorbed' \in [Stores -> SUBSET Blocks]
    BY <1>1, <1>2 DEF IInv, TypeOK
  <2> QED BY <1>1, <1>5, <2>1 DEF IInv, TypeOK, Stage, Flushing, Writing, FlushPCs, disk,
             flushVars
<1>7. Placed'
  BY <1>1 DEF IInv, Placed, disk, flushVars
<1>8. KnownBlocksStored'
  BY <1>1, <1>2, <1>3 DEF IInv, TypeOK, KnownBlocksStored, Names, disk
<1>9. Listing' /\ IndexKeepsBlocks'
  BY <1>1 DEF IInv, Listing, IndexKeepsBlocks, Writing, disk, flushVars
<1> QED BY <1>5, <1>6, <1>7, <1>8, <1>9 DEF IInv

(* What a step of GetIndexSync that changes only m_Lock, for t, and where  *)
(* t is leaves true.                                                       *)
LEMMA IndexMoveStep ==
  ASSUME IInv, faults' \in 0..MaxFaults, NEW t \in Threads,
         pc[t] \in LockPCs \/ Unlocked(t), ~Writing(t),
         pc' = [pc EXCEPT ![t] = "locking"] \/ pc' = [pc EXCEPT ![t] = "scanning"]
             \/ pc' = [pc EXCEPT ![t] = "idle"],
         mutex' = [mutex EXCEPT ![Home[t]] = t] \/ mutex' = mutex,
         pc'[t] \in IndexPCs => mutex'[Home[t]] = t /\ memIndex[Home[t]] = Missing,
         pc[t] \notin FlushPCs,
         UNCHANGED <<disk, memory, block, flushVars, history>>
  PROVE  IInv'
<1>1. /\ Home[t] \in Stores
      /\ \A u \in Threads \ {t} : pc'[u] = pc[u]
      /\ pc'[t] \in {"locking", "scanning", "idle"}
      /\ \A z \in Stores \ {Home[t]} : mutex'[z] = mutex[z]
  BY HomeType DEF IInv, TypeOK
<1>2. Stage(t)'
  BY <1>1 DEF Stage, LockPCs, IndexPCs, FlushPCs, PutPCs, GetPCs, Flushing, Writing, memory
<1>3. Accounted(Home[t])'
  <2>1. Accounted(Home[t])
    BY <1>1 DEF IInv
  <2>2. \A b \in Owed(Home[t]) : Traced(Home[t], b) => Traced(Home[t], b)'
    BY <1>1 DEF Traced, Flushing, Writing, FlushPCs, memory, flushVars, history
  <2>3. Owed(Home[t])' = Owed(Home[t])
    BY <1>1, SameOwed DEF memory, history
  <2> QED BY <2>1, <2>2, <2>3 DEF Accounted, memory, history
<1>4. /\ \A u \in Threads : Stage(u)'
      /\ \A z \in Stores : Accounted(z)'
  BY <1>1, <1>2, <1>3, LockedStep DEF disk, memory, flushVars, history
<1>5. TypeOK'
  <2>1. pc' \in [Threads -> {"idle", "entering"} \cup PutPCs \cup GetPCs \cup IndexPCs \cup FlushPCs]
    BY DEF IInv, TypeOK, IndexPCs
  <2>2. mutex' \in [Stores -> Threads \cup {None}]
    BY <1>1 DEF IInv, TypeOK
  <2> QED BY <1>4, <2>1, <2>2 DEF IInv, TypeOK, Stage, Flushing, Writing, FlushPCs, disk,
             memory, flushVars, history
<1>6. Placed'
  BY <1>1 DEF IInv, Placed, disk, flushVars
<1>7. KnownBlocksStored'
  BY <1>1 DEF IInv, KnownBlocksStored, disk, memory
<1>8. Listing' /\ IndexKeepsBlocks'
  BY <1>1 DEF IInv, Listing, IndexKeepsBlocks, Writing, disk, flushVars, history
<1> QED BY <1>4, <1>5, <1>6, <1>7, <1>8 DEF IInv

(* IndexStart: m_Lock is taken. *)
LEMMA IndexStartStep ==
  ASSUME IInv, faults' \in 0..MaxFaults, NEW t \in Threads, IndexStart(t)
  PROVE  IInv'
<1>1. Home[t] \in Stores
  BY HomeType
<1>2. /\ pc[t] = "idle" /\ Unlocked(t) /\ memIndex[Home[t]] = Missing
      /\ mutex' = [mutex EXCEPT ![Home[t]] = t] /\ mutex'[Home[t]] = t
      /\ pc' = [pc EXCEPT ![t] = "locking"]
      /\ UNCHANGED <<disk, memory, block, flushVars, history>>
  BY <1>1 DEF IndexStart, Idle, Goto, IInv, TypeOK
<1> QED BY <1>2, IndexMoveStep DEF Writing, FlushPCs

(* IndexFails: m_Lock stays held by a thread whose call is over. *)
LEMMA IndexFailsStep ==
  ASSUME IInv, faults' \in 0..MaxFaults, NEW t \in Threads, IndexFails(t)
  PROVE  IInv'
<1>1. /\ pc[t] \in IndexPCs
      /\ pc' = [pc EXCEPT ![t] = "idle"] /\ pc'[t] = "idle"
      /\ UNCHANGED <<disk, memory, mutex, block, flushVars, history>>
  BY DEF IndexFails, Goto, IInv, TypeOK
<1> QED BY <1>1, IndexMoveStep DEF Writing, IndexPCs, FlushPCs, LockPCs

(* IndexUnlisted: without store.lci the block files are scanned. *)
LEMMA IndexUnlistedStep ==
  ASSUME IInv, faults' \in 0..MaxFaults, NEW t \in Threads, IndexUnlisted(t)
  PROVE  IInv'
<1>1. /\ pc[t] = "locking"
      /\ pc' = [pc EXCEPT ![t] = "scanning"]
      /\ UNCHANGED <<disk, memory, mutex, block, flushVars, history>>
  BY DEF IndexUnlisted, Goto
<1>2. mutex[Home[t]] = t /\ memIndex[Home[t]] = Missing
  BY <1>1 DEF IInv, Stage, LockPCs, IndexPCs
<1> QED BY <1>1, <1>2, IndexMoveStep DEF Writing, IndexPCs, FlushPCs, LockPCs

(* What is read from disk is an index of blocks that are stored, and the   *)
(* session that reads it had none.                                         *)
LEMMA OnDiskFacts ==
  ASSUME IInv, NEW t \in Threads, OnDisk(t)
  PROVE  /\ pc[t] \in IndexPCs /\ Home[t] \in Stores
         /\ DiskIndex(t) \in SUBSET Blocks
         /\ DiskIndex(t) \subseteq stored
         /\ memIndex[Home[t]] = Missing /\ absorbed[Home[t]] = {}
         /\ Scanned(t) \subseteq DiskIndex(t) /\ Scanned(t) \in SUBSET Blocks
         /\ DiskIndex(t) \subseteq listed \cup Scanned(t)
<1>1. pc[t] \in IndexPCs /\ Home[t] \in Stores
  BY HomeType DEF OnDisk, IndexPCs
<1>2. DiskIndex(t) \in SUBSET Blocks /\ DiskIndex(t) \subseteq stored
  BY DEF OnDisk, DiskIndex, IInv, TypeOK, KnownBlocksStored, Names
<1>3. memIndex[Home[t]] = Missing
  BY <1>1 DEF IInv, Stage
<1>4. absorbed[Home[t]] = {}
  BY <1>1, <1>3 DEF IInv, Accounted, Names
<1>5. Scanned(t) \subseteq DiskIndex(t) /\ DiskIndex(t) \subseteq listed \cup Scanned(t)
  BY DEF OnDisk, DiskIndex, Scanned, IInv, Listing, Names
<1> QED BY <1>1, <1>2, <1>3, <1>4, <1>5

(* What Known makes of m_BlockState is right when the index is of stored   *)
(* blocks.                                                                 *)
LEMMA KnownState ==
  ASSUME IInv, NEW s \in Stores, NEW i \in SUBSET Blocks, i \subseteq stored, Known(s, i)
  PROVE  /\ state' \in [Stores -> [Blocks -> {"absent", "writing", "stored"}]]
         /\ \A z \in Stores, b \in Blocks : state'[z][b] = "stored" => b \in stored
         /\ \A z \in Stores \ {s} : state'[z] = state[z]
         /\ \A b \in Blocks : state'[s][b] = "stored" => state[s][b] = "stored" \/ b \in i
<1>1. /\ state' = [state EXCEPT ![s] = [b \in Blocks |-> IF b \in i THEN "stored"
                                                                   ELSE state[s][b]]]
      /\ state \in [Stores -> [Blocks -> {"absent", "writing", "stored"}]]
      /\ \A z \in Stores, b \in Blocks : state[z][b] = "stored" => b \in stored
  BY DEF Known, IInv, TypeOK, KnownBlocksStored
<1>2. \A z \in Stores, b \in Blocks :
          state'[z][b] = IF z = s /\ b \in i THEN "stored" ELSE state[z][b]
  BY <1>1
<1>3. \A z \in Stores, b \in Blocks : state'[z][b] = "stored" => b \in stored
  BY <1>1, <1>2
<1>4. state' \in [Stores -> [Blocks -> {"absent", "writing", "stored"}]]
  BY <1>1
<1>5. \A z \in Stores \ {s} : state'[z] = state[z]
  BY <1>1
<1> QED BY <1>2, <1>3, <1>4, <1>5

(* The end of the first GetIndexSync: m_Lock is released, and the session  *)
(* has an index and knows its blocks.  IndexLoad takes the added blocks    *)
(* into it, IndexNoMemory none.                                            *)
LEMMA IndexEndStep ==
  ASSUME IInv, faults' \in 0..MaxFaults, NEW t \in Threads, OnDisk(t),
         NEW taken \in SUBSET added[Home[t]],
         memIndex' = [memIndex EXCEPT ![Home[t]] = DiskIndex(t) \cup taken],
         added' = [added EXCEPT ![Home[t]] = @ \ taken],
         absorbed' = [absorbed EXCEPT ![Home[t]] = @ \cup taken \cup Scanned(t)],
         Known(Home[t], DiskIndex(t)),
         mutex' = [mutex EXCEPT ![Home[t]] = None],
         pc' = [pc EXCEPT ![t] = "idle"],
         UNCHANGED <<disk, open, block, flushVars, listed, torn, unkept, silent, abandoned>>
  PROVE  IInv'
<1> DEFINE s == Home[t]
<1>1. /\ pc[t] \in IndexPCs /\ s \in Stores
      /\ DiskIndex(t) \in SUBSET Blocks /\ DiskIndex(t) \subseteq stored
      /\ memIndex[s] = Missing /\ absorbed[s] = {}
      /\ Scanned(t) \subseteq DiskIndex(t) /\ Scanned(t) \in SUBSET Blocks
      /\ DiskIndex(t) \subseteq listed \cup Scanned(t)
  BY OnDiskFacts
<1>2. /\ added[s] \in SUBSET Blocks /\ taken \in SUBSET Blocks
      /\ taken \subseteq stored
  BY <1>1 DEF IInv, TypeOK, KnownBlocksStored
<1>3. PICK i : i = DiskIndex(t) \cup taken
  OBVIOUS
<1>4. i \in SUBSET Blocks /\ i # Missing /\ i \subseteq stored
  BY <1>1, <1>2, <1>3, MissingApart
<1>5. /\ memIndex' = [memIndex EXCEPT ![s] = i] /\ memIndex'[s] = i
      /\ \A z \in Stores \ {s} : memIndex'[z] = memIndex[z]
      /\ memIndex' \in [Stores -> {Missing} \cup SUBSET Blocks]
  BY <1>1, <1>3, <1>4 DEF IInv, TypeOK
<1>6. /\ added'[s] = added[s] \ taken /\ absorbed'[s] = taken \cup Scanned(t)
      /\ \A z \in Stores \ {s} : added'[z] = added[z] /\ absorbed'[z] = absorbed[z]
      /\ added' \in [Stores -> SUBSET Blocks] /\ absorbed' \in [Stores -> SUBSET Blocks]
  BY <1>1, <1>2 DEF IInv, TypeOK
<1>7. pc'[t] = "idle" /\ \A u \in Threads \ {t} : pc'[u] = pc[u]
  BY DEF IInv, TypeOK
<1>8. /\ state' \in [Stores -> [Blocks -> {"absent", "writing", "stored"}]]
      /\ \A z \in Stores, b \in Blocks : state'[z][b] = "stored" => b \in stored
      /\ \A z \in Stores \ {s} : state'[z] = state[z]
      /\ Owed(s)' \subseteq Owed(s) \cup DiskIndex(t)
  BY <1>1, KnownState DEF Owed
<1>9. Accounted(s)'
  <2>1. Accounted(s)
    BY <1>1 DEF IInv
  <2>2. \A b \in Owed(s) : Traced(s, b) => Traced(s, b)'
    <3>1. \A b \in Owed(s) : Traced(s, b) => b \in added[s] \cup absorbed[s] \cup listed
      BY <1>1, Alone DEF Traced, Flushing, Writing, LockPCs, IndexPCs, FlushPCs
    <3> QED BY <1>1, <1>6, <3>1 DEF Traced
  <2>3. \A b \in DiskIndex(t) : Traced(s, b)'
    BY <1>1, <1>6 DEF Traced
  <2>4. absorbed'[s] \subseteq memIndex'[s] /\ memIndex'[s] # Missing
    BY <1>1, <1>3, <1>4, <1>5, <1>6
  <2> QED BY <1>8, <2>1, <2>2, <2>3, <2>4 DEF Accounted, Names
<1>10. /\ \A u \in Threads : Stage(u)'
      /\ \A z \in Stores : Accounted(z)'
  <2>1. Stage(t)'
    BY <1>7 DEF Stage, LockPCs, IndexPCs, FlushPCs, PutPCs, GetPCs, Flushing, Writing
  <2>2. \A z \in Stores \ {s} : mutex'[z] = mutex[z]
    BY <1>1 DEF IInv, TypeOK
  <2> QED BY <1>1, <1>5, <1>6, <1>7, <1>8, <1>9, <2>1, <2>2, LockedStep DEF LockPCs, disk, flushVars
<1>11. TypeOK'
  <2>1. mutex' \in [Stores -> Threads \cup {None}]
    BY <1>1 DEF IInv, TypeOK
  <2>2. pc' \in [Threads -> {"idle", "entering"} \cup PutPCs \cup GetPCs \cup IndexPCs \cup FlushPCs]
    BY DEF IInv, TypeOK
  <2> QED BY <1>5, <1>6, <1>8, <1>10, <2>1, <2>2 DEF IInv, TypeOK, Stage, Flushing, Writing,
             FlushPCs, disk, flushVars
<1>12. Placed'
  BY <1>7 DEF IInv, Placed, disk, flushVars
<1>13. KnownBlocksStored'
  <2>1. \A z \in Stores : added'[z] \cup Names(memIndex'[z]) \subseteq stored
    BY <1>2, <1>4, <1>5, <1>6 DEF IInv, KnownBlocksStored, Names
  <2> QED BY <1>7, <1>8, <2>1 DEF IInv, KnownBlocksStored, Names, disk
<1>14. Listing' /\ IndexKeepsBlocks'
  BY <1>1, <1>7 DEF IInv, Listing, IndexKeepsBlocks, Writing, IndexPCs, disk, flushVars
<1> QED BY <1>10, <1>11, <1>12, <1>13, <1>14 DEF IInv

(* IndexLoad: the index comes from disk. *)
LEMMA IndexLoadStep ==
  ASSUME IInv, faults' \in 0..MaxFaults, NEW t \in Threads, IndexLoad(t)
  PROVE  IInv'
<1>1. added' = [added EXCEPT ![Home[t]] = @ \ added[Home[t]]]
  BY HomeType DEF IndexLoad, Absorb, IInv, TypeOK
<1> QED BY <1>1, IndexEndStep DEF IndexLoad, Absorb, Goto

(* IndexNoMemory: the index comes from disk, and nothing is added to it. *)
LEMMA IndexNoMemoryStep ==
  ASSUME IInv, faults' \in 0..MaxFaults, NEW t \in Threads, IndexNoMemory(t)
  PROVE  IInv'
<1>1. Home[t] \in Stores /\ {} \in SUBSET added[Home[t]] /\ DiskIndex(t) \cup {} = DiskIndex(t)
  BY HomeType
<1>2. /\ added' = [added EXCEPT ![Home[t]] = @ \ {}]
      /\ absorbed' = [absorbed EXCEPT ![Home[t]] = @ \cup {} \cup Scanned(t)]
  BY <1>1 DEF IndexNoMemory, IInv, TypeOK
<1> QED BY <1>1, <1>2, IndexEndStep DEF IndexNoMemory, Goto

--------------------------------------------------------------------------------
(* Flush *)

(* FlushCall: the call waits for m_Lock. *)
LEMMA FlushCallStep ==
  ASSUME IInv, faults' \in 0..MaxFaults, NEW t \in Threads, NEW last \in BOOLEAN,
         FlushCall(t, last)
  PROVE  IInv'
<1>1. /\ pc[t] = "idle" /\ Home[t] \in Stores
      /\ open' = [open EXCEPT ![Home[t]] = ~last]
      /\ closing' = [closing EXCEPT ![t] = last]
      /\ pc' = [pc EXCEPT ![t] = "entering"]
      /\ UNCHANGED <<disk, state, added, memIndex, mutex, block, fresh, draft, history>>
  BY HomeType DEF FlushCall, Idle, Goto
<1>2. /\ \A u \in Threads : Stage(u)'
      /\ Listing' /\ IndexKeepsBlocks'
      /\ \A s \in Stores : Accounted(s)'
  <2>1. \A s \in Stores : added'[s] = added[s] /\ Owed(s)' = Owed(s)
    BY <1>1, SameOwed DEF history
  <2>2. /\ pc[t] \notin LockPCs /\ pc'[t] \notin LockPCs
        /\ pc'[t] \notin PutPCs \cup GetPCs
        /\ \A u \in Threads \ {t} : pc'[u] = pc[u] /\ block'[u] = block[u]
    BY <1>1 DEF IInv, TypeOK, LockPCs, IndexPCs, FlushPCs, PutPCs, GetPCs
  <2> QED BY <1>1, <2>1, <2>2, QuietStep DEF disk, history
<1>3. TypeOK'
  <2>1. open' \in [Stores -> BOOLEAN] /\ closing' \in [Threads -> BOOLEAN]
    BY <1>1 DEF IInv, TypeOK
  <2> QED BY <1>1, <1>2, <2>1 DEF IInv, TypeOK, Stage, Flushing, Writing, FlushPCs, disk,
             history
<1>4. Placed'
  BY <1>1 DEF IInv, TypeOK, Placed, disk
<1>5. KnownBlocksStored'
  BY <1>1 DEF IInv, TypeOK, KnownBlocksStored, disk
<1> QED BY <1>2, <1>3, <1>4, <1>5 DEF IInv

(* The start of a Flush: m_Lock is taken; the session's index becomes i,   *)
(* which has all the added blocks but those that are dropped.              *)
LEMMA FlushBeginStep ==
  ASSUME IInv, faults' \in 0..MaxFaults, NEW t \in Threads, Begin(t),
         NEW i \in {Missing} \cup SUBSET Blocks, NEW dropped \in SUBSET Blocks,
         Names(memIndex[Home[t]]) \subseteq Names(i), Names(i) \subseteq stored,
         memIndex[Home[t]] # Missing => i # Missing,
         added[Home[t]] \ dropped \subseteq Names(i),
         memIndex' = [memIndex EXCEPT ![Home[t]] = i],
         unkept' = [unkept EXCEPT ![Home[t]] = @ \cup dropped],
         pc' = [pc EXCEPT ![t] = IF i = Missing THEN "flushed" ELSE "waiting"],
         UNCHANGED <<disk, open, state, block, draft, closing, listed, torn, absorbed, silent,
                     abandoned>>
  PROVE  IInv'
<1> DEFINE s == Home[t]
<1>1. /\ pc[t] = "entering" /\ Unlocked(t) /\ s \in Stores
      /\ fresh' = [fresh EXCEPT ![t] = added[s] # {}]
      /\ added' = [added EXCEPT ![s] = {}]
      /\ mutex' = [mutex EXCEPT ![s] = t]
  BY HomeType DEF Begin
<1>2. /\ memIndex'[s] = i /\ added'[s] = {} /\ mutex'[s] = t
      /\ unkept'[s] = unkept[s] \cup dropped /\ Owed(s)' = Owed(s) \ dropped
      /\ \A z \in Stores \ {s} : /\ memIndex'[z] = memIndex[z] /\ added'[z] = added[z]
                                 /\ mutex'[z] = mutex[z] /\ unkept'[z] = unkept[z]
  BY <1>1 DEF Owed, IInv, TypeOK
<1>3. /\ pc'[t] = IF i = Missing THEN "flushed" ELSE "waiting"
      /\ fresh'[t] <=> added[s] # {}
      /\ \A u \in Threads \ {t} : pc'[u] = pc[u] /\ fresh'[u] = fresh[u]
  BY <1>1 DEF IInv, TypeOK
<1>4. Stage(t)'
  BY <1>2, <1>3 DEF Stage, PutPCs, GetPCs, IndexPCs, FlushPCs, LockPCs, Flushing, Writing
<1>5. Accounted(s)'
  <2>1. Accounted(s)
    BY <1>1 DEF IInv
  <2>2. absorbed[s] \subseteq Names(i)
    BY <2>1 DEF Accounted
  <2>3. i = Missing => Owed(s) \ dropped \subseteq {}
    BY <2>1 DEF Accounted, Names
  <2>4. ASSUME NEW b \in Owed(s) \ dropped, Traced(s, b) PROVE Traced(s, b)'
    <3>1. b \in added[s] \cup absorbed[s] \cup listed
      BY <1>1, <2>4, Alone DEF Traced, Flushing, Writing, LockPCs, FlushPCs
    <3>2. CASE b \in added[s]
      <4>1. b \in Names(i) /\ i # Missing /\ b \in i
        BY <2>4, <3>2 DEF Names
      <4> QED BY <1>2, <1>3, <3>2, <4>1 DEF Traced, Flushing
    <3> QED BY <3>1, <3>2 DEF Traced
  <2> QED BY <1>2, <2>1, <2>2, <2>3, <2>4 DEF Accounted, Names
<1>6. /\ \A u \in Threads : Stage(u)'
      /\ \A z \in Stores : Accounted(z)'
  BY <1>1, <1>2, <1>3, <1>4, <1>5, LockedStep DEF disk
<1>7. TypeOK'
  <2>1. /\ memIndex' \in [Stores -> {Missing} \cup SUBSET Blocks]
        /\ added' \in [Stores -> SUBSET Blocks]
        /\ unkept' \in [Stores -> SUBSET Blocks]
        /\ mutex' \in [Stores -> Threads \cup {None}]
    BY <1>1 DEF IInv, TypeOK
  <2>2. fresh' \in [Threads -> BOOLEAN]
    BY <1>1 DEF IInv, TypeOK
  <2>3. pc' \in [Threads -> {"idle", "entering"} \cup PutPCs \cup GetPCs \cup IndexPCs \cup FlushPCs]
    BY DEF IInv, TypeOK, FlushPCs
  <2> QED BY <1>6, <2>1, <2>2, <2>3 DEF IInv, TypeOK, Stage, Flushing, Writing, FlushPCs, disk
<1>8. Placed'
  BY <1>3 DEF IInv, Placed, disk
<1>9. KnownBlocksStored'
  <2>1. \A z \in Stores : added'[z] \cup Names(memIndex'[z]) \subseteq stored
    BY <1>2 DEF IInv, KnownBlocksStored, Names
  <2> QED BY <1>3, <2>1 DEF IInv, KnownBlocksStored, Names, disk
<1>10. Listing' /\ IndexKeepsBlocks'
  BY <1>1, <1>3 DEF IInv, Listing, IndexKeepsBlocks, Writing, disk
<1> QED BY <1>6, <1>7, <1>8, <1>9, <1>10 DEF IInv

(* FlushStart: the added blocks go to the session's index. *)
LEMMA FlushStartStep ==
  ASSUME IInv, faults' \in 0..MaxFaults, NEW t \in Threads, FlushStart(t)
  PROVE  IInv'
<1> DEFINE s == Home[t]
<1>1. /\ s \in Stores /\ added[s] \in SUBSET Blocks
      /\ memIndex[s] \in {Missing} \cup SUBSET Blocks
      /\ added[s] \cup Names(memIndex[s]) \subseteq stored
  BY HomeType DEF IInv, TypeOK, KnownBlocksStored
<1>2. PICK i : i = IF added[s] = {} THEN memIndex[s] ELSE Names(memIndex[s]) \cup added[s]
  OBVIOUS
<1>3. /\ i \in {Missing} \cup SUBSET Blocks
      /\ Names(i) = Names(memIndex[s]) \cup added[s]
      /\ memIndex[s] # Missing => i # Missing
  BY <1>1, <1>2, MissingApart DEF Names
<1>4. /\ Begin(t)
      /\ memIndex' = [memIndex EXCEPT ![s] = i]
      /\ pc' = [pc EXCEPT ![t] = IF i = Missing THEN "flushed" ELSE "waiting"]
      /\ UNCHANGED <<disk, open, state, block, draft, closing, history>>
  BY <1>2 DEF FlushStart, Goto
<1>5. unkept' = [unkept EXCEPT ![s] = @ \cup {}]
  BY <1>1, <1>4 DEF history, IInv, TypeOK
<1>6. {} \in SUBSET Blocks /\ added[s] \ {} \subseteq Names(i) /\ Names(i) \subseteq stored
  BY <1>1, <1>3
<1> QED BY <1>3, <1>4, <1>5, <1>6, FlushBeginStep DEF history

(* FlushNoMemory: the added blocks are dropped. *)
LEMMA FlushNoMemoryStep ==
  ASSUME IInv, faults' \in 0..MaxFaults, NEW t \in Threads, FlushNoMemory(t)
  PROVE  IInv'
<1> DEFINE s == Home[t]
<1>1. /\ s \in Stores /\ added[s] \in SUBSET Blocks
      /\ memIndex[s] \in {Missing} \cup SUBSET Blocks
      /\ Names(memIndex[s]) \subseteq stored
  BY HomeType DEF IInv, TypeOK, KnownBlocksStored
<1>2. /\ Begin(t)
      /\ unkept' = [unkept EXCEPT ![s] = @ \cup added[s]]
      /\ pc' = [pc EXCEPT ![t] = IF memIndex[s] = Missing THEN "flushed" ELSE "waiting"]
      /\ UNCHANGED <<disk, open, state, memIndex, block, draft, closing, listed, torn,
                     absorbed, silent, abandoned>>
  BY DEF FlushNoMemory, Goto
<1>3. memIndex' = [memIndex EXCEPT ![s] = memIndex[s]]
  BY <1>1, <1>2 DEF IInv, TypeOK
<1>4. added[s] \ added[s] \subseteq Names(memIndex[s])
  OBVIOUS
<1> QED BY <1>1, <1>2, <1>3, <1>4, FlushBeginStep

(* FlushLock: with the lock file, the temporary file is written when there *)
(* is something to write; it lists what store.lci lists, and this          *)
(* session's index.                                                        *)
LEMMA FlushLockStep ==
  ASSUME IInv, faults' \in 0..MaxFaults, NEW t \in Threads, FlushLock(t)
  PROVE  IInv'
<1> DEFINE s == Home[t]
<1>1. /\ pc[t] = "waiting" /\ fileLock = None /\ fileLock' = s
      /\ s \in Stores /\ s # None
      /\ mutex[s] = t /\ added[s] = {} /\ memIndex[s] # Missing
      /\ memIndex[s] \in SUBSET Blocks /\ memIndex[s] \subseteq stored
      /\ UNCHANGED <<stored, index, memory, mutex, block, fresh, closing, history>>
  BY HomeType, NobodyApart DEF FlushLock, WriteDraft, IInv, TypeOK, Stage, LockPCs, FlushPCs,
     Flushing, KnownBlocksStored, Names
<1>2. PICK d : d = memIndex[s] \cup Names(index)
  OBVIOUS
<1>3. /\ d \in SUBSET Blocks /\ d \subseteq stored
      /\ memIndex[s] \subseteq d
      /\ ~torn => listed \subseteq d
  <2>1. \A u \in Threads : pc[u] # "renaming"
    BY <1>1, HomeType, NobodyApart DEF IInv, Stage, Writing
  <2>2. ~torn => listed \subseteq Names(index)
    BY <2>1 DEF IInv, Listing, IndexKeepsBlocks, Names
  <2> QED BY <1>1, <1>2, <2>2 DEF IInv, TypeOK, KnownBlocksStored, Names
<1>4. /\ \A u \in Threads \ {t} : pc'[u] = pc[u] /\ draft'[u] = draft[u]
      /\ \/ pc'[t] \in {"removing", "renaming"} /\ draft'[t] = d
         \/ /\ pc'[t] = "flushed" /\ index # Missing /\ ~fresh[t]
            /\ draft'[t] = draft[t]
      /\ draft' \in [Threads -> SUBSET Blocks]
      /\ pc' \in [Threads -> {"idle", "entering"} \cup PutPCs \cup GetPCs \cup IndexPCs \cup FlushPCs]
  <2>1. CASE fresh[t] \/ index = Missing
    <3>1. draft' = [draft EXCEPT ![t] = d]
      BY <1>2, <2>1 DEF FlushLock, WriteDraft
    <3>2. pc' = [pc EXCEPT ![t] = IF index = Missing THEN "renaming" ELSE "removing"]
      BY <2>1 DEF FlushLock, WriteDraft, Goto
    <3> QED BY <1>3, <3>1, <3>2 DEF IInv, TypeOK, FlushPCs
  <2>2. CASE ~(fresh[t] \/ index = Missing)
    <3>1. draft' = draft /\ pc' = [pc EXCEPT ![t] = "flushed"]
      BY <2>2 DEF FlushLock, WriteDraft, Goto
    <3> QED BY <2>2, <3>1 DEF IInv, TypeOK, FlushPCs
  <2> QED BY <2>1, <2>2
<1>5. Stage(t)'
  BY <1>1, <1>3, <1>4 DEF Stage, PutPCs, GetPCs, IndexPCs, FlushPCs, LockPCs, Flushing, Writing,
     memory
<1>6. Accounted(s)'
  <2>1. Accounted(s)
    BY <1>1 DEF IInv
  <2>2. ASSUME NEW b \in Owed(s), Traced(s, b) PROVE Traced(s, b)'
    <3>1. CASE b \in added[s] \cup absorbed[s] \cup listed
      BY <1>1, <3>1 DEF Traced, memory, history
    <3>2. CASE \E u \in Threads : Home[u] = s /\ Flushing(u) /\ fresh[u] /\ b \in memIndex[s]
      <4>1. fresh[t] /\ b \in memIndex[s]
        BY <1>1, <3>2, Alone DEF Flushing, Writing, LockPCs, FlushPCs
      <4> QED BY <1>1, <1>4, <4>1 DEF Traced, Flushing, Writing, memory
    <3> QED BY <2>2, <3>1, <3>2 DEF Traced
  <2>3. Owed(s)' = Owed(s)
    BY <1>1, SameOwed DEF memory, history
  <2> QED BY <1>1, <2>1, <2>2, <2>3 DEF Accounted, memory, history
<1>7. /\ \A u \in Threads : Stage(u)'
      /\ \A z \in Stores : Accounted(z)'
  <2>1. pc[t] \in LockPCs
    BY <1>1 DEF LockPCs, FlushPCs
  <2> QED BY <1>1, <1>4, <1>5, <1>6, <2>1, LockedStep DEF memory, history
<1>8. TypeOK'
  BY <1>1, <1>4, <1>7 DEF IInv, TypeOK, Stage, Flushing, Writing, FlushPCs, memory, history
<1>9. Placed'
  BY <1>1, <1>3, <1>4 DEF IInv, Placed
<1>10. KnownBlocksStored'
  BY <1>1, <1>4 DEF IInv, KnownBlocksStored, memory
<1>11. Listing' /\ IndexKeepsBlocks'
  BY <1>1, <1>3, <1>4 DEF IInv, Listing, IndexKeepsBlocks, Writing, history
<1> QED BY <1>7, <1>8, <1>9, <1>10, <1>11 DEF IInv

(* Only one Flush of all stores rewrites store.lci at a time. *)
LEMMA OneWriter ==
  ASSUME IInv, NEW t \in Threads, Writing(t), NEW u \in Threads, u # t
  PROVE  ~Writing(u)
<1>1. fileLock = Home[t] /\ pc[t] \in LockPCs
  BY DEF IInv, Stage, Writing, LockPCs, FlushPCs
<1>2. Writing(u) => fileLock = Home[u] /\ pc[u] \in LockPCs
  BY DEF IInv, Stage, Writing, LockPCs, FlushPCs
<1> QED BY <1>1, <1>2, Alone

(* FlushRemove: store.lci goes, and its successor lists all it listed. *)
LEMMA FlushRemoveStep ==
  ASSUME IInv, faults' \in 0..MaxFaults, NEW t \in Threads, FlushRemove(t)
  PROVE  IInv'
<1> DEFINE s == Home[t]
<1>1. /\ pc[t] = "removing" /\ index' = Missing
      /\ pc' = [pc EXCEPT ![t] = "renaming"] /\ pc'[t] = "renaming"
      /\ \A u \in Threads \ {t} : pc'[u] = pc[u]
      /\ UNCHANGED <<stored, fileLock, memory, mutex, block, flushVars, history>>
  BY DEF FlushRemove, Goto, IInv, TypeOK
<1>2. pc[t] \in LockPCs /\ Writing(t) /\ s \in Stores /\ fileLock = s
  BY <1>1, HomeType DEF IInv, Stage, LockPCs, FlushPCs, Writing
<1>3. Stage(t)'
  BY <1>1 DEF IInv, Stage, PutPCs, GetPCs, IndexPCs, FlushPCs, LockPCs, Flushing, Writing,
     memory, flushVars
<1>4. Accounted(s)'
  <2>1. Accounted(s)
    BY <1>2 DEF IInv
  <2>2. \A b \in Owed(s) : Traced(s, b) => Traced(s, b)'
    BY <1>1 DEF Traced, Flushing, Writing, memory, flushVars, history
  <2>3. Owed(s)' = Owed(s)
    BY <1>1, <1>2, SameOwed DEF memory, history
  <2> QED BY <1>1, <2>1, <2>2, <2>3 DEF Accounted, memory, history
<1>5. /\ \A u \in Threads : Stage(u)'
      /\ \A z \in Stores : Accounted(z)'
  BY <1>1, <1>2, <1>3, <1>4, LockedStep DEF memory, flushVars, history
<1>6. TypeOK'
  BY <1>1, <1>5 DEF IInv, TypeOK, Stage, Flushing, Writing, FlushPCs, memory, flushVars, history
<1>7. Placed'
  BY <1>1 DEF IInv, Placed, flushVars
<1>8. KnownBlocksStored'
  BY <1>1 DEF IInv, KnownBlocksStored, Names, memory
<1>9. Listing' /\ IndexKeepsBlocks'
  BY <1>1, <1>2 DEF IInv, Listing, IndexKeepsBlocks, Writing, Names, flushVars, history
<1> QED BY <1>5, <1>6, <1>7, <1>8, <1>9 DEF IInv

(* FlushRename: the temporary file is the new store.lci, and its index     *)
(* that of the session.                                                    *)
LEMMA FlushRenameStep ==
  ASSUME IInv, faults' \in 0..MaxFaults, NEW t \in Threads, FlushRename(t)
  PROVE  IInv'
<1> DEFINE s == Home[t]
<1>1. /\ pc[t] = "renaming" /\ index' = draft[t] /\ listed' = listed \cup draft[t]
      /\ memIndex' = [memIndex EXCEPT ![s] = draft[t]]
      /\ absorbed' = [absorbed EXCEPT ![s] = {}]
      /\ pc' = [pc EXCEPT ![t] = "flushed"] /\ pc'[t] = "flushed"
      /\ \A u \in Threads \ {t} : pc'[u] = pc[u]
      /\ UNCHANGED <<stored, fileLock, open, state, added, mutex, block, flushVars,
                     torn, unkept, silent, abandoned>>
  BY DEF FlushRename, Goto, IInv, TypeOK
<1>2. /\ pc[t] \in LockPCs /\ Writing(t) /\ s \in Stores /\ fileLock = s
      /\ mutex[s] = t /\ added[s] = {}
      /\ memIndex[s] # Missing /\ memIndex[s] \subseteq draft[t]
  BY <1>1, HomeType DEF IInv, Stage, LockPCs, FlushPCs, Writing, Flushing
<1>3. draft[t] \in SUBSET Blocks /\ draft[t] # Missing /\ draft[t] \subseteq stored
  BY MissingApart DEF IInv, TypeOK, Placed
<1>4. /\ memIndex'[s] = draft[t] /\ absorbed'[s] = {}
      /\ \A z \in Stores \ {s} : memIndex'[z] = memIndex[z] /\ absorbed'[z] = absorbed[z]
  BY <1>1, <1>2 DEF IInv, TypeOK
<1>5. Stage(t)'
  BY <1>1, <1>2, <1>3, <1>4 DEF Stage, PutPCs, GetPCs, IndexPCs, FlushPCs, LockPCs, Flushing,
     Writing
<1>6. Accounted(s)'
  <2>1. Accounted(s)
    BY <1>2 DEF IInv
  <2>2. absorbed[s] \subseteq draft[t]
    BY <1>2, <2>1 DEF Accounted, Names
  <2>3. \A b \in Owed(s) : Traced(s, b) => b \in listed'
    BY <1>1, <1>2, <2>2 DEF Traced
  <2>4. Owed(s)' = Owed(s)
    BY <1>1, <1>2, SameOwed
  <2> QED BY <1>1, <1>3, <1>4, <2>1, <2>3, <2>4 DEF Accounted, Traced, Names
<1>7. /\ \A u \in Threads : Stage(u)'
      /\ \A z \in Stores : Accounted(z)'
  BY <1>1, <1>2, <1>3, <1>4, <1>5, <1>6, LockedStep DEF flushVars
<1>8. TypeOK'
  <2>1. /\ memIndex' \in [Stores -> {Missing} \cup SUBSET Blocks]
        /\ absorbed' \in [Stores -> SUBSET Blocks]
    BY <1>1, <1>3 DEF IInv, TypeOK
  <2> QED BY <1>1, <1>3, <1>7, <2>1 DEF IInv, TypeOK, Stage, Flushing, Writing, FlushPCs,
             flushVars
<1>9. Placed'
  BY <1>1 DEF IInv, Placed, flushVars
<1>10. KnownBlocksStored'
  BY <1>1, <1>3, <1>4 DEF IInv, KnownBlocksStored, Names
<1>11. Listing' /\ IndexKeepsBlocks'
  <2>1. \A u \in Threads : ~Writing(u)'
    BY <1>1, <1>2, OneWriter DEF Writing
  <2>2. ~torn => listed \subseteq draft[t]
    BY <1>2 DEF IInv, Listing
  <2> QED BY <1>1, <1>3, <2>1, <2>2 DEF Listing, IndexKeepsBlocks, Names
<1> QED BY <1>7, <1>8, <1>9, <1>10, <1>11 DEF IInv

(* FlushFails: the error is dropped, and store.lci may be gone. *)
LEMMA FlushFailsStep ==
  ASSUME IInv, faults' \in 0..MaxFaults, NEW t \in Threads, FlushFails(t)
  PROVE  IInv'
<1> DEFINE s == Home[t]
<1>1. /\ pc[t] \in {"waiting", "removing", "renaming"}
      /\ silent' = [silent EXCEPT ![s] = TRUE]
      /\ torn' = (torn \/ (pc[t] = "renaming" /\ listed # {}))
      /\ pc' = [pc EXCEPT ![t] = "flushed"] /\ pc'[t] = "flushed"
      /\ \A u \in Threads \ {t} : pc'[u] = pc[u]
      /\ UNCHANGED <<disk, memory, mutex, block, flushVars, listed, unkept, absorbed,
                     abandoned>>
  BY DEF FlushFails, Goto, IInv, TypeOK
<1>2. pc[t] \in LockPCs /\ s \in Stores /\ Stage(t) /\ Accounted(s)
  BY <1>1, HomeType DEF IInv, LockPCs, FlushPCs
<1>3. silent'[s] = TRUE /\ \A z \in Stores \ {s} : silent'[z] = silent[z]
  BY <1>1, <1>2 DEF IInv, TypeOK
<1>4. Stage(t)'
  BY <1>1, <1>2, <1>3 DEF Stage, PutPCs, GetPCs, IndexPCs, FlushPCs, LockPCs, Flushing,
     Writing, memory
<1>5. Accounted(s)'
  <2>1. Owed(s)' = Owed(s)
    BY <1>1, <1>2, SameOwed DEF memory
  <2> QED BY <1>1, <1>2, <1>3, <2>1 DEF Accounted, memory
<1>6. /\ \A u \in Threads : Stage(u)'
      /\ \A z \in Stores : Accounted(z)'
  BY <1>1, <1>2, <1>3, <1>4, <1>5, LockedStep DEF disk, memory, flushVars
<1>7. TypeOK'
  <2>1. silent' \in [Stores -> BOOLEAN] /\ torn' \in BOOLEAN
    BY <1>1 DEF IInv, TypeOK
  <2> QED BY <1>1, <1>6, <2>1 DEF IInv, TypeOK, Stage, Flushing, Writing, FlushPCs, disk,
             memory, flushVars
<1>8. Placed'
  BY <1>1 DEF IInv, Placed, disk, flushVars
<1>9. KnownBlocksStored'
  BY <1>1 DEF IInv, KnownBlocksStored, disk, memory
<1>10. Listing' /\ IndexKeepsBlocks'
  <2>1. ~torn' => ~torn /\ (pc[t] = "renaming" => listed = {})
    BY <1>1
  <2> QED BY <1>1, <2>1 DEF IInv, Listing, IndexKeepsBlocks, Writing, disk, flushVars
<1> QED BY <1>6, <1>7, <1>8, <1>9, <1>10 DEF IInv

--------------------------------------------------------------------------------
(* The end of a session *)

(* Types of the memory and of the history of stores, when only s loses     *)
(* its own or nothing.                                                     *)
MemoryOfOne(s) ==
    /\ open' \in [Stores -> BOOLEAN]
    /\ state' \in [Stores -> [Blocks -> {"absent", "writing", "stored"}]]
    /\ added' \in [Stores -> SUBSET Blocks]
    /\ memIndex' \in [Stores -> {Missing} \cup SUBSET Blocks]
    /\ unkept' \in [Stores -> SUBSET Blocks]
    /\ absorbed' \in [Stores -> SUBSET Blocks]
    /\ silent' \in [Stores -> BOOLEAN]
    /\ abandoned' \in [Stores -> SUBSET Blocks]
    /\ \A z \in Stores \ {s} : /\ memIndex'[z] = memIndex[z] /\ added'[z] = added[z]
                               /\ silent'[z] = silent[z] /\ unkept'[z] = unkept[z]
                               /\ absorbed'[z] = absorbed[z] /\ state'[z] = state[z]
    /\ \A z \in Stores : /\ added'[z] \cup Names(memIndex'[z]) \subseteq stored
                         /\ \A b \in Blocks : state'[z][b] = "stored" => b \in stored

(* A store whose memory goes knows nothing, and the others what they knew. *)
LEMMA FreshMemory ==
  ASSUME IInv, NEW s \in Stores, Fresh(s)
  PROVE  MemoryOfOne(s) /\ Owed(s)' = {} /\ absorbed'[s] = {}
<1>1. /\ open' \in [Stores -> BOOLEAN]
      /\ silent' \in [Stores -> BOOLEAN]
      /\ abandoned' \in [Stores -> SUBSET Blocks]
      /\ \A z \in Stores \ {s} : silent'[z] = silent[z]
  BY DEF Fresh, IInv, TypeOK
<1>2. /\ state' \in [Stores -> [Blocks -> {"absent", "writing", "stored"}]]
      /\ \A z \in Stores, b \in Blocks : state'[z][b] = "stored" => state[z][b] = "stored"
      /\ \A z \in Stores \ {s} : state'[z] = state[z]
      /\ Owed(s)' = {}
  BY DEF Fresh, Owed, IInv, TypeOK
<1>3. /\ added' \in [Stores -> SUBSET Blocks]
      /\ memIndex' \in [Stores -> {Missing} \cup SUBSET Blocks]
      /\ added'[s] = {} /\ memIndex'[s] = Missing
      /\ \A z \in Stores \ {s} : memIndex'[z] = memIndex[z] /\ added'[z] = added[z]
  BY DEF Fresh, IInv, TypeOK
<1>4. /\ unkept' \in [Stores -> SUBSET Blocks]
      /\ absorbed' \in [Stores -> SUBSET Blocks]
      /\ absorbed'[s] = {}
      /\ \A z \in Stores \ {s} : unkept'[z] = unkept[z] /\ absorbed'[z] = absorbed[z]
  BY DEF Fresh, IInv, TypeOK
<1>5. \A z \in Stores : added'[z] \cup Names(memIndex'[z]) \subseteq stored
  BY <1>3 DEF IInv, KnownBlocksStored, Names
<1>6. \A z \in Stores, b \in Blocks : state'[z][b] = "stored" => b \in stored
  BY <1>2 DEF IInv, KnownBlocksStored
<1> QED BY <1>1, <1>2, <1>3, <1>4, <1>5, <1>6 DEF MemoryOfOne

(* The invariant depends on neither open nor the number of faults, but for *)
(* their types.                                                            *)
LEMMA SameButOpen ==
  ASSUME IInv, faults' \in 0..MaxFaults, open' \in [Stores -> BOOLEAN],
         UNCHANGED <<disk, state, added, memIndex, mutex, pc, block, flushVars, history>>
  PROVE  IInv'
<1>1. TypeOK'
  BY DEF IInv, TypeOK, disk, flushVars, history
<1>2. \A t \in Threads : Stage(t)'
  BY DEF IInv, Stage, Flushing, Writing, disk, flushVars, history
<1>3. Placed' /\ KnownBlocksStored'
  BY DEF IInv, Placed, KnownBlocksStored, disk, flushVars
<1>4. Listing' /\ IndexKeepsBlocks'
  BY DEF IInv, Listing, IndexKeepsBlocks, Writing, disk, flushVars, history
<1>5. ASSUME NEW s \in Stores PROVE Accounted(s)'
  <2>1. \A b \in Owed(s) : Traced(s, b) => Traced(s, b)'
    BY DEF Traced, Flushing, Writing, flushVars, history
  <2>2. Owed(s)' = Owed(s)
    BY SameOwed DEF history
  <2> QED BY <2>1, <2>2 DEF IInv, Accounted, history
<1> QED BY <1>1, <1>2, <1>3, <1>4, <1>5 DEF IInv

(* FlushEnd: both locks are free, and after Dispose the store's memory is  *)
(* gone.                                                                   *)
LEMMA FlushEndStep ==
  ASSUME IInv, faults' \in 0..MaxFaults, NEW t \in Threads, FlushEnd(t)
  PROVE  IInv'
<1> DEFINE s == Home[t]
<1>1. /\ pc[t] = "flushed" /\ pc' = [pc EXCEPT ![t] = "idle"] /\ pc'[t] = "idle"
      /\ \A u \in Threads \ {t} : pc'[u] = pc[u]
      /\ mutex' = [mutex EXCEPT ![s] = None]
      /\ fileLock' = IF fileLock = s THEN None ELSE fileLock
      /\ Forget({t})
      /\ \/ Fresh(s) /\ UNCHANGED <<listed, torn>>
         \/ UNCHANGED <<memory, history>>
      /\ UNCHANGED <<stored, index, block>>
  BY DEF FlushEnd, EndFlush, Goto, IInv, TypeOK
<1>2. /\ pc[t] \in LockPCs /\ s \in Stores /\ Accounted(s)
      /\ listed' = listed /\ torn' = torn
  BY <1>1, HomeType DEF IInv, LockPCs, FlushPCs, history
<1>3. /\ \A u \in Threads : draft'[u] \subseteq draft[u]
      /\ \A u \in Threads \ {t} : fresh'[u] = fresh[u] /\ draft'[u] = draft[u]
      /\ fresh' \in [Threads -> BOOLEAN] /\ closing' \in [Threads -> BOOLEAN]
      /\ draft' \in [Threads -> SUBSET Blocks]
  BY <1>1 DEF Forget, IInv, TypeOK
<1>4. MemoryOfOne(s)
  <2>1. CASE Fresh(s)
    BY <1>2, <2>1, FreshMemory
  <2>2. CASE UNCHANGED <<memory, history>>
    BY <2>2 DEF MemoryOfOne, IInv, TypeOK, KnownBlocksStored, memory, history
  <2> QED BY <1>1, <2>1, <2>2
<1>5. /\ mutex' \in [Stores -> Threads \cup {None}]
      /\ \A z \in Stores \ {s} : mutex'[z] = mutex[z]
  BY <1>1, <1>2 DEF IInv, TypeOK
<1>6. Stage(t)'
  BY <1>1 DEF Stage, PutPCs, GetPCs, IndexPCs, FlushPCs, LockPCs, Flushing, Writing
<1>7. Accounted(s)'
  <2>1. CASE Fresh(s)
    BY <1>2, <2>1, FreshMemory DEF Accounted
  <2>2. CASE UNCHANGED <<memory, history>>
    <3>1. \A b \in Owed(s) : Traced(s, b) => Traced(s, b)'
      BY <1>1, <1>3, <2>2 DEF Traced, Flushing, Writing, memory, history
    <3>2. Owed(s)' = Owed(s)
      BY <1>2, <2>2, SameOwed DEF memory, history
    <3> QED BY <1>2, <2>2, <3>1, <3>2 DEF Accounted, memory, history
  <2> QED BY <1>1, <2>1, <2>2
<1>8. /\ \A u \in Threads : Stage(u)'
      /\ \A z \in Stores : Accounted(z)'
  BY <1>1, <1>2, <1>3, <1>4, <1>5, <1>6, <1>7, LockedStep DEF MemoryOfOne
<1>9. TypeOK'
  <2>1. pc' \in [Threads -> {"idle", "entering"} \cup PutPCs \cup GetPCs \cup IndexPCs \cup FlushPCs]
    BY <1>1 DEF IInv, TypeOK
  <2>2. fileLock' \in Stores \cup {None}
    BY <1>1 DEF IInv, TypeOK
  <2> QED BY <1>1, <1>2, <1>3, <1>4, <1>5, <1>8, <2>1, <2>2 DEF IInv, TypeOK, Stage,
             Flushing, Writing, FlushPCs, MemoryOfOne
<1>10. Placed'
  BY <1>1, <1>3 DEF IInv, Placed
<1>11. KnownBlocksStored'
  BY <1>1, <1>4 DEF IInv, KnownBlocksStored, MemoryOfOne
<1>12. Listing' /\ IndexKeepsBlocks'
  BY <1>1, <1>2, <1>3 DEF IInv, Listing, IndexKeepsBlocks, Writing
<1> QED BY <1>8, <1>9, <1>10, <1>11, <1>12 DEF IInv

--------------------------------------------------------------------------------
(* Crashes *)

(* Crash: the store's memory, its locks and its calls are gone. *)
LEMMA CrashStep ==
  ASSUME IInv, faults' \in 0..MaxFaults, NEW s \in Stores, Crash(s)
  PROVE  IInv'
<1>1. /\ Fresh(s)
      /\ fileLock' = IF fileLock = s THEN None ELSE fileLock
      /\ mutex' = [mutex EXCEPT ![s] = None]
      /\ pc' = [t \in Threads |-> IF Home[t] = s THEN "idle" ELSE pc[t]]
      /\ block' = [t \in Threads |-> IF Home[t] = s THEN None ELSE block[t]]
      /\ Forget(Inside(s))
      /\ torn' = (torn \/ (listed # {} /\ \E t \in Inside(s) : pc[t] = "renaming"))
      /\ UNCHANGED <<stored, index, listed>>
  BY DEF Crash
<1>2. /\ \A u \in Threads : draft'[u] \subseteq draft[u]
      /\ \A u \in Threads : Home[u] # s => fresh'[u] = fresh[u] /\ draft'[u] = draft[u]
      /\ fresh' \in [Threads -> BOOLEAN] /\ closing' \in [Threads -> BOOLEAN]
      /\ draft' \in [Threads -> SUBSET Blocks]
  BY <1>1 DEF Forget, Inside, IInv, TypeOK
<1>3. MemoryOfOne(s) /\ Owed(s)' = {} /\ absorbed'[s] = {}
  BY <1>1, FreshMemory
<1>4. /\ mutex' \in [Stores -> Threads \cup {None}]
      /\ \A z \in Stores \ {s} : mutex'[z] = mutex[z]
  BY <1>1 DEF IInv, TypeOK
<1>5. /\ \A u \in Threads : Home[u] # s => Stage(u)'
      /\ \A z \in Stores \ {s} : Accounted(z)'
  BY <1>1, <1>2, <1>3, <1>4, OtherStores DEF MemoryOfOne
<1>6. \A u \in Threads : Stage(u)'
  <2>1. ASSUME NEW u \in Threads, Home[u] = s PROVE Stage(u)'
    <3>1. pc'[u] = "idle"
      BY <1>1, <2>1
    <3> QED BY <3>1 DEF Stage, PutPCs, GetPCs, IndexPCs, FlushPCs, LockPCs, Flushing, Writing
  <2> QED BY <1>5, <2>1
<1>7. \A z \in Stores : Accounted(z)'
  BY <1>3, <1>5 DEF Accounted
<1>8. TypeOK'
  <2>1. /\ pc' \in [Threads -> {"idle", "entering"} \cup PutPCs \cup GetPCs \cup IndexPCs \cup FlushPCs]
        /\ block' \in [Threads -> Blocks \cup {None}]
    BY <1>1 DEF IInv, TypeOK
  <2>2. fileLock' \in Stores \cup {None}
    BY <1>1 DEF IInv, TypeOK
  <2>3. torn' \in BOOLEAN
    BY <1>1 DEF IInv, TypeOK
  <2> QED BY <1>1, <1>2, <1>3, <1>4, <1>6, <2>1, <2>2, <2>3 DEF IInv, TypeOK, Stage,
             Flushing, Writing, FlushPCs, MemoryOfOne
<1>9. Placed'
  BY <1>1, <1>2 DEF IInv, Placed
<1>10. KnownBlocksStored'
  BY <1>1, <1>3 DEF IInv, KnownBlocksStored, MemoryOfOne
<1>11. Listing' /\ IndexKeepsBlocks'
  <2>1. ASSUME ~torn' PROVE ~torn
    BY <1>1, <2>1
  <2>2. ASSUME ~torn', listed # {}, NEW t \in Threads, pc[t] = "renaming"
        PROVE  pc'[t] = "renaming"
    BY <1>1, <2>2 DEF Inside
  <2>3. ~torn' /\ index' = Missing =>
            listed' = {} \/ \E t \in Threads : pc'[t] = "renaming"
    BY <1>1, <2>1, <2>2 DEF IInv, Listing
  <2>4. \A t \in Threads : Writing(t)' => Writing(t) /\ draft'[t] = draft[t]
    BY <1>1, <1>2 DEF Writing
  <2> QED BY <1>1, <2>1, <2>3, <2>4 DEF IInv, Listing, IndexKeepsBlocks
<1> QED BY <1>6, <1>7, <1>8, <1>9, <1>10, <1>11 DEF IInv

(* Open: the store accepts calls. *)
LEMMA OpenStep ==
  ASSUME IInv, faults' \in 0..MaxFaults, NEW s \in Stores, Open(s)
  PROVE  IInv'
<1>1. /\ open' = [open EXCEPT ![s] = TRUE]
      /\ UNCHANGED <<disk, state, added, memIndex, mutex, pc, block, flushVars, history>>
  BY DEF Open
<1>2. open' \in [Stores -> BOOLEAN]
  BY <1>1 DEF IInv, TypeOK
<1> QED BY <1>1, <1>2, SameButOpen

--------------------------------------------------------------------------------
(* Init establishes the invariant, and every step keeps it. *)
THEOREM Invariance == Spec => []IInv
<1>1. Init => IInv
  <2> SUFFICES ASSUME Init PROVE IInv
    OBVIOUS
  <2>1. TypeOK
    <3>1. state \in [Stores -> [Blocks -> {"absent", "writing", "stored"}]]
      BY DEF Init
    <3>2. /\ memIndex \in [Stores -> {Missing} \cup SUBSET Blocks]
          /\ added \in [Stores -> SUBSET Blocks]
          /\ unkept \in [Stores -> SUBSET Blocks]
          /\ absorbed \in [Stores -> SUBSET Blocks]
          /\ abandoned \in [Stores -> SUBSET Blocks]
          /\ draft \in [Threads -> SUBSET Blocks]
      BY DEF Init
    <3>3. faults \in 0..MaxFaults
      BY MaxFaultsNatural DEF Init
    <3> QED BY <3>1, <3>2, <3>3 DEF Init, TypeOK, FlushPCs
  <2>2. \A t \in Threads : Stage(t)
    BY DEF Init, Stage, PutPCs, GetPCs, IndexPCs, FlushPCs, LockPCs, Flushing, Writing
  <2>3. Placed /\ Listing /\ IndexKeepsBlocks
    BY DEF Init, Placed, Listing, IndexKeepsBlocks, Writing, Names
  <2>4. KnownBlocksStored
    BY HomeType DEF Init, KnownBlocksStored, Names
  <2>5. \A s \in Stores : Accounted(s)
    BY DEF Init, Accounted, Owed
  <2> QED BY <2>1, <2>2, <2>3, <2>4, <2>5 DEF IInv
<1>2. IInv /\ [Next]_vars => IInv'
  <2> SUFFICES ASSUME IInv, [Next]_vars PROVE IInv'
    OBVIOUS
  <2>1. CASE UNCHANGED vars
    <3>1. UNCHANGED <<disk, open, state, added, memIndex, mutex, pc, block, flushVars,
                      history>> /\ faults' = faults
      BY <2>1 DEF vars, memory
    <3> QED BY <3>1, SameButOpen DEF IInv, TypeOK
  <2>2. CASE Next
    <3>0. faults' \in 0..MaxFaults
      BY <2>2, MaxFaultsNatural DEF Next, IInv, TypeOK
    <3>1. ASSUME NEW t \in Threads, Call(t) PROVE IInv'
      BY <3>0, <3>1, PutStartStep, GetStartStep, IndexKnownStep, IndexStartStep,
         FlushCallStep DEF Call
    <3>2. ASSUME NEW t \in Threads, Step(t) PROVE IInv'
      BY <3>0, <3>2, PutCheckStep, PutRenameStep, PutRecordStep, GetSpinStep, GetReadStep,
         IndexUnlistedStep, IndexLoadStep, FlushStartStep, FlushLockStep, FlushRemoveStep,
         FlushRenameStep, FlushEndStep DEF Step
    <3>3. ASSUME NEW t \in Threads, Fault(t) PROVE IInv'
      BY <3>0, <3>3, PutFailsStep, PutNoMemoryStep, IndexFailsStep, IndexNoMemoryStep,
         FlushFailsStep, FlushNoMemoryStep DEF Fault
    <3> QED BY <2>2, <3>0, <3>1, <3>2, <3>3, CrashStep, OpenStep DEF Next
  <2> QED BY <2>1, <2>2
<1> QED BY <1>1, <1>2, PTL DEF Spec

(* The variables of the store keep their types, and a Flush that has       *)
(* something to write has an index to write.                               *)
THEOREM TypeCorrect == Spec => []TypeOK
BY Invariance, PTL DEF IInv

(* Whatever store.lci, a session's index, or m_BlockState says is stored   *)
(* has its file, whatever other stores do and wherever one of them dies.   *)
THEOREM BlocksCorrect == Spec => []KnownBlocksStored
BY Invariance, PTL DEF IInv

(* store.lci keeps what any store listed, unless a rewriting of it was     *)
(* interrupted.                                                            *)
THEOREM IndexCorrect == Spec => []IndexKeepsBlocks
BY Invariance, PTL DEF IInv

(* A Flush that answers 0 and dropped no error has listed what the session *)
(* owes it: the blocks it calls stored, but those a Get found (690), a     *)
(* Flush without memory dropped (1007 to 1014) or GetIndexSync took or     *)
(* found.                                                                  *)
THEOREM FlushCorrect == Spec => []FlushListsBlocks
<1>1. IInv => FlushListsBlocks
  <2> SUFFICES ASSUME IInv, NEW t \in Threads, pc[t] = "flushed", ~silent[Home[t]], ~torn
               PROVE  Owed(Home[t]) \subseteq Names(index) \cup absorbed[Home[t]]
    BY DEF FlushListsBlocks
  <2>1. /\ Home[t] \in Stores /\ pc[t] \in LockPCs /\ Stage(t) /\ Accounted(Home[t])
    BY HomeType DEF IInv, LockPCs, FlushPCs
  <2>2. added[Home[t]] = {}
    BY <2>1 DEF Stage, FlushPCs
  <2>3. CASE memIndex[Home[t]] = Missing
    BY <2>1, <2>2, <2>3 DEF Accounted
  <2>4. CASE index # Missing
    <3>1. listed \subseteq Names(index)
      BY <2>4 DEF IInv, IndexKeepsBlocks, Names
    <3>2. ASSUME NEW u \in Threads, Home[u] = Home[t] PROVE ~Flushing(u)
      BY <2>1, <3>2, Alone DEF Flushing, Writing, LockPCs, FlushPCs
    <3> QED BY <2>1, <2>2, <3>1, <3>2 DEF Accounted, Traced
  <2> QED BY <2>1, <2>3, <2>4 DEF Stage
<1> QED BY <1>1, Invariance, PTL

================================================================================

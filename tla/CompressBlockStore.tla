-------------------------- MODULE CompressBlockStore --------------------------
(***************************************************************************)
(* lib/compressblockstore/longtail_compressblockstore.c on top of the      *)
(* cache store, as cmd/main.c stacks them.  A block with a compression tag *)
(* is compressed into a block of this store's own before it is put, which  *)
(* must live until the backing store has done with it; a block that is got *)
(* is decompressed into another and the one below disposed of.             *)
(*                                                                         *)
(* The composition: a call this store makes of its backing store is the    *)
(* first step of the cache's call, and the cache's call of OnComplete is   *)
(* answered by the steps of OnPutBackingStoreComplete and                  *)
(* OnGetBackingStoreComplete, before which AnswerReturns and the copy to   *)
(* the local store wait.                                                   *)
(***************************************************************************)
EXTENDS CacheBlockStore

CONSTANT Taggings  \* the sets of requests whose block may be the tagged ones

ASSUME TaggingsType == Taggings \subseteq SUBSET Requests

VARIABLES
    tagged,      \* the requests whose block has a compression tag
    zpending,    \* m_PendingRequestCount
    zflushList,  \* m_PendingAsyncFlushAPIs
    zflushCalls, \* flushes CompleteRequest took and has not called yet
    zflush,      \* where each Flush of this store is
    zcovers,     \* history: the requests in flight when it was called
    zreq,        \* where each request is in this store
    zblock,      \* the compressed block of a Put
    answer,      \* what the caller learned, in order
    holding,     \* the Gets whose caller has a block of the cache
    life         \* whether the stores are disposed of, or the process is gone

zflushVars == <<zflushList, zflushCalls, zflush, zcovers>>
zVars == <<tagged, zpending, zflushVars, zreq, zblock, answer, holding, life>>
vars == <<cacheVars, zVars>>

ZStages == {"idle",
            "called",    \* in the backing store
            "leaving",   \* answered and about to call CompleteRequest
            "refused",   \* the same with an error still to return
            "emptied",   \* as in the cache store
            "unlocking",
            "failing",   \* the error is about to be returned
            "done"}

TypeOK ==
    /\ CacheTypeOK
    /\ tagged \in Taggings
    /\ zpending \in Nat
    /\ zflushList \subseteq Flushes
    /\ zflushCalls \subseteq Flushes
    /\ zflush \in [Flushes -> {"idle", "queued", "done"}]
    /\ zcovers \in [Flushes -> SUBSET Requests]
    /\ zreq \in [Requests -> ZStages]
    /\ zblock \in [Puts -> {"none", "live", "freed"}]
    /\ answer \in [Requests -> Seq(Outcomes)]
    /\ holding \subseteq Gets
    /\ life \in {"up", "compress disposed", "disposed", "crashed"}

Init ==
    /\ CacheInit
    /\ tagged \in Taggings
    /\ zpending = 0
    /\ zflushList = {} /\ zflushCalls = {}
    /\ zflush = [f \in Flushes |-> "idle"]
    /\ zcovers = [f \in Flushes |-> {}]
    /\ zreq = [r \in Requests |-> "idle"]
    /\ zblock = [p \in Puts |-> "none"]
    /\ answer = [r \in Requests |-> <<>>]
    /\ holding = {}
    /\ life = "up"

InFlight == {r \in Requests : zreq[r] \in {"called", "leaving", "refused"}}
ZLockFree == \A r \in Requests : zreq[r] \notin Locked
Step(r, s) == zreq' = [zreq EXCEPT ![r] = s]
Answer(r, e) == answer' = [answer EXCEPT ![r] = Append(@, e)]
Told(r, how) == zreq[r] = "called" /\ told[r] # <<>> /\ told[r][1].by = how

(* CompressBlock fails, or there is no memory for the completion object:   *)
(* lines 167 to 187 of Put, 376 to 383 of Get.                             *)
RequestFails(r) ==
    /\ zreq[r] = "idle"
    /\ Step(r, "done")
    /\ Answer(r, "err")
    /\ UNCHANGED <<cacheVars, tagged, zpending, zflushVars, zblock, holding, life>>

(* CompressBlockStore_PutStoredBlock up to the call at 198. *)
CompressPut(p) ==
    /\ zreq[p] = "idle"
    /\ Step(p, "called")
    /\ zpending' = zpending + 1
    /\ zblock' = IF p \in tagged THEN [zblock EXCEPT ![p] = "live"] ELSE zblock
    /\ PutStoredBlock(p) \/ PutNoMemory(p)
    /\ UNCHANGED <<tagged, zflushVars, answer, holding, life>>

(* Lines 199 to 209: the backing store returns an error.  Without a tag    *)
(* compressed_stored_block is null and disposed of all the same.           *)
BackingRefusesPut(p) ==
    /\ Told(p, "return")
    /\ IF p \in tagged
       THEN /\ zblock' = [zblock EXCEPT ![p] = "freed"]
            /\ Step(p, "refused")
            /\ UNCHANGED life
       ELSE life' = "crashed" /\ UNCHANGED <<zblock, zreq>>
    /\ UNCHANGED <<cacheVars, tagged, zpending, zflushVars, answer, holding>>

(* OnPutBackingStoreComplete, lines 142 to 148. *)
OnPutBackingStoreComplete(p) ==
    /\ Told(p, "call")
    /\ zblock' = IF p \in tagged THEN [zblock EXCEPT ![p] = "freed"] ELSE zblock
    /\ Answer(p, told[p][1].err)
    /\ Step(p, "leaving")
    /\ UNCHANGED <<cacheVars, tagged, zpending, zflushVars, holding, life>>

(* CompressBlockStore_GetStoredBlock up to the call at 391. *)
CompressGet(g) ==
    /\ zreq[g] = "idle"
    /\ Step(g, "called")
    /\ zpending' = zpending + 1
    /\ GetStoredBlock(g) \/ GetNoMemory(g)
    /\ UNCHANGED <<tagged, zflushVars, zblock, answer, holding, life>>

(* Lines 392 to 405. *)
BackingRefusesGet(g) ==
    /\ Told(g, "return")
    /\ Step(g, "refused")
    /\ UNCHANGED <<cacheVars, tagged, zpending, zflushVars, zblock, answer, holding, life>>

(* The block that is got is the cache's when it came from the remote store; *)
(* disposing of any other concerns this model not.                         *)
DisposeBlock(g) ==
    IF refCount[g] > 0
    THEN DisposeCached(g) /\ UNCHANGED <<pending, flushVars, storeVars, item, putVars,
                                         told, ask>>
    ELSE UNCHANGED cacheVars

(* OnGetBackingStoreComplete: an error is passed on; a block without a tag *)
(* is passed on; another is decompressed, which may fail, and disposed of. *)
OnGetBackingStoreComplete(g) ==
    /\ Told(g, "call")
    /\ Step(g, "leaving")
    /\ \/ /\ told[g][1].err = "err"
          /\ Answer(g, "err")
          /\ UNCHANGED <<cacheVars, holding>>
       \/ /\ told[g][1].err = "ok" /\ g \notin tagged
          /\ Answer(g, "ok")
          /\ holding' = holding \cup {g}
          /\ UNCHANGED cacheVars
       \/ /\ told[g][1].err = "ok" /\ g \in tagged
          /\ \E e \in Outcomes : Answer(g, e)
          /\ DisposeBlock(g)
          /\ UNCHANGED holding
    /\ UNCHANGED <<tagged, zpending, zflushVars, zblock, life>>

(* The caller disposes of the block it was given. *)
GiveBack(g) ==
    /\ g \in holding
    /\ holding' = holding \ {g}
    /\ DisposeBlock(g)
    /\ UNCHANGED <<tagged, zpending, zflushVars, zreq, zblock, answer, life>>

(* CompressBlockStore_CompleteRequest, lines 29 and 30: with m_Lock held.  *)
CompressCompleteRequest(r) ==
    /\ zreq[r] \in {"leaving", "refused"} /\ ZLockFree
    /\ zpending' = zpending - 1
    /\ Step(r, IF zpending = 1 THEN "emptied" ELSE "unlocking")
    /\ UNCHANGED <<cacheVars, tagged, zflushVars, zblock, answer, holding, life>>

(* Lines 32 to 35.  A refused request has its error still to return.       *)
CompressUnlock(r) ==
    /\ zreq[r] \in Locked
    /\ Step(r, IF answer[r] = <<>> THEN "failing" ELSE "done")
    /\ IF zreq[r] = "emptied"
       THEN /\ zflushCalls' = zflushCalls \cup zflushList
            /\ zflushList' = {}
       ELSE UNCHANGED <<zflushCalls, zflushList>>
    /\ UNCHANGED <<cacheVars, tagged, zpending, zflush, zcovers, zblock, answer,
                   holding, life>>

(* Lines 209 and 404: the error of a refused request is returned. *)
ReturnError(r) ==
    /\ zreq[r] = "failing"
    /\ Step(r, "done")
    /\ Answer(r, "err")
    /\ UNCHANGED <<cacheVars, tagged, zpending, zflushVars, zblock, holding, life>>

CompressCallFlush(f) ==
    /\ f \in zflushCalls
    /\ zflushCalls' = zflushCalls \ {f}
    /\ zflush' = [zflush EXCEPT ![f] = "done"]
    /\ UNCHANGED <<cacheVars, tagged, zpending, zflushList, zcovers, zreq, zblock, answer,
                   holding, life>>

(* CompressBlockStore_Flush *)
CompressFlush(f) ==
    /\ zflush[f] = "idle" /\ ZLockFree
    /\ zcovers' = [zcovers EXCEPT ![f] = InFlight]
    /\ IF zpending > 0
       THEN /\ zflushList' = zflushList \cup {f}
            /\ zflush' = [zflush EXCEPT ![f] = "queued"]
       ELSE zflush' = [zflush EXCEPT ![f] = "done"] /\ UNCHANGED zflushList
    /\ UNCHANGED <<cacheVars, tagged, zpending, zflushCalls, zreq, zblock, answer, holding,
                   life>>

--------------------------------------------------------------------------------
(* The cache store below, whose caller is this store. *)

CachePut(p) ==
    \/ RemoteRefusesPut(p) \/ PutFails(p) \/ RemoteAcceptsPut(p)
    \/ LocalPutNoMemory(p)
    \/ \E e \in Outcomes : PutRemoteComplete(p, e) \/ PutLocalComplete(p, e)

CacheGet(g) ==
    \/ \E e \in Outcomes : GetLocalComplete(g, e)
    \/ GetLocalMisses(g) \/ GetRemoteNoMemory(g)
    \/ RemoteRefusesGet(g) \/ RemoteAcceptsGet(g) \/ LocalGoesOn(g)
    \/ GetRemoteFails(g) \/ GetRemoteComplete(g)
    \/ zreq[g] = "done" /\ (CopyToLocal(g) \/ CopyNoMemory(g))
    \/ LocalRefusesCopy(g) \/ RemoteGoesOn(g) \/ LocalAcceptsCopy(g)
    \/ \E e \in Outcomes : CopyComplete(g, e)

CacheItem(i) ==
    \/ CompleteRequest(i) \/ Unlock(i)
    \/ zreq[i[1]] = "done" /\ AnswerReturns(i)

(* What goes on without a new call being made.                             *)
RequestGoesOn(r) ==
    \/ CompressCompleteRequest(r) \/ CompressUnlock(r) \/ ReturnError(r)
    \/ r \in Puts /\ (BackingRefusesPut(r) \/ OnPutBackingStoreComplete(r))
    \/ r \in Gets /\ (BackingRefusesGet(r) \/ OnGetBackingStoreComplete(r))
    \/ r \in Puts /\ CachePut(r) /\ UNCHANGED zVars
    \/ r \in Gets /\ CacheGet(r) /\ UNCHANGED zVars
    \/ \E i \in Items : i[1] = r /\ CacheItem(i) /\ UNCHANGED zVars

FlushGoesOn(f) ==
    \/ CompressCallFlush(f)
    \/ CallFlush(f) /\ UNCHANGED zVars

AskGoesOn(a) ==
    /\ AskLocalComplete(a) \/ AskRemoteComplete(a) \/ AskFails(a)
    /\ UNCHANGED zVars

Call ==
    /\ life = "up"
    /\ \/ \E r \in Requests : RequestFails(r)
       \/ \E p \in Puts : CompressPut(p)
       \/ \E g \in Gets : CompressGet(g)
       \/ \E f \in Flushes : CompressFlush(f)
       \/ \E f \in Flushes : Flush(f) /\ UNCHANGED zVars
       \/ \E a \in Asks, want \in SUBSET Hashes : Ask(a, want) /\ UNCHANGED zVars

(* CompressBlockStore_Dispose, once the callers have their answers: it     *)
(* waits for the count to be 0.                                            *)
CompressDispose ==
    /\ life = "up"
    /\ \A r \in Requests : zreq[r] = "idle" \/ answer[r] # <<>>
    /\ \A a \in Asks : ask[a].stage \in {"idle", "done", "failed"}
    /\ zpending = 0
    /\ life' = "compress disposed"
    /\ UNCHANGED <<cacheVars, tagged, zpending, zflushVars, zreq, zblock, answer,
                   holding>>

(* CacheBlockStore_Dispose, of the store below afterwards. *)
CacheDispose ==
    /\ life = "compress disposed"
    /\ pending = 0
    /\ life' = "disposed"
    /\ UNCHANGED <<cacheVars, tagged, zpending, zflushVars, zreq, zblock, answer,
                   holding>>

(* A thread that has counted down and holds m_Lock still uses a store that *)
(* Dispose has freed: it goes on as if it were there, or the process ends. *)
UseFreed ==
    /\ \/ life \in {"compress disposed", "disposed"} /\ ~ZLockFree
       \/ life = "disposed" /\ ~LockFree
    /\ life' = "crashed"
    /\ UNCHANGED <<cacheVars, tagged, zpending, zflushVars, zreq, zblock, answer,
                   holding>>

Next ==
    /\ life # "crashed"
    /\ \/ Call
       \/ \E r \in Requests : RequestGoesOn(r)
       \/ \E g \in Gets : GiveBack(g)
       \/ \E f \in Flushes : FlushGoesOn(f)
       \/ \E a \in Asks : AskGoesOn(a)
       \/ CompressDispose \/ CacheDispose \/ UseFreed

Spec == Init /\ [][Next]_vars

--------------------------------------------------------------------------------
(* Properties *)

(* m_PendingRequestCount of either store is the number of its completions  *)
(* that have not counted down in CompleteRequest: the two of a Put, the up *)
(* to three of a Get.  One that the cache lost on the way to the remote    *)
(* store stays counted for ever.  Dispose polls the count without m_Lock:  *)
(* of a store that is disposed of no completion is left but those between  *)
(* the decrement and the unlock (cache lines 29 to 34, compress lines 30   *)
(* to 35), which find the store freed; this race is the code's, and        *)
(* UseFreed what may come of it.                                           *)
PendingCountsRequests ==
    /\ pending = Cardinality({i \in Items : Counted(i)})
    /\ zpending = Cardinality(InFlight)
    /\ life \in {"compress disposed", "disposed"} => InFlight = {}
    /\ life = "disposed" => \A i \in Items : ~Counted(i)

(* Every call of either store has one outcome: an error it returned or one *)
(* call of OnComplete, never both.  A Put that is answered with success is *)
(* in the remote store, whichever store completed first and whatever the   *)
(* local one said; a Get that is, was in one of them.                      *)
OneTrueOutcome ==
    \A r \in Requests :
        /\ Len(told[r]) <= 1
        /\ Len(answer[r]) <= 1
        /\ zreq[r] = "done" => answer[r] # <<>>
        /\ answer[r] = <<"ok">> =>
             /\ r \in Puts => BlockOf[r] \in remote
             /\ r \in Gets => BlockOf[r] \in local \cup remote

(* The compressed block of a Put lives as long as one of the two stores    *)
(* may read it, unless the cache ran out of memory between them (line 195) *)
(* and returned an error with the remote Put in flight; and it is freed    *)
(* when the Put is over.  A block the cache read has as many references as *)
(* the copy to the local store and the caller have left to give back.      *)
BlocksOutliveTheirUse ==
    /\ \A p \in Puts \cap tagged :
         /\ p \notin starved /\ (\E s \in {"remote", "local"} : item[<<p, s>>] = "called")
              => zblock[p] = "live"
         /\ zreq[p] = "done" => zblock[p] # "live"
    /\ \A g \in Gets :
         LET copying == \/ item[<<g, "remote">>] = "delivering"
                        \/ item[<<g, "copy">>] = "called"
                        \/ item[<<g, "remote">>] = "behind"
             using == \/ item[<<g, "remote">>] # "none" /\ Told(g, "call")
                           /\ told[g][1].err = "ok"
                      \/ item[<<g, "remote">>] # "none" /\ g \in holding
         IN refCount[g] = Cardinality({b \in {1} : copying} \cup {b \in {2} : using})

(* A Flush of either store is completed after every call made before it    *)
(* has its outcome, or is about to return it.                              *)
FlushCovers ==
    \A f \in Flushes :
        /\ flush[f] = "done" => \A r \in covers[f] : told[r] # <<>>
        /\ zflush[f] = "done" =>
             \A r \in zcovers[f] : answer[r] # <<>> \/ zreq[r] = "failing"

(* RetargetContent answers with the blocks of the request that one of the  *)
(* stores has, and leaves out none that was stored when it was called.     *)
RetargetFindsStored ==
    \A a \in Asks : ask[a].stage = "done" =>
        /\ ask[a].had \subseteq ask[a].found
        /\ ask[a].found \subseteq ask[a].want \cap (local \cup remote)

(* No call is left waiting: when nothing can go on, every request is over, *)
(* no block of the cache has a reference but its caller's, and no Flush is *)
(* in a list, unless the cache lost a request or the process has ended.    *)
NothingLeftWaiting ==
    \/ life = "crashed"
    \/ \E r \in Requests : ENABLED RequestGoesOn(r)
    \/ \E f \in Flushes : ENABLED FlushGoesOn(f)
    \/ /\ \A r \in Requests : zreq[r] \in {"idle", "done"}
       /\ \A i \in Items : item[i] \in {"none", "done", "lost"}
       /\ \A g \in Gets \ holding : refCount[g] = 0
       /\ zflushList = {}
       /\ flushList # {} => \E i \in Items : item[i] = "lost"
================================================================================

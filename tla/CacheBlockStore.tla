---------------------------- MODULE CacheBlockStore ----------------------------
(***************************************************************************)
(* lib/cacheblockstore/longtail_cacheblockstore.c: a local store in front  *)
(* of a remote one.  A Put goes to both and is answered by the later of    *)
(* two completions with the remote's result; a Get that the local store    *)
(* cannot serve is read from the remote store, answered, and copied to the *)
(* local store behind the caller's back.                                   *)
(*                                                                         *)
(* An item is one call of one of the two stores with the completion object *)
(* it was given: <<p, "remote">> and <<p, "local">> of a Put, <<g,         *)
(* "local">>, <<g, "remote">> and <<g, "copy">> of a Get.  The two stores  *)
(* are external: they may refuse a call, or accept it and call its         *)
(* OnComplete at any time from then on, before the call returns included.  *)
(* An OnComplete called by the store and one called by this code because   *)
(* the store refused (lines 216 and 549) are the same step.                *)
(*                                                                         *)
(* The callers of this store are left to the module that extends this one: *)
(* an item that has called the caller's OnComplete is "answering" until    *)
(* the caller lets it go on (AnswerReturns).  Error codes are one "err";   *)
(* ENOENT and EACCES of the local store, which send a Get to the remote    *)
(* store, are GetLocalMisses.                                              *)
(***************************************************************************)
EXTENDS Integers, FiniteSets, Sequences

CONSTANTS Puts,     \* calls of PutStoredBlock
          Gets,    \* calls of GetStoredBlock
          Asks,    \* calls of RetargetContent
          Flushes, \* calls of Flush
          Hashes,  \* block hashes
          BlockOf   \* the hash a Put or a Get is about

Requests == Puts \cup Gets
Items == (Puts \X {"remote", "local"}) \cup (Gets \X {"local", "remote", "copy"})

ASSUME PutsGetsApart == Puts \cap Gets = {}
ASSUME RequestsFinite == IsFiniteSet(Puts) /\ IsFiniteSet(Gets)
ASSUME BlockOfType == BlockOf \in [Requests -> Hashes]

VARIABLES
    pending,      \* m_PendingRequestCount
    flushList,    \* m_PendingAsyncFlushAPIs
    flushCalls,   \* flushes CompleteRequest took and has not called yet
    flush,        \* where each Flush is
    local,        \* blocks the local store has
    remote,       \* blocks the remote store has
    item,         \* where the completion object of each item is
    put,          \* where the caller of PutStoredBlock is
    pendingCount, \* m_PendingCount of a Put
    remoteErr,    \* m_RemoteErr of a Put
    refCount,     \* m_RefCount of the CachedStoredBlock of a Get
    told,         \* what the caller of a Put or Get learned, in order, and how
    ask,          \* a RetargetContent: stage, argument, result
    covers,       \* history: the calls that had been made when Flush was called
    starved       \* history: Puts for which line 195 found no memory

flushVars == <<flushList, flushCalls, flush, covers>>
storeVars == <<local, remote>>
putVars == <<put, pendingCount, remoteErr, starved>>
cacheVars == <<pending, flushVars, storeVars, item, putVars, refCount, told, ask>>

Stages == {"none",
           "called",     \* in the store; its OnComplete has not been called
           "answering",  \* its OnComplete is calling the caller's OnComplete
           "delivering", \* the same with a block that is copied afterwards
           "inner",      \* its OnComplete is inside a call of the other store
           "behind",     \* that call was refused and is being completed
           "leaving",    \* its OnComplete is about to call CompleteRequest
           "emptied",    \* it took the count to 0 and holds m_Lock
           "unlocking",  \* it counted down to more than 0 and holds m_Lock
           "done",
           "lost"}       \* its OnComplete returned without CompleteRequest
Locked == {"emptied", "unlocking"}
Outcomes == {"ok", "err"}
Idle == [stage |-> "idle", want |-> {}, found |-> {}, had |-> {}]

CacheTypeOK ==
    /\ pending \in Nat
    /\ flushList \subseteq Flushes
    /\ flushCalls \subseteq Flushes
    /\ flush \in [Flushes -> {"idle", "queued", "done"}]
    /\ covers \in [Flushes -> SUBSET Requests]
    /\ local \subseteq Hashes
    /\ remote \subseteq Hashes
    /\ item \in [Items -> Stages]
    /\ put \in [Puts -> {"idle", "remote", "failing", "returned"}]
    /\ pendingCount \in [Puts -> 0..2]
    /\ remoteErr \in [Puts -> Outcomes]
    /\ starved \subseteq Puts
    /\ refCount \in [Gets -> 0..2]
    /\ told \in [Requests -> Seq([by : {"return", "call"}, err : Outcomes])]
    /\ ask \in [Asks ->
                  [stage : {"idle", "local", "remote", "done", "failed"},
                   want : SUBSET Hashes, found : SUBSET Hashes, had : SUBSET Hashes]]

CacheInit ==
    /\ pending = 0
    /\ flushList = {} /\ flushCalls = {}
    /\ flush = [f \in Flushes |-> "idle"]
    /\ covers = [f \in Flushes |-> {}]
    /\ local \in SUBSET Hashes
    /\ remote \in SUBSET Hashes
    /\ item = [i \in Items |-> "none"]
    /\ put = [p \in Puts |-> "idle"]
    /\ pendingCount = [p \in Puts |-> 0]
    /\ remoteErr = [p \in Puts |-> "err"]
    /\ starved = {}
    /\ refCount = [g \in Gets |-> 0]
    /\ told = [r \in Requests |-> <<>>]
    /\ ask = [a \in Asks |-> Idle]

Counted(i) == item[i] \notin {"none", "done"} \cup Locked

(* m_Lock is taken by CompleteRequest and Flush only. *)
LockFree == \A i \in Items : item[i] \notin Locked

Tell(r, how, e) == told' = [told EXCEPT ![r] = Append(@, [by |-> how, err |-> e])]
Move(i, s) == item' = [item EXCEPT ![i] = s]
Move2(i, s, j, t) == item' = [item EXCEPT ![i] = s, ![j] = t]

--------------------------------------------------------------------------------
(* Counting requests and flushing *)

(* Mutant of CompleteRequest: the count before the decrement is tested. *)
CompleteRequest_OldCount(i) ==
    /\ item[i] = "leaving" /\ LockFree
    /\ pending' = pending - 1
    /\ Move(i, IF pending = 0 THEN "emptied" ELSE "unlocking")
    /\ UNCHANGED <<flushVars, storeVars, putVars, refCount, told, ask>>

(* CacheBlockStore_CompleteRequest, lines 28 and 29: with m_Lock held.     *)
CompleteRequest(i) ==
    /\ item[i] = "leaving" /\ LockFree
    /\ pending' = pending - 1
    /\ Move(i, IF pending = 1 THEN "emptied" ELSE "unlocking")
    /\ UNCHANGED <<flushVars, storeVars, putVars, refCount, told, ask>>

(* Lines 31 to 34: the thread that took the count to 0 takes the flushes   *)
(* too; m_Lock is released.  Dispose, which polls the count without        *)
(* m_Lock, may have freed all of it by now.                                *)
Unlock(i) ==
    /\ item[i] \in Locked
    /\ Move(i, "done")
    /\ IF item[i] = "emptied"
       THEN /\ flushCalls' = flushCalls \cup flushList
            /\ flushList' = {}
       ELSE UNCHANGED <<flushCalls, flushList>>
    /\ UNCHANGED <<pending, flush, covers, storeVars, putVars, refCount, told, ask>>

(* CompleteRequest, lines 35 to 39: a flush it took is completed. *)
CallFlush(f) ==
    /\ f \in flushCalls
    /\ flushCalls' = flushCalls \ {f}
    /\ flush' = [flush EXCEPT ![f] = "done"]
    /\ UNCHANGED <<pending, flushList, covers, storeVars, item, putVars, refCount,
                   told, ask>>

(* The calls of Put and Get that have been made: those of Put returned. *)
Made == {p \in Puts : put[p] = "returned"}
            \cup {g \in Gets : item[<<g, "local">>] # "none"}

(* CacheBlockStore_Flush *)
Flush(f) ==
    /\ flush[f] = "idle" /\ LockFree
    /\ covers' = [covers EXCEPT ![f] = Made]
    /\ IF pending > 0
       THEN flushList' = flushList \cup {f} /\ flush' = [flush EXCEPT ![f] = "queued"]
       ELSE flush' = [flush EXCEPT ![f] = "done"] /\ UNCHANGED flushList
    /\ UNCHANGED <<pending, flushCalls, storeVars, item, putVars, refCount, told, ask>>

(* The caller's OnComplete returns to the completion that called it.       *)
AnswerReturns(i) ==
    /\ item[i] = "answering"
    /\ Move(i, "leaving")
    /\ UNCHANGED <<pending, flushVars, storeVars, putVars, refCount, told, ask>>

--------------------------------------------------------------------------------
(* PutStoredBlock *)

(* Mutant of PutStoredBlock: m_PendingCount starts at 1. *)
PutStoredBlock_One(p) ==
    /\ put[p] = "idle"
    /\ put' = [put EXCEPT ![p] = "remote"]
    /\ pendingCount' = [pendingCount EXCEPT ![p] = 1]
    /\ Move(<<p, "remote">>, "called")
    /\ pending' = pending + 1
    /\ UNCHANGED <<flushVars, storeVars, remoteErr, starved, refCount, told, ask>>

(* Lines 165 to 180: the remote store is called first. *)
PutStoredBlock(p) ==
    /\ put[p] = "idle"
    /\ put' = [put EXCEPT ![p] = "remote"]
    /\ pendingCount' = [pendingCount EXCEPT ![p] = 2]
    /\ Move(<<p, "remote">>, "called")
    /\ pending' = pending + 1
    /\ UNCHANGED <<flushVars, storeVars, remoteErr, starved, refCount, told, ask>>

(* Lines 167 to 174: no completion object. *)
PutNoMemory(p) ==
    /\ put[p] = "idle"
    /\ put' = [put EXCEPT ![p] = "returned"]
    /\ Tell(p, "return", "err")
    /\ UNCHANGED <<pending, flushVars, storeVars, item, pendingCount, remoteErr,
                   starved, refCount, ask>>

(* Lines 183 to 190: the remote store refuses, the request is completed... *)
RemoteRefusesPut(p) ==
    /\ put[p] = "remote"
    /\ item[<<p, "remote">>] = "called"
    /\ put' = [put EXCEPT ![p] = "failing"]
    /\ Move(<<p, "remote">>, "leaving")
    /\ UNCHANGED <<pending, flushVars, storeVars, pendingCount, remoteErr, starved,
                   refCount, told, ask>>

(* ... and the error returned. *)
PutFails(p) ==
    /\ put[p] = "failing"
    /\ item[<<p, "remote">>] = "done"
    /\ put' = [put EXCEPT ![p] = "returned"]
    /\ Tell(p, "return", "err")
    /\ UNCHANGED <<pending, flushVars, storeVars, item, pendingCount, remoteErr,
                   starved, refCount, ask>>

(* Lines 204 to 211: the remote store has accepted, the local one is       *)
(* called; whatever it says, the call returns 0.                           *)
RemoteAcceptsPut(p) ==
    /\ put[p] = "remote"
    /\ put' = [put EXCEPT ![p] = "returned"]
    /\ Move(<<p, "local">>, "called")
    /\ pending' = pending + 1
    /\ UNCHANGED <<flushVars, storeVars, pendingCount, remoteErr, starved, refCount,
                   told, ask>>

(* Lines 195 to 202: no second completion object; the first stays waiting  *)
(* for it.                                                                 *)
LocalPutNoMemory(p) ==
    /\ put[p] = "remote"
    /\ put' = [put EXCEPT ![p] = "returned"]
    /\ starved' = starved \cup {p}
    /\ Tell(p, "return", "err")
    /\ UNCHANGED <<pending, flushVars, storeVars, item, pendingCount, remoteErr,
                   refCount, ask>>

(* One of the two completions counts down; the later one answers. *)
CountDown(i, e) ==
    LET p == i[1] IN
    /\ pendingCount' = [pendingCount EXCEPT ![p] = @ - 1]
    /\ IF pendingCount[p] = 1
       THEN Tell(p, "call", e) /\ Move(i, "answering")
       ELSE UNCHANGED told /\ Move(i, "leaving")

(* PutStoredBlockPutRemoteComplete *)
PutRemoteComplete(p, e) ==
    /\ item[<<p, "remote">>] = "called"
    /\ remoteErr' = [remoteErr EXCEPT ![p] = e]
    /\ CountDown(<<p, "remote">>, e)
    /\ remote' = IF e = "ok" THEN remote \cup {BlockOf[p]} ELSE remote
    /\ UNCHANGED <<pending, flushVars, local, put, starved, refCount, ask>>

(* Mutant of PutLocalComplete: the caller is told the local store's result.*)
PutLocalComplete_OwnError(p, e) ==
    /\ item[<<p, "local">>] = "called"
    /\ CountDown(<<p, "local">>, e)
    /\ local' = IF e = "ok" THEN local \cup {BlockOf[p]} ELSE local
    /\ UNCHANGED <<pending, flushVars, remote, put, remoteErr, starved, refCount, ask>>

(* PutStoredBlockPutLocalComplete: its own error is only logged. *)
PutLocalComplete(p, e) ==
    /\ item[<<p, "local">>] = "called"
    /\ CountDown(<<p, "local">>, remoteErr[p])
    /\ local' = IF e = "ok" THEN local \cup {BlockOf[p]} ELSE local
    /\ UNCHANGED <<pending, flushVars, remote, put, remoteErr, starved, refCount, ask>>

--------------------------------------------------------------------------------
(* GetStoredBlock *)

(* Lines 529 to 551: the local store is called. *)
GetStoredBlock(g) ==
    /\ item[<<g, "local">>] = "none"
    /\ told[g] = <<>>
    /\ Move(<<g, "local">>, "called")
    /\ pending' = pending + 1
    /\ UNCHANGED <<flushVars, storeVars, putVars, refCount, told, ask>>

GetNoMemory(g) ==
    /\ item[<<g, "local">>] = "none"
    /\ told[g] = <<>>
    /\ Tell(g, "return", "err")
    /\ UNCHANGED <<pending, flushVars, storeVars, item, putVars, refCount, ask>>

(* Lines 496 to 512: the local store has the block, or fails with an error *)
(* that is not about its absence.                                          *)
GetLocalComplete(g, e) ==
    /\ item[<<g, "local">>] = "called"
    /\ e = "ok" => BlockOf[g] \in local
    /\ Tell(g, "call", e)
    /\ Move(<<g, "local">>, "answering")
    /\ UNCHANGED <<pending, flushVars, storeVars, putVars, refCount, ask>>

(* Mutant of GetLocalMisses: the read of the remote store is not counted.  *)
GetLocalMisses_NotCounted(g) ==
    /\ item[<<g, "local">>] = "called"
    /\ Move2(<<g, "local">>, "inner", <<g, "remote">>, "called")
    /\ UNCHANGED <<pending, flushVars, storeVars, putVars, refCount, told, ask>>

(* Lines 462 to 482: ENOENT or EACCES; the remote store is called. *)
GetLocalMisses(g) ==
    /\ item[<<g, "local">>] = "called"
    /\ Move2(<<g, "local">>, "inner", <<g, "remote">>, "called")
    /\ pending' = pending + 1
    /\ UNCHANGED <<flushVars, storeVars, putVars, refCount, told, ask>>

(* Lines 466 to 473: the caller is answered, the request never completed.  *)
GetRemoteNoMemory(g) ==
    /\ item[<<g, "local">>] = "called"
    /\ Tell(g, "call", "err")
    /\ Move(<<g, "local">>, "lost")
    /\ UNCHANGED <<pending, flushVars, storeVars, putVars, refCount, ask>>

(* Lines 484 to 492: the remote store refuses; both requests are completed.*)
RemoteRefusesGet(g) ==
    /\ item[<<g, "local">>] = "inner"
    /\ item[<<g, "remote">>] = "called"
    /\ Tell(g, "call", "err")
    /\ Move2(<<g, "local">>, "behind", <<g, "remote">>, "answering")
    /\ UNCHANGED <<pending, flushVars, storeVars, putVars, refCount, ask>>

(* Lines 493 to 495: it accepted. *)
RemoteAcceptsGet(g) ==
    /\ item[<<g, "local">>] = "inner"
    /\ Move(<<g, "local">>, "leaving")
    /\ UNCHANGED <<pending, flushVars, storeVars, putVars, refCount, told, ask>>

LocalGoesOn(g) ==
    /\ item[<<g, "local">>] = "behind"
    /\ item[<<g, "remote">>] = "done"
    /\ Move(<<g, "local">>, "leaving")
    /\ UNCHANGED <<pending, flushVars, storeVars, putVars, refCount, told, ask>>

(* OnGetStoredBlockGetRemoteComplete, lines 402 to 409 and 416 to 427: an  *)
(* error of the store, or no memory for the CachedStoredBlock.             *)
GetRemoteFails(g) ==
    /\ item[<<g, "remote">>] = "called"
    /\ Tell(g, "call", "err")
    /\ Move(<<g, "remote">>, "answering")
    /\ UNCHANGED <<pending, flushVars, storeVars, putVars, refCount, ask>>

(* Mutant of GetRemoteComplete: no reference for the copy. *)
GetRemoteComplete_One(g) ==
    /\ item[<<g, "remote">>] = "called"
    /\ BlockOf[g] \in remote
    /\ refCount' = [refCount EXCEPT ![g] = 1]
    /\ Tell(g, "call", "ok")
    /\ Move(<<g, "remote">>, "delivering")
    /\ UNCHANGED <<pending, flushVars, storeVars, putVars, ask>>

(* Lines 416 and 429: the block has a reference of the caller's and one of *)
(* the copy to come.                                                       *)
GetRemoteComplete(g) ==
    /\ item[<<g, "remote">>] = "called"
    /\ BlockOf[g] \in remote
    /\ refCount' = [refCount EXCEPT ![g] = 2]
    /\ Tell(g, "call", "ok")
    /\ Move(<<g, "remote">>, "delivering")
    /\ UNCHANGED <<pending, flushVars, storeVars, putVars, ask>>

(* CachedStoredBlock_Dispose: the original is freed with the last one. *)
DisposeCached(g) == refCount' = [refCount EXCEPT ![g] = @ - 1]

(* Mutant of CopyToLocal: the copy is not counted. *)
CopyToLocal_NotCounted(g) ==
    /\ item[<<g, "remote">>] = "delivering"
    /\ Move2(<<g, "remote">>, "inner", <<g, "copy">>, "called")
    /\ UNCHANGED <<pending, flushVars, storeVars, putVars, refCount, told, ask>>

(* StoreBlockCopyToLocalCache: the local store is given the block. *)
CopyToLocal(g) ==
    /\ item[<<g, "remote">>] = "delivering"
    /\ Move2(<<g, "remote">>, "inner", <<g, "copy">>, "called")
    /\ pending' = pending + 1
    /\ UNCHANGED <<flushVars, storeVars, putVars, refCount, told, ask>>

(* Lines 369 to 375 and 434 to 443. *)
CopyNoMemory(g) ==
    /\ item[<<g, "remote">>] = "delivering"
    /\ DisposeCached(g)
    /\ Move(<<g, "remote">>, "leaving")
    /\ UNCHANGED <<pending, flushVars, storeVars, putVars, told, ask>>

(* Lines 383 to 392: the request of the copy is completed first. *)
LocalRefusesCopy(g) ==
    /\ item[<<g, "remote">>] = "inner"
    /\ item[<<g, "copy">>] = "called"
    /\ Move2(<<g, "remote">>, "behind", <<g, "copy">>, "leaving")
    /\ UNCHANGED <<pending, flushVars, storeVars, putVars, refCount, told, ask>>

(* Lines 434 to 443. *)
RemoteGoesOn(g) ==
    /\ item[<<g, "remote">>] = "behind"
    /\ item[<<g, "copy">>] = "done"
    /\ DisposeCached(g)
    /\ Move(<<g, "remote">>, "leaving")
    /\ UNCHANGED <<pending, flushVars, storeVars, putVars, told, ask>>

LocalAcceptsCopy(g) ==
    /\ item[<<g, "remote">>] = "inner"
    /\ Move(<<g, "remote">>, "leaving")
    /\ UNCHANGED <<pending, flushVars, storeVars, putVars, refCount, told, ask>>

(* OnGetStoredBlockPutLocalComplete *)
CopyComplete(g, e) ==
    /\ item[<<g, "copy">>] = "called"
    /\ DisposeCached(g)
    /\ local' = IF e = "ok" THEN local \cup {BlockOf[g]} ELSE local
    /\ Move(<<g, "copy">>, "leaving")
    /\ UNCHANGED <<pending, flushVars, remote, putVars, told, ask>>

--------------------------------------------------------------------------------
(* RetargetContent, which is not counted in pending *)

(* CacheBlockStore_RetargetContent: the local store is asked for the       *)
(* blocks in want.  had remembers what either store had by then.           *)
Ask(a, want) ==
    /\ ask[a].stage = "idle"
    /\ ask' = [ask EXCEPT ![a] = [stage |-> "local", want |-> want, found |-> {},
                                  had |-> want \cap (local \cup remote)]]
    /\ UNCHANGED <<pending, flushVars, storeVars, item, putVars, refCount, told>>

(* RetargetLocalContent_..._OnComplete: what the local store has is found; *)
(* if nothing is missing the caller is answered, otherwise the remote      *)
(* store is asked for the rest.                                            *)
AskLocalComplete(a) ==
    LET found == ask[a].want \cap local
        missing == ask[a].want \ found
    IN
    /\ ask[a].stage = "local"
    /\ ask' = [ask EXCEPT ![a].found = found,
                          ![a].stage = IF missing = {} THEN "done" ELSE "remote"]
    /\ UNCHANGED <<pending, flushVars, storeVars, item, putVars, refCount, told>>

(* Mutant of AskRemoteComplete: the remote result replaces the local one.  *)
AskRemoteComplete_Replaces(a) ==
    /\ ask[a].stage = "remote"
    /\ ask' = [ask EXCEPT ![a].found = (ask[a].want \ @) \cap remote,
                          ![a].stage = "done"]
    /\ UNCHANGED <<pending, flushVars, storeVars, item, putVars, refCount, told>>

(* RetargetRemoteContent_..._OnComplete: the two results are put together. *)
AskRemoteComplete(a) ==
    /\ ask[a].stage = "remote"
    /\ ask' = [ask EXCEPT ![a].found = @ \cup ((ask[a].want \ @) \cap remote),
                          ![a].stage = "done"]
    /\ UNCHANGED <<pending, flushVars, storeVars, item, putVars, refCount, told>>

(* Either store fails, by its return value or its completion. *)
AskFails(a) ==
    /\ ask[a].stage \in {"local", "remote"}
    /\ ask' = [ask EXCEPT ![a].stage = "failed"]
    /\ UNCHANGED <<pending, flushVars, storeVars, item, putVars, refCount, told>>

================================================================================

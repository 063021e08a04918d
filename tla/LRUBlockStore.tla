----------------------------- MODULE LRUBlockStore -----------------------------
(***************************************************************************)
(* lib/lrublockstore/longtail_lrublockstore.c: the last m_MaxCount blocks  *)
(* read from the backing store are kept, each with one reference of the    *)
(* cache's own, so that a block whose readers have disposed of it is found *)
(* again.  Evicting a block drops that reference; a block still lent to    *)
(* readers then lives until the last of them disposes of it.               *)
(*                                                                         *)
(* As in ShareBlockStore a request is one call of GetStoredBlock, fetches  *)
(* and blocks are named by the request that owns them, a critical section  *)
(* of m_Lock is one action, and wait lists are sets.  The build without    *)
(* LONGTAIL_ASSERTS is modelled: an assertion is a property, not a step.   *)
(***************************************************************************)
EXTENDS Integers, FiniteSets, SequencesExt

CONSTANTS Requests,   \* calls of GetStoredBlock
          Hashes,     \* block hashes
          Flushes,    \* calls of Flush
          MaxCounts,  \* sizes a cache may be created with
          None        \* no block, no hash

ASSUME MaxCountsPositive == MaxCounts \subseteq Nat \ {0}
ASSUME LRUNoneApart == None \notin Requests \cup Hashes
ASSUME LRURequestsFinite == IsFiniteSet(Requests)

VARIABLES
    disposed,    \* the store itself has been disposed of
    pending,     \* m_PendingRequestCount
    maxCount,    \* m_MaxCount, set when the store is created
    lru,         \* m_LRU: m_StoredBlocks[0 .. m_AllocatedCount - 1]
    blockOf,     \* m_BlockHashToLRUStoredBlock
    waitList,    \* m_BlockHashToCompleteCallbacks; no entry is the empty set
    flushList,   \* m_PendingAsyncFlushAPIs
    refCount,    \* m_RefCount of the block a fetch made
    mem,         \* the memory of that block
    fetch,       \* where the owner of a fetch is
    victim,      \* the block a fetch evicted and has to dispose of
    calls,       \* completions a fetch took off the wait list and has not called
    flushCalls,  \* flushes a fetch took off flushList and has not called
    hash,        \* argument of the call
    req,         \* where the caller of GetStoredBlock is
    got,         \* block the caller has a reference to
    flush,       \* where the caller of Flush is
    told,        \* history: how often the caller learned the outcome
    covers,      \* history: the fetches in flight when Flush was called
    refused,     \* history: fetches the backing store returned an error to
    uaf          \* history: a block was used or freed after it was freed

cacheVars == <<maxCount, lru, blockOf>>
blockVars == <<refCount, mem>>
fetchVars == <<fetch, victim, calls, flushCalls>>
callVars  == <<hash, req, got, told>>
flushVars == <<flushList, flush, covers>>
vars == <<disposed, pending, cacheVars, waitList, blockVars, fetchVars, callVars,
          flushVars, refused, uaf>>

--------------------------------------------------------------------------------
(* States of a fetch beside those of ShareBlockStore: "evicting" has a     *)
(* victim to dispose of, "refreshing" took the victim's count to 1,        *)
(* "again" completed a refused fetch and does so once more, after which it *)
(* is "overdrawn".                                                         *)
FetchStates == {"none", "started", "counted", "evicting", "refreshing",
                "delivering", "failing", "again", "done", "overdrawn",
                "abandoned"}
CountedStates == {"counted", "evicting", "refreshing", "delivering", "failing"}

ReqStates == {"idle", "hit", "waiting", "holding", "refreshing", "failed",
              "released"}
Referring == {"hit", "waiting", "holding"}

TypeOK ==
    /\ disposed \in BOOLEAN
    /\ pending \in Int
    /\ maxCount \in MaxCounts
    /\ lru \in Seq(Requests)
    /\ blockOf \in [Hashes -> Requests \cup {None}]
    /\ waitList \in [Hashes -> SUBSET Requests]
    /\ flushList \in SUBSET Flushes
    /\ refCount \in [Requests -> Nat]
    /\ mem \in [Requests -> {"none", "live", "freed"}]
    /\ fetch \in [Requests -> FetchStates]
    /\ victim \in [Requests -> Requests \cup {None}]
    /\ calls \in [Requests -> SUBSET Requests]
    /\ flushCalls \in [Requests -> SUBSET Flushes]
    /\ hash \in [Requests -> Hashes \cup {None}]
    /\ req \in [Requests -> ReqStates]
    /\ got \in [Requests -> Requests \cup {None}]
    /\ flush \in [Flushes -> {"idle", "queued", "done"}]
    /\ told \in [Requests -> 0..1]
    /\ covers \in [Flushes -> SUBSET Requests]
    /\ refused \in SUBSET Requests
    /\ uaf \in BOOLEAN

Init ==
    /\ disposed = FALSE
    /\ pending = 0
    /\ maxCount \in MaxCounts
    /\ lru = <<>>
    /\ blockOf = [h \in Hashes |-> None]
    /\ waitList = [h \in Hashes |-> {}]
    /\ flushList = {}
    /\ refCount = [r \in Requests |-> 0]
    /\ mem = [r \in Requests |-> "none"]
    /\ fetch = [r \in Requests |-> "none"]
    /\ victim = [r \in Requests |-> None]
    /\ calls = [r \in Requests |-> {}]
    /\ flushCalls = [r \in Requests |-> {}]
    /\ hash = [r \in Requests |-> None]
    /\ req = [r \in Requests |-> "idle"]
    /\ got = [r \in Requests |-> None]
    /\ flush = [g \in Flushes |-> "idle"]
    /\ told = [r \in Requests |-> 0]
    /\ covers = [g \in Flushes |-> {}]
    /\ refused = {}
    /\ uaf = FALSE

Counted == {f \in Requests : fetch[f] \in CountedStates}
Overdrawn == {f \in Requests : fetch[f] = "overdrawn"}
Holders(b) == {r \in Requests : got[r] = b /\ req[r] \in Referring}
Cached == ToSet(lru)

(* The cache still has its own reference to b. *)
Kept(b) == \/ b \in Cached
           \/ \E f \in Requests : fetch[f] = "evicting" /\ victim[f] = b

--------------------------------------------------------------------------------
(* References *)

(* LRU_Refresh: the block moves to the end that is evicted last. *)
Refreshed(s, b) ==
    IF b \in ToSet(s)
    THEN Append(RemoveAt(s, CHOOSE i \in DOMAIN s : s[i] = b), b)
    ELSE s

(* Lines 132 to 136 and 154 to 162: drop one reference of b and free it    *)
(* with the last.  A count of 1 still has to be followed by Refresh.       *)
Drop(b) ==
    /\ refCount' = [refCount EXCEPT ![b] = @ - 1]
    /\ mem' = IF refCount[b] = 1 THEN [mem EXCEPT ![b] = "freed"] ELSE mem
    /\ uaf' = (mem[b] = "freed")

(* Lines 137 to 153: whatever block the map has for b's hash is refreshed. *)
Refresh(b) ==
    /\ uaf' = (mem[b] = "freed")
    /\ lru' = IF blockOf[hash[b]] = None THEN lru
                                         ELSE Refreshed(lru, blockOf[hash[b]])

(* LRUStoredBlock_Dispose called by a reader. *)
DropReference(r) ==
    /\ req[r] = "holding"
    /\ Drop(got[r])
    /\ req' = [req EXCEPT ![r] = IF refCount[got[r]] = 2 THEN "refreshing"
                                                         ELSE "released"]
    /\ UNCHANGED <<disposed, pending, cacheVars, waitList, fetchVars, hash, got,
                   told, flushVars, refused>>

RefreshReturned(r) ==
    /\ req[r] = "refreshing"
    /\ Refresh(got[r])
    /\ req' = [req EXCEPT ![r] = "released"]
    /\ UNCHANGED <<disposed, pending, maxCount, blockOf, waitList, blockVars, fetchVars,
                   hash, got, told, flushVars, refused>>

--------------------------------------------------------------------------------
(* LRUBlockStore_GetStoredBlock *)

Begin(r, h) == /\ req[r] = "idle"
               /\ ~disposed
               /\ hash' = [hash EXCEPT ![r] = h]

(* The block is cached: take n references under the lock. *)
Hit(r, h, n) ==
    /\ Begin(r, h)
    /\ blockOf[h] # None
    /\ refCount' = [refCount EXCEPT ![blockOf[h]] = @ + n]
    /\ got' = [got EXCEPT ![r] = blockOf[h]]
    /\ uaf' = (mem[blockOf[h]] = "freed")
    /\ req' = [req EXCEPT ![r] = "hit"]
    /\ UNCHANGED <<disposed, pending, cacheVars, waitList, mem, fetchVars, told,
                   flushVars, refused>>

(* Mutant of GetHit: the hit takes no reference. *)
GetHit_NoReference(r, h) == Hit(r, h, 0)

GetHit(r, h) == Hit(r, h, 1)

GetJoin(r, h) ==
    /\ Begin(r, h)
    /\ blockOf[h] = None
    /\ waitList[h] # {}
    /\ waitList' = [waitList EXCEPT ![h] = @ \cup {r}]
    /\ req' = [req EXCEPT ![r] = "waiting"]
    /\ UNCHANGED <<disposed, pending, cacheVars, blockVars, fetchVars, got, told,
                   flushVars, refused, uaf>>

(* Put up a wait list and become the owner of the fetch. *)
StartFetch(r, h) ==
    /\ Begin(r, h)
    /\ blockOf[h] = None
    /\ waitList' = [waitList EXCEPT ![h] = {r}]
    /\ req' = [req EXCEPT ![r] = "waiting"]
    /\ fetch' = [fetch EXCEPT ![r] = "started"]
    /\ UNCHANGED <<disposed, pending, cacheVars, blockVars, victim, calls,
                   flushCalls, got, told, flushVars, refused, uaf>>

(* Mutant of GetFirst: no look at the wait lists. *)
GetFirst_IgnoresWaitList(r, h) == StartFetch(r, h)

GetFirst(r, h) == waitList[h] = {} /\ StartFetch(r, h)

(* ENOMEM is returned and the wait list stays where it is. *)
NoMemory(r) ==
    /\ fetch[r] = "started"
    /\ fetch' = [fetch EXCEPT ![r] = "abandoned"]
    /\ req' = [req EXCEPT ![r] = "failed"]
    /\ told' = [told EXCEPT ![r] = @ + 1]
    /\ UNCHANGED <<disposed, pending, cacheVars, waitList, blockVars, victim,
                   calls, flushCalls, hash, got, flushVars, refused, uaf>>

CallBacking(r) ==
    /\ fetch[r] = "started"
    /\ pending' = pending + 1
    /\ fetch' = [fetch EXCEPT ![r] = "counted"]
    /\ UNCHANGED <<disposed, cacheVars, waitList, blockVars, victim, calls,
                   flushCalls, callVars, flushVars, refused, uaf>>

(* Every outcome of the backing read takes the wait list off the map. *)
TakeWaitList(f) ==
    /\ fetch[f] = "counted"
    /\ waitList' = [waitList EXCEPT ![hash[f]] = {}]
    /\ calls' = [calls EXCEPT ![f] = waitList[hash[f]]]

(* The backing store calls OnComplete with an error, or returns it and the *)
(* store calls OnComplete itself.                                          *)
BackingFails(f) ==
    /\ TakeWaitList(f)
    /\ fetch' = [fetch EXCEPT ![f] = "failing"]
    /\ refused' \in {refused, refused \cup {f}}
    /\ UNCHANGED <<disposed, pending, cacheVars, blockVars, victim, flushCalls,
                   callVars, flushVars, uaf>>

(* OnComplete with a block: make room if the cache is full, cache the new  *)
(* block, take references for the cache and one per waiter.                *)
Cache(f, unmap, own) ==
    /\ TakeWaitList(f)
    /\ LET waiters == waitList[hash[f]]
           full == Len(lru) = maxCount
           old == Head(lru)
           room == IF full /\ unmap THEN [blockOf EXCEPT ![hash[old]] = None] ELSE blockOf
       IN /\ lru' = Append(IF full THEN Tail(lru) ELSE lru, f)
          /\ blockOf' = [room EXCEPT ![hash[f]] = f]
          /\ victim' = [victim EXCEPT ![f] = IF full THEN old ELSE None]
          /\ fetch' = [fetch EXCEPT ![f] = IF full THEN "evicting" ELSE "delivering"]
          /\ refCount' = [refCount EXCEPT ![f] = own + Cardinality(waiters)]
          /\ got' = [r \in Requests |-> IF r \in waiters THEN f ELSE got[r]]
    /\ mem' = [mem EXCEPT ![f] = "live"]
    /\ UNCHANGED <<disposed, pending, maxCount, flushCalls, hash, req, told,
                   flushVars, refused, uaf>>

(* Mutant of BackingDelivers: the evicted block stays in the map. *)
BackingDelivers_NoUnmap(f) == Cache(f, FALSE, 1)

(* Mutant of BackingDelivers: no reference of the cache's own. *)
BackingDelivers_NoOwnReference(f) == Cache(f, TRUE, 0)

BackingDelivers(f) == Cache(f, TRUE, 1)

(* Mutant of DropVictim: the evicted block is freed, lent or not. *)
DropVictim_Frees(f) ==
    /\ fetch[f] = "evicting"
    /\ refCount' = [refCount EXCEPT ![victim[f]] = @ - 1]
    /\ mem' = [mem EXCEPT ![victim[f]] = "freed"]
    /\ uaf' = (mem[victim[f]] = "freed")
    /\ fetch' = [fetch EXCEPT ![f] = "delivering"]
    /\ UNCHANGED <<disposed, pending, cacheVars, waitList, victim, calls,
                   flushCalls, callVars, flushVars, refused>>

(* The evicted block is disposed of after the lock was released. *)
DropVictim(f) ==
    /\ fetch[f] = "evicting"
    /\ Drop(victim[f])
    /\ fetch' = [fetch EXCEPT ![f] = IF refCount[victim[f]] = 2 THEN "refreshing"
                                                                ELSE "delivering"]
    /\ UNCHANGED <<disposed, pending, cacheVars, waitList, victim, calls,
                   flushCalls, callVars, flushVars, refused>>

RefreshVictim(f) ==
    /\ fetch[f] = "refreshing"
    /\ Refresh(victim[f])
    /\ fetch' = [fetch EXCEPT ![f] = "delivering"]
    /\ UNCHANGED <<disposed, pending, maxCount, blockOf, waitList, blockVars, victim, calls,
                   flushCalls, callVars, flushVars, refused>>

CallWaiter(f, r) ==
    /\ fetch[f] \in {"delivering", "failing"}
    /\ r \in calls[f]
    /\ calls' = [calls EXCEPT ![f] = @ \ {r}]
    /\ req' = [req EXCEPT ![r] = IF fetch[f] = "delivering" THEN "holding"
                                                            ELSE "failed"]
    /\ told' = [told EXCEPT ![r] = @ + 1]
    /\ UNCHANGED <<disposed, pending, cacheVars, waitList, blockVars, fetch,
                   victim, flushCalls, hash, got, flushVars, refused, uaf>>

CallHit(r) ==
    /\ req[r] = "hit"
    /\ req' = [req EXCEPT ![r] = "holding"]
    /\ told' = [told EXCEPT ![r] = @ + 1]
    /\ UNCHANGED <<disposed, pending, cacheVars, waitList, blockVars, fetchVars,
                   hash, got, flushVars, refused, uaf>>

--------------------------------------------------------------------------------
(* LRUBlockStore_CompleteRequest, Flush and Dispose *)

(* Mutant of ReadyToComplete: the count is left before the completions are *)
(* called.                                                                 *)
ReadyToComplete_Early(f) == /\ fetch[f] \in {"delivering", "failing", "again"}
                            /\ flushCalls[f] = {}

(* A fetch whose error was returned by the backing store gets here twice:  *)
(* line 282 inside OnComplete and line 408 after it.                       *)
ReadyToComplete(f) == /\ fetch[f] \in {"delivering", "failing", "again"}
                      /\ calls[f] = {}
                      /\ flushCalls[f] = {}

(* The count is set, and the flushes are taken off their list if this was  *)
(* the last request.                                                       *)
LeaveCount(f, count, last) ==
    /\ ReadyToComplete(f)
    /\ pending' = count
    /\ fetch' = [fetch EXCEPT ![f] = CASE @ = "again"    -> "overdrawn"
                                       [] @ = "failing" /\ f \in refused -> "again"
                                       [] OTHER          -> "done"]
    /\ IF last THEN /\ flushCalls' = [flushCalls EXCEPT ![f] = flushList]
                    /\ flushList' = {}
               ELSE UNCHANGED <<flushCalls, flushList>>
    /\ UNCHANGED <<disposed, cacheVars, waitList, blockVars, victim, calls,
                   callVars, flush, covers, refused, uaf>>

(* Mutant of CompleteRequest: an error leaves the request counted. *)
CompleteRequest_NotOnError(f) ==
    IF fetch[f] = "failing" THEN LeaveCount(f, pending, FALSE)
                            ELSE LeaveCount(f, pending - 1, pending = 1)

CompleteRequest(f) == LeaveCount(f, pending - 1, pending = 1)

CallFlush(f, g) ==
    /\ g \in flushCalls[f]
    /\ flushCalls' = [flushCalls EXCEPT ![f] = @ \ {g}]
    /\ flush' = [flush EXCEPT ![g] = "done"]
    /\ UNCHANGED <<disposed, pending, cacheVars, waitList, blockVars, fetch,
                   victim, calls, callVars, flushList, covers, refused, uaf>>

Flush(g) ==
    /\ flush[g] = "idle"
    /\ ~disposed
    /\ covers' = [covers EXCEPT ![g] = Counted]
    /\ IF pending > 0
       THEN /\ flushList' = flushList \cup {g}
            /\ flush' = [flush EXCEPT ![g] = "queued"]
       ELSE /\ flush' = [flush EXCEPT ![g] = "done"]
            /\ UNCHANGED flushList
    /\ UNCHANGED <<disposed, pending, cacheVars, waitList, blockVars, fetchVars,
                   callVars, refused, uaf>>

(* Waits for the count, then evicts and disposes of every cached block.    *)
(* The caller has had every answer, holds no block and is in no other call.*)
Dispose ==
    /\ ~disposed
    /\ \A r \in Requests : /\ req[r] \in {"idle", "failed", "released"}
                           /\ fetch[r] # "started"
    /\ \A g \in Flushes : flush[g] # "queued"
    /\ pending <= 0
    /\ disposed' = TRUE
    /\ lru' = <<>>
    /\ blockOf' = [h \in Hashes |-> None]
    /\ refCount' = [b \in Requests |-> refCount[b] - IF b \in Cached THEN 1 ELSE 0]
    /\ mem' = [b \in Requests |-> IF b \in Cached /\ refCount[b] = 1 THEN "freed"
                                                                   ELSE mem[b]]
    /\ uaf' = \E b \in Cached : mem[b] = "freed"
    /\ UNCHANGED <<pending, maxCount, waitList, fetchVars, callVars, flushVars,
                   refused>>

--------------------------------------------------------------------------------
Get(r) == \E h \in Hashes : GetHit(r, h) \/ GetJoin(r, h) \/ GetFirst(r, h)

(* Steps of threads that are inside the store, and of the backing store. *)
Progress(r) ==
    \/ CallBacking(r) \/ BackingFails(r) \/ BackingDelivers(r)
    \/ DropVictim(r) \/ RefreshVictim(r)
    \/ \E x \in Requests : CallWaiter(r, x)
    \/ CallHit(r)
    \/ CompleteRequest(r)
    \/ \E g \in Flushes : CallFlush(r, g)
    \/ RefreshReturned(r)

(* After a use of freed memory the program may do anything: stop there. *)
Next == /\ ~uaf
        /\ \/ \E r \in Requests : \/ Get(r) \/ NoMemory(r) \/ Progress(r)
                                  \/ DropReference(r)
           \/ \E g \in Flushes : Flush(g)
           \/ Dispose

Spec == Init /\ [][Next]_vars

--------------------------------------------------------------------------------
(* The count is the number of fetches between line 398 and the end of      *)
(* CompleteRequest, less one for every fetch that was completed twice      *)
(* (lines 407, 408).                                                       *)
PendingCountsRequests == pending = Cardinality(Counted) - Cardinality(Overdrawn)

(* The assertion of line 112: who completes a request finds it counted.    *)
CompletesCountedRequest == \A f \in Requests : ReadyToComplete(f) => pending > 0

(* The array and the map hold the same blocks, each once, never more than  *)
(* m_MaxCount: the assertions of lines 49 and 70 and the deletion by hash of *)
(* line 315 rest on it.                                                    *)
CacheMatchesMap ==
    /\ Len(lru) <= maxCount
    /\ Cardinality(Cached) = Len(lru)
    /\ \A h \in Hashes : blockOf[h] # None => hash[blockOf[h]] = h
    /\ Cached = {blockOf[h] : h \in Hashes} \ {None}

(* m_RefCount is the number of readers the block is lent to and one for    *)
(* the cache until the block was evicted and disposed of (lines 132, 191,  *)
(* 323).                                                                   *)
RefCountsHolders ==
    \A b \in Requests : mem[b] # "none" =>
        refCount[b] = Cardinality(Holders(b)) + IF Kept(b) THEN 1 ELSE 0

(* At most one read of a block is in the backing store, none while the     *)
(* cache has the block (lines 357 to 378).                                 *)
OneFetchPerHash ==
    \A f, g \in Requests :
        fetch[f] \in {"started", "counted"} =>
            /\ blockOf[hash[f]] = None
            /\ f # g /\ fetch[g] \in {"started", "counted"} => hash[f] # hash[g]

(* A flush completes after every completion of the fetches counted when it *)
(* was called, as long as no fetch was completed twice.                    *)
FlushCovers ==
    refused = {} =>
        \A g \in Flushes : flush[g] = "done" =>
            \A f \in covers[g] : fetch[f] \notin CountedStates /\ calls[f] = {}

(* The comment of line 140: a count of 1 is looked up to see if the block  *)
(* "is still around"; the look-up reads the block's own hash to find out.  *)
LookUpReadsLiveBlock == ~uaf

--------------------------------------------------------------------------------
(* The cache keeps the promise of BlockLending with nothing voiding it: an *)
(* eviction is invisible until the last reference is dropped.              *)
CallState(s) == CASE s \in {"hit", "waiting"} -> "asked"
                  [] s \in {"refreshing", "released"} -> "returned"
                  [] OTHER -> s

Lending == INSTANCE BlockLending WITH
    Blocks <- Requests,
    call <- [r \in Requests |-> CallState(req[r])],
    lent <- [r \in Requests |-> IF req[r] = "holding" THEN got[r] ELSE None],
    void <- FALSE

LendingSpec == Lending!Spec
================================================================================

---------------------------- MODULE ShareBlockStore ----------------------------
(***************************************************************************)
(* lib/shareblockstore/longtail_shareblockstore.c: concurrent readers of   *)
(* one block share one read of the backing store and one reference counted *)
(* block object.                                                           *)
(*                                                                         *)
(* A member of Requests is one call of GetStoredBlock with its own         *)
(* completion object; the call that finds neither the block nor a wait     *)
(* list also owns the read of the backing store ("fetch") and, if that     *)
(* read succeeds, the SharedStoredBlock made for it.  Fetches and blocks   *)
(* are therefore named by the request that owns them.  A critical section  *)
(* of m_Lock is one action; every step between two of them is another.     *)
(* A wait list is a set: the order in which its members are called is left *)
(* open.  Statistics, logging and the pass-through calls PutStoredBlock,   *)
(* PreflightGet and RetargetContent, which touch nothing else, are left    *)
(* out.                                                                    *)
(***************************************************************************)
EXTENDS Integers, FiniteSets

CONSTANTS Requests,   \* calls of GetStoredBlock
          Hashes,     \* block hashes
          Flushes,    \* calls of Flush
          None        \* no block, no hash

ASSUME RequestsFinite == IsFiniteSet(Requests)
ASSUME NoneApart == None \notin Requests \cup Hashes

VARIABLES
    disposed,    \* the store itself has been disposed of
    pending,     \* m_PendingRequestCount
    blockOf,     \* m_BlockHashToSharedStoredBlock
    waitList,    \* m_BlockHashToCompleteCallbacks; no entry is the empty set
    flushList,   \* m_PendingAsyncFlushAPIs
    refCount,    \* m_RefCount of the block a fetch made
    mem,         \* the memory of that block
    fetch,       \* where the owner of a fetch is
    calls,       \* completions a fetch took off the wait list and has not called
    flushCalls,  \* flushes a fetch took off flushList and has not called
    hash,        \* argument of the call
    req,         \* where the caller of GetStoredBlock is
    got,         \* block the caller has a reference to
    flush,       \* where the caller of Flush is
    told,        \* history: how often the caller learned the outcome
    covers,      \* history: the fetches in flight when Flush was called
    revived,     \* history: blocks found by a Get while their count was 0
    uaf          \* history: a block was used or freed after it was freed

mapVars   == <<blockOf, waitList>>
blockVars == <<refCount, mem>>
fetchVars == <<fetch, calls, flushCalls>>
callVars  == <<hash, req, got, told>>
flushVars == <<flushList, flush, covers>>
vars == <<disposed, pending, mapVars, blockVars, fetchVars, callVars, flushVars,
          revived, uaf>>

--------------------------------------------------------------------------------
(* States of a fetch: "started" has put up the wait list; "counted" is in  *)
(* m_PendingRequestCount and in the backing store; "delivering", "failing" *)
(* and "refused" are calling the completions; "unlocking" has left the     *)
(* count and still holds m_Lock; "leaked" returned the backing store's     *)
(* error and stays counted; "abandoned" returned ENOMEM.                   *)
FetchStates == {"none", "started", "counted", "delivering", "failing", "refused",
                "unlocking", "done", "leaked", "abandoned"}
CountedStates == {"counted", "delivering", "failing", "refused", "leaked"}

(* States of a request: "disposing" took the count to 0 and has not locked *)
(* yet; "freeing" has removed the map entry and unlocked.                  *)
ReqStates == {"idle", "hit", "waiting", "holding", "failed", "disposing",
              "freeing", "released"}
Referring == {"hit", "waiting", "holding"}

TypeOK ==
    /\ disposed \in BOOLEAN
    /\ pending \in Nat
    /\ blockOf \in [Hashes -> Requests \cup {None}]
    /\ waitList \in [Hashes -> SUBSET Requests]
    /\ flushList \in SUBSET Flushes
    /\ refCount \in [Requests -> Nat]
    /\ mem \in [Requests -> {"none", "live", "freed"}]
    /\ fetch \in [Requests -> FetchStates]
    /\ calls \in [Requests -> SUBSET Requests]
    /\ flushCalls \in [Requests -> SUBSET Flushes]
    /\ hash \in [Requests -> Hashes \cup {None}]
    /\ req \in [Requests -> ReqStates]
    /\ got \in [Requests -> Requests \cup {None}]
    /\ flush \in [Flushes -> {"idle", "queued", "done"}]
    /\ told \in [Requests -> 0..2]
    /\ covers \in [Flushes -> SUBSET Requests]
    /\ revived \in SUBSET Requests
    /\ uaf \in BOOLEAN

Init ==
    /\ disposed = FALSE
    /\ pending = 0
    /\ blockOf = [h \in Hashes |-> None]
    /\ waitList = [h \in Hashes |-> {}]
    /\ flushList = {}
    /\ refCount = [r \in Requests |-> 0]
    /\ mem = [r \in Requests |-> "none"]
    /\ fetch = [r \in Requests |-> "none"]
    /\ calls = [r \in Requests |-> {}]
    /\ flushCalls = [r \in Requests |-> {}]
    /\ hash = [r \in Requests |-> None]
    /\ req = [r \in Requests |-> "idle"]
    /\ got = [r \in Requests |-> None]
    /\ flush = [g \in Flushes |-> "idle"]
    /\ told = [r \in Requests |-> 0]
    /\ covers = [g \in Flushes |-> {}]
    /\ revived = {}
    /\ uaf = FALSE

(* Nobody is inside a critical section that the model splits in two. *)
LockFree == \A f \in Requests : fetch[f] # "unlocking"

Counted == {f \in Requests : fetch[f] \in CountedStates}
Holders(b) == {r \in Requests : got[r] = b /\ req[r] \in Referring}

--------------------------------------------------------------------------------
(* GetStoredBlock *)

Begin(r, h) == /\ req[r] = "idle"
               /\ ~disposed
               /\ LockFree
               /\ hash' = [hash EXCEPT ![r] = h]

(* The block is in the map: take n references under the lock. *)
Hit(r, h, n) ==
    /\ Begin(r, h)
    /\ blockOf[h] # None
    /\ LET b == blockOf[h] IN
       /\ refCount' = [refCount EXCEPT ![b] = @ + n]
       /\ got' = [got EXCEPT ![r] = b]
       /\ revived' = IF refCount[b] = 0 THEN revived \cup {b} ELSE revived
       /\ uaf' = (mem[b] = "freed")
    /\ req' = [req EXCEPT ![r] = "hit"]
    /\ UNCHANGED <<disposed, pending, mapVars, mem, fetchVars, told, flushVars>>

(* Mutant of GetHit: the hit takes no reference. *)
GetHit_NoReference(r, h) == Hit(r, h, 0)

GetHit(r, h) == Hit(r, h, 1)

(* A read of the same block is under way: join its wait list. *)
GetJoin(r, h) ==
    /\ Begin(r, h)
    /\ blockOf[h] = None
    /\ waitList[h] # {}
    /\ waitList' = [waitList EXCEPT ![h] = @ \cup {r}]
    /\ req' = [req EXCEPT ![r] = "waiting"]
    /\ UNCHANGED <<disposed, pending, blockOf, blockVars, fetchVars, got, told,
                   flushVars, revived, uaf>>

(* Put up a wait list and become the owner of the fetch. *)
StartFetch(r, h) ==
    /\ Begin(r, h)
    /\ blockOf[h] = None
    /\ waitList' = [waitList EXCEPT ![h] = {r}]
    /\ req' = [req EXCEPT ![r] = "waiting"]
    /\ fetch' = [fetch EXCEPT ![r] = "started"]
    /\ UNCHANGED <<disposed, pending, blockOf, blockVars, calls, flushCalls, got,
                   told, flushVars, revived, uaf>>

(* Mutant of GetFirst: no look at the wait lists. *)
GetFirst_IgnoresWaitList(r, h) == StartFetch(r, h)

(* Neither a block nor a read under way. *)
GetFirst(r, h) == waitList[h] = {} /\ StartFetch(r, h)

(* The completion object cannot be allocated: ENOMEM is returned and the   *)
(* wait list stays where it is.                                            *)
NoMemory(r) ==
    /\ fetch[r] = "started"
    /\ fetch' = [fetch EXCEPT ![r] = "abandoned"]
    /\ req' = [req EXCEPT ![r] = "failed"]
    /\ told' = [told EXCEPT ![r] = @ + 1]
    /\ UNCHANGED <<disposed, pending, mapVars, blockVars, calls, flushCalls, hash,
                   got, flushVars, revived, uaf>>

(* Count the request and call the backing store. *)
CallBacking(r) ==
    /\ fetch[r] = "started"
    /\ pending' = pending + 1
    /\ fetch' = [fetch EXCEPT ![r] = "counted"]
    /\ UNCHANGED <<disposed, mapVars, blockVars, calls, flushCalls, callVars,
                   flushVars, revived, uaf>>

(* Mutant of TakeWaitList: the entry is read and not deleted. *)
TakeWaitList_Keeps(f) ==
    /\ fetch[f] = "counted"
    /\ LockFree
    /\ calls' = [calls EXCEPT ![f] = waitList[hash[f]]]
    /\ UNCHANGED waitList

(* Every outcome of the backing read takes the wait list off the map. *)
TakeWaitList(f) ==
    /\ fetch[f] = "counted"
    /\ LockFree
    /\ waitList' = [waitList EXCEPT ![hash[f]] = {}]
    /\ calls' = [calls EXCEPT ![f] = waitList[hash[f]]]

(* The backing store returns an error without calling OnComplete. *)
BackingRefuses(f) ==
    /\ TakeWaitList(f)
    /\ fetch' = [fetch EXCEPT ![f] = "refused"]
    /\ UNCHANGED <<disposed, pending, blockOf, blockVars, flushCalls, callVars,
                   flushVars, revived, uaf>>

(* Mutant of BackingFails: the error is given to OnComplete and returned. *)
BackingFails_ReturnsToo(f) ==
    /\ TakeWaitList(f)
    /\ fetch' = [fetch EXCEPT ![f] = "failing"]
    /\ told' = [told EXCEPT ![f] = @ + 1]
    /\ UNCHANGED <<disposed, pending, blockOf, blockVars, flushCalls, hash, req,
                   got, flushVars, revived, uaf>>

(* OnComplete with an error, or no memory for the shared block. *)
BackingFails(f) ==
    /\ TakeWaitList(f)
    /\ fetch' = [fetch EXCEPT ![f] = "failing"]
    /\ UNCHANGED <<disposed, pending, blockOf, blockVars, flushCalls, callVars,
                   flushVars, revived, uaf>>

(* OnComplete with a block: publish it with n references for the waiters. *)
Publish(f, n) ==
    /\ TakeWaitList(f)
    /\ refCount' = [refCount EXCEPT ![f] = n]
    /\ got' = [r \in Requests |-> IF r \in waitList[hash[f]] THEN f ELSE got[r]]
    /\ mem' = [mem EXCEPT ![f] = "live"]
    /\ blockOf' = [blockOf EXCEPT ![hash[f]] = f]
    /\ fetch' = [fetch EXCEPT ![f] = "delivering"]
    /\ UNCHANGED <<disposed, pending, flushCalls, hash, req, told, flushVars,
                   revived, uaf>>

(* Mutant of BackingDelivers: one reference, however many waiters. *)
BackingDelivers_OneReference(f) == Publish(f, 1)

BackingDelivers(f) == Publish(f, Cardinality(waitList[hash[f]]))

(* One completion is called, with the block or with the error. *)
CallWaiter(f, r) ==
    /\ r \in calls[f]
    /\ calls' = [calls EXCEPT ![f] = @ \ {r}]
    /\ req' = [req EXCEPT ![r] = IF fetch[f] = "delivering" THEN "holding"
                                                            ELSE "failed"]
    /\ told' = [told EXCEPT ![r] = @ + 1]
    /\ UNCHANGED <<disposed, pending, mapVars, blockVars, fetch, flushCalls, hash,
                   got, flushVars, revived, uaf>>

(* A hit calls its own completion before it returns. *)
CallHit(r) ==
    /\ req[r] = "hit"
    /\ req' = [req EXCEPT ![r] = "holding"]
    /\ told' = [told EXCEPT ![r] = @ + 1]
    /\ UNCHANGED <<disposed, pending, mapVars, blockVars, fetchVars, hash, got,
                   flushVars, revived, uaf>>

(* A refused fetch returns the error too, and never leaves the count. *)
ReturnRefused(f) ==
    /\ fetch[f] = "refused"
    /\ calls[f] = {}
    /\ fetch' = [fetch EXCEPT ![f] = "leaked"]
    /\ told' = [told EXCEPT ![f] = @ + 1]
    /\ UNCHANGED <<disposed, pending, mapVars, blockVars, calls, flushCalls, hash,
                   req, got, flushVars, revived, uaf>>

--------------------------------------------------------------------------------
(* SharedBlockStore_CompleteRequest and Flush *)

(* The count is set, and the flushes are taken off their list if this was  *)
(* the last request.                                                       *)
LeaveCount(f, count, last) ==
    /\ fetch[f] \in {"delivering", "failing"}
    /\ LockFree
    /\ pending' = count
    /\ fetch' = [fetch EXCEPT ![f] = "unlocking"]
    /\ IF last THEN /\ flushCalls' = [flushCalls EXCEPT ![f] = flushList]
                    /\ flushList' = {}
               ELSE UNCHANGED <<flushCalls, flushList>>
    /\ UNCHANGED <<disposed, mapVars, blockVars, calls, callVars, flush, covers,
                   revived, uaf>>

(* Mutant of CompleteRequest: an error leaves the request counted. *)
CompleteRequest_NotOnError(f) ==
    calls[f] = {} /\ IF fetch[f] = "failing" THEN LeaveCount(f, pending, FALSE)
                                             ELSE LeaveCount(f, pending - 1, pending = 1)

(* Mutant of CompleteRequest: called before the completions. *)
CompleteRequest_First(f) == LeaveCount(f, pending - 1, pending = 1)

(* Mutant of CompleteRequest: the count before the decrement is tested. *)
CompleteRequest_OldCount(f) == calls[f] = {} /\ LeaveCount(f, pending - 1, pending = 0)

CompleteRequest(f) == calls[f] = {} /\ LeaveCount(f, pending - 1, pending = 1)

Unlock(f) ==
    /\ fetch[f] = "unlocking"
    /\ fetch' = [fetch EXCEPT ![f] = "done"]
    /\ UNCHANGED <<disposed, pending, mapVars, blockVars, calls, flushCalls,
                   callVars, flushVars, revived, uaf>>

CallFlush(f, g) ==
    /\ fetch[f] = "done"
    /\ g \in flushCalls[f]
    /\ flushCalls' = [flushCalls EXCEPT ![f] = @ \ {g}]
    /\ flush' = [flush EXCEPT ![g] = "done"]
    /\ UNCHANGED <<disposed, pending, mapVars, blockVars, fetch, calls, callVars,
                   flushList, covers, revived, uaf>>

Flush(g) ==
    /\ flush[g] = "idle"
    /\ ~disposed
    /\ LockFree
    /\ covers' = [covers EXCEPT ![g] = Counted]
    /\ IF pending > 0
       THEN /\ flushList' = flushList \cup {g}
            /\ flush' = [flush EXCEPT ![g] = "queued"]
       ELSE /\ flush' = [flush EXCEPT ![g] = "done"]
            /\ UNCHANGED flushList
    /\ UNCHANGED <<disposed, pending, mapVars, blockVars, fetchVars, callVars,
                   revived, uaf>>

--------------------------------------------------------------------------------
(* SharedStoredBlock_Dispose, called by whoever was given the block *)

DropReference(r) ==
    /\ req[r] = "holding"
    /\ LET b == got[r] IN
       /\ refCount' = [refCount EXCEPT ![b] = @ - 1]
       /\ req' = [req EXCEPT ![r] = IF refCount[b] > 1 THEN "released"
                                                       ELSE "disposing"]
       /\ uaf' = (mem[b] = "freed")
    /\ UNCHANGED <<disposed, pending, mapVars, mem, fetchVars, hash, got, told,
                   flushVars, revived>>

(* Lines 73 to 82: the block is read again, before and under the lock. *)
Unmap(r) ==
    /\ req[r] = "disposing"
    /\ LockFree
    /\ LET b == got[r] IN
       /\ uaf' = (mem[b] = "freed")
       /\ IF refCount[b] # 0
          THEN /\ req' = [req EXCEPT ![r] = "released"]
               /\ UNCHANGED blockOf
          ELSE /\ req' = [req EXCEPT ![r] = "freeing"]
               /\ blockOf' = [blockOf EXCEPT ![hash[b]] = None]
    /\ UNCHANGED <<disposed, pending, waitList, blockVars, fetchVars, hash, got,
                   told, flushVars, revived>>

Free(r) ==
    /\ req[r] = "freeing"
    /\ uaf' = (mem[got[r]] = "freed")
    /\ mem' = [mem EXCEPT ![got[r]] = "freed"]
    /\ req' = [req EXCEPT ![r] = "released"]
    /\ UNCHANGED <<disposed, pending, mapVars, refCount, fetchVars, hash, got,
                   told, flushVars, revived>>

(* ShareBlockStore_Dispose waits for the count.  Its caller has had every  *)
(* answer, has released every block and is in no other call of the store.  *)
Disposing ==
    /\ ~disposed
    /\ \A r \in Requests : /\ req[r] \in {"idle", "failed", "released"}
                           /\ fetch[r] \notin {"started", "refused"}
    /\ \A g \in Flushes : flush[g] # "queued"
    /\ disposed' = TRUE
    /\ UNCHANGED <<pending, mapVars, blockVars, fetchVars, callVars, flushVars,
                   revived, uaf>>

(* Mutant of Dispose: no wait for the count. *)
Dispose_NoWait == Disposing

Dispose == pending = 0 /\ Disposing

--------------------------------------------------------------------------------
Get(r) == \E h \in Hashes : GetHit(r, h) \/ GetJoin(r, h) \/ GetFirst(r, h)

(* Steps of threads that are inside the store, and of the backing store. *)
Progress(r) ==
    \/ CallBacking(r)
    \/ BackingRefuses(r) \/ BackingFails(r) \/ BackingDelivers(r)
    \/ \E x \in Requests : CallWaiter(r, x)
    \/ CallHit(r)
    \/ ReturnRefused(r)
    \/ CompleteRequest(r) \/ Unlock(r)
    \/ \E g \in Flushes : CallFlush(r, g)
    \/ Unmap(r) \/ Free(r)

(* After a use of freed memory the program may do anything; the model      *)
(* stops there and NoUseAfterFree says when that can be.                   *)
Next == /\ ~uaf
        /\ \/ \E r \in Requests : \/ Get(r) \/ NoMemory(r) \/ Progress(r)
                                  \/ DropReference(r)
           \/ \E g \in Flushes : Flush(g)
           \/ Dispose

Spec == Init /\ [][Next]_vars

(* Every thread inside the store keeps being scheduled and the backing     *)
(* store answers every read; callers need not call or release.             *)
FairSpec == Spec /\ \A r \in Requests : WF_vars(~uaf /\ Progress(r))

--------------------------------------------------------------------------------
(* The count is the number of fetches between the call of the backing      *)
(* store and CompleteRequest (lines 298, 51), refused ones included, which *)
(* the code never takes out again.                                         *)
PendingCountsInFlight == pending = Cardinality(Counted)

(* m_RefCount of a live block is the number of callers that were or will   *)
(* be given it and have not disposed of it (lines 68, 229, 259).           *)
RefCountsHolders ==
    \A b \in Requests : mem[b] # "none" => refCount[b] = Cardinality(Holders(b))

(* What the store is for: at most one read of a block is in the backing    *)
(* store, none while a shared block can be found (lines 255 to 278).       *)
OneFetchPerHash ==
    \A f, g \in Requests :
        fetch[f] \in {"started", "counted"} =>
            /\ blockOf[hash[f]] = None
            /\ f # g /\ fetch[g] \in {"started", "counted"} => hash[f] # hash[g]

(* A block is neither read nor freed after it was freed, and whoever was   *)
(* given it still can read it, unless a Get found it while its last holder *)
(* was between lines 68 and 75 of SharedStoredBlock_Dispose.               *)
NoUseAfterFree ==
    revived = {} =>
        /\ ~uaf
        /\ \A r \in Requests : req[r] \in Referring /\ got[r] # None
                                    => mem[got[r]] = "live"

(* A caller learns the outcome of its Get once, by OnComplete or by an     *)
(* error return, unless its own read was refused (lines 303 to 323).       *)
AnsweredOnce == \A r \in Requests : fetch[r] # "leaked" => told[r] <= 1

(* The comment of lines 187, 209 and 315: those who get the error in their *)
(* OnComplete are "anybody else", never the caller the error is returned   *)
(* to.                                                                     *)
ErrorForwardedToOthersOnly == \A r \in Requests : told[r] <= 1

(* A flush completes after every completion of the fetches that were       *)
(* counted when it was called (lines 51 to 61, 377).                       *)
FlushCovers ==
    \A g \in Flushes : flush[g] = "done" =>
        \A f \in covers[g] : fetch[f] \notin CountedStates /\ calls[f] = {}

(* When Dispose goes on to free the store (line 402), no fetch, flush or   *)
(* block is left that would use it; only the unlock of line 56 may be.     *)
DisposeQuiesces ==
    disposed => /\ flushList = {}
                /\ \A f \in Requests :
                      /\ fetch[f] \in {"none", "unlocking", "done", "abandoned"}
                      /\ calls[f] = {}
                      /\ req[f] \notin {"hit", "holding", "disposing", "freeing"}

(* Every Get is answered, unless it is on a wait list whose owner was      *)
(* refused memory (line 290).                                              *)
Orphaned(r) == \E f \in Requests : fetch[f] = "abandoned" /\ hash[f] = hash[r]
EveryGetAnswered ==
    \A r \in Requests : (req[r] # "idle") ~> (told[r] > 0 \/ Orphaned(r) \/ uaf)

(* Every flush completes, unless a refused fetch has leaked its count.     *)
EveryFlushCompletes ==
    \A g \in Flushes : (flush[g] = "queued") ~>
        (flush[g] = "done" \/ uaf \/ \E f \in Requests : fetch[f] = "leaked")

--------------------------------------------------------------------------------
(* The store keeps the promise of BlockLending: GetHit, GetJoin and        *)
(* GetFirst ask, the completions lend or fail, DropReference gives back,   *)
(* BackingDelivers loads and Free drops; all other steps are invisible.    *)
(* A Get that found a block with count 0 voids it (see NoUseAfterFree).    *)
CallState(s) == CASE s \in {"hit", "waiting"} -> "asked"
                  [] s \in {"disposing", "freeing", "released"} -> "returned"
                  [] OTHER -> s

Lending == INSTANCE BlockLending WITH
    Blocks <- Requests,
    call <- [r \in Requests |-> CallState(req[r])],
    lent <- [r \in Requests |-> IF req[r] = "holding" THEN got[r] ELSE None],
    void <- revived # {}

LendingSpec == Lending!Spec
================================================================================

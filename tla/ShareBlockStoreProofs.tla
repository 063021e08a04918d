------------------------- MODULE ShareBlockStoreProofs -------------------------
(***************************************************************************)
(* Proofs about ShareBlockStore, for any finite set of calls and any sets  *)
(* of hashes and flushes.                                                  *)
(***************************************************************************)
EXTENDS ShareBlockStore, FiniteSetTheorems, TLAPS

--------------------------------------------------------------------------------
(* The inductive invariant, by subject. *)

(* A call that has not begun owns nothing; hashes are those of the calls.  *)
Beginnings ==
    /\ \A r \in Requests : req[r] = "idle" => fetch[r] = "none" /\ got[r] = None
    /\ \A r \in Requests : req[r] # "idle" => hash[r] \in Hashes

(* Who is on a wait list, and that a read under way has a wait list of its *)
(* own and no block in the map.                                            *)
Open == {"started", "counted", "abandoned"}
WaitLists ==
    /\ \A h \in Hashes : \A r \in waitList[h] :
          /\ hash[r] = h
          /\ got[r] = None
          /\ req[r] = "waiting" \/ (req[r] = "failed" /\ fetch[r] = "abandoned")
    /\ \A f \in Requests : fetch[f] \in Open =>
          /\ f \in waitList[hash[f]]
          /\ blockOf[hash[f]] = None
    /\ \A f, g \in Requests : fetch[f] \in Open /\ fetch[g] \in Open
                              /\ hash[f] = hash[g] => f = g

(* Who is in the hands of a fetch. *)
Calling == {"delivering", "failing", "refused"}
InHand ==
    \A f \in Requests : \A r \in calls[f] :
        /\ fetch[f] \in Calling
        /\ req[r] = "waiting"
        /\ got[r] = IF fetch[f] = "delivering" THEN f ELSE None
        /\ \A h \in Hashes : r \notin waitList[h]
        /\ \A g \in Requests : r \in calls[g] => g = f

(* How often the outcome was learned. *)
Answers ==
    \A r \in Requests :
        /\ told[r] = 0 <=> req[r] \in {"idle", "hit", "waiting"}
        /\ fetch[r] # "leaked" => told[r] <= 1
        /\ fetch[r] = "leaked" => req[r] = "failed"
        /\ fetch[r] \in {"failing", "refused"} => r \in calls[r] \/ req[r] = "failed"

(* Blocks exist from their delivery on; the map finds the right one.       *)
Blocks ==
    /\ \A b \in Requests : mem[b] # "none" =>
          fetch[b] \in {"delivering", "unlocking", "done"}
    /\ \A r \in Requests : got[r] # None => mem[got[r]] # "none"
    /\ \A r \in Requests : req[r] \in {"hit", "holding", "disposing", "freeing"}
                              => got[r] # None
    /\ \A h \in Hashes : blockOf[h] # None => mem[blockOf[h]] # "none"
                                              /\ hash[blockOf[h]] = h

(* As long as no dying block was found again, one caller at most disposes  *)
(* of a block, nobody holds it then, and it leaves the map before memory.  *)
Dying == {"disposing", "freeing"}
Memory ==
    revived = {} =>
        /\ ~uaf
        /\ \A r \in Requests : req[r] \in Referring \cup Dying /\ got[r] # None
                                  => mem[got[r]] = "live"
        /\ \A r \in Requests : req[r] \in Dying => refCount[got[r]] = 0
        /\ \A r, s \in Requests : req[r] \in Dying /\ req[s] \in Dying
                                     /\ got[r] = got[s] => r = s
        /\ \A r \in Requests : req[r] = "freeing" =>
              \A h \in Hashes : blockOf[h] # got[r]
        /\ \A h \in Hashes : blockOf[h] # None => mem[blockOf[h]] = "live"

(* What a flush waited for is over when it is taken off the list. *)
Past == {"unlocking", "done"}
Flushing ==
    /\ \A g \in Flushes : \A f \in covers[g] : fetch[f] \in CountedStates \cup Past
    /\ \A g \in Flushes : flush[g] = "idle" =>
          g \notin flushList /\ \A f \in Requests : g \notin flushCalls[f]
    /\ \A g \in flushList : flush[g] = "queued"
                              /\ \A f \in Requests : g \notin flushCalls[f]
    /\ \A g \in Flushes : flush[g] = "done" => \A f \in covers[g] : fetch[f] \in Past
    /\ \A e \in Requests : \A g \in flushCalls[e] : \A f \in covers[g] :
          fetch[f] \in Past

Disposal ==
    disposed => /\ flushList = {}
                /\ \A f \in Requests :
                      /\ fetch[f] \in {"none", "unlocking", "done", "abandoned"}
                      /\ req[f] \in {"idle", "failed", "released"}

IInv == /\ TypeOK /\ Beginnings /\ WaitLists /\ InHand /\ Answers
        /\ PendingCountsInFlight /\ Blocks /\ RefCountsHolders /\ Memory
        /\ Flushing /\ Disposal

--------------------------------------------------------------------------------
(* IInv holds before any call. *)
LEMMA InitIInv == Init => IInv
<1> SUFFICES ASSUME Init PROVE IInv
  OBVIOUS
<1>1. Counted = {} /\ \A b \in Requests : Holders(b) = {}
  BY DEF Init, Counted, CountedStates, Holders, Referring
<1>2. TypeOK
  <2>1. disposed \in BOOLEAN /\ uaf \in BOOLEAN
    BY DEF Init
  <2>2. pending \in Nat /\ refCount \in [Requests -> Nat] /\ told \in [Requests -> 0..2]
    BY DEF Init
  <2>3. /\ blockOf \in [Hashes -> Requests \cup {None}]
        /\ waitList \in [Hashes -> SUBSET Requests]
        /\ hash \in [Requests -> Hashes \cup {None}]
        /\ got \in [Requests -> Requests \cup {None}]
        /\ calls \in [Requests -> SUBSET Requests]
    BY DEF Init
  <2>4. /\ mem \in [Requests -> {"none", "live", "freed"}]
        /\ fetch \in [Requests -> FetchStates]
        /\ req \in [Requests -> ReqStates]
    BY DEF Init, FetchStates, ReqStates
  <2>5. /\ flushList \in SUBSET Flushes
        /\ flushCalls \in [Requests -> SUBSET Flushes]
        /\ flush \in [Flushes -> {"idle", "queued", "done"}]
        /\ covers \in [Flushes -> SUBSET Requests]
        /\ revived \in SUBSET Requests
    BY DEF Init
  <2> QED BY <2>1, <2>2, <2>3, <2>4, <2>5 DEF TypeOK
<1>3. PendingCountsInFlight /\ RefCountsHolders
  BY <1>1, FS_EmptySet DEF Init, PendingCountsInFlight, RefCountsHolders
<1>4. Beginnings /\ WaitLists /\ InHand /\ Answers /\ Blocks
  BY DEF Init, Beginnings, WaitLists, Open, InHand, Answers, Blocks
<1>5. Memory /\ Flushing /\ Disposal
  BY DEF Init, Memory, Flushing, Disposal, Referring, Dying
<1> QED BY <1>2, <1>3, <1>4, <1>5 DEF IInv

(* Sets of calls are finite. *)
LEMMA CountsFinite ==
  /\ IsFiniteSet(Counted) /\ Cardinality(Counted) \in Nat
  /\ \A b \in Requests : IsFiniteSet(Holders(b)) /\ Cardinality(Holders(b)) \in Nat
<1>1. \A S \in SUBSET Requests : IsFiniteSet(S) /\ Cardinality(S) \in Nat
  BY RequestsFinite, FS_Subset, FS_CardinalityType
<1>2. Counted \in SUBSET Requests /\ \A b \in Requests : Holders(b) \in SUBSET Requests
  BY DEF Counted, Holders
<1> QED BY <1>1, <1>2

(* Where the holders of every block stay the same, so do the counts.       *)
LEMMA SameHolders ==
  ASSUME RefCountsHolders, refCount' = refCount,
         \A b \in Requests : mem'[b] # "none" => mem[b] # "none",
         \A b \in Requests : Holders(b)' = Holders(b)
  PROVE  RefCountsHolders'
  BY DEF RefCountsHolders

(* A Get of a mapped block makes its caller one more holder of it; when the
   count was 0 the block is revived, and Memory promises nothing any more. *)
LEMMA GetHitStep ==
  ASSUME IInv, NEW r \in Requests, NEW h \in Hashes, GetHit(r, h)
  PROVE  IInv'
<1>1. TypeOK'
  BY DEF IInv, TypeOK, ReqStates, GetHit, Hit, Begin, mapVars, fetchVars, flushVars
<1>2. Beginnings'
  BY DEF IInv, TypeOK, Beginnings, GetHit, Hit, Begin, fetchVars
<1>3. WaitLists'
  BY DEF IInv, Beginnings, WaitLists, Open, GetHit, Hit, Begin, mapVars, fetchVars
<1>4. InHand'
  BY DEF IInv, InHand, GetHit, Hit, Begin, mapVars, fetchVars
<1>5. Answers'
  BY DEF IInv, Answers, GetHit, Hit, Begin, fetchVars
<1>6. Blocks'
  BY DEF IInv, TypeOK, Beginnings, Blocks, GetHit, Hit, Begin, mapVars, fetchVars
<1>7. RefCountsHolders'
  <2>1. PICK b \in Requests : b = blockOf[h]
    BY DEF IInv, TypeOK, GetHit, Hit, Begin
  <2>2. r \notin Holders(b) /\ Holders(b)' = Holders(b) \cup {r}
    BY <2>1 DEF IInv, TypeOK, GetHit, Hit, Begin, Holders, Referring
  <2>3. \A c \in Requests \ {b} : Holders(c)' = Holders(c)
    BY <2>1 DEF IInv, TypeOK, GetHit, Hit, Begin, Holders, Referring
  <2>4. Cardinality(Holders(b)') = Cardinality(Holders(b)) + 1
    BY <2>1, <2>2, CountsFinite, FS_AddElement
  <2>5. mem[b] # "none" /\ refCount[b] = Cardinality(Holders(b))
    BY <2>1, NoneApart DEF IInv, Blocks, RefCountsHolders, GetHit, Hit
  <2>6. refCount' = [refCount EXCEPT ![b] = @ + 1] /\ mem' = mem
    BY <2>1 DEF GetHit, Hit
  <2>7. \A c \in Requests : mem'[c] # "none" =>
            refCount'[c] = Cardinality(Holders(c)')
    BY <2>1, <2>3, <2>4, <2>5, <2>6 DEF IInv, TypeOK, RefCountsHolders
  <2> QED BY <2>7 DEF RefCountsHolders
<1>8. Memory'
  <2> SUFFICES ASSUME revived' = {} PROVE Memory'
    BY DEF Memory
  <2>1. PICK b \in Requests : b = blockOf[h]
    BY DEF IInv, TypeOK, GetHit, Hit, Begin
  <2>2. revived = {} /\ refCount[b] # 0 /\ mem[b] = "live"
    BY <2>1, NoneApart DEF IInv, Memory, GetHit, Hit
  <2>3. \A x \in Requests : req[x] \in Dying => got[x] # b
    BY <2>2 DEF IInv, Memory
  <2>4. /\ got' = [got EXCEPT ![r] = b] /\ req' = [req EXCEPT ![r] = "hit"]
        /\ refCount' = [refCount EXCEPT ![b] = @ + 1] /\ uaf' = FALSE
        /\ mem' = mem /\ blockOf' = blockOf
    BY <2>1, <2>2 DEF GetHit, Hit, Begin, mapVars
  <2>5. \A x \in Requests : req'[x] \in Referring \cup Dying /\ got'[x] # None
                              => mem'[got'[x]] = "live"
    BY <2>2, <2>4 DEF IInv, TypeOK, Memory, Referring
  <2>6. \A x \in Requests : req'[x] \in Dying =>
            req[x] \in Dying /\ got'[x] = got[x] /\ refCount'[got[x]] = refCount[got[x]]
    BY <2>3, <2>4 DEF IInv, TypeOK, Dying
  <2>7. \A x \in Requests : req'[x] = "freeing" => req[x] = "freeing" /\ got'[x] = got[x]
    BY <2>4 DEF IInv, TypeOK
  <2> QED BY <2>2, <2>4, <2>5, <2>6, <2>7 DEF IInv, Memory
<1>9. Disposal'
  BY DEF IInv, Disposal, GetHit, Hit, Begin
<1>10. PendingCountsInFlight' /\ Flushing'
  BY DEF IInv, PendingCountsInFlight, Counted, Flushing, GetHit, Hit, fetchVars,
     flushVars
<1> QED BY <1>1, <1>2, <1>3, <1>4, <1>5, <1>6, <1>7, <1>8, <1>9, <1>10 DEF IInv

(* A Get of a hash that is being fetched adds its caller to the wait list,
   with no block in hand. *)
LEMMA GetJoinStep ==
  ASSUME IInv, NEW r \in Requests, NEW h \in Hashes, GetJoin(r, h)
  PROVE  IInv'
<1>1. TypeOK'
  BY DEF IInv, TypeOK, ReqStates, GetJoin, Begin, blockVars, fetchVars,
     flushVars
<1>2. Beginnings'
  BY DEF IInv, TypeOK, Beginnings, GetJoin, Begin, fetchVars
<1>3. WaitLists'
  BY DEF IInv, TypeOK, Beginnings, WaitLists, Open, GetJoin, Begin, fetchVars
<1>4. InHand'
  BY DEF IInv, InHand, GetJoin, Begin, fetchVars
<1>5. Answers'
  BY DEF IInv, Answers, GetJoin, Begin, fetchVars
<1>6. Blocks'
  BY DEF IInv, Beginnings, Blocks, GetJoin, Begin, blockVars, fetchVars
<1>7. RefCountsHolders'
  BY NoneApart DEF IInv, Beginnings, RefCountsHolders, Holders, GetJoin, Begin,
     blockVars
<1>8. Memory'
  BY DEF IInv, Beginnings, Memory, Dying, GetJoin, Begin, blockVars
<1>9. Disposal'
  BY DEF IInv, Disposal, GetJoin, Begin
<1>10. PendingCountsInFlight' /\ Flushing'
  BY DEF IInv, PendingCountsInFlight, Counted, Flushing, GetJoin, fetchVars,
     flushVars
<1> QED BY <1>1, <1>2, <1>3, <1>4, <1>5, <1>6, <1>7, <1>8, <1>9, <1>10 DEF IInv

(* The first Get of a hash opens its wait list; none was open, as no fetch
   of the hash was in a state that has one. *)
LEMMA GetFirstStep ==
  ASSUME IInv, NEW r \in Requests, NEW h \in Hashes, GetFirst(r, h)
  PROVE  IInv'
<1>1. TypeOK'
  BY DEF IInv, TypeOK, FetchStates, ReqStates, GetFirst, StartFetch, Begin,
     blockVars,
     flushVars
<1>2. Beginnings'
  BY DEF IInv, TypeOK, Beginnings, GetFirst, StartFetch, Begin
<1>3. WaitLists'
  BY DEF IInv, TypeOK, Beginnings, WaitLists, GetFirst, StartFetch, Begin
<1>4. InHand'
  BY DEF IInv, Beginnings, InHand, Calling, GetFirst, StartFetch, Begin
<1>5. Answers'
  BY DEF IInv, Answers, GetFirst, StartFetch, Begin
<1>6. PendingCountsInFlight'
  <2>1. Counted' = Counted
    BY DEF IInv, TypeOK, Beginnings, Counted, CountedStates,
       GetFirst, StartFetch, Begin
  <2> QED BY <2>1 DEF IInv, PendingCountsInFlight, GetFirst, StartFetch, Begin
<1>7. Blocks'
  BY DEF IInv, Beginnings, Blocks, GetFirst, StartFetch, Begin, blockVars
<1>8. RefCountsHolders'
  BY NoneApart DEF IInv, Beginnings, RefCountsHolders, Holders, GetFirst,
     StartFetch,
     Begin, blockVars
<1>9. Memory'
  BY DEF IInv, Beginnings, Memory, Dying, GetFirst, StartFetch, Begin, blockVars
<1>10. Flushing'
  BY DEF IInv, Beginnings, Flushing, CountedStates, Past, GetFirst, StartFetch,
     Begin,
     flushVars
<1>11. Disposal'
  BY DEF IInv, Disposal, GetFirst, StartFetch, Begin
<1> QED BY <1>1, <1>2, <1>3, <1>4, <1>5, <1>6, <1>7, <1>8, <1>9, <1>10,
           <1>11 DEF IInv

(* A Get that cannot allocate its completion leaves the wait list as it is,
   and is on it in name only. *)
LEMMA NoMemoryStep ==
  ASSUME IInv, NEW r \in Requests, NoMemory(r)
  PROVE  IInv'
<1>1. TypeOK'
  <2>1. told[r] = 0
    BY DEF IInv, TypeOK, Beginnings, WaitLists, Open, Answers, NoMemory
  <2> QED BY <2>1 DEF IInv, TypeOK, FetchStates, ReqStates, NoMemory, mapVars,
             blockVars, flushVars
<1>2. Beginnings'
  BY DEF IInv, Beginnings, NoMemory
<1>3. WaitLists'
  BY DEF IInv, TypeOK, WaitLists, Open, NoMemory, mapVars
<1>4. InHand'
  BY DEF IInv, Beginnings, InHand, Calling, WaitLists, Open, NoMemory, mapVars
<1>5. Answers'
  BY DEF IInv, TypeOK, Beginnings, Answers, WaitLists, Open, NoMemory
<1>6. PendingCountsInFlight'
  <2>1. Counted' = Counted
    BY DEF IInv, TypeOK, Counted, CountedStates, NoMemory
  <2> QED BY <2>1 DEF IInv, PendingCountsInFlight, NoMemory
<1>7. Blocks'
  BY DEF IInv, Blocks, NoMemory, mapVars, blockVars
<1>8. RefCountsHolders'
  <2>1. got[r] = None
    BY DEF IInv, TypeOK, Beginnings, WaitLists, Open, NoMemory
  <2>2. \A b \in Requests : Holders(b)' = Holders(b)
    BY <2>1, NoneApart DEF IInv, TypeOK, NoMemory, Holders, Referring
  <2> QED BY <2>2, SameHolders DEF IInv, NoMemory, blockVars
<1>9. Memory'
  BY DEF IInv, Memory, Referring, Dying, NoMemory, mapVars, blockVars
<1>10. Flushing'
  BY DEF IInv, Flushing, CountedStates, Past, NoMemory, flushVars
<1>11. Disposal'
  BY DEF IInv, Disposal, NoMemory
<1> QED BY <1>1, <1>2, <1>3, <1>4, <1>5, <1>6, <1>7, <1>8, <1>9, <1>10,
           <1>11 DEF IInv

(* The request is counted right before the backing store is called. *)
LEMMA CallBackingStep ==
  ASSUME IInv, NEW r \in Requests, CallBacking(r)
  PROVE  IInv'
<1>1. TypeOK'
  BY DEF IInv, TypeOK, FetchStates, CallBacking, mapVars, blockVars, callVars,
     flushVars
<1>2. Beginnings'
  BY DEF IInv, Beginnings, CallBacking, callVars
<1>3. WaitLists'
  BY DEF IInv, WaitLists, Open, CallBacking, mapVars, callVars
<1>4. InHand'
  BY DEF IInv, InHand, Calling, CallBacking, mapVars, callVars
<1>5. Answers'
  BY DEF IInv, Answers, CallBacking, callVars
<1>6. PendingCountsInFlight'
  <2>1. r \notin Counted /\ Counted' = Counted \cup {r}
    BY DEF IInv, TypeOK, CallBacking, Counted, CountedStates
  <2>2. Cardinality(Counted') = Cardinality(Counted) + 1
    BY <2>1, CountsFinite, FS_AddElement
  <2> QED BY <2>2 DEF IInv, PendingCountsInFlight, CallBacking
<1>7. Blocks'
  BY DEF IInv, Blocks, CallBacking, mapVars, blockVars, callVars
<1>8. Flushing'
  BY DEF IInv, Flushing, CountedStates, Past, CallBacking, flushVars
<1>9. Disposal'
  BY DEF IInv, Disposal, CallBacking
<1>10. RefCountsHolders' /\ Memory'
  BY DEF IInv, RefCountsHolders, Holders, Memory, CallBacking, mapVars,
     blockVars, callVars
<1> QED BY <1>1, <1>2, <1>3, <1>4, <1>5, <1>6, <1>7, <1>8, <1>9, <1>10 DEF IInv

(* A refused fetch takes its wait list, so its waiters are in nobody
   else's hands. *)
LEMMA BackingRefusesStep ==
  ASSUME IInv, NEW f \in Requests, BackingRefuses(f)
  PROVE  IInv'
<1>1. TypeOK'
  BY DEF IInv, TypeOK, Beginnings, FetchStates, BackingRefuses, TakeWaitList,
     blockVars, callVars, flushVars
<1>2. Beginnings'
  BY DEF IInv, Beginnings, BackingRefuses, TakeWaitList, callVars
<1>3. WaitLists'
  BY DEF IInv, TypeOK, WaitLists, Open, BackingRefuses, TakeWaitList, callVars
<1>4. InHand'
  BY DEF IInv, TypeOK, Beginnings, InHand, Calling, WaitLists, Open,
     BackingRefuses, TakeWaitList, callVars
<1>5. Answers'
  BY DEF IInv, TypeOK, Answers, WaitLists, Open, BackingRefuses, TakeWaitList,
     callVars
<1>6. PendingCountsInFlight'
  <2>1. Counted' = Counted
    BY DEF IInv, TypeOK, Counted, CountedStates, BackingRefuses, TakeWaitList
  <2> QED BY <2>1 DEF IInv, PendingCountsInFlight, BackingRefuses, TakeWaitList
<1>7. Blocks'
  BY DEF IInv, Blocks, BackingRefuses, TakeWaitList, blockVars, callVars
<1>8. Flushing'
  BY DEF IInv, Flushing, CountedStates, Past, BackingRefuses, TakeWaitList,
     flushVars
<1>9. Disposal'
  BY DEF IInv, Disposal, BackingRefuses, TakeWaitList
<1>10. RefCountsHolders' /\ Memory'
  BY DEF IInv, RefCountsHolders, Holders, Memory, BackingRefuses, blockVars,
     callVars
<1> QED BY <1>1, <1>2, <1>3, <1>4, <1>5, <1>6, <1>7, <1>8, <1>9, <1>10 DEF IInv

(* A failed fetch takes its wait list, so its waiters are in nobody
   else's hands. *)
LEMMA BackingFailsStep ==
  ASSUME IInv, NEW f \in Requests, BackingFails(f)
  PROVE  IInv'
<1>1. TypeOK'
  BY DEF IInv, TypeOK, Beginnings, FetchStates, BackingFails, TakeWaitList,
     blockVars, callVars, flushVars
<1>2. Beginnings'
  BY DEF IInv, Beginnings, BackingFails, TakeWaitList, callVars
<1>3. WaitLists'
  BY DEF IInv, TypeOK, WaitLists, Open, BackingFails, TakeWaitList, callVars
<1>4. InHand'
  BY DEF IInv, TypeOK, Beginnings, InHand, Calling, WaitLists, Open,
     BackingFails, TakeWaitList, callVars
<1>5. Answers'
  BY DEF IInv, TypeOK, Answers, WaitLists, Open, BackingFails, TakeWaitList,
     callVars
<1>6. PendingCountsInFlight'
  <2>1. Counted' = Counted
    BY DEF IInv, TypeOK, Counted, CountedStates, BackingFails, TakeWaitList
  <2> QED BY <2>1 DEF IInv, PendingCountsInFlight, BackingFails, TakeWaitList
<1>7. Blocks'
  BY DEF IInv, Blocks, BackingFails, TakeWaitList, blockVars, callVars
<1>8. Flushing'
  BY DEF IInv, Flushing, CountedStates, Past, BackingFails, TakeWaitList,
     flushVars
<1>9. Disposal'
  BY DEF IInv, Disposal, BackingFails, TakeWaitList
<1>10. RefCountsHolders' /\ Memory'
  BY DEF IInv, RefCountsHolders, Holders, Memory, BackingFails, blockVars,
     callVars
<1> QED BY <1>1, <1>2, <1>3, <1>4, <1>5, <1>6, <1>7, <1>8, <1>9, <1>10 DEF IInv

(* A delivered block gets as many references as callers get it, and the
   map finds a block only after its delivery. *)
LEMMA BackingDeliversStep ==
  ASSUME IInv, NEW f \in Requests, BackingDelivers(f)
  PROVE  IInv'
<1>0. /\ hash[f] \in Hashes /\ mem[f] = "none" /\ refCount[f] \in Nat
      /\ \A r \in waitList[hash[f]] : /\ r \in Requests /\ req[r] = "waiting"
                                      /\ got[r] = None
  <2>1. hash[f] \in Hashes /\ mem[f] = "none" /\ refCount[f] \in Nat
    BY DEF IInv, TypeOK, Beginnings, Blocks, BackingDelivers, Publish, TakeWaitList
  <2>2. ASSUME NEW r \in waitList[hash[f]]
        PROVE  r \in Requests /\ req[r] = "waiting" /\ got[r] = None
    <3>1. r \in Requests /\ hash[r] = hash[f] /\ got[r] = None
          /\ (req[r] = "waiting" \/ fetch[r] = "abandoned")
      BY <2>1 DEF IInv, TypeOK, WaitLists
    <3>2. fetch[r] # "abandoned"
      BY <3>1 DEF IInv, WaitLists, Open, BackingDelivers, Publish, TakeWaitList
    <3> QED BY <3>1, <3>2
  <2> QED BY <2>1, <2>2
<1>1. TypeOK'
  <2>1. Cardinality(waitList[hash[f]]) \in Nat
    BY <1>0, RequestsFinite, FS_Subset, FS_CardinalityType DEF IInv, TypeOK
  <2>2. refCount' \in [Requests -> Nat] /\ got' \in [Requests -> Requests \cup {None}]
    BY <1>0, <2>1 DEF IInv, TypeOK, BackingDelivers, Publish
  <2>3. /\ mem' \in [Requests -> {"none", "live", "freed"}]
        /\ fetch' \in [Requests -> FetchStates]
        /\ blockOf' \in [Hashes -> Requests \cup {None}]
    BY DEF IInv, TypeOK, FetchStates, BackingDelivers, Publish
  <2>4. /\ waitList' \in [Hashes -> SUBSET Requests]
        /\ calls' \in [Requests -> SUBSET Requests]
    BY <1>0 DEF IInv, TypeOK, BackingDelivers, Publish, TakeWaitList
  <2> QED BY <2>2, <2>3, <2>4 DEF IInv, TypeOK, BackingDelivers, Publish, flushVars
<1>2. Beginnings'
  BY <1>0 DEF IInv, TypeOK, Beginnings, BackingDelivers, Publish, TakeWaitList
<1>3. WaitLists'
  BY DEF IInv, TypeOK, Beginnings, WaitLists, Open, BackingDelivers, Publish,
     TakeWaitList
<1>4. InHand'
  BY DEF IInv, TypeOK, Beginnings, InHand, Calling, WaitLists, Open,
     BackingDelivers, Publish, TakeWaitList
<1>5. Answers'
  BY DEF IInv, Answers, BackingDelivers, Publish, TakeWaitList
<1>6. PendingCountsInFlight'
  <2>1. Counted' = Counted
    BY DEF IInv, TypeOK, Counted, CountedStates,
       BackingDelivers, Publish, TakeWaitList
  <2> QED BY <2>1
      DEF IInv, PendingCountsInFlight, BackingDelivers, Publish, TakeWaitList
<1>7. Blocks'
  BY NoneApart DEF IInv, TypeOK, Blocks, BackingDelivers, Publish
<1>8. RefCountsHolders'
  <2> DEFINE w == waitList[hash[f]]
  <2>1. Holders(f) = {}
    BY NoneApart DEF IInv, Blocks, Holders, BackingDelivers, Publish, TakeWaitList
  <2>2. Holders(f)' = w
    BY <1>0, <2>1 DEF IInv, TypeOK, BackingDelivers, Publish, Holders, Referring
  <2>3. \A c \in Requests \ {f} : Holders(c)' = Holders(c)
    BY <1>0, NoneApart DEF IInv, TypeOK, BackingDelivers, Publish, Holders,
       Referring
  <2>4. /\ refCount' = [refCount EXCEPT ![f] = Cardinality(w)]
        /\ mem' = [mem EXCEPT ![f] = "live"]
    BY DEF BackingDelivers, Publish
  <2> HIDE DEF w
  <2>5. \A c \in Requests : mem'[c] # "none" =>
            refCount'[c] = Cardinality(Holders(c)')
    BY <2>2, <2>3, <2>4 DEF IInv, TypeOK, RefCountsHolders
  <2> QED BY <2>5 DEF RefCountsHolders
<1>9. Memory'
  <2> SUFFICES ASSUME revived = {} PROVE Memory'
    BY DEF Memory, BackingDelivers, Publish
  <2>1. \A x \in Requests : got[x] # f
    BY <1>0, NoneApart DEF IInv, Blocks
  <2>2. /\ got' = [x \in Requests |-> IF x \in waitList[hash[f]] THEN f ELSE got[x]]
        /\ mem' = [mem EXCEPT ![f] = "live"] /\ req' = req /\ uaf' = uaf
        /\ blockOf' = [blockOf EXCEPT ![hash[f]] = f]
        /\ \A b \in Requests \ {f} : refCount'[b] = refCount[b]
    BY DEF IInv, TypeOK, BackingDelivers, Publish
  <2>3. \A x \in Requests : req'[x] \in Referring \cup Dying /\ got'[x] # None
                              => mem'[got'[x]] = "live"
    BY <1>0, <2>1, <2>2 DEF IInv, TypeOK, Memory, Referring
  <2>4. \A x \in Requests : req'[x] \in Dying => req[x] \in Dying /\ got'[x] = got[x]
                              /\ got[x] \in Requests /\ refCount'[got[x]] = refCount[got[x]]
    BY <1>0, <2>1, <2>2 DEF IInv, TypeOK, Blocks, Dying
  <2>5. \A x \in Requests : req'[x] = "freeing" => \A h \in Hashes : blockOf'[h] # got'[x]
    BY <1>0, <2>1, <2>2, <2>4 DEF IInv, TypeOK, Memory, Dying
  <2>6. \A h \in Hashes : blockOf'[h] # None => mem'[blockOf'[h]] = "live"
    BY <1>0, <2>2 DEF IInv, TypeOK, Memory
  <2> QED BY <2>2, <2>3, <2>4, <2>5, <2>6 DEF IInv, Memory
<1>10. Flushing'
  BY DEF IInv, Flushing, CountedStates, Past, BackingDelivers, Publish,
     TakeWaitList,
     flushVars
<1>11. Disposal'
  BY DEF IInv, Disposal, BackingDelivers, Publish, TakeWaitList
<1> QED BY <1>1, <1>2, <1>3, <1>4, <1>5, <1>6, <1>7, <1>8, <1>9, <1>10,
           <1>11 DEF IInv

(* A waiter that is called learns the outcome for the first time, and
   leaves the hands of the fetch. *)
LEMMA CallWaiterStep ==
  ASSUME IInv, NEW f \in Requests, NEW r \in Requests, CallWaiter(f, r)
  PROVE  IInv'
<1>0. /\ fetch[f] \in Calling /\ req[r] = "waiting"
      /\ got[r] = IF fetch[f] = "delivering" THEN f ELSE None
      /\ \A h \in Hashes : r \notin waitList[h]
      /\ \A g \in Requests : r \in calls[g] => g = f
  BY DEF IInv, InHand, CallWaiter
<1>1. TypeOK'
  <2>1. r \in Requests /\ told[r] = 0
    BY <1>0 DEF IInv, TypeOK, Answers
  <2> QED BY <2>1 DEF IInv, TypeOK, ReqStates, CallWaiter, mapVars, blockVars,
                      flushVars
<1>2. Beginnings'
  BY <1>0 DEF IInv, TypeOK, Calling, CallWaiter, mapVars, blockVars, flushVars,
     Beginnings
<1>3. WaitLists'
  BY <1>0 DEF IInv, TypeOK, Calling, CallWaiter, mapVars, blockVars, flushVars,
     WaitLists, Open
<1>4. InHand'
  BY DEF IInv, TypeOK, InHand, CallWaiter, mapVars
<1>5. Answers'
  BY DEF IInv, TypeOK, Answers, InHand, CallWaiter
<1>6. Blocks'
  BY <1>0, NoneApart DEF IInv, TypeOK, Calling, CallWaiter, mapVars, blockVars,
     flushVars, Blocks
<1>7. RefCountsHolders'
  <2>1. \A b \in Requests : Holders(b)' = Holders(b)
    BY <1>0, NoneApart DEF IInv, TypeOK, Calling, CallWaiter, mapVars,
       blockVars, flushVars, Holders, Referring
  <2> QED BY <2>1, SameHolders DEF IInv, CallWaiter, blockVars
<1>8. Memory'
  <2> SUFFICES ASSUME revived = {} PROVE Memory'
    BY DEF Memory, CallWaiter
  <2> QED BY <1>0 DEF IInv, TypeOK, Calling, CallWaiter, mapVars, blockVars,
             flushVars, Memory, Referring, Dying
<1>9. Disposal'
  BY DEF IInv, Disposal, CallWaiter, flushVars
<1>10. PendingCountsInFlight' /\ Flushing'
  BY DEF IInv, PendingCountsInFlight, Counted, Flushing, CallWaiter, flushVars
<1> QED BY <1>1, <1>2, <1>3, <1>4, <1>5, <1>6, <1>7, <1>8, <1>9, <1>10 DEF IInv

(* The caller of a hit learns the outcome for the first time. *)
LEMMA CallHitStep ==
  ASSUME IInv, NEW r \in Requests, CallHit(r)
  PROVE  IInv'
<1>1. TypeOK'
  <2>1. told[r] = 0
    BY DEF IInv, Answers, CallHit
  <2> QED BY <2>1 DEF IInv, TypeOK, FetchStates, ReqStates, CallHit, mapVars,
             blockVars, fetchVars, flushVars
<1>2. Beginnings'
  BY DEF IInv, Beginnings, CallHit, fetchVars
<1>3. WaitLists'
  BY DEF IInv, WaitLists, CallHit, mapVars, fetchVars
<1>4. InHand'
  BY DEF IInv, InHand, CallHit, mapVars, fetchVars
<1>5. Answers'
  BY DEF IInv, TypeOK, Answers, CallHit, fetchVars
<1>6. Blocks'
  BY DEF IInv, Blocks, CallHit, mapVars, blockVars, fetchVars
<1>7. RefCountsHolders'
  BY DEF IInv, RefCountsHolders, Holders, Referring, CallHit, blockVars
<1>8. Memory'
  BY DEF IInv, Memory, Referring, Dying, CallHit, mapVars, blockVars
<1>9. Disposal'
  BY DEF IInv, Disposal, CallHit
<1>10. PendingCountsInFlight' /\ Flushing'
  BY DEF IInv, PendingCountsInFlight, Counted, Flushing, CallHit, fetchVars,
     flushVars
<1> QED BY <1>1, <1>2, <1>3, <1>4, <1>5, <1>6, <1>7, <1>8, <1>9, <1>10 DEF IInv

(* The refused caller gets the error a second time, and its count is
   never taken back. *)
LEMMA ReturnRefusedStep ==
  ASSUME IInv, NEW f \in Requests, ReturnRefused(f)
  PROVE  IInv'
<1>1. TypeOK'
  <2>1. told[f] \in 0..1
    BY DEF IInv, TypeOK, Answers, ReturnRefused
  <2> QED BY <2>1 DEF IInv, TypeOK, FetchStates, ReqStates, ReturnRefused,
             mapVars, blockVars, flushVars
<1>2. Beginnings'
  BY DEF IInv, Beginnings, ReturnRefused
<1>3. WaitLists'
  BY DEF IInv, WaitLists, Open, ReturnRefused, mapVars
<1>4. InHand'
  BY DEF IInv, InHand, ReturnRefused, mapVars
<1>5. Answers'
  BY DEF IInv, TypeOK, Answers, ReturnRefused
<1>6. PendingCountsInFlight'
  <2>1. Counted' = Counted
    BY DEF IInv, TypeOK, Counted, CountedStates, ReturnRefused
  <2> QED BY <2>1 DEF IInv, PendingCountsInFlight, ReturnRefused
<1>7. Blocks'
  BY DEF IInv, Blocks, ReturnRefused, mapVars, blockVars
<1>8. Flushing'
  BY DEF IInv, Flushing, CountedStates, Past, ReturnRefused, flushVars
<1>9. Disposal'
  BY DEF IInv, Disposal, ReturnRefused
<1>10. RefCountsHolders' /\ Memory'
  BY DEF IInv, RefCountsHolders, Holders, Memory, ReturnRefused, mapVars,
     blockVars
<1> QED BY <1>1, <1>2, <1>3, <1>4, <1>5, <1>6, <1>7, <1>8, <1>9, <1>10 DEF IInv

(* The request that completes was counted; when it was the last, all that
   any flush covers has completed. *)
LEMMA CompleteRequestStep ==
  ASSUME IInv, NEW f \in Requests, CompleteRequest(f)
  PROVE  IInv'
<1>0. f \in Counted /\ Counted' = Counted \ {f} /\ pending = Cardinality(Counted)
      /\ pending > 0 /\ Cardinality(Counted') = pending - 1
  <2>1. f \in Counted /\ Counted' = Counted \ {f}
    BY DEF IInv, TypeOK, CompleteRequest, LeaveCount, Counted, CountedStates
  <2>2. pending = Cardinality(Counted) /\ Cardinality(Counted) # 0
    BY <2>1, CountsFinite, FS_EmptySet DEF IInv, PendingCountsInFlight
  <2>3. Cardinality(Counted \ {f}) = Cardinality(Counted) - 1
    BY <2>1, CountsFinite, FS_RemoveElement
  <2> QED BY <2>1, <2>2, <2>3, CountsFinite
<1>1. TypeOK'
  <2>1. pending' \in Nat
    BY <1>0, CountsFinite DEF CompleteRequest, LeaveCount
  <2> QED BY <2>1 DEF IInv, TypeOK, FetchStates, CompleteRequest, LeaveCount,
             mapVars,
                      blockVars, callVars
<1>2. Beginnings'
  BY DEF IInv, Beginnings, CompleteRequest, LeaveCount, callVars
<1>3. WaitLists'
  BY DEF IInv, WaitLists, Open, CompleteRequest, LeaveCount, mapVars, callVars
<1>4. InHand'
  BY DEF IInv, InHand, CompleteRequest, LeaveCount, mapVars, callVars
<1>5. Answers'
  BY DEF IInv, Answers, CompleteRequest, LeaveCount, callVars
<1>6. PendingCountsInFlight'
  BY <1>0 DEF PendingCountsInFlight, CompleteRequest, LeaveCount
<1>7. Blocks'
  BY DEF IInv, Blocks, CompleteRequest, LeaveCount, mapVars, blockVars, callVars
<1>8. Flushing'
  <2>1. CASE pending = 1
    <3>1. Counted' = {}
      BY <1>0, <2>1, CountsFinite, FS_EmptySet, FS_Subset
    <3>2. \A g \in Flushes : \A e \in covers[g] : fetch'[e] \in CountedStates \cup Past
      BY DEF IInv, TypeOK, Flushing, Past, CompleteRequest, LeaveCount
    <3>3. \A g \in Flushes : \A e \in covers[g] : fetch'[e] \in Past
      BY <3>1, <3>2 DEF IInv, TypeOK, Counted
    <3> QED BY <2>1, <3>3 DEF IInv, TypeOK, Flushing, CompleteRequest, LeaveCount
  <2>2. CASE pending # 1
    BY <2>2 DEF IInv, TypeOK, Flushing, CountedStates, Past, CompleteRequest,
       LeaveCount
  <2> QED BY <2>1, <2>2
<1>9. Disposal'
  BY DEF IInv, Disposal, CompleteRequest, LeaveCount
<1>10. RefCountsHolders' /\ Memory'
  BY DEF IInv, RefCountsHolders, Holders, Memory, CompleteRequest, LeaveCount,
     mapVars,
     blockVars, callVars
<1> QED BY <1>1, <1>2, <1>3, <1>4, <1>5, <1>6, <1>7, <1>8, <1>9, <1>10 DEF IInv

(* The spin lock is left by the request that completed. *)
LEMMA UnlockStep ==
  ASSUME IInv, NEW f \in Requests, Unlock(f)
  PROVE  IInv'
<1>1. TypeOK'
  BY DEF IInv, TypeOK, FetchStates, Unlock, mapVars, blockVars, callVars,
     flushVars
<1>2. Beginnings'
  BY DEF IInv, Beginnings, Unlock, callVars
<1>3. WaitLists'
  BY DEF IInv, WaitLists, Open, Unlock, mapVars, callVars
<1>4. InHand'
  BY DEF IInv, InHand, Calling, Unlock, mapVars, callVars
<1>5. Answers'
  BY DEF IInv, Answers, Unlock, callVars
<1>6. PendingCountsInFlight'
  <2>1. Counted' = Counted
    BY DEF IInv, TypeOK, Counted, CountedStates, Unlock
  <2> QED BY <2>1 DEF IInv, PendingCountsInFlight, Unlock
<1>7. Blocks'
  BY DEF IInv, Blocks, Unlock, mapVars, blockVars, callVars
<1>8. Flushing'
  BY DEF IInv, Flushing, Past, Unlock, flushVars
<1>9. Disposal'
  BY DEF IInv, Disposal, Unlock, callVars, flushVars
<1>10. RefCountsHolders' /\ Memory'
  BY DEF IInv, RefCountsHolders, Holders, Memory, Unlock, mapVars, blockVars,
     callVars
<1> QED BY <1>1, <1>2, <1>3, <1>4, <1>5, <1>6, <1>7, <1>8, <1>9, <1>10 DEF IInv

(* The flushes called are those taken off the list, whose requests are over. *)
LEMMA CallFlushStep ==
  ASSUME IInv, NEW f \in Requests, NEW g \in Flushes, CallFlush(f, g)
  PROVE  IInv'
<1>1. TypeOK'
  BY DEF IInv, TypeOK, CallFlush, mapVars, blockVars, callVars
<1>2. Flushing'
  <2>1. \A f1 \in covers[g] : fetch[f1] \in Past
    BY DEF IInv, Flushing, CallFlush
  <2>2. flush[g] # "idle"
    BY DEF IInv, Flushing, CallFlush
  <2> QED BY <2>1, <2>2 DEF IInv, TypeOK, Flushing, CountedStates, Past, CallFlush
<1>3. Beginnings' /\ WaitLists' /\ InHand' /\ Answers'
      /\ PendingCountsInFlight' /\ Blocks' /\ RefCountsHolders' /\ Memory'
      /\ Disposal'
  BY DEF IInv, Beginnings, WaitLists, InHand, Answers, PendingCountsInFlight,
     Counted, Blocks, RefCountsHolders, Holders, Memory, Disposal, CallFlush,
     mapVars, blockVars, callVars
<1> QED BY <1>1, <1>2, <1>3 DEF IInv

(* A flush that is queued covers the counted requests; one that is answered
   at once covers none. *)
LEMMA FlushStep ==
  ASSUME IInv, NEW g \in Flushes, Flush(g)
  PROVE  IInv'
<1>1. TypeOK'
  <2>1. Counted \in SUBSET Requests
    BY DEF Counted
  <2> QED BY <2>1 DEF IInv, TypeOK, Flush, mapVars, blockVars, fetchVars, callVars
<1>2. Flushing'
  <2>1. pending = 0 => Counted = {}
    BY CountsFinite, FS_EmptySet DEF IInv, PendingCountsInFlight
  <2>2. \A f \in Counted : fetch[f] \in CountedStates
    BY DEF Counted
  <2> HIDE DEF Counted
  <2>3. covers' = [covers EXCEPT ![g] = Counted] /\ fetch' = fetch
        /\ flushCalls' = flushCalls
    BY DEF Flush, fetchVars
  <2>4. CASE pending > 0
    BY <2>2, <2>3, <2>4 DEF IInv, TypeOK, Flushing, Flush
  <2>5. CASE pending = 0
    BY <2>1, <2>2, <2>3, <2>5 DEF IInv, TypeOK, Flushing, Flush
  <2> QED BY <2>4, <2>5 DEF IInv, TypeOK
<1>3. Disposal'
  BY DEF IInv, Disposal, Flush
<1>4. Beginnings' /\ WaitLists' /\ InHand' /\ Answers'
      /\ PendingCountsInFlight' /\ Blocks' /\ RefCountsHolders' /\ Memory'
  BY DEF IInv, Beginnings, WaitLists, InHand, Answers, PendingCountsInFlight,
     Counted, Blocks, RefCountsHolders, Holders, Memory, Flush, mapVars,
     blockVars, fetchVars, callVars
<1> QED BY <1>1, <1>2, <1>3, <1>4 DEF IInv

(* The caller that takes the last reference becomes the one that disposes
   of the block. *)
LEMMA DropReferenceStep ==
  ASSUME IInv, NEW r \in Requests, DropReference(r)
  PROVE  IInv'
<1>0. /\ got[r] \in Requests /\ r \in Holders(got[r])
      /\ refCount[got[r]] = Cardinality(Holders(got[r])) /\ refCount[got[r]] > 0
  <2>1. got[r] \in Requests /\ mem[got[r]] # "none"
    BY DEF IInv, TypeOK, Blocks, DropReference
  <2>2. r \in Holders(got[r]) /\ refCount[got[r]] = Cardinality(Holders(got[r]))
    BY <2>1 DEF IInv, RefCountsHolders, DropReference, Holders, Referring
  <2>3. Cardinality(Holders(got[r])) # 0
    BY <2>1, <2>2, CountsFinite, FS_EmptySet
  <2> QED BY <2>1, <2>2, <2>3 DEF IInv, TypeOK
<1>1. TypeOK'
  <2>1. refCount' \in [Requests -> Nat]
    BY <1>0 DEF IInv, TypeOK, DropReference
  <2>2. uaf' \in BOOLEAN
    BY DEF DropReference
  <2>3. req' \in [Requests -> ReqStates]
    BY DEF IInv, TypeOK, ReqStates, DropReference
  <2> QED BY <2>1, <2>2, <2>3 DEF IInv, TypeOK, DropReference, mapVars, fetchVars,
                                 flushVars
<1>2. Beginnings'
  BY DEF IInv, Beginnings, DropReference, fetchVars
<1>3. WaitLists'
  BY DEF IInv, WaitLists, DropReference, mapVars, fetchVars
<1>4. InHand'
  BY DEF IInv, InHand, DropReference, mapVars, fetchVars
<1>5. Answers'
  BY DEF IInv, Answers, DropReference, fetchVars
<1>6. Blocks'
  BY DEF IInv, Blocks, DropReference, mapVars, fetchVars
<1>7. RefCountsHolders'
  <2>1. PICK b \in Requests : b = got[r]
    BY <1>0
  <2>2. Holders(b)' = Holders(b) \ {r}
    BY <1>0, <2>1 DEF IInv, TypeOK, DropReference, Holders, Referring
  <2>3. \A c \in Requests \ {b} : Holders(c)' = Holders(c)
    BY <1>0, <2>1 DEF IInv, TypeOK, DropReference, Holders, Referring
  <2>4. Cardinality(Holders(b)') = Cardinality(Holders(b)) - 1
    BY <1>0, <2>1, <2>2, CountsFinite, FS_RemoveElement
  <2>5. refCount' = [refCount EXCEPT ![b] = @ - 1] /\ mem' = mem
    BY <2>1 DEF DropReference
  <2>6. \A c \in Requests : mem'[c] # "none" =>
            refCount'[c] = Cardinality(Holders(c)')
    BY <1>0, <2>1, <2>3, <2>4, <2>5 DEF IInv, TypeOK, RefCountsHolders
  <2> QED BY <2>6 DEF RefCountsHolders
<1>8. Memory'
  <2> SUFFICES ASSUME revived = {} PROVE Memory'
    BY DEF Memory, DropReference
  <2>1. PICK b \in Requests : b = got[r]
    BY <1>0
  <2>2. mem[b] = "live" /\ \A x \in Requests : req[x] \in Dying => got[x] # b
    BY <1>0, <2>1, NoneApart DEF IInv, Memory, Referring, DropReference
  <2>3. /\ refCount' = [refCount EXCEPT ![b] = @ - 1]
        /\ req' = [req EXCEPT ![r] = IF refCount[b] > 1 THEN "released" ELSE "disposing"]
        /\ got' = got /\ mem' = mem /\ blockOf' = blockOf /\ uaf' = FALSE
    BY <2>1, <2>2 DEF DropReference, mapVars
  <2>4. \A x \in Requests : req'[x] \in Referring \cup Dying /\ got'[x] # None
                              => mem'[got'[x]] = "live"
    BY <2>1, <2>2, <2>3 DEF IInv, TypeOK, Memory, Referring
  <2>5. \A x \in Requests : req'[x] \in Dying =>
            \/ x # r /\ req[x] \in Dying /\ got[x] # b
            \/ x = r /\ got[x] = b /\ refCount[b] <= 1
    BY <2>1, <2>2, <2>3 DEF IInv, TypeOK, Dying
  <2>6. \A x \in Requests : req'[x] \in Dying => refCount'[got'[x]] = 0
    BY <1>0, <2>1, <2>3, <2>5 DEF IInv, TypeOK, Memory
  <2>7. \A x \in Requests : req'[x] = "freeing" => req[x] = "freeing"
    BY <2>3 DEF IInv, TypeOK
  <2> QED BY <2>1, <2>3, <2>4, <2>5, <2>6, <2>7 DEF IInv, Memory
<1>9. Disposal'
  BY DEF IInv, Disposal, DropReference
<1>10. PendingCountsInFlight' /\ Flushing'
  BY DEF IInv, PendingCountsInFlight, Counted, Flushing, DropReference,
     fetchVars, flushVars
<1> QED BY <1>1, <1>2, <1>3, <1>4, <1>5, <1>6, <1>7, <1>8, <1>9, <1>10 DEF IInv

(* The block is taken out of the map before it is freed. *)
LEMMA UnmapStep ==
  ASSUME IInv, NEW r \in Requests, Unmap(r)
  PROVE  IInv'
<1>1. TypeOK'
  BY DEF IInv, TypeOK, ReqStates, Unmap, blockVars, fetchVars, flushVars
<1>2. Beginnings'
  BY DEF IInv, TypeOK, Beginnings, Unmap, fetchVars
<1>3. WaitLists'
  BY DEF IInv, TypeOK, Beginnings, WaitLists, Open, Unmap, fetchVars
<1>4. InHand'
  BY DEF IInv, TypeOK, InHand, Unmap, fetchVars
<1>5. Answers'
  BY DEF IInv, TypeOK, Answers, Unmap, fetchVars
<1>6. Blocks'
  BY DEF IInv, TypeOK, Blocks, Unmap, blockVars, fetchVars
<1>7. RefCountsHolders'
  BY DEF IInv, TypeOK, RefCountsHolders, Holders, Referring, Unmap, blockVars
<1>8. Memory'
  <2> SUFFICES ASSUME revived = {} PROVE Memory'
    BY DEF Memory, Unmap
  <2>1. got[r] \in Requests /\ refCount[got[r]] = 0 /\ mem[got[r]] = "live"
    BY NoneApart DEF IInv, TypeOK, Memory, Blocks, Dying, Unmap
  <2>2. /\ req' = [req EXCEPT ![r] = "freeing"]
        /\ blockOf' = [blockOf EXCEPT ![hash[got[r]]] = None]
        /\ uaf' = FALSE /\ got' = got /\ mem' = mem /\ refCount' = refCount
    BY <2>1 DEF Unmap, blockVars
  <2>3. \A h \in Hashes : blockOf'[h] # got[r]
    BY <2>1, <2>2, NoneApart DEF IInv, TypeOK, Blocks
  <2>4. \A h \in Hashes : blockOf'[h] # None => blockOf'[h] = blockOf[h]
    BY <2>2 DEF IInv, TypeOK
  <2>5. \A x \in Requests : req'[x] \in Referring \cup Dying => req[x] \in Referring \cup Dying
    BY <2>2 DEF IInv, TypeOK, Dying, Unmap
  <2>6. \A x \in Requests : req'[x] \in Dying => req[x] \in Dying
    BY <2>2 DEF IInv, TypeOK, Dying, Unmap
  <2>7. \A x \in Requests : req'[x] = "freeing" => x = r \/ req[x] = "freeing"
    BY <2>2 DEF IInv, TypeOK
  <2>8. \A x \in Requests : req'[x] = "freeing" => \A h \in Hashes : blockOf'[h] # got'[x]
    BY <2>2, <2>3, <2>4, <2>7, NoneApart, <2>1 DEF IInv, TypeOK, Memory, Blocks
  <2> QED BY <2>2, <2>4, <2>5, <2>6, <2>8 DEF IInv, Memory
<1>9. Disposal'
  BY DEF IInv, Disposal, Unmap
<1>10. PendingCountsInFlight' /\ Flushing'
  BY DEF IInv, PendingCountsInFlight, Counted, Flushing, Unmap, fetchVars,
     flushVars
<1> QED BY <1>1, <1>2, <1>3, <1>4, <1>5, <1>6, <1>7, <1>8, <1>9, <1>10 DEF IInv

(* The block that is freed has no holder and is not in the map, unless it
   was revived. *)
LEMMA FreeStep ==
  ASSUME IInv, NEW r \in Requests, Free(r)
  PROVE  IInv'
<1>1. TypeOK'
  BY DEF IInv, TypeOK, ReqStates, Free, mapVars, fetchVars, flushVars
<1>2. Beginnings'
  BY DEF IInv, Beginnings, Free, fetchVars
<1>3. WaitLists'
  BY DEF IInv, WaitLists, Free, mapVars, fetchVars
<1>4. InHand'
  BY DEF IInv, InHand, Free, mapVars, fetchVars
<1>5. Answers'
  BY DEF IInv, Answers, Free, fetchVars
<1>6. Blocks'
  BY DEF IInv, Blocks, Free, mapVars, fetchVars
<1>7. RefCountsHolders'
  <2>1. \A b \in Requests : Holders(b)' = Holders(b)
    BY DEF IInv, TypeOK, Free, Holders, Referring
  <2>2. mem[got[r]] # "none"
    BY DEF IInv, Blocks, Free
  <2>3. \A b \in Requests : mem'[b] # "none" => mem[b] # "none"
    BY <2>2 DEF IInv, TypeOK, Free
  <2> QED BY <2>1, <2>3, SameHolders DEF IInv, Free
<1>8. Memory'
  <2> SUFFICES ASSUME revived = {} PROVE Memory'
    BY DEF Memory, Free
  <2>1. PICK b \in Requests : b = got[r]
    BY NoneApart DEF IInv, TypeOK, Blocks, Free
  <2>2. mem[b] = "live" /\ refCount[b] = 0 /\ \A h \in Hashes : blockOf[h] # b
    BY <2>1, NoneApart DEF IInv, Memory, Dying, Free
  <2>3. Holders(b) = {}
    BY <2>2, CountsFinite, FS_EmptySet DEF IInv, RefCountsHolders
  <2>4. \A x \in Requests \ {r} : req[x] \in Referring \cup Dying => got[x] # b
    BY <2>1, <2>3 DEF IInv, Memory, Holders, Dying, Free
  <2>5. /\ req' = [req EXCEPT ![r] = "released"] /\ got' = got
        /\ mem' = [mem EXCEPT ![b] = "freed"] /\ uaf' = FALSE
        /\ blockOf' = blockOf /\ refCount' = refCount
    BY <2>1, <2>2 DEF Free, mapVars
  <2>6. \A x \in Requests : req'[x] \in Referring \cup Dying => x # r /\ req[x] = req'[x]
    BY <2>5 DEF IInv, TypeOK, Referring, Dying
  <2>7. \A x \in Requests : req'[x] \in Referring \cup Dying /\ got'[x] # None
                              => mem'[got'[x]] = "live"
    BY <2>4, <2>5, <2>6 DEF IInv, TypeOK, Memory
  <2>8. \A h \in Hashes : blockOf'[h] # None => mem'[blockOf'[h]] = "live"
    BY <2>2, <2>5 DEF IInv, TypeOK, Memory
  <2> QED BY <2>5, <2>6, <2>7, <2>8 DEF IInv, Memory, Dying
<1>9. Disposal'
  BY DEF IInv, Disposal, Free
<1>10. PendingCountsInFlight' /\ Flushing'
  BY DEF IInv, PendingCountsInFlight, Counted, Flushing, Free, fetchVars,
     flushVars
<1> QED BY <1>1, <1>2, <1>3, <1>4, <1>5, <1>6, <1>7, <1>8, <1>9, <1>10 DEF IInv

(* Dispose leaves its loop only when no request is counted. *)
LEMMA DisposeStep ==
  ASSUME IInv, Dispose
  PROVE  IInv'
<1>1. TypeOK'
  BY DEF IInv, TypeOK, Dispose, Disposing, mapVars, blockVars, fetchVars, callVars,
     flushVars
<1>2. Disposal'
  <2>1. Counted = {}
    BY CountsFinite, FS_EmptySet DEF IInv, PendingCountsInFlight, Dispose, Disposing
  <2>2. flushList = {}
    BY DEF IInv, TypeOK, Flushing, Dispose, Disposing
  <2>3. \A f \in Requests : fetch[f] \in {"none", "unlocking", "done", "abandoned"}
    BY <2>1 DEF IInv, TypeOK, FetchStates, Counted, CountedStates, Dispose,
       Disposing
  <2> QED BY <2>2, <2>3 DEF Disposal, Dispose, Disposing, fetchVars, callVars,
             flushVars
<1>3. Beginnings' /\ WaitLists' /\ InHand' /\ Answers'
      /\ PendingCountsInFlight' /\ Blocks' /\ RefCountsHolders' /\ Memory'
      /\ Flushing'
  BY DEF IInv, Beginnings, WaitLists, InHand, Answers, PendingCountsInFlight,
     Counted, Blocks, RefCountsHolders, Holders, Memory, Flushing, Dispose,
     Disposing,
     mapVars, blockVars, fetchVars, callVars, flushVars
<1> QED BY <1>1, <1>2, <1>3 DEF IInv

--------------------------------------------------------------------------------
(* Every step of the store, and every stuttering step, keeps IInv. *)
LEMMA NextIInv == IInv /\ [Next]_vars => IInv'
<1> SUFFICES ASSUME IInv, [Next]_vars PROVE IInv'
  OBVIOUS
<1>1. ASSUME NEW r \in Requests, Get(r) PROVE IInv'
  BY <1>1, GetHitStep, GetJoinStep, GetFirstStep DEF Get
<1>2. ASSUME NEW r \in Requests, Progress(r) PROVE IInv'
  <2>1. CASE CallBacking(r) \/ CallHit(r) \/ ReturnRefused(r)
    BY <2>1, CallBackingStep, CallHitStep, ReturnRefusedStep
  <2>2. CASE BackingRefuses(r) \/ BackingFails(r) \/ BackingDelivers(r)
    BY <2>2, BackingRefusesStep, BackingFailsStep, BackingDeliversStep
  <2>3. CASE \E x \in Requests : CallWaiter(r, x)
    BY <2>3, CallWaiterStep
  <2>4. CASE CompleteRequest(r) \/ Unlock(r)
    BY <2>4, CompleteRequestStep, UnlockStep
  <2>5. CASE \E g \in Flushes : CallFlush(r, g)
    BY <2>5, CallFlushStep
  <2>6. CASE Unmap(r) \/ Free(r)
    BY <2>6, UnmapStep, FreeStep
  <2> QED BY <1>2, <2>1, <2>2, <2>3, <2>4, <2>5, <2>6 DEF Progress
<1>3. ASSUME NEW r \in Requests, NoMemory(r) \/ DropReference(r) PROVE IInv'
  BY <1>3, NoMemoryStep, DropReferenceStep
<1>4. ASSUME NEW g \in Flushes, Flush(g) PROVE IInv'
  BY <1>4, FlushStep
<1>5. CASE Dispose
  BY <1>5, DisposeStep
<1>6. CASE UNCHANGED vars
  <2>1. TypeOK' /\ Beginnings' /\ WaitLists' /\ InHand' /\ Answers' /\ Disposal'
    BY <1>6 DEF IInv, TypeOK, Beginnings, WaitLists, InHand, Answers, Disposal,
       vars,
       mapVars, blockVars, fetchVars, callVars, flushVars
  <2>2. PendingCountsInFlight' /\ Blocks' /\ RefCountsHolders' /\ Memory' /\ Flushing'
    BY <1>6 DEF IInv, PendingCountsInFlight, Counted, Blocks, RefCountsHolders,
       Holders,
       Memory, Flushing, vars, mapVars, blockVars, fetchVars, callVars, flushVars
  <2> QED BY <2>1, <2>2 DEF IInv
<1> QED BY <1>1, <1>2, <1>3, <1>4, <1>5, <1>6 DEF Next

(* IInv is an invariant of the store, whatever the numbers of its callers, *)
(* blocks and flushes.                                                     *)
THEOREM Invariance == Spec => []IInv
<1>1. Init => IInv
  BY InitIInv
<1>2. IInv /\ [Next]_vars => IInv'
  BY NextIInv
<1> QED BY <1>1, <1>2, PTL DEF Spec

(* Every variable keeps its type; told never passes 2. *)
THEOREM TypeCorrect == Spec => []TypeOK
<1>1. IInv => TypeOK
  BY DEF IInv
<1> QED BY <1>1, Invariance, PTL

(* m_PendingRequestCount (lines 298, 51) counts the fetches in flight.     *)
THEOREM PendingCorrect == Spec => []PendingCountsInFlight
<1>1. IInv => PendingCountsInFlight
  BY DEF IInv
<1> QED BY <1>1, Invariance, PTL

(* m_RefCount (lines 68, 229, 259) counts the callers that hold a block.   *)
THEOREM RefCountCorrect == Spec => []RefCountsHolders
<1>1. IInv => RefCountsHolders
  BY DEF IInv
<1> QED BY <1>1, Invariance, PTL

(* Lines 255 to 280 never let two reads of one block run, nor one while    *)
(* the shared block can be found.                                          *)
THEOREM FetchesAreShared == Spec => []OneFetchPerHash
<1>1. IInv => OneFetchPerHash
  BY DEF IInv, WaitLists, Open, OneFetchPerHash
<1> QED BY <1>1, Invariance, PTL

(* Blocks are safe to use as long as no Get revived a dying one (lines     *)
(* 68 to 84, 259).                                                         *)
THEOREM BlocksAreSafe == Spec => []NoUseAfterFree
<1>1. IInv => NoUseAfterFree
  BY DEF IInv, Memory, NoUseAfterFree
<1> QED BY <1>1, Invariance, PTL

(* Every caller is answered at most once, but for the owner of a refused   *)
(* fetch (lines 303 to 323).                                               *)
THEOREM AnswersAreSingle == Spec => []AnsweredOnce
<1>1. IInv => AnsweredOnce
  BY DEF IInv, Answers, AnsweredOnce
<1> QED BY <1>1, Invariance, PTL

(* A completed flush has outlived every fetch it found in flight (lines 51 *)
(* to 61, 377).                                                            *)
THEOREM FlushesCover == Spec => []FlushCovers
<1>1. IInv => FlushCovers
  BY DEF IInv, Flushing, Past, InHand, Calling, CountedStates, TypeOK, FlushCovers
<1> QED BY <1>1, Invariance, PTL

(* Nothing uses the store after Dispose has waited for the count (lines    *)
(* 394 to 405).                                                            *)
THEOREM DisposalIsQuiet == Spec => []DisposeQuiesces
<1>1. IInv => DisposeQuiesces
  BY DEF IInv, Disposal, InHand, Calling, TypeOK, DisposeQuiesces
<1> QED BY <1>1, Invariance, PTL

--------------------------------------------------------------------------------
(* The store implements BlockLending: each action is a step of it or is    *)
(* invisible, as long as no dying block was found again.                   *)
Invisible == UNCHANGED Lending!lvars

(* Begin, hit or not, is how a caller asks for a block. *)
LEMMA AskRefines ==
  ASSUME IInv, NEW r \in Requests, Get(r), revived' = {}
  PROVE  Lending!Ask(r)
<1>1. PICK s \in {"hit", "waiting"} : req' = [req EXCEPT ![r] = s]
  BY DEF Get, GetHit, Hit, GetJoin, GetFirst, StartFetch
<1>2. req[r] = "idle" /\ mem' = mem /\ revived = {}
  BY DEF Get, GetHit, Hit, GetJoin, GetFirst, StartFetch, Begin, blockVars
<1>3. \A x \in Requests \ {r} : got'[x] = got[x] /\ req'[x] = req[x]
  BY <1>1 DEF IInv, TypeOK, Get, GetHit, Hit, GetJoin, GetFirst, StartFetch
<1>4. CallState(req'[r]) = "asked" /\ CallState(req[r]) = "idle" /\ req'[r] # "holding"
  BY <1>1, <1>2 DEF IInv, TypeOK, CallState
<1> QED BY <1>2, <1>3, <1>4 DEF Lending!Ask

(* A caller that waited and gets an error was asked and is failed. *)
LEMMA FailRefines ==
  ASSUME IInv, NEW r \in Requests, req[r] = "waiting", req' = [req EXCEPT ![r] = "failed"],
         UNCHANGED <<got, mem, revived>>
  PROVE  Lending!Fail(r)
  BY DEF IInv, TypeOK, CallState, Lending!Fail

(* A caller that gets a block gets one that is in memory. *)
LEMMA LendRefines ==
  ASSUME IInv, NEW r \in Requests, NEW b \in Requests, got[r] = b, revived = {},
         req[r] \in {"hit", "waiting"}, req' = [req EXCEPT ![r] = "holding"],
         UNCHANGED <<got, mem, revived>>
  PROVE  Lending!Lend(r, b)
<1>1. mem[b] = "live"
  BY NoneApart DEF IInv, Memory, Referring
<1> QED BY <1>1 DEF IInv, TypeOK, CallState, Lending!Lend

(* DropReference ends a loan and frees nothing yet. *)
LEMMA GiveBackRefines ==
  ASSUME IInv, NEW r \in Requests, DropReference(r)
  PROVE  Lending!GiveBack(r)
<1>1. PICK s \in {"released", "disposing"} : req' = [req EXCEPT ![r] = s]
  BY DEF DropReference
<1>2. req[r] = "holding" /\ got' = got /\ mem' = mem /\ revived' = revived
  BY DEF DropReference
<1>3. \A x \in Requests \ {r} : req'[x] = req[x]
  BY <1>1 DEF IInv, TypeOK
<1>4. CallState(req'[r]) = "returned" /\ CallState(req[r]) = "holding" /\ req'[r] # "holding"
  BY <1>1, <1>2 DEF IInv, TypeOK, CallState
<1>5. Lending!Freed({}, [x \in Requests |-> IF req'[x] = "holding" THEN got'[x] ELSE None])
  BY <1>2 DEF IInv, TypeOK, Lending!Freed
<1> QED BY <1>2, <1>3, <1>4, <1>5 DEF Lending!GiveBack

(* A delivery brings a block to memory that was never there. *)
LEMMA LoadRefines ==
  ASSUME IInv, NEW f \in Requests, BackingDelivers(f)
  PROVE  Lending!Load(f)
<1>1. hash[f] \in Hashes /\ mem[f] = "none"
  BY DEF IInv, TypeOK, Beginnings, Blocks, BackingDelivers, Publish, TakeWaitList
<1>2. \A r \in Requests : got'[r] = got[r] \/ req[r] # "holding"
  BY <1>1 DEF IInv, TypeOK, WaitLists, BackingDelivers, Publish
<1> QED BY <1>1, <1>2 DEF IInv, TypeOK, BackingDelivers, Publish, Lending!Load

(* A block is freed when it is in memory and lent to nobody. *)
LEMMA DropRefines ==
  ASSUME IInv, NEW r \in Requests, Free(r), revived = {}
  PROVE  Lending!Drop({got[r]})
<1>1. PICK b \in Requests : b = got[r]
  BY NoneApart DEF IInv, TypeOK, Blocks, Free
<1>2. mem[b] = "live" /\ refCount[b] = 0
  BY <1>1, NoneApart DEF IInv, Memory, Dying, Free
<1>3. Holders(b) = {}
  BY <1>2, CountsFinite, FS_EmptySet DEF IInv, RefCountsHolders
<1>4. \A x \in Requests : req[x] = "holding" => got[x] # b
  BY <1>3 DEF Holders, Referring
<1>5. /\ req' = [req EXCEPT ![r] = "released"] /\ req[r] = "freeing"
      /\ mem' = [mem EXCEPT ![b] = "freed"] /\ got' = got /\ revived' = revived
  BY <1>1 DEF Free
<1>6. Lending!Freed({b}, [x \in Requests |-> IF req[x] = "holding" THEN got[x] ELSE None])
  BY <1>2, <1>4, <1>5, NoneApart DEF IInv, TypeOK, Lending!Freed
<1> QED BY <1>1, <1>5, <1>6 DEF IInv, TypeOK, CallState, Lending!Drop

(* Every step inside the store is a step of BlockLending or invisible. *)
LEMMA ProgressRefines ==
  ASSUME IInv, NEW r \in Requests, Progress(r), revived = {}
  PROVE  Lending!Next \/ Invisible
<1>1. CASE CallBacking(r) \/ BackingRefuses(r) \/ BackingFails(r) \/ ReturnRefused(r)
           \/ CompleteRequest(r) \/ Unlock(r) \/ \E g \in Flushes : CallFlush(r, g)
  <2>1. UNCHANGED <<req, got, mem, revived>>
    BY <1>1 DEF CallBacking, BackingRefuses, BackingFails, ReturnRefused,
       CompleteRequest, LeaveCount,
       Unlock, CallFlush, callVars, blockVars
  <2> QED BY <2>1 DEF Invisible, Lending!lvars
<1>2. CASE BackingDelivers(r)
  BY <1>2, LoadRefines DEF Lending!Next
<1>3. ASSUME NEW x \in Requests, CallWaiter(r, x) PROVE Lending!Next
  <2>1. req[x] = "waiting" /\ UNCHANGED <<got, mem, revived>>
    BY <1>3 DEF IInv, InHand, CallWaiter, blockVars
  <2>2. CASE fetch[r] = "delivering"
    <3>1. got[x] = r /\ req' = [req EXCEPT ![x] = "holding"]
      BY <1>3, <2>2 DEF IInv, InHand, CallWaiter
    <3>2. Lending!Lend(x, r)
      BY <2>1, <3>1, LendRefines
    <3> QED BY <3>2 DEF Lending!Next
  <2>3. CASE fetch[r] # "delivering"
    <3>1. req' = [req EXCEPT ![x] = "failed"]
      BY <1>3, <2>3 DEF CallWaiter
    <3> QED BY <2>1, <3>1, FailRefines DEF Lending!Next
  <2> QED BY <2>2, <2>3
<1>4. CASE CallHit(r)
  <2>1. PICK b \in Requests : got[r] = b
    BY <1>4, NoneApart DEF IInv, TypeOK, Blocks, CallHit
  <2>2. Lending!Lend(r, b)
    BY <1>4, <2>1, LendRefines DEF CallHit, blockVars
  <2> QED BY <2>2 DEF Lending!Next
<1>5. CASE Unmap(r)
  <2>1. /\ \E s \in {"released", "freeing"} : req' = [req EXCEPT ![r] = s]
        /\ req[r] = "disposing" /\ got' = got /\ mem' = mem /\ revived' = revived
    BY <1>5 DEF Unmap, blockVars
  <2> QED BY <2>1 DEF IInv, TypeOK, CallState, Invisible, Lending!lvars
<1>6. CASE Free(r)
  <2>1. got[r] \in Requests
    BY <1>6, NoneApart DEF IInv, TypeOK, Blocks, Free
  <2> QED BY <1>6, <2>1, DropRefines DEF Lending!Next
<1> QED BY <1>1, <1>2, <1>3, <1>4, <1>5, <1>6 DEF Progress

(* A block that was revived is never forgotten. *)
LEMMA RevivedGrows == Next => revived \subseteq revived'
<1> SUFFICES ASSUME Next PROVE revived \subseteq revived'
  OBVIOUS
<1>1. ASSUME NEW r \in Requests, Get(r) PROVE revived \subseteq revived'
  BY <1>1 DEF Get, GetHit, Hit, GetJoin, GetFirst, StartFetch
<1>2. ASSUME NEW r \in Requests, NoMemory(r) \/ DropReference(r)
      PROVE  revived \subseteq revived'
  BY <1>2 DEF NoMemory, DropReference
<1>3. ASSUME NEW r \in Requests, Progress(r) PROVE revived \subseteq revived'
  <2>1. CASE BackingRefuses(r) \/ BackingFails(r) \/ BackingDelivers(r)
    BY <2>1 DEF BackingRefuses, BackingFails, BackingDelivers, Publish
  <2>2. CASE CallHit(r) \/ \E x \in Requests : CallWaiter(r, x)
    BY <2>2 DEF CallHit, CallWaiter
  <2>3. CASE CallBacking(r) \/ ReturnRefused(r) \/ CompleteRequest(r) \/ Unlock(r)
    BY <2>3 DEF CallBacking, ReturnRefused, CompleteRequest, LeaveCount, Unlock
  <2>4. CASE Unmap(r) \/ Free(r) \/ \E g \in Flushes : CallFlush(r, g)
    BY <2>4 DEF Unmap, Free, CallFlush
  <2> QED BY <1>3, <2>1, <2>2, <2>3, <2>4 DEF Progress
<1>4. CASE Dispose \/ \E g \in Flushes : Flush(g)
  BY <1>4 DEF Dispose, Disposing, Flush
<1> QED BY <1>1, <1>2, <1>3, <1>4 DEF Next

(* The store keeps the promise of Longtail_BlockStoreAPI: lines 240 to 326 *)
(* and 65 to 88 behave to a caller as BlockLending says.                   *)
THEOREM KeepsLendingPromise == Spec => LendingSpec
<1>1. Init => Lending!Init
  BY DEF Init, CallState, Lending!Init
<1>2. IInv /\ [Next]_vars => [Lending!Step]_(Lending!lvars)
  <2> SUFFICES ASSUME IInv, [Next]_vars PROVE [Lending!Step]_(Lending!lvars)
    OBVIOUS
  <2>1. CASE revived' # {}
    BY <2>1 DEF Lending!Step
  <2>2. CASE UNCHANGED vars
    BY <2>2 DEF vars, blockVars, callVars, Lending!lvars
  <2>3. CASE revived' = {} /\ Next
    <3>1. revived = {}
      BY <2>3, RevivedGrows
    <3>2. ASSUME NEW r \in Requests, Get(r) PROVE Lending!Next
      BY <2>3, <3>2, AskRefines DEF Lending!Next
    <3>3. ASSUME NEW r \in Requests, NoMemory(r) PROVE Lending!Next
      <4>1. req[r] = "waiting"
        BY <3>3 DEF IInv, TypeOK, WaitLists, Beginnings, Open, NoMemory
      <4> QED BY <3>3, <4>1, FailRefines DEF NoMemory, blockVars, Lending!Next
    <3>4. ASSUME NEW r \in Requests, Progress(r) PROVE Lending!Next \/ Invisible
      BY <3>1, <3>4, ProgressRefines
    <3>5. ASSUME NEW r \in Requests, DropReference(r) PROVE Lending!Next
      BY <3>5, GiveBackRefines DEF Lending!Next
    <3>6. CASE Dispose \/ \E g \in Flushes : Flush(g)
      BY <3>6 DEF Dispose, Disposing, Flush, blockVars, callVars, Lending!lvars
    <3> QED BY <2>3, <3>2, <3>3, <3>4, <3>5, <3>6 DEF Next, Lending!Step,
               Invisible
  <2> QED BY <2>1, <2>2, <2>3
<1> QED BY <1>1, <1>2, Invariance, PTL DEF Spec, LendingSpec, Lending!Spec
================================================================================

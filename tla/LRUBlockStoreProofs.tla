------------------------- MODULE LRUBlockStoreProofs -------------------------
(***************************************************************************)
(* Proofs about LRUBlockStore, for any finite set of calls, any sets of    *)
(* hashes and flushes and any sizes of the cache.                          *)
(***************************************************************************)
EXTENDS LRUBlockStore, FiniteSetTheorems, SequenceTheorems, TLAPS

--------------------------------------------------------------------------------
(* The array of the cache. *)

(* The blocks of an array, each there once. *)
Distinct(s) == \A i, j \in DOMAIN s : s[i] = s[j] => i = j

(* A sequence without duplicates is as long as the set of its elements is large. *)
LEMMA DistinctCardinality ==
  ASSUME NEW s \in Seq(Requests), Distinct(s)
  PROVE  Cardinality(ToSet(s)) = Len(s)
<1> DEFINE f == [i \in 1..Len(s) |-> s[i]]
<1>0. Len(s) \in Nat /\ DOMAIN s = 1..Len(s)
  BY LenProperties
<1>1. f \in Bijection(1..Len(s), ToSet(s))
  <2>1. f \in Injection(1..Len(s), ToSet(s))
    BY <1>0 DEF Injection, IsInjective, Distinct, ToSet
  <2>2. \A x \in ToSet(s) : \E i \in 1..Len(s) : f[i] = x
    BY <1>0 DEF ToSet
  <2> QED
    BY <2>1, <2>2 DEF Bijection, Surjection, Injection
<1>2. IsFiniteSet(1..Len(s)) /\ Cardinality(1..Len(s)) = Len(s)
  <2> DEFINE n == Len(s)
  <2>1. n \in Nat /\ n \in Int /\ 1 \in Int
    BY <1>0
  <2> HIDE DEF n
  <2>2. IsFiniteSet(1..n) /\ Cardinality(1..n) = IF 1 > n THEN 0 ELSE n - 1 + 1
    BY ONLY <2>1, FS_Interval
  <2> QED
    BY <2>1, <2>2 DEF n
<1> QED BY <1>1, <1>2, FS_Bijection DEF ExistsBijection

(* Appending a new element to a list without duplicates, as LRU_Put does,  *)
(* adds it to the list's set and leaves the list without duplicates.       *)
LEMMA AppendSet ==
  ASSUME NEW s \in Seq(Requests), NEW b \in Requests
  PROVE  /\ Append(s, b) \in Seq(Requests)
         /\ Len(Append(s, b)) = Len(s) + 1
         /\ ToSet(Append(s, b)) = ToSet(s) \cup {b}
         /\ Distinct(s) /\ b \notin ToSet(s) => Distinct(Append(s, b))
  BY LenProperties, AppendProperties DEF ToSet, Distinct

(* Dropping the oldest element of a list without duplicates, as            *)
(* LRU_Evict does, takes that element and no other out of the list's set.  *)
LEMMA TailSet ==
  ASSUME NEW s \in Seq(Requests), Len(s) > 0, Distinct(s)
  PROVE  /\ Head(s) \in ToSet(s)
         /\ Tail(s) \in Seq(Requests)
         /\ Len(Tail(s)) = Len(s) - 1
         /\ ToSet(Tail(s)) = ToSet(s) \ {Head(s)}
         /\ Distinct(Tail(s))
<1>1. s # <<>> /\ Head(s) = s[1]
  BY EmptySeq
<1>2. /\ Tail(s) \in Seq(Requests)
      /\ Len(Tail(s)) = Len(s) - 1
      /\ \A i \in 1 .. Len(s) - 1 : Tail(s)[i] = s[i+1]
      /\ DOMAIN s = 1..Len(s) /\ DOMAIN Tail(s) = 1 .. Len(s) - 1 /\ Len(s) \in Nat
  BY <1>1, HeadTailProperties, LenProperties
<1>3. ToSet(Tail(s)) = ToSet(s) \ {Head(s)}
  <2>1. \A x \in ToSet(Tail(s)) : x \in ToSet(s) /\ x # Head(s)
    BY <1>1, <1>2 DEF ToSet, Distinct
  <2>2. \A x \in ToSet(s) \ {Head(s)} : x \in ToSet(Tail(s))
    <3> SUFFICES ASSUME NEW i \in 1..Len(s), i # 1 PROVE s[i] \in ToSet(Tail(s))
      BY <1>1, <1>2 DEF ToSet
    <3>1. i - 1 \in 1 .. Len(s) - 1 /\ Tail(s)[i - 1] = s[i]
      BY <1>2
    <3> QED BY <1>2, <3>1 DEF ToSet
  <2> QED BY <2>1, <2>2
<1>4. Distinct(Tail(s))
  BY <1>2 DEF Distinct
<1> QED BY <1>1, <1>2, <1>3, <1>4 DEF ToSet

(* Taking out the element at an index closes the gap: the rest keeps its   *)
(* elements, its order and its being without duplicates.                   *)
LEMMA RemoveAtSet ==
  ASSUME NEW s \in Seq(Requests), Distinct(s), NEW k \in DOMAIN s
  PROVE  /\ RemoveAt(s, k) \in Seq(Requests)
         /\ Len(RemoveAt(s, k)) = Len(s) - 1
         /\ ToSet(RemoveAt(s, k)) = ToSet(s) \ {s[k]}
         /\ Distinct(RemoveAt(s, k))
<1> DEFINE t == RemoveAt(s, k)
<1>1. Len(s) \in Nat /\ DOMAIN s = 1..Len(s) /\ \A i \in 1..Len(s) : s[i] \in Requests
  BY LenProperties
<1>2. /\ t \in Seq(Requests) /\ Len(t) = Len(s) - 1
      /\ \A j \in 1 .. Len(s) - 1 : t[j] = IF j < k THEN s[j] ELSE s[j+1]
  <2> DEFINE u == SubSeq(s, 1, k-1)
             v == SubSeq(s, k+1, Len(s))
  <2>1. u \in Seq(Requests) /\ Len(u) = k - 1 /\ \A i \in 1..k-1 : u[i] = s[i]
    BY <1>1, SubSeqProperties, \A i \in 1..k-1 : s[i] \in Requests
  <2>2. v \in Seq(Requests) /\ Len(v) = Len(s) - k
        /\ \A i \in 1..Len(s) - k : v[i] = s[k+i]
    BY <1>1, SubSeqProperties
  <2> HIDE DEF u, v
  <2>3. /\ u \o v \in Seq(Requests) /\ Len(u \o v) = Len(u) + Len(v)
        /\ \A i \in 1..Len(u) + Len(v) :
              (u \o v)[i] = IF i <= Len(u) THEN u[i] ELSE v[i - Len(u)]
    BY <2>1, <2>2, ConcatProperties
  <2>4. Len(u) + Len(v) = Len(s) - 1
    BY <1>1, <2>1, <2>2
  <2>5. ASSUME NEW i \in 1..Len(s) - 1
        PROVE  (u \o v)[i] = IF i < k THEN s[i] ELSE s[i+1]
    <3>1. CASE i < k
      BY <1>1, <2>1, <2>3, <2>4, <3>1
    <3>2. CASE ~(i < k)
      <4>1. (u \o v)[i] = v[i - (k - 1)] /\ i - (k - 1) \in 1 .. Len(s) - k
        BY <1>1, <2>1, <2>3, <2>4, <3>2, SMTT(30)
      <4>2. k + (i - (k - 1)) = i + 1
        BY <1>1
      <4> QED BY <2>2, <3>2, <4>1, <4>2
    <3> QED BY <3>1, <3>2
  <2> QED BY <2>3, <2>4, <2>5 DEF RemoveAt, u, v
<1> HIDE DEF t
<1>3. DOMAIN t = 1 .. Len(s) - 1
  BY <1>1, <1>2, LenProperties
<1>4. ToSet(t) = ToSet(s) \ {s[k]}
  <2>1. \A x \in ToSet(t) : x \in ToSet(s) /\ x # s[k]
    BY <1>1, <1>2, <1>3, SMTT(30) DEF ToSet, Distinct
  <2>2. \A x \in ToSet(s) \ {s[k]} : x \in ToSet(t)
    <3> SUFFICES ASSUME NEW i \in 1..Len(s), i # k PROVE s[i] \in ToSet(t)
      BY <1>1 DEF ToSet
    <3>1. CASE i < k
      BY <1>1, <1>2, <1>3, <3>1 DEF ToSet
    <3>2. CASE i > k
      <4>1. i - 1 \in 1 .. Len(s) - 1 /\ t[i-1] = s[i]
        BY <1>1, <1>2, <3>2
      <4> QED BY <1>3, <4>1 DEF ToSet
    <3> QED BY <1>1, <3>1, <3>2
  <2> QED BY <2>1, <2>2
<1>5. Distinct(t)
  BY <1>1, <1>2, <1>3, SMTT(30) DEF Distinct
<1> QED BY <1>2, <1>4, <1>5 DEF t

(* LRU_Refresh keeps the elements, and moves the one it is given to the    *)
(* end.                                                                    *)
LEMMA RefreshedSet ==
  ASSUME NEW s \in Seq(Requests), Distinct(s), NEW b \in Requests
  PROVE  /\ Refreshed(s, b) \in Seq(Requests)
         /\ Len(Refreshed(s, b)) = Len(s)
         /\ ToSet(Refreshed(s, b)) = ToSet(s)
         /\ Distinct(Refreshed(s, b))
<1>1. CASE b \in ToSet(s)
  <2> DEFINE k == CHOOSE i \in DOMAIN s : s[i] = b
  <2>1. k \in DOMAIN s /\ s[k] = b
    BY <1>1 DEF ToSet
  <2> HIDE DEF k
  <2>2. /\ RemoveAt(s, k) \in Seq(Requests) /\ Len(RemoveAt(s, k)) = Len(s) - 1
        /\ ToSet(RemoveAt(s, k)) = ToSet(s) \ {b} /\ Distinct(RemoveAt(s, k))
    BY <2>1, RemoveAtSet
  <2>3. Refreshed(s, b) = Append(RemoveAt(s, k), b)
    BY <1>1 DEF Refreshed, k
  <2>4. b \notin ToSet(RemoveAt(s, k)) /\ Len(s) \in Nat
    BY <2>2, LenProperties
  <2>5. /\ Refreshed(s, b) \in Seq(Requests)
        /\ Len(Refreshed(s, b)) = Len(s) - 1 + 1
        /\ ToSet(Refreshed(s, b)) = (ToSet(s) \ {b}) \cup {b}
        /\ Distinct(Refreshed(s, b))
    BY <2>2, <2>3, <2>4, AppendSet
  <2> QED BY <1>1, <2>4, <2>5
<1>2. CASE b \notin ToSet(s)
  BY <1>2 DEF Refreshed
<1> QED BY <1>1, <1>2

--------------------------------------------------------------------------------
(* The inductive invariant, by subject. *)

(* A call that has not begun owns nothing; hashes are those of the calls.  *)
Beginnings ==
    /\ \A r \in Requests : req[r] = "idle" => fetch[r] = "none" /\ got[r] = None
    /\ \A r \in Requests : req[r] # "idle" => hash[r] \in Hashes

(* Who is on a wait list, and that a read under way has a wait list of its *)
(* own and no block in the map.                                            *)
Open == {"started", "counted", "abandoned"}
WaitLists ==
    /\ \A h \in Hashes : \A r \in waitList[h] :
          /\ hash[r] = h
          /\ got[r] = None
          /\ req[r] = "waiting" \/ (req[r] = "failed" /\ fetch[r] = "abandoned")
    /\ \A f \in Requests : fetch[f] \in Open =>
          /\ f \in waitList[hash[f]]
          /\ blockOf[hash[f]] = None
    /\ \A f, g \in Requests : fetch[f] \in Open /\ fetch[g] \in Open
                              /\ hash[f] = hash[g] => f = g

(* Who is in the hands of a fetch. *)
Calling == {"evicting", "refreshing", "delivering", "failing"}
InHand ==
    \A f \in Requests : \A r \in calls[f] :
        /\ fetch[f] \in Calling
        /\ req[r] = "waiting"
        /\ got[r] = IF fetch[f] = "failing" THEN None ELSE f
        /\ \A h \in Hashes : r \notin waitList[h]
        /\ \A g \in Requests : r \in calls[g] => g = f

(* Nobody has learned the outcome before it is called, and only a refused  *)
(* fetch completes more than once.                                         *)
Answers ==
    /\ \A r \in Requests : req[r] \in {"idle", "hit", "waiting"} => told[r] = 0
    /\ \A f \in Requests : fetch[f] \in {"again", "overdrawn"} => f \in refused

(* Blocks exist from their delivery on. *)
Victims == {"evicting", "refreshing"}
Blocks ==
    /\ \A b \in Requests : mem[b] # "none" =>
          fetch[b] \in {"evicting", "refreshing", "delivering", "done"}
    /\ \A r \in Requests : got[r] # None => mem[got[r]] # "none"
    /\ \A r \in Requests : req[r] \in {"hit", "holding", "refreshing"} => got[r] # None
    /\ \A f \in Requests : fetch[f] \in Victims =>
          victim[f] \in Requests /\ mem[victim[f]] # "none"

(* The array and the map hold the same blocks, each once. *)
Array ==
    /\ Len(lru) <= maxCount
    /\ Distinct(lru)
    /\ \A b \in Cached : /\ mem[b] # "none"
                         /\ hash[b] \in Hashes
                         /\ blockOf[hash[b]] = b
    /\ \A h \in Hashes : blockOf[h] # None => blockOf[h] \in Cached
                                              /\ hash[blockOf[h]] = h

(* A block is evicted once, and is not in the array then. *)
Evictions ==
    /\ \A f \in Requests : fetch[f] = "evicting" => victim[f] \notin Cached
    /\ \A f, g \in Requests : fetch[f] = "evicting" /\ fetch[g] = "evicting"
                              /\ victim[f] = victim[g] => f = g

(* Memory goes with the last reference. *)
Memory == \A b \in Requests : mem[b] = "freed" => refCount[b] = 0

(* As long as no fetch was completed twice, what a flush waited for is     *)
(* over when it is taken off the list.                                     *)
Past == {"again", "done", "overdrawn"}
Flushing ==
    /\ \A g \in Flushes : \A f \in covers[g] : fetch[f] \in CountedStates \cup Past
    /\ \A g \in flushList : flush[g] # "idle"
    /\ \A e \in Requests : \A g \in flushCalls[e] : flush[g] # "idle"
    /\ refused = {} =>
          /\ \A g \in Flushes : flush[g] = "done" => \A f \in covers[g] : fetch[f] \in Past
          /\ \A e \in Requests : \A g \in flushCalls[e] : \A f \in covers[g] :
                fetch[f] \in Past

IInv == /\ TypeOK /\ Beginnings /\ WaitLists /\ InHand /\ Answers
        /\ PendingCountsRequests /\ Blocks /\ Array /\ Evictions
        /\ RefCountsHolders /\ Memory /\ Flushing

--------------------------------------------------------------------------------
(* IInv holds before any call. *)
LEMMA InitIInv == Init => IInv
<1> SUFFICES ASSUME Init PROVE IInv
  OBVIOUS
<1>1. /\ Counted = {} /\ Overdrawn = {} /\ \A b \in Requests : Holders(b) = {}
      /\ Cached = {} /\ Distinct(lru) /\ lru \in Seq(Requests) /\ Len(lru) = 0
  <2>1. lru = <<>> /\ lru \in Seq(Requests) /\ Len(lru) = 0 /\ DOMAIN lru = {}
    BY EmptySeq DEF Init
  <2> QED BY <2>1 DEF Init, Counted, CountedStates, Overdrawn, Holders, Referring,
             Cached, ToSet, Distinct
<1>2. TypeOK
  <2>1. disposed \in BOOLEAN /\ uaf \in BOOLEAN /\ maxCount \in MaxCounts
    BY DEF Init
  <2>6. pending \in Int
    BY DEF Init
  <2>2. refCount \in [Requests -> Nat] /\ told \in [Requests -> 0..1]
    BY DEF Init
  <2>3. /\ blockOf \in [Hashes -> Requests \cup {None}]
        /\ waitList \in [Hashes -> SUBSET Requests]
        /\ hash \in [Requests -> Hashes \cup {None}]
        /\ got \in [Requests -> Requests \cup {None}]
        /\ victim \in [Requests -> Requests \cup {None}]
        /\ calls \in [Requests -> SUBSET Requests]
    BY DEF Init
  <2>4. /\ mem \in [Requests -> {"none", "live", "freed"}]
        /\ fetch \in [Requests -> FetchStates]
        /\ req \in [Requests -> ReqStates]
    BY DEF Init, FetchStates, ReqStates
  <2>5. /\ flushList \in SUBSET Flushes
        /\ flushCalls \in [Requests -> SUBSET Flushes]
        /\ flush \in [Flushes -> {"idle", "queued", "done"}]
        /\ covers \in [Flushes -> SUBSET Requests]
        /\ refused \in SUBSET Requests
    BY DEF Init
  <2> QED BY <1>1, <2>1, <2>2, <2>3, <2>4, <2>5, <2>6 DEF TypeOK
<1>3. PendingCountsRequests /\ RefCountsHolders
  BY <1>1, FS_EmptySet DEF Init, PendingCountsRequests, RefCountsHolders
<1>4. Beginnings /\ WaitLists /\ InHand /\ Answers /\ Blocks
  BY DEF Init, Beginnings, WaitLists, Open, InHand, Answers, Blocks, Victims
<1>5. Array /\ Evictions /\ Memory /\ Flushing
  BY <1>1, MaxCountsPositive DEF Init, Array, Evictions, Memory, Flushing
<1> QED BY <1>2, <1>3, <1>4, <1>5 DEF IInv

(* Sets of calls are finite. *)
LEMMA CountsFinite ==
  /\ IsFiniteSet(Counted) /\ Cardinality(Counted) \in Nat
  /\ IsFiniteSet(Overdrawn) /\ Cardinality(Overdrawn) \in Nat
  /\ \A b \in Requests : IsFiniteSet(Holders(b)) /\ Cardinality(Holders(b)) \in Nat
<1>1. \A S \in SUBSET Requests : IsFiniteSet(S) /\ Cardinality(S) \in Nat
  BY LRURequestsFinite, FS_Subset, FS_CardinalityType
<1>2. /\ Counted \in SUBSET Requests /\ Overdrawn \in SUBSET Requests
      /\ \A b \in Requests : Holders(b) \in SUBSET Requests
  BY DEF Counted, Overdrawn, Holders
<1> QED BY <1>1, <1>2

(* The blocks of the array are blocks. *)
LEMMA CachedRequests == TypeOK => Cached \subseteq Requests
  BY LenProperties DEF TypeOK, Cached, ToSet

(* Who holds a block, and the cache when it keeps one, have a reference to
   it, so that the block is in memory. *)
LEMMA ReferencesKeepAlive ==
  ASSUME IInv, NEW b \in Requests, mem[b] # "none", Kept(b) \/ Holders(b) # {}
  PROVE  refCount[b] > 0 /\ mem[b] = "live"
<1>1. Cardinality(Holders(b)) \in Nat /\ (Holders(b) # {} => Cardinality(Holders(b)) # 0)
  BY CountsFinite, FS_EmptySet
<1>2. refCount[b] > 0
  BY <1>1 DEF IInv, RefCountsHolders
<1> QED BY <1>2 DEF IInv, TypeOK, Memory

(* Where the holders of every block and the cache's own references stay
   the same, so do the counts. *)
LEMMA SameHolders ==
  ASSUME RefCountsHolders, refCount' = refCount,
         \A b \in Requests : mem'[b] # "none" => mem[b] # "none",
         \A b \in Requests : Holders(b)' = Holders(b) /\ (Kept(b)' <=> Kept(b))
  PROVE  RefCountsHolders'
  BY DEF RefCountsHolders

(* What dropping a reference to a block does to its count and its memory. *)
LEMMA DropEffect ==
  ASSUME IInv, NEW b \in Requests, refCount[b] > 0, mem[b] # "none", Drop(b)
  PROVE  /\ refCount' \in [Requests -> Nat] /\ uaf' \in BOOLEAN
         /\ mem' \in [Requests -> {"none", "live", "freed"}]
         /\ refCount'[b] = refCount[b] - 1
         /\ \A c \in Requests \ {b} : refCount'[c] = refCount[c]
         /\ \A c \in Requests : mem'[c] = "none" <=> mem[c] = "none"
         /\ Memory'
<1>1. /\ refCount' = [refCount EXCEPT ![b] = @ - 1]
      /\ mem' = IF refCount[b] = 1 THEN [mem EXCEPT ![b] = "freed"] ELSE mem
      /\ uaf' = (mem[b] = "freed")
  BY DEF Drop
<1>2. refCount' \in [Requests -> Nat] /\ refCount'[b] = refCount[b] - 1
  BY <1>1 DEF IInv, TypeOK
<1>3. mem[b] = "live"
  BY DEF IInv, TypeOK, Memory
<1> QED BY <1>1, <1>2, <1>3 DEF IInv, TypeOK, Memory

(* A refresh changes the order of the array and nothing else. *)
LEMMA RefreshEffect ==
  ASSUME IInv, NEW b \in Requests, mem[b] # "none", Refresh(b)
  PROVE  /\ lru' \in Seq(Requests) /\ uaf' \in BOOLEAN
         /\ Len(lru') = Len(lru) /\ Distinct(lru') /\ Cached' = Cached
<1>1. hash[b] \in Hashes
  BY DEF IInv, Beginnings, Blocks
<1>2. lru \in Seq(Requests) /\ Distinct(lru) /\ blockOf[hash[b]] \in Requests \cup {None}
  BY <1>1 DEF IInv, TypeOK, Array
<1>3. CASE blockOf[hash[b]] = None
  BY <1>2, <1>3 DEF Refresh, Cached
<1>4. CASE blockOf[hash[b]] # None
  <2>1. lru' = Refreshed(lru, blockOf[hash[b]]) /\ blockOf[hash[b]] \in Requests
    BY <1>2, <1>4 DEF Refresh
  <2>2. /\ Refreshed(lru, blockOf[hash[b]]) \in Seq(Requests)
        /\ Len(Refreshed(lru, blockOf[hash[b]])) = Len(lru)
        /\ ToSet(Refreshed(lru, blockOf[hash[b]])) = ToSet(lru)
        /\ Distinct(Refreshed(lru, blockOf[hash[b]]))
    BY <1>2, <2>1, RefreshedSet
  <2>3. Distinct(lru') /\ ToSet(lru') = ToSet(lru)
    BY <2>1, <2>2
  <2> QED BY <2>1, <2>2, <2>3 DEF Cached, Refresh
<1> QED BY <1>3, <1>4

(* A call that begins has no block in the array. *)
LEMMA BeginKeepsArray ==
  ASSUME IInv, NEW r \in Requests, NEW h \in Hashes, Begin(r, h),
         UNCHANGED <<maxCount, lru, blockOf, mem>>
  PROVE  Array'
<1>1. mem[r] = "none" /\ hash' = [hash EXCEPT ![r] = h]
  BY DEF IInv, TypeOK, Beginnings, Blocks, Begin
<1>2. r \notin Cached /\ Cached' = Cached /\ Cached \subseteq Requests
  BY <1>1, CachedRequests DEF IInv, Array, Cached
<1>3. \A b \in Cached : hash'[b] = hash[b]
  BY <1>1, <1>2 DEF IInv, TypeOK
<1> QED BY <1>2, <1>3 DEF IInv, Array

--------------------------------------------------------------------------------
(* One lemma per action. *)

(* A block that is found is in the array, so it is in memory and its caller
   becomes one more holder of it. *)
LEMMA GetHitStep ==
  ASSUME IInv, NEW r \in Requests, NEW h \in Hashes, GetHit(r, h)
  PROVE  IInv'
<1>0. PICK b \in Requests : b = blockOf[h] /\ b \in Cached /\ mem[b] = "live" /\ hash[b] = h
  <2>1. blockOf[h] \in Requests /\ blockOf[h] \in Cached /\ mem[blockOf[h]] # "none"
        /\ hash[blockOf[h]] = h
    BY DEF IInv, TypeOK, Array, GetHit, Hit, Begin
  <2> QED BY <2>1, ReferencesKeepAlive DEF Kept
<1>1. TypeOK'
  BY <1>0 DEF IInv, TypeOK, ReqStates, GetHit, Hit, Begin, cacheVars, fetchVars,
     flushVars
<1>2. Beginnings'
  BY DEF IInv, TypeOK, Beginnings, GetHit, Hit, Begin, fetchVars
<1>3. WaitLists'
  BY DEF IInv, Beginnings, WaitLists, Open, GetHit, Hit, Begin, cacheVars, fetchVars
<1>4. InHand'
  BY DEF IInv, InHand, GetHit, Hit, Begin, fetchVars
<1>5. Answers'
  BY DEF IInv, TypeOK, Answers, GetHit, Hit, Begin, fetchVars
<1>6. Blocks'
  BY <1>0 DEF IInv, TypeOK, Blocks, Victims, GetHit, Hit, Begin, fetchVars
<1>7. Array'
  BY BeginKeepsArray DEF GetHit, Hit, cacheVars
<1>8. RefCountsHolders'
  <2>1. r \notin Holders(b) /\ Holders(b)' = Holders(b) \cup {r}
    BY <1>0 DEF IInv, TypeOK, GetHit, Hit, Begin, Holders, Referring
  <2>2. \A c \in Requests \ {b} : Holders(c)' = Holders(c)
    BY <1>0, LRUNoneApart
       DEF IInv, TypeOK, Beginnings, GetHit, Hit, Begin, Holders, Referring
  <2>3. Cardinality(Holders(b)') = Cardinality(Holders(b)) + 1
    BY <2>1, CountsFinite, FS_AddElement
  <2>4. \A c \in Requests : Kept(c)' <=> Kept(c)
    BY DEF GetHit, Hit, Kept, Cached, cacheVars, fetchVars
  <2>5. refCount' = [refCount EXCEPT ![b] = @ + 1] /\ mem' = mem
    BY <1>0 DEF GetHit, Hit
  <2>6. Cardinality(Holders(b)) \in Nat
    BY CountsFinite
  <2>7. refCount'[b] = Cardinality(Holders(b)') + IF Kept(b)' THEN 1 ELSE 0
    <3>1. refCount[b] = Cardinality(Holders(b)) + 1 /\ Kept(b)
      BY <1>0, <2>6 DEF IInv, RefCountsHolders, Kept
    <3>2. refCount'[b] = refCount[b] + 1
      BY <2>5 DEF IInv, TypeOK
    <3> QED BY <2>3, <2>4, <2>6, <3>1, <3>2
  <2>8. \A c \in Requests \ {b} : mem'[c] # "none" =>
            refCount'[c] = Cardinality(Holders(c)') + IF Kept(c)' THEN 1 ELSE 0
    BY <2>2, <2>4, <2>5 DEF IInv, TypeOK, RefCountsHolders
  <2> QED BY <2>7, <2>8 DEF RefCountsHolders
<1>9. Memory'
  BY <1>0 DEF IInv, TypeOK, Memory, GetHit, Hit
<1>10. PendingCountsRequests' /\ Evictions' /\ Flushing'
  BY DEF IInv, PendingCountsRequests, Counted, Overdrawn, Evictions, Cached, Flushing,
     GetHit, Hit, cacheVars, fetchVars, flushVars
<1> QED BY <1>1, <1>2, <1>3, <1>4, <1>5, <1>6, <1>7, <1>8, <1>9, <1>10 DEF IInv

(* A Get of a hash that is being fetched adds its caller to the wait list,
   with no block in hand. *)
LEMMA GetJoinStep ==
  ASSUME IInv, NEW r \in Requests, NEW h \in Hashes, GetJoin(r, h)
  PROVE  IInv'
<1>1. TypeOK'
  BY DEF IInv, TypeOK, ReqStates, GetJoin, Begin, cacheVars, blockVars, fetchVars,
     flushVars
<1>2. Beginnings'
  BY DEF IInv, TypeOK, Beginnings, GetJoin, Begin, fetchVars
<1>3. WaitLists'
  BY DEF IInv, TypeOK, Beginnings, WaitLists, Open, GetJoin, Begin, cacheVars, fetchVars
<1>4. InHand'
  BY DEF IInv, TypeOK, InHand, GetJoin, Begin, fetchVars
<1>5. Answers'
  BY DEF IInv, TypeOK, Answers, GetJoin, Begin, fetchVars
<1>6. Blocks'
  BY DEF IInv, TypeOK, Blocks, GetJoin, Begin, blockVars, fetchVars
<1>7. Array'
  BY BeginKeepsArray DEF GetJoin, cacheVars, blockVars
<1>8. RefCountsHolders'
  <2>1. got[r] = None /\ \A b \in Requests : Holders(b)' = Holders(b)
    BY LRUNoneApart DEF IInv, TypeOK, Beginnings, GetJoin, Begin, Holders, Referring
  <2>2. \A b \in Requests : Kept(b)' <=> Kept(b)
    BY DEF GetJoin, Kept, Cached, cacheVars, fetchVars
  <2> QED BY <2>1, <2>2, SameHolders DEF IInv, GetJoin, blockVars
<1>9. PendingCountsRequests' /\ Evictions' /\ Memory' /\ Flushing'
  BY DEF IInv, PendingCountsRequests, Counted, Overdrawn, Evictions, Cached, Memory,
     Flushing, GetJoin, cacheVars, blockVars, fetchVars, flushVars
<1> QED BY <1>1, <1>2, <1>3, <1>4, <1>5, <1>6, <1>7, <1>8, <1>9 DEF IInv

(* The first Get of a hash opens its wait list; none was open, as no fetch
   of the hash was in a state that has one. *)
LEMMA GetFirstStep ==
  ASSUME IInv, NEW r \in Requests, NEW h \in Hashes, GetFirst(r, h)
  PROVE  IInv'
<1>1. TypeOK'
  BY DEF IInv, TypeOK, FetchStates, ReqStates, GetFirst, StartFetch, Begin, cacheVars,
     blockVars, flushVars
<1>2. Beginnings'
  BY DEF IInv, TypeOK, Beginnings, GetFirst, StartFetch, Begin
<1>3. WaitLists'
  BY DEF IInv, TypeOK, Beginnings, WaitLists, GetFirst, StartFetch, Begin, cacheVars
<1>4. InHand'
  BY DEF IInv, TypeOK, Beginnings, InHand, Calling, GetFirst, StartFetch, Begin
<1>5. Answers'
  BY DEF IInv, TypeOK, Beginnings, Answers, GetFirst, StartFetch, Begin
<1>6. PendingCountsRequests'
  <2>1. Counted' = Counted /\ Overdrawn' = Overdrawn
    BY DEF IInv, TypeOK, Beginnings, Counted, CountedStates, Overdrawn, GetFirst,
       StartFetch, Begin
  <2> QED BY <2>1 DEF IInv, PendingCountsRequests, GetFirst, StartFetch
<1>7. Blocks'
  BY DEF IInv, TypeOK, Beginnings, Blocks, Victims, GetFirst, StartFetch, Begin, blockVars
<1>8. Array'
  BY BeginKeepsArray DEF GetFirst, StartFetch, cacheVars, blockVars
<1>9. RefCountsHolders'
  <2>1. got[r] = None /\ \A b \in Requests : Holders(b)' = Holders(b)
    BY LRUNoneApart DEF IInv, TypeOK, Beginnings, GetFirst, StartFetch, Begin, Holders,
       Referring
  <2>2. \A b \in Requests : Kept(b)' <=> Kept(b)
    BY DEF IInv, TypeOK, Beginnings, GetFirst, StartFetch, Begin, Kept, Cached, cacheVars
  <2> QED BY <2>1, <2>2, SameHolders DEF IInv, GetFirst, StartFetch, blockVars
<1>10. Evictions' /\ Memory'
  BY DEF IInv, TypeOK, Beginnings, Evictions, Cached, Memory, GetFirst, StartFetch, Begin,
     cacheVars, blockVars
<1>11. Flushing'
  BY DEF IInv, TypeOK, Beginnings, Flushing, CountedStates, Past, GetFirst, StartFetch,
     Begin, flushVars
<1> QED BY <1>1, <1>2, <1>3, <1>4, <1>5, <1>6, <1>7, <1>8, <1>9, <1>10, <1>11 DEF IInv

(* A Get that cannot allocate its completion leaves the wait list as it is,
   and is on it in name only. *)
LEMMA NoMemoryStep ==
  ASSUME IInv, NEW r \in Requests, NoMemory(r)
  PROVE  IInv'
<1>0. req[r] = "waiting" /\ got[r] = None /\ hash[r] \in Hashes
  BY DEF IInv, TypeOK, Beginnings, WaitLists, Open, NoMemory
<1>1. TypeOK'
  <2>1. told[r] = 0
    BY <1>0 DEF IInv, Answers
  <2> QED BY <2>1 DEF IInv, TypeOK, FetchStates, ReqStates, NoMemory, cacheVars,
             blockVars, flushVars
<1>2. Beginnings'
  BY DEF IInv, TypeOK, Beginnings, NoMemory
<1>3. WaitLists'
  BY DEF IInv, TypeOK, WaitLists, Open, NoMemory, cacheVars
<1>4. InHand'
  BY <1>0 DEF IInv, TypeOK, InHand, Calling, WaitLists, Open, NoMemory
<1>5. Answers'
  BY DEF IInv, TypeOK, Answers, NoMemory
<1>6. PendingCountsRequests'
  <2>1. Counted' = Counted /\ Overdrawn' = Overdrawn
    BY DEF IInv, TypeOK, Counted, CountedStates, Overdrawn, NoMemory
  <2> QED BY <2>1 DEF IInv, PendingCountsRequests, NoMemory
<1>7. Blocks'
  BY DEF IInv, TypeOK, Blocks, Victims, NoMemory, blockVars
<1>8. RefCountsHolders'
  <2>1. \A b \in Requests : Holders(b)' = Holders(b)
    BY <1>0, LRUNoneApart DEF IInv, TypeOK, NoMemory, Holders, Referring
  <2>2. \A b \in Requests : Kept(b)' <=> Kept(b)
    BY DEF IInv, TypeOK, NoMemory, Kept, Cached, cacheVars
  <2> QED BY <2>1, <2>2, SameHolders DEF IInv, NoMemory, blockVars
<1>9. Array' /\ Evictions' /\ Memory'
  BY DEF IInv, TypeOK, Array, Evictions, Cached, Memory, NoMemory, cacheVars, blockVars
<1>10. Flushing'
  BY DEF IInv, TypeOK, Flushing, CountedStates, Past, NoMemory, flushVars
<1> QED BY <1>1, <1>2, <1>3, <1>4, <1>5, <1>6, <1>7, <1>8, <1>9, <1>10 DEF IInv

(* The request is counted right before the backing store is called. *)
LEMMA CallBackingStep ==
  ASSUME IInv, NEW r \in Requests, CallBacking(r)
  PROVE  IInv'
<1>1. TypeOK'
  BY DEF IInv, TypeOK, FetchStates, CallBacking, cacheVars, blockVars, callVars, flushVars
<1>2. Beginnings' /\ Answers' /\ Blocks'
  BY DEF IInv, TypeOK, Beginnings, Answers, Blocks, Victims, CallBacking, blockVars,
     callVars
<1>3. WaitLists'
  BY DEF IInv, TypeOK, WaitLists, Open, CallBacking, cacheVars, callVars
<1>4. InHand'
  BY DEF IInv, TypeOK, InHand, Calling, CallBacking, callVars
<1>5. PendingCountsRequests'
  <2>1. r \notin Counted /\ Counted' = Counted \cup {r} /\ Overdrawn' = Overdrawn
    BY DEF IInv, TypeOK, CallBacking, Counted, CountedStates, Overdrawn
  <2>2. Cardinality(Counted') = Cardinality(Counted) + 1
    BY <2>1, CountsFinite, FS_AddElement
  <2> QED BY <2>1, <2>2, CountsFinite DEF IInv, PendingCountsRequests, CallBacking
<1>6. RefCountsHolders'
  <2>1. \A b \in Requests : Holders(b)' = Holders(b)
    BY DEF CallBacking, Holders, callVars
  <2>2. \A b \in Requests : Kept(b)' <=> Kept(b)
    BY DEF IInv, TypeOK, CallBacking, Kept, Cached, cacheVars
  <2> QED BY <2>1, <2>2, SameHolders DEF IInv, CallBacking, blockVars
<1>7. Array' /\ Evictions' /\ Memory'
  BY DEF IInv, TypeOK, Array, Evictions, Cached, Memory, CallBacking, cacheVars,
     blockVars, callVars
<1>8. Flushing'
  BY DEF IInv, TypeOK, Flushing, CountedStates, Past, CallBacking, flushVars
<1> QED BY <1>1, <1>2, <1>3, <1>4, <1>5, <1>6, <1>7, <1>8 DEF IInv

(* Who waits for the fetch that takes its wait list waits for nothing else
   and has no block. *)
LEMMA TakenWaiters ==
  ASSUME IInv, NEW f \in Requests, TakeWaitList(f)
  PROVE  /\ hash[f] \in Hashes /\ waitList[hash[f]] \in SUBSET Requests
         /\ mem[f] = "none" /\ blockOf[hash[f]] = None
         /\ \A r \in waitList[hash[f]] : req[r] = "waiting" /\ got[r] = None
<1>1. hash[f] \in Hashes /\ mem[f] = "none" /\ blockOf[hash[f]] = None
  BY DEF IInv, TypeOK, Beginnings, WaitLists, Open, Blocks, TakeWaitList
<1>2. waitList[hash[f]] \in SUBSET Requests
  BY <1>1 DEF IInv, TypeOK
<1>3. ASSUME NEW r \in waitList[hash[f]] PROVE req[r] = "waiting" /\ got[r] = None
  <2>1. r \in Requests /\ hash[r] = hash[f] /\ got[r] = None
        /\ (req[r] = "waiting" \/ fetch[r] = "abandoned")
    BY <1>1, <1>2, <1>3 DEF IInv, WaitLists
  <2>2. fetch[r] # "abandoned"
    BY <2>1 DEF IInv, WaitLists, Open, TakeWaitList
  <2> QED BY <2>1, <2>2
<1> QED BY <1>1, <1>2, <1>3

(* A failed fetch takes its wait list, so its waiters are in nobody else's
   hands. *)
LEMMA BackingFailsStep ==
  ASSUME IInv, NEW f \in Requests, BackingFails(f)
  PROVE  IInv'
<1>0. /\ hash[f] \in Hashes /\ waitList[hash[f]] \in SUBSET Requests
      /\ \A r \in waitList[hash[f]] : req[r] = "waiting" /\ got[r] = None
  BY TakenWaiters DEF BackingFails
<1>1. TypeOK'
  BY <1>0 DEF IInv, TypeOK, FetchStates, BackingFails, TakeWaitList, cacheVars, blockVars,
     callVars, flushVars
<1>2. Beginnings' /\ Answers' /\ Blocks'
  BY DEF IInv, TypeOK, Beginnings, Answers, Blocks, Victims, BackingFails, TakeWaitList,
     blockVars, callVars
<1>3. WaitLists'
  BY DEF IInv, TypeOK, WaitLists, Open, BackingFails, TakeWaitList, cacheVars, callVars
<1>4. InHand'
  BY <1>0 DEF IInv, TypeOK, InHand, Calling, WaitLists, BackingFails, TakeWaitList, callVars
<1>5. PendingCountsRequests'
  <2>1. Counted' = Counted /\ Overdrawn' = Overdrawn
    BY DEF IInv, TypeOK, Counted, CountedStates, Overdrawn, BackingFails, TakeWaitList
  <2> QED BY <2>1 DEF IInv, PendingCountsRequests, BackingFails
<1>6. RefCountsHolders'
  <2>1. \A b \in Requests : Holders(b)' = Holders(b)
    BY DEF BackingFails, Holders, callVars
  <2>2. \A b \in Requests : Kept(b)' <=> Kept(b)
    BY DEF IInv, TypeOK, BackingFails, TakeWaitList, Kept, Cached, cacheVars
  <2> QED BY <2>1, <2>2, SameHolders DEF IInv, BackingFails, blockVars
<1>7. Array' /\ Evictions' /\ Memory'
  BY DEF IInv, TypeOK, Array, Evictions, Cached, Memory, BackingFails, TakeWaitList,
     cacheVars, blockVars, callVars
<1>8. Flushing'
  BY DEF IInv, TypeOK, Flushing, CountedStates, Past, BackingFails, TakeWaitList, flushVars
<1> QED BY <1>1, <1>2, <1>3, <1>4, <1>5, <1>6, <1>7, <1>8 DEF IInv

(* A delivered block is put last in the array, where it was not, with a
   reference of the cache's own and one per waiter; the first block of a full
   array leaves it and the map, and keeps its reference until it is dropped. *)
LEMMA BackingDeliversStep ==
  ASSUME IInv, NEW f \in Requests, BackingDelivers(f)
  PROVE  IInv'
<1> DEFINE w == waitList[hash[f]]
           full == Len(lru) = maxCount
           old == Head(lru)
           rest == IF full THEN Tail(lru) ELSE lru
           room == IF full THEN [blockOf EXCEPT ![hash[old]] = None] ELSE blockOf
<1>0. /\ hash[f] \in Hashes /\ w \in SUBSET Requests
      /\ mem[f] = "none" /\ blockOf[hash[f]] = None
      /\ \A r \in w : req[r] = "waiting" /\ got[r] = None
      /\ Cardinality(w) \in Nat /\ fetch[f] = "counted"
  <2>1. /\ hash[f] \in Hashes /\ w \in SUBSET Requests
        /\ mem[f] = "none" /\ blockOf[hash[f]] = None
        /\ \A r \in w : req[r] = "waiting" /\ got[r] = None
        /\ fetch[f] = "counted"
    BY TakenWaiters DEF BackingDelivers, Cache, TakeWaitList
  <2>2. Cardinality(w) \in Nat
    BY <2>1, LRURequestsFinite, FS_Subset, FS_CardinalityType
  <2> QED BY <2>1, <2>2
<1>1. /\ lru' = Append(rest, f)
      /\ blockOf' = [room EXCEPT ![hash[f]] = f]
      /\ victim' = [victim EXCEPT ![f] = IF full THEN old ELSE None]
      /\ fetch' = [fetch EXCEPT ![f] = IF full THEN "evicting" ELSE "delivering"]
      /\ refCount' = [refCount EXCEPT ![f] = 1 + Cardinality(w)]
      /\ got' = [r \in Requests |-> IF r \in w THEN f ELSE got[r]]
      /\ mem' = [mem EXCEPT ![f] = "live"]
      /\ waitList' = [waitList EXCEPT ![hash[f]] = {}]
      /\ calls' = [calls EXCEPT ![f] = w]
  BY DEF BackingDelivers, Cache, TakeWaitList
<1>2. UNCHANGED <<disposed, pending, maxCount, flushCalls, hash, req, told, flushList,
                  flush, covers, refused, uaf>>
  BY DEF BackingDelivers, Cache, flushVars
<1>3. /\ f \notin Cached /\ Cached \subseteq Requests /\ lru \in Seq(Requests)
      /\ Distinct(lru) /\ Len(lru) \in Nat /\ maxCount \in Nat \ {0}
  BY <1>0, CachedRequests, LenProperties, MaxCountsPositive DEF IInv, TypeOK, Array
<1>4. /\ full => old \in Cached /\ old \in Requests /\ old # f /\ mem[old] # "none"
                 /\ hash[old] \in Hashes /\ blockOf[hash[old]] = old
      /\ rest \in Seq(Requests) /\ Distinct(rest) /\ Len(rest) < maxCount
      /\ ToSet(rest) = IF full THEN Cached \ {old} ELSE Cached
  <2>1. CASE full
    <3>1. /\ old \in ToSet(lru) /\ Tail(lru) \in Seq(Requests)
          /\ Len(Tail(lru)) = Len(lru) - 1
          /\ ToSet(Tail(lru)) = ToSet(lru) \ {old} /\ Distinct(Tail(lru))
      BY <1>3, <2>1, TailSet
    <3>2. old \in Cached /\ old \in Requests /\ old # f /\ mem[old] # "none"
          /\ hash[old] \in Hashes /\ blockOf[hash[old]] = old
      BY <1>3, <3>1 DEF IInv, Array, Cached
    <3> QED BY <1>3, <2>1, <3>1, <3>2 DEF Cached
  <2>2. CASE ~full
    BY <1>3, <2>2 DEF IInv, Array, Cached
  <2> QED BY <2>1, <2>2
<1> HIDE DEF w, full, old, rest, room
<1>5. /\ lru' \in Seq(Requests) /\ Distinct(lru') /\ Len(lru') <= maxCount
      /\ Cached' = (IF full THEN Cached \ {old} ELSE Cached) \cup {f}
  <2>1. f \notin ToSet(rest) /\ Len(rest) \in Nat
    BY <1>3, <1>4, LenProperties
  <2>2. /\ Append(rest, f) \in Seq(Requests) /\ Len(Append(rest, f)) = Len(rest) + 1
        /\ ToSet(Append(rest, f)) = ToSet(rest) \cup {f} /\ Distinct(Append(rest, f))
    BY <1>4, <2>1, AppendSet
  <2>3. Distinct(lru') /\ ToSet(lru') = ToSet(rest) \cup {f}
    BY <1>1, <2>2
  <2> QED BY <1>1, <1>3, <1>4, <2>1, <2>2, <2>3 DEF Cached
<1>6. \A h \in Hashes : blockOf'[h] = IF h = hash[f] THEN f
                          ELSE IF full /\ h = hash[old] THEN None ELSE blockOf[h]
  BY <1>0, <1>1, <1>4 DEF IInv, TypeOK, room
<1>7. TypeOK'
  <2>1. refCount' \in [Requests -> Nat] /\ got' \in [Requests -> Requests \cup {None}]
    BY <1>0, <1>1 DEF IInv, TypeOK
  <2>2. /\ mem' \in [Requests -> {"none", "live", "freed"}]
        /\ fetch' \in [Requests -> FetchStates]
        /\ victim' \in [Requests -> Requests \cup {None}]
    BY <1>1, <1>4 DEF IInv, TypeOK, FetchStates
  <2>3. /\ waitList' \in [Hashes -> SUBSET Requests]
        /\ calls' \in [Requests -> SUBSET Requests]
    BY <1>0, <1>1 DEF IInv, TypeOK
  <2>4. blockOf' \in [Hashes -> Requests \cup {None}]
    <3>1. room \in [Hashes -> Requests \cup {None}]
      BY DEF IInv, TypeOK, room
    <3> QED BY <1>1, <3>1
  <2> QED BY <1>2, <1>5, <2>1, <2>2, <2>3, <2>4 DEF IInv, TypeOK
<1>8. Beginnings'
  BY <1>0, <1>1, <1>2 DEF IInv, TypeOK, Beginnings
<1>9. WaitLists'
  <2>1. ASSUME NEW h \in Hashes, NEW r \in waitList'[h]
        PROVE  /\ hash'[r] = h /\ got'[r] = None
               /\ req'[r] = "waiting" \/ (req'[r] = "failed" /\ fetch'[r] = "abandoned")
    <3>1. h # hash[f] /\ r \in waitList[h] /\ r \in Requests
      BY <1>0, <1>1, <2>1 DEF IInv, TypeOK
    <3>2. hash[r] = h /\ got[r] = None
          /\ (req[r] = "waiting" \/ (req[r] = "failed" /\ fetch[r] = "abandoned"))
      BY <3>1 DEF IInv, WaitLists
    <3>3. r \notin w /\ r # f
      BY <1>0, <3>1, <3>2 DEF IInv, WaitLists, w
    <3> QED BY <1>1, <1>2, <3>1, <3>2, <3>3 DEF IInv, TypeOK
  <2>2. ASSUME NEW g \in Requests, fetch'[g] \in Open
        PROVE  /\ g # f /\ fetch[g] \in Open
               /\ g \in waitList'[hash'[g]] /\ blockOf'[hash'[g]] = None
    <3>1. g # f /\ fetch[g] \in Open
      BY <1>1, <2>2 DEF IInv, TypeOK, Open
    <3>2. hash[g] # hash[f] /\ hash[g] \in Hashes
      BY <1>0, <3>1 DEF IInv, WaitLists, Beginnings, Open
    <3>3. g \in waitList[hash[g]] /\ blockOf[hash[g]] = None
      BY <3>1 DEF IInv, WaitLists
    <3> QED BY <1>0, <1>1, <1>2, <1>6, <3>1, <3>2, <3>3 DEF IInv, TypeOK
  <2>3. \A g, e \in Requests : fetch'[g] \in Open /\ fetch'[e] \in Open
                               /\ hash'[g] = hash'[e] => g = e
    BY <1>2, <2>2 DEF IInv, WaitLists
  <2> QED BY <2>1, <2>2, <2>3 DEF WaitLists
<1>10. InHand'
  <2>1. calls[f] = {}
    BY <1>0 DEF IInv, InHand, Calling
  <2>2. \A r \in w : /\ \A h \in Hashes : r \notin waitList'[h]
                     /\ \A g \in Requests : r \in calls'[g] => g = f
    BY <1>0, <1>1 DEF IInv, TypeOK, InHand, WaitLists, w
  <2>3. \A r \in w : got'[r] = f /\ req'[r] = "waiting"
    BY <1>0, <1>1, <1>2
  <2>4. fetch'[f] \in {"evicting", "delivering"}
    BY <1>1 DEF IInv, TypeOK
  <2>5. ASSUME NEW g \in Requests \ {f}, NEW r \in calls'[g]
        PROVE  /\ r \in calls[g] /\ r \notin w /\ fetch'[g] = fetch[g]
               /\ r \in Requests /\ got'[r] = got[r]
    BY <1>0, <1>1, <2>5 DEF IInv, TypeOK, InHand, w
  <2>6. \A g \in Requests \ {f} : \A r \in calls'[g] :
          /\ fetch'[g] \in Calling
          /\ req'[r] = "waiting"
          /\ got'[r] = IF fetch'[g] = "failing" THEN None ELSE g
          /\ \A h \in Hashes : r \notin waitList'[h]
          /\ \A e \in Requests : r \in calls'[e] => e = g
    <3> TAKE g \in Requests \ {f}
    <3> TAKE r \in calls'[g]
    <3>1. /\ r \in calls[g] /\ r \notin w /\ fetch'[g] = fetch[g]
          /\ r \in Requests /\ got'[r] = got[r]
      BY <2>5
    <3>2. \A h \in Hashes : r \notin waitList'[h]
      BY <1>0, <1>1, <3>1 DEF IInv, TypeOK, InHand
    <3>3. \A e \in Requests : r \in calls'[e] => e = g
      BY <1>0, <1>1, <3>1 DEF IInv, TypeOK, InHand
    <3> QED BY <1>2, <3>1, <3>2, <3>3 DEF IInv, InHand
  <2>7. calls'[f] = w
    BY <1>1 DEF IInv, TypeOK
  <2> QED BY <2>2, <2>3, <2>4, <2>6, <2>7 DEF InHand, Calling
<1>11. Answers'
  BY <1>1, <1>2 DEF IInv, TypeOK, Answers
<1>12. PendingCountsRequests'
  <2>1. Counted' = Counted /\ Overdrawn' = Overdrawn
    BY <1>0, <1>1 DEF IInv, TypeOK, Counted, CountedStates, Overdrawn
  <2> QED BY <1>2, <2>1 DEF IInv, PendingCountsRequests
<1>13. Blocks'
  <2>1. \A b \in Requests : mem'[b] # "none" =>
          fetch'[b] \in {"evicting", "refreshing", "delivering", "done"}
    BY <1>1 DEF IInv, TypeOK, Blocks
  <2>2. \A r \in Requests : got'[r] # None => mem'[got'[r]] # "none"
    BY <1>1 DEF IInv, TypeOK, Blocks
  <2>3. \A r \in Requests : req'[r] \in {"hit", "holding", "refreshing"} => got'[r] # None
    BY <1>0, <1>1, <1>2 DEF IInv, TypeOK, Blocks
  <2>4. \A g \in Requests : fetch'[g] \in Victims =>
          victim'[g] \in Requests /\ mem'[victim'[g]] # "none"
    <3>1. ASSUME fetch'[f] \in Victims
          PROVE  victim'[f] \in Requests /\ mem'[victim'[f]] # "none"
      BY <1>1, <1>4, <3>1 DEF IInv, TypeOK, Victims
    <3>2. ASSUME NEW g \in Requests \ {f}, fetch'[g] \in Victims
          PROVE  victim'[g] \in Requests /\ mem'[victim'[g]] # "none"
      <4>1. victim'[g] = victim[g] /\ victim[g] \in Requests /\ mem[victim[g]] # "none"
        BY <1>1, <3>2 DEF IInv, TypeOK, Blocks
      <4> QED BY <1>1, <4>1 DEF IInv, TypeOK
    <3> QED BY <3>1, <3>2
  <2> QED BY <2>1, <2>2, <2>3, <2>4 DEF Blocks
<1>14. Array'
  <2>1. \A b \in Cached \ {old} : b # f /\ mem'[b] # "none" /\ hash'[b] \in Hashes
                                  /\ hash[b] # hash[f] /\ (full => hash[b] # hash[old])
                                  /\ blockOf[hash[b]] = b
    BY <1>0, <1>1, <1>2, <1>3, <1>4, LRUNoneApart DEF IInv, TypeOK, Array
  <2>2. full \/ \A b \in Cached : b # f /\ mem'[b] # "none" /\ hash'[b] \in Hashes
                                  /\ hash[b] # hash[f] /\ blockOf[hash[b]] = b
    BY <1>0, <1>1, <1>2, <1>3, LRUNoneApart DEF IInv, TypeOK, Array
  <2>3. mem'[f] # "none" /\ hash'[f] \in Hashes /\ blockOf'[hash'[f]] = f
    BY <1>0, <1>1, <1>2, <1>6 DEF IInv, TypeOK
  <2>4. \A b \in Cached' : mem'[b] # "none" /\ hash'[b] \in Hashes /\ blockOf'[hash'[b]] = b
    <3> TAKE b \in Cached'
    <3>1. CASE b = f
      BY <2>3, <3>1
    <3>2. CASE b # f /\ full
      BY <1>2, <1>5, <1>6, <2>1, <3>2
    <3>3. CASE b # f /\ ~full
      BY <1>2, <1>5, <1>6, <2>2, <3>3
    <3> QED BY <3>1, <3>2, <3>3
  <2>5. \A h \in Hashes : blockOf'[h] # None => blockOf'[h] \in Cached'
                                               /\ hash'[blockOf'[h]] = h
    <3> SUFFICES ASSUME NEW h \in Hashes, blockOf'[h] # None
                 PROVE  blockOf'[h] \in Cached' /\ hash'[blockOf'[h]] = h
      OBVIOUS
    <3>1. CASE h = hash[f]
      BY <1>2, <1>5, <1>6, <3>1
    <3>2. CASE h # hash[f]
      <4>1. blockOf'[h] = blockOf[h] /\ blockOf[h] \in Cached /\ hash[blockOf[h]] = h
        BY <1>6, <3>2 DEF IInv, Array
      <4>2. full => blockOf[h] # old
        BY <1>6, <3>2, <4>1
      <4> QED BY <1>2, <1>5, <4>1, <4>2
    <3> QED BY <3>1, <3>2
  <2> QED BY <1>2, <1>5, <2>4, <2>5 DEF Array
<1>15. Evictions'
  <2>1. \A g \in Requests \ {f} : fetch'[g] = fetch[g] /\ victim'[g] = victim[g]
    BY <1>1 DEF IInv, TypeOK
  <2>2. \A g \in Requests \ {f} : fetch[g] = "evicting" =>
            victim[g] \notin Cached /\ victim[g] # f
    BY <1>0 DEF IInv, Evictions, Blocks, Victims
  <2>3. fetch'[f] = "evicting" => full /\ victim'[f] = old
    BY <1>1 DEF IInv, TypeOK
  <2>4. \A g \in Requests : fetch'[g] = "evicting" => victim'[g] \notin Cached'
    BY <1>4, <1>5, <2>1, <2>2, <2>3
  <2>5. \A g, e \in Requests : fetch'[g] = "evicting" /\ fetch'[e] = "evicting"
                               /\ victim'[g] = victim'[e] => g = e
    BY <1>4, <2>1, <2>2, <2>3 DEF IInv, Evictions
  <2> QED BY <2>4, <2>5 DEF Evictions
<1>16. RefCountsHolders'
  <2>1. \A r \in Requests : got[r] # f
    BY <1>0, LRUNoneApart DEF IInv, Blocks
  <2>2. Holders(f)' = w
    BY <1>0, <1>1, <1>2, <2>1 DEF IInv, TypeOK, Holders, Referring
  <2>3. \A c \in Requests \ {f} : Holders(c)' = Holders(c)
    BY <1>0, <1>1, <1>2, LRUNoneApart DEF IInv, TypeOK, Holders, Referring
  <2>4. Kept(f)'
    BY <1>5 DEF Kept
  <2>5. \A c \in Requests \ {f} : Kept(c)' <=> Kept(c)
    <3> TAKE c \in Requests \ {f}
    <3>1. \A g \in Requests \ {f} : fetch'[g] = fetch[g] /\ victim'[g] = victim[g]
      BY <1>1 DEF IInv, TypeOK
    <3>2. (fetch'[f] = "evicting" /\ victim'[f] = c) <=> (full /\ c = old)
      BY <1>1 DEF IInv, TypeOK
    <3>3. c \in Cached' <=> (c \in Cached /\ ~(full /\ c = old))
      BY <1>5
    <3>4. full /\ c = old => c \in Cached
      BY <1>4
    <3>5. fetch[f] # "evicting"
      BY <1>0
    <3> QED BY <3>1, <3>2, <3>3, <3>4, <3>5 DEF Kept
  <2>6. refCount'[f] = Cardinality(Holders(f)') + IF Kept(f)' THEN 1 ELSE 0
    BY <1>0, <1>1, <2>2, <2>4 DEF IInv, TypeOK
  <2>7. \A c \in Requests \ {f} : mem'[c] # "none" =>
            refCount'[c] = Cardinality(Holders(c)') + IF Kept(c)' THEN 1 ELSE 0
    BY <1>1, <2>3, <2>5 DEF IInv, TypeOK, RefCountsHolders
  <2> QED BY <2>6, <2>7 DEF RefCountsHolders
<1>17. Memory'
  BY <1>1 DEF IInv, TypeOK, Memory
<1>18. Flushing'
  BY <1>0, <1>1, <1>2 DEF IInv, TypeOK, Flushing, CountedStates, Past
<1> QED BY <1>7, <1>8, <1>9, <1>10, <1>11, <1>12, <1>13, <1>14, <1>15, <1>16, <1>17,
           <1>18 DEF IInv

(* The cache's own reference to an evicted block is dropped once, after the
   block left the array. *)
LEMMA DropVictimStep ==
  ASSUME IInv, NEW f \in Requests, DropVictim(f)
  PROVE  IInv'
<1>0. PICK v \in Requests : /\ v = victim[f] /\ Kept(v) /\ mem[v] # "none" /\ v \notin Cached
                            /\ fetch[f] = "evicting" /\ Drop(v)
  BY DEF IInv, Blocks, Victims, Evictions, Kept, DropVictim
<1>1. refCount[v] > 0
  BY <1>0, ReferencesKeepAlive
<1>2. /\ refCount' \in [Requests -> Nat] /\ uaf' \in BOOLEAN
      /\ mem' \in [Requests -> {"none", "live", "freed"}]
      /\ refCount'[v] = refCount[v] - 1
      /\ \A c \in Requests \ {v} : refCount'[c] = refCount[c]
      /\ \A c \in Requests : mem'[c] = "none" <=> mem[c] = "none"
      /\ Memory'
  BY <1>0, <1>1, DropEffect
<1>3. PICK s \in {"refreshing", "delivering"} : fetch' = [fetch EXCEPT ![f] = s]
  BY DEF DropVictim
<1>4. UNCHANGED <<disposed, pending, maxCount, lru, blockOf, waitList, victim, calls,
                  flushCalls, hash, req, got, told, flushList, flush, covers, refused>>
  BY DEF DropVictim, cacheVars, callVars, flushVars
<1>5. TypeOK'
  BY <1>2, <1>3, <1>4 DEF IInv, TypeOK, FetchStates
<1>6. Beginnings' /\ Answers'
  BY <1>0, <1>3, <1>4 DEF IInv, TypeOK, Beginnings, Answers
<1>7. WaitLists'
  BY <1>0, <1>3, <1>4 DEF IInv, TypeOK, WaitLists, Open
<1>8. InHand'
  BY <1>0, <1>3, <1>4 DEF IInv, TypeOK, InHand, Calling
<1>9. PendingCountsRequests'
  <2>1. Counted' = Counted /\ Overdrawn' = Overdrawn
    BY <1>0, <1>3 DEF IInv, TypeOK, Counted, CountedStates, Overdrawn
  <2> QED BY <1>4, <2>1 DEF IInv, PendingCountsRequests
<1>10. Blocks'
  BY <1>0, <1>2, <1>3, <1>4 DEF IInv, TypeOK, Blocks, Victims
<1>11. Array'
  <2>1. \A b \in Cached : b \in Requests
    BY CachedRequests DEF IInv
  <2> QED BY <1>2, <1>4, <2>1 DEF IInv, Array, Cached
<1>12. Evictions'
  BY <1>0, <1>3, <1>4 DEF IInv, TypeOK, Evictions, Cached
<1>13. RefCountsHolders'
  <2>1. \A c \in Requests : Holders(c)' = Holders(c)
    BY <1>4 DEF Holders
  <2>2. ~Kept(v)'
    BY <1>0, <1>3, <1>4 DEF IInv, TypeOK, Evictions, Kept, Cached
  <2>3. \A c \in Requests \ {v} : Kept(c)' <=> Kept(c)
    BY <1>0, <1>3, <1>4 DEF IInv, TypeOK, Kept, Cached
  <2>4. refCount[v] = Cardinality(Holders(v)) + 1 /\ Cardinality(Holders(v)) \in Nat
    BY <1>0, CountsFinite DEF IInv, RefCountsHolders
  <2>5. refCount'[v] = Cardinality(Holders(v)') + IF Kept(v)' THEN 1 ELSE 0
    BY <1>2, <2>1, <2>2, <2>4
  <2>6. \A c \in Requests \ {v} : mem'[c] # "none" =>
            refCount'[c] = Cardinality(Holders(c)') + IF Kept(c)' THEN 1 ELSE 0
    BY <1>2, <2>1, <2>3 DEF IInv, RefCountsHolders
  <2> QED BY <2>5, <2>6 DEF RefCountsHolders
<1>14. Flushing'
  BY <1>0, <1>3, <1>4 DEF IInv, TypeOK, Flushing, CountedStates, Past
<1> QED BY <1>2, <1>5, <1>6, <1>7, <1>8, <1>9, <1>10, <1>11, <1>12, <1>13, <1>14 DEF IInv

(* Refreshing on behalf of a victim that is lent keeps what the array holds. *)
LEMMA RefreshVictimStep ==
  ASSUME IInv, NEW f \in Requests, RefreshVictim(f)
  PROVE  IInv'
<1>0. fetch[f] = "refreshing" /\ victim[f] \in Requests /\ mem[victim[f]] # "none"
  BY DEF IInv, Blocks, Victims, RefreshVictim
<1>1. /\ lru' \in Seq(Requests) /\ uaf' \in BOOLEAN
      /\ Len(lru') = Len(lru) /\ Distinct(lru') /\ Cached' = Cached
  BY <1>0, RefreshEffect DEF RefreshVictim
<1>2. fetch' = [fetch EXCEPT ![f] = "delivering"]
  BY DEF RefreshVictim
<1>3. UNCHANGED <<disposed, pending, maxCount, blockOf, waitList, refCount, mem, victim,
                  calls, flushCalls, hash, req, got, told, flushList, flush, covers, refused>>
  BY DEF RefreshVictim, blockVars, callVars, flushVars
<1>4. TypeOK'
  BY <1>1, <1>2, <1>3 DEF IInv, TypeOK, FetchStates
<1>5. Beginnings' /\ Answers' /\ Blocks' /\ Memory'
  BY <1>0, <1>2, <1>3 DEF IInv, TypeOK, Beginnings, Answers, Blocks, Victims, Memory
<1>6. WaitLists'
  BY <1>0, <1>2, <1>3 DEF IInv, TypeOK, WaitLists, Open
<1>7. InHand'
  BY <1>0, <1>2, <1>3 DEF IInv, TypeOK, InHand, Calling
<1>8. PendingCountsRequests'
  <2>1. Counted' = Counted /\ Overdrawn' = Overdrawn
    BY <1>0, <1>2 DEF IInv, TypeOK, Counted, CountedStates, Overdrawn
  <2> QED BY <1>3, <2>1 DEF IInv, PendingCountsRequests
<1>9. Array' /\ Evictions'
  BY <1>0, <1>1, <1>2, <1>3 DEF IInv, TypeOK, Array, Evictions
<1>10. RefCountsHolders'
  <2>1. \A b \in Requests : Holders(b)' = Holders(b)
    BY <1>3 DEF Holders
  <2>2. \A b \in Requests : Kept(b)' <=> Kept(b)
    BY <1>0, <1>1, <1>2, <1>3 DEF IInv, TypeOK, Kept
  <2> QED BY <1>3, <2>1, <2>2, SameHolders DEF IInv
<1>11. Flushing'
  BY <1>0, <1>2, <1>3 DEF IInv, TypeOK, Flushing, CountedStates, Past
<1> QED BY <1>4, <1>5, <1>6, <1>7, <1>8, <1>9, <1>10, <1>11 DEF IInv

(* A waiter that is called learns the outcome for the first time, and
   leaves the hands of the fetch. *)
LEMMA CallWaiterStep ==
  ASSUME IInv, NEW f \in Requests, NEW r \in Requests, CallWaiter(f, r)
  PROVE  IInv'
<1>0. /\ fetch[f] \in {"delivering", "failing"} /\ req[r] = "waiting"
      /\ got[r] = IF fetch[f] = "failing" THEN None ELSE f
      /\ \A h \in Hashes : r \notin waitList[h]
      /\ \A g \in Requests : r \in calls[g] => g = f
  BY DEF IInv, InHand, CallWaiter
<1>1. TypeOK'
  <2>1. told[r] = 0
    BY <1>0 DEF IInv, Answers
  <2> QED BY <2>1 DEF IInv, TypeOK, ReqStates, CallWaiter, cacheVars, blockVars, flushVars
<1>2. Beginnings'
  BY <1>0 DEF IInv, TypeOK, Beginnings, CallWaiter
<1>3. WaitLists'
  BY <1>0 DEF IInv, TypeOK, WaitLists, Open, CallWaiter, cacheVars
<1>4. InHand'
  BY DEF IInv, TypeOK, InHand, CallWaiter
<1>5. Answers'
  BY <1>0 DEF IInv, TypeOK, Answers, CallWaiter
<1>6. Blocks'
  BY <1>0, LRUNoneApart DEF IInv, TypeOK, Blocks, CallWaiter, blockVars
<1>7. RefCountsHolders'
  <2>1. \A b \in Requests : Holders(b)' = Holders(b)
    BY <1>0, LRUNoneApart DEF IInv, TypeOK, CallWaiter, Holders, Referring
  <2>2. \A b \in Requests : Kept(b)' <=> Kept(b)
    BY DEF CallWaiter, Kept, Cached, cacheVars
  <2> QED BY <2>1, <2>2, SameHolders DEF IInv, CallWaiter, blockVars
<1>8. PendingCountsRequests' /\ Array' /\ Evictions' /\ Memory' /\ Flushing'
  BY DEF IInv, PendingCountsRequests, Counted, Overdrawn, Array, Evictions, Cached,
     Memory, Flushing, CallWaiter, cacheVars, blockVars, flushVars
<1> QED BY <1>1, <1>2, <1>3, <1>4, <1>5, <1>6, <1>7, <1>8 DEF IInv

(* The caller of a hit learns the outcome for the first time. *)
LEMMA CallHitStep ==
  ASSUME IInv, NEW r \in Requests, CallHit(r)
  PROVE  IInv'
<1>1. TypeOK'
  <2>1. told[r] = 0
    BY DEF IInv, Answers, CallHit
  <2> QED BY <2>1 DEF IInv, TypeOK, ReqStates, CallHit, cacheVars, blockVars, fetchVars,
             flushVars
<1>2. Beginnings' /\ Answers'
  BY DEF IInv, TypeOK, Beginnings, Answers, CallHit, fetchVars
<1>3. WaitLists' /\ InHand'
  BY DEF IInv, TypeOK, WaitLists, InHand, CallHit, cacheVars, fetchVars
<1>4. Blocks'
  BY DEF IInv, TypeOK, Blocks, CallHit, blockVars, fetchVars
<1>5. RefCountsHolders'
  <2>1. \A b \in Requests : Holders(b)' = Holders(b)
    BY DEF IInv, TypeOK, CallHit, Holders, Referring
  <2>2. \A b \in Requests : Kept(b)' <=> Kept(b)
    BY DEF CallHit, Kept, Cached, cacheVars, fetchVars
  <2> QED BY <2>1, <2>2, SameHolders DEF IInv, CallHit, blockVars
<1>6. PendingCountsRequests' /\ Array' /\ Evictions' /\ Memory' /\ Flushing'
  BY DEF IInv, PendingCountsRequests, Counted, Overdrawn, Array, Evictions, Cached,
     Memory, Flushing, CallHit, cacheVars, blockVars, fetchVars, flushVars
<1> QED BY <1>1, <1>2, <1>3, <1>4, <1>5, <1>6 DEF IInv

(* The count goes down by one whether its request was counted or had been
   completed before; when it was the last one, and none had been completed
   twice, all that any flush covers has completed. *)
LEMMA CompleteRequestStep ==
  ASSUME IInv, NEW f \in Requests, CompleteRequest(f)
  PROVE  IInv'
<1>0. /\ fetch[f] \in {"delivering", "failing", "again"} /\ calls[f] = {}
      /\ pending' = pending - 1
      /\ UNCHANGED <<disposed, maxCount, lru, blockOf, waitList, refCount, mem, victim,
                     calls, hash, req, got, told, flush, covers, refused, uaf>>
  BY DEF CompleteRequest, LeaveCount, ReadyToComplete, cacheVars, blockVars, callVars
<1>1. PICK s \in {"again", "done", "overdrawn"} :
         /\ fetch' = [fetch EXCEPT ![f] = s]
         /\ s = "overdrawn" <=> fetch[f] = "again"
         /\ s = "again" => f \in refused
  BY <1>0 DEF IInv, TypeOK, CompleteRequest, LeaveCount
<1>2. flushList' \in SUBSET Flushes /\ flushCalls' \in [Requests -> SUBSET Flushes]
  BY DEF IInv, TypeOK, CompleteRequest, LeaveCount
<1>3. TypeOK'
  <2>1. pending' \in Int
    BY <1>0 DEF IInv, TypeOK
  <2>2. fetch' \in [Requests -> FetchStates]
    BY <1>1 DEF IInv, TypeOK, FetchStates
  <2> QED BY <1>0, <1>2, <2>1, <2>2 DEF IInv, TypeOK
<1>4. Beginnings' /\ Answers'
  BY <1>0, <1>1 DEF IInv, TypeOK, Beginnings, Answers
<1>5. WaitLists'
  BY <1>0, <1>1 DEF IInv, TypeOK, WaitLists, Open
<1>6. InHand'
  BY <1>0, <1>1 DEF IInv, TypeOK, InHand
<1>7. PendingCountsRequests'
  <2>1. CASE fetch[f] = "again"
    <3>1. Counted' = Counted /\ f \notin Overdrawn /\ Overdrawn' = Overdrawn \cup {f}
      BY <1>1, <2>1 DEF IInv, TypeOK, Counted, CountedStates, Overdrawn
    <3>2. Cardinality(Overdrawn') = Cardinality(Overdrawn) + 1
      BY <3>1, CountsFinite, FS_AddElement
    <3> QED BY <1>0, <3>1, <3>2, CountsFinite DEF IInv, PendingCountsRequests
  <2>2. CASE fetch[f] # "again"
    <3>1. f \in Counted /\ Counted' = Counted \ {f} /\ Overdrawn' = Overdrawn
      BY <1>0, <1>1, <2>2 DEF IInv, TypeOK, Counted, CountedStates, Overdrawn
    <3>2. Cardinality(Counted') = Cardinality(Counted) - 1
      BY <3>1, CountsFinite, FS_RemoveElement
    <3> QED BY <1>0, <3>1, <3>2, CountsFinite DEF IInv, PendingCountsRequests
  <2> QED BY <2>1, <2>2
<1>8. Blocks'
  <2>1. fetch[f] # "delivering" => mem[f] = "none"
    BY <1>0 DEF IInv, TypeOK, Blocks
  <2>2. fetch[f] = "delivering" => fetch'[f] = "done"
    BY DEF IInv, TypeOK, CompleteRequest, LeaveCount
  <2> QED BY <1>0, <1>1, <2>1, <2>2 DEF IInv, TypeOK, Blocks, Victims
<1>9. RefCountsHolders'
  <2>1. \A b \in Requests : Holders(b)' = Holders(b)
    BY <1>0 DEF Holders
  <2>2. \A b \in Requests : Kept(b)' <=> Kept(b)
    BY <1>0, <1>1 DEF IInv, TypeOK, Kept, Cached
  <2> QED BY <1>0, <2>1, <2>2, SameHolders DEF IInv
<1>10. Array' /\ Evictions' /\ Memory'
  BY <1>0, <1>1 DEF IInv, TypeOK, Array, Evictions, Cached, Memory
<1>11. Flushing'
  <2>1. \A g \in Flushes : \A e \in covers'[g] : fetch'[e] \in CountedStates \cup Past
    BY <1>0, <1>1 DEF IInv, TypeOK, Flushing, Past
  <2>2. \A e \in Requests : fetch[e] \in Past => fetch'[e] \in Past
    BY <1>1 DEF IInv, TypeOK, Past
  <2>3. CASE pending = 1
    <3>1. flushList' = {} /\ flushCalls' = [flushCalls EXCEPT ![f] = flushList]
      BY <2>3 DEF CompleteRequest, LeaveCount
    <3>2. \A g \in flushList' : flush'[g] # "idle"
      BY <3>1
    <3>3. \A e \in Requests : \A g \in flushCalls'[e] : flush'[g] # "idle"
      BY <1>0, <3>1 DEF IInv, TypeOK, Flushing
    <3>4. ASSUME refused = {}
          PROVE  \A g \in Flushes : \A e \in covers'[g] : fetch'[e] \in Past
      <4>1. f \in Counted /\ Counted' = Counted \ {f} /\ Overdrawn = {}
        BY <1>0, <1>1, <3>4 DEF IInv, TypeOK, Answers, Counted, CountedStates, Overdrawn
      <4>2. Cardinality(Counted \ {f}) = 0 /\ IsFiniteSet(Counted \ {f})
        BY <2>3, <4>1, CountsFinite, FS_EmptySet, FS_RemoveElement
           DEF IInv, PendingCountsRequests
      <4>3. Counted' = {}
        BY <4>1, <4>2, FS_EmptySet
      <4> QED BY <1>0, <2>1, <4>3 DEF IInv, TypeOK, Counted
    <3>5. \A e \in Requests : flushCalls'[e] \subseteq Flushes
      BY <1>2
    <3> QED BY <1>0, <2>1, <3>2, <3>3, <3>4, <3>5 DEF Flushing
  <2>4. CASE pending # 1
    <3>1. flushList' = flushList /\ flushCalls' = flushCalls
      BY <2>4 DEF CompleteRequest, LeaveCount
    <3> QED BY <1>0, <2>1, <2>2, <3>1 DEF IInv, TypeOK, Flushing
  <2> QED BY <2>3, <2>4
<1> QED BY <1>3, <1>4, <1>5, <1>6, <1>7, <1>8, <1>9, <1>10, <1>11 DEF IInv

(* A flush that is called was taken off the list. *)
LEMMA CallFlushStep ==
  ASSUME IInv, NEW f \in Requests, NEW g \in Flushes, CallFlush(f, g)
  PROVE  IInv'
<1>1. TypeOK'
  BY DEF IInv, TypeOK, CallFlush, cacheVars, blockVars, callVars
<1>2. Flushing'
  BY DEF IInv, TypeOK, Flushing, CallFlush
<1>3. Beginnings' /\ WaitLists' /\ InHand' /\ Answers' /\ PendingCountsRequests' /\ Blocks'
  BY DEF IInv, Beginnings, WaitLists, InHand, Answers, PendingCountsRequests, Counted,
     Overdrawn, Blocks, CallFlush, cacheVars, blockVars, callVars
<1>4. Array' /\ Evictions' /\ Memory' /\ RefCountsHolders'
  BY DEF IInv, Array, Evictions, Memory, RefCountsHolders, Holders, Kept, Cached,
     CallFlush, cacheVars, blockVars, callVars
<1> QED BY <1>1, <1>2, <1>3, <1>4 DEF IInv

(* The covers of a flush that finds nothing counted are empty, unless a
   fetch was completed twice. *)
LEMMA FlushStep ==
  ASSUME IInv, NEW g \in Flushes, Flush(g)
  PROVE  IInv'
<1>0. covers' = [covers EXCEPT ![g] = Counted] /\ Counted \subseteq Requests
  BY DEF Flush, Counted
<1>1. TypeOK'
  <2>1. covers' \in [Flushes -> SUBSET Requests]
    BY <1>0 DEF IInv, TypeOK
  <2>2. /\ flushList' \in SUBSET Flushes
        /\ flush' \in [Flushes -> {"idle", "queued", "done"}]
    BY ZenonT(40) DEF IInv, TypeOK, Flush
  <2> QED BY <2>1, <2>2 DEF IInv, TypeOK, Flush, cacheVars, blockVars, fetchVars, callVars
<1>2. Flushing'
  <2>1. \A f \in Counted : fetch[f] \in CountedStates
    BY DEF Counted
  <2>2. g \notin flushList /\ \A e \in Requests : g \notin flushCalls[e]
    BY DEF IInv, Flushing, Flush
  <2>3. ASSUME refused = {}, flush'[g] = "done" PROVE Counted = {}
    <3>1. ~(pending > 0) /\ Overdrawn = {}
      BY <2>3 DEF IInv, TypeOK, Answers, Overdrawn, Flush
    <3>2. Cardinality(Counted) = 0
      BY <3>1, CountsFinite, FS_EmptySet DEF IInv, PendingCountsRequests
    <3> QED BY <3>2, CountsFinite, FS_EmptySet
  <2>4. UNCHANGED <<fetch, flushCalls, refused>>
    BY DEF Flush, fetchVars
  <2>5. \A x \in Flushes : x \in flushList' => flush'[x] # "idle"
    BY DEF IInv, TypeOK, Flushing, Flush
  <2>6. \A x \in Flushes \ {g} : flush'[x] = flush[x] /\ covers'[x] = covers[x]
    BY <1>0 DEF IInv, TypeOK, Flush
  <2>7. flush'[g] # "idle" /\ covers'[g] = Counted
    BY <1>0 DEF IInv, TypeOK, Flush
  <2>8. flushList' \subseteq Flushes /\ \A e \in Requests : flushCalls[e] \subseteq Flushes
    BY <1>1 DEF IInv, TypeOK
  <2> QED BY <2>1, <2>2, <2>3, <2>4, <2>5, <2>6, <2>7, <2>8 DEF IInv, Flushing
<1>3. Beginnings' /\ WaitLists' /\ InHand' /\ Answers' /\ PendingCountsRequests' /\ Blocks'
  BY DEF IInv, Beginnings, WaitLists, InHand, Answers, PendingCountsRequests, Counted,
     Overdrawn, Blocks, Flush, cacheVars, blockVars, fetchVars, callVars
<1>4. Array' /\ Evictions' /\ Memory' /\ RefCountsHolders'
  BY DEF IInv, Array, Evictions, Memory, RefCountsHolders, Holders, Kept, Cached,
     Flush, cacheVars, blockVars, fetchVars, callVars
<1> QED BY <1>1, <1>2, <1>3, <1>4 DEF IInv

(* Who disposes of a block holds it, so that the count is positive. *)
LEMMA DropReferenceStep ==
  ASSUME IInv, NEW r \in Requests, DropReference(r)
  PROVE  IInv'
<1>0. PICK b \in Requests : /\ b = got[r] /\ r \in Holders(b) /\ mem[b] # "none"
                            /\ req[r] = "holding" /\ Drop(b)
  BY LRUNoneApart DEF IInv, TypeOK, Blocks, DropReference, Holders, Referring
<1>1. refCount[b] > 0
  BY <1>0, ReferencesKeepAlive
<1>2. /\ refCount' \in [Requests -> Nat] /\ uaf' \in BOOLEAN
      /\ mem' \in [Requests -> {"none", "live", "freed"}]
      /\ refCount'[b] = refCount[b] - 1
      /\ \A c \in Requests \ {b} : refCount'[c] = refCount[c]
      /\ \A c \in Requests : mem'[c] = "none" <=> mem[c] = "none"
      /\ Memory'
  BY <1>0, <1>1, DropEffect
<1>3. PICK s \in {"refreshing", "released"} : req' = [req EXCEPT ![r] = s]
  BY DEF DropReference
<1>4. UNCHANGED <<disposed, pending, maxCount, lru, blockOf, waitList, fetch, victim, calls,
                  flushCalls, hash, got, told, flushList, flush, covers, refused>>
  BY DEF DropReference, cacheVars, fetchVars, flushVars
<1>5. TypeOK'
  BY <1>2, <1>3, <1>4 DEF IInv, TypeOK, ReqStates
<1>6. Beginnings' /\ Answers'
  BY <1>0, <1>3, <1>4 DEF IInv, TypeOK, Beginnings, Answers
<1>7. WaitLists' /\ InHand'
  BY <1>0, <1>3, <1>4 DEF IInv, TypeOK, WaitLists, InHand
<1>8. PendingCountsRequests' /\ Evictions' /\ Flushing'
  BY <1>4 DEF IInv, PendingCountsRequests, Counted, Overdrawn, Evictions, Cached, Flushing
<1>9. Blocks'
  BY <1>0, <1>2, <1>3, <1>4 DEF IInv, TypeOK, Blocks, Victims
<1>10. Array'
  <2>1. \A c \in Cached : c \in Requests
    BY CachedRequests DEF IInv
  <2> QED BY <1>2, <1>4, <2>1 DEF IInv, Array, Cached
<1>11. RefCountsHolders'
  <2>1. Holders(b)' = Holders(b) \ {r}
    BY <1>0, <1>3, <1>4 DEF IInv, TypeOK, Holders, Referring
  <2>2. Cardinality(Holders(b)') = Cardinality(Holders(b)) - 1
        /\ Cardinality(Holders(b)) \in Nat
    BY <1>0, <2>1, CountsFinite, FS_RemoveElement, ZenonT(40)
  <2>3. \A c \in Requests \ {b} : Holders(c)' = Holders(c)
    BY <1>0, <1>3, <1>4 DEF IInv, TypeOK, Holders, Referring
  <2>4. \A c \in Requests : Kept(c)' <=> Kept(c)
    BY <1>4 DEF Kept, Cached
  <2>5. refCount[b] = Cardinality(Holders(b)) + IF Kept(b) THEN 1 ELSE 0
    BY <1>0 DEF IInv, RefCountsHolders
  <2>6. refCount'[b] = Cardinality(Holders(b)') + IF Kept(b)' THEN 1 ELSE 0
    BY <1>2, <2>2, <2>4, <2>5
  <2>7. \A c \in Requests \ {b} : mem'[c] # "none" =>
            refCount'[c] = Cardinality(Holders(c)') + IF Kept(c)' THEN 1 ELSE 0
    BY <1>2, <2>3, <2>4 DEF IInv, RefCountsHolders
  <2> QED BY <2>6, <2>7 DEF RefCountsHolders
<1> QED BY <1>2, <1>5, <1>6, <1>7, <1>8, <1>9, <1>10, <1>11 DEF IInv

(* A reader's refresh changes the order of the array at most. *)
LEMMA RefreshReturnedStep ==
  ASSUME IInv, NEW r \in Requests, RefreshReturned(r)
  PROVE  IInv'
<1>0. req[r] = "refreshing" /\ got[r] \in Requests /\ mem[got[r]] # "none"
  BY DEF IInv, TypeOK, Blocks, RefreshReturned
<1>1. /\ lru' \in Seq(Requests) /\ uaf' \in BOOLEAN
      /\ Len(lru') = Len(lru) /\ Distinct(lru') /\ Cached' = Cached
  BY <1>0, RefreshEffect DEF RefreshReturned
<1>2. req' = [req EXCEPT ![r] = "released"]
  BY DEF RefreshReturned
<1>3. UNCHANGED <<disposed, pending, maxCount, blockOf, waitList, refCount, mem, fetch,
                  victim, calls, flushCalls, hash, got, told, flushList, flush, covers,
                  refused>>
  BY DEF RefreshReturned, blockVars, fetchVars, flushVars
<1>4. TypeOK'
  BY <1>1, <1>2, <1>3 DEF IInv, TypeOK, ReqStates
<1>5. Beginnings' /\ Answers' /\ Blocks' /\ Memory'
  BY <1>0, <1>2, <1>3 DEF IInv, TypeOK, Beginnings, Answers, Blocks, Victims, Memory
<1>6. WaitLists' /\ InHand'
  BY <1>0, <1>2, <1>3 DEF IInv, TypeOK, WaitLists, InHand
<1>7. Array' /\ Evictions'
  BY <1>1, <1>3 DEF IInv, Array, Evictions
<1>8. PendingCountsRequests' /\ Flushing'
  BY <1>3 DEF IInv, PendingCountsRequests, Counted, Overdrawn, Flushing
<1>9. RefCountsHolders'
  <2>1. \A b \in Requests : Holders(b)' = Holders(b)
    BY <1>0, <1>2, <1>3 DEF IInv, TypeOK, Holders, Referring
  <2>2. \A b \in Requests : Kept(b)' <=> Kept(b)
    BY <1>1, <1>3 DEF Kept
  <2> QED BY <1>3, <2>1, <2>2, SameHolders DEF IInv
<1> QED BY <1>4, <1>5, <1>6, <1>7, <1>8, <1>9 DEF IInv

(* Dispose drops the cache's own reference to every block of the array, and
   to no block a fetch is still about to drop it for. *)
LEMMA DisposeStep ==
  ASSUME IInv, Dispose
  PROVE  IInv'
<1>1. /\ lru' = <<>> /\ lru' \in Seq(Requests) /\ Len(lru') = 0 /\ Cached' = {}
      /\ Distinct(lru')
  BY EmptySeq DEF Dispose, Cached, ToSet, Distinct
<1>2. /\ blockOf' = [h \in Hashes |-> None]
      /\ refCount' = [b \in Requests |-> refCount[b] - IF b \in Cached THEN 1 ELSE 0]
      /\ mem' = [b \in Requests |-> IF b \in Cached /\ refCount[b] = 1 THEN "freed"
                                                                       ELSE mem[b]]
      /\ disposed' = TRUE /\ uaf' \in BOOLEAN
  BY DEF Dispose
<1>3. UNCHANGED <<pending, maxCount, waitList, fetch, victim, calls, flushCalls, hash, req,
                  got, told, flushList, flush, covers, refused>>
  BY DEF Dispose, fetchVars, callVars, flushVars
<1>4. \A b \in Cached : b \in Requests /\ mem[b] # "none" /\ refCount[b] > 0
                        /\ mem[b] = "live"
  <2>1. \A b \in Cached : b \in Requests /\ mem[b] # "none" /\ Kept(b)
    BY CachedRequests DEF IInv, Array, Kept
  <2> QED BY <2>1, ReferencesKeepAlive
<1>5. TypeOK'
  <2>1. refCount' \in [Requests -> Nat]
    BY <1>2, <1>4 DEF IInv, TypeOK
  <2>2. mem' \in [Requests -> {"none", "live", "freed"}]
    BY <1>2 DEF IInv, TypeOK
  <2>3. blockOf' \in [Hashes -> Requests \cup {None}]
    BY <1>2
  <2> QED BY <1>1, <1>2, <1>3, <2>1, <2>2, <2>3 DEF IInv, TypeOK
<1>6. \A b \in Requests : mem'[b] = "none" <=> mem[b] = "none"
  BY <1>2, <1>4
<1>7. Beginnings' /\ InHand' /\ Answers'
  BY <1>3 DEF IInv, Beginnings, InHand, Answers
<1>8. WaitLists'
  <2>1. \A f \in Requests : fetch[f] \in Open => hash[f] \in Hashes
    BY DEF IInv, Beginnings, Open
  <2> QED BY <1>2, <1>3, <2>1 DEF IInv, WaitLists
<1>9. Blocks'
  BY <1>3, <1>6 DEF IInv, TypeOK, Blocks
<1>10. Array' /\ Evictions'
  BY <1>1, <1>2, <1>3, MaxCountsPositive DEF IInv, TypeOK, Array, Evictions
<1>11. Memory'
  BY <1>2, <1>4 DEF IInv, TypeOK, Memory
<1>12. RefCountsHolders'
  <2>1. \A b \in Requests : Holders(b)' = Holders(b)
    BY <1>3 DEF Holders
  <2>2. \A b \in Requests : /\ b \in Cached => Kept(b) /\ ~Kept(b)'
                            /\ b \notin Cached => (Kept(b)' <=> Kept(b))
    BY <1>1, <1>3 DEF IInv, Evictions, Kept
  <2>3. ASSUME NEW b \in Requests, mem'[b] # "none"
        PROVE  refCount'[b] = Cardinality(Holders(b)') + IF Kept(b)' THEN 1 ELSE 0
    <3>1. refCount[b] = Cardinality(Holders(b)) + IF Kept(b) THEN 1 ELSE 0
      BY <1>6, <2>3 DEF IInv, RefCountsHolders
    <3>2. Cardinality(Holders(b)) \in Nat
      BY CountsFinite
    <3>3. refCount'[b] = refCount[b] - IF b \in Cached THEN 1 ELSE 0
      BY <1>2
    <3> QED BY <2>1, <2>2, <3>1, <3>2, <3>3
  <2> QED BY <2>3 DEF RefCountsHolders
<1>13. PendingCountsRequests' /\ Flushing'
  BY <1>3 DEF IInv, PendingCountsRequests, Counted, Overdrawn, Flushing
<1> QED BY <1>5, <1>7, <1>8, <1>9, <1>10, <1>11, <1>12, <1>13 DEF IInv

--------------------------------------------------------------------------------
(* Every step of the store, and every stuttering step, keeps IInv. *)
LEMMA NextIInv == IInv /\ [Next]_vars => IInv'
<1> SUFFICES ASSUME IInv, [Next]_vars PROVE IInv'
  OBVIOUS
<1>1. ASSUME NEW r \in Requests, Get(r) PROVE IInv'
  BY <1>1, GetHitStep, GetJoinStep, GetFirstStep DEF Get
<1>2. ASSUME NEW r \in Requests, Progress(r) PROVE IInv'
  <2>1. CASE CallBacking(r) \/ CallHit(r) \/ RefreshReturned(r)
    BY <2>1, CallBackingStep, CallHitStep, RefreshReturnedStep
  <2>2. CASE BackingFails(r) \/ BackingDelivers(r)
    BY <2>2, BackingFailsStep, BackingDeliversStep
  <2>3. CASE \E x \in Requests : CallWaiter(r, x)
    BY <2>3, CallWaiterStep
  <2>4. CASE DropVictim(r) \/ RefreshVictim(r)
    BY <2>4, DropVictimStep, RefreshVictimStep
  <2>5. CASE CompleteRequest(r) \/ \E g \in Flushes : CallFlush(r, g)
    BY <2>5, CompleteRequestStep, CallFlushStep
  <2> QED BY <1>2, <2>1, <2>2, <2>3, <2>4, <2>5 DEF Progress
<1>3. ASSUME NEW r \in Requests, NoMemory(r) \/ DropReference(r) PROVE IInv'
  BY <1>3, NoMemoryStep, DropReferenceStep
<1>4. ASSUME NEW g \in Flushes, Flush(g) PROVE IInv'
  BY <1>4, FlushStep
<1>5. CASE Dispose
  BY <1>5, DisposeStep
<1>6. CASE UNCHANGED vars
  <2>1. UNCHANGED <<disposed, pending, maxCount, lru, blockOf, waitList, flushList,
                    refCount, mem, fetch, victim, calls, flushCalls, hash, req, got,
                    flush, told, covers, refused, uaf>>
    BY <1>6 DEF vars, cacheVars, blockVars, fetchVars, callVars, flushVars
  <2>2. TypeOK' /\ Beginnings' /\ WaitLists' /\ InHand' /\ Answers' /\ Flushing'
    BY <2>1 DEF IInv, TypeOK, Beginnings, WaitLists, InHand, Answers, Flushing
  <2>3. PendingCountsRequests' /\ Blocks' /\ Array' /\ Evictions' /\ Memory'
        /\ RefCountsHolders'
    BY <2>1 DEF IInv, PendingCountsRequests, Counted, Overdrawn, Blocks, Array, Evictions,
       Memory, RefCountsHolders, Holders, Kept, Cached
  <2> QED BY <2>2, <2>3 DEF IInv
<1> QED BY <1>1, <1>2, <1>3, <1>4, <1>5, <1>6 DEF Next

(* IInv is an invariant of the store, whatever the numbers of its callers, *)
(* blocks and flushes and the size of the cache.                           *)
THEOREM Invariance == Spec => []IInv
<1>1. Init => IInv
  BY InitIInv
<1>2. IInv /\ [Next]_vars => IInv'
  BY NextIInv
<1> QED BY <1>1, <1>2, PTL DEF Spec

(* Every variable keeps its type; nobody learns an outcome twice and no    *)
(* reference count goes below 0.                                           *)
THEOREM TypeCorrect == Spec => []TypeOK
<1>1. IInv => TypeOK
  BY DEF IInv
<1> QED BY <1>1, Invariance, PTL

(* m_PendingRequestCount (lines 398, 114) counts the requests in flight,   *)
(* less one for each that was completed twice (lines 407, 408).            *)
THEOREM PendingCorrect == Spec => []PendingCountsRequests
<1>1. IInv => PendingCountsRequests
  BY DEF IInv
<1> QED BY <1>1, Invariance, PTL

(* The array and the map of the cache (lines 49, 70, 315) agree.           *)
THEOREM CacheCorrect == Spec => []CacheMatchesMap
<1>1. IInv => CacheMatchesMap
  <2> SUFFICES ASSUME IInv PROVE CacheMatchesMap
    OBVIOUS
  <2>1. Len(lru) <= maxCount /\ Cardinality(Cached) = Len(lru)
    BY DistinctCardinality DEF IInv, TypeOK, Array, Cached
  <2>2. \A h \in Hashes : blockOf[h] # None => hash[blockOf[h]] = h
    BY DEF IInv, Array
  <2>3. Cached = {blockOf[h] : h \in Hashes} \ {None}
    BY CachedRequests, LRUNoneApart DEF IInv, Array
  <2> QED BY <2>1, <2>2, <2>3 DEF CacheMatchesMap
<1> QED BY <1>1, Invariance, PTL

(* m_RefCount (lines 132, 191, 323) counts the readers that hold a block   *)
(* and the cache.                                                          *)
THEOREM RefCountCorrect == Spec => []RefCountsHolders
<1>1. IInv => RefCountsHolders
  BY DEF IInv
<1> QED BY <1>1, Invariance, PTL

(* Lines 357 to 378 never let two reads of one block run, nor one while    *)
(* the block is cached.                                                    *)
THEOREM FetchesAreShared == Spec => []OneFetchPerHash
<1>1. IInv => OneFetchPerHash
  BY DEF IInv, WaitLists, Open, OneFetchPerHash
<1> QED BY <1>1, Invariance, PTL

(* A completed flush has outlived every fetch it found in flight, as long  *)
(* as no fetch was completed twice (lines 110 to 128).                     *)
THEOREM FlushesCover == Spec => []FlushCovers
<1>1. IInv => FlushCovers
  BY ZenonT(40) DEF IInv, TypeOK, Flushing, Past, InHand, Calling, CountedStates, FlushCovers
<1> QED BY <1>1, Invariance, PTL

--------------------------------------------------------------------------------
(* The store implements BlockLending: each action is a step of it or is    *)
(* invisible.                                                              *)
Invisible == UNCHANGED Lending!lvars

(* Begin, hit or not, is how a caller asks for a block. *)
LEMMA AskRefines ==
  ASSUME IInv, NEW r \in Requests, Get(r)
  PROVE  Lending!Ask(r)
<1>1. PICK s \in {"hit", "waiting"} : req' = [req EXCEPT ![r] = s]
  BY DEF Get, GetHit, Hit, GetJoin, GetFirst, StartFetch
<1>2. req[r] = "idle" /\ mem' = mem
  BY DEF Get, GetHit, Hit, GetJoin, GetFirst, StartFetch, Begin, blockVars
<1>3. \A x \in Requests \ {r} : got'[x] = got[x] /\ req'[x] = req[x]
  BY <1>1 DEF IInv, TypeOK, Get, GetHit, Hit, GetJoin, GetFirst, StartFetch
<1>4. CallState(req'[r]) = "asked" /\ CallState(req[r]) = "idle" /\ req'[r] # "holding"
  BY <1>1, <1>2 DEF IInv, TypeOK, CallState
<1> QED BY <1>2, <1>3, <1>4 DEF Lending!Ask

(* A caller that waited and gets an error was asked and is failed. *)
LEMMA FailRefines ==
  ASSUME IInv, NEW r \in Requests, req[r] = "waiting", req' = [req EXCEPT ![r] = "failed"],
         UNCHANGED <<got, mem>>
  PROVE  Lending!Fail(r)
  BY DEF IInv, TypeOK, CallState, Lending!Fail

(* A caller that gets a block is one of its holders, so it is in memory. *)
LEMMA LendRefines ==
  ASSUME IInv, NEW r \in Requests, NEW b \in Requests, got[r] = b,
         req[r] \in {"hit", "waiting"}, req' = [req EXCEPT ![r] = "holding"],
         UNCHANGED <<got, mem>>
  PROVE  Lending!Lend(r, b)
<1>1. mem[b] # "none" /\ Holders(b) # {}
  BY LRUNoneApart DEF IInv, Blocks, Holders, Referring
<1>2. mem[b] = "live"
  BY <1>1, ReferencesKeepAlive
<1> QED BY <1>2 DEF IInv, TypeOK, CallState, Lending!Lend

(* A caller that drops the last reference was the only one the block was
   lent to. *)
LEMMA GiveBackRefines ==
  ASSUME IInv, NEW r \in Requests, DropReference(r)
  PROVE  Lending!GiveBack(r)
<1>1. PICK b \in Requests : /\ b = got[r] /\ r \in Holders(b) /\ mem[b] # "none"
                            /\ req[r] = "holding" /\ Drop(b)
  BY LRUNoneApart DEF IInv, TypeOK, Blocks, DropReference, Holders, Referring
<1>2. PICK s \in {"refreshing", "released"} : req' = [req EXCEPT ![r] = s]
  BY DEF DropReference
<1>3. got' = got /\ \A x \in Requests \ {r} : req'[x] = req[x]
  BY <1>2 DEF IInv, TypeOK, DropReference
<1>4. CallState(req'[r]) = "returned" /\ CallState(req[r]) = "holding" /\ req'[r] # "holding"
  BY <1>1, <1>2 DEF IInv, TypeOK, CallState
<1> DEFINE lent == [x \in Requests |-> IF req[x] = "holding" THEN got[x] ELSE None]
           after == [x \in Requests |-> IF req'[x] = "holding" THEN got'[x] ELSE None]
<1>5. mem[b] = "live" /\ lent[r] = b /\ after[r] = None
  BY <1>1, <1>4, ReferencesKeepAlive
<1>6. \E bs \in SUBSET {lent[r]} : Lending!Freed(bs, after)
  <2>1. CASE refCount[b] = 1
    <3>1. Cardinality(Holders(b)) <= 1
      BY <1>1, <2>1, CountsFinite DEF IInv, RefCountsHolders
    <3>2. Holders(b) \ {r} = {}
      <4>1. Cardinality(Holders(b) \ {r}) = Cardinality(Holders(b)) - 1
            /\ IsFiniteSet(Holders(b) \ {r})
        BY <1>1, CountsFinite, FS_RemoveElement
      <4>2. Cardinality(Holders(b) \ {r}) \in Nat
        BY <4>1, FS_CardinalityType
      <4>3. Cardinality(Holders(b) \ {r}) = 0
        BY <3>1, <4>1, <4>2, CountsFinite
      <4> QED BY <4>1, <4>3, FS_EmptySet
    <3>3. \A x \in Requests : after[x] # b
      BY <1>3, <1>5, <3>2, LRUNoneApart DEF Holders, Referring
    <3>4. mem' = [mem EXCEPT ![b] = "freed"]
      BY <1>1, <2>1 DEF Drop
    <3>5. Lending!Freed({b}, after)
      BY <1>5, <3>3, <3>4 DEF IInv, TypeOK, Lending!Freed
    <3> QED BY <1>5, <3>5
  <2>2. CASE refCount[b] # 1
    <3>1. mem' = mem
      BY <1>1, <2>2 DEF Drop
    <3>2. Lending!Freed({}, after)
      BY <3>1 DEF IInv, TypeOK, Lending!Freed
    <3> QED BY <3>2
  <2> QED BY <2>1, <2>2
<1> QED BY <1>3, <1>4, <1>6 DEF Lending!GiveBack

(* A delivery brings a block to memory that was never there. *)
LEMMA LoadRefines ==
  ASSUME IInv, NEW f \in Requests, BackingDelivers(f)
  PROVE  Lending!Load(f)
<1>1. /\ hash[f] \in Hashes /\ mem[f] = "none"
      /\ \A r \in waitList[hash[f]] : req[r] = "waiting"
  BY TakenWaiters DEF BackingDelivers, Cache
<1>2. \A r \in Requests : got'[r] = got[r] \/ req[r] # "holding"
  BY <1>1 DEF IInv, TypeOK, BackingDelivers, Cache
<1>3. mem' = [mem EXCEPT ![f] = "live"] /\ req' = req
  BY DEF BackingDelivers, Cache
<1> QED BY <1>1, <1>2, <1>3 DEF IInv, TypeOK, Lending!Load

(* An eviction frees its victim when it is lent to nobody. *)
LEMMA DropRefines ==
  ASSUME IInv, NEW f \in Requests, DropVictim(f)
  PROVE  Lending!Next \/ Invisible
<1>1. PICK v \in Requests : v = victim[f] /\ Kept(v) /\ mem[v] # "none" /\ Drop(v)
  BY DEF IInv, Blocks, Victims, Kept, DropVictim
<1>2. req' = req /\ got' = got
  BY DEF DropVictim, callVars
<1>3. CASE refCount[v] = 1
  <2>1. mem[v] = "live" /\ mem' = [mem EXCEPT ![v] = "freed"]
    BY <1>1, <1>3, ReferencesKeepAlive DEF Drop
  <2>2. Holders(v) = {}
    BY <1>1, <1>3, CountsFinite, FS_EmptySet DEF IInv, RefCountsHolders
  <2>3. \A x \in Requests : req[x] = "holding" => got[x] # v
    BY <2>2 DEF Holders, Referring
  <2>4. Lending!Freed({v}, [x \in Requests |-> IF req[x] = "holding" THEN got[x] ELSE None])
    BY <2>1, <2>3, LRUNoneApart DEF IInv, TypeOK, Lending!Freed
  <2>5. Lending!Drop({v})
    BY <1>2, <2>4 DEF Lending!Drop
  <2> QED BY <2>5 DEF Lending!Next
<1>4. CASE refCount[v] # 1
  BY <1>1, <1>2, <1>4 DEF Drop, Invisible, Lending!lvars
<1> QED BY <1>3, <1>4

(* Dispose frees the blocks of the array, which are lent to nobody. *)
LEMMA DisposeRefines ==
  ASSUME IInv, Dispose
  PROVE  Lending!Next
<1> DEFINE bs == {b \in Requests : b \in Cached /\ refCount[b] = 1}
<1>1. \A b \in bs : mem[b] = "live"
  <2>1. \A b \in Cached : mem[b] # "none" /\ Kept(b)
    BY DEF IInv, Array, Kept
  <2> QED BY <2>1, ReferencesKeepAlive
<1>2. /\ mem' = [b \in Requests |-> IF b \in bs THEN "freed" ELSE mem[b]]
      /\ req' = req /\ got' = got
  BY DEF Dispose, callVars
<1>3. \A x \in Requests : req[x] # "holding"
  BY DEF Dispose
<1>4. Lending!Freed(bs, [x \in Requests |-> IF req[x] = "holding" THEN got[x] ELSE None])
  BY <1>1, <1>2, <1>3, LRUNoneApart DEF Lending!Freed
<1>5. Lending!Drop(bs)
  BY <1>2, <1>4 DEF Lending!Drop
<1> QED BY <1>5 DEF Lending!Next

(* Every step inside the store is a step of BlockLending or invisible. *)
LEMMA ProgressRefines ==
  ASSUME IInv, NEW r \in Requests, Progress(r)
  PROVE  Lending!Next \/ Invisible
<1>1. CASE CallBacking(r) \/ BackingFails(r) \/ RefreshVictim(r) \/ CompleteRequest(r)
           \/ \E g \in Flushes : CallFlush(r, g)
  <2>1. UNCHANGED <<req, got, mem>>
    BY <1>1 DEF CallBacking, BackingFails, RefreshVictim, CompleteRequest, LeaveCount,
       CallFlush, callVars, blockVars
  <2> QED BY <2>1 DEF Invisible, Lending!lvars
<1>2. CASE BackingDelivers(r)
  BY <1>2, LoadRefines DEF Lending!Next
<1>3. ASSUME NEW x \in Requests, CallWaiter(r, x) PROVE Lending!Next
  <2>1. req[x] = "waiting" /\ UNCHANGED <<got, mem>>
    BY <1>3 DEF IInv, InHand, CallWaiter, blockVars
  <2>2. CASE fetch[r] = "delivering"
    <3>1. got[x] = r /\ req' = [req EXCEPT ![x] = "holding"]
      BY <1>3, <2>2 DEF IInv, InHand, CallWaiter
    <3>2. Lending!Lend(x, r)
      BY <2>1, <3>1, LendRefines
    <3> QED BY <3>2 DEF Lending!Next
  <2>3. CASE fetch[r] # "delivering"
    <3>1. req' = [req EXCEPT ![x] = "failed"]
      BY <1>3, <2>3 DEF CallWaiter
    <3> QED BY <2>1, <3>1, FailRefines DEF Lending!Next
  <2> QED BY <2>2, <2>3
<1>4. CASE CallHit(r)
  <2>1. PICK b \in Requests : got[r] = b
    BY <1>4 DEF IInv, TypeOK, Blocks, CallHit
  <2>2. Lending!Lend(r, b)
    BY <1>4, <2>1, LendRefines DEF CallHit, blockVars
  <2> QED BY <2>2 DEF Lending!Next
<1>5. CASE DropVictim(r)
  BY <1>5, DropRefines
<1>6. CASE RefreshReturned(r)
  <2>1. /\ req' = [req EXCEPT ![r] = "released"] /\ req[r] = "refreshing"
        /\ got' = got /\ mem' = mem
    BY <1>6 DEF RefreshReturned, blockVars
  <2> QED BY <2>1 DEF IInv, TypeOK, CallState, Invisible, Lending!lvars
<1> QED BY <1>1, <1>2, <1>3, <1>4, <1>5, <1>6 DEF Progress

(* The cache keeps the promise of Longtail_BlockStoreAPI: whatever it      *)
(* evicts (lines 306 to 347), no caller notices.                           *)
THEOREM KeepsLendingPromise == Spec => LendingSpec
<1>1. Init => Lending!Init
  BY DEF Init, CallState, Lending!Init
<1>2. IInv /\ [Next]_vars => [Lending!Step]_(Lending!lvars)
  <2> SUFFICES ASSUME IInv, [Next]_vars PROVE [Lending!Step]_(Lending!lvars)
    OBVIOUS
  <2>1. CASE UNCHANGED vars
    BY <2>1 DEF vars, blockVars, callVars, Lending!lvars
  <2>2. ASSUME NEW r \in Requests, Get(r) PROVE Lending!Next
    BY <2>2, AskRefines DEF Lending!Next
  <2>3. ASSUME NEW r \in Requests, NoMemory(r) PROVE Lending!Next
    <3>1. req[r] = "waiting"
      BY <2>3 DEF IInv, TypeOK, WaitLists, Beginnings, Open, NoMemory
    <3> QED BY <2>3, <3>1, FailRefines DEF NoMemory, blockVars, Lending!Next
  <2>4. ASSUME NEW r \in Requests, Progress(r) PROVE Lending!Next \/ Invisible
    BY <2>4, ProgressRefines
  <2>5. ASSUME NEW r \in Requests, DropReference(r) PROVE Lending!Next
    BY <2>5, GiveBackRefines DEF Lending!Next
  <2>6. CASE Dispose
    BY <2>6, DisposeRefines DEF Lending!Step
  <2>7. ASSUME NEW g \in Flushes, Flush(g) PROVE Invisible
    BY <2>7 DEF Flush, blockVars, callVars, Invisible, Lending!lvars
  <2> QED BY <2>1, <2>2, <2>3, <2>4, <2>5, <2>6, <2>7 DEF Next, Lending!Step, Invisible
<1> QED BY <1>1, <1>2, Invariance, PTL DEF Spec, LendingSpec, Lending!Spec
================================================================================

------------------------ MODULE CompressBlockStoreProofs ------------------------
(***************************************************************************)
(* Proofs about CompressBlockStore on top of CacheBlockStore, for any      *)
(* finite sets of Puts and Gets and any sets of hashes, flushes and        *)
(* RetargetContents.                                                       *)
(***************************************************************************)
EXTENDS CompressBlockStore, FiniteSetTheorems, TLAPS

--------------------------------------------------------------------------------
(* The inductive invariant, by subject. *)

(* What a caller learns: an error the call returned, or one OnComplete.    *)
Returned(r) == told[r] = <<[by |-> "return", err |-> "err"]>>
Called(r, e) == told[r] = <<[by |-> "call", err |-> e]>>
Untold(r) == told[r] = <<>>

(* The two completions of a Put, and what the cache has told the caller:   *)
(* m_PendingCount is the number of the completions that have not been, and *)
(* the caller is told with the last one, unless there is none to come.     *)
PutStage(p) ==
    LET r == item[<<p, "remote">>]
        l == item[<<p, "local">>]
        c == pendingCount[p]
        over == {"leaving", "emptied", "unlocking", "done"}
    IN
    \/ put[p] = "idle" /\ Untold(p) /\ p \notin starved /\ r = "none" /\ l = "none"
    \/ /\ put[p] = "remote" /\ Untold(p) /\ p \notin starved /\ l = "none"
       /\ (r = "called" /\ c = 2) \/ (r \in over /\ c = 1)
    \/ put[p] = "failing" /\ Untold(p) /\ p \notin starved /\ r \in over /\ l = "none"
    \/ /\ put[p] = "returned" /\ Returned(p) /\ l = "none"
       /\ \/ p \notin starved /\ r \in {"none", "done"}
          \/ p \in starved /\ ((r = "called" /\ c = 2) \/ (r \in over /\ c = 1))
    \/ /\ put[p] = "returned" /\ Untold(p) /\ p \notin starved
       /\ \/ r = "called" /\ l = "called" /\ c = 2
          \/ r = "called" /\ l \in over /\ c = 1
          \/ r \in over /\ l = "called" /\ c = 1
    \/ /\ put[p] = "returned" /\ Called(p, remoteErr[p]) /\ p \notin starved
       /\ r \in over \cup {"answering"} /\ l \in over \cup {"answering"}

(* Where a Put is in the store above, by what it was told.                 *)
PutCall(p) ==
    \/ /\ zreq[p] = "idle" /\ put[p] = "idle" /\ answer[p] = <<>>
       /\ zblock[p] = "none"
    \/ /\ zreq[p] = "called" /\ put[p] # "idle" /\ answer[p] = <<>>
       /\ zblock[p] = IF p \in tagged THEN "live" ELSE "none"
    \/ /\ zreq[p] \in {"refused", "emptied", "unlocking", "failing"}
       /\ Returned(p) /\ answer[p] = <<>> /\ zblock[p] # "live"
    \/ /\ zreq[p] \in {"leaving", "emptied", "unlocking", "done"} /\ zblock[p] # "live"
       /\ \E e \in Outcomes : Called(p, e) /\ answer[p] = <<e>>
    \/ /\ zreq[p] = "done" /\ zblock[p] # "live" /\ answer[p] = <<"err">>
       /\ put[p] = "idle" \/ Returned(p)

PutInv(p) ==
    /\ PutStage(p)
    /\ PutCall(p)
    /\ remoteErr[p] = "ok" => BlockOf[p] \in remote

(* The three completions of a Get. *)
GetStage(g) ==
    LET l == item[<<g, "local">>]
        r == item[<<g, "remote">>]
        c == item[<<g, "copy">>]
        over == {"leaving", "emptied", "unlocking", "done"}
        calledBack == \E e \in Outcomes : Called(g, e)
    IN
    \/ l = "none" /\ r = "none" /\ c = "none" /\ (Untold(g) \/ Returned(g))
    \/ l = "called" /\ r = "none" /\ c = "none" /\ Untold(g)
    \/ l = "lost" /\ r = "none" /\ c = "none" /\ calledBack
    \/ l \in over \cup {"answering"} /\ r = "none" /\ c = "none" /\ calledBack
    \/ l \in over \cup {"inner"} /\ r = "called" /\ c = "none" /\ Untold(g)
    \/ /\ l \in over \cup {"inner", "behind"} /\ r = "answering" /\ c = "none"
       /\ Called(g, "err")
    \/ l \in over \cup {"inner"} /\ r = "delivering" /\ c = "none" /\ Called(g, "ok")
    \/ /\ l \in over \cup {"inner"} /\ r = "inner" /\ c \in over \cup {"called"}
       /\ Called(g, "ok")
    \/ l \in over \cup {"inner"} /\ r = "behind" /\ c \in over /\ Called(g, "ok")
    \/ /\ l \in over \cup {"inner", "behind"} /\ r \in over
       /\ c \in over \cup {"none", "called"} /\ calledBack

(* Where a Get is in the store above. *)
GetCall(g) ==
    \/ /\ zreq[g] = "idle" /\ item[<<g, "local">>] = "none" /\ Untold(g)
       /\ answer[g] = <<>>
    \/ /\ zreq[g] = "called" /\ answer[g] = <<>>
       /\ item[<<g, "local">>] # "none" \/ Returned(g)
    \/ /\ zreq[g] \in {"refused", "emptied", "unlocking", "failing"}
       /\ Returned(g) /\ answer[g] = <<>>
    \/ /\ zreq[g] \in {"leaving", "emptied", "unlocking", "done"}
       /\ \E d, e \in Outcomes : /\ Called(g, d) /\ answer[g] = <<e>>
                                 /\ e = "ok" => d = "ok"
    \/ /\ zreq[g] = "done" /\ answer[g] = <<"err">>
       /\ (Untold(g) /\ item[<<g, "local">>] = "none") \/ Returned(g)

(* The references of a block that was read from the remote store: one of   *)
(* the copy to the local store, one of the caller or of this store's       *)
(* completion.                                                             *)
Copying(g) == \/ item[<<g, "remote">>] \in {"delivering", "behind"}
              \/ item[<<g, "copy">>] = "called"
Using(g) == /\ item[<<g, "remote">>] # "none"
            /\ (zreq[g] = "called" /\ Called(g, "ok")) \/ g \in holding

GetInv(g) ==
    /\ GetStage(g)
    /\ GetCall(g)
    /\ g \in holding => Called(g, "ok") /\ zreq[g] \in {"leaving", "emptied", "unlocking", "done"}
    /\ Called(g, "ok") => BlockOf[g] \in local \cup remote
    /\ refCount[g] = (IF Copying(g) THEN 1 ELSE 0) + (IF Using(g) THEN 1 ELSE 0)

(* A Flush that is queued is in one of the two places, and the calls it    *)
(* covers have been made; when it is taken from the list they are told.    *)
Flushing ==
    /\ flushList \cap flushCalls = {}
    /\ \A f \in flushList \cup flushCalls : flush[f] = "queued"
    /\ \A f \in flushList : covers[f] \subseteq Made
    /\ \A f \in Flushes : f \in flushCalls \/ flush[f] = "done" =>
           \A r \in covers[f] : ~Untold(r)

ZFlushing ==
    /\ zflushList \cap zflushCalls = {}
    /\ \A f \in zflushList \cup zflushCalls : zflush[f] = "queued"
    /\ \A f \in zflushList : \A r \in zcovers[f] : zreq[r] # "idle"
    /\ \A f \in Flushes : f \in zflushCalls \/ zflush[f] = "done" =>
           \A r \in zcovers[f] : answer[r] # <<>> \/ zreq[r] = "failing"

(* What either store had when RetargetContent was called is found, or      *)
(* still to be found in a store that has not been asked.                   *)
Asking ==
    \A a \in Asks :
        /\ ask[a].stage = "local" => ask[a].had \subseteq ask[a].want \cap (local \cup remote)
        /\ ask[a].stage = "remote" =>
             /\ ask[a].had \subseteq ask[a].want \cap (ask[a].found \cup remote)
             /\ ask[a].found \subseteq ask[a].want \cap (local \cup remote)
        /\ ask[a].stage = "done" =>
             /\ ask[a].had \subseteq ask[a].found
             /\ ask[a].found \subseteq ask[a].want \cap (local \cup remote)

IInv ==
    /\ TypeOK
    /\ \A p \in Puts : PutInv(p)
    /\ \A g \in Gets : GetInv(g)
    /\ PendingCountsRequests
    /\ Flushing
    /\ ZFlushing
    /\ Asking

(* Whoever took a count to 0 holds m_Lock: the flushes it is about to take *)
(* cover only calls that have their outcome, or this last one.             *)
Settled(r) == answer[r] # <<>> \/ zreq[r] = "failing"
Emptying ==
    /\ \A i \in Items : item[i] = "emptied" =>
           \A f \in flushList : \A r \in covers[f] : ~Untold(r)
    /\ \A r \in Requests : zreq[r] = "emptied" =>
           \A f \in zflushList : \A q \in zcovers[f] : Settled(q) \/ zreq[q] \in Locked
    /\ \A r, q \in Requests : zreq[r] \in Locked /\ zreq[q] \in Locked => r = q

--------------------------------------------------------------------------------
(* Items, counting and telling. *)

CountedItems == {i \in Items : Counted(i)}
Busy(r) == zreq[r] \in {"called", "leaving", "refused"}
Tellings == [by : {"return", "call"}, err : Outcomes]

(* The items of the requests, and nothing else, are Items. *)
LEMMA ItemsOf ==
  /\ \A p \in Puts : <<p, "remote">> \in Items /\ <<p, "local">> \in Items
  /\ \A g \in Gets : /\ <<g, "local">> \in Items
                     /\ <<g, "remote">> \in Items /\ <<g, "copy">> \in Items
  /\ \A i \in Items : i[1] \in Requests
  /\ \A p \in Puts, g \in Gets : p # g
BY PutsGetsApart DEF Items, Requests

(* An item is one of the two of its Put or one of the three of its Get. *)
LEMMA ItemCases ==
  ASSUME NEW i \in Items
  PROVE  \/ \E p \in Puts : i = <<p, "remote">> \/ i = <<p, "local">>
         \/ \E g \in Gets : i = <<g, "local">> \/ i = <<g, "remote">> \/ i = <<g, "copy">>
BY DEF Items

(* Finitely many calls have finitely many items. *)
LEMMA ItemsFinite == IsFiniteSet(Items) /\ IsFiniteSet(Requests)
<1>1. IsFiniteSet({"remote", "local"}) /\ IsFiniteSet({"local", "remote", "copy"})
  <2>1. IsFiniteSet({"remote"})
    BY FS_Singleton
  <2>2. IsFiniteSet({"remote"} \cup {"local"})
    BY <2>1, FS_AddElement
  <2>3. IsFiniteSet(({"remote"} \cup {"local"}) \cup {"copy"})
    BY <2>2, FS_AddElement
  <2>4. /\ {"remote", "local"} = {"remote"} \cup {"local"}
        /\ {"local", "remote", "copy"} = ({"remote"} \cup {"local"}) \cup {"copy"}
    OBVIOUS
  <2> QED BY <2>2, <2>3, <2>4
<1>2. /\ IsFiniteSet(Puts \X {"remote", "local"})
      /\ IsFiniteSet(Gets \X {"local", "remote", "copy"})
  BY <1>1, RequestsFinite, FS_Product
<1> QED BY <1>2, RequestsFinite, FS_Union DEF Items, Requests

(* A set that gains or loses at most one element counts so. *)
LEMMA OneChange ==
  ASSUME NEW S, NEW T, NEW U, NEW x \in U, IsFiniteSet(U), S \subseteq U, T \subseteq U,
         \A y \in U \ {x} : y \in S <=> y \in T
  PROVE  /\ Cardinality(S) \in Nat
         /\ x \in T /\ x \notin S => Cardinality(T) = Cardinality(S) + 1
         /\ x \notin T /\ x \in S => Cardinality(T) = Cardinality(S) - 1
         /\ (x \in T <=> x \in S) => Cardinality(T) = Cardinality(S)
<1>1. IsFiniteSet(S) /\ IsFiniteSet(T) /\ Cardinality(S) \in Nat /\ Cardinality(T) \in Nat
  BY FS_Subset, FS_CardinalityType
<1>2. CASE x \in S /\ x \notin T
  <2>1. T = S \ {x}
    BY <1>2
  <2> QED BY <1>1, <1>2, <2>1, FS_RemoveElement
<1>3. CASE x \notin S /\ x \in T
  <2>1. T = S \cup {x}
    BY <1>3
  <2> QED BY <1>1, <1>3, <2>1, FS_AddElement
<1>4. CASE x \in S <=> x \in T
  <2>1. T = S
    BY <1>4
  <2> QED BY <1>1, <2>1
<1> QED BY <1>2, <1>3, <1>4

(* A step that changes the counting of one item and of one request leaves  *)
(* the counts right if they change with it, and nothing begins in a store  *)
(* that is disposed of.                                                    *)
LEMMA CountsStep ==
  ASSUME PendingCountsRequests, NEW i \in Items, NEW r \in Requests,
         \A j \in Items \ {i} : Counted(j)' <=> Counted(j),
         \A q \in Requests \ {r} : zreq'[q] = zreq[q],
         Counted(i)' /\ ~Counted(i) => pending' = pending + 1,
         ~Counted(i)' /\ Counted(i) => pending' = pending - 1,
         (Counted(i)' <=> Counted(i)) => pending' = pending,
         Busy(r)' /\ ~Busy(r) => zpending' = zpending + 1,
         ~Busy(r)' /\ Busy(r) => zpending' = zpending - 1,
         (Busy(r)' <=> Busy(r)) => zpending' = zpending,
         life' \in {life, "crashed"},
         life \in {"compress disposed", "disposed"} /\ Busy(r)' => Busy(r),
         life = "disposed" /\ Counted(i)' => Counted(i)
  PROVE  PendingCountsRequests' /\ pending' \in Nat /\ zpending' \in Nat
<1>1. pending' = Cardinality(CountedItems')
  <2>1. /\ CountedItems' \subseteq Items /\ CountedItems \subseteq Items
        /\ i \in CountedItems' <=> Counted(i)'
        /\ i \in CountedItems <=> Counted(i)
        /\ \A j \in Items \ {i} : j \in CountedItems <=> j \in CountedItems'
    BY DEF CountedItems
  <2>2. /\ i \in CountedItems' /\ i \notin CountedItems =>
             Cardinality(CountedItems') = Cardinality(CountedItems) + 1
        /\ i \notin CountedItems' /\ i \in CountedItems =>
             Cardinality(CountedItems') = Cardinality(CountedItems) - 1
        /\ (i \in CountedItems' <=> i \in CountedItems) =>
             Cardinality(CountedItems') = Cardinality(CountedItems)
    BY <2>1, ItemsFinite, OneChange
  <2>3. pending = Cardinality(CountedItems)
    BY DEF PendingCountsRequests, CountedItems
  <2> QED BY <2>1, <2>2, <2>3
<1>2. zpending' = Cardinality(InFlight')
  <2>1. /\ InFlight' \subseteq Requests /\ InFlight \subseteq Requests
        /\ r \in InFlight' <=> Busy(r)'
        /\ r \in InFlight <=> Busy(r)
        /\ \A j \in Requests \ {r} : j \in InFlight <=> j \in InFlight'
    BY DEF InFlight, Busy
  <2>2. /\ r \in InFlight' /\ r \notin InFlight =>
             Cardinality(InFlight') = Cardinality(InFlight) + 1
        /\ r \notin InFlight' /\ r \in InFlight =>
             Cardinality(InFlight') = Cardinality(InFlight) - 1
        /\ (r \in InFlight' <=> r \in InFlight) =>
             Cardinality(InFlight') = Cardinality(InFlight)
    BY <2>1, ItemsFinite, OneChange
  <2>3. zpending = Cardinality(InFlight)
    BY DEF PendingCountsRequests, InFlight
  <2> QED BY <2>1, <2>2, <2>3
<1>3. pending' \in Nat /\ zpending' \in Nat
  <2>1. IsFiniteSet(CountedItems') /\ IsFiniteSet(InFlight')
    BY ItemsFinite, FS_Subset DEF CountedItems, InFlight
  <2> QED BY <1>1, <1>2, <2>1, FS_CardinalityType
<1>4. life' \in {"compress disposed", "disposed"} => InFlight' = {}
  BY DEF PendingCountsRequests, InFlight, Busy
<1>5. life' = "disposed" => \A j \in Items : ~Counted(j)'
  BY DEF PendingCountsRequests
<1> QED BY <1>1, <1>2, <1>3, <1>4, <1>5 DEF PendingCountsRequests, CountedItems

(* The first thing a caller is told. *)
LEMMA TellFirst ==
  ASSUME told \in [Requests -> Seq(Tellings)], NEW r \in Requests, Untold(r),
         NEW how \in {"return", "call"}, NEW e \in Outcomes, Tell(r, how, e)
  PROVE  /\ told' \in [Requests -> Seq(Tellings)]
         /\ told'[r] = <<[by |-> how, err |-> e]>>
         /\ \A q \in Requests \ {r} : told'[q] = told[q]
<1>1. Append(<<>>, [by |-> how, err |-> e]) = <<[by |-> how, err |-> e]>>
  OBVIOUS
<1>2. [by |-> how, err |-> e] \in Tellings
  BY DEF Tellings
<1>3. <<[by |-> how, err |-> e]>> \in Seq(Tellings)
  BY <1>2
<1> QED BY <1>1, <1>3 DEF Tell, Untold

(* The first thing this store answers. *)
LEMMA AnswerFirst ==
  ASSUME answer \in [Requests -> Seq(Outcomes)], NEW r \in Requests, answer[r] = <<>>,
         NEW e \in Outcomes, Answer(r, e)
  PROVE  /\ answer' \in [Requests -> Seq(Outcomes)]
         /\ answer'[r] = <<e>>
         /\ \A q \in Requests \ {r} : answer'[q] = answer[q]
<1>1. Append(<<>>, e) = <<e>> /\ <<e>> \in Seq(Outcomes)
  OBVIOUS
<1> QED BY <1>1 DEF Answer

(* What an OnComplete or a call returned tells is not nothing, and which of *)
(* them it was and its result can be told from it.                          *)
LEMMA Tellings1 ==
  ASSUME NEW r \in Requests
  PROVE  /\ Returned(r) => told[r] # <<>> /\ told[r][1].by = "return" /\ told[r][1].err = "err"
         /\ \A e : Called(r, e) => told[r] # <<>> /\ told[r][1].by = "call"
                                   /\ told[r][1].err = e
BY DEF Returned, Called

--------------------------------------------------------------------------------
(* What a step of one request leaves alone. *)

OnlyOf(r) ==
    /\ \A i \in Items : i[1] # r => item'[i] = item[i]
    /\ \A q \in Requests \ {r} : /\ told'[q] = told[q]
                                 /\ zreq'[q] = zreq[q]
                                 /\ answer'[q] = answer[q]
    /\ \A p \in Puts \ {r} : /\ put'[p] = put[p]
                             /\ pendingCount'[p] = pendingCount[p]
                             /\ remoteErr'[p] = remoteErr[p]
                             /\ zblock'[p] = zblock[p]
                             /\ p \in starved' <=> p \in starved
    /\ \A g \in Gets \ {r} : /\ refCount'[g] = refCount[g]
                             /\ g \in holding' <=> g \in holding
    /\ tagged' = tagged

(* A request that has gone on is not set back. *)
GoesForward(r) ==
    /\ ~Untold(r) => ~Untold(r)'
    /\ zreq[r] # "idle" => zreq'[r] # "idle"
    /\ answer[r] # <<>> \/ zreq[r] = "failing" =>
          answer'[r] # <<>> \/ zreq'[r] = "failing"
    /\ r \in Puts /\ put[r] = "returned" => put'[r] = "returned"
    /\ r \in Gets /\ item[<<r, "local">>] # "none" => item'[<<r, "local">>] # "none"

(* A step of another request does not disturb a Put... *)
LEMMA PutFrame ==
  ASSUME NEW r \in Requests, OnlyOf(r), remote \subseteq remote',
         NEW p \in Puts, p # r, PutInv(p)
  PROVE  PutInv(p)'
<1>1. /\ item'[<<p, "remote">>] = item[<<p, "remote">>]
      /\ item'[<<p, "local">>] = item[<<p, "local">>]
  BY ItemsOf DEF OnlyOf
<1>2. /\ put'[p] = put[p] /\ pendingCount'[p] = pendingCount[p]
      /\ remoteErr'[p] = remoteErr[p] /\ zblock'[p] = zblock[p]
      /\ p \in starved' <=> p \in starved
      /\ told'[p] = told[p] /\ zreq'[p] = zreq[p] /\ answer'[p] = answer[p]
      /\ tagged' = tagged
  BY DEF OnlyOf, Requests
<1>3. PutStage(p)'
  BY <1>1, <1>2 DEF PutInv, PutStage, Untold, Returned, Called
<1>4. PutCall(p)'
  BY <1>2 DEF PutInv, PutCall, Returned, Called
<1> QED BY <1>2, <1>3, <1>4 DEF PutInv

(* ... or a Get. *)
LEMMA GetFrame ==
  ASSUME NEW r \in Requests, OnlyOf(r), remote \subseteq remote', local \subseteq local',
         NEW g \in Gets, g # r, GetInv(g)
  PROVE  GetInv(g)'
<1>1. /\ item'[<<g, "remote">>] = item[<<g, "remote">>]
      /\ item'[<<g, "local">>] = item[<<g, "local">>]
      /\ item'[<<g, "copy">>] = item[<<g, "copy">>]
  BY ItemsOf DEF OnlyOf
<1>2. /\ refCount'[g] = refCount[g] /\ (g \in holding' <=> g \in holding)
      /\ told'[g] = told[g] /\ zreq'[g] = zreq[g] /\ answer'[g] = answer[g]
  BY DEF OnlyOf, Requests
<1>3. GetStage(g)'
  BY <1>1, <1>2 DEF GetInv, GetStage, Untold, Returned, Called
<1>4. GetCall(g)'
  BY <1>1, <1>2 DEF GetInv, GetCall, Returned, Called, Untold
<1>5. /\ Copying(g)' <=> Copying(g)
      /\ Using(g)' <=> Using(g)
  BY <1>1, <1>2 DEF Copying, Using, Called
<1> QED BY <1>2, <1>3, <1>4, <1>5 DEF GetInv, Called

(* The flushes of either store do not mind a request going on... *)
LEMMA FlushFrame ==
  ASSUME Flushing, UNCHANGED flushVars, Made \subseteq Made',
         \A f \in Flushes : covers[f] \subseteq Requests, flushList \subseteq Flushes,
         \A q \in Requests : ~Untold(q) => ~Untold(q)'
  PROVE  Flushing'
BY DEF Flushing, flushVars

(* The same of the flushes of this store. *)
LEMMA ZFlushFrame ==
  ASSUME ZFlushing, UNCHANGED zflushVars,
         \A f \in Flushes : zcovers[f] \subseteq Requests, zflushList \subseteq Flushes,
         \A q \in Requests : /\ zreq[q] # "idle" => zreq'[q] # "idle"
                             /\ answer[q] # <<>> \/ zreq[q] = "failing" =>
                                   answer'[q] # <<>> \/ zreq'[q] = "failing"
  PROVE  ZFlushing'
BY DEF ZFlushing, zflushVars

(* ... nor RetargetContent a store that grows. *)
LEMMA AskFrame ==
  ASSUME Asking, UNCHANGED ask, local \subseteq local', remote \subseteq remote'
  PROVE  Asking'
BY DEF Asking

(* What is to be shown of a step of one request. *)
LEMMA RequestStep ==
  ASSUME IInv, NEW r \in Requests, OnlyOf(r), GoesForward(r), TypeOK',
         r \in Puts => PutInv(r)', r \in Gets => GetInv(r)',
         local \subseteq local', remote \subseteq remote',
         UNCHANGED <<flushVars, zflushVars, ask>>, PendingCountsRequests'
  PROVE  IInv'
<1>1. \A p \in Puts : PutInv(p)'
  BY PutFrame DEF IInv
<1>2. \A g \in Gets : GetInv(g)'
  BY GetFrame DEF IInv
<1>3. /\ \A f \in Flushes : covers[f] \subseteq Requests /\ zcovers[f] \subseteq Requests
      /\ flushList \subseteq Flushes /\ zflushList \subseteq Flushes
  BY DEF IInv, TypeOK, CacheTypeOK
<1>4. \A q \in Requests : /\ ~Untold(q) => ~Untold(q)'
                          /\ zreq[q] # "idle" => zreq'[q] # "idle"
                          /\ answer[q] # <<>> \/ zreq[q] = "failing" =>
                                answer'[q] # <<>> \/ zreq'[q] = "failing"
  BY DEF OnlyOf, GoesForward, Untold
<1>5. Made \subseteq Made'
  <2>1. \A p \in Puts : put[p] = "returned" => put'[p] = "returned"
    BY DEF OnlyOf, GoesForward
  <2>2. \A g \in Gets : item[<<g, "local">>] # "none" => item'[<<g, "local">>] # "none"
    <3> TAKE g \in Gets
    <3>1. CASE g = r
      BY <3>1 DEF GoesForward
    <3>2. CASE g # r
      <4>1. <<g, "local">> \in Items /\ <<g, "local">>[1] = g
        BY ItemsOf
      <4> QED BY <3>2, <4>1 DEF OnlyOf
    <3> QED BY <3>1, <3>2
  <2> QED BY <2>1, <2>2 DEF Made
<1>6. Flushing' /\ ZFlushing' /\ Asking'
  BY <1>3, <1>4, <1>5, FlushFrame, ZFlushFrame, AskFrame DEF IInv
<1> QED BY <1>1, <1>2, <1>6 DEF IInv

--------------------------------------------------------------------------------
(* What moving an item leaves alone. *)

(* A step that moves one item of a request. *)
LEMMA Moved ==
  ASSUME item \in [Items -> Stages], NEW i \in Items, NEW s \in Stages, Move(i, s)
  PROVE  /\ item' \in [Items -> Stages]
         /\ item'[i] = s
         /\ \A j \in Items : j # i => item'[j] = item[j]
BY DEF Move

(* A step that moves two items of a request. *)
LEMMA Moved2 ==
  ASSUME item \in [Items -> Stages], NEW i \in Items, NEW s \in Stages,
         NEW k \in Items, NEW t \in Stages, i # k, Move2(i, s, k, t)
  PROVE  /\ item' \in [Items -> Stages]
         /\ item'[i] = s /\ item'[k] = t
         /\ \A j \in Items : j # i /\ j # k => item'[j] = item[j]
BY DEF Move2

(* Moving the one item of a Put leaves the other alone. *)
LEMMA PutRemoteMoves ==
  ASSUME item \in [Items -> Stages], NEW p \in Puts, NEW s \in Stages,
         Move(<<p, "remote">>, s)
  PROVE  /\ item' \in [Items -> Stages]
         /\ item'[<<p, "remote">>] = s
         /\ item'[<<p, "local">>] = item[<<p, "local">>]
         /\ \A i \in Items : i[1] # p => item'[i] = item[i]
         /\ \A i \in Items \ {<<p, "remote">>} : Counted(i)' <=> Counted(i)
<1> DEFINE k == <<p, "remote">>
<1>1. k \in Items /\ k[1] = p /\ Move(k, s)
  BY ItemsOf
<1>2. k # <<p, "local">>
  OBVIOUS
<1>3. /\ item' \in [Items -> Stages] /\ item'[k] = s
      /\ \A j \in Items : j # k => item'[j] = item[j]
  <2> HIDE DEF k
  <2> QED BY <1>1, Moved
<1>4. item'[<<p, "local">>] = item[<<p, "local">>]
  BY <1>2, <1>3, ItemsOf
<1>5. /\ \A j \in Items : j[1] # p => item'[j] = item[j]
      /\ \A j \in Items \ {k} : Counted(j)' <=> Counted(j)
  BY <1>1, <1>3 DEF Counted, Locked
<1> QED BY <1>3, <1>4, <1>5

(* The same of the local half of a Put. *)
LEMMA PutLocalMoves ==
  ASSUME item \in [Items -> Stages], NEW p \in Puts, NEW s \in Stages,
         Move(<<p, "local">>, s)
  PROVE  /\ item' \in [Items -> Stages]
         /\ item'[<<p, "local">>] = s
         /\ item'[<<p, "remote">>] = item[<<p, "remote">>]
         /\ \A i \in Items : i[1] # p => item'[i] = item[i]
         /\ \A i \in Items \ {<<p, "local">>} : Counted(i)' <=> Counted(i)
<1> DEFINE k == <<p, "local">>
<1>1. k \in Items /\ k[1] = p /\ Move(k, s)
  BY ItemsOf
<1>2. k # <<p, "remote">>
  OBVIOUS
<1>3. /\ item' \in [Items -> Stages] /\ item'[k] = s
      /\ \A j \in Items : j # k => item'[j] = item[j]
  <2> HIDE DEF k
  <2> QED BY <1>1, Moved
<1>4. item'[<<p, "remote">>] = item[<<p, "remote">>]
  BY <1>2, <1>3, ItemsOf
<1>5. /\ \A j \in Items : j[1] # p => item'[j] = item[j]
      /\ \A j \in Items \ {k} : Counted(j)' <=> Counted(j)
  BY <1>1, <1>3 DEF Counted, Locked
<1> QED BY <1>3, <1>4, <1>5

(* Moving one item of a Get leaves the other two alone. *)
LEMMA GetLocalMoves ==
  ASSUME item \in [Items -> Stages], NEW g \in Gets, NEW s \in Stages,
         Move(<<g, "local">>, s)
  PROVE  /\ item' \in [Items -> Stages]
         /\ item'[<<g, "local">>] = s
         /\ item'[<<g, "remote">>] = item[<<g, "remote">>]
         /\ item'[<<g, "copy">>] = item[<<g, "copy">>]
         /\ \A i \in Items : i[1] # g => item'[i] = item[i]
         /\ \A i \in Items \ {<<g, "local">>} : Counted(i)' <=> Counted(i)
<1> DEFINE k == <<g, "local">>
<1>1. k \in Items /\ k[1] = g /\ Move(k, s)
  BY ItemsOf
<1>2. k # <<g, "remote">> /\ k # <<g, "copy">>
  OBVIOUS
<1>3. /\ item' \in [Items -> Stages] /\ item'[k] = s
      /\ \A j \in Items : j # k => item'[j] = item[j]
  <2> HIDE DEF k
  <2> QED BY <1>1, Moved
<1>4. item'[<<g, "remote">>] = item[<<g, "remote">>] /\ item'[<<g, "copy">>] = item[<<g, "copy">>]
  BY <1>2, <1>3, ItemsOf
<1>5. /\ \A j \in Items : j[1] # g => item'[j] = item[j]
      /\ \A j \in Items \ {k} : Counted(j)' <=> Counted(j)
  BY <1>1, <1>3 DEF Counted, Locked
<1> QED BY <1>3, <1>4, <1>5

(* The same of the remote Get of a Get. *)
LEMMA GetRemoteMoves ==
  ASSUME item \in [Items -> Stages], NEW g \in Gets, NEW s \in Stages,
         Move(<<g, "remote">>, s)
  PROVE  /\ item' \in [Items -> Stages]
         /\ item'[<<g, "remote">>] = s
         /\ item'[<<g, "local">>] = item[<<g, "local">>]
         /\ item'[<<g, "copy">>] = item[<<g, "copy">>]
         /\ \A i \in Items : i[1] # g => item'[i] = item[i]
         /\ \A i \in Items \ {<<g, "remote">>} : Counted(i)' <=> Counted(i)
<1> DEFINE k == <<g, "remote">>
<1>1. k \in Items /\ k[1] = g /\ Move(k, s)
  BY ItemsOf
<1>2. k # <<g, "local">> /\ k # <<g, "copy">>
  OBVIOUS
<1>3. /\ item' \in [Items -> Stages] /\ item'[k] = s
      /\ \A j \in Items : j # k => item'[j] = item[j]
  <2> HIDE DEF k
  <2> QED BY <1>1, Moved
<1>4. item'[<<g, "local">>] = item[<<g, "local">>] /\ item'[<<g, "copy">>] = item[<<g, "copy">>]
  BY <1>2, <1>3, ItemsOf
<1>5. /\ \A j \in Items : j[1] # g => item'[j] = item[j]
      /\ \A j \in Items \ {k} : Counted(j)' <=> Counted(j)
  BY <1>1, <1>3 DEF Counted, Locked
<1> QED BY <1>3, <1>4, <1>5

(* The same of the copy that a Get puts in the local store. *)
LEMMA GetCopyMoves ==
  ASSUME item \in [Items -> Stages], NEW g \in Gets, NEW s \in Stages,
         Move(<<g, "copy">>, s)
  PROVE  /\ item' \in [Items -> Stages]
         /\ item'[<<g, "copy">>] = s
         /\ item'[<<g, "local">>] = item[<<g, "local">>]
         /\ item'[<<g, "remote">>] = item[<<g, "remote">>]
         /\ \A i \in Items : i[1] # g => item'[i] = item[i]
         /\ \A i \in Items \ {<<g, "copy">>} : Counted(i)' <=> Counted(i)
<1> DEFINE k == <<g, "copy">>
<1>1. k \in Items /\ k[1] = g /\ Move(k, s)
  BY ItemsOf
<1>2. k # <<g, "local">> /\ k # <<g, "remote">>
  OBVIOUS
<1>3. /\ item' \in [Items -> Stages] /\ item'[k] = s
      /\ \A j \in Items : j # k => item'[j] = item[j]
  <2> HIDE DEF k
  <2> QED BY <1>1, Moved
<1>4. item'[<<g, "local">>] = item[<<g, "local">>] /\ item'[<<g, "remote">>] = item[<<g, "remote">>]
  BY <1>2, <1>3, ItemsOf
<1>5. /\ \A j \in Items : j[1] # g => item'[j] = item[j]
      /\ \A j \in Items \ {k} : Counted(j)' <=> Counted(j)
  BY <1>1, <1>3 DEF Counted, Locked
<1> QED BY <1>3, <1>4, <1>5

(* Moving two items of a Get leaves the third alone. *)
LEMMA LocalRemoteMove ==
  ASSUME item \in [Items -> Stages], NEW g \in Gets, NEW s \in Stages, NEW t \in Stages,
         Move2(<<g, "local">>, s, <<g, "remote">>, t)
  PROVE  /\ item' \in [Items -> Stages]
         /\ item'[<<g, "local">>] = s /\ item'[<<g, "remote">>] = t
         /\ item'[<<g, "copy">>] = item[<<g, "copy">>]
         /\ \A i \in Items : i[1] # g => item'[i] = item[i]
         /\ \A i \in Items \ {<<g, "local">>, <<g, "remote">>} : Counted(i)' <=> Counted(i)
<1> DEFINE k == <<g, "local">>
           l == <<g, "remote">>
<1>1. k \in Items /\ k[1] = g /\ l \in Items /\ l[1] = g /\ Move2(k, s, l, t)
  BY ItemsOf
<1>2. k # l /\ k # <<g, "copy">> /\ l # <<g, "copy">>
  OBVIOUS
<1>3. /\ item' \in [Items -> Stages] /\ item'[k] = s /\ item'[l] = t
      /\ \A j \in Items : j # k /\ j # l => item'[j] = item[j]
  <2> HIDE DEF k, l
  <2> QED BY <1>1, <1>2, Moved2
<1>4. item'[<<g, "copy">>] = item[<<g, "copy">>]
  BY <1>2, <1>3, ItemsOf
<1>5. /\ \A j \in Items : j[1] # g => item'[j] = item[j]
      /\ \A j \in Items \ {k, l} : Counted(j)' <=> Counted(j)
  BY <1>1, <1>3 DEF Counted, Locked
<1> QED BY <1>3, <1>4, <1>5

(* The same when the remote Get and the copy move together. *)
LEMMA RemoteCopyMove ==
  ASSUME item \in [Items -> Stages], NEW g \in Gets, NEW s \in Stages, NEW t \in Stages,
         Move2(<<g, "remote">>, s, <<g, "copy">>, t)
  PROVE  /\ item' \in [Items -> Stages]
         /\ item'[<<g, "remote">>] = s /\ item'[<<g, "copy">>] = t
         /\ item'[<<g, "local">>] = item[<<g, "local">>]
         /\ \A i \in Items : i[1] # g => item'[i] = item[i]
         /\ \A i \in Items \ {<<g, "remote">>, <<g, "copy">>} : Counted(i)' <=> Counted(i)
<1> DEFINE k == <<g, "remote">>
           l == <<g, "copy">>
<1>1. k \in Items /\ k[1] = g /\ l \in Items /\ l[1] = g /\ Move2(k, s, l, t)
  BY ItemsOf
<1>2. k # l /\ k # <<g, "local">> /\ l # <<g, "local">>
  OBVIOUS
<1>3. /\ item' \in [Items -> Stages] /\ item'[k] = s /\ item'[l] = t
      /\ \A j \in Items : j # k /\ j # l => item'[j] = item[j]
  <2> HIDE DEF k, l
  <2> QED BY <1>1, <1>2, Moved2
<1>4. item'[<<g, "local">>] = item[<<g, "local">>]
  BY <1>2, <1>3, ItemsOf
<1>5. /\ \A j \in Items : j[1] # g => item'[j] = item[j]
      /\ \A j \in Items \ {k, l} : Counted(j)' <=> Counted(j)
  BY <1>1, <1>3 DEF Counted, Locked
<1> QED BY <1>3, <1>4, <1>5

--------------------------------------------------------------------------------
(* The steps of a Put in the cache store preserve the invariant. *)

(* A Put whose caller has learned nothing is being waited for above. *)
LEMMA UntoldPut ==
  ASSUME NEW p \in Puts, PutInv(p), Untold(p), put[p] # "idle"
  PROVE  /\ zreq[p] = "called" /\ answer[p] = <<>>
         /\ zblock[p] = IF p \in tagged THEN "live" ELSE "none"
<1>1. ~Returned(p) /\ \A e \in Outcomes : ~Called(p, e)
  BY DEF Untold, Returned, Called
<1> QED BY <1>1 DEF PutInv, PutCall

(* Lines 183 to 190: the remote store refuses. *)
LEMMA RemoteRefusesPutStep ==
  ASSUME IInv, NEW p \in Puts, RemoteRefusesPut(p), UNCHANGED zVars
  PROVE  IInv'
<1>0. p \in Requests /\ <<p, "remote">> \in Items /\ p \notin Gets
  BY ItemsOf DEF Requests
<1>1. /\ item' \in [Items -> Stages]
      /\ item'[<<p, "remote">>] = "leaving" /\ item[<<p, "remote">>] = "called"
      /\ item'[<<p, "local">>] = item[<<p, "local">>]
      /\ \A j \in Items : j[1] # p => item'[j] = item[j]
      /\ \A j \in Items \ {<<p, "remote">>} : Counted(j)' <=> Counted(j)
  <2>1. Move(<<p, "remote">>, "leaving") /\ item \in [Items -> Stages] /\ "leaving" \in Stages
    BY DEF RemoteRefusesPut, IInv, TypeOK, CacheTypeOK, Stages
  <2> QED BY <2>1, PutRemoteMoves DEF RemoteRefusesPut
<1>2. /\ put' \in [Puts -> {"idle", "remote", "failing", "returned"}]
      /\ put[p] = "remote" /\ put'[p] = "failing"
      /\ \A q \in Puts \ {p} : put'[q] = put[q]
      /\ UNCHANGED <<pending, flushVars, storeVars, pendingCount, remoteErr, starved, refCount,
                     told, ask, zVars>>
  BY DEF RemoteRefusesPut, IInv, TypeOK, CacheTypeOK
<1>3. PendingCountsRequests'
  BY <1>0, <1>1, <1>2, CountsStep DEF IInv, Counted, Locked, Busy, zVars
<1>4. TypeOK'
  BY <1>1, <1>2, ZenonT(40)
     DEF IInv, TypeOK, CacheTypeOK, zVars, zflushVars, flushVars, storeVars
<1>5. OnlyOf(p) /\ GoesForward(p)
  BY <1>0, <1>1, <1>2 DEF OnlyOf, GoesForward, zVars, Untold
<1>6. PutInv(p)'
  <2>1. PutInv(p)
    BY DEF IInv
  <2>2. Untold(p) /\ Untold(p)'
    BY <1>2, <2>1 DEF PutInv, PutStage, Untold
  <2>3. PutStage(p)'
    BY <1>1, <1>2, <2>1, <2>2 DEF PutInv, PutStage, Returned, Called, Untold
  <2>4. PutCall(p)'
    BY <1>2, <2>1 DEF PutInv, PutCall, Returned, Called, zVars
  <2> QED BY <1>2, <2>1, <2>3, <2>4 DEF PutInv, storeVars
<1> QED BY <1>0, <1>2, <1>3, <1>4, <1>5, <1>6, RequestStep DEF zVars, storeVars

(* ... and the error is returned. *)
LEMMA PutFailsStep ==
  ASSUME IInv, NEW p \in Puts, PutFails(p), UNCHANGED zVars
  PROVE  IInv'
<1>0. p \in Requests /\ <<p, "remote">> \in Items /\ <<p, "local">> \in Items /\ p \notin Gets
  BY ItemsOf DEF Requests
<1>1. /\ put' \in [Puts -> {"idle", "remote", "failing", "returned"}]
      /\ put[p] = "failing" /\ put'[p] = "returned" /\ item[<<p, "remote">>] = "done"
      /\ \A q \in Puts \ {p} : put'[q] = put[q]
      /\ UNCHANGED <<pending, flushVars, storeVars, item, pendingCount, remoteErr, starved,
                     refCount, ask, zVars>>
  BY DEF PutFails, IInv, TypeOK, CacheTypeOK
<1>2. /\ Untold(p) /\ told' \in [Requests -> Seq(Tellings)] /\ Returned(p)'
      /\ \A q \in Requests \ {p} : told'[q] = told[q]
  <2>1. Untold(p)
    BY <1>1 DEF IInv, PutInv, PutStage
  <2>2. told \in [Requests -> Seq(Tellings)] /\ Tell(p, "return", "err")
    BY DEF PutFails, IInv, TypeOK, CacheTypeOK, Tellings
  <2> QED BY <1>0, <2>1, <2>2, TellFirst DEF Returned, Outcomes
<1>3. PendingCountsRequests'
  BY <1>0, <1>1, CountsStep DEF IInv, Counted, Locked, Busy, zVars
<1>4. TypeOK'
  BY <1>1, <1>2, <1>3, ZenonT(40)
     DEF IInv, TypeOK, CacheTypeOK, zVars, zflushVars, flushVars, storeVars,
                          Tellings
<1>5. OnlyOf(p) /\ GoesForward(p)
  BY <1>0, <1>1, <1>2 DEF OnlyOf, GoesForward, zVars, Untold
<1>6. PutInv(p)'
  <2>1. PutInv(p)
    BY DEF IInv
  <2>2. PutStage(p)'
    BY <1>1, <1>2, <2>1 DEF PutInv, PutStage, Untold
  <2>3. PutCall(p)'
    BY <1>1, <1>2, <2>1 DEF PutInv, PutCall, Returned, Called, Untold, zVars
  <2> QED BY <1>1, <2>1, <2>2, <2>3 DEF PutInv, storeVars
<1> QED BY <1>0, <1>1, <1>3, <1>4, <1>5, <1>6, RequestStep DEF zVars, storeVars

(* Lines 204 to 211: the local store is called. *)
LEMMA RemoteAcceptsPutStep ==
  ASSUME IInv, NEW p \in Puts, RemoteAcceptsPut(p), UNCHANGED zVars
  PROVE  IInv'
<1>0. p \in Requests /\ <<p, "remote">> \in Items /\ <<p, "local">> \in Items /\ p \notin Gets
  BY ItemsOf DEF Requests
<1>1. /\ item' \in [Items -> Stages]
      /\ item'[<<p, "local">>] = "called" /\ item[<<p, "local">>] = "none"
      /\ item'[<<p, "remote">>] = item[<<p, "remote">>]
      /\ \A j \in Items : j[1] # p => item'[j] = item[j]
      /\ \A j \in Items \ {<<p, "local">>} : Counted(j)' <=> Counted(j)
  <2>1. Move(<<p, "local">>, "called") /\ item \in [Items -> Stages] /\ "called" \in Stages
    BY DEF RemoteAcceptsPut, IInv, TypeOK, CacheTypeOK, Stages
  <2>2. item[<<p, "local">>] = "none"
    BY DEF RemoteAcceptsPut, IInv, PutInv, PutStage
  <2> QED BY <2>1, <2>2, PutLocalMoves
<1>2. /\ put' \in [Puts -> {"idle", "remote", "failing", "returned"}]
      /\ put[p] = "remote" /\ put'[p] = "returned" /\ pending' = pending + 1
      /\ \A q \in Puts \ {p} : put'[q] = put[q]
      /\ UNCHANGED <<flushVars, storeVars, pendingCount, remoteErr, starved, refCount, told,
                     ask, zVars>>
  BY DEF RemoteAcceptsPut, IInv, TypeOK, CacheTypeOK
<1>3. PendingCountsRequests' /\ pending' \in Nat
  <2>1. zreq[p] = "called"
    <3>1. PutInv(p) /\ Untold(p)
      BY <1>2 DEF IInv, PutInv, PutStage
    <3> QED BY <1>2, <3>1, UntoldPut
  <2>2. life # "disposed"
    BY <1>0, <2>1 DEF IInv, PendingCountsRequests, InFlight
  <2>3. Counted(<<p, "local">>)' /\ ~Counted(<<p, "local">>)
    BY <1>1 DEF Counted, Locked
  <2>4. Busy(p)' <=> Busy(p)
    BY <1>2 DEF Busy, zVars
  <2>5. /\ \A q \in Requests \ {p} : zreq'[q] = zreq[q]
        /\ zpending' = zpending /\ life' = life
    BY <1>2 DEF zVars
  <2> QED BY <1>0, <1>1, <1>2, <2>2, <2>3, <2>4, <2>5, CountsStep DEF IInv
<1>4. TypeOK'
  BY <1>1, <1>2, <1>3, ZenonT(40)
     DEF IInv, TypeOK, CacheTypeOK, zVars, zflushVars, flushVars, storeVars,
                          Tellings
<1>5. OnlyOf(p) /\ GoesForward(p)
  BY <1>0, <1>1, <1>2 DEF OnlyOf, GoesForward, zVars, Untold
<1>6. PutInv(p)'
  <2>1. PutInv(p)
    BY DEF IInv
  <2>2. PutStage(p)'
    BY <1>1, <1>2, <2>1 DEF PutInv, PutStage, Untold, Returned, Called
  <2>3. PutCall(p)'
    BY <1>2, <2>1 DEF PutInv, PutCall, Returned, Called, zVars
  <2> QED BY <1>2, <2>1, <2>2, <2>3 DEF PutInv, storeVars
<1> QED BY <1>0, <1>2, <1>3, <1>4, <1>5, <1>6, RequestStep DEF zVars, storeVars

(* Lines 195 to 202: no second completion object. *)
LEMMA LocalPutNoMemoryStep ==
  ASSUME IInv, NEW p \in Puts, LocalPutNoMemory(p), UNCHANGED zVars
  PROVE  IInv'
<1>0. p \in Requests /\ <<p, "remote">> \in Items /\ <<p, "local">> \in Items /\ p \notin Gets
  BY ItemsOf DEF Requests
<1>1. /\ put' \in [Puts -> {"idle", "remote", "failing", "returned"}]
      /\ put[p] = "remote" /\ put'[p] = "returned"
      /\ starved' = starved \cup {p}
      /\ \A q \in Puts \ {p} : put'[q] = put[q]
      /\ UNCHANGED <<pending, flushVars, storeVars, item, pendingCount, remoteErr, refCount, ask,
                     zVars>>
  BY DEF LocalPutNoMemory, IInv, TypeOK, CacheTypeOK
<1>2. /\ Untold(p) /\ told' \in [Requests -> Seq(Tellings)] /\ Returned(p)'
      /\ \A q \in Requests \ {p} : told'[q] = told[q]
  <2>1. Untold(p)
    BY <1>1 DEF IInv, PutInv, PutStage
  <2>2. told \in [Requests -> Seq(Tellings)] /\ Tell(p, "return", "err")
    BY DEF LocalPutNoMemory, IInv, TypeOK, CacheTypeOK, Tellings
  <2> QED BY <1>0, <2>1, <2>2, TellFirst DEF Returned, Outcomes
<1>3. PendingCountsRequests'
  BY <1>0, <1>1, CountsStep DEF IInv, Counted, Locked, Busy, zVars
<1>4. TypeOK'
  BY <1>1, <1>2, <1>3, ZenonT(40)
     DEF IInv, TypeOK, CacheTypeOK, zVars, zflushVars, flushVars, storeVars,
                          Tellings
<1>5. OnlyOf(p) /\ GoesForward(p)
  BY <1>0, <1>1, <1>2 DEF OnlyOf, GoesForward, zVars, Untold
<1>6. PutInv(p)'
  <2>1. PutInv(p)
    BY DEF IInv
  <2>2. PutStage(p)'
    BY <1>1, <1>2, <2>1 DEF PutInv, PutStage, Untold
  <2>3. PutCall(p)'
    BY <1>1, <1>2, <2>1 DEF PutInv, PutCall, Returned, Called, Untold, zVars
  <2> QED BY <1>1, <2>1, <2>2, <2>3 DEF PutInv, storeVars
<1> QED BY <1>0, <1>1, <1>3, <1>4, <1>5, <1>6, RequestStep DEF zVars, storeVars

(* One of the two completions counts down: the later one tells the caller. *)
LEMMA RemoteCountsDown ==
  ASSUME IInv, NEW p \in Puts, NEW e \in Outcomes, CountDown(<<p, "remote">>, e),
         item[<<p, "remote">>] = "called"
  PROVE  /\ item' \in [Items -> Stages]
         /\ item'[<<p, "local">>] = item[<<p, "local">>]
         /\ \A j \in Items : j[1] # p => item'[j] = item[j]
         /\ \A j \in Items \ {<<p, "remote">>} : Counted(j)' <=> Counted(j)
         /\ pendingCount' \in [Puts -> 0..2] /\ pendingCount'[p] = pendingCount[p] - 1
         /\ \A q \in Puts \ {p} : pendingCount'[q] = pendingCount[q]
         /\ told' \in [Requests -> Seq(Tellings)]
         /\ \A q \in Requests \ {p} : told'[q] = told[q]
         /\ ~Untold(p) => ~Untold(p)'
         /\ \/ /\ pendingCount[p] = 1 /\ item'[<<p, "remote">>] = "answering"
               /\ Untold(p) /\ Called(p, e)'
            \/ /\ pendingCount[p] = 2 /\ item'[<<p, "remote">>] = "leaving"
               /\ told'[p] = told[p]
<1>0. p \in Requests /\ <<p, "remote">>[1] = p
  BY ItemsOf DEF Requests
<1>1. /\ item \in [Items -> Stages] /\ told \in [Requests -> Seq(Tellings)]
      /\ pendingCount \in [Puts -> 0..2] /\ "answering" \in Stages /\ "leaving" \in Stages
  BY DEF IInv, TypeOK, CacheTypeOK, Tellings, Stages
<1>2. pendingCount[p] = 2 \/ (pendingCount[p] = 1 /\ Untold(p))
  BY DEF IInv, PutInv, PutStage
<1>3. pendingCount' = [pendingCount EXCEPT ![p] = pendingCount[p] - 1]
  BY <1>0 DEF CountDown
<1>4. /\ pendingCount' \in [Puts -> 0..2] /\ pendingCount'[p] = pendingCount[p] - 1
      /\ \A q \in Puts \ {p} : pendingCount'[q] = pendingCount[q]
  <2>1. pendingCount[p] - 1 \in 0..2
    BY <1>2
  <2> QED BY <1>1, <1>3, <2>1
<1>5. CASE pendingCount[p] = 1
  <2>1. Tell(p, "call", e) /\ Move(<<p, "remote">>, "answering")
    BY <1>0, <1>5 DEF CountDown
  <2>2. Untold(p)
    BY <1>2, <1>5
  <2>3. /\ told' \in [Requests -> Seq(Tellings)] /\ Called(p, e)'
        /\ \A q \in Requests \ {p} : told'[q] = told[q]
    BY <1>0, <1>1, <2>1, <2>2, TellFirst DEF Called
  <2>4. /\ item' \in [Items -> Stages] /\ item'[<<p, "remote">>] = "answering"
        /\ item'[<<p, "local">>] = item[<<p, "local">>]
        /\ \A j \in Items : j[1] # p => item'[j] = item[j]
        /\ \A j \in Items \ {<<p, "remote">>} : Counted(j)' <=> Counted(j)
    BY <1>1, <2>1, PutRemoteMoves
  <2> QED BY <1>4, <1>5, <2>2, <2>3, <2>4
<1>6. CASE pendingCount[p] = 2
  <2>1. UNCHANGED told /\ Move(<<p, "remote">>, "leaving")
    BY <1>0, <1>6 DEF CountDown
  <2>2. /\ item' \in [Items -> Stages] /\ item'[<<p, "remote">>] = "leaving"
        /\ item'[<<p, "local">>] = item[<<p, "local">>]
        /\ \A j \in Items : j[1] # p => item'[j] = item[j]
        /\ \A j \in Items \ {<<p, "remote">>} : Counted(j)' <=> Counted(j)
    BY <1>1, <2>1, PutRemoteMoves
  <2> QED BY <1>1, <1>4, <1>6, <2>1, <2>2 DEF Untold
<1> QED BY <1>2, <1>5, <1>6

(* The same when the local half of a Put counts down. *)
LEMMA LocalCountsDown ==
  ASSUME IInv, NEW p \in Puts, NEW e \in Outcomes, CountDown(<<p, "local">>, e),
         item[<<p, "local">>] = "called"
  PROVE  /\ item' \in [Items -> Stages]
         /\ item'[<<p, "remote">>] = item[<<p, "remote">>]
         /\ \A j \in Items : j[1] # p => item'[j] = item[j]
         /\ \A j \in Items \ {<<p, "local">>} : Counted(j)' <=> Counted(j)
         /\ pendingCount' \in [Puts -> 0..2] /\ pendingCount'[p] = pendingCount[p] - 1
         /\ \A q \in Puts \ {p} : pendingCount'[q] = pendingCount[q]
         /\ told' \in [Requests -> Seq(Tellings)]
         /\ \A q \in Requests \ {p} : told'[q] = told[q]
         /\ ~Untold(p) => ~Untold(p)'
         /\ \/ /\ pendingCount[p] = 1 /\ item'[<<p, "local">>] = "answering"
               /\ Untold(p) /\ Called(p, e)'
            \/ /\ pendingCount[p] = 2 /\ item'[<<p, "local">>] = "leaving"
               /\ told'[p] = told[p]
<1>0. p \in Requests /\ <<p, "local">>[1] = p
  BY ItemsOf DEF Requests
<1>1. /\ item \in [Items -> Stages] /\ told \in [Requests -> Seq(Tellings)]
      /\ pendingCount \in [Puts -> 0..2] /\ "answering" \in Stages /\ "leaving" \in Stages
  BY DEF IInv, TypeOK, CacheTypeOK, Tellings, Stages
<1>2. pendingCount[p] = 2 \/ (pendingCount[p] = 1 /\ Untold(p))
  BY DEF IInv, PutInv, PutStage
<1>3. pendingCount' = [pendingCount EXCEPT ![p] = pendingCount[p] - 1]
  BY <1>0 DEF CountDown
<1>4. /\ pendingCount' \in [Puts -> 0..2] /\ pendingCount'[p] = pendingCount[p] - 1
      /\ \A q \in Puts \ {p} : pendingCount'[q] = pendingCount[q]
  <2>1. pendingCount[p] - 1 \in 0..2
    BY <1>2
  <2> QED BY <1>1, <1>3, <2>1
<1>5. CASE pendingCount[p] = 1
  <2>1. Tell(p, "call", e) /\ Move(<<p, "local">>, "answering")
    BY <1>0, <1>5 DEF CountDown
  <2>2. Untold(p)
    BY <1>2, <1>5
  <2>3. /\ told' \in [Requests -> Seq(Tellings)] /\ Called(p, e)'
        /\ \A q \in Requests \ {p} : told'[q] = told[q]
    BY <1>0, <1>1, <2>1, <2>2, TellFirst DEF Called
  <2>4. /\ item' \in [Items -> Stages] /\ item'[<<p, "local">>] = "answering"
        /\ item'[<<p, "remote">>] = item[<<p, "remote">>]
        /\ \A j \in Items : j[1] # p => item'[j] = item[j]
        /\ \A j \in Items \ {<<p, "local">>} : Counted(j)' <=> Counted(j)
    BY <1>1, <2>1, PutLocalMoves
  <2> QED BY <1>4, <1>5, <2>2, <2>3, <2>4
<1>6. CASE pendingCount[p] = 2
  <2>1. UNCHANGED told /\ Move(<<p, "local">>, "leaving")
    BY <1>0, <1>6 DEF CountDown
  <2>2. /\ item' \in [Items -> Stages] /\ item'[<<p, "local">>] = "leaving"
        /\ item'[<<p, "remote">>] = item[<<p, "remote">>]
        /\ \A j \in Items : j[1] # p => item'[j] = item[j]
        /\ \A j \in Items \ {<<p, "local">>} : Counted(j)' <=> Counted(j)
    BY <1>1, <2>1, PutLocalMoves
  <2> QED BY <1>1, <1>4, <1>6, <2>1, <2>2 DEF Untold
<1> QED BY <1>2, <1>5, <1>6

(* PutStoredBlockPutRemoteComplete *)
LEMMA PutRemoteCompleteStep ==
  ASSUME IInv, NEW p \in Puts, NEW e \in Outcomes, PutRemoteComplete(p, e), UNCHANGED zVars
  PROVE  IInv'
<1>0. p \in Requests /\ <<p, "remote">> \in Items /\ <<p, "local">> \in Items /\ p \notin Gets
  BY ItemsOf DEF Requests
<1>1. /\ item[<<p, "remote">>] = "called"
      /\ remoteErr' \in [Puts -> Outcomes] /\ remoteErr'[p] = e
      /\ \A q \in Puts \ {p} : remoteErr'[q] = remoteErr[q]
      /\ local' = local /\ remote \subseteq remote' /\ remote' \subseteq Hashes
      /\ e = "ok" => BlockOf[p] \in remote'
      /\ UNCHANGED <<pending, flushVars, put, starved, refCount, ask, zVars>>
  <2>1. BlockOf[p] \in Hashes /\ remote \subseteq Hashes
    BY <1>0, BlockOfType DEF IInv, TypeOK, CacheTypeOK
  <2>2. remote \subseteq remote' /\ remote' \subseteq Hashes /\ (e = "ok" => BlockOf[p] \in remote')
    BY <2>1 DEF PutRemoteComplete
  <2> QED BY <2>2 DEF PutRemoteComplete, IInv, TypeOK, CacheTypeOK
<1>2. /\ item' \in [Items -> Stages]
      /\ item'[<<p, "local">>] = item[<<p, "local">>]
      /\ \A j \in Items : j[1] # p => item'[j] = item[j]
      /\ \A j \in Items \ {<<p, "remote">>} : Counted(j)' <=> Counted(j)
      /\ pendingCount' \in [Puts -> 0..2] /\ pendingCount'[p] = pendingCount[p] - 1
      /\ \A q \in Puts \ {p} : pendingCount'[q] = pendingCount[q]
      /\ told' \in [Requests -> Seq(Tellings)]
      /\ \A q \in Requests \ {p} : told'[q] = told[q]
      /\ ~Untold(p) => ~Untold(p)'
      /\ \/ /\ pendingCount[p] = 1 /\ item'[<<p, "remote">>] = "answering"
            /\ Untold(p) /\ Called(p, e)'
         \/ /\ pendingCount[p] = 2 /\ item'[<<p, "remote">>] = "leaving"
            /\ told'[p] = told[p]
  <2>1. CountDown(<<p, "remote">>, e) /\ e \in Outcomes
    BY DEF PutRemoteComplete, IInv, TypeOK, CacheTypeOK
  <2> QED BY <1>1, <2>1, RemoteCountsDown DEF Called
<1>3. PendingCountsRequests'
  <2>1. Counted(<<p, "remote">>)' /\ Counted(<<p, "remote">>)
    BY <1>1, <1>2 DEF Counted, Locked
  <2> QED BY <1>0, <1>1, <1>2, <2>1, CountsStep DEF IInv, Busy, zVars
<1>4. TypeOK'
  <2>1. /\ item' \in [Items -> Stages] /\ pendingCount' \in [Puts -> 0..2]
        /\ told' \in [Requests -> Seq(Tellings)]
    BY <1>2
  <2>2. pending' = pending /\ local' \subseteq Hashes
    BY <1>1 DEF IInv, TypeOK, CacheTypeOK
  <2> QED BY <1>1, <2>1, <2>2, ZenonT(40)
             DEF IInv, TypeOK, CacheTypeOK, zVars, zflushVars, flushVars, Tellings
<1>5. OnlyOf(p) /\ GoesForward(p)
  BY <1>0, <1>1, <1>2 DEF OnlyOf, GoesForward, zVars
<1>6. PutInv(p)'
  <2>1. PutInv(p)
    BY DEF IInv
  <2>2. PutStage(p)'
    <3>1. CASE pendingCount[p] = 1
      BY <1>1, <1>2, <2>1, <3>1 DEF PutInv, PutStage, Untold, Returned, Called
    <3>2. CASE pendingCount[p] = 2
      BY <1>1, <1>2, <2>1, <3>2 DEF PutInv, PutStage, Untold, Returned, Called
    <3> QED BY <1>2, <3>1, <3>2
  <2>3. PutCall(p)'
    <3>1. CASE pendingCount[p] = 1
      <4>1. Untold(p) /\ put[p] # "idle"
        BY <1>1, <1>2, <2>1, <3>1 DEF PutInv, PutStage
      <4>2. /\ zreq'[p] = "called" /\ answer'[p] = <<>> /\ put'[p] # "idle"
            /\ zblock'[p] = IF p \in tagged' THEN "live" ELSE "none"
        BY <1>1, <2>1, <4>1, UntoldPut DEF zVars
      <4> QED BY <4>2 DEF PutCall
    <3>2. CASE pendingCount[p] = 2
      <4>1. /\ told'[p] = told[p] /\ put'[p] = put[p] /\ zreq'[p] = zreq[p]
            /\ answer'[p] = answer[p] /\ zblock'[p] = zblock[p] /\ tagged' = tagged
        BY <1>1, <1>2, <3>2 DEF zVars
      <4> QED BY <2>1, <4>1 DEF PutInv, PutCall, Returned, Called
    <3> QED BY <1>2, <3>1, <3>2
  <2> QED BY <1>1, <2>1, <2>2, <2>3 DEF PutInv
<1> QED BY <1>0, <1>1, <1>3, <1>4, <1>5, <1>6, RequestStep DEF zVars

(* PutStoredBlockPutLocalComplete: the caller is told the remote store's result. *)
LEMMA PutLocalCompleteStep ==
  ASSUME IInv, NEW p \in Puts, NEW e \in Outcomes, PutLocalComplete(p, e), UNCHANGED zVars
  PROVE  IInv'
<1>0. p \in Requests /\ <<p, "remote">> \in Items /\ <<p, "local">> \in Items /\ p \notin Gets
  BY ItemsOf DEF Requests
<1>1. /\ item[<<p, "local">>] = "called"
      /\ remote' = remote /\ remoteErr' = remoteErr
      /\ local \subseteq local' /\ local' \subseteq Hashes
      /\ UNCHANGED <<pending, flushVars, put, starved, refCount, ask, zVars>>
  <2>1. BlockOf[p] \in Hashes /\ local \subseteq Hashes
    BY <1>0, BlockOfType DEF IInv, TypeOK, CacheTypeOK
  <2>2. local \subseteq local' /\ local' \subseteq Hashes
    BY <2>1 DEF PutLocalComplete
  <2> QED BY <2>2 DEF PutLocalComplete, IInv, TypeOK, CacheTypeOK
<1>2. /\ item' \in [Items -> Stages]
      /\ item'[<<p, "remote">>] = item[<<p, "remote">>]
      /\ \A j \in Items : j[1] # p => item'[j] = item[j]
      /\ \A j \in Items \ {<<p, "local">>} : Counted(j)' <=> Counted(j)
      /\ pendingCount' \in [Puts -> 0..2] /\ pendingCount'[p] = pendingCount[p] - 1
      /\ \A q \in Puts \ {p} : pendingCount'[q] = pendingCount[q]
      /\ told' \in [Requests -> Seq(Tellings)]
      /\ \A q \in Requests \ {p} : told'[q] = told[q]
      /\ ~Untold(p) => ~Untold(p)'
      /\ \/ /\ pendingCount[p] = 1 /\ item'[<<p, "local">>] = "answering"
            /\ Untold(p) /\ Called(p, remoteErr[p])'
         \/ /\ pendingCount[p] = 2 /\ item'[<<p, "local">>] = "leaving"
            /\ told'[p] = told[p]
  <2>1. CountDown(<<p, "local">>, remoteErr[p]) /\ remoteErr[p] \in Outcomes
    BY DEF PutLocalComplete, IInv, TypeOK, CacheTypeOK
  <2> QED BY <1>1, <2>1, LocalCountsDown DEF Called
<1>3. PendingCountsRequests'
  <2>1. Counted(<<p, "local">>)' /\ Counted(<<p, "local">>)
    BY <1>1, <1>2 DEF Counted, Locked
  <2> QED BY <1>0, <1>1, <1>2, <2>1, CountsStep DEF IInv, Busy, zVars
<1>4. TypeOK'
  BY <1>1, <1>2, <1>3, ZenonT(40)
     DEF IInv, TypeOK, CacheTypeOK, zVars, zflushVars, flushVars, Tellings
<1>5. OnlyOf(p) /\ GoesForward(p)
  BY <1>0, <1>1, <1>2 DEF OnlyOf, GoesForward, zVars
<1>6. PutInv(p)'
  <2>1. PutInv(p)
    BY DEF IInv
  <2>2. PutStage(p)'
    <3>1. CASE pendingCount[p] = 1
      BY <1>1, <1>2, <2>1, <3>1 DEF PutInv, PutStage, Untold, Returned, Called
    <3>2. CASE pendingCount[p] = 2
      BY <1>1, <1>2, <2>1, <3>2 DEF PutInv, PutStage, Untold, Returned, Called
    <3> QED BY <1>2, <3>1, <3>2
  <2>3. PutCall(p)'
    <3>1. CASE pendingCount[p] = 1
      <4>1. Untold(p) /\ put[p] # "idle"
        BY <1>1, <1>2, <2>1, <3>1 DEF PutInv, PutStage
      <4>2. /\ zreq'[p] = "called" /\ answer'[p] = <<>> /\ put'[p] # "idle"
            /\ zblock'[p] = IF p \in tagged' THEN "live" ELSE "none"
        BY <1>1, <2>1, <4>1, UntoldPut DEF zVars
      <4> QED BY <4>2 DEF PutCall
    <3>2. CASE pendingCount[p] = 2
      <4>1. /\ told'[p] = told[p] /\ put'[p] = put[p] /\ zreq'[p] = zreq[p]
            /\ answer'[p] = answer[p] /\ zblock'[p] = zblock[p] /\ tagged' = tagged
        BY <1>1, <1>2, <3>2 DEF zVars
      <4> QED BY <2>1, <4>1 DEF PutInv, PutCall, Returned, Called
    <3> QED BY <1>2, <3>1, <3>2
  <2> QED BY <1>1, <2>1, <2>2, <2>3 DEF PutInv
<1> QED BY <1>0, <1>1, <1>3, <1>4, <1>5, <1>6, RequestStep DEF zVars

--------------------------------------------------------------------------------
(* The steps of a Get in the cache store preserve the invariant. *)

(* A Get that is under way and whose caller has learned nothing is being   *)
(* waited for above, where nobody holds its block.                         *)
LEMMA UntoldGet ==
  ASSUME NEW g \in Gets, GetInv(g), Untold(g), item[<<g, "local">>] # "none"
  PROVE  zreq[g] = "called" /\ answer[g] = <<>> /\ g \notin holding /\ ~Using(g)
<1>1. ~Returned(g) /\ \A e \in Outcomes : ~Called(g, e)
  BY DEF Untold, Returned, Called
<1>2. ~Called(g, "ok")
  BY DEF Untold, Called
<1> QED BY <1>1, <1>2 DEF GetInv, GetCall, Using

(* What the caller was told decides where it stands; while it was told     *)
(* nothing, one more thing it is told leaves it where it is.               *)
LEMMA GetCallKept ==
  ASSUME NEW g \in Gets, GetInv(g), UNCHANGED zVars,
         item'[<<g, "local">>] = "none" <=> item[<<g, "local">>] = "none",
         \/ told'[g] = told[g]
         \/ Untold(g) /\ item[<<g, "local">>] # "none"
  PROVE  /\ GetCall(g)'
         /\ told'[g] = told[g] =>
              (g \in holding' =>
                 Called(g, "ok")' /\ zreq'[g] \in {"leaving", "emptied", "unlocking", "done"})
         /\ told'[g] # told[g] => g \notin holding' /\ zreq'[g] = "called"
<1>0. zreq' = zreq /\ answer' = answer /\ holding' = holding
  BY DEF zVars
<1>1. CASE told'[g] = told[g]
  BY <1>0, <1>1 DEF GetInv, GetCall, Returned, Called, Untold
<1>2. CASE told'[g] # told[g]
  <2>1. zreq[g] = "called" /\ answer[g] = <<>> /\ g \notin holding
    BY <1>2, UntoldGet
  <2> QED BY <1>0, <1>2, <2>1 DEF GetCall
<1> QED BY <1>1, <1>2

(* What is to be shown of a step of a Get in the cache store. *)
LEMMA GetStep ==
  ASSUME IInv, NEW g \in Gets, UNCHANGED zVars,
         UNCHANGED <<flushVars, remote, putVars, ask>>,
         local \subseteq local', local' \subseteq Hashes,
         item' \in [Items -> Stages],
         \A j \in Items : j[1] # g => item'[j] = item[j],
         item'[<<g, "local">>] = "none" <=> item[<<g, "local">>] = "none",
         told' \in [Requests -> Seq(Tellings)],
         \A q \in Requests \ {g} : told'[q] = told[q],
         told'[g] = told[g] \/ (Untold(g) /\ item[<<g, "local">>] # "none"),
         refCount' \in [Gets -> Int],
         \A h \in Gets \ {g} : refCount'[h] = refCount[h],
         PendingCountsRequests', pending' \in Nat,
         GetStage(g)',
         Called(g, "ok")' => BlockOf[g] \in local' \cup remote',
         refCount'[g] = (IF Copying(g)' THEN 1 ELSE 0) + (IF Using(g)' THEN 1 ELSE 0)
  PROVE  IInv'
<1>0. g \in Requests /\ g \notin Puts
  BY ItemsOf DEF Requests
<1>1. GetInv(g)
  BY DEF IInv
<1>2. GetInv(g)'
  BY <1>1, GetCallKept DEF GetInv
<1>3. refCount'[g] \in 0..2
  OBVIOUS
<1>4. refCount' \in [Gets -> 0..2]
  <2>1. \A h \in Gets : refCount'[h] \in 0..2
    BY <1>3 DEF IInv, TypeOK, CacheTypeOK
  <2> QED BY <2>1
<1>5. TypeOK'
  BY <1>4 DEF IInv, TypeOK, CacheTypeOK, Tellings, zVars, zflushVars, flushVars, putVars
<1>6. OnlyOf(g) /\ GoesForward(g)
  BY <1>0 DEF OnlyOf, GoesForward, zVars, putVars, Untold
<1> QED BY <1>0, <1>2, <1>5, <1>6, RequestStep DEF zVars

(* Lines 496 to 512: the local store answers. *)
LEMMA GetLocalCompleteStep ==
  ASSUME IInv, NEW g \in Gets, NEW e \in Outcomes, GetLocalComplete(g, e), UNCHANGED zVars
  PROVE  IInv'
<1>0. g \in Requests /\ GetInv(g) /\ <<g, "local">> \in Items
  BY ItemsOf DEF Requests, IInv
<1>1. /\ item' \in [Items -> Stages]
      /\ item'[<<g, "local">>] = "answering"
      /\ item'[<<g, "remote">>] = item[<<g, "remote">>]
      /\ item'[<<g, "copy">>] = item[<<g, "copy">>]
      /\ \A j \in Items : j[1] # g => item'[j] = item[j]
      /\ \A j \in Items \ {<<g, "local">>} : Counted(j)' <=> Counted(j)
  <2>1. Move(<<g, "local">>, "answering") /\ item \in [Items -> Stages] /\ "answering" \in Stages
    BY DEF GetLocalComplete, IInv, TypeOK, CacheTypeOK, Stages
  <2> QED BY <2>1, GetLocalMoves
<1>2. /\ item[<<g, "local">>] = "called" /\ (e = "ok" => BlockOf[g] \in local)
      /\ pending' = pending
      /\ UNCHANGED <<flushVars, remote, putVars, ask>>
      /\ local \subseteq local' /\ local' \subseteq Hashes
  BY DEF GetLocalComplete, IInv, TypeOK, CacheTypeOK, storeVars
<1>3. /\ Untold(g) /\ item[<<g, "local">>] # "none"
      /\ told' \in [Requests -> Seq(Tellings)] /\ Called(g, e)'
      /\ \A q \in Requests \ {g} : told'[q] = told[q]
  <2>1. Untold(g) /\ item[<<g, "local">>] # "none"
    BY <1>0, <1>2 DEF GetInv, GetStage
  <2>2. told \in [Requests -> Seq(Tellings)] /\ Tell(g, "call", e)
    BY DEF GetLocalComplete, IInv, TypeOK, CacheTypeOK, Tellings
  <2> QED BY <1>0, <2>1, <2>2, TellFirst DEF Called, Outcomes
<1>4. refCount' = refCount /\ refCount \in [Gets -> Int]
  <2>1. refCount' = refCount /\ refCount \in [Gets -> 0..2]
    BY DEF GetLocalComplete, IInv, TypeOK, CacheTypeOK
  <2> QED BY <2>1
<1>5. PendingCountsRequests' /\ pending' \in Nat
  <2>1. /\ zreq' = zreq /\ zpending' = zpending /\ life' = life /\ (Busy(g)' <=> Busy(g))
    BY DEF zVars, Busy
  <2>2. Counted(<<g, "local">>)' <=> Counted(<<g, "local">>)
    BY <1>0, <1>1, <1>2 DEF Counted, Locked, GetInv, GetStage
  <2> QED BY <1>0, <1>1, <1>2, <2>1, <2>2, CountsStep DEF IInv
<1>6. GetStage(g)'
  BY <1>0, <1>1, <1>2, <1>3 DEF GetInv, GetStage, Untold, Returned, Called, Outcomes
<1>7. Called(g, "ok")' => BlockOf[g] \in local' \cup remote'
  BY <1>2, <1>3 DEF Called
<1>8. refCount'[g] = (IF Copying(g)' THEN 1 ELSE 0) + (IF Using(g)' THEN 1 ELSE 0)
  <2>1. zreq'[g] = "called" /\ g \notin holding' /\ ~Using(g)
    BY <1>0, <1>3, UntoldGet DEF zVars
  <2>2. ~Copying(g) /\ ~Copying(g)' /\ ~Using(g)'
    BY <1>0, <1>1, <1>2, <2>1 DEF GetInv, GetStage, Copying, Using
  <2> QED BY <1>0, <1>4, <2>1, <2>2 DEF GetInv
<1> QED BY <1>1, <1>2, <1>3, <1>4, <1>5, <1>6, <1>7, <1>8, <1>0, GetStep

(* Lines 462 to 482: the remote store is called. *)
LEMMA GetLocalMissesStep ==
  ASSUME IInv, NEW g \in Gets, GetLocalMisses(g), UNCHANGED zVars
  PROVE  IInv'
<1>0. g \in Requests /\ GetInv(g) /\ <<g, "local">> \in Items /\ <<g, "remote">> \in Items
  BY ItemsOf DEF Requests, IInv
<1>1. /\ item' \in [Items -> Stages]
      /\ item'[<<g, "local">>] = "inner"
      /\ item'[<<g, "remote">>] = "called"
      /\ item'[<<g, "copy">>] = item[<<g, "copy">>]
      /\ \A j \in Items : j[1] # g => item'[j] = item[j]
      /\ \A j \in Items \ {<<g, "local">>, <<g, "remote">>} : Counted(j)' <=> Counted(j)
  <2>1. /\ Move2(<<g, "local">>, "inner", <<g, "remote">>, "called") /\ item \in [Items -> Stages]
        /\ "inner" \in Stages /\ "called" \in Stages
    BY DEF GetLocalMisses, IInv, TypeOK, CacheTypeOK, Stages
  <2> QED BY <2>1, LocalRemoteMove
<1>2. /\ item[<<g, "local">>] = "called"
      /\ pending' = pending + 1
      /\ UNCHANGED <<flushVars, remote, putVars, ask>>
      /\ local \subseteq local' /\ local' \subseteq Hashes
  BY DEF GetLocalMisses, IInv, TypeOK, CacheTypeOK, storeVars
<1>3. told' = told /\ told \in [Requests -> Seq(Tellings)]
  BY DEF GetLocalMisses, IInv, TypeOK, CacheTypeOK, Tellings
<1>4. refCount' = refCount /\ refCount \in [Gets -> Int]
  <2>1. refCount' = refCount /\ refCount \in [Gets -> 0..2]
    BY DEF GetLocalMisses, IInv, TypeOK, CacheTypeOK
  <2> QED BY <2>1
<1>5. PendingCountsRequests' /\ pending' \in Nat
  <2>1. /\ zreq' = zreq /\ zpending' = zpending /\ life' = life /\ (Busy(g)' <=> Busy(g))
    BY DEF zVars, Busy
  <2>2. \A j \in Items \ {<<g, "remote">>} : Counted(j)' <=> Counted(j)
    BY <1>0, <1>1, <1>2 DEF Counted, Locked
  <2>3. Counted(<<g, "remote">>)' /\ ~Counted(<<g, "remote">>) /\ Counted(<<g, "local">>)
    BY <1>0, <1>1, <1>2 DEF Counted, Locked, GetInv, GetStage
  <2>4. life # "disposed"
    BY <1>0, <2>3 DEF IInv, PendingCountsRequests
  <2>5. /\ Counted(<<g, "remote">>)' /\ ~Counted(<<g, "remote">>) => pending' = pending + 1
        /\ \A q \in Requests \ {g} : zreq'[q] = zreq[q]
    BY <1>2, <2>1
  <2> QED BY <1>0, <2>1, <2>2, <2>3, <2>4, <2>5, CountsStep DEF IInv
<1>6. GetStage(g)'
  BY <1>0, <1>1, <1>2, <1>3 DEF GetInv, GetStage, Untold, Returned, Called, Outcomes
<1>7. Called(g, "ok")' => BlockOf[g] \in local' \cup remote'
  BY <1>0, <1>2, <1>3 DEF GetInv, Called
<1>8. refCount'[g] = (IF Copying(g)' THEN 1 ELSE 0) + (IF Using(g)' THEN 1 ELSE 0)
  <2>1. Using(g)' <=> Using(g)
    BY <1>0, <1>1, <1>2, <1>3 DEF Using, Called, zVars, GetInv, GetStage, Untold
  <2>2. Copying(g)' <=> Copying(g)
    BY <1>0, <1>1, <1>2 DEF Copying, GetInv, GetStage
  <2> QED BY <1>0, <1>4, <2>1, <2>2 DEF GetInv
<1> QED BY <1>1, <1>2, <1>3, <1>4, <1>5, <1>6, <1>7, <1>8, <1>0, GetStep

(* Lines 466 to 473: no memory for the second completion. *)
LEMMA GetRemoteNoMemoryStep ==
  ASSUME IInv, NEW g \in Gets, GetRemoteNoMemory(g), UNCHANGED zVars
  PROVE  IInv'
<1>0. g \in Requests /\ GetInv(g) /\ <<g, "local">> \in Items
  BY ItemsOf DEF Requests, IInv
<1>1. /\ item' \in [Items -> Stages]
      /\ item'[<<g, "local">>] = "lost"
      /\ item'[<<g, "remote">>] = item[<<g, "remote">>]
      /\ item'[<<g, "copy">>] = item[<<g, "copy">>]
      /\ \A j \in Items : j[1] # g => item'[j] = item[j]
      /\ \A j \in Items \ {<<g, "local">>} : Counted(j)' <=> Counted(j)
  <2>1. Move(<<g, "local">>, "lost") /\ item \in [Items -> Stages] /\ "lost" \in Stages
    BY DEF GetRemoteNoMemory, IInv, TypeOK, CacheTypeOK, Stages
  <2> QED BY <2>1, GetLocalMoves
<1>2. /\ item[<<g, "local">>] = "called"
      /\ pending' = pending
      /\ UNCHANGED <<flushVars, remote, putVars, ask>>
      /\ local \subseteq local' /\ local' \subseteq Hashes
  BY DEF GetRemoteNoMemory, IInv, TypeOK, CacheTypeOK, storeVars
<1>3. /\ Untold(g) /\ item[<<g, "local">>] # "none"
      /\ told' \in [Requests -> Seq(Tellings)] /\ Called(g, "err")'
      /\ \A q \in Requests \ {g} : told'[q] = told[q]
  <2>1. Untold(g) /\ item[<<g, "local">>] # "none"
    BY <1>0, <1>2 DEF GetInv, GetStage
  <2>2. told \in [Requests -> Seq(Tellings)] /\ Tell(g, "call", "err")
    BY DEF GetRemoteNoMemory, IInv, TypeOK, CacheTypeOK, Tellings
  <2> QED BY <1>0, <2>1, <2>2, TellFirst DEF Called, Outcomes
<1>4. refCount' = refCount /\ refCount \in [Gets -> Int]
  <2>1. refCount' = refCount /\ refCount \in [Gets -> 0..2]
    BY DEF GetRemoteNoMemory, IInv, TypeOK, CacheTypeOK
  <2> QED BY <2>1
<1>5. PendingCountsRequests' /\ pending' \in Nat
  <2>1. /\ zreq' = zreq /\ zpending' = zpending /\ life' = life /\ (Busy(g)' <=> Busy(g))
    BY DEF zVars, Busy
  <2>2. Counted(<<g, "local">>)' <=> Counted(<<g, "local">>)
    BY <1>0, <1>1, <1>2 DEF Counted, Locked, GetInv, GetStage
  <2> QED BY <1>0, <1>1, <1>2, <2>1, <2>2, CountsStep DEF IInv
<1>6. GetStage(g)'
  BY <1>0, <1>1, <1>2, <1>3 DEF GetInv, GetStage, Untold, Returned, Called, Outcomes
<1>7. Called(g, "ok")' => BlockOf[g] \in local' \cup remote'
  BY <1>3 DEF Called
<1>8. refCount'[g] = (IF Copying(g)' THEN 1 ELSE 0) + (IF Using(g)' THEN 1 ELSE 0)
  <2>1. zreq'[g] = "called" /\ g \notin holding' /\ ~Using(g)
    BY <1>0, <1>3, UntoldGet DEF zVars
  <2>2. ~Copying(g) /\ ~Copying(g)' /\ ~Using(g)'
    BY <1>0, <1>1, <1>2, <2>1 DEF GetInv, GetStage, Copying, Using
  <2> QED BY <1>0, <1>4, <2>1, <2>2 DEF GetInv
<1> QED BY <1>1, <1>2, <1>3, <1>4, <1>5, <1>6, <1>7, <1>8, <1>0, GetStep

(* Lines 484 to 492: the remote store refuses. *)
LEMMA RemoteRefusesGetStep ==
  ASSUME IInv, NEW g \in Gets, RemoteRefusesGet(g), UNCHANGED zVars
  PROVE  IInv'
<1>0. g \in Requests /\ GetInv(g) /\ <<g, "local">> \in Items /\ <<g, "remote">> \in Items
  BY ItemsOf DEF Requests, IInv
<1>1. /\ item' \in [Items -> Stages]
      /\ item'[<<g, "local">>] = "behind"
      /\ item'[<<g, "remote">>] = "answering"
      /\ item'[<<g, "copy">>] = item[<<g, "copy">>]
      /\ \A j \in Items : j[1] # g => item'[j] = item[j]
      /\ \A j \in Items \ {<<g, "local">>, <<g, "remote">>} : Counted(j)' <=> Counted(j)
  <2>1. /\ Move2(<<g, "local">>, "behind", <<g, "remote">>, "answering") /\ item \in [Items -> Stages]
        /\ "behind" \in Stages /\ "answering" \in Stages
    BY DEF RemoteRefusesGet, IInv, TypeOK, CacheTypeOK, Stages
  <2> QED BY <2>1, LocalRemoteMove
<1>2. /\ item[<<g, "local">>] = "inner" /\ item[<<g, "remote">>] = "called"
      /\ pending' = pending
      /\ UNCHANGED <<flushVars, remote, putVars, ask>>
      /\ local \subseteq local' /\ local' \subseteq Hashes
  BY DEF RemoteRefusesGet, IInv, TypeOK, CacheTypeOK, storeVars
<1>3. /\ Untold(g) /\ item[<<g, "local">>] # "none"
      /\ told' \in [Requests -> Seq(Tellings)] /\ Called(g, "err")'
      /\ \A q \in Requests \ {g} : told'[q] = told[q]
  <2>1. Untold(g) /\ item[<<g, "local">>] # "none"
    BY <1>0, <1>2 DEF GetInv, GetStage
  <2>2. told \in [Requests -> Seq(Tellings)] /\ Tell(g, "call", "err")
    BY DEF RemoteRefusesGet, IInv, TypeOK, CacheTypeOK, Tellings
  <2> QED BY <1>0, <2>1, <2>2, TellFirst DEF Called, Outcomes
<1>4. refCount' = refCount /\ refCount \in [Gets -> Int]
  <2>1. refCount' = refCount /\ refCount \in [Gets -> 0..2]
    BY DEF RemoteRefusesGet, IInv, TypeOK, CacheTypeOK
  <2> QED BY <2>1
<1>5. PendingCountsRequests' /\ pending' \in Nat
  <2>1. /\ zreq' = zreq /\ zpending' = zpending /\ life' = life /\ (Busy(g)' <=> Busy(g))
    BY DEF zVars, Busy
  <2>2. \A j \in Items \ {<<g, "remote">>} : Counted(j)' <=> Counted(j)
    BY <1>0, <1>1, <1>2 DEF Counted, Locked, GetInv, GetStage
  <2>3. Counted(<<g, "remote">>)' <=> Counted(<<g, "remote">>)
    BY <1>0, <1>1, <1>2 DEF Counted, Locked, GetInv, GetStage
  <2> QED BY <1>0, <1>2, <2>1, <2>2, <2>3, CountsStep DEF IInv
<1>6. GetStage(g)'
  BY <1>0, <1>1, <1>2, <1>3 DEF GetInv, GetStage, Untold, Returned, Called, Outcomes
<1>7. Called(g, "ok")' => BlockOf[g] \in local' \cup remote'
  BY <1>3 DEF Called
<1>8. refCount'[g] = (IF Copying(g)' THEN 1 ELSE 0) + (IF Using(g)' THEN 1 ELSE 0)
  <2>1. zreq'[g] = "called" /\ g \notin holding' /\ ~Using(g)
    BY <1>0, <1>3, UntoldGet DEF zVars
  <2>2. refCount[g] = (IF Copying(g) THEN 1 ELSE 0) /\ ~Copying(g)
    BY <1>0, <1>2, <1>3, <2>1 DEF GetInv, GetStage, Copying, Called, Untold
  <2>3. ~Copying(g)' /\ ~Using(g)'
    BY <1>0, <1>1, <1>2, <1>3, <2>1 DEF Copying, Using, Called, GetInv, GetStage, Untold
  <2> QED BY <1>4, <2>2, <2>3
<1> QED BY <1>1, <1>2, <1>3, <1>4, <1>5, <1>6, <1>7, <1>8, <1>0, GetStep

(* Lines 493 to 495: it accepts. *)
LEMMA RemoteAcceptsGetStep ==
  ASSUME IInv, NEW g \in Gets, RemoteAcceptsGet(g), UNCHANGED zVars
  PROVE  IInv'
<1>0. g \in Requests /\ GetInv(g) /\ <<g, "local">> \in Items
  BY ItemsOf DEF Requests, IInv
<1>1. /\ item' \in [Items -> Stages]
      /\ item'[<<g, "local">>] = "leaving"
      /\ item'[<<g, "remote">>] = item[<<g, "remote">>]
      /\ item'[<<g, "copy">>] = item[<<g, "copy">>]
      /\ \A j \in Items : j[1] # g => item'[j] = item[j]
      /\ \A j \in Items \ {<<g, "local">>} : Counted(j)' <=> Counted(j)
  <2>1. Move(<<g, "local">>, "leaving") /\ item \in [Items -> Stages] /\ "leaving" \in Stages
    BY DEF RemoteAcceptsGet, IInv, TypeOK, CacheTypeOK, Stages
  <2> QED BY <2>1, GetLocalMoves
<1>2. /\ item[<<g, "local">>] = "inner"
      /\ pending' = pending
      /\ UNCHANGED <<flushVars, remote, putVars, ask>>
      /\ local \subseteq local' /\ local' \subseteq Hashes
  BY DEF RemoteAcceptsGet, IInv, TypeOK, CacheTypeOK, storeVars
<1>3. told' = told /\ told \in [Requests -> Seq(Tellings)]
  BY DEF RemoteAcceptsGet, IInv, TypeOK, CacheTypeOK, Tellings
<1>4. refCount' = refCount /\ refCount \in [Gets -> Int]
  <2>1. refCount' = refCount /\ refCount \in [Gets -> 0..2]
    BY DEF RemoteAcceptsGet, IInv, TypeOK, CacheTypeOK
  <2> QED BY <2>1
<1>5. PendingCountsRequests' /\ pending' \in Nat
  <2>1. /\ zreq' = zreq /\ zpending' = zpending /\ life' = life /\ (Busy(g)' <=> Busy(g))
    BY DEF zVars, Busy
  <2>2. Counted(<<g, "local">>)' <=> Counted(<<g, "local">>)
    BY <1>0, <1>1, <1>2 DEF Counted, Locked, GetInv, GetStage
  <2> QED BY <1>0, <1>1, <1>2, <2>1, <2>2, CountsStep DEF IInv
<1>6. GetStage(g)'
  BY <1>0, <1>1, <1>2, <1>3 DEF GetInv, GetStage, Untold, Returned, Called, Outcomes
<1>7. Called(g, "ok")' => BlockOf[g] \in local' \cup remote'
  BY <1>0, <1>2, <1>3 DEF GetInv, Called
<1>8. refCount'[g] = (IF Copying(g)' THEN 1 ELSE 0) + (IF Using(g)' THEN 1 ELSE 0)
  <2>1. Using(g)' <=> Using(g)
    BY <1>0, <1>1, <1>2, <1>3 DEF Using, Called, zVars, GetInv, GetStage, Untold
  <2>2. Copying(g)' <=> Copying(g)
    BY <1>0, <1>1, <1>2 DEF Copying, GetInv, GetStage
  <2> QED BY <1>0, <1>4, <2>1, <2>2 DEF GetInv
<1> QED BY <1>1, <1>2, <1>3, <1>4, <1>5, <1>6, <1>7, <1>8, <1>0, GetStep

(* The completion of the local store goes on after the refusal. *)
LEMMA LocalGoesOnStep ==
  ASSUME IInv, NEW g \in Gets, LocalGoesOn(g), UNCHANGED zVars
  PROVE  IInv'
<1>0. g \in Requests /\ GetInv(g) /\ <<g, "local">> \in Items
  BY ItemsOf DEF Requests, IInv
<1>1. /\ item' \in [Items -> Stages]
      /\ item'[<<g, "local">>] = "leaving"
      /\ item'[<<g, "remote">>] = item[<<g, "remote">>]
      /\ item'[<<g, "copy">>] = item[<<g, "copy">>]
      /\ \A j \in Items : j[1] # g => item'[j] = item[j]
      /\ \A j \in Items \ {<<g, "local">>} : Counted(j)' <=> Counted(j)
  <2>1. Move(<<g, "local">>, "leaving") /\ item \in [Items -> Stages] /\ "leaving" \in Stages
    BY DEF LocalGoesOn, IInv, TypeOK, CacheTypeOK, Stages
  <2> QED BY <2>1, GetLocalMoves
<1>2. /\ item[<<g, "local">>] = "behind" /\ item[<<g, "remote">>] = "done"
      /\ pending' = pending
      /\ UNCHANGED <<flushVars, remote, putVars, ask>>
      /\ local \subseteq local' /\ local' \subseteq Hashes
  BY DEF LocalGoesOn, IInv, TypeOK, CacheTypeOK, storeVars
<1>3. told' = told /\ told \in [Requests -> Seq(Tellings)]
  BY DEF LocalGoesOn, IInv, TypeOK, CacheTypeOK, Tellings
<1>4. refCount' = refCount /\ refCount \in [Gets -> Int]
  <2>1. refCount' = refCount /\ refCount \in [Gets -> 0..2]
    BY DEF LocalGoesOn, IInv, TypeOK, CacheTypeOK
  <2> QED BY <2>1
<1>5. PendingCountsRequests' /\ pending' \in Nat
  <2>1. /\ zreq' = zreq /\ zpending' = zpending /\ life' = life /\ (Busy(g)' <=> Busy(g))
    BY DEF zVars, Busy
  <2>2. Counted(<<g, "local">>)' <=> Counted(<<g, "local">>)
    BY <1>0, <1>1, <1>2 DEF Counted, Locked, GetInv, GetStage
  <2> QED BY <1>0, <1>1, <1>2, <2>1, <2>2, CountsStep DEF IInv
<1>6. GetStage(g)'
  BY <1>0, <1>1, <1>2, <1>3 DEF GetInv, GetStage, Untold, Returned, Called, Outcomes
<1>7. Called(g, "ok")' => BlockOf[g] \in local' \cup remote'
  BY <1>0, <1>2, <1>3 DEF GetInv, Called
<1>8. refCount'[g] = (IF Copying(g)' THEN 1 ELSE 0) + (IF Using(g)' THEN 1 ELSE 0)
  <2>1. Using(g)' <=> Using(g)
    BY <1>0, <1>1, <1>2, <1>3 DEF Using, Called, zVars, GetInv, GetStage, Untold
  <2>2. Copying(g)' <=> Copying(g)
    BY <1>0, <1>1, <1>2 DEF Copying, GetInv, GetStage
  <2> QED BY <1>0, <1>4, <2>1, <2>2 DEF GetInv
<1> QED BY <1>1, <1>2, <1>3, <1>4, <1>5, <1>6, <1>7, <1>8, <1>0, GetStep

(* Lines 402 to 409 and 416 to 427: an error is passed on. *)
LEMMA GetRemoteFailsStep ==
  ASSUME IInv, NEW g \in Gets, GetRemoteFails(g), UNCHANGED zVars
  PROVE  IInv'
<1>0. g \in Requests /\ GetInv(g) /\ <<g, "remote">> \in Items
  BY ItemsOf DEF Requests, IInv
<1>1. /\ item' \in [Items -> Stages]
      /\ item'[<<g, "remote">>] = "answering"
      /\ item'[<<g, "local">>] = item[<<g, "local">>]
      /\ item'[<<g, "copy">>] = item[<<g, "copy">>]
      /\ \A j \in Items : j[1] # g => item'[j] = item[j]
      /\ \A j \in Items \ {<<g, "remote">>} : Counted(j)' <=> Counted(j)
  <2>1. Move(<<g, "remote">>, "answering") /\ item \in [Items -> Stages] /\ "answering" \in Stages
    BY DEF GetRemoteFails, IInv, TypeOK, CacheTypeOK, Stages
  <2> QED BY <2>1, GetRemoteMoves
<1>2. /\ item[<<g, "remote">>] = "called"
      /\ pending' = pending
      /\ UNCHANGED <<flushVars, remote, putVars, ask>>
      /\ local \subseteq local' /\ local' \subseteq Hashes
  BY DEF GetRemoteFails, IInv, TypeOK, CacheTypeOK, storeVars
<1>3. /\ Untold(g) /\ item[<<g, "local">>] # "none"
      /\ told' \in [Requests -> Seq(Tellings)] /\ Called(g, "err")'
      /\ \A q \in Requests \ {g} : told'[q] = told[q]
  <2>1. Untold(g) /\ item[<<g, "local">>] # "none"
    BY <1>0, <1>2 DEF GetInv, GetStage
  <2>2. told \in [Requests -> Seq(Tellings)] /\ Tell(g, "call", "err")
    BY DEF GetRemoteFails, IInv, TypeOK, CacheTypeOK, Tellings
  <2> QED BY <1>0, <2>1, <2>2, TellFirst DEF Called, Outcomes
<1>4. refCount' = refCount /\ refCount \in [Gets -> Int]
  <2>1. refCount' = refCount /\ refCount \in [Gets -> 0..2]
    BY DEF GetRemoteFails, IInv, TypeOK, CacheTypeOK
  <2> QED BY <2>1
<1>5. PendingCountsRequests' /\ pending' \in Nat
  <2>1. /\ zreq' = zreq /\ zpending' = zpending /\ life' = life /\ (Busy(g)' <=> Busy(g))
    BY DEF zVars, Busy
  <2>2. Counted(<<g, "remote">>)' <=> Counted(<<g, "remote">>)
    BY <1>0, <1>1, <1>2 DEF Counted, Locked, GetInv, GetStage
  <2> QED BY <1>0, <1>1, <1>2, <2>1, <2>2, CountsStep DEF IInv
<1>6. GetStage(g)'
  BY <1>0, <1>1, <1>2, <1>3 DEF GetInv, GetStage, Untold, Returned, Called, Outcomes
<1>7. Called(g, "ok")' => BlockOf[g] \in local' \cup remote'
  BY <1>3 DEF Called
<1>8. refCount'[g] = (IF Copying(g)' THEN 1 ELSE 0) + (IF Using(g)' THEN 1 ELSE 0)
  <2>1. zreq'[g] = "called" /\ g \notin holding' /\ ~Using(g)
    BY <1>0, <1>3, UntoldGet DEF zVars
  <2>2. refCount[g] = (IF Copying(g) THEN 1 ELSE 0) /\ ~Copying(g)
    BY <1>0, <1>2, <1>3, <2>1 DEF GetInv, GetStage, Copying, Called, Untold
  <2>3. ~Copying(g)' /\ ~Using(g)'
    BY <1>0, <1>1, <1>2, <1>3, <2>1 DEF Copying, Using, Called, GetInv, GetStage, Untold
  <2> QED BY <1>4, <2>2, <2>3
<1> QED BY <1>1, <1>2, <1>3, <1>4, <1>5, <1>6, <1>7, <1>8, <1>0, GetStep

(* Lines 416 and 429: the block is delivered with two references. *)
LEMMA GetRemoteCompleteStep ==
  ASSUME IInv, NEW g \in Gets, GetRemoteComplete(g), UNCHANGED zVars
  PROVE  IInv'
<1>0. g \in Requests /\ GetInv(g) /\ <<g, "remote">> \in Items
  BY ItemsOf DEF Requests, IInv
<1>1. /\ item' \in [Items -> Stages]
      /\ item'[<<g, "remote">>] = "delivering"
      /\ item'[<<g, "local">>] = item[<<g, "local">>]
      /\ item'[<<g, "copy">>] = item[<<g, "copy">>]
      /\ \A j \in Items : j[1] # g => item'[j] = item[j]
      /\ \A j \in Items \ {<<g, "remote">>} : Counted(j)' <=> Counted(j)
  <2>1. Move(<<g, "remote">>, "delivering") /\ item \in [Items -> Stages] /\ "delivering" \in Stages
    BY DEF GetRemoteComplete, IInv, TypeOK, CacheTypeOK, Stages
  <2> QED BY <2>1, GetRemoteMoves
<1>2. /\ item[<<g, "remote">>] = "called" /\ BlockOf[g] \in remote
      /\ pending' = pending
      /\ UNCHANGED <<flushVars, remote, putVars, ask>>
      /\ local \subseteq local' /\ local' \subseteq Hashes
  BY DEF GetRemoteComplete, IInv, TypeOK, CacheTypeOK, storeVars
<1>3. /\ Untold(g) /\ item[<<g, "local">>] # "none"
      /\ told' \in [Requests -> Seq(Tellings)] /\ Called(g, "ok")'
      /\ \A q \in Requests \ {g} : told'[q] = told[q]
  <2>1. Untold(g) /\ item[<<g, "local">>] # "none"
    BY <1>0, <1>2 DEF GetInv, GetStage
  <2>2. told \in [Requests -> Seq(Tellings)] /\ Tell(g, "call", "ok")
    BY DEF GetRemoteComplete, IInv, TypeOK, CacheTypeOK, Tellings
  <2> QED BY <1>0, <2>1, <2>2, TellFirst DEF Called, Outcomes
<1>4. /\ refCount' \in [Gets -> Int] /\ refCount'[g] = 2
      /\ \A h \in Gets \ {g} : refCount'[h] = refCount[h]
  <2>1. refCount \in [Gets -> 0..2]
    BY DEF IInv, TypeOK, CacheTypeOK
  <2> QED BY <2>1 DEF GetRemoteComplete, DisposeCached
<1>5. PendingCountsRequests' /\ pending' \in Nat
  <2>1. /\ zreq' = zreq /\ zpending' = zpending /\ life' = life /\ (Busy(g)' <=> Busy(g))
    BY DEF zVars, Busy
  <2>2. Counted(<<g, "remote">>)' <=> Counted(<<g, "remote">>)
    BY <1>0, <1>1, <1>2 DEF Counted, Locked, GetInv, GetStage
  <2> QED BY <1>0, <1>1, <1>2, <2>1, <2>2, CountsStep DEF IInv
<1>6. GetStage(g)'
  BY <1>0, <1>1, <1>2, <1>3 DEF GetInv, GetStage, Untold, Returned, Called, Outcomes
<1>7. Called(g, "ok")' => BlockOf[g] \in local' \cup remote'
  BY <1>2
<1>8. refCount'[g] = (IF Copying(g)' THEN 1 ELSE 0) + (IF Using(g)' THEN 1 ELSE 0)
  <2>1. zreq'[g] = "called" /\ g \notin holding' /\ ~Using(g)
    BY <1>0, <1>3, UntoldGet DEF zVars
  <2>2. refCount[g] = (IF Copying(g) THEN 1 ELSE 0) /\ ~Copying(g)
    BY <1>0, <1>2, <1>3, <2>1 DEF GetInv, GetStage, Copying, Called, Untold
  <2>3. Copying(g)' /\ Using(g)'
    BY <1>0, <1>1, <1>2, <1>3, <2>1 DEF Copying, Using, Called, GetInv, GetStage, Untold
  <2> QED BY <1>4, <2>2, <2>3
<1> QED BY <1>1, <1>2, <1>3, <1>4, <1>5, <1>6, <1>7, <1>8, <1>0, GetStep

(* StoreBlockCopyToLocalCache: the local store is given the block. *)
LEMMA CopyToLocalStep ==
  ASSUME IInv, NEW g \in Gets, CopyToLocal(g), UNCHANGED zVars
  PROVE  IInv'
<1>0. g \in Requests /\ GetInv(g) /\ <<g, "remote">> \in Items /\ <<g, "copy">> \in Items
  BY ItemsOf DEF Requests, IInv
<1>1. /\ item' \in [Items -> Stages]
      /\ item'[<<g, "remote">>] = "inner"
      /\ item'[<<g, "copy">>] = "called"
      /\ item'[<<g, "local">>] = item[<<g, "local">>]
      /\ \A j \in Items : j[1] # g => item'[j] = item[j]
      /\ \A j \in Items \ {<<g, "remote">>, <<g, "copy">>} : Counted(j)' <=> Counted(j)
  <2>1. /\ Move2(<<g, "remote">>, "inner", <<g, "copy">>, "called") /\ item \in [Items -> Stages]
        /\ "inner" \in Stages /\ "called" \in Stages
    BY DEF CopyToLocal, IInv, TypeOK, CacheTypeOK, Stages
  <2> QED BY <2>1, RemoteCopyMove
<1>2. /\ item[<<g, "remote">>] = "delivering"
      /\ pending' = pending + 1
      /\ UNCHANGED <<flushVars, remote, putVars, ask>>
      /\ local \subseteq local' /\ local' \subseteq Hashes
  BY DEF CopyToLocal, IInv, TypeOK, CacheTypeOK, storeVars
<1>3. told' = told /\ told \in [Requests -> Seq(Tellings)]
  BY DEF CopyToLocal, IInv, TypeOK, CacheTypeOK, Tellings
<1>4. refCount' = refCount /\ refCount \in [Gets -> Int]
  <2>1. refCount' = refCount /\ refCount \in [Gets -> 0..2]
    BY DEF CopyToLocal, IInv, TypeOK, CacheTypeOK
  <2> QED BY <2>1
<1>5. PendingCountsRequests' /\ pending' \in Nat
  <2>1. /\ zreq' = zreq /\ zpending' = zpending /\ life' = life /\ (Busy(g)' <=> Busy(g))
    BY DEF zVars, Busy
  <2>2. \A j \in Items \ {<<g, "copy">>} : Counted(j)' <=> Counted(j)
    BY <1>0, <1>1, <1>2 DEF Counted, Locked
  <2>3. Counted(<<g, "copy">>)' /\ ~Counted(<<g, "copy">>) /\ Counted(<<g, "remote">>)
    BY <1>0, <1>1, <1>2 DEF Counted, Locked, GetInv, GetStage
  <2>4. life # "disposed"
    BY <1>0, <2>3 DEF IInv, PendingCountsRequests
  <2>5. /\ Counted(<<g, "copy">>)' /\ ~Counted(<<g, "copy">>) => pending' = pending + 1
        /\ \A q \in Requests \ {g} : zreq'[q] = zreq[q]
    BY <1>2, <2>1
  <2> QED BY <1>0, <2>1, <2>2, <2>3, <2>4, <2>5, CountsStep DEF IInv
<1>6. GetStage(g)'
  BY <1>0, <1>1, <1>2, <1>3 DEF GetInv, GetStage, Untold, Returned, Called, Outcomes
<1>7. Called(g, "ok")' => BlockOf[g] \in local' \cup remote'
  BY <1>0, <1>2, <1>3 DEF GetInv, Called
<1>8. refCount'[g] = (IF Copying(g)' THEN 1 ELSE 0) + (IF Using(g)' THEN 1 ELSE 0)
  <2>1. Using(g)' <=> Using(g)
    BY <1>0, <1>1, <1>2, <1>3 DEF Using, Called, zVars, GetInv, GetStage, Untold
  <2>2. Copying(g)' <=> Copying(g)
    BY <1>0, <1>1, <1>2 DEF Copying, GetInv, GetStage
  <2> QED BY <1>0, <1>4, <2>1, <2>2 DEF GetInv
<1> QED BY <1>1, <1>2, <1>3, <1>4, <1>5, <1>6, <1>7, <1>8, <1>0, GetStep

(* Lines 369 to 375: no memory for the copy. *)
LEMMA CopyNoMemoryStep ==
  ASSUME IInv, NEW g \in Gets, CopyNoMemory(g), UNCHANGED zVars
  PROVE  IInv'
<1>0. g \in Requests /\ GetInv(g) /\ <<g, "remote">> \in Items
  BY ItemsOf DEF Requests, IInv
<1>1. /\ item' \in [Items -> Stages]
      /\ item'[<<g, "remote">>] = "leaving"
      /\ item'[<<g, "local">>] = item[<<g, "local">>]
      /\ item'[<<g, "copy">>] = item[<<g, "copy">>]
      /\ \A j \in Items : j[1] # g => item'[j] = item[j]
      /\ \A j \in Items \ {<<g, "remote">>} : Counted(j)' <=> Counted(j)
  <2>1. Move(<<g, "remote">>, "leaving") /\ item \in [Items -> Stages] /\ "leaving" \in Stages
    BY DEF CopyNoMemory, IInv, TypeOK, CacheTypeOK, Stages
  <2> QED BY <2>1, GetRemoteMoves
<1>2. /\ item[<<g, "remote">>] = "delivering"
      /\ pending' = pending
      /\ UNCHANGED <<flushVars, remote, putVars, ask>>
      /\ local \subseteq local' /\ local' \subseteq Hashes
  BY DEF CopyNoMemory, IInv, TypeOK, CacheTypeOK, storeVars
<1>3. told' = told /\ told \in [Requests -> Seq(Tellings)]
  BY DEF CopyNoMemory, IInv, TypeOK, CacheTypeOK, Tellings
<1>4. /\ refCount' \in [Gets -> Int] /\ refCount'[g] = refCount[g] - 1
      /\ \A h \in Gets \ {g} : refCount'[h] = refCount[h]
  <2>1. refCount \in [Gets -> 0..2]
    BY DEF IInv, TypeOK, CacheTypeOK
  <2> QED BY <2>1 DEF CopyNoMemory, DisposeCached
<1>5. PendingCountsRequests' /\ pending' \in Nat
  <2>1. /\ zreq' = zreq /\ zpending' = zpending /\ life' = life /\ (Busy(g)' <=> Busy(g))
    BY DEF zVars, Busy
  <2>2. Counted(<<g, "remote">>)' <=> Counted(<<g, "remote">>)
    BY <1>0, <1>1, <1>2 DEF Counted, Locked, GetInv, GetStage
  <2> QED BY <1>0, <1>1, <1>2, <2>1, <2>2, CountsStep DEF IInv
<1>6. GetStage(g)'
  BY <1>0, <1>1, <1>2, <1>3 DEF GetInv, GetStage, Untold, Returned, Called, Outcomes
<1>7. Called(g, "ok")' => BlockOf[g] \in local' \cup remote'
  BY <1>0, <1>2, <1>3 DEF GetInv, Called
<1>8. refCount'[g] = (IF Copying(g)' THEN 1 ELSE 0) + (IF Using(g)' THEN 1 ELSE 0)
  <2>1. Using(g)' <=> Using(g)
    BY <1>0, <1>1, <1>2, <1>3 DEF Using, Called, zVars, GetInv, GetStage, Untold
  <2>2. Copying(g) /\ ~Copying(g)'
    BY <1>0, <1>1, <1>2 DEF Copying, GetInv, GetStage
  <2> QED BY <1>0, <1>4, <2>1, <2>2 DEF GetInv
<1> QED BY <1>1, <1>2, <1>3, <1>4, <1>5, <1>6, <1>7, <1>8, <1>0, GetStep

(* Lines 383 to 392: the local store refuses the copy. *)
LEMMA LocalRefusesCopyStep ==
  ASSUME IInv, NEW g \in Gets, LocalRefusesCopy(g), UNCHANGED zVars
  PROVE  IInv'
<1>0. g \in Requests /\ GetInv(g) /\ <<g, "remote">> \in Items /\ <<g, "copy">> \in Items
  BY ItemsOf DEF Requests, IInv
<1>1. /\ item' \in [Items -> Stages]
      /\ item'[<<g, "remote">>] = "behind"
      /\ item'[<<g, "copy">>] = "leaving"
      /\ item'[<<g, "local">>] = item[<<g, "local">>]
      /\ \A j \in Items : j[1] # g => item'[j] = item[j]
      /\ \A j \in Items \ {<<g, "remote">>, <<g, "copy">>} : Counted(j)' <=> Counted(j)
  <2>1. /\ Move2(<<g, "remote">>, "behind", <<g, "copy">>, "leaving") /\ item \in [Items -> Stages]
        /\ "behind" \in Stages /\ "leaving" \in Stages
    BY DEF LocalRefusesCopy, IInv, TypeOK, CacheTypeOK, Stages
  <2> QED BY <2>1, RemoteCopyMove
<1>2. /\ item[<<g, "remote">>] = "inner" /\ item[<<g, "copy">>] = "called"
      /\ pending' = pending
      /\ UNCHANGED <<flushVars, remote, putVars, ask>>
      /\ local \subseteq local' /\ local' \subseteq Hashes
  BY DEF LocalRefusesCopy, IInv, TypeOK, CacheTypeOK, storeVars
<1>3. told' = told /\ told \in [Requests -> Seq(Tellings)]
  BY DEF LocalRefusesCopy, IInv, TypeOK, CacheTypeOK, Tellings
<1>4. refCount' = refCount /\ refCount \in [Gets -> Int]
  <2>1. refCount' = refCount /\ refCount \in [Gets -> 0..2]
    BY DEF LocalRefusesCopy, IInv, TypeOK, CacheTypeOK
  <2> QED BY <2>1
<1>5. PendingCountsRequests' /\ pending' \in Nat
  <2>1. /\ zreq' = zreq /\ zpending' = zpending /\ life' = life /\ (Busy(g)' <=> Busy(g))
    BY DEF zVars, Busy
  <2>2. \A j \in Items \ {<<g, "copy">>} : Counted(j)' <=> Counted(j)
    BY <1>0, <1>1, <1>2 DEF Counted, Locked, GetInv, GetStage
  <2>3. Counted(<<g, "copy">>)' <=> Counted(<<g, "copy">>)
    BY <1>0, <1>1, <1>2 DEF Counted, Locked, GetInv, GetStage
  <2> QED BY <1>0, <1>2, <2>1, <2>2, <2>3, CountsStep DEF IInv
<1>6. GetStage(g)'
  BY <1>0, <1>1, <1>2, <1>3 DEF GetInv, GetStage, Untold, Returned, Called, Outcomes
<1>7. Called(g, "ok")' => BlockOf[g] \in local' \cup remote'
  BY <1>0, <1>2, <1>3 DEF GetInv, Called
<1>8. refCount'[g] = (IF Copying(g)' THEN 1 ELSE 0) + (IF Using(g)' THEN 1 ELSE 0)
  <2>1. Using(g)' <=> Using(g)
    BY <1>0, <1>1, <1>2, <1>3 DEF Using, Called, zVars, GetInv, GetStage, Untold
  <2>2. Copying(g)' <=> Copying(g)
    BY <1>0, <1>1, <1>2 DEF Copying, GetInv, GetStage
  <2> QED BY <1>0, <1>4, <2>1, <2>2 DEF GetInv
<1> QED BY <1>1, <1>2, <1>3, <1>4, <1>5, <1>6, <1>7, <1>8, <1>0, GetStep

(* Lines 434 to 443: the reference of the refused copy is given back. *)
LEMMA RemoteGoesOnStep ==
  ASSUME IInv, NEW g \in Gets, RemoteGoesOn(g), UNCHANGED zVars
  PROVE  IInv'
<1>0. g \in Requests /\ GetInv(g) /\ <<g, "remote">> \in Items
  BY ItemsOf DEF Requests, IInv
<1>1. /\ item' \in [Items -> Stages]
      /\ item'[<<g, "remote">>] = "leaving"
      /\ item'[<<g, "local">>] = item[<<g, "local">>]
      /\ item'[<<g, "copy">>] = item[<<g, "copy">>]
      /\ \A j \in Items : j[1] # g => item'[j] = item[j]
      /\ \A j \in Items \ {<<g, "remote">>} : Counted(j)' <=> Counted(j)
  <2>1. Move(<<g, "remote">>, "leaving") /\ item \in [Items -> Stages] /\ "leaving" \in Stages
    BY DEF RemoteGoesOn, IInv, TypeOK, CacheTypeOK, Stages
  <2> QED BY <2>1, GetRemoteMoves
<1>2. /\ item[<<g, "remote">>] = "behind" /\ item[<<g, "copy">>] = "done"
      /\ pending' = pending
      /\ UNCHANGED <<flushVars, remote, putVars, ask>>
      /\ local \subseteq local' /\ local' \subseteq Hashes
  BY DEF RemoteGoesOn, IInv, TypeOK, CacheTypeOK, storeVars
<1>3. told' = told /\ told \in [Requests -> Seq(Tellings)]
  BY DEF RemoteGoesOn, IInv, TypeOK, CacheTypeOK, Tellings
<1>4. /\ refCount' \in [Gets -> Int] /\ refCount'[g] = refCount[g] - 1
      /\ \A h \in Gets \ {g} : refCount'[h] = refCount[h]
  <2>1. refCount \in [Gets -> 0..2]
    BY DEF IInv, TypeOK, CacheTypeOK
  <2> QED BY <2>1 DEF RemoteGoesOn, DisposeCached
<1>5. PendingCountsRequests' /\ pending' \in Nat
  <2>1. /\ zreq' = zreq /\ zpending' = zpending /\ life' = life /\ (Busy(g)' <=> Busy(g))
    BY DEF zVars, Busy
  <2>2. Counted(<<g, "remote">>)' <=> Counted(<<g, "remote">>)
    BY <1>0, <1>1, <1>2 DEF Counted, Locked, GetInv, GetStage
  <2> QED BY <1>0, <1>1, <1>2, <2>1, <2>2, CountsStep DEF IInv
<1>6. GetStage(g)'
  BY <1>0, <1>1, <1>2, <1>3 DEF GetInv, GetStage, Untold, Returned, Called, Outcomes
<1>7. Called(g, "ok")' => BlockOf[g] \in local' \cup remote'
  BY <1>0, <1>2, <1>3 DEF GetInv, Called
<1>8. refCount'[g] = (IF Copying(g)' THEN 1 ELSE 0) + (IF Using(g)' THEN 1 ELSE 0)
  <2>1. Using(g)' <=> Using(g)
    BY <1>0, <1>1, <1>2, <1>3 DEF Using, Called, zVars, GetInv, GetStage, Untold
  <2>2. Copying(g) /\ ~Copying(g)'
    BY <1>0, <1>1, <1>2 DEF Copying, GetInv, GetStage
  <2> QED BY <1>0, <1>4, <2>1, <2>2 DEF GetInv
<1> QED BY <1>1, <1>2, <1>3, <1>4, <1>5, <1>6, <1>7, <1>8, <1>0, GetStep

(* The local store accepts the copy. *)
LEMMA LocalAcceptsCopyStep ==
  ASSUME IInv, NEW g \in Gets, LocalAcceptsCopy(g), UNCHANGED zVars
  PROVE  IInv'
<1>0. g \in Requests /\ GetInv(g) /\ <<g, "remote">> \in Items
  BY ItemsOf DEF Requests, IInv
<1>1. /\ item' \in [Items -> Stages]
      /\ item'[<<g, "remote">>] = "leaving"
      /\ item'[<<g, "local">>] = item[<<g, "local">>]
      /\ item'[<<g, "copy">>] = item[<<g, "copy">>]
      /\ \A j \in Items : j[1] # g => item'[j] = item[j]
      /\ \A j \in Items \ {<<g, "remote">>} : Counted(j)' <=> Counted(j)
  <2>1. Move(<<g, "remote">>, "leaving") /\ item \in [Items -> Stages] /\ "leaving" \in Stages
    BY DEF LocalAcceptsCopy, IInv, TypeOK, CacheTypeOK, Stages
  <2> QED BY <2>1, GetRemoteMoves
<1>2. /\ item[<<g, "remote">>] = "inner"
      /\ pending' = pending
      /\ UNCHANGED <<flushVars, remote, putVars, ask>>
      /\ local \subseteq local' /\ local' \subseteq Hashes
  BY DEF LocalAcceptsCopy, IInv, TypeOK, CacheTypeOK, storeVars
<1>3. told' = told /\ told \in [Requests -> Seq(Tellings)]
  BY DEF LocalAcceptsCopy, IInv, TypeOK, CacheTypeOK, Tellings
<1>4. refCount' = refCount /\ refCount \in [Gets -> Int]
  <2>1. refCount' = refCount /\ refCount \in [Gets -> 0..2]
    BY DEF LocalAcceptsCopy, IInv, TypeOK, CacheTypeOK
  <2> QED BY <2>1
<1>5. PendingCountsRequests' /\ pending' \in Nat
  <2>1. /\ zreq' = zreq /\ zpending' = zpending /\ life' = life /\ (Busy(g)' <=> Busy(g))
    BY DEF zVars, Busy
  <2>2. Counted(<<g, "remote">>)' <=> Counted(<<g, "remote">>)
    BY <1>0, <1>1, <1>2 DEF Counted, Locked, GetInv, GetStage
  <2> QED BY <1>0, <1>1, <1>2, <2>1, <2>2, CountsStep DEF IInv
<1>6. GetStage(g)'
  BY <1>0, <1>1, <1>2, <1>3 DEF GetInv, GetStage, Untold, Returned, Called, Outcomes
<1>7. Called(g, "ok")' => BlockOf[g] \in local' \cup remote'
  BY <1>0, <1>2, <1>3 DEF GetInv, Called
<1>8. refCount'[g] = (IF Copying(g)' THEN 1 ELSE 0) + (IF Using(g)' THEN 1 ELSE 0)
  <2>1. Using(g)' <=> Using(g)
    BY <1>0, <1>1, <1>2, <1>3 DEF Using, Called, zVars, GetInv, GetStage, Untold
  <2>2. Copying(g)' <=> Copying(g)
    BY <1>0, <1>1, <1>2 DEF Copying, GetInv, GetStage
  <2> QED BY <1>0, <1>4, <2>1, <2>2 DEF GetInv
<1> QED BY <1>1, <1>2, <1>3, <1>4, <1>5, <1>6, <1>7, <1>8, <1>0, GetStep

(* OnGetStoredBlockPutLocalComplete *)
LEMMA CopyCompleteStep ==
  ASSUME IInv, NEW g \in Gets, NEW e \in Outcomes, CopyComplete(g, e), UNCHANGED zVars
  PROVE  IInv'
<1>0. g \in Requests /\ GetInv(g) /\ <<g, "copy">> \in Items
  BY ItemsOf DEF Requests, IInv
<1>1. /\ item' \in [Items -> Stages]
      /\ item'[<<g, "copy">>] = "leaving"
      /\ item'[<<g, "local">>] = item[<<g, "local">>]
      /\ item'[<<g, "remote">>] = item[<<g, "remote">>]
      /\ \A j \in Items : j[1] # g => item'[j] = item[j]
      /\ \A j \in Items \ {<<g, "copy">>} : Counted(j)' <=> Counted(j)
  <2>1. Move(<<g, "copy">>, "leaving") /\ item \in [Items -> Stages] /\ "leaving" \in Stages
    BY DEF CopyComplete, IInv, TypeOK, CacheTypeOK, Stages
  <2> QED BY <2>1, GetCopyMoves
<1>2. /\ item[<<g, "copy">>] = "called"
      /\ pending' = pending
      /\ UNCHANGED <<flushVars, remote, putVars, ask>>
      /\ local \subseteq local' /\ local' \subseteq Hashes
  <2>1. BlockOf[g] \in Hashes /\ local \subseteq Hashes
    BY <1>0, BlockOfType DEF IInv, TypeOK, CacheTypeOK
  <2>2. local \subseteq local' /\ local' \subseteq Hashes
    BY <2>1 DEF CopyComplete
  <2> QED BY <2>2 DEF CopyComplete
<1>3. told' = told /\ told \in [Requests -> Seq(Tellings)]
  BY DEF CopyComplete, IInv, TypeOK, CacheTypeOK, Tellings
<1>4. /\ refCount' \in [Gets -> Int] /\ refCount'[g] = refCount[g] - 1
      /\ \A h \in Gets \ {g} : refCount'[h] = refCount[h]
  <2>1. refCount \in [Gets -> 0..2]
    BY DEF IInv, TypeOK, CacheTypeOK
  <2> QED BY <2>1 DEF CopyComplete, DisposeCached
<1>5. PendingCountsRequests' /\ pending' \in Nat
  <2>1. /\ zreq' = zreq /\ zpending' = zpending /\ life' = life /\ (Busy(g)' <=> Busy(g))
    BY DEF zVars, Busy
  <2>2. Counted(<<g, "copy">>)' <=> Counted(<<g, "copy">>)
    BY <1>0, <1>1, <1>2 DEF Counted, Locked, GetInv, GetStage
  <2> QED BY <1>0, <1>1, <1>2, <2>1, <2>2, CountsStep DEF IInv
<1>6. GetStage(g)'
  BY <1>0, <1>1, <1>2, <1>3 DEF GetInv, GetStage, Untold, Returned, Called, Outcomes
<1>7. Called(g, "ok")' => BlockOf[g] \in local' \cup remote'
  BY <1>0, <1>2, <1>3 DEF GetInv, Called
<1>8. refCount'[g] = (IF Copying(g)' THEN 1 ELSE 0) + (IF Using(g)' THEN 1 ELSE 0)
  <2>1. Using(g)' <=> Using(g)
    BY <1>0, <1>1, <1>2, <1>3 DEF Using, Called, zVars, GetInv, GetStage, Untold
  <2>2. Copying(g) /\ ~Copying(g)'
    BY <1>0, <1>1, <1>2 DEF Copying, GetInv, GetStage
  <2> QED BY <1>0, <1>4, <2>1, <2>2 DEF GetInv
<1> QED BY <1>1, <1>2, <1>3, <1>4, <1>5, <1>6, <1>7, <1>8, <1>0, GetStep

--------------------------------------------------------------------------------
(* The end of a completion, and flushes. *)

(* A completion whose caller has returned to it, or that completes its     *)
(* request, changes nothing that the invariant says of requests.           *)
LEMMA ItemGoesOn ==
  ASSUME IInv, NEW i \in Items, NEW s \in {"leaving", "emptied", "unlocking", "done"},
         item[i] \in {"answering", "leaving", "emptied", "unlocking"},
         Move(i, s), UNCHANGED <<storeVars, putVars, refCount, told, zVars>>
  PROVE  /\ item' \in [Items -> Stages] /\ item'[i] = s
         /\ \A j \in Items \ {i} : Counted(j)' <=> Counted(j)
         /\ \A p \in Puts : PutInv(p)'
         /\ \A g \in Gets : GetInv(g)'
         /\ Made' = Made
<1>1. item \in [Items -> Stages] /\ s \in Stages
  BY DEF IInv, TypeOK, CacheTypeOK, Stages
<1>2. /\ item' \in [Items -> Stages] /\ item'[i] = s
      /\ \A j \in Items : j # i => item'[j] = item[j]
      /\ \A j \in Items \ {i} : Counted(j)' <=> Counted(j)
  BY <1>1, Moved DEF Counted, Locked
<1>3. i[1] \in Requests
  BY ItemsOf
<1>4. OnlyOf(i[1])
  BY <1>2 DEF OnlyOf, storeVars, putVars, zVars
<1>5. ASSUME NEW p \in Puts PROVE PutInv(p)'
  <2>1. CASE p # i[1]
    BY <1>3, <1>4, <2>1, PutFrame DEF IInv, storeVars
  <2>2. CASE i = <<p, "remote">>
    <3>1. /\ item'[<<p, "remote">>] = s
          /\ item'[<<p, "local">>] = item[<<p, "local">>]
      BY <1>2, <2>2, ItemsOf
    <3>2. PutStage(p)'
      BY <2>2, <3>1 DEF IInv, PutInv, PutStage, Untold, Returned, Called, putVars
    <3> QED BY <3>2 DEF IInv, PutInv, PutCall, Returned, Called, putVars, zVars, storeVars
  <2>3. CASE i = <<p, "local">>
    <3>1. /\ item'[<<p, "local">>] = s
          /\ item'[<<p, "remote">>] = item[<<p, "remote">>]
      BY <1>2, <2>3, ItemsOf
    <3>2. PutStage(p)'
      BY <2>3, <3>1 DEF IInv, PutInv, PutStage, Untold, Returned, Called, putVars
    <3> QED BY <3>2 DEF IInv, PutInv, PutCall, Returned, Called, putVars, zVars, storeVars
  <2> QED BY <2>1, <2>2, <2>3, ItemCases, ItemsOf
<1>6. ASSUME NEW g \in Gets PROVE GetInv(g)'
  <2>1. CASE g # i[1]
    BY <1>3, <1>4, <2>1, GetFrame DEF IInv, storeVars
  <2>2. CASE i = <<g, "local">>
    <3>1. /\ item'[<<g, "local">>] = s
          /\ item'[<<g, "remote">>] = item[<<g, "remote">>]
          /\ item'[<<g, "copy">>] = item[<<g, "copy">>]
      BY <1>2, <2>2, ItemsOf
    <3>2. GetStage(g)'
      BY <2>2, <3>1, ZenonT(40) DEF IInv, GetInv, GetStage, Untold, Returned, Called
    <3>3. GetCall(g)'
      BY <2>2, <3>1 DEF IInv, GetInv, GetCall, Untold, Returned, Called, zVars
    <3>4. (Copying(g)' <=> Copying(g)) /\ (Using(g)' <=> Using(g))
      BY <3>1 DEF Copying, Using, Called, zVars
    <3> QED BY <3>2, <3>3, <3>4 DEF IInv, GetInv, Called, zVars, storeVars
  <2>3. CASE i = <<g, "remote">>
    <3>1. /\ item'[<<g, "remote">>] = s
          /\ item'[<<g, "local">>] = item[<<g, "local">>]
          /\ item'[<<g, "copy">>] = item[<<g, "copy">>]
      BY <1>2, <2>3, ItemsOf
    <3>2. GetStage(g)'
      BY <2>3, <3>1 DEF IInv, GetInv, GetStage, Untold, Returned, Called, Outcomes
    <3>3. GetCall(g)'
      BY <3>1 DEF IInv, GetInv, GetCall, Untold, Returned, Called, zVars
    <3>4. (Copying(g)' <=> Copying(g)) /\ (Using(g)' <=> Using(g))
      BY <2>3, <3>1 DEF Copying, Using, Called, zVars
    <3> QED BY <3>2, <3>3, <3>4 DEF IInv, GetInv, Called, zVars, storeVars
  <2>4. CASE i = <<g, "copy">>
    <3>1. /\ item'[<<g, "copy">>] = s
          /\ item'[<<g, "local">>] = item[<<g, "local">>]
          /\ item'[<<g, "remote">>] = item[<<g, "remote">>]
      BY <1>2, <2>4, ItemsOf
    <3>2. GetStage(g)'
      BY <2>4, <3>1 DEF IInv, GetInv, GetStage, Untold, Returned, Called
    <3>3. GetCall(g)'
      BY <3>1 DEF IInv, GetInv, GetCall, Untold, Returned, Called, zVars
    <3>4. (Copying(g)' <=> Copying(g)) /\ (Using(g)' <=> Using(g))
      BY <2>4, <3>1 DEF Copying, Using, Called, zVars
    <3> QED BY <3>2, <3>3, <3>4 DEF IInv, GetInv, Called, zVars, storeVars
  <2> QED BY <2>1, <2>2, <2>3, <2>4, ItemCases, ItemsOf
<1>7. Made' = Made
  <2>1. \A g \in Gets : item'[<<g, "local">>] = "none" <=> item[<<g, "local">>] = "none"
    BY <1>2, ItemsOf
  <2> QED BY <2>1 DEF Made, putVars
<1> QED BY <1>2, <1>5, <1>6, <1>7

(* The caller's OnComplete returns. *)
LEMMA AnswerReturnsStep ==
  ASSUME IInv, NEW i \in Items, AnswerReturns(i), UNCHANGED zVars
  PROVE  IInv'
<1>1. /\ item[i] = "answering" /\ Move(i, "leaving")
      /\ UNCHANGED <<pending, flushVars, storeVars, putVars, refCount, told, ask, zVars>>
  BY DEF AnswerReturns
<1>2. /\ item' \in [Items -> Stages] /\ item'[i] = "leaving"
      /\ \A j \in Items \ {i} : Counted(j)' <=> Counted(j)
      /\ \A p \in Puts : PutInv(p)'
      /\ \A g \in Gets : GetInv(g)'
      /\ Made' = Made
  BY <1>1, ItemGoesOn
<1>3. PendingCountsRequests'
  <2>1. Counted(i)' <=> Counted(i)
    BY <1>1, <1>2 DEF Counted, Locked
  <2>2. i[1] \in Requests
    BY ItemsOf
  <2> QED BY <1>1, <1>2, <2>1, <2>2, CountsStep DEF IInv, Busy, zVars
<1>4. TypeOK'
  BY <1>1, <1>2 DEF IInv, TypeOK, CacheTypeOK, zVars, zflushVars, flushVars, storeVars, putVars
<1>5. Flushing' /\ ZFlushing' /\ Asking'
  <2>1. Flushing'
    BY <1>1, <1>2 DEF IInv, Flushing, flushVars, Untold
  <2>2. ZFlushing'
    BY <1>1 DEF IInv, ZFlushing, zflushVars, zVars
  <2> QED BY <1>1, <2>1, <2>2, AskFrame DEF IInv, storeVars
<1> QED BY <1>2, <1>3, <1>4, <1>5 DEF IInv

(* When every completion that is left has only to complete its request,    *)
(* every call that was made has been told its outcome.                     *)
LEMMA MadeTold ==
  ASSUME IInv, \A j \in Items : Counted(j) => item[j] = "leaving"
  PROVE  \A r \in Made : ~Untold(r)
<1>0. ASSUME NEW r \in Requests
      PROVE  /\ Returned(r) => ~Untold(r)
             /\ \A e \in Outcomes : Called(r, e) => ~Untold(r)
  BY DEF Returned, Called, Untold
<1>1. ASSUME NEW p \in Puts, put[p] = "returned" PROVE ~Untold(p)
  <2>1. item[<<p, "remote">>] # "called" /\ item[<<p, "local">>] # "called"
    BY ItemsOf DEF Counted, Locked
  <2>2. remoteErr[p] \in Outcomes /\ p \in Requests
    BY DEF IInv, TypeOK, CacheTypeOK, Requests
  <2>3. Returned(p) \/ Called(p, remoteErr[p])
    BY <1>1, <2>1 DEF IInv, PutInv, PutStage
  <2> QED BY <1>0, <2>2, <2>3
<1>2. ASSUME NEW g \in Gets, item[<<g, "local">>] # "none" PROVE ~Untold(g)
  <2>1. /\ item[<<g, "local">>] \in {"none", "leaving", "emptied", "unlocking", "done"}
        /\ item[<<g, "remote">>] \in {"none", "leaving", "emptied", "unlocking", "done"}
    BY ItemsOf DEF Counted, Locked
  <2>2. \E e \in Outcomes : Called(g, e)
    BY <1>2, <2>1 DEF IInv, GetInv, GetStage, Outcomes
  <2> QED BY <1>0, <2>2 DEF Requests
<1> QED BY <1>1, <1>2 DEF Made

(* A count of 0 means that nothing is counted. *)
LEMMA NoneCounted ==
  ASSUME PendingCountsRequests
  PROVE  /\ pending = 0 => \A j \in Items : ~Counted(j)
         /\ zpending = 0 => \A r \in Requests : ~Busy(r)
<1>1. IsFiniteSet(CountedItems) /\ IsFiniteSet(InFlight)
  BY ItemsFinite, FS_Subset DEF CountedItems, InFlight
<1>2. pending = Cardinality(CountedItems) /\ zpending = Cardinality(InFlight)
  BY DEF PendingCountsRequests, CountedItems
<1>3. pending = 0 => CountedItems = {}
  BY <1>1, <1>2, FS_EmptySet
<1>4. zpending = 0 => InFlight = {}
  BY <1>1, <1>2, FS_EmptySet
<1> QED BY <1>3, <1>4 DEF CountedItems, InFlight, Busy

(* CacheBlockStore_CompleteRequest up to its decrement. *)
LEMMA CompleteRequestStep ==
  ASSUME IInv, NEW i \in Items, CompleteRequest(i), UNCHANGED zVars
  PROVE  /\ IInv'
         /\ pending' = 0 => \A r \in Made : ~Untold(r)
<1>1. /\ item[i] = "leaving" /\ pending' = pending - 1
      /\ UNCHANGED <<flushVars, storeVars, putVars, refCount, told, ask, zVars>>
  BY DEF CompleteRequest
<1>0. PICK s \in {"emptied", "unlocking"} : Move(i, s)
  <2>1. Move(i, IF pending = 1 THEN "emptied" ELSE "unlocking")
    BY DEF CompleteRequest
  <2>2. (IF pending = 1 THEN "emptied" ELSE "unlocking") \in {"emptied", "unlocking"}
    OBVIOUS
  <2> QED BY <2>1, <2>2
<1>2. /\ item' \in [Items -> Stages] /\ item'[i] = s
      /\ \A j \in Items \ {i} : Counted(j)' <=> Counted(j)
      /\ \A p \in Puts : PutInv(p)'
      /\ \A g \in Gets : GetInv(g)'
      /\ Made' = Made
  <2>1. s \in {"leaving", "emptied", "unlocking", "done"}
    OBVIOUS
  <2> QED BY <1>0, <1>1, <2>1, ItemGoesOn
<1>3. PendingCountsRequests' /\ pending' \in Nat
  <2>1. ~Counted(i)' /\ Counted(i)
    BY <1>1, <1>2 DEF Counted, Locked
  <2>2. i[1] \in Requests
    BY ItemsOf
  <2> QED BY <1>1, <1>2, <2>1, <2>2, CountsStep DEF IInv, Busy, zVars
<1>4. TypeOK'
  BY <1>1, <1>2, <1>3
     DEF IInv, TypeOK, CacheTypeOK, zVars, zflushVars, flushVars, storeVars, putVars
<1>5. Flushing'
  BY <1>1, <1>2 DEF IInv, Flushing, flushVars, Untold
<1>6. ZFlushing' /\ Asking'
  <2>1. ZFlushing'
    BY <1>1 DEF IInv, ZFlushing, zflushVars, zVars
  <2> QED BY <1>1, <2>1, AskFrame DEF IInv, storeVars
<1>7. ASSUME pending' = 0 PROVE \A r \in Made : ~Untold(r)
  <2>1. \A j \in Items : ~Counted(j)'
    <3>1. /\ CountedItems' \subseteq Items /\ IsFiniteSet(CountedItems')
          /\ Cardinality(CountedItems') = 0
      BY <1>3, <1>7, ItemsFinite, FS_Subset DEF CountedItems, PendingCountsRequests
    <3>2. CountedItems' = {}
      BY <3>1, FS_EmptySet
    <3> QED BY <3>2 DEF CountedItems
  <2>2. \A j \in Items : Counted(j) => item[j] = "leaving"
    BY <1>1, <1>2, <2>1
  <2> QED BY <2>2, MadeTold
<1> QED BY <1>2, <1>3, <1>4, <1>5, <1>6, <1>7 DEF IInv

(* The rest of it: the flushes that the thread which emptied the count     *)
(* finds in the list cover only calls that were told.                      *)
LEMMA UnlockStep ==
  ASSUME IInv, Emptying, NEW i \in Items, Unlock(i), UNCHANGED zVars
  PROVE  IInv'
<1>1. /\ item[i] \in {"emptied", "unlocking"} /\ Move(i, "done")
      /\ UNCHANGED <<pending, flush, covers, storeVars, putVars, refCount, told, ask, zVars>>
  BY DEF Unlock, Locked
<1>2. /\ item' \in [Items -> Stages] /\ item'[i] = "done"
      /\ \A j \in Items \ {i} : Counted(j)' <=> Counted(j)
      /\ \A p \in Puts : PutInv(p)'
      /\ \A g \in Gets : GetInv(g)'
      /\ Made' = Made
  BY <1>1, ItemGoesOn
<1>3. PendingCountsRequests'
  <2>1. ~Counted(i)' /\ ~Counted(i)
    BY <1>1, <1>2 DEF Counted, Locked
  <2>2. i[1] \in Requests
    BY ItemsOf
  <2> QED BY <1>1, <1>2, <2>1, <2>2, CountsStep DEF IInv, Busy, zVars
<1>4. \/ UNCHANGED <<flushCalls, flushList>>
      \/ /\ item[i] = "emptied"
         /\ flushCalls' = flushCalls \cup flushList
         /\ flushList' = {}
  BY DEF Unlock
<1>5. TypeOK'
  BY <1>1, <1>2, <1>4, ZenonT(40)
     DEF IInv, TypeOK, CacheTypeOK, zVars, zflushVars, storeVars, putVars
<1>6. Flushing'
  <2>1. CASE UNCHANGED <<flushCalls, flushList>>
    BY <1>1, <1>2, <2>1 DEF IInv, Flushing, Untold
  <2>2. CASE /\ item[i] = "emptied"
             /\ flushCalls' = flushCalls \cup flushList /\ flushList' = {}
    <3>1. \A f \in flushList : \A r \in covers[f] : ~Untold(r)
      BY <2>2 DEF Emptying
    <3> QED BY <1>1, <2>2, <3>1 DEF IInv, Flushing, Untold
  <2> QED BY <1>4, <2>1, <2>2
<1>7. ZFlushing' /\ Asking'
  <2>1. ZFlushing'
    BY <1>1 DEF IInv, ZFlushing, zflushVars, zVars
  <2> QED BY <1>1, <2>1, AskFrame DEF IInv, storeVars
<1> QED BY <1>2, <1>3, <1>5, <1>6, <1>7 DEF IInv

(* What the invariant says of requests, counts and flushes depends on      *)
(* nothing that a flush of the cache or a RetargetContent changes.         *)
LEMMA RequestsFrame ==
  ASSUME IInv, UNCHANGED <<pending, storeVars, item, putVars, refCount, told, zVars>>
  PROVE  /\ \A p \in Puts : PutInv(p)'
         /\ \A g \in Gets : GetInv(g)'
         /\ PendingCountsRequests'
         /\ ZFlushing'
         /\ Made' = Made
<1>1. ASSUME NEW p \in Puts PROVE PutInv(p)'
  <2>1. PutStage(p)'
    BY DEF IInv, PutInv, PutStage, Untold, Returned, Called, putVars
  <2> QED BY <2>1 DEF IInv, PutInv, PutCall, Returned, Called, putVars, zVars, storeVars
<1>2. ASSUME NEW g \in Gets PROVE GetInv(g)'
  <2>1. GetStage(g)'
    BY ZenonT(40) DEF IInv, GetInv, GetStage, Untold, Returned, Called
  <2>2. GetCall(g)'
    BY DEF IInv, GetInv, GetCall, Untold, Returned, Called, zVars
  <2>3. (Copying(g)' <=> Copying(g)) /\ (Using(g)' <=> Using(g))
    BY DEF Copying, Using, Called, zVars
  <2> QED BY <2>1, <2>2, <2>3 DEF IInv, GetInv, Called, zVars, storeVars
<1>3. PendingCountsRequests'
  BY DEF IInv, PendingCountsRequests, Counted, Locked, InFlight, zVars
<1>4. ZFlushing'
  BY DEF IInv, ZFlushing, zflushVars, zVars
<1>5. Made' = Made
  BY DEF Made, putVars
<1> QED BY <1>1, <1>2, <1>3, <1>4, <1>5

(* A flush that was taken from the list is completed. *)
LEMMA CallFlushStep ==
  ASSUME IInv, NEW f \in Flushes, CallFlush(f), UNCHANGED zVars
  PROVE  IInv'
<1>1. /\ f \in flushCalls /\ flushCalls' = flushCalls \ {f}
      /\ flush' = [flush EXCEPT ![f] = "done"]
      /\ UNCHANGED <<pending, flushList, covers, storeVars, item, putVars, refCount, told, ask,
                     zVars>>
  BY DEF CallFlush
<1>2. TypeOK'
  BY <1>1 DEF IInv, TypeOK, CacheTypeOK, zVars, zflushVars, storeVars, putVars
<1>3. Flushing'
  <2>1. f \notin flushList
    BY <1>1 DEF IInv, Flushing
  <2>2. /\ flush'[f] = "done"
        /\ \A h \in Flushes \ {f} : flush'[h] = flush[h]
        /\ flushList \subseteq Flushes /\ flushCalls \subseteq Flushes
    BY <1>1 DEF IInv, TypeOK, CacheTypeOK
  <2>3. /\ \A h \in flushList : covers[h] \subseteq Made
        /\ Made' = Made
    BY <1>1, RequestsFrame DEF IInv, Flushing
  <2> QED BY <1>1, <2>1, <2>2, <2>3 DEF IInv, Flushing, Untold
<1>4. Asking'
  BY <1>1, AskFrame DEF IInv, storeVars
<1> QED BY <1>1, <1>2, <1>3, <1>4, RequestsFrame DEF IInv

(* CacheBlockStore_Flush: a flush that finds nothing counted covers only   *)
(* calls that were told.                                                   *)
LEMMA FlushStep ==
  ASSUME IInv, NEW f \in Flushes, Flush(f), UNCHANGED zVars
  PROVE  IInv'
<1>1. /\ flush[f] = "idle" /\ covers' = [covers EXCEPT ![f] = Made]
      /\ \/ /\ pending > 0 /\ flushList' = flushList \cup {f}
            /\ flush' = [flush EXCEPT ![f] = "queued"]
         \/ /\ ~(pending > 0) /\ flush' = [flush EXCEPT ![f] = "done"]
            /\ UNCHANGED flushList
      /\ UNCHANGED <<pending, flushCalls, storeVars, item, putVars, refCount, told, ask, zVars>>
  BY DEF Flush
<1>2. Made \subseteq Requests
  BY DEF Made, Requests
<1>3. TypeOK'
  BY <1>1, <1>2 DEF IInv, TypeOK, CacheTypeOK, zVars, zflushVars, storeVars, putVars
<1>4. Flushing'
  <2>1. /\ flushList \subseteq Flushes /\ flushCalls \subseteq Flushes
        /\ f \notin flushList /\ f \notin flushCalls
        /\ covers'[f] = Made /\ \A h \in Flushes \ {f} : covers'[h] = covers[h]
        /\ \A h \in Flushes \ {f} : flush'[h] = flush[h]
    BY <1>1 DEF IInv, TypeOK, CacheTypeOK, Flushing
  <2>2. Made' = Made
    BY <1>1, RequestsFrame
  <2>3. CASE pending > 0
    <3>1. flushList' = flushList \cup {f} /\ flush'[f] = "queued"
      BY <1>1, <2>3 DEF IInv, TypeOK, CacheTypeOK
    <3> QED BY <1>1, <2>1, <2>2, <3>1 DEF IInv, Flushing, Untold
  <2>4. CASE ~(pending > 0)
    <3>1. flushList' = flushList /\ flush'[f] = "done"
      BY <1>1, <2>4 DEF IInv, TypeOK, CacheTypeOK
    <3>2. pending = 0
      <4>1. pending \in Nat
        BY DEF IInv, TypeOK, CacheTypeOK
      <4> QED BY <2>4, <4>1
    <3>3. \A r \in Made : ~Untold(r)
      BY <3>2, NoneCounted, MadeTold DEF IInv
    <3> QED BY <1>1, <2>1, <2>2, <3>1, <3>3 DEF IInv, Flushing, Untold
  <2> QED BY <2>3, <2>4
<1>5. Asking'
  BY <1>1, AskFrame DEF IInv, storeVars
<1> QED BY <1>1, <1>3, <1>4, <1>5, RequestsFrame DEF IInv

(* RetargetContent: what is asked and found. *)
LEMMA AskStep ==
  ASSUME IInv, NEW a \in Asks, NEW want \in SUBSET Hashes,
         Ask(a, want) \/ AskLocalComplete(a) \/ AskRemoteComplete(a) \/ AskFails(a),
         UNCHANGED zVars
  PROVE  IInv'
<1>1. UNCHANGED <<pending, flushVars, storeVars, item, putVars, refCount, told, zVars>>
  BY DEF Ask, AskLocalComplete, AskRemoteComplete, AskFails
<1>2. /\ ask \in [Asks -> [stage : {"idle", "local", "remote", "done", "failed"},
                           want : SUBSET Hashes, found : SUBSET Hashes, had : SUBSET Hashes]]
      /\ local \subseteq Hashes /\ remote \subseteq Hashes /\ Asking
  BY DEF IInv, TypeOK, CacheTypeOK
<1>3. /\ ask' \in [Asks -> [stage : {"idle", "local", "remote", "done", "failed"},
                            want : SUBSET Hashes, found : SUBSET Hashes, had : SUBSET Hashes]]
      /\ Asking'
  <2>1. CASE Ask(a, want)
    BY <1>1, <1>2, <2>1 DEF Ask, Asking, storeVars
  <2>2. CASE AskLocalComplete(a)
    <3> DEFINE found == ask[a].want \cap local
               stage == IF ask[a].want \ found = {} THEN "done" ELSE "remote"
    <3>1. /\ ask[a].stage = "local"
          /\ ask' = [ask EXCEPT ![a] = [stage |-> stage, want |-> ask[a].want,
                                        found |-> found, had |-> ask[a].had]]
      BY <1>2, <2>2 DEF AskLocalComplete
    <3> QED BY <1>1, <1>2, <3>1 DEF Asking, storeVars
  <2>3. CASE AskRemoteComplete(a)
    <3> DEFINE found == ask[a].found \cup ((ask[a].want \ ask[a].found) \cap remote)
    <3>1. /\ ask[a].stage = "remote"
          /\ ask' = [ask EXCEPT ![a] = [stage |-> "done", want |-> ask[a].want,
                                        found |-> found, had |-> ask[a].had]]
      BY <1>2, <2>3 DEF AskRemoteComplete
    <3> QED BY <1>1, <1>2, <3>1 DEF Asking, storeVars
  <2>4. CASE AskFails(a)
    BY <1>1, <1>2, <2>4 DEF AskFails, Asking, storeVars
  <2> QED BY <2>1, <2>2, <2>3, <2>4
<1>4. TypeOK'
  BY <1>1, <1>3 DEF IInv, TypeOK, CacheTypeOK, zVars, zflushVars, flushVars, storeVars, putVars
<1>5. Flushing'
  BY <1>1, RequestsFrame DEF IInv, Flushing, Untold, flushVars
<1> QED BY <1>1, <1>3, <1>4, <1>5, RequestsFrame DEF IInv

--------------------------------------------------------------------------------
(* The steps of the compressing store preserve the invariant. *)

(* The call fails before it is counted. *)
LEMMA RequestFailsStep ==
  ASSUME IInv, NEW r \in Requests, RequestFails(r)
  PROVE  IInv'
<1>1. /\ zreq \in [Requests -> ZStages]
      /\ zreq[r] = "idle" /\ zreq' = [zreq EXCEPT ![r] = "done"]
      /\ UNCHANGED <<cacheVars, tagged, zpending, zflushVars, zblock, holding, life>>
  BY DEF RequestFails, Step, IInv, TypeOK
<1>2. /\ r \in Puts => put[r] = "idle" /\ zblock[r] = "none"
      /\ r \in Gets => item[<<r, "local">>] = "none" /\ Untold(r)
      /\ answer[r] = <<>>
  BY <1>1 DEF IInv, PutInv, PutCall, GetInv, GetCall, Requests
<1>3. /\ answer' \in [Requests -> Seq(Outcomes)] /\ answer'[r] = <<"err">>
      /\ \A q \in Requests \ {r} : answer'[q] = answer[q]
  <2>1. answer \in [Requests -> Seq(Outcomes)] /\ Answer(r, "err") /\ "err" \in Outcomes
    BY DEF RequestFails, IInv, TypeOK, Outcomes
  <2> QED BY <1>2, <2>1, AnswerFirst
<1>4. /\ zreq' \in [Requests -> ZStages]
      /\ zreq'[r] = "done" /\ \A q \in Requests \ {r} : zreq'[q] = zreq[q]
  BY <1>1 DEF ZStages
<1>5. OnlyOf(r) /\ GoesForward(r)
  BY <1>1, <1>2, <1>3, <1>4 DEF OnlyOf, GoesForward, cacheVars, putVars, Untold
<1>6. TypeOK'
  BY <1>1, <1>3, <1>4 DEF IInv, TypeOK, CacheTypeOK, zflushVars, cacheVars, flushVars, storeVars,
                          putVars
<1>7. r \in Puts => PutInv(r)'
  BY <1>1, <1>2, <1>3, <1>4
     DEF IInv, PutInv, PutStage, PutCall, Untold, Returned, Called, cacheVars, putVars, storeVars
<1>8. r \in Gets => GetInv(r)'
  BY <1>1, <1>2, <1>3, <1>4
     DEF IInv, GetInv, GetStage, GetCall, Copying, Using, Untold, Returned, Called, cacheVars,
         storeVars
<1>9. PendingCountsRequests'
  <2>1. ~Busy(r)' /\ ~Busy(r)
    BY <1>1, <1>4 DEF Busy
  <2>2. InFlight' = InFlight
    BY <2>1, <1>4 DEF InFlight, Busy
  <2> QED BY <1>1, <2>2 DEF IInv, PendingCountsRequests, Counted, Locked, cacheVars
<1> QED BY <1>1, <1>5, <1>6, <1>7, <1>8, <1>9, RequestStep DEF cacheVars, storeVars

(* Lines 199 to 209: the backing store's error; without a tag the process  *)
(* crashes.                                                                *)
LEMMA BackingRefusesPutStep ==
  ASSUME IInv, NEW p \in Puts, BackingRefusesPut(p), life # "crashed"
  PROVE  IInv'
<1>0. p \in Requests /\ p \notin Gets
  BY ItemsOf DEF Requests
<1>1. CASE p \in tagged
  <2>1. /\ zreq' \in [Requests -> ZStages]
        /\ zreq[p] = "called" /\ zreq'[p] = "refused"
        /\ \A q \in Requests \ {p} : zreq'[q] = zreq[q]
        /\ zblock' \in [Puts -> {"none", "live", "freed"}] /\ zblock'[p] = "freed"
        /\ \A q \in Puts \ {p} : zblock'[q] = zblock[q]
        /\ UNCHANGED <<cacheVars, tagged, zpending, zflushVars, answer, holding, life>>
    BY <1>0, <1>1 DEF BackingRefusesPut, Step, Told, IInv, TypeOK, ZStages
  <2>2. Returned(p) /\ answer[p] = <<>>
    <3>1. told[p] # <<>> /\ told[p][1].by = "return"
      BY DEF BackingRefusesPut, Told
    <3>2. ~Untold(p) /\ \A e \in Outcomes : ~Called(p, e)
      BY <3>1 DEF Untold, Called
    <3>3. remoteErr[p] \in Outcomes
      BY DEF IInv, TypeOK, CacheTypeOK
    <3>4. Returned(p)
      BY <3>2, <3>3 DEF IInv, PutInv, PutStage
    <3> QED BY <2>1, <3>4 DEF IInv, PutInv, PutCall
  <2>3. OnlyOf(p) /\ GoesForward(p)
    BY <1>0, <2>1, <2>2 DEF OnlyOf, GoesForward, cacheVars, putVars, Untold
  <2>4. TypeOK'
    BY <2>1 DEF IInv, TypeOK, CacheTypeOK, zflushVars, cacheVars, flushVars, storeVars, putVars
  <2>5. PutInv(p)'
    <3>1. PutStage(p)'
      BY <2>1 DEF IInv, PutInv, PutStage, Untold, Returned, Called, cacheVars, putVars
    <3>2. PutCall(p)'
      BY <2>1, <2>2 DEF PutCall, Returned, cacheVars
    <3> QED BY <2>1, <3>1, <3>2 DEF IInv, PutInv, cacheVars, putVars, storeVars
  <2>6. PendingCountsRequests'
    <3>1. InFlight' = InFlight
      BY <2>1 DEF InFlight
    <3> QED BY <2>1, <3>1 DEF IInv, PendingCountsRequests, Counted, Locked, cacheVars
  <2> QED BY <1>0, <2>1, <2>3, <2>4, <2>5, <2>6, RequestStep DEF cacheVars, storeVars
<1>2. CASE p \notin tagged
  <2>1. /\ life' = "crashed"
        /\ UNCHANGED <<cacheVars, tagged, zpending, zflushVars, zreq, zblock, answer, holding>>
    BY <1>2 DEF BackingRefusesPut
  <2>2. OnlyOf(p) /\ GoesForward(p)
    BY <2>1 DEF OnlyOf, GoesForward, cacheVars, putVars, Untold
  <2>3. TypeOK'
    BY <2>1 DEF IInv, TypeOK, CacheTypeOK, zflushVars, cacheVars, flushVars, storeVars, putVars
  <2>4. PutInv(p)'
    <3>1. PutStage(p)'
      BY <2>1 DEF IInv, PutInv, PutStage, Untold, Returned, Called, cacheVars, putVars
    <3>2. PutCall(p)'
      BY <2>1 DEF IInv, PutInv, PutCall, Returned, Called, cacheVars, putVars
    <3> QED BY <2>1, <3>1, <3>2 DEF IInv, PutInv, cacheVars, putVars, storeVars
  <2>5. PendingCountsRequests'
    <3>1. InFlight' = InFlight
      BY <2>1 DEF InFlight
    <3> QED BY <2>1, <3>1 DEF IInv, PendingCountsRequests, Counted, Locked, cacheVars
  <2> QED BY <1>0, <2>1, <2>2, <2>3, <2>4, <2>5, RequestStep DEF cacheVars, storeVars
<1> QED BY <1>1, <1>2

(* A caller that has been called back was told one thing, and has not      *)
(* answered yet.                                                           *)
LEMMA CalledOnce ==
  ASSUME IInv, NEW r \in Requests, Told(r, "call")
  PROVE  /\ zreq[r] = "called" /\ answer[r] = <<>> /\ ~Untold(r)
         /\ told[r][1].err \in Outcomes /\ Called(r, told[r][1].err)
<1>1. zreq[r] = "called" /\ told[r] # <<>> /\ told[r][1].by = "call"
  BY DEF Told
<1>2. ~Untold(r) /\ ~Returned(r)
  BY <1>1 DEF Untold, Returned
<1>3. \E e \in Outcomes : Called(r, e)
  <2>1. CASE r \in Puts
    <3>1. remoteErr[r] \in Outcomes
      BY <2>1 DEF IInv, TypeOK, CacheTypeOK
    <3> QED BY <1>2, <2>1, <3>1 DEF IInv, PutInv, PutStage
  <2>2. CASE r \in Gets
    BY <1>2, <2>2 DEF IInv, GetInv, GetStage, Outcomes
  <2> QED BY <2>1, <2>2 DEF Requests
<1>4. answer[r] = <<>>
  BY <1>1 DEF IInv, PutInv, PutCall, GetInv, GetCall, Requests
<1>5. PICK e \in Outcomes : Called(r, e)
  BY <1>3
<1>6. told[r][1].err = e
  BY <1>5 DEF Called
<1> QED BY <1>1, <1>2, <1>4, <1>5, <1>6

(* OnPutBackingStoreComplete: the compressed block is freed, the result of *)
(* the backing store passed on.                                            *)
LEMMA OnPutBackingStoreCompleteStep ==
  ASSUME IInv, NEW p \in Puts, OnPutBackingStoreComplete(p)
  PROVE  IInv'
<1>0. p \in Requests /\ p \notin Gets
  BY ItemsOf DEF Requests
<1> DEFINE e == told[p][1].err
<1>1. /\ zreq[p] = "called" /\ answer[p] = <<>> /\ ~Untold(p)
      /\ e \in Outcomes /\ Called(p, e)
  BY <1>0, CalledOnce DEF OnPutBackingStoreComplete
<1>2. /\ answer' \in [Requests -> Seq(Outcomes)] /\ answer'[p] = <<e>>
      /\ \A q \in Requests \ {p} : answer'[q] = answer[q]
  <2>1. answer \in [Requests -> Seq(Outcomes)] /\ Answer(p, e)
    BY DEF OnPutBackingStoreComplete, IInv, TypeOK
  <2> HIDE DEF e
  <2> QED BY <1>0, <1>1, <2>1, AnswerFirst
<1> HIDE DEF e
<1>3. /\ zreq' \in [Requests -> ZStages]
      /\ zreq'[p] = "leaving" /\ \A q \in Requests \ {p} : zreq'[q] = zreq[q]
  BY <1>0 DEF OnPutBackingStoreComplete, Step, IInv, TypeOK, ZStages
<1>4. /\ UNCHANGED <<cacheVars, tagged, zpending, zflushVars, holding, life>>
      /\ zblock' = IF p \in tagged THEN [zblock EXCEPT ![p] = "freed"] ELSE zblock
  BY DEF OnPutBackingStoreComplete
<1>5. /\ zblock' \in [Puts -> {"none", "live", "freed"}] /\ zblock'[p] # "live"
      /\ \A q \in Puts \ {p} : zblock'[q] = zblock[q]
  <2>1. /\ zblock \in [Puts -> {"none", "live", "freed"}]
        /\ p \notin tagged => zblock[p] = "none"
    BY <1>1 DEF IInv, TypeOK, PutInv, PutCall
  <2> QED BY <1>4, <2>1
<1>6. OnlyOf(p) /\ GoesForward(p)
  BY <1>0, <1>1, <1>2, <1>3, <1>4, <1>5 DEF OnlyOf, GoesForward, cacheVars, putVars, Untold
<1>7. TypeOK'
  BY <1>2, <1>3, <1>4, <1>5 DEF IInv, TypeOK, CacheTypeOK, zflushVars, cacheVars, flushVars,
                                storeVars, putVars
<1>8. PutInv(p)'
  <2>1. PutStage(p)'
    BY <1>4 DEF IInv, PutInv, PutStage, Untold, Returned, Called, cacheVars, putVars
  <2>2. Called(p, e)'
    BY <1>1, <1>4 DEF Called, cacheVars, e
  <2>3. PutCall(p)'
    BY <1>1, <1>2, <1>3, <1>5, <1>4, <2>2 DEF PutCall, Called, cacheVars
  <2> QED BY <1>4, <2>1, <2>3 DEF IInv, PutInv, cacheVars, putVars, storeVars
<1>9. PendingCountsRequests'
  <2>1. InFlight' = InFlight
    BY <1>1, <1>3 DEF InFlight
  <2> QED BY <1>4, <2>1 DEF IInv, PendingCountsRequests, Counted, Locked, cacheVars
<1> QED BY <1>0, <1>4, <1>6, <1>7, <1>8, <1>9, RequestStep DEF cacheVars, storeVars

(* Lines 392 to 405: the backing store's error on a Get. *)
LEMMA BackingRefusesGetStep ==
  ASSUME IInv, NEW g \in Gets, BackingRefusesGet(g)
  PROVE  IInv'
<1>0. g \in Requests /\ g \notin Puts
  BY ItemsOf DEF Requests
<1>1. /\ zreq' \in [Requests -> ZStages]
      /\ zreq[g] = "called" /\ zreq'[g] = "refused"
      /\ \A q \in Requests \ {g} : zreq'[q] = zreq[q]
      /\ UNCHANGED <<cacheVars, tagged, zpending, zflushVars, zblock, answer, holding, life>>
  BY <1>0 DEF BackingRefusesGet, Step, Told, IInv, TypeOK, ZStages
<1>2. Returned(g) /\ answer[g] = <<>> /\ ~Called(g, "ok") /\ g \notin holding
  <2>1. told[g] # <<>> /\ told[g][1].by = "return"
    BY DEF BackingRefusesGet, Told
  <2>2. ~Untold(g) /\ (\A e \in Outcomes : ~Called(g, e)) /\ ~Called(g, "ok") /\ ~Called(g, "err")
    BY <2>1 DEF Untold, Called
  <2>3. Returned(g)
    BY <2>2 DEF IInv, GetInv, GetStage
  <2> QED BY <1>1, <2>2, <2>3 DEF IInv, GetInv, GetCall
<1>3. OnlyOf(g) /\ GoesForward(g)
  BY <1>0, <1>1, <1>2 DEF OnlyOf, GoesForward, cacheVars, putVars, Untold
<1>4. TypeOK'
  BY <1>1 DEF IInv, TypeOK, CacheTypeOK, zflushVars, cacheVars, flushVars, storeVars, putVars
<1>5. GetInv(g)'
  <2>0. item' = item /\ told' = told
    BY <1>1 DEF cacheVars
  <2>1. GetStage(g)'
    BY <2>0, ZenonT(40) DEF IInv, GetInv, GetStage, Untold, Returned, Called
  <2>2. GetCall(g)'
    BY <1>1, <1>2 DEF GetCall, Returned, cacheVars
  <2>3. /\ Copying(g)' <=> Copying(g)
        /\ ~Using(g)' /\ ~Using(g)
    BY <1>1, <1>2 DEF Copying, Using, Called, cacheVars
  <2>4. ~Called(g, "ok")' /\ g \notin holding'
    BY <1>1, <1>2 DEF Called, cacheVars
  <2> QED BY <1>1, <2>1, <2>2, <2>3, <2>4 DEF IInv, GetInv, cacheVars, storeVars
<1>6. PendingCountsRequests'
  <2>1. InFlight' = InFlight
    BY <1>1 DEF InFlight
  <2> QED BY <1>1, <2>1 DEF IInv, PendingCountsRequests, Counted, Locked, cacheVars
<1> QED BY <1>0, <1>1, <1>3, <1>4, <1>5, <1>6, RequestStep DEF cacheVars, storeVars

(* CachedStoredBlock_Dispose gives one reference back, of a block that has *)
(* one for its user; disposing of another block changes nothing.           *)
LEMMA BlockDisposed ==
  ASSUME IInv, NEW g \in Gets, DisposeBlock(g),
         item[<<g, "remote">>] # "none" => Using(g)
  PROVE  /\ UNCHANGED <<pending, flushVars, storeVars, item, putVars, told, ask>>
         /\ refCount' \in [Gets -> 0..2]
         /\ \A h \in Gets \ {g} : refCount'[h] = refCount[h]
         /\ refCount'[g] = IF Copying(g) THEN 1 ELSE 0
<1>1. /\ refCount \in [Gets -> 0..2]
      /\ refCount[g] = (IF Copying(g) THEN 1 ELSE 0) + (IF Using(g) THEN 1 ELSE 0)
  BY DEF IInv, TypeOK, CacheTypeOK, GetInv
<1>2. CASE refCount[g] > 0
  <2>1. /\ refCount' = [refCount EXCEPT ![g] = refCount[g] - 1]
        /\ UNCHANGED <<pending, flushVars, storeVars, item, putVars, told, ask>>
    BY <1>2 DEF DisposeBlock, DisposeCached
  <2>2. refCount[g] - 1 \in 0..2
    BY <1>1, <1>2
  <2>3. Using(g)
    <3>1. ~Copying(g) \/ item[<<g, "remote">>] # "none"
      BY DEF IInv, GetInv, GetStage, Copying
    <3> QED BY <1>1, <1>2, <3>1
  <2> QED BY <1>1, <2>1, <2>2, <2>3
<1>3. CASE ~(refCount[g] > 0)
  <2>1. UNCHANGED cacheVars
    BY <1>3 DEF DisposeBlock
  <2>2. refCount[g] = 0 /\ ~Copying(g)
    BY <1>1, <1>3
  <2> QED BY <1>1, <2>1, <2>2 DEF cacheVars
<1> QED BY <1>2, <1>3

(* OnGetBackingStoreComplete: the block is passed on, or disposed of.      *)
LEMMA OnGetBackingStoreCompleteStep ==
  ASSUME IInv, NEW g \in Gets, OnGetBackingStoreComplete(g)
  PROVE  IInv'
<1>0. g \in Requests /\ g \notin Puts
  BY ItemsOf DEF Requests
<1>1. PICK d \in Outcomes :
        /\ zreq[g] = "called" /\ answer[g] = <<>> /\ ~Untold(g)
        /\ Called(g, d) /\ told[g][1].err = d
  BY <1>0, CalledOnce DEF OnGetBackingStoreComplete
<1>2. g \notin holding
  BY <1>1 DEF IInv, GetInv
<1>3. /\ zreq' \in [Requests -> ZStages]
      /\ zreq'[g] = "leaving" /\ \A q \in Requests \ {g} : zreq'[q] = zreq[q]
      /\ UNCHANGED <<tagged, zpending, zflushVars, zblock, life>>
  BY <1>0 DEF OnGetBackingStoreComplete, Step, IInv, TypeOK, ZStages
<1>4. /\ Called(g, "ok") <=> d = "ok"
      /\ item[<<g, "remote">>] # "none" /\ d = "ok" => Using(g)
      /\ d # "ok" => ~Using(g)
  <2>1. Called(g, "ok") <=> d = "ok"
    BY <1>1 DEF Called
  <2> QED BY <1>1, <1>2, <2>1 DEF Using
<1>5. \E e \in Outcomes :
        /\ Answer(g, e)
        /\ e = "ok" => d = "ok"
        /\ UNCHANGED <<pending, flushVars, storeVars, item, putVars, told, ask>>
        /\ refCount' \in [Gets -> 0..2]
        /\ \A h \in Gets \ {g} : refCount'[h] = refCount[h]
        /\ \/ holding' = holding \cup {g} /\ d = "ok" /\ refCount'[g] = refCount[g]
           \/ holding' = holding /\ refCount'[g] = IF Copying(g) THEN 1 ELSE 0
  <2>0. /\ refCount \in [Gets -> 0..2]
        /\ refCount[g] = (IF Copying(g) THEN 1 ELSE 0) + (IF Using(g) THEN 1 ELSE 0)
    BY DEF IInv, TypeOK, CacheTypeOK, GetInv
  <2>1. CASE d = "err" /\ Answer(g, "err") /\ UNCHANGED <<cacheVars, holding>>
    BY <1>4, <2>0, <2>1 DEF cacheVars, Outcomes
  <2>2. CASE /\ d = "ok" /\ Answer(g, "ok") /\ holding' = holding \cup {g}
             /\ UNCHANGED cacheVars
    BY <2>0, <2>2 DEF cacheVars, Outcomes
  <2>3. CASE /\ d = "ok" /\ \E e \in Outcomes : Answer(g, e)
             /\ DisposeBlock(g) /\ UNCHANGED holding
    <3>1. PICK e \in Outcomes : Answer(g, e)
      BY <2>3
    <3>2. /\ UNCHANGED <<pending, flushVars, storeVars, item, putVars, told, ask>>
          /\ refCount' \in [Gets -> 0..2]
          /\ \A h \in Gets \ {g} : refCount'[h] = refCount[h]
          /\ refCount'[g] = IF Copying(g) THEN 1 ELSE 0
      BY <1>4, <2>3, BlockDisposed
    <3> QED BY <2>3, <3>1, <3>2
  <2> QED BY <1>1, <2>1, <2>2, <2>3 DEF OnGetBackingStoreComplete
<1>6. PICK e \in Outcomes :
        /\ Answer(g, e)
        /\ e = "ok" => d = "ok"
        /\ UNCHANGED <<pending, flushVars, storeVars, item, putVars, told, ask>>
        /\ refCount' \in [Gets -> 0..2]
        /\ \A h \in Gets \ {g} : refCount'[h] = refCount[h]
        /\ \/ holding' = holding \cup {g} /\ d = "ok" /\ refCount'[g] = refCount[g]
           \/ holding' = holding /\ refCount'[g] = IF Copying(g) THEN 1 ELSE 0
  BY <1>5
<1>7. /\ answer' \in [Requests -> Seq(Outcomes)] /\ answer'[g] = <<e>>
      /\ \A q \in Requests \ {g} : answer'[q] = answer[q]
  BY <1>0, <1>1, <1>6, AnswerFirst DEF IInv, TypeOK
<1>8. OnlyOf(g) /\ GoesForward(g)
  BY <1>0, <1>1, <1>3, <1>6, <1>7 DEF OnlyOf, GoesForward, putVars, Untold
<1>9. TypeOK'
  BY <1>3, <1>6, <1>7 DEF IInv, TypeOK, CacheTypeOK, zflushVars, flushVars, storeVars, putVars
<1>10. GetInv(g)'
  <2>1. GetStage(g)'
    <3>1. item' = item /\ told' = told
      BY <1>6
    <3> QED BY <3>1, ZenonT(40) DEF IInv, GetInv, GetStage, Untold, Returned, Called
  <2>2. Called(g, d)' /\ (Called(g, "ok")' <=> Called(g, "ok"))
    BY <1>1, <1>6 DEF Called
  <2>3. GetCall(g)'
    <3>1. /\ Called(g, d)' /\ answer'[g] = <<e>> /\ zreq'[g] = "leaving"
          /\ e = "ok" => d = "ok"
      BY <1>3, <1>6, <1>7, <2>2
    <3> QED BY <1>1, <1>6, <3>1 DEF GetCall
  <2>4. g \in holding' => Called(g, "ok")' /\ zreq'[g] \in {"leaving", "emptied", "unlocking", "done"}
    BY <1>2, <1>3, <1>4, <1>6, <2>2
  <2>5. Copying(g)' <=> Copying(g)
    BY <1>6 DEF Copying
  <2>6. refCount'[g] = (IF Copying(g)' THEN 1 ELSE 0) + (IF Using(g)' THEN 1 ELSE 0)
    <3>1. CASE holding' = holding /\ refCount'[g] = IF Copying(g) THEN 1 ELSE 0
      <4>1. ~Using(g)'
        BY <1>2, <1>3, <3>1 DEF Using
      <4> QED BY <2>5, <3>1, <4>1
    <3>2. CASE holding' = holding \cup {g} /\ d = "ok" /\ refCount'[g] = refCount[g]
      <4>1. Using(g)' <=> Using(g)
        BY <1>1, <1>3, <1>4, <1>6, <3>2 DEF Using
      <4> QED BY <2>5, <3>2, <4>1 DEF IInv, GetInv
    <3> QED BY <1>6, <3>1, <3>2
  <2>7. Called(g, "ok")' => BlockOf[g] \in local' \cup remote'
    BY <1>6, <2>2 DEF IInv, GetInv, storeVars
  <2> QED BY <2>1, <2>3, <2>4, <2>6, <2>7 DEF GetInv
<1>11. PendingCountsRequests'
  <2>1. InFlight' = InFlight
    BY <1>1, <1>3 DEF InFlight
  <2> QED BY <1>3, <1>6, <2>1 DEF IInv, PendingCountsRequests, Counted, Locked
<1> QED BY <1>0, <1>3, <1>6, <1>8, <1>9, <1>10, <1>11, RequestStep DEF storeVars

(* The caller gives the block back. *)
LEMMA GiveBackStep ==
  ASSUME IInv, NEW g \in Gets, GiveBack(g)
  PROVE  IInv'
<1>0. g \in Requests /\ g \notin Puts
  BY ItemsOf DEF Requests
<1>1. /\ g \in holding /\ holding' = holding \ {g} /\ DisposeBlock(g)
      /\ UNCHANGED <<tagged, zpending, zflushVars, zreq, zblock, answer, life>>
  BY DEF GiveBack
<1>2. zreq[g] \in {"leaving", "emptied", "unlocking", "done"}
  BY <1>1 DEF IInv, GetInv
<1>3. /\ UNCHANGED <<pending, flushVars, storeVars, item, putVars, told, ask>>
      /\ refCount' \in [Gets -> 0..2]
      /\ \A h \in Gets \ {g} : refCount'[h] = refCount[h]
      /\ refCount'[g] = IF Copying(g) THEN 1 ELSE 0
  <2>1. item[<<g, "remote">>] # "none" => Using(g)
    BY <1>1 DEF Using
  <2> QED BY <1>1, <2>1, BlockDisposed
<1>4. OnlyOf(g) /\ GoesForward(g)
  BY <1>0, <1>1, <1>3 DEF OnlyOf, GoesForward, putVars, Untold
<1>5. TypeOK'
  BY <1>1, <1>3 DEF IInv, TypeOK, CacheTypeOK, zflushVars, flushVars, storeVars, putVars
<1>6. GetInv(g)'
  <2>1. item' = item /\ told' = told /\ zreq' = zreq /\ answer' = answer
    BY <1>1, <1>3
  <2>2. GetStage(g)'
    BY <2>1, ZenonT(40) DEF IInv, GetInv, GetStage, Untold, Returned, Called
  <2>3. GetCall(g)'
    BY <2>1 DEF IInv, GetInv, GetCall, Untold, Returned, Called
  <2>4. (Copying(g)' <=> Copying(g)) /\ ~Using(g)' /\ g \notin holding'
    BY <1>1, <1>2, <2>1 DEF Copying, Using
  <2>5. Called(g, "ok")' => BlockOf[g] \in local' \cup remote'
    BY <1>3, <2>1 DEF IInv, GetInv, Called, storeVars
  <2> QED BY <1>3, <2>2, <2>3, <2>4, <2>5 DEF GetInv
<1>7. PendingCountsRequests'
  BY <1>1, <1>3 DEF IInv, PendingCountsRequests, Counted, Locked, InFlight
<1> QED BY <1>0, <1>1, <1>3, <1>4, <1>5, <1>6, <1>7, RequestStep DEF storeVars

(* Lines 209 and 404: the error is returned. *)
LEMMA ReturnErrorStep ==
  ASSUME IInv, NEW r \in Requests, ReturnError(r)
  PROVE  IInv'
<1>1. /\ zreq \in [Requests -> ZStages]
      /\ zreq[r] = "failing" /\ zreq' = [zreq EXCEPT ![r] = "done"]
      /\ UNCHANGED <<cacheVars, tagged, zpending, zflushVars, zblock, holding, life>>
  BY DEF ReturnError, Step, IInv, TypeOK
<1>2. /\ Returned(r) /\ answer[r] = <<>>
      /\ r \in Puts => zblock[r] # "live"
      /\ r \in Gets => r \notin holding
  <2>1. CASE r \in Puts
    BY <1>1, <2>1, ItemsOf DEF IInv, PutInv, PutCall
  <2>2. CASE r \in Gets
    BY <1>1, <2>2, ItemsOf DEF IInv, GetInv, GetCall
  <2> QED BY <2>1, <2>2 DEF Requests
<1>3. /\ answer' \in [Requests -> Seq(Outcomes)] /\ answer'[r] = <<"err">>
      /\ \A q \in Requests \ {r} : answer'[q] = answer[q]
  <2>1. answer \in [Requests -> Seq(Outcomes)] /\ Answer(r, "err") /\ "err" \in Outcomes
    BY DEF ReturnError, IInv, TypeOK, Outcomes
  <2> QED BY <1>2, <2>1, AnswerFirst
<1>4. /\ zreq' \in [Requests -> ZStages]
      /\ zreq'[r] = "done" /\ \A q \in Requests \ {r} : zreq'[q] = zreq[q]
  BY <1>1 DEF ZStages
<1>5. OnlyOf(r) /\ GoesForward(r)
  BY <1>1, <1>2, <1>3, <1>4 DEF OnlyOf, GoesForward, cacheVars, putVars, Untold
<1>6. TypeOK'
  BY <1>1, <1>3, <1>4 DEF IInv, TypeOK, CacheTypeOK, zflushVars, cacheVars, flushVars, storeVars,
                          putVars
<1>7. item' = item /\ told' = told /\ zblock' = zblock /\ Returned(r)'
  BY <1>1, <1>2 DEF cacheVars, Returned
<1>8. ASSUME r \in Puts PROVE PutInv(r)'
  <2>1. PutStage(r)'
    BY <1>1, <1>8 DEF IInv, PutInv, PutStage, Untold, Returned, Called, cacheVars, putVars
  <2>2. PutCall(r)'
    BY <1>2, <1>3, <1>4, <1>7, <1>8 DEF PutCall
  <2> QED BY <1>1, <1>8, <2>1, <2>2 DEF IInv, PutInv, cacheVars, putVars, storeVars
<1>9. ASSUME r \in Gets PROVE GetInv(r)'
  <2>1. GetStage(r)'
    BY <1>7, <1>9, ZenonT(40) DEF IInv, GetInv, GetStage, Untold, Returned, Called
  <2>2. GetCall(r)'
    BY <1>3, <1>4, <1>7 DEF GetCall
  <2>3. (Copying(r)' <=> Copying(r)) /\ (Using(r)' <=> Using(r)) /\ r \notin holding'
    BY <1>1, <1>2, <1>4, <1>7, <1>9 DEF Copying, Using
  <2>4. Called(r, "ok")' => BlockOf[r] \in local' \cup remote'
    BY <1>1, <1>7, <1>9 DEF IInv, GetInv, Called, cacheVars, storeVars
  <2> QED BY <1>1, <1>9, <2>1, <2>2, <2>3, <2>4 DEF IInv, GetInv, cacheVars
<1>10. PendingCountsRequests'
  <2>1. InFlight' = InFlight
    BY <1>1, <1>4 DEF InFlight
  <2> QED BY <1>1, <2>1 DEF IInv, PendingCountsRequests, Counted, Locked, cacheVars
<1> QED BY <1>1, <1>5, <1>6, <1>8, <1>9, <1>10, RequestStep DEF cacheVars, storeVars

(* CompressBlockStore_PutStoredBlock and the first step of the cache's. *)
LEMMA CompressPutStep ==
  ASSUME IInv, NEW p \in Puts, CompressPut(p), life = "up"
  PROVE  IInv'
<1>0. p \in Requests /\ p \notin Gets /\ <<p, "remote">> \in Items
  BY ItemsOf DEF Requests
<1>1. /\ zreq' \in [Requests -> ZStages]
      /\ zreq[p] = "idle" /\ zreq'[p] = "called"
      /\ \A q \in Requests \ {p} : zreq'[q] = zreq[q]
      /\ zpending' = zpending + 1
      /\ UNCHANGED <<tagged, zflushVars, answer, holding, life>>
  BY <1>0 DEF CompressPut, Step, IInv, TypeOK, ZStages
<1>2. /\ put[p] = "idle" /\ answer[p] = <<>> /\ zblock[p] = "none"
      /\ Untold(p) /\ p \notin starved
      /\ item[<<p, "remote">>] = "none" /\ item[<<p, "local">>] = "none"
  <2>1. put[p] = "idle" /\ answer[p] = <<>> /\ zblock[p] = "none"
    BY <1>1 DEF IInv, PutInv, PutCall
  <2> QED BY <2>1 DEF IInv, PutInv, PutStage
<1>3. /\ zblock' \in [Puts -> {"none", "live", "freed"}]
      /\ zblock'[p] = IF p \in tagged' THEN "live" ELSE "none"
      /\ \A q \in Puts \ {p} : zblock'[q] = zblock[q]
  <2>1. /\ zblock \in [Puts -> {"none", "live", "freed"}] /\ tagged' = tagged
        /\ zblock' = IF p \in tagged THEN [zblock EXCEPT ![p] = "live"] ELSE zblock
    BY DEF CompressPut, IInv, TypeOK
  <2> QED BY <1>2, <2>1
<1>4. Busy(p)' /\ ~Busy(p)
  BY <1>1 DEF Busy
<1>5. CASE PutStoredBlock(p)
  <2>1. /\ put' = [put EXCEPT ![p] = "remote"]
        /\ pendingCount' = [pendingCount EXCEPT ![p] = 2]
        /\ Move(<<p, "remote">>, "called") /\ pending' = pending + 1
        /\ UNCHANGED <<flushVars, storeVars, remoteErr, starved, refCount, told, ask>>
    BY <1>5 DEF PutStoredBlock
  <2>2. /\ item' \in [Items -> Stages] /\ item'[<<p, "remote">>] = "called"
        /\ item'[<<p, "local">>] = item[<<p, "local">>]
        /\ \A j \in Items : j[1] # p => item'[j] = item[j]
        /\ \A j \in Items \ {<<p, "remote">>} : Counted(j)' <=> Counted(j)
    <3>1. item \in [Items -> Stages] /\ "called" \in Stages
      BY DEF IInv, TypeOK, CacheTypeOK, Stages
    <3> QED BY <2>1, <3>1, PutRemoteMoves
  <2>3. /\ put' \in [Puts -> {"idle", "remote", "failing", "returned"}] /\ put'[p] = "remote"
        /\ pendingCount' \in [Puts -> 0..2] /\ pendingCount'[p] = 2
        /\ \A q \in Puts \ {p} : put'[q] = put[q] /\ pendingCount'[q] = pendingCount[q]
    BY <2>1 DEF IInv, TypeOK, CacheTypeOK
  <2>4. PendingCountsRequests' /\ pending' \in Nat /\ zpending' \in Nat
    <3>1. Counted(<<p, "remote">>)' /\ ~Counted(<<p, "remote">>)
      BY <1>2, <2>2 DEF Counted, Locked
    <3> QED BY <1>0, <1>1, <1>4, <2>1, <2>2, <3>1, CountsStep DEF IInv
  <2>5. TypeOK'
    BY <1>1, <1>3, <2>1, <2>2, <2>3, <2>4
       DEF IInv, TypeOK, CacheTypeOK, zflushVars, flushVars, storeVars
  <2>6. OnlyOf(p) /\ GoesForward(p)
    BY <1>0, <1>1, <1>2, <1>3, <2>1, <2>2, <2>3 DEF OnlyOf, GoesForward, Untold
  <2>7. PutInv(p)'
    <3>1. PutStage(p)'
      BY <1>2, <2>1, <2>2, <2>3 DEF PutStage, Untold
    <3>2. PutCall(p)'
      BY <1>1, <1>2, <1>3, <2>3 DEF PutCall
    <3> QED BY <2>1, <3>1, <3>2 DEF IInv, PutInv, storeVars
  <2> QED BY <1>0, <1>1, <2>1, <2>4, <2>5, <2>6, <2>7, RequestStep DEF storeVars
<1>6. CASE PutNoMemory(p)
  <2>1. /\ put' = [put EXCEPT ![p] = "returned"] /\ Tell(p, "return", "err")
        /\ UNCHANGED <<pending, flushVars, storeVars, item, pendingCount, remoteErr, starved,
                       refCount, ask>>
    BY <1>6 DEF PutNoMemory
  <2>2. /\ told' \in [Requests -> Seq(Tellings)] /\ Returned(p)'
        /\ \A q \in Requests \ {p} : told'[q] = told[q]
    <3>1. told \in [Requests -> Seq(Tellings)]
      BY DEF IInv, TypeOK, CacheTypeOK, Tellings
    <3> QED BY <1>0, <1>2, <2>1, <3>1, TellFirst DEF Returned, Outcomes
  <2>3. /\ put' \in [Puts -> {"idle", "remote", "failing", "returned"}] /\ put'[p] = "returned"
        /\ \A q \in Puts \ {p} : put'[q] = put[q]
    BY <2>1 DEF IInv, TypeOK, CacheTypeOK
  <2>4. PendingCountsRequests' /\ zpending' \in Nat
    <3>1. \A j \in Items : Counted(j)' <=> Counted(j)
      BY <2>1 DEF Counted, Locked
    <3> QED BY <1>0, <1>1, <1>4, <2>1, <3>1, CountsStep DEF IInv
  <2>5. TypeOK'
    BY <1>1, <1>3, <2>1, <2>2, <2>3, <2>4
       DEF IInv, TypeOK, CacheTypeOK, zflushVars, flushVars, storeVars, Tellings
  <2>6. OnlyOf(p) /\ GoesForward(p)
    BY <1>0, <1>1, <1>2, <1>3, <2>1, <2>2, <2>3 DEF OnlyOf, GoesForward, Untold
  <2>7. PutInv(p)'
    <3>1. PutStage(p)'
      BY <1>2, <2>1, <2>2, <2>3 DEF PutStage
    <3>2. PutCall(p)'
      BY <1>1, <1>2, <1>3, <2>3 DEF PutCall
    <3> QED BY <2>1, <3>1, <3>2 DEF IInv, PutInv, storeVars
  <2> QED BY <1>0, <1>1, <2>1, <2>4, <2>5, <2>6, <2>7, RequestStep DEF storeVars
<1> QED BY <1>5, <1>6 DEF CompressPut

(* CompressBlockStore_GetStoredBlock and the first step of the cache's. *)
LEMMA CompressGetStep ==
  ASSUME IInv, NEW g \in Gets, CompressGet(g), life = "up"
  PROVE  IInv'
<1>0. g \in Requests /\ g \notin Puts /\ <<g, "local">> \in Items
  BY ItemsOf DEF Requests
<1>1. /\ zreq' \in [Requests -> ZStages]
      /\ zreq[g] = "idle" /\ zreq'[g] = "called"
      /\ \A q \in Requests \ {g} : zreq'[q] = zreq[q]
      /\ zpending' = zpending + 1
      /\ UNCHANGED <<tagged, zflushVars, zblock, answer, holding, life>>
  BY <1>0 DEF CompressGet, Step, IInv, TypeOK, ZStages
<1>2. /\ answer[g] = <<>> /\ Untold(g) /\ g \notin holding
      /\ item[<<g, "local">>] = "none" /\ item[<<g, "remote">>] = "none"
      /\ item[<<g, "copy">>] = "none" /\ refCount[g] = 0
  <2>1. answer[g] = <<>> /\ Untold(g) /\ item[<<g, "local">>] = "none" /\ g \notin holding
    BY <1>1 DEF IInv, GetInv, GetCall
  <2>2. item[<<g, "remote">>] = "none" /\ item[<<g, "copy">>] = "none"
    BY <2>1 DEF IInv, GetInv, GetStage
  <2>3. ~Copying(g) /\ ~Using(g)
    BY <2>2 DEF Copying, Using
  <2> QED BY <2>1, <2>2, <2>3 DEF IInv, GetInv
<1>4. Busy(g)' /\ ~Busy(g)
  BY <1>1 DEF Busy
<1>5. CASE GetStoredBlock(g)
  <2>1. /\ Move(<<g, "local">>, "called") /\ pending' = pending + 1
        /\ UNCHANGED <<flushVars, storeVars, putVars, refCount, told, ask>>
    BY <1>5 DEF GetStoredBlock
  <2>2. /\ item' \in [Items -> Stages] /\ item'[<<g, "local">>] = "called"
        /\ item'[<<g, "remote">>] = item[<<g, "remote">>]
        /\ item'[<<g, "copy">>] = item[<<g, "copy">>]
        /\ \A j \in Items : j[1] # g => item'[j] = item[j]
        /\ \A j \in Items \ {<<g, "local">>} : Counted(j)' <=> Counted(j)
    <3>1. item \in [Items -> Stages] /\ "called" \in Stages
      BY DEF IInv, TypeOK, CacheTypeOK, Stages
    <3> QED BY <2>1, <3>1, GetLocalMoves
  <2>4. PendingCountsRequests' /\ pending' \in Nat /\ zpending' \in Nat
    <3>1. Counted(<<g, "local">>)' /\ ~Counted(<<g, "local">>)
      BY <1>2, <2>2 DEF Counted, Locked
    <3> QED BY <1>0, <1>1, <1>4, <2>1, <2>2, <3>1, CountsStep DEF IInv
  <2>5. TypeOK'
    BY <1>1, <2>1, <2>2, <2>4
       DEF IInv, TypeOK, CacheTypeOK, zflushVars, flushVars, storeVars, putVars
  <2>6. OnlyOf(g) /\ GoesForward(g)
    BY <1>0, <1>1, <1>2, <2>1, <2>2 DEF OnlyOf, GoesForward, Untold, putVars
  <2>7. GetInv(g)'
    <3>1. GetStage(g)'
      BY <1>2, <2>1, <2>2 DEF GetStage, Untold
    <3>2. GetCall(g)'
      BY <1>1, <1>2, <2>2 DEF GetCall
    <3>3. ~Copying(g)' /\ ~Using(g)' /\ ~Called(g, "ok")' /\ g \notin holding'
      BY <1>1, <1>2, <2>1, <2>2 DEF Copying, Using, Called, Untold
    <3>4. refCount'[g] = 0
      BY <1>2, <2>1
    <3> QED BY <3>1, <3>2, <3>3, <3>4 DEF GetInv
  <2> QED BY <1>0, <1>1, <2>1, <2>4, <2>5, <2>6, <2>7, RequestStep DEF storeVars
<1>6. CASE GetNoMemory(g)
  <2>1. /\ Tell(g, "return", "err")
        /\ UNCHANGED <<pending, flushVars, storeVars, item, putVars, refCount, ask>>
    BY <1>6 DEF GetNoMemory
  <2>2. /\ told' \in [Requests -> Seq(Tellings)] /\ Returned(g)'
        /\ \A q \in Requests \ {g} : told'[q] = told[q]
    <3>1. told \in [Requests -> Seq(Tellings)]
      BY DEF IInv, TypeOK, CacheTypeOK, Tellings
    <3> QED BY <1>0, <1>2, <2>1, <3>1, TellFirst DEF Returned, Outcomes
  <2>4. PendingCountsRequests' /\ zpending' \in Nat
    <3>1. \A j \in Items : Counted(j)' <=> Counted(j)
      BY <2>1 DEF Counted, Locked
    <3> QED BY <1>0, <1>1, <1>4, <2>1, <3>1, CountsStep DEF IInv
  <2>5. TypeOK'
    BY <1>1, <2>1, <2>2, <2>4
       DEF IInv, TypeOK, CacheTypeOK, zflushVars, flushVars, storeVars, putVars, Tellings
  <2>6. OnlyOf(g) /\ GoesForward(g)
    BY <1>0, <1>1, <1>2, <2>1, <2>2 DEF OnlyOf, GoesForward, Untold, putVars
  <2>7. GetInv(g)'
    <3>1. GetStage(g)'
      BY <1>2, <2>1, <2>2 DEF GetStage
    <3>2. GetCall(g)'
      BY <1>1, <1>2, <2>2 DEF GetCall
    <3>3. ~Copying(g)' /\ ~Using(g)' /\ ~Called(g, "ok")' /\ g \notin holding'
      BY <1>1, <1>2, <2>1, <2>2 DEF Copying, Using, Called, Returned
    <3>4. refCount'[g] = 0
      BY <1>2, <2>1
    <3> QED BY <3>1, <3>2, <3>3, <3>4 DEF GetInv
  <2> QED BY <1>0, <1>1, <2>1, <2>4, <2>5, <2>6, <2>7, RequestStep DEF storeVars
<1> QED BY <1>5, <1>6 DEF CompressGet

(* A request that this store has answered, or that is over, was answered. *)
LEMMA Answered ==
  ASSUME IInv, NEW r \in Requests, zreq[r] \in {"leaving", "done"}
  PROVE  answer[r] # <<>>
<1>1. CASE r \in Puts
  BY <1>1 DEF IInv, PutInv, PutCall
<1>2. CASE r \in Gets
  <2>1. \E e \in Outcomes : answer[r] = <<e>>
    BY <1>2 DEF IInv, GetInv, GetCall, Outcomes
  <2> QED BY <2>1
<1> QED BY <1>1, <1>2 DEF Requests

(* What a step of CompressBlockStore_CompleteRequest leaves alone. *)
LEMMA CompletingStep ==
  ASSUME IInv, NEW r \in Requests, zreq' \in [Requests -> ZStages],
         \/ zreq[r] \in {"leaving", "refused"} /\ zreq'[r] \in {"emptied", "unlocking"}
         \/ /\ zreq[r] \in {"emptied", "unlocking"}
            /\ zreq'[r] = IF answer[r] = <<>> THEN "failing" ELSE "done",
         \A q \in Requests \ {r} : zreq'[q] = zreq[q],
         UNCHANGED <<cacheVars, tagged, zblock, answer, holding, life>>
  PROVE  /\ OnlyOf(r) /\ GoesForward(r)
         /\ \A p \in Puts : PutInv(p)'
         /\ \A g \in Gets : GetInv(g)'
         /\ Flushing' /\ Asking'
<1>1. item' = item /\ told' = told /\ holding' = holding /\ answer' = answer
  BY DEF cacheVars
<1>6. /\ Returned(r)' <=> Returned(r)
      /\ \A e : Called(r, e)' <=> Called(r, e)
  BY <1>1 DEF Returned, Called
<1>7. \/ /\ answer[r] = <<>> /\ zreq[r] \in {"refused", "emptied", "unlocking"}
         /\ zreq'[r] \in {"emptied", "unlocking", "failing"}
      \/ /\ answer[r] # <<>> /\ zreq[r] \in {"leaving", "emptied", "unlocking"}
         /\ zreq'[r] \in {"emptied", "unlocking", "done"}
  <2>1. zreq[r] = "leaving" => answer[r] # <<>>
    BY Answered
  <2>2. zreq[r] = "refused" => answer[r] = <<>>
    BY DEF IInv, PutInv, PutCall, GetInv, GetCall, Requests
  <2> QED BY <2>1, <2>2
<1>8. \A e : <<e>> # <<>>
  OBVIOUS
<1>2. OnlyOf(r) /\ GoesForward(r)
  BY <1>1, <1>7 DEF OnlyOf, GoesForward, cacheVars, putVars, Untold
<1>3. ASSUME NEW p \in Puts PROVE PutInv(p)'
  <2>1. CASE p # r
    BY <1>2, <2>1, PutFrame DEF IInv, cacheVars, storeVars
  <2>2. CASE p = r
    <3>1. PutStage(p)'
      BY DEF IInv, PutInv, PutStage, Untold, Returned, Called, cacheVars, putVars
    <3>2. PutCall(p)'
      BY <1>1, <1>6, <1>7, <1>8, <2>2 DEF IInv, PutInv, PutCall
    <3> QED BY <3>1, <3>2 DEF IInv, PutInv, cacheVars, putVars, storeVars
  <2> QED BY <2>1, <2>2
<1>4. ASSUME NEW g \in Gets PROVE GetInv(g)'
  <2>1. CASE g # r
    BY <1>2, <2>1, GetFrame DEF IInv, cacheVars, storeVars
  <2>2. CASE g = r
    <3>1. GetStage(g)'
      BY <1>1, ZenonT(40) DEF IInv, GetInv, GetStage, Untold, Returned, Called
    <3>2. GetCall(g)'
      BY <1>1, <1>6, <1>7, <1>8, <2>2 DEF IInv, GetInv, GetCall
    <3>3. (Copying(g)' <=> Copying(g)) /\ (Using(g)' <=> Using(g))
      BY <1>1, <1>7, <2>2 DEF Copying, Using
    <3>4. g \in holding' =>
            Called(g, "ok")' /\ zreq'[g] \in {"leaving", "emptied", "unlocking", "done"}
      <4>1. Called(g, "ok") => ~Returned(g)
        BY DEF Called, Returned
      <4>2. g \in holding => Called(g, "ok") /\ answer[g] # <<>>
        BY <1>8, <4>1 DEF IInv, GetInv, GetCall
      <4> QED BY <1>1, <1>6, <1>7, <2>2, <4>2
    <3>5. Called(g, "ok")' => BlockOf[g] \in local' \cup remote'
      BY <1>1 DEF IInv, GetInv, Called, cacheVars, storeVars
    <3> QED BY <3>1, <3>2, <3>3, <3>4, <3>5 DEF IInv, GetInv, cacheVars
  <2> QED BY <2>1, <2>2
<1>5. Flushing' /\ Asking'
  <2>1. Flushing'
    BY DEF IInv, Flushing, Untold, Made, cacheVars, flushVars, putVars
  <2> QED BY <2>1, AskFrame DEF IInv, cacheVars, storeVars
<1> QED BY <1>2, <1>3, <1>4, <1>5

(* CompressBlockStore_CompleteRequest up to its decrement: when no request *)
(* is left in flight, every one that was made is answered, about to be, or *)
(* this one.                                                               *)
LEMMA CompressCompleteRequestStep ==
  ASSUME IInv, NEW r \in Requests, CompressCompleteRequest(r)
  PROVE  /\ IInv'
         /\ zpending' = 0 =>
              \A q \in Requests : zreq[q] # "idle" => Settled(q)' \/ zreq'[q] \in Locked
<1>1. /\ zreq' \in [Requests -> ZStages]
      /\ zreq[r] \in {"leaving", "refused"} /\ zreq'[r] \in {"emptied", "unlocking"}
      /\ \A q \in Requests \ {r} : zreq'[q] = zreq[q]
      /\ zpending' = zpending - 1
      /\ UNCHANGED <<cacheVars, tagged, zflushVars, zblock, answer, holding, life>>
  BY DEF CompressCompleteRequest, Step, IInv, TypeOK, ZStages
<1>2. /\ OnlyOf(r) /\ GoesForward(r)
      /\ \A p \in Puts : PutInv(p)'
      /\ \A g \in Gets : GetInv(g)'
      /\ Flushing' /\ Asking'
  BY <1>1, CompletingStep
<1>3. PendingCountsRequests' /\ zpending' \in Nat
  <2>1. ~Busy(r)' /\ Busy(r)
    BY <1>1 DEF Busy
  <2>2. PICK i : i = <<r, IF r \in Puts THEN "remote" ELSE "local">>
    OBVIOUS
  <2>3. i \in Items
    BY <2>2, ItemsOf DEF Requests
  <2>4. (\A j \in Items : Counted(j)' <=> Counted(j)) /\ pending' = pending
    BY <1>1 DEF Counted, cacheVars
  <2>5. life' = life
    BY <1>1
  <2> QED BY <1>1, <2>1, <2>3, <2>4, <2>5, CountsStep DEF IInv
<1>4. TypeOK'
  BY <1>1, <1>3 DEF IInv, TypeOK, CacheTypeOK, cacheVars, flushVars, storeVars, putVars,
                    zflushVars
<1>5. ZFlushing'
  <2>1. \A q \in Requests : /\ zreq[q] # "idle" => zreq'[q] # "idle"
                            /\ answer[q] # <<>> \/ zreq[q] = "failing" =>
                                  answer'[q] # <<>> \/ zreq'[q] = "failing"
    BY <1>2 DEF OnlyOf, GoesForward
  <2>2. /\ \A f \in Flushes : zcovers[f] \subseteq Requests
        /\ zflushList \subseteq Flushes
    BY DEF IInv, TypeOK
  <2> QED BY <1>1, <2>1, <2>2, ZFlushFrame DEF IInv
<1>6. ASSUME zpending' = 0, NEW q \in Requests, zreq[q] # "idle"
      PROVE  Settled(q)' \/ zreq'[q] \in Locked
  <2>1. IsFiniteSet(InFlight') /\ Cardinality(InFlight') = 0
    BY <1>3, <1>6, ItemsFinite, FS_Subset DEF InFlight, PendingCountsRequests
  <2>2. InFlight' = {}
    BY <2>1, FS_EmptySet
  <2>3. zreq'[q] \notin {"called", "leaving", "refused"}
    BY <2>2 DEF InFlight
  <2>4. zreq'[q] \in {"failing", "done"} \cup Locked
    BY <1>1, <1>6, <2>3 DEF ZStages, Locked
  <2>5. zreq'[q] = "done" => zreq[q] = "done"
    BY <1>1
  <2> QED BY <1>1, <2>4, <2>5, Answered DEF Settled
<1> QED BY <1>2, <1>3, <1>4, <1>5, <1>6 DEF IInv

(* The rest of it. *)
LEMMA CompressUnlockStep ==
  ASSUME IInv, Emptying, NEW r \in Requests, CompressUnlock(r)
  PROVE  IInv'
<1>1. /\ zreq' \in [Requests -> ZStages]
      /\ zreq[r] \in {"emptied", "unlocking"}
      /\ zreq'[r] = IF answer[r] = <<>> THEN "failing" ELSE "done"
      /\ \A q \in Requests \ {r} : zreq'[q] = zreq[q]
      /\ UNCHANGED <<cacheVars, tagged, zpending, zflush, zcovers, zblock, answer, holding, life>>
  BY DEF CompressUnlock, Step, IInv, TypeOK, ZStages, Locked
<1>2. \/ UNCHANGED <<zflushCalls, zflushList>>
      \/ /\ zreq[r] = "emptied"
         /\ zflushCalls' = zflushCalls \cup zflushList /\ zflushList' = {}
  BY DEF CompressUnlock
<1>3. /\ OnlyOf(r) /\ GoesForward(r)
      /\ \A p \in Puts : PutInv(p)'
      /\ \A g \in Gets : GetInv(g)'
      /\ Flushing' /\ Asking'
  BY <1>1, CompletingStep
<1>4. PendingCountsRequests'
  <2>1. InFlight' = InFlight
    BY <1>1 DEF InFlight
  <2> QED BY <1>1, <2>1 DEF IInv, PendingCountsRequests, Counted, Locked, cacheVars
<1>5. TypeOK'
  BY <1>1, <1>2 DEF IInv, TypeOK, CacheTypeOK, cacheVars, flushVars, storeVars, putVars
<1>6. ZFlushing'
  <2>1. \A q \in Requests : /\ zreq[q] # "idle" => zreq'[q] # "idle"
                            /\ answer[q] # <<>> \/ zreq[q] = "failing" =>
                                  answer'[q] # <<>> \/ zreq'[q] = "failing"
    BY <1>3 DEF OnlyOf, GoesForward
  <2>2. /\ \A f \in Flushes : zcovers[f] \subseteq Requests
        /\ zflushList \subseteq Flushes /\ zcovers' = zcovers /\ zflush' = zflush
    BY <1>1 DEF IInv, TypeOK
  <2>3. CASE UNCHANGED <<zflushCalls, zflushList>>
    BY <2>1, <2>2, <2>3, ZFlushFrame DEF IInv, zflushVars
  <2>4. CASE /\ zreq[r] = "emptied"
             /\ zflushCalls' = zflushCalls \cup zflushList /\ zflushList' = {}
    <3>1. \A f \in zflushList : \A q \in zcovers[f] : Settled(q) \/ zreq[q] \in Locked
      BY <2>4 DEF Emptying
    <3>2. ASSUME NEW q \in Requests, Settled(q) \/ zreq[q] \in Locked
          PROVE  answer'[q] # <<>> \/ zreq'[q] = "failing"
      <4>1. CASE q = r
        BY <1>1, <4>1
      <4>2. CASE q # r
        <5>1. zreq[q] \notin Locked
          BY <2>4, <4>2 DEF Emptying, Locked
        <5> QED BY <2>1, <3>2, <5>1 DEF Settled
      <4> QED BY <4>1, <4>2
    <3>3. \A f \in zflushList : \A q \in zcovers[f] :
              answer'[q] # <<>> \/ zreq'[q] = "failing"
      BY <2>2, <3>1, <3>2
    <3> QED BY <2>1, <2>2, <2>4, <3>3 DEF IInv, ZFlushing
  <2> QED BY <1>2, <2>3, <2>4
<1> QED BY <1>3, <1>4, <1>5, <1>6 DEF IInv

(* What the invariant says of requests, counts and the cache's flushes     *)
(* depends on nothing that a flush of this store or disposing changes.     *)
LEMMA CacheFrame ==
  ASSUME IInv, UNCHANGED <<cacheVars, tagged, zpending, zreq, zblock, answer, holding>>
  PROVE  /\ \A p \in Puts : PutInv(p)'
         /\ \A g \in Gets : GetInv(g)'
         /\ Flushing' /\ Asking' /\ InFlight' = InFlight
<1>1. ASSUME NEW p \in Puts PROVE PutInv(p)'
  <2>1. PutStage(p)'
    BY DEF IInv, PutInv, PutStage, Untold, Returned, Called, putVars, cacheVars
  <2> QED BY <2>1 DEF IInv, PutInv, PutCall, Returned, Called, putVars, cacheVars, storeVars
<1>2. ASSUME NEW g \in Gets PROVE GetInv(g)'
  <2>0. item' = item /\ told' = told
    BY DEF cacheVars
  <2>1. GetStage(g)'
    BY <2>0, ZenonT(40) DEF IInv, GetInv, GetStage, Untold, Returned, Called
  <2>2. GetCall(g)'
    BY <2>0 DEF IInv, GetInv, GetCall, Untold, Returned, Called
  <2>3. (Copying(g)' <=> Copying(g)) /\ (Using(g)' <=> Using(g))
    BY <2>0 DEF Copying, Using, Called
  <2> QED BY <2>0, <2>1, <2>2, <2>3 DEF IInv, GetInv, Called, cacheVars, storeVars
<1>3. Flushing'
  BY DEF IInv, Flushing, Untold, Made, cacheVars, flushVars, putVars
<1>4. Asking' /\ InFlight' = InFlight
  BY AskFrame DEF IInv, cacheVars, storeVars, InFlight
<1> QED BY <1>1, <1>2, <1>3, <1>4

(* A flush that was taken from the list is completed. *)
LEMMA CompressCallFlushStep ==
  ASSUME IInv, NEW f \in Flushes, CompressCallFlush(f)
  PROVE  IInv'
<1>1. /\ f \in zflushCalls /\ zflushCalls' = zflushCalls \ {f}
      /\ zflush' = [zflush EXCEPT ![f] = "done"]
      /\ UNCHANGED <<cacheVars, tagged, zpending, zflushList, zcovers, zreq, zblock, answer,
                     holding, life>>
  BY DEF CompressCallFlush
<1>2. TypeOK'
  BY <1>1 DEF IInv, TypeOK, CacheTypeOK, cacheVars, flushVars, storeVars, putVars
<1>3. ZFlushing'
  <2>1. f \notin zflushList
    BY <1>1 DEF IInv, ZFlushing
  <2>2. /\ zflush'[f] = "done"
        /\ \A h \in Flushes \ {f} : zflush'[h] = zflush[h]
        /\ zflushList \subseteq Flushes /\ zflushCalls \subseteq Flushes
    BY <1>1 DEF IInv, TypeOK
  <2> QED BY <1>1, <2>1, <2>2 DEF IInv, ZFlushing
<1>4. PendingCountsRequests'
  BY <1>1, CacheFrame DEF IInv, PendingCountsRequests, Counted, Locked, cacheVars
<1> QED BY <1>1, <1>2, <1>3, <1>4, CacheFrame DEF IInv

(* CompressBlockStore_Flush: with nothing in flight it covers nothing. *)
LEMMA CompressFlushStep ==
  ASSUME IInv, NEW f \in Flushes, CompressFlush(f)
  PROVE  IInv'
<1>1. /\ zflush[f] = "idle" /\ zcovers' = [zcovers EXCEPT ![f] = InFlight]
      /\ \/ /\ zpending > 0 /\ zflushList' = zflushList \cup {f}
            /\ zflush' = [zflush EXCEPT ![f] = "queued"]
         \/ /\ ~(zpending > 0) /\ zflush' = [zflush EXCEPT ![f] = "done"]
            /\ UNCHANGED zflushList
      /\ UNCHANGED <<cacheVars, tagged, zpending, zflushCalls, zreq, zblock, answer, holding,
                     life>>
  BY DEF CompressFlush
<1>2. InFlight \subseteq Requests
  BY DEF InFlight
<1>3. TypeOK'
  BY <1>1, <1>2 DEF IInv, TypeOK, CacheTypeOK, cacheVars, flushVars, storeVars, putVars
<1>4. ZFlushing'
  <2>1. /\ zflushList \subseteq Flushes /\ zflushCalls \subseteq Flushes
        /\ f \notin zflushList /\ f \notin zflushCalls
        /\ zcovers'[f] = InFlight /\ \A h \in Flushes \ {f} : zcovers'[h] = zcovers[h]
        /\ \A h \in Flushes \ {f} : zflush'[h] = zflush[h]
    BY <1>1 DEF IInv, TypeOK, ZFlushing
  <2>2. \A q \in InFlight : zreq[q] # "idle"
    BY DEF InFlight
  <2>3. CASE zpending > 0
    <3>1. zflushList' = zflushList \cup {f} /\ zflush'[f] = "queued"
      BY <1>1, <2>3 DEF IInv, TypeOK
    <3> QED BY <1>1, <2>1, <2>2, <3>1 DEF IInv, ZFlushing
  <2>4. CASE ~(zpending > 0)
    <3>1. zflushList' = zflushList /\ zflush'[f] = "done"
      BY <1>1, <2>4 DEF IInv, TypeOK
    <3>2. InFlight = {}
      <4>1. zpending \in Nat
        BY DEF IInv, TypeOK
      <4>2. zpending = 0
        BY <2>4, <4>1
      <4> QED BY <4>2, NoneCounted DEF IInv, InFlight, Busy
    <3> QED BY <1>1, <2>1, <3>1, <3>2 DEF IInv, ZFlushing
  <2> QED BY <2>3, <2>4
<1>5. PendingCountsRequests'
  BY <1>1, CacheFrame DEF IInv, PendingCountsRequests, Counted, Locked, cacheVars
<1> QED BY <1>1, <1>3, <1>4, <1>5, CacheFrame DEF IInv

(* A store that was freed is used: the process ends. *)
LEMMA UseFreedStep ==
  ASSUME IInv, UseFreed
  PROVE  IInv'
<1>1. /\ UNCHANGED <<cacheVars, tagged, zpending, zflushVars, zreq, zblock, answer, holding>>
      /\ life' = "crashed"
  BY DEF UseFreed
<1>2. TypeOK'
  BY <1>1 DEF IInv, TypeOK, CacheTypeOK, cacheVars, flushVars, storeVars, putVars, zflushVars
<1>3. ZFlushing'
  BY <1>1 DEF IInv, ZFlushing, zflushVars
<1>4. PendingCountsRequests'
  BY <1>1, CacheFrame DEF IInv, PendingCountsRequests, Counted, cacheVars
<1> QED BY <1>1, <1>2, <1>3, <1>4, CacheFrame DEF IInv

(* The stores are disposed of when their counts are 0. *)
LEMMA DisposeStep ==
  ASSUME IInv, CompressDispose \/ CacheDispose
  PROVE  IInv'
<1>1. /\ UNCHANGED <<cacheVars, tagged, zpending, zflushVars, zreq, zblock, answer, holding>>
      /\ life' \in {"compress disposed", "disposed"}
  BY DEF CompressDispose, CacheDispose
<1>2. TypeOK'
  BY <1>1 DEF IInv, TypeOK, CacheTypeOK, cacheVars, flushVars, storeVars, putVars, zflushVars
<1>3. ZFlushing'
  BY <1>1 DEF IInv, ZFlushing, zflushVars
<1>4. PendingCountsRequests'
  <2>1. InFlight' = {}
    <3>1. CASE CompressDispose
      <4>1. \A r \in Requests : ~Busy(r)
        BY <3>1, NoneCounted DEF CompressDispose, IInv
      <4> QED BY <1>1, <4>1, CacheFrame DEF InFlight, Busy
    <3>2. CASE CacheDispose
      BY <1>1, <3>2, CacheFrame DEF CacheDispose, IInv, PendingCountsRequests
    <3> QED BY <3>1, <3>2
  <2>2. life' = "disposed" => \A i \in Items : ~Counted(i)'
    <3>1. life' = "disposed" => pending = 0
      BY DEF CompressDispose, CacheDispose
    <3> QED BY <1>1, <3>1, NoneCounted DEF IInv, Counted, Locked, cacheVars
  <2>3. /\ pending' = Cardinality({i \in Items : Counted(i)'})
        /\ zpending' = Cardinality(InFlight')
    BY <1>1, CacheFrame DEF IInv, PendingCountsRequests, Counted, Locked, cacheVars
  <2> QED BY <2>1, <2>2, <2>3 DEF PendingCountsRequests
<1> QED BY <1>1, <1>2, <1>3, <1>4, CacheFrame DEF IInv

--------------------------------------------------------------------------------
(* The invariant is one. *)

(* The stores begin with it. *)
LEMMA InitInv == ASSUME Init PROVE IInv
<1>1. TypeOK
  BY DEF Init, CacheInit, TypeOK, CacheTypeOK, Stages, Outcomes, Idle, ZStages
<1>2. ASSUME NEW p \in Puts PROVE PutInv(p)
  <2>1. /\ item[<<p, "remote">>] = "none" /\ item[<<p, "local">>] = "none"
        /\ p \in Requests
    BY ItemsOf DEF Init, CacheInit, Requests
  <2>2. PutStage(p)
    BY <2>1 DEF Init, CacheInit, PutStage, Untold
  <2>3. PutCall(p)
    BY <2>1 DEF Init, CacheInit, PutCall
  <2> QED BY <2>2, <2>3 DEF PutInv, Init, CacheInit
<1>3. ASSUME NEW g \in Gets PROVE GetInv(g)
  <2>1. /\ item[<<g, "remote">>] = "none" /\ item[<<g, "local">>] = "none"
        /\ item[<<g, "copy">>] = "none" /\ g \in Requests
    BY ItemsOf DEF Init, CacheInit, Requests
  <2>2. Untold(g) /\ ~Called(g, "ok") /\ g \notin holding
    BY <2>1 DEF Init, CacheInit, Untold, Called
  <2>3. GetStage(g)
    BY <2>1, <2>2 DEF GetStage
  <2>4. GetCall(g)
    BY <2>1, <2>2 DEF Init, GetCall
  <2>5. ~Copying(g) /\ ~Using(g)
    BY <2>1 DEF Copying, Using
  <2> QED BY <2>2, <2>3, <2>4, <2>5 DEF GetInv, Init, CacheInit
<1>4. PendingCountsRequests
  <2>1. \A i \in Items : ~Counted(i)
    BY DEF Init, CacheInit, Counted, Locked
  <2>2. {i \in Items : Counted(i)} = {} /\ InFlight = {}
    BY <2>1 DEF InFlight, Init
  <2> QED BY <2>2, FS_EmptySet DEF PendingCountsRequests, Init, CacheInit
<1>5. Flushing /\ ZFlushing
  BY DEF Init, CacheInit, Flushing, ZFlushing
<1>6. Asking
  BY DEF Init, CacheInit, Asking, Idle
<1> QED BY <1>1, <1>2, <1>3, <1>4, <1>5, <1>6 DEF IInv

(* Steps that change nothing keep it. *)
LEMMA StutterStep == ASSUME IInv, UNCHANGED vars PROVE IInv'
<1>1. UNCHANGED <<cacheVars, zVars>>
  BY DEF vars
<1>2. UNCHANGED <<pending, flushVars, storeVars, item, putVars, refCount, told, ask, zVars>>
  BY <1>1 DEF cacheVars
<1>3. TypeOK'
  BY <1>2 DEF IInv, TypeOK, CacheTypeOK, zVars, zflushVars, flushVars, storeVars, putVars
<1>4. Flushing'
  BY <1>2, RequestsFrame DEF IInv, Flushing, Untold, flushVars
<1>5. Asking'
  BY <1>2, AskFrame DEF IInv, storeVars
<1> QED BY <1>2, <1>3, <1>4, <1>5, RequestsFrame DEF IInv

(* Every step of either store keeps it. *)
LEMMA NextInv == ASSUME IInv, Emptying, Next PROVE IInv'
<1>0. life # "crashed"
  BY DEF Next
<1>1. CASE Call
  BY <1>1, RequestFailsStep, CompressPutStep, CompressGetStep, CompressFlushStep, FlushStep,
     AskStep DEF Call
<1>2. ASSUME NEW r \in Requests, RequestGoesOn(r) PROVE IInv'
  <2>1. CASE CompressCompleteRequest(r) \/ CompressUnlock(r) \/ ReturnError(r)
    BY <2>1, CompressCompleteRequestStep, CompressUnlockStep, ReturnErrorStep
  <2>2. CASE r \in Puts /\ (BackingRefusesPut(r) \/ OnPutBackingStoreComplete(r))
    BY <1>0, <2>2, BackingRefusesPutStep, OnPutBackingStoreCompleteStep
  <2>3. CASE r \in Gets /\ (BackingRefusesGet(r) \/ OnGetBackingStoreComplete(r))
    BY <2>3, BackingRefusesGetStep, OnGetBackingStoreCompleteStep
  <2>4. CASE r \in Puts /\ CachePut(r) /\ UNCHANGED zVars
    BY <2>4, RemoteRefusesPutStep, PutFailsStep, RemoteAcceptsPutStep, LocalPutNoMemoryStep,
       PutRemoteCompleteStep, PutLocalCompleteStep DEF CachePut
  <2>5. CASE r \in Gets /\ CacheGet(r) /\ UNCHANGED zVars
    BY <2>5, GetLocalCompleteStep, GetLocalMissesStep, GetRemoteNoMemoryStep,
       RemoteRefusesGetStep, RemoteAcceptsGetStep, LocalGoesOnStep, GetRemoteFailsStep,
       GetRemoteCompleteStep, CopyToLocalStep, CopyNoMemoryStep, LocalRefusesCopyStep,
       RemoteGoesOnStep, LocalAcceptsCopyStep, CopyCompleteStep DEF CacheGet
  <2>6. CASE \E i \in Items : i[1] = r /\ CacheItem(i) /\ UNCHANGED zVars
    BY <2>6, CompleteRequestStep, UnlockStep, AnswerReturnsStep DEF CacheItem
  <2> QED BY <1>2, <2>1, <2>2, <2>3, <2>4, <2>5, <2>6 DEF RequestGoesOn
<1>3. ASSUME NEW g \in Gets, GiveBack(g) PROVE IInv'
  BY <1>3, GiveBackStep
<1>4. ASSUME NEW f \in Flushes, FlushGoesOn(f) PROVE IInv'
  BY <1>4, CompressCallFlushStep, CallFlushStep DEF FlushGoesOn
<1>5. ASSUME NEW a \in Asks, AskGoesOn(a) PROVE IInv'
  <2>1. {} \in SUBSET Hashes
    OBVIOUS
  <2> QED BY <1>5, <2>1, AskStep DEF AskGoesOn
<1> QED BY <1>1, <1>2, <1>3, <1>4, <1>5, DisposeStep, UseFreedStep DEF Next

--------------------------------------------------------------------------------
(* Emptying. *)

(* What most steps leave as it is for it: the lists and what they cover,   *)
(* who was told, and who is in CompleteRequest.                            *)
Quiet ==
    /\ UNCHANGED <<flushList, covers>>
    /\ \A i \in Items : item'[i] = "emptied" => item[i] = "emptied"
    /\ \A r \in Requests : ~Untold(r) => ~Untold(r)'
ZQuiet ==
    /\ UNCHANGED <<zflushList, zcovers>>
    /\ \A r \in Requests : Settled(r) => Settled(r)'
    /\ \A r \in Requests : zreq'[r] \in Locked \/ zreq[r] \in Locked => zreq'[r] = zreq[r]

(* Telling a caller something leaves nobody untold that was told. *)
LEMMA TellKeeps ==
  ASSUME IInv, told' = told \/ \E r \in Requests : \E how, e : Tell(r, how, e)
  PROVE  \A r \in Requests : ~Untold(r) => ~Untold(r)'
<1>1. CASE told' = told
  BY <1>1 DEF Untold
<1>2. ASSUME NEW r \in Requests, NEW how, NEW e, Tell(r, how, e),
             NEW q \in Requests, ~Untold(q)
      PROVE  ~Untold(q)'
  <2>1. told \in [Requests -> Seq(Tellings)]
    BY DEF IInv, TypeOK, CacheTypeOK, Tellings
  <2>2. ASSUME NEW x PROVE Append(told[r], x) # <<>>
    BY <2>1
  <2>3. told'[q] = IF q = r THEN Append(told[r], [by |-> how, err |-> e]) ELSE told[q]
    BY <1>2, <2>1 DEF Tell
  <2> QED BY <1>2, <2>2, <2>3 DEF Untold
<1> QED BY <1>1, <1>2

(* The steps of a Put in the cache store. *)
LEMMA CachePutQuiet ==
  ASSUME IInv, NEW p \in Puts, PutStoredBlock(p) \/ PutNoMemory(p) \/ CachePut(p)
  PROVE  Quiet
<1>1. item \in [Items -> Stages] /\ p \in Requests
  BY DEF IInv, TypeOK, CacheTypeOK, Requests
<1>2. UNCHANGED <<flushList, covers>>
  BY DEF PutStoredBlock, PutNoMemory, CachePut, RemoteRefusesPut, PutFails, RemoteAcceptsPut,
         LocalPutNoMemory, PutRemoteComplete, PutLocalComplete, flushVars
<1>3. \A i \in Items : item'[i] = "emptied" => item[i] = "emptied"
  BY <1>1 DEF PutStoredBlock, PutNoMemory, CachePut, RemoteRefusesPut, PutFails,
         RemoteAcceptsPut, LocalPutNoMemory, PutRemoteComplete, PutLocalComplete, CountDown, Move
<1>4. told' = told \/ \E r \in Requests : \E how, e : Tell(r, how, e)
  BY <1>1 DEF PutStoredBlock, PutNoMemory, CachePut, RemoteRefusesPut, PutFails,
         RemoteAcceptsPut, LocalPutNoMemory, PutRemoteComplete, PutLocalComplete, CountDown
<1> QED BY <1>2, <1>3, <1>4, TellKeeps DEF Quiet

(* The steps of a Get in the cache store. *)
LEMMA CacheGetQuiet ==
  ASSUME IInv, NEW g \in Gets, GetStoredBlock(g) \/ GetNoMemory(g) \/ CacheGet(g)
  PROVE  Quiet
<1>1. item \in [Items -> Stages] /\ g \in Requests
  BY DEF IInv, TypeOK, CacheTypeOK, Requests
<1>2. UNCHANGED <<flushList, covers>>
  BY DEF GetStoredBlock, GetNoMemory, CacheGet, GetLocalComplete, GetLocalMisses,
         GetRemoteNoMemory, RemoteRefusesGet, RemoteAcceptsGet, LocalGoesOn, GetRemoteFails,
         GetRemoteComplete, CopyToLocal, CopyNoMemory, LocalRefusesCopy, RemoteGoesOn,
         LocalAcceptsCopy, CopyComplete, flushVars
<1>3. \A i \in Items : item'[i] = "emptied" => item[i] = "emptied"
  BY <1>1 DEF GetStoredBlock, GetNoMemory, CacheGet, GetLocalComplete, GetLocalMisses,
         GetRemoteNoMemory, RemoteRefusesGet, RemoteAcceptsGet, LocalGoesOn, GetRemoteFails,
         GetRemoteComplete, CopyToLocal, CopyNoMemory, LocalRefusesCopy, RemoteGoesOn,
         LocalAcceptsCopy, CopyComplete, Move, Move2
<1>4. told' = told \/ \E r \in Requests : \E how, e : Tell(r, how, e)
  BY <1>1 DEF GetStoredBlock, GetNoMemory, CacheGet, GetLocalComplete, GetLocalMisses,
         GetRemoteNoMemory, RemoteRefusesGet, RemoteAcceptsGet, LocalGoesOn, GetRemoteFails,
         GetRemoteComplete, CopyToLocal, CopyNoMemory, LocalRefusesCopy, RemoteGoesOn,
         LocalAcceptsCopy, CopyComplete
<1> QED BY <1>2, <1>3, <1>4, TellKeeps DEF Quiet

(* The steps of this store that are not of CompleteRequest or Flush. *)
LEMMA StepQuiet ==
  ASSUME IInv, NEW r \in Requests, NEW s \in ZStages \ Locked, Step(r, s),
         zreq[r] \notin Locked \cup {"failing"} \/ (\E e : Answer(r, e)),
         zreq[r] \notin Locked,
         answer' = answer \/ (\E e : Answer(r, e)),
         UNCHANGED <<zflushList, zcovers>>
  PROVE  ZQuiet
<1>1. zreq \in [Requests -> ZStages] /\ answer \in [Requests -> Seq(Outcomes)]
  BY DEF IInv, TypeOK
<1>2. \A q \in Requests : zreq'[q] = IF q = r THEN s ELSE zreq[q]
  BY <1>1 DEF Step
<1>3. ASSUME NEW q \in Requests
      PROVE  \/ answer'[q] = answer[q]
             \/ q = r /\ answer'[q] # <<>>
  <2>1. ASSUME NEW e, Answer(r, e)
        PROVE  \/ answer'[q] = answer[q]
               \/ q = r /\ answer'[q] # <<>>
    <3>1. Append(answer[r], e) # <<>>
      BY <1>1
    <3> QED BY <1>1, <2>1, <3>1 DEF Answer
  <2> QED BY <2>1
<1>4. (\E e : Answer(r, e)) => answer'[r] # <<>>
  <2>1. ASSUME NEW e, Answer(r, e) PROVE answer'[r] # <<>>
    <3>1. Append(answer[r], e) # <<>>
      BY <1>1
    <3> QED BY <1>1, <2>1, <3>1 DEF Answer
  <2> QED BY <2>1
<1>5. \A q \in Requests : Settled(q) => Settled(q)'
  BY <1>2, <1>3, <1>4 DEF Settled
<1>6. \A q \in Requests : zreq'[q] \in Locked \/ zreq[q] \in Locked => zreq'[q] = zreq[q]
  BY <1>2
<1> QED BY <1>5, <1>6 DEF ZQuiet

(* Emptying is not disturbed by a step that is quiet in both stores. *)
LEMMA QuietEmptying ==
  ASSUME IInv, Emptying, Quiet, ZQuiet
  PROVE  Emptying'
<1>1. /\ \A f \in Flushes : covers[f] \subseteq Requests /\ zcovers[f] \subseteq Requests
      /\ flushList \subseteq Flushes /\ zflushList \subseteq Flushes
  BY DEF IInv, TypeOK, CacheTypeOK
<1>2. \A i \in Items : item'[i] = "emptied" =>
          \A f \in flushList' : \A r \in covers'[f] : ~Untold(r)'
  BY <1>1 DEF Emptying, Quiet
<1>3. \A r \in Requests : zreq'[r] = "emptied" => zreq[r] = "emptied"
  BY DEF ZQuiet, Locked
<1>4. \A r \in Requests : zreq'[r] = "emptied" =>
          \A f \in zflushList' : \A q \in zcovers'[f] : Settled(q)' \/ zreq'[q] \in Locked
  BY <1>1, <1>3 DEF Emptying, ZQuiet
<1>5. \A r, q \in Requests : zreq'[r] \in Locked /\ zreq'[q] \in Locked => r = q
  BY DEF Emptying, ZQuiet
<1> QED BY <1>2, <1>4, <1>5 DEF Emptying

(* A step that changes nothing of this in one of the stores. *)
LEMMA Still ==
  /\ UNCHANGED <<item, told, flushList, covers>> => Quiet
  /\ UNCHANGED <<zreq, answer, zflushList, zcovers>> => ZQuiet
BY DEF Quiet, ZQuiet, Untold, Settled

(* The calls that are made. *)
LEMMA CallEmptying ==
  ASSUME IInv, Emptying, Call
  PROVE  Emptying'
<1>1. ASSUME NEW r \in Requests, RequestFails(r) PROVE Emptying'
  <2>1. Quiet
    BY <1>1, Still DEF RequestFails, cacheVars, flushVars
  <2>2. ZQuiet
    <3>1. "done" \in ZStages \ Locked /\ zreq[r] = "idle" /\ "idle" \notin Locked
      BY <1>1 DEF ZStages, Locked, RequestFails
    <3>2. Step(r, "done") /\ Answer(r, "err") /\ UNCHANGED <<zflushList, zcovers>>
      BY <1>1 DEF RequestFails, zflushVars
    <3> QED BY <3>1, <3>2, StepQuiet
  <2> QED BY <2>1, <2>2, QuietEmptying
<1>2. ASSUME NEW r \in Requests, Step(r, "called"), zreq[r] = "idle", answer' = answer,
             UNCHANGED zflushVars, Quiet
      PROVE  Emptying'
  <2>1. "called" \in ZStages \ Locked /\ "idle" \notin Locked \cup {"failing"}
    BY DEF ZStages, Locked
  <2>2. ZQuiet
    BY <1>2, <2>1, StepQuiet DEF zflushVars
  <2> QED BY <1>2, <2>2, QuietEmptying
<1>3. ASSUME NEW p \in Puts, CompressPut(p) PROVE Emptying'
  BY <1>2, <1>3, CachePutQuiet DEF CompressPut, Requests
<1>4. ASSUME NEW g \in Gets, CompressGet(g) PROVE Emptying'
  BY <1>2, <1>4, CacheGetQuiet DEF CompressGet, Requests
<1>5. ASSUME NEW f \in Flushes, CompressFlush(f) PROVE Emptying'
  <2>1. /\ \A r \in Requests : zreq[r] \notin Locked
        /\ UNCHANGED <<item, told, flushList, covers, zreq>>
    BY <1>5 DEF CompressFlush, ZLockFree, cacheVars, flushVars
  <2> QED BY <2>1 DEF Emptying, Locked, Untold
<1>6. ASSUME NEW f \in Flushes, Flush(f), UNCHANGED zVars PROVE Emptying'
  <2>1. /\ \A i \in Items : item[i] # "emptied"
        /\ UNCHANGED <<item, zreq, answer, zflushList, zcovers>>
    BY <1>6 DEF Flush, LockFree, Locked, zVars, zflushVars
  <2> QED BY <2>1 DEF Emptying, Settled
<1>7. ASSUME NEW a \in Asks, NEW want, Ask(a, want), UNCHANGED zVars PROVE Emptying'
  BY <1>7, Still, QuietEmptying DEF Ask, flushVars, zVars, zflushVars
<1> QED BY <1>1, <1>3, <1>4, <1>5, <1>6, <1>7 DEF Call

(* CompleteRequest in the cache store. *)
LEMMA ItemEmptying ==
  ASSUME IInv, Emptying, NEW i \in Items, CacheItem(i), UNCHANGED zVars
  PROVE  Emptying'
<1>1. /\ item \in [Items -> Stages]
      /\ \A f \in Flushes : covers[f] \subseteq Requests
      /\ flushList \subseteq Flushes
      /\ UNCHANGED <<zreq, answer, zflushList, zcovers>>
  BY DEF IInv, TypeOK, CacheTypeOK, zVars, zflushVars
<1>2. CASE CompleteRequest(i)
  <2>1. /\ \A j \in Items : item[j] # "emptied"
        /\ \A j \in Items \ {i} : item'[j] = item[j]
        /\ item'[i] = "emptied" => pending' = 0
        /\ UNCHANGED <<told, flushList, covers>>
    BY <1>1, <1>2 DEF CompleteRequest, LockFree, Locked, Move, flushVars
  <2>2. item'[i] = "emptied" => \A r \in Made : ~Untold(r)
    BY <1>2, <2>1, CompleteRequestStep
  <2>3. \A f \in flushList : covers[f] \subseteq Made
    BY DEF IInv, Flushing
  <2> QED BY <1>1, <2>1, <2>2, <2>3 DEF Emptying, Untold, Settled
<1>3. CASE Unlock(i)
  <2>1. /\ \A j \in Items \ {i} : item'[j] = item[j]
        /\ item'[i] = "done" /\ flushList' \subseteq flushList
        /\ UNCHANGED <<told, covers>>
    BY <1>1, <1>3 DEF Unlock, Move
  <2> QED BY <1>1, <2>1 DEF Emptying, Untold, Settled
<1>4. CASE AnswerReturns(i)
  <2>1. /\ \A j \in Items : item'[j] = "emptied" => item[j] = "emptied"
        /\ UNCHANGED <<told, flushList, covers>>
    BY <1>1, <1>4 DEF AnswerReturns, Move, flushVars
  <2>2. Quiet
    BY <2>1 DEF Quiet, Untold
  <2> QED BY <1>1, <2>2, Still, QuietEmptying
<1> QED BY <1>2, <1>3, <1>4 DEF CacheItem

(* CompleteRequest in this store. *)
LEMMA CompletingEmptying ==
  ASSUME IInv, Emptying, NEW r \in Requests,
         CompressCompleteRequest(r) \/ CompressUnlock(r)
  PROVE  Emptying'
<1>1. /\ zreq \in [Requests -> ZStages]
      /\ \A f \in Flushes : zcovers[f] \subseteq Requests
      /\ zflushList \subseteq Flushes
      /\ UNCHANGED <<item, told, flushList, covers, answer>>
  BY DEF IInv, TypeOK, CompressCompleteRequest, CompressUnlock, cacheVars, flushVars
<1>2. CASE CompressCompleteRequest(r)
  <2>1. /\ \A q \in Requests : zreq[q] \notin Locked
        /\ \A q \in Requests \ {r} : zreq'[q] = zreq[q]
        /\ zreq'[r] = "emptied" => zpending' = 0
        /\ UNCHANGED <<zflushList, zcovers>>
    BY <1>1, <1>2 DEF CompressCompleteRequest, ZLockFree, Step, zflushVars
  <2>2. \A q \in Requests \ {r} : zreq'[q] \notin Locked /\ zreq'[q] # "emptied"
    BY <2>1 DEF Locked
  <2>3. zreq'[r] = "emptied" =>
          \A q \in Requests : zreq[q] # "idle" => Settled(q)' \/ zreq'[q] \in Locked
    BY <1>2, <2>1, CompressCompleteRequestStep
  <2>4. \A f \in zflushList : \A q \in zcovers[f] : zreq[q] # "idle"
    BY DEF IInv, ZFlushing
  <2>5. \A q \in Requests : zreq'[q] = "emptied" =>
          \A f \in zflushList' : \A t \in zcovers'[f] : Settled(t)' \/ zreq'[t] \in Locked
    BY <1>1, <2>1, <2>2, <2>3, <2>4
  <2> QED BY <1>1, <2>2, <2>5 DEF Emptying, Untold
<1>3. CASE CompressUnlock(r)
  <2>1. /\ zreq[r] \in Locked /\ zreq'[r] \notin Locked
        /\ \A q \in Requests \ {r} : zreq'[q] = zreq[q]
    BY <1>1, <1>3 DEF CompressUnlock, Step, Locked
  <2>2. \A q \in Requests : zreq'[q] \notin Locked
    BY <2>1 DEF Emptying
  <2>3. \A q \in Requests : zreq'[q] # "emptied"
    BY <2>2 DEF Locked
  <2> QED BY <1>1, <2>2, <2>3 DEF Emptying, Untold
<1> QED BY <1>2, <1>3

(* What a request goes on with in this store. *)
LEMMA GoesOnEmptying ==
  ASSUME IInv, Emptying, NEW r \in Requests,
         \/ ReturnError(r)
         \/ r \in Puts /\ (BackingRefusesPut(r) \/ OnPutBackingStoreComplete(r))
         \/ r \in Gets /\ (BackingRefusesGet(r) \/ OnGetBackingStoreComplete(r))
  PROVE  Emptying'
<1>1. Quiet
  <2>1. UNCHANGED <<item, told, flushList, covers>>
    BY DEF ReturnError, BackingRefusesPut, OnPutBackingStoreComplete, BackingRefusesGet,
           OnGetBackingStoreComplete, DisposeBlock, cacheVars, flushVars
  <2> QED BY <2>1, Still
<1>2. ZQuiet
  <2>1. /\ {"done", "refused", "leaving"} \subseteq ZStages \ Locked
        /\ "called" \notin Locked \cup {"failing"} /\ "failing" \notin Locked
    BY DEF ZStages, Locked
  <2>2. CASE ReturnError(r)
    BY <2>1, <2>2, StepQuiet DEF ReturnError, zflushVars
  <2>3. CASE BackingRefusesPut(r)
    <3>1. zreq[r] = "called" /\ answer' = answer /\ UNCHANGED <<zflushList, zcovers>>
      BY <2>3 DEF BackingRefusesPut, Told, zflushVars
    <3>2. Step(r, "refused") \/ zreq' = zreq
      BY <2>3 DEF BackingRefusesPut
    <3> QED BY <2>1, <3>1, <3>2, StepQuiet, Still
  <2>4. CASE OnPutBackingStoreComplete(r)
    BY <2>1, <2>4, StepQuiet DEF OnPutBackingStoreComplete, Told, zflushVars
  <2>5. CASE BackingRefusesGet(r)
    BY <2>1, <2>5, StepQuiet DEF BackingRefusesGet, Told, zflushVars
  <2>6. CASE OnGetBackingStoreComplete(r)
    BY <2>1, <2>6, StepQuiet DEF OnGetBackingStoreComplete, Told, zflushVars
  <2> QED BY <2>2, <2>3, <2>4, <2>5, <2>6
<1> QED BY <1>1, <1>2, QuietEmptying

(* Every step keeps it. *)
LEMMA NextEmptying == ASSUME IInv, Emptying, Next PROVE Emptying'
<1>1. CASE Call
  BY <1>1, CallEmptying
<1>2. ASSUME NEW r \in Requests, RequestGoesOn(r) PROVE Emptying'
  <2>1. CASE r \in Puts /\ CachePut(r) /\ UNCHANGED zVars
    BY <2>1, CachePutQuiet, Still, QuietEmptying DEF zVars, zflushVars
  <2>2. CASE r \in Gets /\ CacheGet(r) /\ UNCHANGED zVars
    BY <2>2, CacheGetQuiet, Still, QuietEmptying DEF zVars, zflushVars
  <2> QED BY <1>2, <2>1, <2>2, CompletingEmptying, GoesOnEmptying, ItemEmptying
          DEF RequestGoesOn
<1>3. ASSUME UNCHANGED <<item, told, flushList, covers, zreq, answer, zflushList, zcovers>>
      PROVE  Emptying'
  BY <1>3, Still, QuietEmptying
<1>4. ASSUME NEW g \in Gets, GiveBack(g) PROVE Emptying'
  BY <1>3, <1>4 DEF GiveBack, DisposeBlock, cacheVars, flushVars, zflushVars
<1>5. ASSUME NEW f \in Flushes, FlushGoesOn(f) PROVE Emptying'
  BY <1>3, <1>5 DEF FlushGoesOn, CallFlush, CompressCallFlush, cacheVars, flushVars, zVars,
                    zflushVars
<1>6. ASSUME NEW a \in Asks, AskGoesOn(a) PROVE Emptying'
  BY <1>3, <1>6 DEF AskGoesOn, AskLocalComplete, AskRemoteComplete, AskFails, flushVars, zVars,
                    zflushVars
<1>7. CASE CompressDispose \/ CacheDispose \/ UseFreed
  BY <1>3, <1>7 DEF CompressDispose, CacheDispose, UseFreed, cacheVars, flushVars, zflushVars
<1> QED BY <1>1, <1>2, <1>4, <1>5, <1>6, <1>7 DEF Next

(* The stores keep the inductive invariant, whatever calls are made of     *)
(* them and whatever the stores below answer, in any order.                *)
THEOREM Invariance == Spec => [](IInv /\ Emptying)
<1>1. Init => IInv /\ Emptying
  <2>1. Init => Emptying
    BY DEF Init, CacheInit, Emptying, Locked
  <2> QED BY <2>1, InitInv
<1>2. IInv /\ Emptying /\ [Next]_vars => IInv' /\ Emptying'
  <2>1. ASSUME IInv, Emptying, UNCHANGED vars PROVE Emptying'
    BY <2>1, Still, QuietEmptying DEF vars, cacheVars, flushVars, zVars, zflushVars
  <2> QED BY <2>1, NextInv, StutterStep, NextEmptying
<1> QED BY <1>1, <1>2, PTL DEF Spec

--------------------------------------------------------------------------------
(* The properties. *)

(* Types: in particular no reference count goes below 0 or above 2, and no *)
(* m_PendingCount of a Put below 0.                                        *)
THEOREM TypeCorrect == Spec => []TypeOK
<1>1. IInv => TypeOK
  BY DEF IInv
<1> QED BY <1>1, Invariance, PTL

(* m_PendingRequestCount of either store is the number of its completions  *)
(* that have not counted down in CompleteRequest.  Of a store that is      *)
(* disposed of none of them is left; one that has counted down may still   *)
(* be about to unlock what Dispose freed (cache lines 31 to 34, compress   *)
(* lines 32 to 35).                                                        *)
THEOREM PendingCorrect == Spec => []PendingCountsRequests
<1>1. IInv => PendingCountsRequests
  BY DEF IInv
<1> QED BY <1>1, Invariance, PTL

(* Either an error is returned or OnComplete is called, once; a Put that   *)
(* is answered with success is in the remote store.                        *)
THEOREM OutcomesCorrect == Spec => []OneTrueOutcome
<1>1. ASSUME IInv PROVE OneTrueOutcome
  <2>0. ASSUME NEW r \in Requests
        PROVE  /\ Untold(r) \/ Returned(r) \/ (\E e \in Outcomes : Called(r, e)) =>
                     Len(told[r]) <= 1
               /\ answer[r] = <<>> \/ (\E e \in Outcomes : answer[r] = <<e>>) =>
                     Len(answer[r]) <= 1
               /\ zreq[r] = "done" => answer[r] # <<>>
    <3>1. Untold(r) => Len(told[r]) = 0
      BY DEF Untold
    <3>2. Returned(r) => Len(told[r]) = 1
      BY DEF Returned
    <3>3. ASSUME NEW e \in Outcomes, Called(r, e) PROVE Len(told[r]) = 1
      BY <3>3 DEF Called
    <3>4. answer[r] = <<>> => Len(answer[r]) = 0
      OBVIOUS
    <3>5. ASSUME NEW e \in Outcomes, answer[r] = <<e>> PROVE Len(answer[r]) = 1
      BY <3>5
    <3>6. zreq[r] = "done" => answer[r] # <<>>
      BY <1>1, Answered
    <3>7. Untold(r) \/ Returned(r) \/ (\E e \in Outcomes : Called(r, e)) => Len(told[r]) <= 1
      <4>1. CASE Untold(r)
        BY <3>1, <4>1
      <4>2. CASE Returned(r)
        <5>1. Len(told[r]) = 1
          BY <3>2, <4>2
        <5> QED BY <5>1
      <4>3. CASE \E e \in Outcomes : Called(r, e)
        <5>1. PICK e \in Outcomes : Called(r, e)
          BY <4>3
        <5>2. Len(told[r]) = 1
          BY <3>3, <5>1
        <5> QED BY <5>2
      <4> QED BY <4>1, <4>2, <4>3
    <3>8. answer[r] = <<>> \/ (\E e \in Outcomes : answer[r] = <<e>>) => Len(answer[r]) <= 1
      <4>1. answer[r] = <<>> => Len(answer[r]) <= 1
        BY <3>4
      <4>2. ASSUME NEW e \in Outcomes, answer[r] = <<e>> PROVE Len(answer[r]) <= 1
        BY <3>5, <4>2
      <4> QED BY <4>1, <4>2
    <3> QED BY <3>6, <3>7, <3>8
  <2>1. ASSUME NEW p \in Puts
        PROVE  /\ Len(told[p]) <= 1 /\ Len(answer[p]) <= 1
               /\ zreq[p] = "done" => answer[p] # <<>>
               /\ answer[p] = <<"ok">> => BlockOf[p] \in remote
    <3>1. p \in Requests /\ remoteErr[p] \in Outcomes
      BY <1>1 DEF IInv, TypeOK, CacheTypeOK, Requests
    <3>2. Untold(p) \/ Returned(p) \/ Called(p, remoteErr[p])
      BY <1>1 DEF IInv, PutInv, PutStage
    <3>3. answer[p] = <<>> \/ \E e \in Outcomes : answer[p] = <<e>>
      BY <1>1 DEF IInv, PutInv, PutCall, Outcomes
    <3>4. ASSUME answer[p] = <<"ok">> PROVE BlockOf[p] \in remote
      <4>1. Called(p, "ok")
        BY <1>1, <3>4 DEF IInv, PutInv, PutCall
      <4>2. remoteErr[p] = "ok"
        BY <3>2, <4>1 DEF Called, Untold, Returned
      <4> QED BY <1>1, <4>2 DEF IInv, PutInv
    <3> QED BY <2>0, <3>1, <3>2, <3>3, <3>4
  <2>2. ASSUME NEW g \in Gets
        PROVE  /\ Len(told[g]) <= 1 /\ Len(answer[g]) <= 1
               /\ zreq[g] = "done" => answer[g] # <<>>
               /\ answer[g] = <<"ok">> => BlockOf[g] \in local \cup remote
    <3>1. g \in Requests
      BY DEF Requests
    <3>2. Untold(g) \/ Returned(g) \/ \E e \in Outcomes : Called(g, e)
      BY <1>1 DEF IInv, GetInv, GetStage, Outcomes
    <3>3. answer[g] = <<>> \/ \E e \in Outcomes : answer[g] = <<e>>
      BY <1>1 DEF IInv, GetInv, GetCall, Outcomes
    <3>4. ASSUME answer[g] = <<"ok">> PROVE BlockOf[g] \in local \cup remote
      <4>1. PICK d \in Outcomes, e \in Outcomes :
              Called(g, d) /\ answer[g] = <<e>> /\ (e = "ok" => d = "ok")
        <5>1. answer[g] # <<>> /\ answer[g] # <<"err">>
          BY <3>4
        <5> QED BY <1>1, <5>1 DEF IInv, GetInv, GetCall
      <4>2. e = "ok"
        BY <3>4, <4>1
      <4>3. Called(g, "ok")
        BY <4>1, <4>2
      <4> QED BY <1>1, <4>3 DEF IInv, GetInv
    <3> QED BY <2>0, <3>1, <3>2, <3>3, <3>4
  <2> QED BY <2>1, <2>2, ItemsOf DEF OneTrueOutcome, Requests
<1> QED BY <1>1, Invariance, PTL

(* Counting the at most two users of a block. *)
LEMMA TwoUsers ==
  ASSUME NEW C \in {{}, {1}}, NEW U \in {{}, {2}}
  PROVE  Cardinality(C \cup U) = (IF C = {} THEN 0 ELSE 1) + (IF U = {} THEN 0 ELSE 1)
<1>1. /\ Cardinality({1}) = 1 /\ Cardinality({2}) = 1 /\ IsFiniteSet({1})
  BY FS_Singleton
<1>2. Cardinality({}) = 0
  BY FS_EmptySet
<1>3. Cardinality({1} \cup {2}) = 2
  BY <1>1, FS_AddElement, 2 \notin {1}
<1>4. CASE C = {} /\ U = {}
  BY <1>2, <1>4, C \cup U = {}
<1>5. CASE C = {1} /\ U = {}
  BY <1>1, <1>5, C \cup U = {1}
<1>6. CASE C = {} /\ U = {2}
  BY <1>1, <1>6, C \cup U = {2}
<1>7. CASE C = {1} /\ U = {2}
  BY <1>3, <1>7
<1> QED BY <1>4, <1>5, <1>6, <1>7

(* A compressed block lives while a store may read it and is freed when    *)
(* its Put is over; a block that was read has as many references as users. *)
THEOREM BlocksCorrect == Spec => []BlocksOutliveTheirUse
<1>1. ASSUME IInv PROVE BlocksOutliveTheirUse
  <2>1. ASSUME NEW p \in Puts \cap tagged
        PROVE  /\ p \notin starved /\ (\E s \in {"remote", "local"} : item[<<p, s>>] = "called")
                    => zblock[p] = "live"
               /\ zreq[p] = "done" => zblock[p] # "live"
    <3>1. ASSUME p \notin starved,
                 item[<<p, "remote">>] = "called" \/ item[<<p, "local">>] = "called"
          PROVE  zblock[p] = "live"
      <4>1. Untold(p) /\ put[p] # "idle"
        BY <1>1, <3>1 DEF IInv, PutInv, PutStage
      <4> QED BY <1>1, <4>1, UntoldPut DEF IInv
    <3>2. zreq[p] = "done" => zblock[p] # "live"
      BY <1>1 DEF IInv, PutInv, PutCall
    <3> QED BY <3>1, <3>2
  <2>2. ASSUME NEW g \in Gets
        PROVE
          LET copying == \/ item[<<g, "remote">>] = "delivering"
                         \/ item[<<g, "copy">>] = "called"
                         \/ item[<<g, "remote">>] = "behind"
              using == \/ item[<<g, "remote">>] # "none" /\ Told(g, "call")
                             /\ told[g][1].err = "ok"
                       \/ item[<<g, "remote">>] # "none" /\ g \in holding
          IN  refCount[g] = Cardinality({b \in {1} : copying} \cup {b \in {2} : using})
    <3> DEFINE copying == \/ item[<<g, "remote">>] = "delivering"
                          \/ item[<<g, "copy">>] = "called"
                          \/ item[<<g, "remote">>] = "behind"
               using == \/ item[<<g, "remote">>] # "none" /\ Told(g, "call")
                              /\ told[g][1].err = "ok"
                        \/ item[<<g, "remote">>] # "none" /\ g \in holding
    <3>1. copying <=> Copying(g)
      BY DEF Copying
    <3>2. using <=> Using(g)
      <4>1. g \in Requests
        BY DEF Requests
      <4>2. Told(g, "call") /\ told[g][1].err = "ok" <=> zreq[g] = "called" /\ Called(g, "ok")
        <5>1. ASSUME Told(g, "call"), told[g][1].err = "ok"
              PROVE  zreq[g] = "called" /\ Called(g, "ok")
          BY <1>1, <4>1, <5>1, CalledOnce
        <5>2. ASSUME zreq[g] = "called", Called(g, "ok")
              PROVE  Told(g, "call") /\ told[g][1].err = "ok"
          BY <5>2 DEF Told, Called
        <5> QED BY <5>1, <5>2
      <4> QED BY <4>2 DEF Using
    <3> HIDE DEF copying, using
    <3>3. refCount[g] = (IF copying THEN 1 ELSE 0) + (IF using THEN 1 ELSE 0)
      BY <1>1, <3>1, <3>2 DEF IInv, GetInv
    <3> DEFINE C == {b \in {1} : copying}
               U == {b \in {2} : using}
    <3>4. C \in {{}, {1}} /\ (C = {} <=> ~copying) /\ U \in {{}, {2}} /\ (U = {} <=> ~using)
      OBVIOUS
    <3> HIDE DEF C, U
    <3>5. Cardinality(C \cup U) = (IF C = {} THEN 0 ELSE 1) + (IF U = {} THEN 0 ELSE 1)
      BY <3>4, TwoUsers
    <3>6. refCount[g] = Cardinality(C \cup U)
      BY <3>3, <3>4, <3>5
    <3> QED BY <3>6 DEF copying, using, C, U
  <2> QED BY <2>1, <2>2 DEF BlocksOutliveTheirUse
<1> QED BY <1>1, Invariance, PTL

(* A completed Flush of either store was overtaken by no call made before  *)
(* it.                                                                     *)
THEOREM FlushesCover == Spec => []FlushCovers
<1>1. IInv => FlushCovers
  BY DEF IInv, Flushing, ZFlushing, FlushCovers, Untold
<1> QED BY <1>1, Invariance, PTL

(* RetargetContent finds what was stored when it was called, and nothing   *)
(* that is not stored.                                                     *)
THEOREM RetargetCorrect == Spec => []RetargetFindsStored
<1>1. IInv => RetargetFindsStored
  BY DEF IInv, Asking, RetargetFindsStored
<1> QED BY <1>1, Invariance, PTL
================================================================================

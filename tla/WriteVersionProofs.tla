--------------------------- MODULE WriteVersionProofs ---------------------------
(***************************************************************************)
(* WriteAssets keeps its jobs, its readers' blocks and its files in order: *)
(* the inductive invariant of the time its jobs are created and run, for   *)
(* any version and content, any number of workers, and any failures.       *)
(***************************************************************************)
EXTENDS WriteVersion, ContentIndexProofs, JobSystemProofs

--------------------------------------------------------------------------------
(* Names and plan *)

(* A job is known by its name.                                             *)
LEMMA JobNames ==
    /\ \A b : ReadJob(b)[1] = "read" /\ ReadJob(b)[2] = b
    /\ \A b : WriteJob(b)[1] = "write" /\ WriteJob(b)[2] = b
    /\ \A a, o : PartSync(a, o)[1] = "partsync" /\ PartSync(a, o)[2] = a /\ PartSync(a, o)[3] = o
    /\ \A a, o : /\ PartWrite(a, o)[1] = "partwrite"
                 /\ PartWrite(a, o)[2] = a /\ PartWrite(a, o)[3] = o
    /\ \A a, o : \A j \in PartReads(a, o) : j[1] = "partread" /\ j[2] = a /\ j[3] = o
BY DEF ReadJob, WriteJob, PartSync, PartWrite, PartReads

(* What WriteAssets is asked: assets of a folder, with their chunks.       *)
CallType ==
    /\ call.assets \subseteq Paths /\ IsFiniteSet(call.assets)
    /\ \A a \in call.assets : AssetChunks(a) \in Seq(Nat)

(* A part has room for a block at least.                                   *)
LEMMA ReadersPositive == MaxReaders \in Nat \ {0}
BY ReadersType, WorkersType

(* The blocks of a range of chunks are finitely many, and one chunk more   *)
(* is one block more at the most.                                          *)
LEMMA BlocksBetweenFacts ==
    ASSUME NEW a, NEW o \in Nat, NEW e \in Nat
    PROVE  /\ IsFiniteSet(BlocksBetween(a, o, e))
           /\ Cardinality(BlocksBetween(a, o, e)) \in Nat
           /\ e <= o => BlocksBetween(a, o, e) = {}
           /\ o <= e => Cardinality(BlocksBetween(a, o, e + 1))
                          <= Cardinality(BlocksBetween(a, o, e)) + 1
<1>1. ASSUME NEW d \in Nat
      PROVE  IsFiniteSet(BlocksBetween(a, o, d)) /\ Cardinality(BlocksBetween(a, o, d)) \in Nat
  <2> DEFINE f == [i \in (o + 1)..d |-> BlockFor(AssetChunks(a)[i])]
  <2>1. IsFiniteSet((o + 1)..d)
    BY FS_Interval
  <2>2. f \in Surjection((o + 1)..d, BlocksBetween(a, o, d))
    BY DEF Surjection, BlocksBetween
  <2>3. IsFiniteSet(BlocksBetween(a, o, d))
    BY <2>1, <2>2, FS_Surjection
  <2> QED
    BY <2>3, FS_CardinalityType
<1>2. e <= o => BlocksBetween(a, o, e) = {}
  BY DEF BlocksBetween
<1>3. ASSUME o <= e
      PROVE  Cardinality(BlocksBetween(a, o, e + 1)) <= Cardinality(BlocksBetween(a, o, e)) + 1
  <2>1. BlocksBetween(a, o, e + 1) = BlocksBetween(a, o, e) \cup {BlockFor(AssetChunks(a)[e + 1])}
    <3>1. (o + 1)..(e + 1) = ((o + 1)..e) \cup {e + 1}
      BY <1>3
    <3> QED
      BY <3>1 DEF BlocksBetween
  <2> DEFINE B == BlocksBetween(a, o, e)
  <2>2. IsFiniteSet(B) /\ Cardinality(B) \in Nat
    BY <1>1
  <2> HIDE DEF B
  <2>3. ASSUME NEW x PROVE Cardinality(B \cup {x}) <= Cardinality(B) + 1
    <3>1. Cardinality(B \cup {x}) = IF x \in B THEN Cardinality(B) ELSE Cardinality(B) + 1
      BY <2>2, FS_AddElement
    <3> QED
      BY <2>2, <3>1
  <2> QED
    BY <2>1, <2>3 DEF B
<1> QED
  BY <1>1, <1>2, <1>3

(* A part of an asset that has chunks left takes some of them, and reads   *)
(* at least one block; WriteAssets makes progress.                         *)
LEMMA PartFacts ==
    ASSUME NEW a, AssetChunks(a) \in Seq(Nat), NEW o \in 0..Len(AssetChunks(a))
    PROVE  /\ PartEnd(a, o) \in o..Len(AssetChunks(a))
           /\ o < Len(AssetChunks(a)) => PartEnd(a, o) > o /\ PartReads(a, o) # {}
           /\ o = Len(AssetChunks(a)) => PartReads(a, o) = {}
           /\ IsFiniteSet(PartReads(a, o))
<1> DEFINE len == Len(AssetChunks(a))
           Size(e) == Cardinality(BlocksBetween(a, o, e))
           IsEnd(e) == /\ e = len \/ Size(e) = MaxReaders
                       /\ \A d \in o..(e - 1) : Size(d) < MaxReaders
<1>1. len \in Nat /\ o \in Nat
  OBVIOUS
<1>2. \A e \in Nat : Size(e) \in Nat /\ (o <= e => Size(e + 1) <= Size(e) + 1)
  BY <1>1, BlocksBetweenFacts
<1>3. Size(o) = 0
  BY <1>1, BlocksBetweenFacts, FS_EmptySet
<1> HIDE DEF len, Size
<1>4. \E e \in o..len : IsEnd(e)
  <2> DEFINE full == {e \in o..len : Size(e) >= MaxReaders}
  <2>0. /\ full \subseteq Nat /\ MaxReaders \in Nat /\ MaxReaders > 0
        /\ \A e \in o..len : e \in Nat /\ Size(e) \in Nat
    <3>1. \A e \in o..len : e \in Nat
      BY <1>1
    <3>2. \A e \in o..len : Size(e) \in Nat
      BY <1>2, <3>1
    <3>3. full \subseteq Nat
      BY <3>1
    <3> QED
      BY <3>1, <3>2, <3>3, ReadersPositive
  <2>1. CASE full = {}
    <3>1. \A d \in o..(len - 1) : Size(d) < MaxReaders
      <4> TAKE d \in o..(len - 1)
      <4>1. d \in o..len /\ d \notin full
        BY <1>1, <2>1
      <4> QED
        BY <2>0, <4>1
    <3> QED
      BY <1>1, <3>1 DEF len
  <2>2. CASE full # {}
    <3>1. PICK e \in full : \A k \in full : e <= k
      <4> HIDE DEF full
      <4> QED
        BY <2>0, <2>2, LeastNumber
    <3>2. e \in o..len /\ e # o
      BY <1>3, <2>0, <3>1
    <3>3. \A d \in o..(e - 1) : Size(d) < MaxReaders
      <4> TAKE d \in o..(e - 1)
      <4>1. d \in o..len /\ d \notin full
        BY <1>1, <3>1, <3>2
      <4> QED
        BY <2>0, <4>1
    <3>4. Size(e) <= Size(e - 1) + 1
      <4>1. e - 1 \in Nat /\ o <= e - 1 /\ (e - 1) + 1 = e
        BY <1>1, <3>2
      <4> QED
        BY <1>2, <4>1
    <3>5. Size(e) = MaxReaders
      <4>1. e - 1 \in o..(e - 1) /\ e - 1 \in o..len
        BY <1>1, <3>2
      <4>2. Size(e - 1) < MaxReaders /\ Size(e) >= MaxReaders
        BY <3>1, <3>3, <4>1
      <4> QED
        BY <2>0, <3>2, <3>4, <4>1, <4>2
    <3> QED
      BY <3>2, <3>3, <3>5
  <2> QED
    BY <2>1, <2>2
<1>5. PartEnd(a, o) \in o..len /\ IsEnd(PartEnd(a, o))
  <2>1. PartEnd(a, o) = CHOOSE e \in o..len : IsEnd(e)
    BY DEF PartEnd, len, Size
  <2> HIDE DEF IsEnd
  <2> QED
    BY <1>4, <2>1
<1>6. o < len => PartEnd(a, o) > o
  BY <1>1, <1>3, <1>5, ReadersPositive
<1>7. o < len => PartReads(a, o) # {}
  <2> SUFFICES ASSUME o < len PROVE o + 1 \in (o + 1)..PartEnd(a, o)
    BY DEF PartReads, PartBlocks, BlocksBetween
  <2> QED
    BY <1>1, <1>5, <1>6
<1>8. o = len => PartReads(a, o) = {}
  BY <1>1, <1>5, BlocksBetweenFacts DEF PartReads, PartBlocks
<1>9. IsFiniteSet(PartReads(a, o))
  <2> DEFINE f == [b \in PartBlocks(a, o) |-> <<"partread", a, o, b>>]
  <2>1. IsFiniteSet(PartBlocks(a, o))
    <3>1. PartEnd(a, o) \in Nat
      BY <1>1, <1>5
    <3> QED
      BY <1>1, <3>1, BlocksBetweenFacts DEF PartBlocks
  <2>2. f \in Surjection(PartBlocks(a, o), PartReads(a, o))
    BY DEF Surjection, PartReads
  <2> QED
    BY <2>1, <2>2, FS_Surjection
<1> QED
  BY <1>5, <1>6, <1>7, <1>8, <1>9 DEF len

--------------------------------------------------------------------------------
(* Who waits for whom *)

(* What a job is made to depend on: a write job on its readers, and on the *)
(* sync job of its part.                                                   *)
WaitsOn(j) ==
    CASE j[1] = "write" -> {ReadJob(j[2])}
      [] j[1] = "partwrite" ->
           IF PartReads(j[2], j[3]) = {} THEN {}
           ELSE PartReads(j[2], j[3]) \cup {PartSync(j[2], j[3])}
      [] OTHER -> {}

(* The dependencies of each kind of job.                                   *)
LEMMA WaitsOnFacts ==
    /\ \A b : WaitsOn(WriteJob(b)) = {ReadJob(b)}
    /\ \A a, o : WaitsOn(PartWrite(a, o)) =
         IF PartReads(a, o) = {} THEN {} ELSE PartReads(a, o) \cup {PartSync(a, o)}
    /\ \A j : j[1] \notin {"write", "partwrite"} => WaitsOn(j) = {}
<1>1. \A b : WaitsOn(WriteJob(b)) = {ReadJob(b)}
  BY JobNames DEF WaitsOn
<1>2. \A a, o : WaitsOn(PartWrite(a, o)) =
        IF PartReads(a, o) = {} THEN {} ELSE PartReads(a, o) \cup {PartSync(a, o)}
  <2> TAKE a, o
  <2> DEFINE j == PartWrite(a, o)
  <2>1. j[1] = "partwrite" /\ j[2] = a /\ j[3] = o
    BY JobNames
  <2> HIDE DEF j
  <2> QED
    BY <2>1 DEF WaitsOn, j
<1>3. \A j : j[1] \notin {"write", "partwrite"} => WaitsOn(j) = {}
  BY DEF WaitsOn
<1> QED
  BY <1>1, <1>2, <1>3

(* A job waits for what of this is not complete, and is ready as soon as   *)
(* it waits for nothing; but for a sync job, which somebody readies.       *)
Graph(g) ==
    \A j \in Jobs(g) :
        /\ WaitsOn(j) \subseteq Jobs(g)
        /\ g.waitsFor[j] = {k \in WaitsOn(j) : g.job[k] # "complete"}
        /\ g.job[j] # "created" => g.waitsFor[j] = {}
        /\ g.job[j] = "created" => g.waitsFor[j] # {} \/ j[1] = "partsync"

(* Whether a job is still to be called is all the invariant asks of the    *)
(* jobs that wait.                                                         *)
Idle(g, j) == g.job[j] \in {"created", "ready"}
SamePhase(g, h, j) == h.job[j] = g.job[j] \/ (Idle(g, j) /\ Idle(h, j))
Waits(j) == j[1] \in {"write", "partwrite"}

(* A job ends: others are called later, and nothing else changes.          *)
LEMMA GraphEnd ==
    ASSUME NEW g, IsGroup(g), Counted(g), Graph(g), NEW j \in Jobs(g),
           g.job[j] \notin {"created", "complete"}, NEW h, h = EndJob(g, j)
    PROVE  /\ IsGroup(h) /\ Counted(h) /\ SameCall(g, h) /\ Graph(h)
           /\ Jobs(h) = Jobs(g) /\ h.job[j] = "complete"
           /\ \A k \in Jobs(g) \ {j} : /\ SamePhase(g, h, k)
                                       /\ ~Waits(k) => h.job[k] = g.job[k]
<1>1. g.waitsFor[j] = {} /\ \A k \in Jobs(g) : g.waitsFor[k] # {} => g.job[k] = "created"
  BY DEF Graph
<1>2. /\ IsGroup(h) /\ Counted(h) /\ SameCall(g, h)
      /\ Jobs(h) = Jobs(g)
      /\ h.job[j] = "complete"
      /\ \A k \in Jobs(g) \ {j} :
           h.job[k] = IF g.waitsFor[k] = {j} THEN "ready" ELSE g.job[k]
      /\ \A k \in Jobs(g) : h.waitsFor[k] = g.waitsFor[k] \ {j}
  BY <1>1, EndJobFacts
<1>3. ASSUME NEW k \in Jobs(g)
      PROVE  h.waitsFor[k] = {l \in WaitsOn(k) : h.job[l] # "complete"}
  <2>1. WaitsOn(k) \subseteq Jobs(g)
    BY DEF Graph
  <2>2. g.waitsFor[k] = {l \in WaitsOn(k) : g.job[l] # "complete"}
    BY DEF Graph
  <2>3. \A l \in Jobs(g) \ {j} : h.job[l] # "complete" <=> g.job[l] # "complete"
    BY <1>1, <1>2
  <2> QED
    BY <1>2, <2>1, <2>2, <2>3
<1>4. ASSUME NEW k \in Jobs(g) \ {j}
      PROVE  /\ SamePhase(g, h, k)
             /\ ~Waits(k) => h.job[k] = g.job[k]
             /\ h.job[k] # "created" => h.waitsFor[k] = {}
             /\ h.job[k] = "created" => h.waitsFor[k] # {} \/ k[1] = "partsync"
  <2>1. CASE g.waitsFor[k] = {j}
    <3>1. g.job[k] = "created" /\ WaitsOn(k) # {}
      BY <1>1, <2>1 DEF Graph
    <3> QED
      BY <1>2, <2>1, <3>1, WaitsOnFacts DEF SamePhase, Idle, Waits
  <2>2. CASE g.waitsFor[k] # {j}
    <3>1. h.job[k] = g.job[k]
      BY <1>2, <2>2
    <3>2. h.job[k] # "created" => g.waitsFor[k] = {}
      BY <3>1 DEF Graph
    <3>3. h.job[k] = "created" => g.waitsFor[k] # {} \/ k[1] = "partsync"
      BY <3>1 DEF Graph
    <3> QED
      BY <1>2, <2>2, <3>1, <3>2, <3>3 DEF SamePhase
  <2> QED
    BY <2>1, <2>2
<1>5. Graph(h)
  <2> SUFFICES ASSUME NEW k \in Jobs(g)
               PROVE  /\ WaitsOn(k) \subseteq Jobs(h)
                      /\ h.waitsFor[k] = {l \in WaitsOn(k) : h.job[l] # "complete"}
                      /\ h.job[k] # "created" => h.waitsFor[k] = {}
                      /\ h.job[k] = "created" => h.waitsFor[k] # {} \/ k[1] = "partsync"
    BY <1>2 DEF Graph
  <2>1. WaitsOn(k) \subseteq Jobs(h)
    BY <1>2 DEF Graph
  <2>2. CASE k = j
    BY <1>1, <1>2, <1>3, <2>1, <2>2
  <2>3. CASE k # j
    BY <1>3, <1>4, <2>1, <2>3
  <2> QED
    BY <2>2, <2>3
<1> QED
  BY <1>2, <1>4, <1>5

(* Jobs become ready that wait for nothing.                                *)
LEMMA GraphReady ==
    ASSUME NEW g, IsGroup(g), Counted(g), Graph(g), NEW js \in SUBSET Jobs(g),
           \A j \in js : g.job[j] # "complete" /\ g.waitsFor[j] = {},
           NEW h, h = ReadyJobs(g, js)
    PROVE  /\ IsGroup(h) /\ Counted(h) /\ SameCall(g, h) /\ Graph(h)
           /\ Jobs(h) = Jobs(g) /\ h.waitsFor = g.waitsFor
           /\ \A j \in js : h.job[j] = "ready"
           /\ \A j \in Jobs(g) \ js : h.job[j] = g.job[j]
<1>1. /\ IsGroup(h) /\ Counted(h) /\ SameCall(g, h)
      /\ Jobs(h) = Jobs(g) /\ h.waitsFor = g.waitsFor
      /\ \A j \in js : h.job[j] = "ready"
      /\ \A j \in Jobs(g) \ js : h.job[j] = g.job[j]
  BY ReadyJobsFacts
<1>2. \A l \in Jobs(g) : h.job[l] # "complete" <=> g.job[l] # "complete"
  BY <1>1
<1>3. Graph(h)
  <2> SUFFICES ASSUME NEW k \in Jobs(g)
               PROVE  /\ WaitsOn(k) \subseteq Jobs(h)
                      /\ h.waitsFor[k] = {l \in WaitsOn(k) : h.job[l] # "complete"}
                      /\ h.job[k] # "created" => h.waitsFor[k] = {}
                      /\ h.job[k] = "created" => h.waitsFor[k] # {} \/ k[1] = "partsync"
    BY <1>1 DEF Graph
  <2>1. WaitsOn(k) \subseteq Jobs(h)
    BY <1>1 DEF Graph
  <2>2. h.waitsFor[k] = {l \in WaitsOn(k) : h.job[l] # "complete"}
    BY <1>1, <1>2 DEF Graph
  <2>3. CASE k \in js
    BY <1>1, <2>1, <2>2, <2>3
  <2>4. CASE k \notin js
    BY <1>1, <2>1, <2>2, <2>4 DEF Graph
  <2> QED
    BY <2>3, <2>4
<1> QED
  BY <1>1, <1>3

(* A job that is called, or stops as blocked.                              *)
LEMMA GraphMove ==
    ASSUME NEW g, IsGroup(g), Counted(g), Graph(g), NEW j \in Jobs(g),
           g.job[j] \notin {"created", "complete"},
           NEW s \in {"running", "blocked"},
           NEW h, \/ h = [g EXCEPT !.job[j] = s]
                  \/ h = BlockJob(g, j) /\ s = "blocked"
    PROVE  /\ IsGroup(h) /\ Counted(h) /\ SameCall(g, h) /\ Graph(h)
           /\ Jobs(h) = Jobs(g) /\ h.waitsFor = g.waitsFor
           /\ h.job[j] = s
           /\ \A k \in Jobs(g) \ {j} : h.job[k] = g.job[k]
<1>1. /\ IsGroup(h) /\ Counted(h) /\ SameCall(g, h)
      /\ Jobs(h) = Jobs(g) /\ h.waitsFor = g.waitsFor
      /\ h.job[j] = s
      /\ \A k \in Jobs(g) \ {j} : h.job[k] = g.job[k]
  BY JobCalledFacts DEF JobStates
<1>2. \A l \in Jobs(g) : h.job[l] # "complete" <=> g.job[l] # "complete"
  BY <1>1
<1>3. Graph(h)
  <2> SUFFICES ASSUME NEW k \in Jobs(g)
               PROVE  /\ WaitsOn(k) \subseteq Jobs(h)
                      /\ h.waitsFor[k] = {l \in WaitsOn(k) : h.job[l] # "complete"}
                      /\ h.job[k] # "created" => h.waitsFor[k] = {}
                      /\ h.job[k] = "created" => h.waitsFor[k] # {} \/ k[1] = "partsync"
    BY <1>1 DEF Graph
  <2>1. WaitsOn(k) \subseteq Jobs(h)
    BY <1>1 DEF Graph
  <2>2. h.waitsFor[k] = {l \in WaitsOn(k) : h.job[l] # "complete"}
    BY <1>1, <1>2 DEF Graph
  <2>3. CASE k = j
    BY <1>1, <2>1, <2>2, <2>3 DEF Graph
  <2>4. CASE k # j
    BY <1>1, <2>1, <2>2, <2>4 DEF Graph
  <2> QED
    BY <2>3, <2>4
<1> QED
  BY <1>1, <1>3

--------------------------------------------------------------------------------
(* The invariant *)

Begun(a, o) == PartWrite(a, o) \in Jobs(group)
PartJobs(a, o) == {PartWrite(a, o)} \cup WaitsOn(PartWrite(a, o))
BlockStates == {"none", "asked", "empty", "lent", "disposed", "leaked"}

(* WriteVersionType, the group's type, and no block disposed of twice.     *)
WriteShapes ==
    /\ IsGroup(group) /\ Counted(group)
    /\ reader \in [DOMAIN reader -> [err : Errors, block : BlockStates]]
    /\ blockErr \in [DOMAIN blockErr -> Errors]
    /\ ctx \in [DOMAIN ctx -> [offset : Nat, file : BOOLEAN, err : Errors]]
    /\ part \in [DOMAIN part -> {"writing", "ok", "failed"}]
    /\ todo = [blocks |-> todo.blocks, assets |-> todo.assets]

IsAsset(x) ==
    /\ x = [kind |-> x.kind, chunks |-> x.chunks, perm |-> x.perm]
    /\ x.kind \in {"none", "dir", "file"}
IsDisk(d) == d = [p \in Paths |-> d[p]] /\ \A p \in Paths : IsAsset(d[p])
DiskShape == IsDisk(disk) /\ overwritten \subseteq Paths

(* Which jobs there are: those of the blocks and assets that are not to do *)
(* any more, of an asset those of the parts that are begun.                *)
JobsKnown ==
    /\ \A b \in DOMAIN blockErr : ReadJob(b) \in Jobs(group) /\ WriteJob(b) \in Jobs(group)
    /\ \A j \in Jobs(group) :
         \/ \E b \in DOMAIN blockErr : j = ReadJob(b) \/ j = WriteJob(b)
         \/ \E a \in DOMAIN ctx : \E o \in 0..ctx[a].offset : Begun(a, o) /\ j \in PartJobs(a, o)
    /\ DOMAIN reader = {j \in Jobs(group) : j[1] \in {"read", "partread"}}
    /\ todo.blocks \cap DOMAIN blockErr = {} /\ todo.assets \cap DOMAIN ctx = {}
    /\ todo.assets \subseteq call.assets /\ DOMAIN ctx \subseteq call.assets
    /\ DOMAIN part \subseteq Jobs(group)

(* A reader's job and block go together.                                   *)
ReaderFits(j) ==
    \/ group.job[j] = "ready" /\ reader[j].block = "none"
    \/ group.job[j] = "blocked" /\ reader[j].block = "asked"
    \/ group.job[j] \in {"ready", "complete"} /\ reader[j].block = "lent" /\ reader[j].err = "ok"
    \/ /\ group.job[j] = "complete" /\ reader[j].err = "ok"
       /\ reader[j].block \in {"disposed", "leaked"}
    \/ group.job[j] \in {"ready", "complete"} /\ reader[j].block = "empty" /\ reader[j].err # "ok"
    \/ group.job[j] = "complete" /\ reader[j].block = "none" /\ reader[j].err # "ok"

(* The block of a block job is disposed of by its write job alone.         *)
BlockJobFits(b) ==
    /\ group.job[WriteJob(b)] \in {"created", "ready", "complete"}
    /\ Idle(group, WriteJob(b)) => reader[ReadJob(b)].block \notin {"disposed", "leaked"}
    /\ group.job[WriteJob(b)] = "complete" => reader[ReadJob(b)].block # "lent"

(* A part of an asset: parts that are begun do not overlap, a part's       *)
(* blocks are disposed of by its write job alone, and while that is        *)
(* writing it has the file and its blocks, and holds the next part's sync  *)
(* job if there is a next part.                                            *)
PartFits(a, o) ==
    /\ group.job[PartWrite(a, o)] \in {"created", "ready", "running", "complete"}
    /\ group.job[PartWrite(a, o)] = "running" <=> PartWrite(a, o) \in DOMAIN part
    /\ \A p \in 0..(o - 1) : Begun(a, p) => PartEnd(a, p) <= o
    /\ Idle(group, PartWrite(a, o)) \/ InPart(a, o, "writing") =>
         \A j \in PartReads(a, o) : reader[j].block \notin {"disposed", "leaked"}
    /\ ~Idle(group, PartWrite(a, o)) /\ ~InPart(a, o, "writing") =>
         \A j \in PartReads(a, o) : reader[j].block # "lent"
    /\ InPart(a, o, "writing") =>
         /\ ctx[a].file
         /\ \A j \in PartReads(a, o) : reader[j].block = "lent"
         /\ o = ctx[a].offset => IsLastPart(a, o)
         /\ o # ctx[a].offset => /\ PartEnd(a, o) = ctx[a].offset
                                 /\ group.job[PartSync(a, ctx[a].offset)] = "created"

(* A file that is open is being written, or is for the next part.          *)
AssetFits(a) ==
    /\ Begun(a, ctx[a].offset)
    /\ ctx[a].offset \in 0..Len(AssetChunks(a))
    /\ ctx[a].offset = 0 \/ ctx[a].offset < Len(AssetChunks(a))
    /\ ctx[a].file => \/ Idle(group, PartWrite(a, ctx[a].offset))
                      \/ \E o \in 0..ctx[a].offset : InPart(a, o, "writing")
    /\ \A o : Begun(a, o) => o \in 0..ctx[a].offset /\ PartFits(a, o)

WriteInv ==
    /\ CallType /\ WriteShapes /\ DiskShape
    /\ Graph(group)
    /\ JobsKnown
    /\ \A j \in DOMAIN reader : ReaderFits(j)
    /\ \A b \in DOMAIN blockErr : BlockJobFits(b)
    /\ \A a \in DOMAIN ctx : AssetFits(a)

--------------------------------------------------------------------------------
(* What follows from it *)

(* The plan depends on the call only.                                      *)
LEMMA SamePlan ==
    ASSUME UNCHANGED call
    PROVE  /\ \A a : AssetChunks(a)' = AssetChunks(a)
           /\ \A a, o : /\ PartReads(a, o)' = PartReads(a, o) /\ PartEnd(a, o)' = PartEnd(a, o)
                        /\ IsLastPart(a, o)' = IsLastPart(a, o)
                        /\ PartJobs(a, o)' = PartJobs(a, o)
           /\ \A j : WaitsOn(j)' = WaitsOn(j)
           /\ CallType' = CallType
           /\ Graph(group)' = Graph(group')
<1>1. \A h : BlockFor(h)' = BlockFor(h)
  BY DEF BlockFor
<1>2. \A a : AssetChunks(a)' = AssetChunks(a)
  BY DEF AssetChunks
<1>3. \A a, o, e : BlocksBetween(a, o, e)' = BlocksBetween(a, o, e)
  BY <1>1, <1>2 DEF BlocksBetween
<1>4. \A a, o : PartEnd(a, o)' = PartEnd(a, o)
  BY <1>2, <1>3 DEF PartEnd
<1>5. \A a, o : PartReads(a, o)' = PartReads(a, o)
  BY <1>3, <1>4 DEF PartReads, PartBlocks
<1>6. \A j : WaitsOn(j)' = WaitsOn(j)
  BY <1>5 DEF WaitsOn
<1>7. \A a, o : PartJobs(a, o)' = PartJobs(a, o) /\ IsLastPart(a, o)' = IsLastPart(a, o)
  BY <1>2, <1>4, <1>6 DEF PartJobs, IsLastPart
<1>8. CallType' = CallType
  BY <1>2 DEF CallType
<1>9. Graph(group)' = Graph(group')
  BY <1>6 DEF Graph
<1> QED
  BY <1>2, <1>4, <1>5, <1>6, <1>7, <1>8, <1>9

(* The jobs of a part that is begun are there, and its readers have their  *)
(* contexts.                                                               *)
LEMMA PartJobsThere ==
    ASSUME WriteInv, NEW a, NEW o, Begun(a, o)
    PROVE  /\ a \in DOMAIN ctx /\ o \in 0..ctx[a].offset /\ AssetFits(a) /\ PartFits(a, o)
           /\ AssetChunks(a) \in Seq(Nat) /\ o \in 0..Len(AssetChunks(a))
           /\ PartReads(a, o) \subseteq DOMAIN reader
           /\ PartReads(a, o) # {} => PartSync(a, o) \in Jobs(group)
           /\ group.job[PartWrite(a, o)] # "created" =>
                /\ \A j \in PartReads(a, o) : group.job[j] = "complete"
                /\ PartReads(a, o) # {} => group.job[PartSync(a, o)] = "complete"
<1>1. a \in DOMAIN ctx
  <2>1. \/ \E b \in DOMAIN blockErr : PartWrite(a, o) = ReadJob(b) \/ PartWrite(a, o) = WriteJob(b)
        \/ \E c \in DOMAIN ctx : \E p \in 0..ctx[c].offset : PartWrite(a, o) \in PartJobs(c, p)
    BY DEF WriteInv, JobsKnown, Begun
  <2>2. ASSUME NEW c, NEW p, PartWrite(a, o) \in PartJobs(c, p) PROVE c = a
    <3>1. \A j \in WaitsOn(PartWrite(c, p)) : j[1] # "partwrite"
      BY WaitsOnFacts, JobNames
    <3> QED
      BY <2>2, <3>1, JobNames DEF PartJobs
  <2>3. \A b : PartWrite(a, o) # ReadJob(b) /\ PartWrite(a, o) # WriteJob(b)
    BY JobNames
  <2> QED
    BY <2>1, <2>2, <2>3
<1>2. AssetFits(a) /\ AssetChunks(a) \in Seq(Nat)
  BY <1>1 DEF WriteInv, JobsKnown, CallType
<1>3. o \in 0..ctx[a].offset /\ PartFits(a, o)
  BY <1>2 DEF AssetFits
<1>4. WaitsOn(PartWrite(a, o)) \subseteq Jobs(group)
  BY DEF WriteInv, Graph, Begun
<1>5. o \in 0..Len(AssetChunks(a))
  BY <1>2, <1>3 DEF AssetFits
<1>6. PartReads(a, o) \subseteq DOMAIN reader
  <2>1. PartReads(a, o) \subseteq Jobs(group)
    BY <1>4, WaitsOnFacts
  <2> QED
    BY <2>1, JobNames DEF WriteInv, JobsKnown
<1>7. PartReads(a, o) # {} => PartSync(a, o) \in Jobs(group)
  BY <1>4, WaitsOnFacts
<1>8. ASSUME group.job[PartWrite(a, o)] # "created", NEW j \in WaitsOn(PartWrite(a, o))
      PROVE  group.job[j] = "complete"
  BY <1>8 DEF WriteInv, Graph, Begun
<1> QED
  BY <1>1, <1>2, <1>3, <1>5, <1>6, <1>7, <1>8, WaitsOnFacts

(* Parts whose blocks are read by a job that is not complete are still to  *)
(* be called.                                                              *)
LEMMA ReadingIsIdle ==
    ASSUME WriteInv, NEW a, NEW o, Begun(a, o), NEW j \in PartReads(a, o),
           group.job[j] # "complete"
    PROVE  Idle(group, PartWrite(a, o))
BY PartJobsThere DEF Idle

(* Only one part of an asset is being written, and none when the part the  *)
(* context is at can be called.                                            *)
LEMMA SoleWriter ==
    ASSUME WriteInv, NEW a, NEW o, Begun(a, o),
           InPart(a, o, "writing") \/ (o = ctx[a].offset /\ group.job[PartWrite(a, o)] # "created"),
           NEW p, Begun(a, p), p # o
    PROVE  ~InPart(a, p, "writing")
<1> DEFINE O == ctx[a].offset
<1>1. /\ a \in DOMAIN ctx /\ AssetFits(a) /\ o \in 0..O /\ p \in 0..O
      /\ PartFits(a, o) /\ PartFits(a, p) /\ O \in 0..Len(AssetChunks(a))
      /\ AssetChunks(a) \in Seq(Nat) /\ Begun(a, O)
  BY PartJobsThere DEF AssetFits
<1>2. SUFFICES ASSUME InPart(a, p, "writing") PROVE FALSE
  OBVIOUS
<1>3. ASSUME NEW q \in 0..O, NEW r \in 0..O, q # O,
             PartFits(a, q), InPart(a, q, "writing") PROVE group.job[PartWrite(a, O)] = "created"
  <2>1. group.job[PartSync(a, O)] = "created"
    BY <1>3 DEF PartFits
  <2>2. O # 0
    BY <1>1, <1>3
  <2>3. O < Len(AssetChunks(a))
    BY <1>1, <2>2 DEF AssetFits
  <2>4. PartReads(a, O) # {}
    BY <1>1, <2>3, PartFacts
  <2> QED
    BY <1>1, <2>1, <2>4, PartJobsThere
<1>4. ASSUME NEW q, PartFits(a, q), InPart(a, q, "writing")
      PROVE  group.job[PartWrite(a, q)] = "running"
  BY <1>4 DEF PartFits, InPart
<1>5. CASE o = O
  BY <1>1, <1>2, <1>3, <1>4, <1>5
<1>6. CASE o # O /\ p = O
  BY <1>1, <1>2, <1>3, <1>4, <1>6
<1>7. CASE o # O /\ p # O
  <2>1. InPart(a, o, "writing")
    BY <1>7
  <2>2. PartEnd(a, o) = O /\ PartEnd(a, p) = O
    BY <1>1, <1>2, <1>7, <2>1 DEF PartFits
  <2>3. o < O /\ p < O /\ O \in Nat /\ o \in Nat /\ p \in Nat
    BY <1>1, <1>7
  <2>4. CASE o < p
    BY <1>1, <2>2, <2>3, <2>4 DEF PartFits
  <2>5. CASE p < o
    BY <1>1, <2>2, <2>3, <2>5 DEF PartFits
  <2> QED
    BY <2>3, <2>4, <2>5
<1> QED
  BY <1>5, <1>6, <1>7

--------------------------------------------------------------------------------
(* What leaves the parts of the invariant alone *)

(* The jobs that there are stay those of blocks and parts.                 *)
LEMMA JobsKnownKept ==
    ASSUME WriteInv, UNCHANGED <<call, todo>>,
           Jobs(group') = Jobs(group), DOMAIN reader' = DOMAIN reader,
           DOMAIN blockErr' = DOMAIN blockErr, DOMAIN ctx' = DOMAIN ctx,
           \A a \in DOMAIN ctx : ctx'[a].offset = ctx[a].offset,
           DOMAIN part' \subseteq Jobs(group)
    PROVE  JobsKnown'
BY SamePlan DEF WriteInv, JobsKnown, Begun

(* What is said of a block job depends on its own jobs, block and error.   *)
LEMMA BlockJobKept ==
    ASSUME WriteInv, NEW b \in DOMAIN blockErr,
           SamePhase(group, group', WriteJob(b)),
           \/ reader'[ReadJob(b)].block = reader[ReadJob(b)].block
           \/ Idle(group, WriteJob(b)) /\ reader'[ReadJob(b)].block \notin {"disposed", "leaked"}
    PROVE  BlockJobFits(b)'
BY DEF WriteInv, BlockJobFits, SamePhase, Idle

(* A step that does not touch a part's jobs that are called and its blocks *)
(* that are there, nor while it writes the context of the asset.           *)
LEMMA PartKept ==
    ASSUME WriteInv, UNCHANGED call, NEW a, NEW o, Begun(a, o),
           \A p \in 0..(o - 1) : Begun(a, p)' => Begun(a, p),
           SamePhase(group, group', PartWrite(a, o)),
           PartWrite(a, o) \in DOMAIN part' <=> PartWrite(a, o) \in DOMAIN part,
           PartWrite(a, o) \in DOMAIN part => part'[PartWrite(a, o)] = part[PartWrite(a, o)],
           \A j \in PartReads(a, o) :
             \/ reader'[j].block = reader[j].block
             \/ Idle(group, PartWrite(a, o)) /\ reader'[j].block \notin {"disposed", "leaked"},
           InPart(a, o, "writing") =>
             /\ ctx'[a].file = ctx[a].file /\ ctx'[a].offset = ctx[a].offset
             /\ PartSync(a, ctx[a].offset) \in Jobs(group) =>
                  (group.job[PartSync(a, ctx[a].offset)] = "created" =>
                     group'.job[PartSync(a, ctx[a].offset)] = "created")
    PROVE  /\ PartFits(a, o)'
           /\ Idle(group, PartWrite(a, o))' <=> Idle(group, PartWrite(a, o))
           /\ \A w : InPart(a, o, w)' <=> InPart(a, o, w)
<1> DEFINE O == ctx[a].offset
<1>1. PartFits(a, o) /\ AssetFits(a) /\ o \in 0..O
  BY PartJobsThere
<1>2. /\ Idle(group, PartWrite(a, o))' <=> Idle(group, PartWrite(a, o))
      /\ ~Idle(group, PartWrite(a, o)) => group'.job[PartWrite(a, o)] = group.job[PartWrite(a, o)]
      /\ group.job[PartWrite(a, o)] \in {"created", "ready", "running", "complete"}
      /\ \A w : InPart(a, o, w)' <=> InPart(a, o, w)
      /\ InPart(a, o, "writing") => ~Idle(group, PartWrite(a, o))
  BY <1>1 DEF SamePhase, Idle, PartFits, InPart
<1>3. group'.job[PartWrite(a, o)] \in {"created", "ready", "running", "complete"}
  BY <1>2 DEF Idle
<1>4. group'.job[PartWrite(a, o)] = "running" <=> PartWrite(a, o) \in DOMAIN part'
  BY <1>1, <1>2 DEF PartFits, Idle
<1>5. \A p \in 0..(o - 1) : Begun(a, p)' => PartEnd(a, p)' <= o
  BY <1>1, SamePlan DEF PartFits
<1>6. (Idle(group, PartWrite(a, o)) \/ InPart(a, o, "writing"))' =>
        \A j \in PartReads(a, o)' : reader'[j].block \notin {"disposed", "leaked"}
  BY <1>1, <1>2, SamePlan DEF PartFits
<1>7. (~Idle(group, PartWrite(a, o)) /\ ~InPart(a, o, "writing"))' =>
        \A j \in PartReads(a, o)' : reader'[j].block # "lent"
  BY <1>1, <1>2, SamePlan DEF PartFits
<1>8. ASSUME InPart(a, o, "writing")'
      PROVE  /\ ctx'[a].file
             /\ \A j \in PartReads(a, o)' : reader'[j].block = "lent"
             /\ o = ctx'[a].offset => IsLastPart(a, o)'
             /\ o # ctx'[a].offset => /\ PartEnd(a, o)' = ctx'[a].offset
                                      /\ group'.job[PartSync(a, ctx'[a].offset)] = "created"
  <2>1. InPart(a, o, "writing")
    BY <1>2, <1>8
  <2>2. ASSUME o # O PROVE PartSync(a, O) \in Jobs(group)
    <3>1. Begun(a, O) /\ O < Len(AssetChunks(a)) /\ O \in 0..Len(AssetChunks(a))
      BY <1>1, <2>2 DEF AssetFits
    <3>2. AssetChunks(a) \in Seq(Nat)
      BY <3>1, PartJobsThere
    <3> QED
      BY <3>1, <3>2, PartFacts, PartJobsThere
  <2> QED
    BY <1>1, <1>2, <2>1, <2>2, SamePlan DEF PartFits
<1>9. PartFits(a, o)'
  BY <1>3, <1>4, <1>5, <1>6, <1>7, <1>8 DEF PartFits
<1> QED
  BY <1>2, <1>9

(* A step that leaves all parts of an asset and its context alone.         *)
LEMMA AssetKept ==
    ASSUME WriteInv, UNCHANGED call, NEW a \in DOMAIN ctx, ctx'[a] = ctx[a],
           \A o : Begun(a, o)' <=> Begun(a, o),
           PartSync(a, ctx[a].offset) \in Jobs(group) =>
             (group.job[PartSync(a, ctx[a].offset)] = "created" =>
                group'.job[PartSync(a, ctx[a].offset)] = "created"),
           \A o : Begun(a, o) =>
             /\ SamePhase(group, group', PartWrite(a, o))
             /\ PartWrite(a, o) \in DOMAIN part' <=> PartWrite(a, o) \in DOMAIN part
             /\ PartWrite(a, o) \in DOMAIN part => part'[PartWrite(a, o)] = part[PartWrite(a, o)]
             /\ \A j \in PartReads(a, o) :
                  \/ reader'[j].block = reader[j].block
                  \/ Idle(group, PartWrite(a, o)) /\ reader'[j].block \notin {"disposed", "leaked"}
    PROVE  AssetFits(a)'
<1> DEFINE O == ctx[a].offset
<1>1. AssetFits(a)
  BY DEF WriteInv
<1>2. ASSUME NEW o, Begun(a, o)
      PROVE  /\ PartFits(a, o)'
             /\ Idle(group, PartWrite(a, o))' <=> Idle(group, PartWrite(a, o))
             /\ \A w : InPart(a, o, w)' <=> InPart(a, o, w)
  BY <1>2, PartKept
<1>3. Begun(a, O)' /\ ctx'[a].offset = O
  BY <1>1 DEF AssetFits
<1>4. ctx'[a].file => \/ Idle(group, PartWrite(a, O))'
                      \/ \E o \in 0..O : InPart(a, o, "writing")'
  <2>1. ASSUME NEW o \in 0..O, InPart(a, o, "writing") PROVE Begun(a, o)
    BY <2>1 DEF InPart, WriteInv, JobsKnown, Begun
  <2> QED
    BY <1>1, <1>2, <2>1 DEF AssetFits
<1>5. \A o : Begun(a, o)' => o \in 0..O /\ PartFits(a, o)'
  BY <1>1, <1>2 DEF AssetFits
<1> QED
  BY <1>1, <1>3, <1>4, <1>5, SamePlan DEF AssetFits

--------------------------------------------------------------------------------
(* Readers *)

(* A reader is a job, and waits for none.                                  *)
LEMMA ReaderJobs ==
    ASSUME WriteInv, NEW j \in DOMAIN reader
    PROVE  /\ j \in Jobs(group) /\ j[1] \in {"read", "partread"} /\ ~Waits(j)
           /\ ReaderFits(j) /\ WaitsOn(j) = {}
           /\ reader[j] \in [err : Errors, block : BlockStates]
BY WaitsOnFacts DEF WriteInv, JobsKnown, Waits, WriteShapes

(* What every step of a reader does: its job moves on or ends, and so does *)
(* its block, but nobody disposes of that.                                 *)
LEMMA ReaderMoves ==
    ASSUME WriteInv, NEW j \in DOMAIN reader,
           UNCHANGED <<call, blockErr, ctx, part, todo, disk, overwritten>>,
           group.job[j] # "complete",
           IsGroup(group'), Counted(group'), Graph(group'), Jobs(group') = Jobs(group),
           \A k \in Jobs(group) \ {j} : /\ SamePhase(group, group', k)
                                        /\ ~Waits(k) => group'.job[k] = group.job[k],
           NEW r \in [err : Errors, block : BlockStates \ {"disposed", "leaked"}],
           reader' = [reader EXCEPT ![j] = r],
           ReaderFits(j)'
    PROVE  WriteInv'
<1>1. /\ j \in Jobs(group) /\ ~Waits(j)
      /\ reader' \in [DOMAIN reader -> [err : Errors, block : BlockStates]]
      /\ DOMAIN reader' = DOMAIN reader /\ reader'[j].block \notin {"disposed", "leaked"}
      /\ \A k \in DOMAIN reader \ {j} : reader'[k] = reader[k]
  BY ReaderJobs DEF WriteInv, WriteShapes
<1>2. CallType' /\ WriteShapes' /\ DiskShape' /\ Graph(group)'
  BY <1>1, SamePlan DEF WriteInv, WriteShapes, DiskShape
<1>3. JobsKnown'
  <2>1. DOMAIN part' \subseteq Jobs(group)
    BY DEF WriteInv, JobsKnown
  <2> QED
    BY <1>1, <2>1, JobsKnownKept
<1>4. \A k \in DOMAIN reader' : ReaderFits(k)'
  <2> SUFFICES ASSUME NEW k \in DOMAIN reader \ {j} PROVE ReaderFits(k)'
    BY <1>1
  <2>1. group'.job[k] = group.job[k] /\ reader'[k] = reader[k] /\ ReaderFits(k)
    BY <1>1, ReaderJobs
  <2> QED
    BY <2>1 DEF ReaderFits
<1>5. \A b \in DOMAIN blockErr' : BlockJobFits(b)'
  <2> SUFFICES ASSUME NEW b \in DOMAIN blockErr PROVE BlockJobFits(b)'
    OBVIOUS
  <2>1. /\ ReadJob(b) \in DOMAIN reader
        /\ WriteJob(b) \in Jobs(group) \ {j}
    BY <1>1, JobNames DEF WriteInv, JobsKnown, Waits
  <2>2. ReadJob(b) = j => Idle(group, WriteJob(b))
    BY <2>1, WaitsOnFacts DEF WriteInv, Graph, Idle
  <2> QED
    BY <1>1, <2>1, <2>2, BlockJobKept
<1>6. \A a \in DOMAIN ctx' : AssetFits(a)'
  <2> SUFFICES ASSUME NEW a \in DOMAIN ctx PROVE AssetFits(a)'
    OBVIOUS
  <2>1. \A o : Begun(a, o)' <=> Begun(a, o)
    BY DEF Begun
  <2>2. PartSync(a, ctx[a].offset) \in Jobs(group) =>
          group'.job[PartSync(a, ctx[a].offset)] = group.job[PartSync(a, ctx[a].offset)]
    BY JobNames, ReaderJobs DEF Waits
  <2>3. ASSUME NEW o, Begun(a, o)
        PROVE  /\ SamePhase(group, group', PartWrite(a, o))
               /\ \A k \in PartReads(a, o) :
                    \/ reader'[k].block = reader[k].block
                    \/ Idle(group, PartWrite(a, o)) /\ reader'[k].block \notin {"disposed", "leaked"}
    <3>1. PartWrite(a, o) \in Jobs(group) \ {j}
      BY <1>1, <2>3, JobNames DEF Begun, Waits
    <3>2. ASSUME NEW k \in PartReads(a, o), k = j
          PROVE  Idle(group, PartWrite(a, o))
      BY <2>3, <3>2, ReadingIsIdle
    <3>3. PartReads(a, o) \subseteq DOMAIN reader
      BY <2>3, PartJobsThere
    <3> QED
      BY <1>1, <3>1, <3>2, <3>3
  <2> QED
    BY <2>1, <2>2, <2>3, AssetKept
<1> QED
  BY <1>2, <1>3, <1>4, <1>5, <1>6 DEF WriteInv

(* A reader's step: it is called, its block arrives, or it is resumed.     *)
LEMMA ReaderStep == WriteInv /\ ReaderNext => WriteInv'
<1> SUFFICES ASSUME WriteInv, NEW j \in DOMAIN reader,
                    \/ ReaderCancelled(j) \/ ReaderRefused(j) \/ ReaderAccepted(j)
                    \/ ReaderComplete(j) \/ ReaderResumed(j)
             PROVE  WriteInv'
  BY DEF ReaderNext
<1> USE DEF readerRest, uploadVars
<1>1. /\ j \in Jobs(group) /\ ~Waits(j) /\ ReaderFits(j) /\ WaitsOn(j) = {}
      /\ reader[j] \in [err : Errors, block : BlockStates]
      /\ IsGroup(group) /\ Counted(group) /\ Graph(group)
  BY ReaderJobs DEF WriteInv, WriteShapes
<1>2. \A r : reader' = [reader EXCEPT ![j] = r] => reader'[j] = r
  OBVIOUS
<1>3. ASSUME group.job[j] = "ready", group' = EndJob(group, j),
             NEW r \in [err : Errors, block : BlockStates \ {"disposed", "leaked"}],
             reader' = [reader EXCEPT ![j] = r],
             \/ r.block \in {"none", "empty"} /\ r.err # "ok"
             \/ r.block = "lent" /\ r.err = "ok",
             UNCHANGED <<call, blockErr, ctx, part, todo, disk, overwritten>>
      PROVE  WriteInv'
  <2>1. /\ IsGroup(group') /\ Counted(group') /\ Graph(group')
        /\ Jobs(group') = Jobs(group) /\ group'.job[j] = "complete"
        /\ \A k \in Jobs(group) \ {j} : /\ SamePhase(group, group', k)
                                        /\ ~Waits(k) => group'.job[k] = group.job[k]
    BY <1>1, <1>3, GraphEnd
  <2>2. ReaderFits(j)'
    BY <1>2, <1>3, <2>1 DEF ReaderFits
  <2> QED
    BY <1>3, <2>1, <2>2, ReaderMoves
<1>4. CASE ReaderCancelled(j)
  <2> DEFINE r == [err |-> "cancelled", block |-> "none"]
  <2>1. r \in [err : Errors, block : BlockStates \ {"disposed", "leaked"}]
    BY DEF Errors, BlockStates
  <2> QED
    BY <1>3, <1>4, <2>1 DEF ReaderCancelled, ReaderStarts, ReaderSays, CanStart
<1>5. CASE ReaderRefused(j)
  <2> DEFINE r == [err |-> "failed", block |-> "none"]
  <2>1. r \in [err : Errors, block : BlockStates \ {"disposed", "leaked"}]
    BY DEF Errors, BlockStates
  <2> QED
    BY <1>3, <1>5, <2>1 DEF ReaderRefused, ReaderStarts, ReaderSays, CanStart
<1>6. CASE ReaderAccepted(j)
  <2> DEFINE r == [err |-> "initial", block |-> "asked"]
  <2>1. r \in [err : Errors, block : BlockStates \ {"disposed", "leaked"}]
    BY DEF Errors, BlockStates
  <2>2. /\ group.job[j] = "ready" /\ reader' = [reader EXCEPT ![j] = r]
        /\ group' = BlockJob(group, j)
    BY <1>6 DEF ReaderAccepted, ReaderStarts, ReaderSays, CanStart
  <2>3. /\ IsGroup(group') /\ Counted(group') /\ Graph(group')
        /\ Jobs(group') = Jobs(group) /\ group'.job[j] = "blocked"
        /\ \A k \in Jobs(group) \ {j} : group'.job[k] = group.job[k]
    BY <1>1, <2>2, GraphMove
  <2>4. ReaderFits(j)'
    BY <1>2, <2>2, <2>3 DEF ReaderFits
  <2> QED
    BY <1>6, <2>1, <2>2, <2>3, <2>4, ReaderMoves DEF ReaderAccepted, SamePhase
<1>7. CASE ReaderComplete(j)
  <2>1. group.job[j] = "blocked" /\ group' = ReadyJobs(group, {j})
    BY <1>1, <1>7 DEF ReaderComplete, ReaderFits
  <2>2. PICK r \in {[err |-> "ok", block |-> "lent"], [err |-> "failed", block |-> "empty"]} :
          reader' = [reader EXCEPT ![j] = r]
    BY <1>7 DEF ReaderComplete, ReaderSays
  <2>3. r \in [err : Errors, block : BlockStates \ {"disposed", "leaked"}]
    BY <2>2 DEF Errors, BlockStates
  <2>4. group.waitsFor[j] = {}
    BY <1>1, <2>1 DEF Graph
  <2>5. /\ IsGroup(group') /\ Counted(group') /\ Graph(group')
        /\ Jobs(group') = Jobs(group) /\ group'.job[j] = "ready"
        /\ \A k \in Jobs(group) \ {j} : group'.job[k] = group.job[k]
    BY <1>1, <2>1, <2>4, GraphReady
  <2>6. ReaderFits(j)'
    BY <1>2, <2>2, <2>5 DEF ReaderFits
  <2> QED
    BY <1>7, <2>1, <2>2, <2>3, <2>5, <2>6, ReaderMoves DEF ReaderComplete, SamePhase
<1>8. CASE ReaderResumed(j)
  <2>1. /\ group.job[j] = "ready" /\ group' = EndJob(group, j)
        /\ reader' = [reader EXCEPT ![j] = reader[j]]
    BY <1>8 DEF ReaderResumed, CanStart, WriteInv, WriteShapes
  <2>2. \/ reader[j].block = "empty" /\ reader[j].err # "ok"
        \/ reader[j].block = "lent" /\ reader[j].err = "ok"
    BY <1>1, <1>8, <2>1 DEF ReaderResumed, ReaderFits
  <2>3. reader[j] \in [err : Errors, block : BlockStates \ {"disposed", "leaked"}]
    BY <1>1, <2>2
  <2> QED
    BY <1>3, <1>8, <2>1, <2>2, <2>3 DEF ReaderResumed
<1> QED
  BY <1>4, <1>5, <1>6, <1>7, <1>8

--------------------------------------------------------------------------------
(* The target folder has its type, whatever is done to it. *)

(* What the target folder is made of stays so when an asset is set.        *)
LEMMA DiskChanges ==
    ASSUME NEW d, IsDisk(d), NEW a \in Paths, NEW k \in {"none", "dir", "file"}, NEW c, NEW p
    PROVE  /\ IsDisk([d EXCEPT ![a].perm = p]) /\ IsDisk([d EXCEPT ![a].chunks = c])
           /\ IsDisk([d EXCEPT ![a].kind = k])
<1>1. ASSUME NEW x, IsAsset(x) PROVE IsDisk([d EXCEPT ![a] = x])
  BY <1>1 DEF IsDisk
<1>2. /\ IsAsset([d[a] EXCEPT !.perm = p]) /\ IsAsset([d[a] EXCEPT !.chunks = c])
      /\ IsAsset([d[a] EXCEPT !.kind = k])
  BY DEF IsDisk, IsAsset
<1> QED
  BY <1>1, <1>2

(* So it does in each way the folder is written to.                        *)
LEMMA DiskSteps ==
    ASSUME NEW d, IsDisk(d), NEW a \in Paths
    PROVE  /\ \A as : IsDisk(WithParents(d, as))
           /\ IsDisk(MadeWritable(d, a))
           /\ \A n : IsDisk(Opened(d, a, n))
           /\ \A o, e : IsDisk(Written(d, a, o, e))
           /\ IsDisk(Permitted(d, a))
           /\ \A e \in NotOpened(d, a) : IsDisk(e)
           /\ IsDisk([WithParents(d, {a}) EXCEPT
                        ![a] = IF @.kind = "none" THEN [Nothing EXCEPT !.kind = "dir"] ELSE @])
<1>1. IsAsset([Nothing EXCEPT !.kind = "dir"])
  BY DEF IsAsset, Nothing
<1>2. ASSUME NEW f, IsDisk(f), NEW as PROVE IsDisk(WithParents(f, as))
  BY <1>1, <1>2 DEF IsDisk, WithParents
<1>3. ASSUME NEW f, IsDisk(f) PROVE IsDisk(MadeWritable(f, a))
  BY <1>3, DiskChanges DEF MadeWritable
<1>4. ASSUME NEW n PROVE IsDisk(Opened(d, a, n))
  <2> DEFINE f == MadeWritable(WithParents(d, {a}), a)
             g == [f EXCEPT ![a].kind = "file"]
  <2>1. IsDisk(f)
    BY <1>2, <1>3
  <2> HIDE DEF f
  <2>2. IsDisk(g)
    BY <2>1, DiskChanges
  <2> HIDE DEF g
  <2>3. IsDisk([g EXCEPT ![a].chunks = [i \in 1..n |-> 0]])
    BY <2>2, DiskChanges
  <2>4. Opened(d, a, n) = [g EXCEPT ![a].chunks = [i \in 1..n |-> 0]]
    BY DEF Opened, f, g
  <2> QED
    BY <2>3, <2>4
<1>5. ASSUME NEW o, NEW e PROVE IsDisk(Written(d, a, o, e))
  BY DiskChanges DEF Written
<1>6. IsDisk(Permitted(d, a))
  <2>1. IsDisk([d EXCEPT ![a].perm = call.version[a].perm])
    BY DiskChanges
  <2> QED
    BY <2>1 DEF Permitted
<1>7. \A e \in NotOpened(d, a) : IsDisk(e)
  BY <1>2, <1>3 DEF NotOpened
<1>8. IsDisk([WithParents(d, {a}) EXCEPT
                ![a] = IF @.kind = "none" THEN [Nothing EXCEPT !.kind = "dir"] ELSE @])
  <2> DEFINE f == WithParents(d, {a})
             x == IF f[a].kind = "none" THEN [Nothing EXCEPT !.kind = "dir"] ELSE f[a]
  <2>1. IsDisk(f)
    BY <1>2
  <2> HIDE DEF f
  <2>2. IsAsset(x)
    BY <1>1, <2>1 DEF IsDisk
  <2> HIDE DEF x
  <2>3. IsDisk([f EXCEPT ![a] = x])
    BY <2>1, <2>2 DEF IsDisk
  <2> QED
    BY <2>3 DEF f, x
<1> QED
  BY <1>2, <1>3, <1>4, <1>5, <1>6, <1>7, <1>8

(* So it does when a block job writes its assets, or fails at one.         *)
LEMMA BlockDisk ==
    ASSUME IsDisk(disk), NEW as \in SUBSET Paths
    PROVE  /\ IsDisk(WithAssets(as))
           /\ \A a \in Paths : \A d \in HalfWritten(WithAssets(as), a) : IsDisk(d)
<1>1. IsDisk(WithAssets(as))
  <2>1. ASSUME NEW p \in as
        PROVE  IsAsset(Permitted(Written(Opened(disk, p, 0), p, 0, Len(AssetChunks(p))), p)[p])
    <3> DEFINE open == Opened(disk, p, 0)
               full == Written(open, p, 0, Len(AssetChunks(p)))
    <3>1. IsDisk(open)
      BY DiskSteps
    <3> HIDE DEF open
    <3>2. IsDisk(full)
      BY <3>1, DiskSteps
    <3> HIDE DEF full
    <3>3. IsDisk(Permitted(full, p))
      BY <3>2, DiskSteps
    <3>4. IsAsset(Permitted(full, p)[p])
      BY <3>3 DEF IsDisk
    <3> QED
      BY <3>4 DEF full, open
  <2>2. \A p \in Paths : IsAsset(WithParents(disk, as)[p])
    BY DiskSteps DEF IsDisk
  <2>3. \A p \in Paths : IsAsset(WithAssets(as)[p])
    BY <2>1, <2>2 DEF WithAssets
  <2>4. WithAssets(as) = [p \in Paths |-> WithAssets(as)[p]]
    BY DEF WithAssets
  <2> QED
    BY <2>3, <2>4 DEF IsDisk
<1>2. ASSUME NEW f, IsDisk(f), NEW a \in Paths, NEW d \in HalfWritten(f, a) PROVE IsDisk(d)
  <2>1. CASE d \in NotOpened(f, a)
    BY <1>2, <2>1, DiskSteps
  <2>2. CASE d \notin NotOpened(f, a)
    <3>1. PICK n : d = Written(Opened(f, a, 0), a, 0, n)
      BY <1>2, <2>2 DEF HalfWritten
    <3>2. IsDisk(Opened(f, a, 0))
      BY <1>2, DiskSteps
    <3> QED
      BY <3>1, <3>2, DiskSteps
  <2> QED
    BY <2>1, <2>2
<1> QED
  BY <1>1, <1>2

--------------------------------------------------------------------------------
(* Block jobs, and sync jobs *)

(* A block is disposed of, or leaked, once if it was not before.           *)
LEMMA DisposeFacts ==
    ASSUME WriteInv, NEW js, Dispose(js) \/ Leak(js),
           \A j \in js \cap DOMAIN reader : /\ group.job[j] = "complete"
                                            /\ reader[j].block \notin {"disposed", "leaked"}
    PROVE  /\ reader' \in [DOMAIN reader -> [err : Errors, block : BlockStates]]
           /\ DOMAIN reader' = DOMAIN reader
           /\ \A j \in DOMAIN reader \ js : reader'[j] = reader[j]
           /\ \A j \in DOMAIN reader \cap js :
                reader'[j].block # "lent" /\ reader'[j].err = reader[j].err
           /\ \A j \in DOMAIN reader : group'.job[j] = group.job[j] => ReaderFits(j)'
<1>1. \A j \in DOMAIN reader : reader[j] \in [err : Errors, block : BlockStates] /\ ReaderFits(j)
  BY ReaderJobs
<1>2. /\ DOMAIN reader' = DOMAIN reader
      /\ \A j \in DOMAIN reader \ js : reader'[j] = reader[j]
  BY DEF Dispose, Leak
<1>3. ASSUME NEW j \in DOMAIN reader, j \in js
      PROVE  /\ \E end \in {"disposed", "leaked"} :
                  reader'[j] = [reader[j] EXCEPT !.block = IF reader[j].block = "lent" THEN end
                                                           ELSE reader[j].block]
             /\ reader'[j].block # "lent" /\ reader'[j].err = reader[j].err
             /\ reader'[j] \in [err : Errors, block : BlockStates]
  <2>1. PICK end \in {"disposed", "leaked"} :
          reader'[j] = [reader[j] EXCEPT !.block = IF reader[j].block = "lent" THEN end
                                                   ELSE reader[j].block]
    <3>1. CASE Dispose(js)
      <4>1. reader'[j] = [reader[j] EXCEPT !.block = IF reader[j].block = "lent" THEN "disposed"
                                                     ELSE reader[j].block]
        BY <1>1, <1>3, <3>1 DEF Dispose
      <4> QED
        BY <4>1
    <3>2. CASE Leak(js)
      <4>1. reader'[j] = [reader[j] EXCEPT !.block = IF reader[j].block = "lent" THEN "leaked"
                                                     ELSE reader[j].block]
        BY <1>1, <1>3, <3>2 DEF Leak
      <4> QED
        BY <4>1
    <3> QED
      BY <3>1, <3>2
  <2> QED
    BY <1>1, <2>1 DEF BlockStates
<1>4. ASSUME NEW j \in DOMAIN reader, group'.job[j] = group.job[j] PROVE ReaderFits(j)'
  <2>1. CASE j \in js
    <3>1. /\ group'.job[j] = "complete" /\ group.job[j] = "complete"
          /\ reader[j].block \notin {"disposed", "leaked"}
      BY <1>4, <2>1
    <3>2. \/ reader[j].block = "lent" /\ reader[j].err = "ok"
          \/ reader[j].block \in {"empty", "none"} /\ reader[j].err # "ok"
      BY <1>1, <3>1 DEF ReaderFits
    <3>3. /\ reader'[j].err = reader[j].err
          /\ \E end \in {"disposed", "leaked"} :
               reader'[j].block = IF reader[j].block = "lent" THEN end ELSE reader[j].block
      BY <1>1, <1>3, <2>1
    <3> QED
      BY <3>1, <3>2, <3>3 DEF ReaderFits
  <2>2. CASE j \notin js
    BY <1>1, <1>2, <1>4, <2>2 DEF ReaderFits
  <2> QED
    BY <2>1, <2>2
<1>5. reader' = [j \in DOMAIN reader |-> reader'[j]]
  BY DEF Dispose, Leak
<1> QED
  BY <1>1, <1>2, <1>3, <1>4, <1>5

(* A sync job runs.                                                        *)
LEMMA WriteReadyStep == WriteInv /\ WriteReady => WriteInv'
<1> SUFFICES ASSUME WriteInv, NEW a, NEW o, PartSync(a, o) \in Jobs(group),
                    group.job[PartSync(a, o)] = "ready",
                    group' = EndJob(group, PartSync(a, o)),
                    UNCHANGED <<call, contextVars, disk, todo, overwritten>>
             PROVE  WriteInv'
  BY DEF WriteReady, CanStart
<1> USE DEF contextVars
<1> DEFINE s == PartSync(a, o)
<1>1. s[1] = "partsync" /\ s[2] = a /\ s[3] = o
  BY JobNames
<1>2. /\ IsGroup(group') /\ Counted(group') /\ Graph(group')
      /\ Jobs(group') = Jobs(group) /\ group'.job[s] = "complete"
      /\ \A k \in Jobs(group) \ {s} : /\ SamePhase(group, group', k)
                                      /\ ~Waits(k) => group'.job[k] = group.job[k]
  BY GraphEnd DEF WriteInv, WriteShapes
<1>3. CallType' /\ WriteShapes' /\ DiskShape' /\ Graph(group)'
  BY <1>2, SamePlan DEF WriteInv, WriteShapes, DiskShape
<1>4. JobsKnown'
  <2>1. DOMAIN part' \subseteq Jobs(group)
    BY DEF WriteInv, JobsKnown
  <2> QED
    BY <1>2, <2>1, JobsKnownKept
<1>5. \A k \in DOMAIN reader' : ReaderFits(k)'
  BY <1>1, <1>2, ReaderJobs DEF ReaderFits
<1>6. \A b \in DOMAIN blockErr' : BlockJobFits(b)'
  <2> SUFFICES ASSUME NEW b \in DOMAIN blockErr PROVE BlockJobFits(b)'
    OBVIOUS
  <2>1. WriteJob(b) \in Jobs(group) \ {s}
    BY <1>1, JobNames DEF WriteInv, JobsKnown
  <2> QED
    BY <1>2, <2>1, BlockJobKept
<1>7. \A c \in DOMAIN ctx' : AssetFits(c)'
  <2> SUFFICES ASSUME NEW c \in DOMAIN ctx PROVE AssetFits(c)'
    OBVIOUS
  <2>1. \A p : Begun(c, p)' <=> Begun(c, p)
    BY <1>2 DEF Begun
  <2>2. ASSUME NEW p, Begun(c, p) PROVE SamePhase(group, group', PartWrite(c, p))
    BY <1>1, <1>2, <2>2, JobNames DEF Begun
  <2>3. CASE s # PartSync(c, ctx[c].offset)
    <3>1. PartSync(c, ctx[c].offset) \in Jobs(group) =>
            group'.job[PartSync(c, ctx[c].offset)] = group.job[PartSync(c, ctx[c].offset)]
      BY <1>2, <2>3, JobNames DEF Waits
    <3> QED
      BY <2>1, <2>2, <3>1, AssetKept
  <2>4. CASE s = PartSync(c, ctx[c].offset)
    BY <2>1, <2>2, <2>4, AssetKept
  <2> QED
    BY <2>3, <2>4
<1> QED
  BY <1>3, <1>4, <1>5, <1>6, <1>7 DEF WriteInv

(* A block job ends, with its block disposed of if there was one.          *)
LEMMA BlockJobEnded ==
    ASSUME WriteInv, NEW b \in DOMAIN blockErr,
           UNCHANGED <<call, ctx, part, todo, overwritten>>,
           group.job[WriteJob(b)] = "ready", group' = EndJob(group, WriteJob(b)),
           NEW err \in Errors, blockErr' = [blockErr EXCEPT ![b] = err],
           \/ UNCHANGED reader /\ reader[ReadJob(b)].err # "ok"
           \/ Dispose({ReadJob(b)}),
           IsDisk(disk')
    PROVE  WriteInv'
<1> DEFINE w == WriteJob(b)
           r == ReadJob(b)
<1>1. /\ w \in Jobs(group) /\ r \in DOMAIN reader /\ r[1] = "read" /\ w[1] = "write"
      /\ WaitsOn(w) = {r}
  BY JobNames, WaitsOnFacts DEF WriteInv, JobsKnown
<1>2. /\ IsGroup(group') /\ Counted(group') /\ Graph(group')
      /\ Jobs(group') = Jobs(group) /\ group'.job[w] = "complete"
      /\ \A k \in Jobs(group) \ {w} : /\ SamePhase(group, group', k)
                                      /\ ~Waits(k) => group'.job[k] = group.job[k]
  BY <1>1, GraphEnd DEF WriteInv, WriteShapes
<1>3. group.job[r] = "complete" /\ reader[r].block \notin {"disposed", "leaked"}
  <2>1. group.job[r] = "complete"
    BY <1>1 DEF WriteInv, Graph
  <2>2. BlockJobFits(b)
    BY DEF WriteInv
  <2> QED
    BY <2>1, <2>2 DEF BlockJobFits, Idle
<1>4. \A j \in DOMAIN reader : group'.job[j] = group.job[j] /\ j \in Jobs(group) \ {w}
  BY <1>1, <1>2, ReaderJobs DEF Waits
<1>5. /\ reader' \in [DOMAIN reader -> [err : Errors, block : BlockStates]]
      /\ DOMAIN reader' = DOMAIN reader
      /\ \A j \in DOMAIN reader \ {r} : reader'[j] = reader[j]
      /\ reader'[r].block # "lent"
      /\ \A j \in DOMAIN reader : ReaderFits(j)'
  <2>1. CASE UNCHANGED reader /\ reader[r].err # "ok"
    <3>1. \A j \in DOMAIN reader : ReaderFits(j)
      BY DEF WriteInv
    <3>2. \A j \in DOMAIN reader : ReaderFits(j)'
      BY <1>4, <2>1, <3>1 DEF ReaderFits
    <3>3. reader[r].block # "lent"
      BY <1>1, <1>3, <2>1, <3>1 DEF ReaderFits
    <3> QED
      BY <2>1, <3>2, <3>3 DEF WriteInv, WriteShapes
  <2>2. CASE Dispose({r})
    BY <1>1, <1>3, <1>4, <2>2, DisposeFacts
  <2> QED
    BY <2>1, <2>2
<1>6. CallType' /\ WriteShapes' /\ DiskShape' /\ Graph(group)'
  <2>1. blockErr' \in [DOMAIN blockErr' -> Errors]
    BY DEF WriteInv, WriteShapes
  <2> QED
    BY <1>2, <1>5, <2>1, SamePlan DEF WriteInv, WriteShapes, DiskShape
<1>7. JobsKnown'
  <2>1. DOMAIN part' \subseteq Jobs(group)
    BY DEF WriteInv, JobsKnown
  <2> QED
    BY <1>2, <1>5, <2>1, JobsKnownKept
<1>8. \A c \in DOMAIN blockErr' : BlockJobFits(c)'
  <2> SUFFICES ASSUME NEW c \in DOMAIN blockErr PROVE BlockJobFits(c)'
    OBVIOUS
  <2>1. CASE c = b
    BY <1>2, <1>5, <2>1 DEF BlockJobFits, Idle
  <2>2. CASE c # b
    <3>1. WriteJob(c) \in Jobs(group) \ {w} /\ ReadJob(c) \in DOMAIN reader \ {r}
      BY <2>2, JobNames DEF WriteInv, JobsKnown
    <3> QED
      BY <1>2, <1>5, <3>1, BlockJobKept
  <2> QED
    BY <2>1, <2>2
<1>9. \A a \in DOMAIN ctx' : AssetFits(a)'
  <2> SUFFICES ASSUME NEW a \in DOMAIN ctx PROVE AssetFits(a)'
    OBVIOUS
  <2>1. \A o : Begun(a, o)' <=> Begun(a, o)
    BY <1>2 DEF Begun
  <2>2. PartSync(a, ctx[a].offset) \in Jobs(group) =>
          group'.job[PartSync(a, ctx[a].offset)] = group.job[PartSync(a, ctx[a].offset)]
    BY <1>1, <1>2, JobNames DEF Waits
  <2>3. ASSUME NEW o, Begun(a, o)
        PROVE  /\ SamePhase(group, group', PartWrite(a, o))
               /\ \A k \in PartReads(a, o) : reader'[k].block = reader[k].block
    <3>1. PartWrite(a, o) \in Jobs(group) \ {w}
      BY <1>1, <2>3, JobNames DEF Begun
    <3>2. PartReads(a, o) \subseteq DOMAIN reader \ {r}
      BY <1>1, <2>3, PartJobsThere, JobNames
    <3> QED
      BY <1>2, <1>5, <3>1, <3>2
  <2> QED
    BY <2>1, <2>2, <2>3, AssetKept
<1> QED
  BY <1>5, <1>6, <1>7, <1>8, <1>9 DEF WriteInv

(* A block job runs, to whichever end.                                     *)
LEMMA BlockJobStep == WriteInv /\ BlockJobNext => WriteInv'
<1> SUFFICES ASSUME WriteInv, NEW b \in DOMAIN blockErr,
                    \/ BlockReadFailed(b) \/ BlockCancelled(b)
                    \/ BlockWritten(b) \/ BlockNotWritten(b)
             PROVE  WriteInv'
  BY DEF BlockJobNext
<1> USE DEF blockRest
<1>1. IsDisk(disk) /\ BlockJobAssets(b) \in SUBSET Paths
  BY DEF WriteInv, DiskShape, CallType, BlockJobAssets
<1>2. reader[ReadJob(b)].err \in Errors /\ {"ok", "failed", "cancelled"} \subseteq Errors
  <2>1. ReadJob(b) \in DOMAIN reader
    BY JobNames DEF WriteInv, JobsKnown
  <2> QED
    BY <2>1 DEF WriteInv, WriteShapes, Errors
<1>3. CASE BlockReadFailed(b)
  BY <1>1, <1>2, <1>3, BlockJobEnded DEF BlockReadFailed, BlockJobStarts, BlockJobEnds, CanStart
<1>4. CASE BlockCancelled(b)
  BY <1>1, <1>2, <1>4, BlockJobEnded DEF BlockCancelled, BlockJobStarts, BlockJobEnds, CanStart
<1>5. CASE BlockWritten(b)
  <2>1. IsDisk(disk')
    BY <1>1, <1>5, BlockDisk DEF BlockWritten
  <2> QED
    BY <1>2, <1>5, <2>1, BlockJobEnded
    DEF BlockWritten, BlockJobGoesOn, BlockJobStarts, BlockJobEnds, CanStart
<1>6. CASE BlockNotWritten(b)
  <2>1. IsDisk(disk')
    <3>1. PICK a \in BlockJobAssets(b) : \E as \in SUBSET (BlockJobAssets(b) \ {a}) :
            disk' \in HalfWritten(WithAssets(as), a)
      BY <1>6 DEF BlockNotWritten
    <3>2. PICK before \in SUBSET (BlockJobAssets(b) \ {a}) :
            disk' \in HalfWritten(WithAssets(before), a)
      BY <3>1
    <3>3. before \in SUBSET Paths /\ a \in Paths
      BY <1>1
    <3> QED
      BY <1>1, <3>2, <3>3, BlockDisk
  <2> QED
    BY <1>2, <1>6, <2>1, BlockJobEnded
    DEF BlockNotWritten, BlockJobGoesOn, BlockJobStarts, BlockJobEnds, CanStart
<1> QED
  BY <1>3, <1>4, <1>5, <1>6

--------------------------------------------------------------------------------
(* Parts *)

(* A part that is at work has a job that runs.                             *)
LEMMA InPartBegun ==
    ASSUME WriteInv, NEW a, NEW o, NEW where, InPart(a, o, where)
    PROVE  Begun(a, o) /\ group.job[PartWrite(a, o)] = "running"
<1>1. Begun(a, o)
  BY DEF InPart, WriteInv, JobsKnown, Begun
<1> QED
  BY <1>1, PartJobsThere DEF PartFits, InPart

(* Of the contexts only that of a changes, but for its offset.             *)
OnlyContext(a) ==
    /\ ctx' \in [DOMAIN ctx -> [offset : Nat, file : BOOLEAN, err : Errors]]
    /\ ctx'[a].offset = ctx[a].offset
    /\ \A c \in DOMAIN ctx \ {a} : ctx'[c] = ctx[c]

(* The context of one asset is written.                                    *)
LEMMA ContextSet ==
    ASSUME WriteInv, NEW a \in DOMAIN ctx, NEW f \in BOOLEAN, NEW err \in Errors,
           \/ ctx' = [ctx EXCEPT ![a].file = f, ![a].err = err]
           \/ ctx' = [ctx EXCEPT ![a].file = f] /\ err = ctx[a].err
           \/ ctx' = [ctx EXCEPT ![a].err = err] /\ f = ctx[a].file
    PROVE  OnlyContext(a) /\ ctx'[a].file = f /\ ctx'[a].err = err
<1> DEFINE Context == [offset : Nat, file : BOOLEAN, err : Errors]
           r == ctx[a]
<1>1. ctx \in [DOMAIN ctx -> Context] /\ r \in Context
  BY DEF WriteInv, WriteShapes
<1>2. ASSUME NEW s \in Context, ctx' = [ctx EXCEPT ![a] = s], s.offset = r.offset,
             s.file = f, s.err = err
      PROVE  OnlyContext(a) /\ ctx'[a].file = f /\ ctx'[a].err = err
  BY <1>1, <1>2 DEF OnlyContext
<1>3. CASE ctx' = [ctx EXCEPT ![a].file = f, ![a].err = err]
  <2> DEFINE q == [r EXCEPT !.file = f]
             s == [q EXCEPT !.err = err]
  <2>1. q \in Context /\ q.offset = r.offset /\ q.file = f
    BY <1>1
  <2>2. ctx' = [ctx EXCEPT ![a] = s]
    BY <1>1, <1>3
  <2> HIDE DEF q
  <2>3. s \in Context /\ s.offset = r.offset /\ s.file = f /\ s.err = err
    BY <2>1
  <2> HIDE DEF s
  <2> QED
    BY <1>2, <2>2, <2>3
<1>4. CASE ctx' = [ctx EXCEPT ![a].file = f] /\ err = ctx[a].err
  BY <1>1, <1>4 DEF OnlyContext
<1>5. CASE ctx' = [ctx EXCEPT ![a].err = err] /\ f = ctx[a].file
  BY <1>1, <1>5 DEF OnlyContext
<1> QED
  BY <1>3, <1>4, <1>5

(* What the steps of a part's write job have in common, but for the one    *)
(* that creates the next part: the job is called, goes on or ends, and     *)
(* leaves what is not the part's own.                                      *)
LEMMA PartMoves ==
    ASSUME WriteInv, NEW a, NEW o, Begun(a, o),
           group.job[PartWrite(a, o)] \in {"ready", "running"},
           UNCHANGED <<call, blockErr, todo>>,
           OnlyContext(a),
           IsGroup(group'), Counted(group'), Graph(group'), Jobs(group') = Jobs(group),
           \A k \in Jobs(group) \ {PartWrite(a, o), PartSync(a, ctx[a].offset)} :
             /\ SamePhase(group, group', k)
             /\ ~Waits(k) => group'.job[k] = group.job[k],
           group'.job[PartWrite(a, o)] \in {"running", "complete"},
           part' \in [DOMAIN part' -> {"writing", "ok", "failed"}],
           \A k : k # PartWrite(a, o) => /\ k \in DOMAIN part' <=> k \in DOMAIN part
                                         /\ k \in DOMAIN part => part'[k] = part[k],
           PartWrite(a, o) \in DOMAIN part' <=> group'.job[PartWrite(a, o)] = "running",
           \/ /\ UNCHANGED reader
              /\ InPart(a, o, "writing")' =>
                   /\ ctx'[a].file /\ o = ctx[a].offset /\ IsLastPart(a, o)
                   /\ \A j \in PartReads(a, o) : reader[j].block = "lent"
              /\ ~InPart(a, o, "writing")' =>
                   \A j \in PartReads(a, o) : reader[j].block # "lent"
           \/ /\ Dispose(PartReads(a, o)) \/ Leak(PartReads(a, o))
              /\ group.job[PartWrite(a, o)] = "ready" \/ InPart(a, o, "writing")
              /\ ~InPart(a, o, "writing")',
           IsDisk(disk'), overwritten' \subseteq Paths,
           \A p : p # o /\ InPart(a, p, "writing") =>
             /\ ctx'[a].file = ctx[a].file
             /\ PartSync(a, ctx[a].offset) \in Jobs(group) =>
                  (group.job[PartSync(a, ctx[a].offset)] = "created" =>
                     group'.job[PartSync(a, ctx[a].offset)] = "created"),
           ctx'[a].file => \/ Idle(group', PartWrite(a, ctx[a].offset))
                           \/ \E p \in 0..ctx[a].offset : InPart(a, p, "writing")'
    PROVE  WriteInv'
<1> DEFINE w == PartWrite(a, o)
           O == ctx[a].offset
           s == PartSync(a, O)
<1>1. /\ a \in DOMAIN ctx /\ o \in 0..O /\ AssetFits(a) /\ PartFits(a, o)
      /\ PartReads(a, o) \subseteq DOMAIN reader
      /\ \A j \in PartReads(a, o) : group.job[j] = "complete"
      /\ w \in Jobs(group) /\ w[1] = "partwrite" /\ s[1] = "partsync"
  BY PartJobsThere, JobNames DEF Begun
<1>2. \A j \in DOMAIN reader : group'.job[j] = group.job[j] /\ j \in Jobs(group) \ {w, s}
  BY <1>1, ReaderJobs DEF Waits
<1>3. /\ reader' \in [DOMAIN reader -> [err : Errors, block : BlockStates]]
      /\ DOMAIN reader' = DOMAIN reader
      /\ \A j \in DOMAIN reader \ PartReads(a, o) : reader'[j] = reader[j]
      /\ \A j \in DOMAIN reader : ReaderFits(j)'
  <2>1. CASE UNCHANGED reader
    <3>1. \A j \in DOMAIN reader : ReaderFits(j)
      BY DEF WriteInv
    <3>2. \A j \in DOMAIN reader : ReaderFits(j)'
      BY <1>2, <2>1, <3>1 DEF ReaderFits
    <3> QED
      BY <2>1, <3>2 DEF WriteInv, WriteShapes
  <2>2. CASE /\ Dispose(PartReads(a, o)) \/ Leak(PartReads(a, o))
             /\ group.job[w] = "ready" \/ InPart(a, o, "writing")
    <3>1. \A j \in PartReads(a, o) : reader[j].block \notin {"disposed", "leaked"}
      BY <1>1, <2>2 DEF PartFits, Idle
    <3> QED
      BY <1>1, <1>2, <2>2, <3>1, DisposeFacts
  <2> QED
    BY <2>1, <2>2
<1>4. CallType' /\ WriteShapes' /\ DiskShape' /\ Graph(group)'
  <2>1. ctx' \in [DOMAIN ctx' -> [offset : Nat, file : BOOLEAN, err : Errors]]
    BY DEF OnlyContext
  <2> QED
    BY <1>3, <2>1, SamePlan DEF WriteInv, WriteShapes, DiskShape
<1>5. /\ DOMAIN ctx' = DOMAIN ctx
      /\ ctx'[a].offset = O
      /\ \A c \in DOMAIN ctx \ {a} : ctx'[c] = ctx[c]
  BY <1>1 DEF OnlyContext
<1>6. JobsKnown'
  <2>1. DOMAIN part' \subseteq Jobs(group)
    BY <1>1 DEF WriteInv, JobsKnown
  <2>2. \A c \in DOMAIN ctx : ctx'[c].offset = ctx[c].offset
    BY <1>5
  <2> QED
    BY <1>3, <1>5, <2>1, <2>2, JobsKnownKept
<1>7. \A b \in DOMAIN blockErr' : BlockJobFits(b)'
  <2> SUFFICES ASSUME NEW b \in DOMAIN blockErr PROVE BlockJobFits(b)'
    OBVIOUS
  <2>1. WriteJob(b) \in Jobs(group) \ {w, s} /\ ReadJob(b) \in DOMAIN reader \ PartReads(a, o)
    BY <1>1, JobNames DEF WriteInv, JobsKnown
  <2> QED
    BY <1>3, <2>1, BlockJobKept
<1>8. \A c, p : Begun(c, p)' <=> Begun(c, p)
  BY DEF Begun
<1>9. ASSUME NEW c, NEW p, Begun(c, p), c # a \/ p # o
      PROVE  /\ SamePhase(group, group', PartWrite(c, p))
             /\ PartWrite(c, p) \in DOMAIN part' <=> PartWrite(c, p) \in DOMAIN part
             /\ PartWrite(c, p) \in DOMAIN part => part'[PartWrite(c, p)] = part[PartWrite(c, p)]
             /\ \A j \in PartReads(c, p) : reader'[j].block = reader[j].block
  <2>1. PartWrite(c, p) \in Jobs(group) \ {w, s}
    BY <1>1, <1>9, JobNames DEF Begun
  <2>2. PartReads(c, p) \subseteq DOMAIN reader \ PartReads(a, o)
    BY <1>1, <1>9, PartJobsThere, JobNames
  <2> QED
    BY <1>3, <2>1, <2>2
<1>10. ASSUME NEW c \in DOMAIN ctx, c # a PROVE AssetFits(c)'
  <2>1. PartSync(c, ctx[c].offset) \in Jobs(group) =>
          group'.job[PartSync(c, ctx[c].offset)] = group.job[PartSync(c, ctx[c].offset)]
    BY <1>1, <1>10, JobNames DEF Waits
  <2> QED
    BY <1>5, <1>8, <1>9, <1>10, <2>1, AssetKept
<1>11. PartFits(a, o)'
  <2>1. group'.job[w] \in {"created", "ready", "running", "complete"} /\ ~Idle(group', w)
    BY DEF Idle
  <2>2. \A p \in 0..(o - 1) : Begun(a, p)' => PartEnd(a, p)' <= o
    BY <1>1, <1>8, SamePlan DEF PartFits
  <2>3. CASE /\ UNCHANGED reader
             /\ InPart(a, o, "writing")' =>
                  /\ ctx'[a].file /\ o = ctx[a].offset /\ IsLastPart(a, o)
                  /\ \A j \in PartReads(a, o) : reader[j].block = "lent"
             /\ ~InPart(a, o, "writing")' =>
                  \A j \in PartReads(a, o) : reader[j].block # "lent"
    BY <1>5, <2>1, <2>2, <2>3, SamePlan DEF PartFits
  <2>4. CASE /\ Dispose(PartReads(a, o)) \/ Leak(PartReads(a, o))
             /\ group.job[w] = "ready" \/ InPart(a, o, "writing")
             /\ ~InPart(a, o, "writing")'
    <3>1. \A j \in PartReads(a, o) : reader[j].block \notin {"disposed", "leaked"}
      BY <1>1, <2>4 DEF PartFits, Idle
    <3>2. \A j \in PartReads(a, o) : reader'[j].block # "lent"
      BY <1>1, <2>4, <3>1, DisposeFacts
    <3> QED
      BY <1>5, <2>1, <2>2, <2>4, <3>2, SamePlan DEF PartFits
  <2> QED
    BY <2>3, <2>4
<1>12. ASSUME NEW p, Begun(a, p), p # o PROVE PartFits(a, p)'
  BY <1>5, <1>8, <1>9, <1>12, PartKept
<1>13. AssetFits(a)'
  <2>1. \A p : Begun(a, p)' => p \in 0..O /\ PartFits(a, p)'
    BY <1>1, <1>8, <1>11, <1>12 DEF AssetFits
  <2> QED
    BY <1>1, <1>5, <1>8, <2>1, SamePlan DEF AssetFits
<1>14. \A c \in DOMAIN ctx' : AssetFits(c)'
  BY <1>5, <1>10, <1>13
<1> QED
  BY <1>3, <1>4, <1>6, <1>7, <1>14 DEF WriteInv

(* The write job of a part that is called has its readers done and is      *)
(* alone with the file.                                                    *)
LEMMA PartCalled ==
    ASSUME WriteInv, NEW a, NEW o, PartStarts(a, o)
    PROVE  /\ a \in DOMAIN ctx /\ o = ctx[a].offset /\ Begun(a, o)
           /\ group.job[PartWrite(a, o)] = "ready" /\ PartWrite(a, o) \notin DOMAIN part
           /\ \A j \in PartReads(a, o) : reader[j].block \notin {"disposed", "leaked"}
           /\ \A p : p # o => ~InPart(a, p, "writing")
<1>1. a \in DOMAIN ctx /\ o = ctx[a].offset /\ Begun(a, o) /\ group.job[PartWrite(a, o)] = "ready"
  BY DEF PartStarts, CanStart, Begun
<1>2. PartFits(a, o)
  BY <1>1, PartJobsThere
<1>3. ASSUME NEW p, p # o, InPart(a, p, "writing") PROVE FALSE
  <2>1. Begun(a, p)
    BY <1>3, InPartBegun
  <2> QED
    BY <1>1, <1>3, <2>1, SoleWriter
<1> QED
  BY <1>1, <1>2, <1>3 DEF PartFits, Idle

(* The group after the next part's sync job, if there is one, is readied.  *)
LEMMA NextReleasedFacts ==
    ASSUME WriteInv, NEW a, NEW o, InPart(a, o, "writing"),
           NEW g, g = NextReleased(a, o)
    PROVE  /\ IsGroup(g) /\ Counted(g) /\ SameCall(group, g) /\ Graph(g) /\ Jobs(g) = Jobs(group)
           /\ \A k \in Jobs(group) \ {PartSync(a, ctx[a].offset)} : g.job[k] = group.job[k]
           /\ ~IsLastPart(a, o) =>
                o # ctx[a].offset /\ Idle(g, PartWrite(a, ctx[a].offset))
<1> DEFINE O == ctx[a].offset
           s == PartSync(a, O)
<1>1. /\ Begun(a, o) /\ a \in DOMAIN ctx /\ o \in 0..O /\ AssetFits(a) /\ PartFits(a, o)
      /\ O \in 0..Len(AssetChunks(a)) /\ AssetChunks(a) \in Seq(Nat)
      /\ IsGroup(group) /\ Counted(group) /\ Graph(group)
  BY InPartBegun, PartJobsThere DEF AssetFits, WriteInv, WriteShapes
<1>2. CASE IsLastPart(a, o)
  BY <1>1, <1>2 DEF NextReleased, SameCall
<1>3. CASE ~IsLastPart(a, o)
  <2>1. o # O /\ PartEnd(a, o) = O /\ group.job[s] = "created"
    BY <1>1, <1>3 DEF PartFits
  <2>2. O < Len(AssetChunks(a)) /\ Begun(a, O)
    BY <1>1, <2>1 DEF AssetFits
  <2>3. PartReads(a, O) # {}
    BY <1>1, <2>2, PartFacts
  <2>4. s \in Jobs(group) /\ group.job[PartWrite(a, O)] = "created" /\ s[1] = "partsync"
    BY <2>1, <2>2, <2>3, PartJobsThere, JobNames
  <2>5. group.waitsFor[s] = {}
    BY <1>1, <2>4, WaitsOnFacts DEF Graph
  <2>6. g = ReadyJobs(group, {s})
    BY <1>3, <2>1 DEF NextReleased
  <2>7. /\ IsGroup(g) /\ Counted(g) /\ SameCall(group, g) /\ Graph(g) /\ Jobs(g) = Jobs(group)
        /\ \A k \in Jobs(group) \ {s} : g.job[k] = group.job[k]
    <3>1. /\ {s} \in SUBSET Jobs(group)
          /\ \A j \in {s} : group.job[j] # "complete" /\ group.waitsFor[j] = {}
      BY <2>1, <2>4, <2>5
    <3> HIDE DEF s
    <3> QED
      BY <1>1, <2>6, <3>1, GraphReady
  <2>8. PartWrite(a, O) # s /\ PartWrite(a, O) \in Jobs(group)
    BY <2>2, JobNames DEF Begun
  <2> QED
    BY <2>1, <2>4, <2>7, <2>8 DEF Idle
<1> QED
  BY <1>2, <1>3

(* A part that is over before it wrote anything, with its blocks disposed  *)
(* of or, where the assertion is not met, leaked.                          *)
PartOver(a, o, err) ==
    /\ Dispose(PartReads(a, o)) \/ Leak(PartReads(a, o))
    /\ ctx' = [ctx EXCEPT ![a].file = FALSE, ![a].err = err]
    /\ group' = EndJob(group, PartWrite(a, o))
    /\ UNCHANGED <<partRest, part, overwritten>>

LEMMA PartGivesUpIsOver ==
    ASSUME NEW a, NEW o, NEW err, PartGivesUp(a, o, err)
    PROVE  PartOver(a, o, err)
BY DEF PartGivesUp, PartOver

LEMMA PartAssertsIsOver ==
    ASSUME WriteInv, NEW a, NEW o, PartAsserts(a, o)
    PROVE  PartOver(a, o, ctx[a].err)
<1>1. a \in DOMAIN ctx /\ ~ctx[a].file /\ UNCHANGED ctx
  BY DEF PartAsserts, PartStarts, EarlierPartFailed
<1>2. ctx \in [DOMAIN ctx -> [offset : Nat, file : BOOLEAN, err : Errors]]
  BY DEF WriteInv, WriteShapes
<1>3. ctx = [ctx EXCEPT ![a].file = FALSE, ![a].err = ctx[a].err]
  BY <1>1, <1>2
<1> QED
  BY <1>1, <1>3 DEF PartAsserts, PartOver

LEMMA PartGivesUpStep ==
    ASSUME WriteInv, NEW a, NEW o, PartStarts(a, o), NEW err \in Errors, PartOver(a, o, err),
           IsDisk(disk')
    PROVE  WriteInv'
<1> DEFINE w == PartWrite(a, o)
<1>1. /\ a \in DOMAIN ctx /\ o = ctx[a].offset /\ Begun(a, o)
      /\ group.job[w] = "ready" /\ w \notin DOMAIN part
      /\ \A p : p # o => ~InPart(a, p, "writing")
  BY PartCalled
<1>2. /\ IsGroup(group') /\ Counted(group') /\ Graph(group') /\ Jobs(group') = Jobs(group)
      /\ group'.job[w] = "complete"
      /\ \A k \in Jobs(group) \ {w} : /\ SamePhase(group, group', k)
                                      /\ ~Waits(k) => group'.job[k] = group.job[k]
  BY <1>1, GraphEnd DEF WriteInv, WriteShapes, PartOver, Begun
<1>3. OnlyContext(a) /\ ctx'[a].file = FALSE
  BY <1>1, ContextSet DEF PartOver
<1>4. ~InPart(a, o, "writing")' /\ part' = part /\ UNCHANGED <<call, blockErr, todo, overwritten>>
  BY <1>1 DEF InPart, PartOver, partRest
<1>5. part \in [DOMAIN part -> {"writing", "ok", "failed"}] /\ overwritten \subseteq Paths
  BY DEF WriteInv, WriteShapes, DiskShape
<1> QED
  BY <1>1, <1>2, <1>3, <1>4, <1>5, PartMoves DEF PartOver

(* A write job that ends before it opens the file, or needs no file.       *)
LEMMA PartEndsEarly ==
    ASSUME WriteInv, NEW a, NEW o,
           \/ PartAfterFailure(a, o) \/ PartAsserts(a, o) \/ PartCancelled(a, o)
           \/ PartReadsFailed(a, o) \/ PartNotOpened(a, o) \/ PartDirectory(a, o)
    PROVE  WriteInv'
<1>1. PartStarts(a, o)
  BY DEF PartAfterFailure, PartAsserts, PartCancelled, PartReadsFailed, PartNotOpened,
         PartDirectory, PartGoesOn
<1>2. /\ ctx[a].err \in Errors /\ "failed" \in Errors /\ "cancelled" \in Errors /\ "ok" \in Errors
      /\ a \in Paths /\ IsDisk(disk)
  <2>1. a \in DOMAIN ctx
    BY <1>1, PartCalled
  <2> QED
    BY <2>1 DEF WriteInv, WriteShapes, DiskShape, JobsKnown, CallType, Errors
<1>3. CASE PartAfterFailure(a, o)
  BY <1>1, <1>2, <1>3, PartGivesUpIsOver, PartGivesUpStep DEF PartAfterFailure
<1>4. CASE PartCancelled(a, o)
  BY <1>1, <1>2, <1>4, PartGivesUpIsOver, PartGivesUpStep DEF PartCancelled
<1>5. CASE PartReadsFailed(a, o)
  BY <1>1, <1>2, <1>5, PartGivesUpIsOver, PartGivesUpStep DEF PartReadsFailed
<1>6. CASE PartNotOpened(a, o)
  <2>1. IsDisk(disk')
    BY <1>2, <1>6, DiskSteps DEF PartNotOpened
  <2> QED
    BY <1>1, <1>2, <1>6, <2>1, PartGivesUpIsOver, PartGivesUpStep DEF PartNotOpened
<1>7. CASE PartDirectory(a, o)
  <2>1. IsDisk(disk')
    BY <1>2, <1>7, DiskSteps DEF PartDirectory
  <2> QED
    BY <1>1, <1>2, <1>7, <2>1, PartGivesUpIsOver, PartGivesUpStep DEF PartDirectory
<1>8. CASE PartAsserts(a, o)
  <2>1. IsDisk(disk')
    BY <1>2, <1>8 DEF PartAsserts
  <2> QED
    BY <1>1, <1>2, <1>8, <2>1, PartAssertsIsOver, PartGivesUpStep
<1> QED
  BY <1>3, <1>4, <1>5, <1>6, <1>7, <1>8

(* The last part opens its file, or goes on with it.                       *)
LEMMA LastPartOpens ==
    ASSUME WriteInv, NEW a, NEW o, PartOpens(a, o), IsLastPart(a, o)
    PROVE  WriteInv'
<1> DEFINE w == PartWrite(a, o)
<1>1. /\ a \in DOMAIN ctx /\ o = ctx[a].offset /\ Begun(a, o)
      /\ group.job[w] = "ready" /\ w \notin DOMAIN part
      /\ \A j \in PartReads(a, o) : reader[j].block \notin {"disposed", "leaked"}
      /\ \A p : p # o => ~InPart(a, p, "writing")
  BY PartCalled DEF PartOpens, PartGoesOn
<1>2. /\ group' = [group EXCEPT !.job[w] = "running"]
      /\ UNCHANGED <<call, blockErr, todo, reader, overwritten>>
      /\ ctx' = [ctx EXCEPT ![a].file = TRUE]
      /\ part' = Extend(part, {w}, "writing")
      /\ disk' = IF o = 0 THEN Opened(disk, a, Len(AssetChunks(a))) ELSE disk
      /\ ReadErrors(a, o) = {}
  BY DEF PartOpens, PartGoesOn, partRest
<1>3. /\ IsGroup(group') /\ Counted(group') /\ Graph(group') /\ Jobs(group') = Jobs(group)
      /\ group'.job[w] = "running"
      /\ \A k \in Jobs(group) \ {w} : group'.job[k] = group.job[k]
  <2>1. IsGroup(group) /\ Counted(group) /\ Graph(group) /\ w \in Jobs(group)
    BY <1>1 DEF WriteInv, WriteShapes, Begun
  <2>2. group.job[w] \notin {"created", "complete"}
    BY <1>1
  <2>3. group' = [group EXCEPT !.job[w] = "running"]
    BY <1>2
  <2> HIDE DEF w
  <2> QED
    BY <2>1, <2>2, <2>3, GraphMove
<1>4. OnlyContext(a) /\ ctx'[a].file = TRUE
  <2>1. ctx[a].err \in Errors
    BY <1>1 DEF WriteInv, WriteShapes
  <2> QED
    BY <1>1, <1>2, <2>1, ContextSet
<1>5. /\ part' \in [DOMAIN part' -> {"writing", "ok", "failed"}]
      /\ InPart(a, o, "writing")' /\ w \in DOMAIN part'
      /\ \A k : k # w => /\ k \in DOMAIN part' <=> k \in DOMAIN part
                         /\ k \in DOMAIN part => part'[k] = part[k]
  BY <1>2 DEF Extend, InPart, WriteInv, WriteShapes
<1>6. \A j \in PartReads(a, o) : reader[j].block = "lent"
  <2> TAKE j \in PartReads(a, o)
  <2>1. j \in DOMAIN reader /\ group.job[j] = "complete" /\ ReaderFits(j)
    BY <1>1, PartJobsThere DEF WriteInv
  <2>2. reader[j].err = "ok"
    BY <1>2 DEF ReadErrors
  <2> QED
    BY <1>1, <2>1, <2>2 DEF ReaderFits
<1>7. IsDisk(disk') /\ overwritten' \subseteq Paths
  <2>1. a \in Paths /\ IsDisk(disk) /\ overwritten \subseteq Paths
    BY <1>1 DEF WriteInv, DiskShape, JobsKnown, CallType
  <2> QED
    BY <1>2, <2>1, DiskSteps
<1>8. o \in 0..ctx[a].offset
  BY <1>1, PartJobsThere
<1>9. /\ group.job[w] \in {"ready", "running"} /\ group'.job[w] \in {"running", "complete"}
      /\ \A k \in Jobs(group) \ {w, PartSync(a, ctx[a].offset)} :
           /\ SamePhase(group, group', k)
           /\ ~Waits(k) => group'.job[k] = group.job[k]
  BY <1>1, <1>3 DEF SamePhase
<1>10. /\ UNCHANGED <<call, blockErr, todo>> /\ UNCHANGED reader
       /\ w \in DOMAIN part' <=> group'.job[w] = "running"
       /\ ctx'[a].file /\ o = ctx[a].offset /\ IsLastPart(a, o)
  BY <1>1, <1>2, <1>3, <1>4, <1>5
<1> QED
  BY <1>1, <1>3, <1>4, <1>5, <1>6, <1>7, <1>8, <1>9, <1>10, PartMoves

(* The part that is being written is alone with the file.                  *)
LEMMA PartAtWork ==
    ASSUME WriteInv, NEW a, NEW o, InPart(a, o, "writing")
    PROVE  /\ a \in DOMAIN ctx /\ o \in 0..ctx[a].offset /\ Begun(a, o)
           /\ group.job[PartWrite(a, o)] = "running"
           /\ \A p : p # o => ~InPart(a, p, "writing")
           /\ \A e : IsDisk(Written(disk, a, o, e)) /\ IsDisk(Permitted(Written(disk, a, o, e), a))
           /\ IsDisk(disk) /\ overwritten \subseteq Paths
<1>1. Begun(a, o) /\ group.job[PartWrite(a, o)] = "running"
  BY InPartBegun
<1>2. ASSUME NEW p, p # o, InPart(a, p, "writing") PROVE FALSE
  <2>1. Begun(a, p)
    BY <1>2, InPartBegun
  <2> QED
    BY <1>1, <1>2, <2>1, SoleWriter
<1>3. a \in DOMAIN ctx /\ o \in 0..ctx[a].offset
  BY <1>1, PartJobsThere
<1>4. a \in Paths /\ IsDisk(disk) /\ overwritten \subseteq Paths
  BY <1>3 DEF WriteInv, DiskShape, JobsKnown, CallType
<1>5. ASSUME NEW e
      PROVE  IsDisk(Written(disk, a, o, e)) /\ IsDisk(Permitted(Written(disk, a, o, e), a))
  <2> DEFINE d == Written(disk, a, o, e)
  <2>1. IsDisk(d)
    BY <1>4, DiskSteps
  <2> HIDE DEF d
  <2>2. IsDisk(Permitted(d, a))
    BY <1>4, <2>1, DiskSteps
  <2> QED
    BY <2>1, <2>2 DEF d
<1> QED
  BY <1>1, <1>2, <1>3, <1>4, <1>5

(* The write job of a part ends; its entry goes.                           *)
LEMMA PartEndsFacts ==
    ASSUME WriteInv, NEW a, NEW o, Begun(a, o), group.job[PartWrite(a, o)] = "running",
           NEW g, IsGroup(g), Counted(g), Graph(g), Jobs(g) = Jobs(group),
           \A k \in Jobs(group) \ {PartSync(a, ctx[a].offset)} : g.job[k] = group.job[k],
           PartEnds(g, a, o)
    PROVE  /\ IsGroup(group') /\ Counted(group') /\ Graph(group') /\ Jobs(group') = Jobs(group)
           /\ \A k \in Jobs(group) \ {PartWrite(a, o), PartSync(a, ctx[a].offset)} :
                /\ SamePhase(group, group', k)
                /\ ~Waits(k) => group'.job[k] = group.job[k]
           /\ \A k \in Jobs(group) \ {PartWrite(a, o)} : ~Waits(k) => group'.job[k] = g.job[k]
           /\ group'.job[PartWrite(a, o)] = "complete"
           /\ part' \in [DOMAIN part' -> {"writing", "ok", "failed"}]
           /\ \A k : k # PartWrite(a, o) => /\ k \in DOMAIN part' <=> k \in DOMAIN part
                                            /\ k \in DOMAIN part => part'[k] = part[k]
           /\ PartWrite(a, o) \notin DOMAIN part' /\ \A where : ~InPart(a, o, where)'
<1> DEFINE w == PartWrite(a, o)
           s == PartSync(a, ctx[a].offset)
<1>1. w # s /\ w \in Jobs(group) /\ g.job[w] = "running"
  BY JobNames DEF Begun
<1>2. group' = EndJob(g, w) /\ part' = Restrict(part, DOMAIN part \ {w})
  BY DEF PartEnds
<1>3. /\ IsGroup(group') /\ Counted(group') /\ Graph(group') /\ Jobs(group') = Jobs(group)
      /\ group'.job[w] = "complete"
      /\ \A k \in Jobs(group) \ {w} : /\ SamePhase(g, group', k)
                                      /\ ~Waits(k) => group'.job[k] = g.job[k]
  <2> HIDE DEF w
  <2> QED
    BY <1>1, <1>2, GraphEnd
<1>4. \A k \in Jobs(group) \ {w, s} : /\ SamePhase(group, group', k)
                                      /\ ~Waits(k) => group'.job[k] = group.job[k]
  BY <1>3 DEF SamePhase, Idle
<1>5. /\ part' \in [DOMAIN part' -> {"writing", "ok", "failed"}]
      /\ \A k : k # w => /\ k \in DOMAIN part' <=> k \in DOMAIN part
                         /\ k \in DOMAIN part => part'[k] = part[k]
      /\ w \notin DOMAIN part'
  BY <1>2 DEF Restrict, WriteInv, WriteShapes
<1> QED
  BY <1>3, <1>4, <1>5 DEF InPart

(* The last part closes the file.                                          *)
LEMMA LastPartWrittenStep ==
    ASSUME WriteInv, NEW a, NEW o, LastPartWritten(a, o) PROVE WriteInv'
<1>1. /\ InPart(a, o, "writing") /\ Dispose(PartReads(a, o)) /\ PartEnds(group, a, o)
      /\ UNCHANGED <<call, blockErr, todo, overwritten>>
      /\ \E err \in {"ok", "failed"} : ctx' = [ctx EXCEPT ![a].file = FALSE, ![a].err = err]
      /\ \E e : \/ disk' = Written(disk, a, o, e)
                \/ disk' = Permitted(Written(disk, a, o, e), a)
  BY DEF LastPartWritten, partRest
<1>2. /\ a \in DOMAIN ctx /\ Begun(a, o) /\ group.job[PartWrite(a, o)] = "running"
      /\ \A p : p # o => ~InPart(a, p, "writing")
      /\ IsDisk(disk') /\ overwritten' \subseteq Paths
  BY <1>1, PartAtWork
<1>3. OnlyContext(a) /\ ctx'[a].file = FALSE
  BY <1>1, <1>2, ContextSet DEF Errors
<1>4. IsGroup(group) /\ Counted(group) /\ Graph(group)
  BY DEF WriteInv, WriteShapes
<1> QED
  BY <1>1, <1>2, <1>3, <1>4, PartEndsFacts, PartMoves

(* A Write fails, and the next part is released.                           *)
LEMMA PartWriteFailsStep ==
    ASSUME WriteInv, NEW a, NEW o, PartWriteFails(a, o) PROVE WriteInv'
<1> DEFINE g == NextReleased(a, o)
<1>1. /\ InPart(a, o, "writing") /\ Dispose(PartReads(a, o)) /\ PartEnds(g, a, o)
      /\ UNCHANGED <<call, blockErr, todo, overwritten>>
      /\ ctx' = [ctx EXCEPT ![a].file = FALSE, ![a].err = "failed"]
      /\ \E e : disk' = Written(disk, a, o, e)
  BY DEF PartWriteFails, partRest
<1>2. /\ a \in DOMAIN ctx /\ Begun(a, o) /\ group.job[PartWrite(a, o)] = "running"
      /\ \A p : p # o => ~InPart(a, p, "writing")
      /\ IsDisk(disk') /\ overwritten' \subseteq Paths
  BY <1>1, PartAtWork
<1>3. OnlyContext(a) /\ ctx'[a].file = FALSE
  BY <1>1, <1>2, ContextSet DEF Errors
<1>4. /\ IsGroup(g) /\ Counted(g) /\ Graph(g) /\ Jobs(g) = Jobs(group)
      /\ \A k \in Jobs(group) \ {PartSync(a, ctx[a].offset)} : g.job[k] = group.job[k]
  BY <1>1, NextReleasedFacts
<1> HIDE DEF g
<1> QED
  BY <1>1, <1>2, <1>3, <1>4, PartEndsFacts, PartMoves

(* The next part is released before the job sets its error and ends.       *)
LEMMA PartReleasesStep ==
    ASSUME WriteInv, NEW a, NEW o, PartWritten(a, o) \/ PartHasNoLookup(a, o) PROVE WriteInv'
<1> DEFINE g == NextReleased(a, o)
           w == PartWrite(a, o)
           O == ctx[a].offset
<1>1. /\ InPart(a, o, "writing") /\ Dispose(PartReads(a, o)) /\ group' = g
      /\ UNCHANGED <<call, blockErr, todo, overwritten>>
      /\ \E end \in {"ok", "failed"} : part' = [part EXCEPT ![w] = end]
      /\ disk' = disk \/ \E e : disk' = Written(disk, a, o, e)
      /\ \/ ctx' = [ctx EXCEPT ![a].file = FALSE]
         \/ UNCHANGED ctx /\ ~IsLastPart(a, o)
  BY DEF PartWritten, PartHasNoLookup, partRest
<1>2. /\ a \in DOMAIN ctx /\ o \in 0..O /\ Begun(a, o) /\ group.job[w] = "running"
      /\ \A p : p # o => ~InPart(a, p, "writing")
      /\ IsDisk(disk') /\ overwritten' \subseteq Paths
  BY <1>1, PartAtWork
<1>3. /\ IsGroup(g) /\ Counted(g) /\ Graph(g) /\ Jobs(g) = Jobs(group)
      /\ \A k \in Jobs(group) \ {PartSync(a, O)} : g.job[k] = group.job[k]
      /\ ~IsLastPart(a, o) => Idle(g, PartWrite(a, O))
  BY <1>1, NextReleasedFacts
<1> HIDE DEF g
<1>4. ctx[a].file \in BOOLEAN /\ ctx[a].err \in Errors
  BY <1>2 DEF WriteInv, WriteShapes
<1>5. OnlyContext(a) /\ (ctx'[a].file = FALSE \/ ~IsLastPart(a, o))
  <2>1. CASE ctx' = [ctx EXCEPT ![a].file = FALSE]
    BY <1>2, <1>4, <2>1, ContextSet
  <2>2. CASE UNCHANGED ctx /\ ~IsLastPart(a, o)
    BY <2>2 DEF OnlyContext, WriteInv, WriteShapes
  <2> QED
    BY <1>1, <2>1, <2>2
<1>6. /\ part' \in [DOMAIN part' -> {"writing", "ok", "failed"}] /\ DOMAIN part' = DOMAIN part
      /\ w \in DOMAIN part /\ ~InPart(a, o, "writing")'
      /\ \A k : k # w /\ k \in DOMAIN part => part'[k] = part[k]
  BY <1>1 DEF InPart, WriteInv, WriteShapes
<1>7. group'.job[w] = "running" /\ w \in Jobs(group)
  BY <1>1, <1>2, <1>3, JobNames DEF Begun
<1> QED
  BY <1>1, <1>2, <1>3, <1>5, <1>6, <1>7, PartMoves DEF SamePhase

(* The error is set while another part of the asset may be written.        *)
LEMMA PartSetsErrorStep ==
    ASSUME WriteInv, NEW a, NEW o, PartSetsError(a, o) PROVE WriteInv'
<1> DEFINE w == PartWrite(a, o)
           O == ctx[a].offset
           s == PartSync(a, O)
<1>1. /\ w \in DOMAIN part /\ part[w] \in {"ok", "failed"} /\ ~InPart(a, o, "writing")
      /\ PartEnds(group, a, o)
      /\ UNCHANGED <<call, blockErr, todo, reader, disk>>
      /\ ctx' = [ctx EXCEPT ![a].err = part[w]]
      /\ overwritten' \in {overwritten, overwritten \cup {a}}
  BY DEF PartSetsError, partRest, InPart
<1>2. Begun(a, o) /\ group.job[w] = "running"
  BY <1>1, InPartBegun DEF InPart
<1>3. a \in DOMAIN ctx /\ o \in 0..O /\ PartFits(a, o) /\ AssetFits(a) /\ w \in Jobs(group)
  BY <1>2, PartJobsThere DEF Begun
<1>4. OnlyContext(a) /\ ctx'[a].file = ctx[a].file
  <2>1. ctx[a].file \in BOOLEAN /\ part[w] \in Errors
    BY <1>1, <1>3 DEF WriteInv, WriteShapes, Errors
  <2> QED
    BY <1>1, <1>3, <2>1, ContextSet
<1>5. IsDisk(disk') /\ overwritten' \subseteq Paths
  BY <1>1, <1>3 DEF WriteInv, DiskShape, JobsKnown, CallType
<1>6. IsGroup(group) /\ Counted(group) /\ Graph(group)
  BY DEF WriteInv, WriteShapes
<1>7. /\ IsGroup(group') /\ Counted(group') /\ Graph(group') /\ Jobs(group') = Jobs(group)
      /\ \A k \in Jobs(group) \ {w, s} : /\ SamePhase(group, group', k)
                                         /\ ~Waits(k) => group'.job[k] = group.job[k]
      /\ \A k \in Jobs(group) \ {w} : ~Waits(k) => group'.job[k] = group.job[k]
      /\ group'.job[w] = "complete"
      /\ part' \in [DOMAIN part' -> {"writing", "ok", "failed"}]
      /\ \A k : k # w => /\ k \in DOMAIN part' <=> k \in DOMAIN part
                         /\ k \in DOMAIN part => part'[k] = part[k]
      /\ w \notin DOMAIN part' /\ ~InPart(a, o, "writing")'
  BY <1>1, <1>2, <1>6, PartEndsFacts
<1>8. \A j \in PartReads(a, o) : reader[j].block # "lent"
  BY <1>1, <1>2, <1>3 DEF PartFits, Idle
<1>9. s \in Jobs(group) => group'.job[s] = group.job[s]
  BY <1>7, JobNames DEF Waits
<1>10. ctx[a].file => \/ Idle(group', PartWrite(a, O))
                      \/ \E p \in 0..O : InPart(a, p, "writing")'
  <2>1. ASSUME Idle(group, PartWrite(a, O)) PROVE Idle(group', PartWrite(a, O))
    <3>1. PartWrite(a, O) \in Jobs(group) \ {w, s}
      BY <1>2, <1>3, <2>1, JobNames DEF AssetFits, Begun, Idle
    <3> QED
      BY <1>7, <2>1, <3>1 DEF SamePhase, Idle
  <2>2. ASSUME NEW p \in 0..O, InPart(a, p, "writing") PROVE InPart(a, p, "writing")'
    <3>1. PartWrite(a, p) # w
      BY <1>1, <2>2 DEF InPart
    <3> QED
      BY <1>7, <2>2, <3>1 DEF InPart
  <2>3. ctx[a].file => \/ Idle(group, PartWrite(a, O))
                       \/ \E p \in 0..O : InPart(a, p, "writing")
    BY <1>3 DEF AssetFits
  <2>4. Idle(group, PartWrite(a, O)) => Idle(group', PartWrite(a, O))
    BY <2>1
  <2> QED
    BY <2>2, <2>3, <2>4
<1> QED
  BY <1>1, <1>2, <1>4, <1>5, <1>7, <1>8, <1>9, <1>10, PartMoves

--------------------------------------------------------------------------------
(* Jobs are created *)

(* A part's jobs are there only when it is begun.                          *)
LEMMA NewJobs ==
    ASSUME WriteInv
    PROVE  /\ \A b : b \notin DOMAIN blockErr => {ReadJob(b), WriteJob(b)} \cap Jobs(group) = {}
           /\ \A a, o : ~Begun(a, o) => PartJobs(a, o) \cap Jobs(group) = {}
<1>1. ASSUME NEW a, NEW o, NEW j \in PartJobs(a, o)
      PROVE  j[1] \in {"partwrite", "partread", "partsync"} /\ j[2] = a /\ j[3] = o
  BY <1>1, JobNames, WaitsOnFacts DEF PartJobs
<1>2. ASSUME NEW j \in Jobs(group)
      PROVE  \/ \E b \in DOMAIN blockErr : j = ReadJob(b) \/ j = WriteJob(b)
             \/ \E a, o : Begun(a, o) /\ j \in PartJobs(a, o)
  BY DEF WriteInv, JobsKnown
<1>3. ASSUME NEW b, b \notin DOMAIN blockErr, NEW j \in {ReadJob(b), WriteJob(b)}, j \in Jobs(group)
      PROVE  FALSE
  <2>1. j[1] \in {"read", "write"} /\ j[2] = b
    BY <1>3, JobNames
  <2>2. \A c \in DOMAIN blockErr : j # ReadJob(c) /\ j # WriteJob(c)
    BY <1>3, <2>1, JobNames
  <2> QED
    BY <1>1, <1>2, <1>3, <2>1, <2>2
<1>4. ASSUME NEW a, NEW o, ~Begun(a, o), NEW j \in PartJobs(a, o), j \in Jobs(group) PROVE FALSE
  <2>1. j[1] \in {"partwrite", "partread", "partsync"} /\ j[2] = a /\ j[3] = o
    BY <1>1
  <2>2. \A c : j # ReadJob(c) /\ j # WriteJob(c)
    BY <2>1, JobNames
  <2>3. PICK c, p : Begun(c, p) /\ j \in PartJobs(c, p)
    BY <1>2, <1>4, <2>2
  <2>4. c = a /\ p = o
    BY <1>1, <2>1, <2>3
  <2> QED
    BY <1>4, <2>3, <2>4
<1> QED
  BY <1>3, <1>4

(* Jobs are added to a group whose dependencies are jobs of it.            *)
LEMMA GraphGrows ==
    ASSUME NEW g, IsGroup(g), Graph(g), NEW h, IsGroup(h), NEW js,
           Jobs(h) = Jobs(g) \cup js,
           \A j \in Jobs(g) : h.job[j] = g.job[j] /\ h.waitsFor[j] = g.waitsFor[j],
           \A j \in js :
             /\ WaitsOn(j) \subseteq Jobs(h)
             /\ h.waitsFor[j] = {k \in WaitsOn(j) : h.job[k] # "complete"}
             /\ h.job[j] # "created" => h.waitsFor[j] = {}
             /\ h.job[j] = "created" => h.waitsFor[j] # {} \/ j[1] = "partsync"
    PROVE  Graph(h)
<1> SUFFICES ASSUME NEW j \in Jobs(g)
             PROVE  /\ WaitsOn(j) \subseteq Jobs(h)
                    /\ h.waitsFor[j] = {k \in WaitsOn(j) : h.job[k] # "complete"}
                    /\ h.job[j] # "created" => h.waitsFor[j] = {}
                    /\ h.job[j] = "created" => h.waitsFor[j] # {} \/ j[1] = "partsync"
  BY DEF Graph
<1>1. /\ WaitsOn(j) \subseteq Jobs(g)
      /\ g.waitsFor[j] = {k \in WaitsOn(j) : g.job[k] # "complete"}
      /\ g.job[j] # "created" => g.waitsFor[j] = {}
      /\ g.job[j] = "created" => g.waitsFor[j] # {} \/ j[1] = "partsync"
  BY DEF Graph
<1> QED
  BY <1>1

(* The jobs of a part: the readers are called at once, the write job waits *)
(* for them and for the sync job.                                          *)
LEMMA GraphPart ==
    ASSUME NEW g, IsGroup(g), Counted(g), Graph(g),
           NEW a, NEW o, PartReads(a, o) # {}, IsFiniteSet(PartReads(a, o)),
           PartJobs(a, o) \cap Jobs(g) = {},
           NEW h, h = CreatePartialAssetWriteJob(g, a, o)
    PROVE  /\ IsGroup(h) /\ Counted(h) /\ SameCall(g, h) /\ Graph(h)
           /\ Jobs(h) = Jobs(g) \cup PartJobs(a, o)
           /\ \A j \in Jobs(g) : h.job[j] = g.job[j]
           /\ \A j \in PartReads(a, o) : h.job[j] = "ready"
           /\ h.job[PartWrite(a, o)] = "created" /\ h.job[PartSync(a, o)] = "created"
           /\ h.waitsFor[PartSync(a, o)] = {}
<1> DEFINE R == PartReads(a, o)
           w == PartWrite(a, o)
           s == PartSync(a, o)
           js == R \cup {w, s}
           c == CreateJobs(g, js)
           d == AddDependencies(c, w, R \cup {s})
<1>1. /\ PartJobs(a, o) = js /\ WaitsOn(w) = R \cup {s} /\ w \notin R /\ s \notin R /\ w # s
      /\ WaitsOn(s) = {} /\ (\A j \in R : WaitsOn(j) = {}) /\ s[1] = "partsync"
  BY JobNames, WaitsOnFacts DEF PartJobs
<1>2. IsFiniteSet(js) /\ js \cap Jobs(g) = {}
  BY <1>1, FS_Union, FS_Singleton, FS_AddElement
<1>3. h = ReadyJobs(d, R)
  BY DEF CreatePartialAssetWriteJob
<1> HIDE DEF R, w, s
<1>4. /\ IsGroup(c) /\ Counted(c) /\ SameCall(g, c) /\ Jobs(c) = Jobs(g) \cup js
      /\ \A j \in js : c.job[j] = "created" /\ c.waitsFor[j] = {}
      /\ \A j \in Jobs(g) : c.job[j] = g.job[j] /\ c.waitsFor[j] = g.waitsFor[j]
  <2> HIDE DEF js
  <2> QED
    BY <1>2, CreateJobsFacts
<1> HIDE DEF c
<1>5. /\ IsGroup(d) /\ Counted(d) /\ SameCall(c, d) /\ Jobs(d) = Jobs(c) /\ d.job = c.job
      /\ d.waitsFor[w] = c.waitsFor[w] \cup (R \cup {s})
      /\ \A k \in Jobs(c) \ {w} : d.waitsFor[k] = c.waitsFor[k]
  BY <1>4, AddDependenciesFacts
<1> HIDE DEF d
<1>6. /\ IsGroup(h) /\ Counted(h) /\ SameCall(d, h) /\ Jobs(h) = Jobs(d) /\ h.waitsFor = d.waitsFor
      /\ \A j \in R \cap Jobs(d) : h.job[j] = "ready"
      /\ \A j \in Jobs(d) \ R : h.job[j] = d.job[j]
  <2>1. \A j \in R \cap Jobs(d) : d.job[j] # "complete"
    BY <1>4, <1>5
  <2> QED
    BY <1>3, <1>5, <2>1, ReadyJobsFacts
<1>7. /\ \A j \in Jobs(g) : h.job[j] = g.job[j] /\ h.waitsFor[j] = g.waitsFor[j]
      /\ \A j \in R : h.job[j] = "ready" /\ h.waitsFor[j] = {}
      /\ h.job[w] = "created" /\ h.waitsFor[w] = R \cup {s}
      /\ h.job[s] = "created" /\ h.waitsFor[s] = {}
      /\ Jobs(h) = Jobs(g) \cup js
  BY <1>1, <1>2, <1>4, <1>5, <1>6
<1>8. Graph(h)
  <2>1. ASSUME NEW j \in js
        PROVE  /\ WaitsOn(j) \subseteq Jobs(h)
               /\ h.waitsFor[j] = {k \in WaitsOn(j) : h.job[k] # "complete"}
               /\ h.job[j] # "created" => h.waitsFor[j] = {}
               /\ h.job[j] = "created" => h.waitsFor[j] # {} \/ j[1] = "partsync"
    <3>1. CASE j \in R
      BY <1>1, <1>7, <3>1
    <3>2. CASE j = s
      BY <1>1, <1>7, <3>2
    <3>3. CASE j = w
      <4>1. \A k \in R \cup {s} : k \in Jobs(h) /\ h.job[k] # "complete"
        BY <1>7
      <4> QED
        BY <1>1, <1>7, <3>3, <4>1
    <3> QED
      BY <3>1, <3>2, <3>3
  <2> HIDE DEF js
  <2>2. /\ IsGroup(h) /\ Jobs(h) = Jobs(g) \cup js
        /\ \A j \in Jobs(g) : h.job[j] = g.job[j] /\ h.waitsFor[j] = g.waitsFor[j]
    BY <1>6, <1>7
  <2> QED
    BY <2>1, <2>2, GraphGrows
<1>9. SameCall(g, h)
  BY <1>4, <1>5, <1>6 DEF SameCall
<1> QED
  BY <1>1, <1>6, <1>7, <1>8, <1>9 DEF R, w, s

(* What the steps that create jobs have in common: there are new jobs,     *)
(* readers of which are ready; of the jobs there are at most one changes,  *)
(* a write job.                                                            *)
NewReads(js) == {j \in js : j[1] \in {"read", "partread"}}
AddsJobs(js, w) ==
    /\ UNCHANGED call
    /\ js \cap Jobs(group) = {} /\ Jobs(group') = Jobs(group) \cup js
    /\ Waits(w) /\ \A k \in Jobs(group) \ {w} : group'.job[k] = group.job[k]
    /\ \A j \in NewReads(js) : group'.job[j] = "ready"
    /\ reader' = NewReaders(NewReads(js))

(* The readers there are keep their contexts, the new ones are to start.   *)
LEMMA AddedReaders ==
    ASSUME WriteInv, NEW js, NEW w, AddsJobs(js, w)
    PROVE  /\ reader' \in [DOMAIN reader' -> [err : Errors, block : BlockStates]]
           /\ DOMAIN reader' = {j \in Jobs(group') : j[1] \in {"read", "partread"}}
           /\ \A j \in DOMAIN reader : reader'[j] = reader[j]
           /\ \A j \in NewReads(js) : reader'[j].block = "none"
           /\ \A j \in DOMAIN reader' : ReaderFits(j)'
<1> DEFINE new == [err |-> "initial", block |-> "none"]
           rs == NewReads(js)
<1>1. /\ DOMAIN reader' = DOMAIN reader \cup rs
      /\ \A j \in rs : reader'[j] = new
      /\ \A j \in DOMAIN reader \ rs : reader'[j] = reader[j]
  BY DEF AddsJobs, NewReaders, Extend
<1>2. DOMAIN reader = {j \in Jobs(group) : j[1] \in {"read", "partread"}}
  BY DEF WriteInv, JobsKnown
<1>3. DOMAIN reader \cap rs = {}
  BY <1>2 DEF AddsJobs, NewReads
<1>4. new \in [err : Errors, block : BlockStates]
  BY DEF Errors, BlockStates
<1>5. reader' \in [DOMAIN reader' -> [err : Errors, block : BlockStates]]
  <2>1. reader' = [j \in DOMAIN reader' |-> reader'[j]]
    BY DEF AddsJobs, NewReaders, Extend
  <2>2. \A j \in DOMAIN reader' : reader'[j] \in [err : Errors, block : BlockStates]
    BY <1>1, <1>4 DEF WriteInv, WriteShapes
  <2> QED
    BY <2>1, <2>2
<1>6. DOMAIN reader' = {j \in Jobs(group') : j[1] \in {"read", "partread"}}
  BY <1>1, <1>2 DEF AddsJobs, NewReads
<1>7. ASSUME NEW j \in DOMAIN reader' PROVE ReaderFits(j)'
  <2>1. CASE j \in rs
    BY <1>1, <2>1 DEF ReaderFits, AddsJobs
  <2>2. CASE j \notin rs
    <3>1. j \in DOMAIN reader /\ ReaderFits(j) /\ j \in Jobs(group) \ {w}
      BY <1>1, <1>7, <2>2, ReaderJobs DEF AddsJobs
    <3> QED
      BY <1>1, <1>3, <3>1 DEF ReaderFits, AddsJobs
  <2> QED
    BY <2>1, <2>2
<1> QED
  BY <1>1, <1>3, <1>5, <1>6, <1>7

(* The block jobs that were there stay as they are when jobs are added.    *)
LEMMA AddedBlock ==
    ASSUME WriteInv, NEW js, NEW w, AddsJobs(js, w),
           NEW b \in DOMAIN blockErr, w # WriteJob(b)
    PROVE  BlockJobFits(b)'
<1>1. WriteJob(b) \in Jobs(group) /\ ReadJob(b) \in DOMAIN reader
  BY JobNames DEF WriteInv, JobsKnown
<1>2. group'.job[WriteJob(b)] = group.job[WriteJob(b)] /\ reader'[ReadJob(b)] = reader[ReadJob(b)]
  BY <1>1, AddedReaders DEF AddsJobs
<1> QED
  BY <1>2, BlockJobKept DEF SamePhase

(* So do the assets.                                                       *)
LEMMA AddedAsset ==
    ASSUME WriteInv, NEW js, NEW w, AddsJobs(js, w),
           NEW a \in DOMAIN ctx, ctx'[a] = ctx[a],
           \A o : w # PartWrite(a, o) /\ PartWrite(a, o) \notin js,
           \A o : Begun(a, o) =>
             /\ PartWrite(a, o) \in DOMAIN part' <=> PartWrite(a, o) \in DOMAIN part
             /\ PartWrite(a, o) \in DOMAIN part => part'[PartWrite(a, o)] = part[PartWrite(a, o)]
    PROVE  AssetFits(a)'
<1>1. \A o : Begun(a, o)' <=> Begun(a, o)
  BY DEF Begun, AddsJobs
<1>2. PartSync(a, ctx[a].offset) \in Jobs(group) =>
        group'.job[PartSync(a, ctx[a].offset)] = group.job[PartSync(a, ctx[a].offset)]
  BY JobNames DEF Waits, AddsJobs
<1>3. ASSUME NEW o, Begun(a, o)
      PROVE  /\ SamePhase(group, group', PartWrite(a, o))
             /\ \A j \in PartReads(a, o) : reader'[j].block = reader[j].block
  <2>1. PartWrite(a, o) \in Jobs(group) \ {w}
    BY <1>3 DEF Begun
  <2>2. PartReads(a, o) \subseteq DOMAIN reader
    BY <1>3, PartJobsThere
  <2> QED
    BY <2>1, <2>2, AddedReaders DEF SamePhase, AddsJobs
<1>4. UNCHANGED call
  BY DEF AddsJobs
<1> QED
  BY <1>1, <1>2, <1>3, <1>4, AssetKept

(* WriteAssets makes the jobs of a block.                                  *)
LEMMA CreateBlockJobStep == WriteInv /\ CreateBlockJob => WriteInv'
<1> SUFFICES ASSUME WriteInv, CreateBlockJob PROVE WriteInv'
  OBVIOUS
<1>1. PICK b \in todo.blocks :
        /\ group' = ReadyJobs(AddDependencies(CreateJobs(group, {ReadJob(b), WriteJob(b)}),
                                              WriteJob(b), {ReadJob(b)}), {ReadJob(b)})
        /\ reader' = NewReaders({ReadJob(b)})
        /\ blockErr' = Extend(blockErr, {b}, "initial")
        /\ todo' = [todo EXCEPT !.blocks = todo.blocks \ {b}]
  BY DEF CreateBlockJob
<1>2. UNCHANGED <<call, ctx, part, disk, overwritten>>
  BY DEF CreateBlockJob
<1> DEFINE r == ReadJob(b)
           w == WriteJob(b)
           js == {r, w}
<1>3. /\ r[1] = "read" /\ r[2] = b /\ w[1] = "write" /\ w[2] = b /\ r # w
      /\ WaitsOn(r) = {} /\ WaitsOn(w) = {r}
  BY JobNames, WaitsOnFacts
<1>4. b \notin DOMAIN blockErr /\ js \cap Jobs(group) = {}
  <2>1. b \notin DOMAIN blockErr
    BY DEF WriteInv, JobsKnown
  <2> QED
    BY <2>1, NewJobs
<1>5. IsGroup(group) /\ Counted(group) /\ Graph(group)
  BY DEF WriteInv, WriteShapes
<1>6. /\ IsGroup(group') /\ Counted(group') /\ Graph(group') /\ Jobs(group') = Jobs(group) \cup js
      /\ \A j \in Jobs(group) : group'.job[j] = group.job[j]
      /\ group'.job[r] = "ready" /\ group'.job[w] = "created"
  <2> DEFINE c == CreateJobs(group, js)
             d == AddDependencies(c, w, {r})
  <2>1. IsFiniteSet(js)
    <3>1. IsFiniteSet({r}) /\ js = {r} \cup {w}
      BY FS_Singleton
    <3> HIDE DEF js
    <3> QED
      BY <3>1, FS_AddElement
  <2>2. group' = ReadyJobs(d, {r})
    BY <1>1
  <2> HIDE DEF js, r, w, d
  <2>3. /\ IsGroup(c) /\ Counted(c) /\ Jobs(c) = Jobs(group) \cup js
        /\ \A j \in js : c.job[j] = "created" /\ c.waitsFor[j] = {}
        /\ \A j \in Jobs(group) : c.job[j] = group.job[j] /\ c.waitsFor[j] = group.waitsFor[j]
    BY <1>4, <1>5, <2>1, CreateJobsFacts
  <2> HIDE DEF c
  <2>4. r \in js /\ w \in js /\ {r} \subseteq Jobs(c)
    BY <2>3 DEF js
  <2>5. /\ IsGroup(d) /\ Counted(d) /\ Jobs(d) = Jobs(c) /\ d.job = c.job
        /\ d.waitsFor[w] = c.waitsFor[w] \cup {r}
        /\ \A k \in Jobs(c) \ {w} : d.waitsFor[k] = c.waitsFor[k]
    BY <2>3, <2>4, AddDependenciesFacts DEF d
  <2>6. /\ IsGroup(group') /\ Counted(group') /\ Jobs(group') = Jobs(d)
        /\ group'.waitsFor = d.waitsFor
        /\ \A j \in {r} \cap Jobs(d) : group'.job[j] = "ready"
        /\ \A j \in Jobs(d) \ {r} : group'.job[j] = d.job[j]
    <3>1. \A j \in {r} \cap Jobs(d) : d.job[j] # "complete"
      BY <2>3, <2>4, <2>5
    <3> QED
      BY <2>2, <2>5, <3>1, ReadyJobsFacts
  <2>7. /\ Jobs(group') = Jobs(group) \cup js
        /\ \A j \in Jobs(group) : /\ group'.job[j] = group.job[j]
                                  /\ group'.waitsFor[j] = group.waitsFor[j]
        /\ group'.job[r] = "ready" /\ group'.waitsFor[r] = {}
        /\ group'.job[w] = "created" /\ group'.waitsFor[w] = {r}
    BY <1>3, <1>4, <2>3, <2>4, <2>5, <2>6
  <2>8. ASSUME NEW j \in js
        PROVE  /\ WaitsOn(j) \subseteq Jobs(group')
               /\ group'.waitsFor[j] = {k \in WaitsOn(j) : group'.job[k] # "complete"}
               /\ group'.job[j] # "created" => group'.waitsFor[j] = {}
               /\ group'.job[j] = "created" => group'.waitsFor[j] # {} \/ j[1] = "partsync"
    BY <1>3, <2>4, <2>7 DEF js
  <2>9. Graph(group')
    <3>1. /\ IsGroup(group) /\ Graph(group) /\ IsGroup(group') /\ Jobs(group') = Jobs(group) \cup js
          /\ \A j \in Jobs(group) : /\ group'.job[j] = group.job[j]
                                    /\ group'.waitsFor[j] = group.waitsFor[j]
      BY <1>5, <2>6, <2>7
    <3> QED
      BY SMTT(30), <2>8, <3>1, GraphGrows
  <2> QED
    BY <2>6, <2>7, <2>9
<1>7. AddsJobs(js, w) /\ r \in NewReads(js)
  <2>1. {r} = NewReads(js) /\ Waits(w)
    BY <1>3 DEF Waits, NewReads
  <2> HIDE DEF js, r, w
  <2> QED
    BY <1>1, <1>2, <1>4, <1>6, <2>1 DEF AddsJobs, r
<1> HIDE DEF js, r, w
<1>8. /\ reader' \in [DOMAIN reader' -> [err : Errors, block : BlockStates]]
      /\ DOMAIN reader' = {j \in Jobs(group') : j[1] \in {"read", "partread"}}
      /\ reader'[r].block = "none"
      /\ \A j \in DOMAIN reader' : ReaderFits(j)'
  BY <1>7, AddedReaders
<1>9. /\ DOMAIN blockErr' = DOMAIN blockErr \cup {b}
      /\ blockErr' \in [DOMAIN blockErr' -> Errors]
  <2>1. \A c \in DOMAIN blockErr' : blockErr'[c] \in Errors
    BY <1>1 DEF Extend, Errors, WriteInv, WriteShapes
  <2> QED
    BY <1>1, <2>1 DEF Extend
<1>10. /\ todo'.blocks = todo.blocks \ {b} /\ todo'.assets = todo.assets
       /\ todo' = [blocks |-> todo'.blocks, assets |-> todo'.assets]
  BY <1>1 DEF WriteInv, WriteShapes
<1>11. CallType' /\ WriteShapes' /\ DiskShape' /\ Graph(group)'
  BY <1>2, <1>6, <1>8, <1>9, <1>10, SamePlan DEF WriteInv, WriteShapes, DiskShape
<1>12. \A a, o : w # PartWrite(a, o) /\ PartWrite(a, o) \notin js /\ (Begun(a, o)' <=> Begun(a, o))
  <2>1. \A a, o : w # PartWrite(a, o) /\ PartWrite(a, o) \notin js
    BY <1>3, JobNames DEF js
  <2> QED
    BY <1>6, <2>1 DEF Begun
<1>13. JobsKnown'
  <2>1. \A c \in DOMAIN blockErr' : ReadJob(c) \in Jobs(group') /\ WriteJob(c) \in Jobs(group')
    BY <1>6, <1>9 DEF WriteInv, JobsKnown, js, r, w
  <2>2. ASSUME NEW j \in Jobs(group')
        PROVE  \/ \E c \in DOMAIN blockErr' : j = ReadJob(c) \/ j = WriteJob(c)
               \/ \E a \in DOMAIN ctx' : \E o \in 0..ctx'[a].offset :
                    Begun(a, o)' /\ j \in PartJobs(a, o)'
    BY <1>2, <1>6, <1>9, <1>12, SamePlan DEF WriteInv, JobsKnown, js, r, w
  <2>3. /\ todo'.blocks \cap DOMAIN blockErr' = {} /\ todo'.assets \cap DOMAIN ctx' = {}
        /\ todo'.assets \subseteq call'.assets /\ DOMAIN ctx' \subseteq call'.assets
        /\ DOMAIN part' \subseteq Jobs(group')
    BY <1>2, <1>6, <1>9, <1>10 DEF WriteInv, JobsKnown
  <2> QED
    BY <1>8, <2>1, <2>2, <2>3 DEF JobsKnown
<1>14. \A c \in DOMAIN blockErr' : BlockJobFits(c)'
  <2>1. BlockJobFits(b)'
    BY <1>6, <1>8 DEF BlockJobFits, r, w
  <2>2. ASSUME NEW c \in DOMAIN blockErr PROVE BlockJobFits(c)'
    <3>1. w # WriteJob(c)
      BY <1>3, <1>4, <2>2, JobNames
    <3> QED
      BY <1>7, <2>2, <3>1, AddedBlock
  <2> QED
    BY <1>9, <2>1, <2>2
<1>15. \A a \in DOMAIN ctx' : AssetFits(a)'
  BY <1>2, <1>7, <1>12, AddedAsset
<1> QED
  BY <1>8, <1>11, <1>13, <1>14, <1>15 DEF WriteInv

(* A part that was just created: all of its jobs are still to be called.   *)
LEMMA NewPartFits ==
    ASSUME NEW a, NEW o \in Nat,
           group'.job[PartWrite(a, o)] \in {"created", "ready"},
           PartWrite(a, o) \notin DOMAIN part',
           \A p \in 0..(o - 1) : Begun(a, p)' => PartEnd(a, p)' <= o,
           \A j \in PartReads(a, o)' : reader'[j].block = "none"
    PROVE  PartFits(a, o)'
<1>1. Idle(group', PartWrite(a, o)) /\ \A where : ~InPart(a, o, where)'
  BY DEF Idle, InPart
<1> QED
  BY <1>1 DEF PartFits

(* WriteAssets makes the jobs of the first part of an asset.               *)
LEMMA CreateAssetJobStep == WriteInv /\ CreateAssetJob => WriteInv'
<1> SUFFICES ASSUME WriteInv, CreateAssetJob PROVE WriteInv'
  OBVIOUS
<1> DEFINE new == [offset |-> 0, file |-> FALSE, err |-> "initial"]
<1>1. PICK a \in todo.assets :
        /\ group' = ReadyJobs(CreatePartialAssetWriteJob(group, a, 0), {PartGate(a, 0)})
        /\ reader' = NewReaders(PartReads(a, 0))
        /\ ctx' = Extend(ctx, {a}, new)
        /\ todo' = [todo EXCEPT !.assets = todo.assets \ {a}]
  BY DEF CreateAssetJob
<1>2. UNCHANGED <<call, blockErr, part, disk, overwritten>>
  BY DEF CreateAssetJob
<1> DEFINE R == PartReads(a, 0)
           w == PartWrite(a, 0)
           s == PartSync(a, 0)
           js == PartJobs(a, 0)
<1>3. /\ a \in call.assets /\ a \notin DOMAIN ctx /\ ~(\E o : Begun(a, o))
      /\ AssetChunks(a) \in Seq(Nat) /\ IsFiniteSet(R) /\ 0 \in 0..Len(AssetChunks(a))
      /\ js \cap Jobs(group) = {}
  <2>1. a \in call.assets /\ a \notin DOMAIN ctx
    BY DEF WriteInv, JobsKnown
  <2>2. ~(\E o : Begun(a, o))
    BY <2>1, PartJobsThere
  <2>3. AssetChunks(a) \in Seq(Nat)
    BY <2>1 DEF WriteInv, CallType
  <2>4. 0 \in 0..Len(AssetChunks(a))
    BY <2>3
  <2> QED
    BY <2>1, <2>2, <2>3, <2>4, NewJobs, PartFacts
<1>4. /\ w[1] = "partwrite" /\ s[1] = "partsync" /\ (\A j \in R : j[1] = "partread")
      /\ WaitsOn(s) = {} /\ WaitsOn(w) = (IF R = {} THEN {} ELSE R \cup {s})
      /\ js = {w} \cup WaitsOn(w) /\ Waits(w)
  BY JobNames, WaitsOnFacts DEF PartJobs, Waits
<1>5. IsGroup(group) /\ Counted(group) /\ Graph(group)
  BY DEF WriteInv, WriteShapes
<1>6. /\ IsGroup(group') /\ Counted(group') /\ Graph(group') /\ Jobs(group') = Jobs(group) \cup js
      /\ \A j \in Jobs(group) : group'.job[j] = group.job[j]
      /\ \A j \in R : group'.job[j] = "ready"
      /\ group'.job[w] \in {"created", "ready"}
  <2> DEFINE g == CreatePartialAssetWriteJob(group, a, 0)
  <2>1. CASE R # {}
    <3>1. /\ IsGroup(g) /\ Counted(g) /\ Graph(g) /\ Jobs(g) = Jobs(group) \cup js
          /\ \A j \in Jobs(group) : g.job[j] = group.job[j]
          /\ \A j \in R : g.job[j] = "ready"
          /\ g.job[w] = "created" /\ g.job[s] = "created" /\ g.waitsFor[s] = {}
      BY <1>3, <1>5, <2>1, GraphPart
    <3>2. s \in js /\ w \in js /\ R \subseteq js /\ w # s /\ s \notin R
      BY <1>4, <2>1
    <3> HIDE DEF g, R, w, s, js
    <3>3. {s} \in SUBSET Jobs(g) /\ \A j \in {s} : g.job[j] # "complete" /\ g.waitsFor[j] = {}
      BY <3>1, <3>2
    <3>4. group' = ReadyJobs(g, {s})
      BY <1>1, <2>1 DEF PartGate, g, R, s
    <3>5. /\ IsGroup(group') /\ Counted(group') /\ Graph(group') /\ Jobs(group') = Jobs(g)
          /\ \A j \in Jobs(g) \ {s} : group'.job[j] = g.job[j]
      BY <3>1, <3>3, <3>4, GraphReady
    <3> QED
      BY <1>3, <3>1, <3>2, <3>5
  <2>2. CASE R = {}
    <3>1. js = {w} /\ IsFiniteSet(js) /\ w \in js
      BY <1>4, <2>2, FS_Singleton
    <3>2. g = CreateJobs(group, js) /\ group' = ReadyJobs(g, js)
      BY <1>1, <2>2, <3>1 DEF PartGate, CreatePartialAssetWriteJob
    <3> HIDE DEF R, w, js, g
    <3>3. /\ IsGroup(g) /\ Counted(g) /\ Jobs(g) = Jobs(group) \cup js
          /\ \A j \in js : g.job[j] = "created" /\ g.waitsFor[j] = {}
          /\ \A j \in Jobs(group) : g.job[j] = group.job[j] /\ g.waitsFor[j] = group.waitsFor[j]
      <4>1. /\ js \cap Jobs(group) = {} /\ IsFiniteSet(js) /\ IsGroup(group) /\ Counted(group)
            /\ g = CreateJobs(group, js)
        BY <1>3, <1>5, <3>1, <3>2
      <4> QED
        BY <4>1, CreateJobsFacts
    <3>4. /\ IsGroup(group') /\ Counted(group') /\ Jobs(group') = Jobs(g)
          /\ group'.waitsFor = g.waitsFor
          /\ \A j \in js \cap Jobs(g) : group'.job[j] = "ready"
          /\ \A j \in Jobs(g) \ js : group'.job[j] = g.job[j]
      <4>1. \A j \in js \cap Jobs(g) : g.job[j] # "complete"
        BY <3>3
      <4> QED
        BY <3>2, <3>3, <4>1, ReadyJobsFacts
    <3>5. /\ Jobs(group') = Jobs(group) \cup js
          /\ \A j \in Jobs(group) : /\ group'.job[j] = group.job[j]
                                    /\ group'.waitsFor[j] = group.waitsFor[j]
          /\ \A j \in js : group'.job[j] = "ready" /\ group'.waitsFor[j] = {}
      BY <1>3, <3>3, <3>4
    <3>6. Graph(group')
      <4>1. \A j \in js : WaitsOn(j) = {}
        BY <1>4, <2>2, <3>1
      <4>2. \A j \in js :
              /\ WaitsOn(j) \subseteq Jobs(group')
              /\ group'.waitsFor[j] = {k \in WaitsOn(j) : group'.job[k] # "complete"}
              /\ group'.job[j] # "created" => group'.waitsFor[j] = {}
              /\ group'.job[j] = "created" => group'.waitsFor[j] # {} \/ j[1] = "partsync"
        BY <3>5, <4>1
      <4>3. /\ IsGroup(group) /\ Graph(group) /\ IsGroup(group')
            /\ Jobs(group') = Jobs(group) \cup js
            /\ \A j \in Jobs(group) : /\ group'.job[j] = group.job[j]
                                      /\ group'.waitsFor[j] = group.waitsFor[j]
        BY <1>5, <3>4, <3>5
      <4> QED
        BY <4>2, <4>3, GraphGrows
    <3> QED
      BY <2>2, <3>1, <3>4, <3>5, <3>6
  <2> QED
    BY <2>1, <2>2
<1>7. AddsJobs(js, w) /\ NewReads(js) = R
  <2>1. R = NewReads(js)
    BY <1>4 DEF NewReads
  <2> HIDE DEF js, R, w
  <2> QED
    BY <1>1, <1>2, <1>3, <1>4, <1>6, <2>1 DEF AddsJobs, R
<1> HIDE DEF js, R, w, s
<1>8. /\ DOMAIN ctx' = DOMAIN ctx \cup {a} /\ ctx'[a] = new
      /\ \A c \in DOMAIN ctx : ctx'[c] = ctx[c]
      /\ ctx' \in [DOMAIN ctx' -> [offset : Nat, file : BOOLEAN, err : Errors]]
  <2>1. /\ DOMAIN ctx' = DOMAIN ctx \cup {a} /\ ctx'[a] = new
        /\ \A c \in DOMAIN ctx : ctx'[c] = ctx[c]
    BY <1>1, <1>3 DEF Extend
  <2>2. ASSUME NEW c \in DOMAIN ctx'
        PROVE  ctx'[c] \in [offset : Nat, file : BOOLEAN, err : Errors]
    <3>1. new \in [offset : Nat, file : BOOLEAN, err : Errors]
      BY DEF Errors
    <3> HIDE DEF new
    <3>2. c = a => ctx'[c] = new
      BY <2>1
    <3>3. c # a => c \in DOMAIN ctx /\ ctx'[c] = ctx[c]
      BY <2>1, <2>2
    <3> QED
      BY <3>1, <3>2, <3>3 DEF WriteInv, WriteShapes
  <2> QED
    BY <1>1, <2>1, <2>2 DEF Extend
<1>9. /\ reader' \in [DOMAIN reader' -> [err : Errors, block : BlockStates]]
      /\ DOMAIN reader' = {j \in Jobs(group') : j[1] \in {"read", "partread"}}
      /\ \A j \in R : reader'[j].block = "none"
      /\ \A j \in DOMAIN reader' : ReaderFits(j)'
  BY <1>7, AddedReaders
<1>10. /\ todo'.blocks = todo.blocks /\ todo'.assets = todo.assets \ {a}
       /\ todo' = [blocks |-> todo'.blocks, assets |-> todo'.assets]
  BY <1>1 DEF WriteInv, WriteShapes
<1>11. CallType' /\ WriteShapes' /\ DiskShape' /\ Graph(group)'
  BY <1>2, <1>6, <1>8, <1>9, <1>10, SamePlan DEF WriteInv, WriteShapes, DiskShape
<1>12. \A c, o : /\ Begun(c, o)' <=> Begun(c, o) \/ (c = a /\ o = 0)
                 /\ c # a => w # PartWrite(c, o) /\ PartWrite(c, o) \notin js
  <2>1. \A c, o : PartWrite(c, o) \in js <=> c = a /\ o = 0
    BY <1>4, JobNames DEF w
  <2>2. \A c, o : c # a => w # PartWrite(c, o)
    BY JobNames DEF w
  <2> QED
    BY <1>6, <2>1, <2>2 DEF Begun
<1>13. JobsKnown'
  <2>1. \A b \in DOMAIN blockErr' : ReadJob(b) \in Jobs(group') /\ WriteJob(b) \in Jobs(group')
    BY <1>2, <1>6 DEF WriteInv, JobsKnown
  <2>2. ASSUME NEW j \in Jobs(group')
        PROVE  \/ \E b \in DOMAIN blockErr' : j = ReadJob(b) \/ j = WriteJob(b)
               \/ \E c \in DOMAIN ctx' : \E o \in 0..ctx'[c].offset :
                    Begun(c, o)' /\ j \in PartJobs(c, o)'
    <3>1. CASE j \in js
      <4>1. Begun(a, 0)' /\ j \in PartJobs(a, 0)' /\ a \in DOMAIN ctx' /\ 0 \in 0..ctx'[a].offset
        BY <1>2, <1>8, <1>12, <3>1, SamePlan DEF js
      <4> QED
        BY <4>1
    <3>2. CASE j \in Jobs(group)
      BY <1>2, <1>8, <1>12, <3>2, SamePlan DEF WriteInv, JobsKnown
    <3> QED
      BY <1>6, <3>1, <3>2
  <2>3. /\ todo'.blocks \cap DOMAIN blockErr' = {} /\ todo'.assets \cap DOMAIN ctx' = {}
        /\ todo'.assets \subseteq call'.assets /\ DOMAIN ctx' \subseteq call'.assets
        /\ DOMAIN part' \subseteq Jobs(group')
    BY <1>2, <1>3, <1>6, <1>8, <1>10 DEF WriteInv, JobsKnown
  <2> QED
    BY <1>9, <2>1, <2>2, <2>3 DEF JobsKnown
<1>14. \A b \in DOMAIN blockErr' : BlockJobFits(b)'
  <2>1. \A b : w # WriteJob(b)
    BY <1>4, JobNames
  <2> QED
    BY <1>2, <1>7, <2>1, AddedBlock
<1>15. ASSUME NEW c \in DOMAIN ctx' PROVE AssetFits(c)'
  <2>1. CASE c # a
    <3>1. c \in DOMAIN ctx /\ ctx'[c] = ctx[c]
      BY <1>8, <1>15, <2>1
    <3> QED
      BY <1>2, <1>7, <1>12, <2>1, <3>1, AddedAsset
  <2>2. CASE c = a
    <3>1. w \notin DOMAIN part'
      BY <1>2, <1>3 DEF WriteInv, JobsKnown, Begun, w
    <3>2. PartFits(a, 0)'
      BY <1>2, <1>6, <1>9, <3>1, NewPartFits, SamePlan DEF w, R
    <3>3. Begun(a, 0)' /\ \A o : Begun(a, o)' => o = 0
      BY <1>3, <1>12
    <3>4. ctx'[a].offset = 0 /\ ~ctx'[a].file /\ 0 \in 0..Len(AssetChunks(a)')
      BY <1>2, <1>3, <1>8, SamePlan
    <3> QED
      BY <2>2, <3>2, <3>3, <3>4 DEF AssetFits
  <2> QED
    BY <2>1, <2>2
<1> QED
  BY <1>9, <1>11, <1>13, <1>14, <1>15 DEF WriteInv

(* A part that is not the last starts to write and makes the next one.     *)
LEMMA NextPartOpens ==
    ASSUME WriteInv, NEW a, NEW o, PartOpens(a, o), ~IsLastPart(a, o),
           NEW n, n = PartEnd(a, o)
    PROVE  WriteInv'
<1> DEFINE v == PartWrite(a, o)
           R == PartReads(a, n)
           w == PartWrite(a, n)
           s == PartSync(a, n)
           js == PartJobs(a, n)
           g == [group EXCEPT !.job[v] = "running"]
           new == [offset |-> n, file |-> TRUE, err |-> "initial"]
<1>1. /\ a \in DOMAIN ctx /\ o = ctx[a].offset /\ Begun(a, o)
      /\ group.job[v] = "ready" /\ v \notin DOMAIN part
      /\ \A j \in PartReads(a, o) : reader[j].block \notin {"disposed", "leaked"}
      /\ \A p : p # o => ~InPart(a, p, "writing")
  BY PartCalled DEF PartOpens, PartGoesOn
<1>2. /\ group' = CreatePartialAssetWriteJob(g, a, n)
      /\ ctx' = [ctx EXCEPT ![a] = new]
      /\ reader' = NewReaders(R)
      /\ UNCHANGED <<call, blockErr, todo, overwritten>>
      /\ part' = Extend(part, {v}, "writing")
      /\ disk' = IF o = 0 THEN Opened(disk, a, Len(AssetChunks(a))) ELSE disk
      /\ ReadErrors(a, o) = {}
  BY DEF PartOpens, PartGoesOn, partRest
<1>3. /\ AssetFits(a) /\ PartFits(a, o) /\ AssetChunks(a) \in Seq(Nat) /\ o \in Nat
      /\ a \in call.assets /\ a \in Paths
  BY <1>1, PartJobsThere DEF WriteInv, JobsKnown, CallType
<1>4. /\ n \in Nat /\ n \in 0..Len(AssetChunks(a)) /\ n < Len(AssetChunks(a)) /\ o < n
      /\ R # {} /\ IsFiniteSet(R)
  <2>1. o \in 0..Len(AssetChunks(a)) /\ Len(AssetChunks(a)) \in Nat
    BY <1>1, <1>3 DEF AssetFits
  <2>2. n \in o..Len(AssetChunks(a)) /\ (o < Len(AssetChunks(a)) => n > o)
    BY <1>3, <2>1, PartFacts
  <2>3. n # Len(AssetChunks(a))
    BY DEF IsLastPart
  <2>4. n \in 0..Len(AssetChunks(a)) /\ n < Len(AssetChunks(a)) /\ o < n /\ n \in Nat
    BY <2>1, <2>2, <2>3
  <2> QED
    BY <1>3, <2>4, PartFacts
<1>5. ~Begun(a, n) /\ js \cap Jobs(group) = {} /\ \A p : Begun(a, p) => p \in 0..o
  <2>1. \A p : Begun(a, p) => p \in 0..o
    BY <1>1, <1>3 DEF AssetFits
  <2>2. ~Begun(a, n)
    BY <1>3, <1>4, <2>1
  <2> QED
    BY <2>1, <2>2, NewJobs
<1>6. /\ w[1] = "partwrite" /\ s[1] = "partsync" /\ (\A j \in R : j[1] = "partread")
      /\ WaitsOn(s) = {} /\ WaitsOn(w) = R \cup {s} /\ js = {w} \cup WaitsOn(w)
      /\ v[1] = "partwrite" /\ Waits(v) /\ v # w /\ v \in Jobs(group) /\ v \notin js
  <2>1. v # w
    BY <1>3, <1>4, JobNames
  <2> QED
    BY <1>1, <1>4, <1>5, <2>1, JobNames, WaitsOnFacts DEF PartJobs, Waits, Begun
<1>7. /\ IsGroup(group') /\ Counted(group') /\ Graph(group') /\ Jobs(group') = Jobs(group) \cup js
      /\ group'.job[v] = "running"
      /\ \A j \in Jobs(group) \ {v} : group'.job[j] = group.job[j]
      /\ \A j \in R : group'.job[j] = "ready"
      /\ group'.job[w] = "created" /\ group'.job[s] = "created"
  <2>1. IsGroup(group) /\ Counted(group) /\ Graph(group)
    BY DEF WriteInv, WriteShapes
  <2> HIDE DEF v
  <2>2. /\ IsGroup(g) /\ Counted(g) /\ Graph(g) /\ Jobs(g) = Jobs(group)
        /\ g.job[v] = "running"
        /\ \A k \in Jobs(group) \ {v} : g.job[k] = group.job[k]
    BY <1>1, <1>6, <2>1, GraphMove
  <2> HIDE DEF g
  <2>3. /\ IsGroup(group') /\ Counted(group') /\ Graph(group')
        /\ Jobs(group') = Jobs(g) \cup js
        /\ \A j \in Jobs(g) : group'.job[j] = g.job[j]
        /\ \A j \in R : group'.job[j] = "ready"
        /\ group'.job[w] = "created" /\ group'.job[s] = "created"
    BY <1>2, <1>4, <1>5, <2>2, GraphPart
  <2> QED
    BY <1>6, <2>2, <2>3
<1> HIDE DEF g
<1>8. AddsJobs(js, v) /\ NewReads(js) = R
  <2>1. R = NewReads(js)
    BY <1>6 DEF NewReads
  <2> HIDE DEF js, R, v
  <2> QED
    BY <1>2, <1>5, <1>6, <1>7, <2>1 DEF AddsJobs
<1>9. /\ DOMAIN ctx' = DOMAIN ctx /\ ctx'[a] = new
      /\ \A c \in DOMAIN ctx \ {a} : ctx'[c] = ctx[c]
      /\ ctx' \in [DOMAIN ctx' -> [offset : Nat, file : BOOLEAN, err : Errors]]
  <2>1. new \in [offset : Nat, file : BOOLEAN, err : Errors]
    BY <1>4 DEF Errors
  <2> HIDE DEF new
  <2> QED
    BY <1>1, <1>2, <2>1 DEF WriteInv, WriteShapes
<1>10. /\ part' \in [DOMAIN part' -> {"writing", "ok", "failed"}]
       /\ DOMAIN part' = DOMAIN part \cup {v} /\ part'[v] = "writing"
       /\ \A k : k # v => /\ k \in DOMAIN part' <=> k \in DOMAIN part
                          /\ k \in DOMAIN part => part'[k] = part[k]
  BY <1>2 DEF Extend, WriteInv, WriteShapes
<1> HIDE DEF js, R, v, w, s
<1>11. /\ reader' \in [DOMAIN reader' -> [err : Errors, block : BlockStates]]
       /\ DOMAIN reader' = {j \in Jobs(group') : j[1] \in {"read", "partread"}}
       /\ \A j \in DOMAIN reader : reader'[j] = reader[j]
       /\ \A j \in R : reader'[j].block = "none"
       /\ \A j \in DOMAIN reader' : ReaderFits(j)'
  BY <1>8, AddedReaders
<1>12. \A j \in PartReads(a, o) : j \in DOMAIN reader /\ reader[j].block = "lent"
  <2> TAKE j \in PartReads(a, o)
  <2>1. j \in DOMAIN reader /\ group.job[j] = "complete" /\ ReaderFits(j)
    BY <1>1, PartJobsThere DEF WriteInv, v
  <2>2. reader[j].err = "ok"
    BY <1>2 DEF ReadErrors
  <2> QED
    BY <1>1, <2>1, <2>2 DEF ReaderFits
<1>13. IsDisk(disk') /\ overwritten' \subseteq Paths
  BY <1>2, <1>3, DiskSteps DEF WriteInv, DiskShape
<1>14. CallType' /\ WriteShapes' /\ DiskShape' /\ Graph(group)'
  BY <1>2, <1>7, <1>9, <1>10, <1>11, <1>13, SamePlan DEF WriteInv, WriteShapes, DiskShape
<1>15. \A c, p : /\ Begun(c, p)' <=> Begun(c, p) \/ (c = a /\ p = n)
                 /\ c # a => v # PartWrite(c, p) /\ PartWrite(c, p) \notin js
  <2>1. \A c, p : /\ PartWrite(c, p) \in js <=> c = a /\ p = n
                  /\ c # a => v # PartWrite(c, p)
    BY <1>6, JobNames DEF w, v
  <2> QED
    BY <1>7, <2>1 DEF Begun
<1>16. JobsKnown'
  <2>1. \A b \in DOMAIN blockErr' : ReadJob(b) \in Jobs(group') /\ WriteJob(b) \in Jobs(group')
    BY <1>2, <1>7 DEF WriteInv, JobsKnown
  <2>2. ASSUME NEW j \in Jobs(group')
        PROVE  \/ \E b \in DOMAIN blockErr' : j = ReadJob(b) \/ j = WriteJob(b)
               \/ \E c \in DOMAIN ctx' : \E p \in 0..ctx'[c].offset :
                    Begun(c, p)' /\ j \in PartJobs(c, p)'
    <3>1. CASE j \in js
      <4>1. Begun(a, n)' /\ j \in PartJobs(a, n)' /\ a \in DOMAIN ctx' /\ n \in 0..ctx'[a].offset
        BY <1>1, <1>2, <1>4, <1>9, <1>15, <3>1, SamePlan DEF js
      <4> QED
        BY <4>1
    <3>2. CASE \E b \in DOMAIN blockErr : j = ReadJob(b) \/ j = WriteJob(b)
      BY <1>2, <3>2
    <3>3. ASSUME NEW c \in DOMAIN ctx, NEW p \in 0..ctx[c].offset, Begun(c, p), j \in PartJobs(c, p)
          PROVE  /\ c \in DOMAIN ctx' /\ p \in 0..ctx'[c].offset
                 /\ Begun(c, p)' /\ j \in PartJobs(c, p)'
      <4>1. c \in DOMAIN ctx' /\ Begun(c, p)' /\ j \in PartJobs(c, p)'
        BY <1>2, <1>9, <1>15, <3>3, SamePlan
      <4>2. CASE c = a
        BY <1>1, <1>3, <1>4, <1>9, <4>1, <4>2
      <4>3. CASE c # a
        BY <1>9, <4>1, <4>3
      <4> QED
        BY <4>2, <4>3
    <3>4. j \in Jobs(group) =>
            \/ \E b \in DOMAIN blockErr : j = ReadJob(b) \/ j = WriteJob(b)
            \/ \E c \in DOMAIN ctx : \E p \in 0..ctx[c].offset : Begun(c, p) /\ j \in PartJobs(c, p)
      BY DEF WriteInv, JobsKnown
    <3> QED
      BY <1>7, <3>1, <3>2, <3>3, <3>4
  <2>3. /\ todo'.blocks \cap DOMAIN blockErr' = {} /\ todo'.assets \cap DOMAIN ctx' = {}
        /\ todo'.assets \subseteq call'.assets /\ DOMAIN ctx' \subseteq call'.assets
        /\ DOMAIN part' \subseteq Jobs(group')
    BY <1>2, <1>6, <1>7, <1>9, <1>10 DEF WriteInv, JobsKnown
  <2> QED
    BY <1>11, <2>1, <2>2, <2>3 DEF JobsKnown
<1>17. \A b \in DOMAIN blockErr' : BlockJobFits(b)'
  <2>1. \A b : v # WriteJob(b)
    BY <1>6, JobNames
  <2> QED
    BY <1>2, <1>8, <2>1, AddedBlock
<1>18. PartFits(a, n)'
  <2>1. w \notin DOMAIN part'
    BY <1>5, <1>6, <1>10 DEF WriteInv, JobsKnown, Begun, w
  <2>2. ASSUME NEW p \in 0..(n - 1), Begun(a, p)' PROVE PartEnd(a, p)' <= n
    <3>1. Begun(a, p) /\ p \in 0..o /\ PartEnd(a, p)' = PartEnd(a, p)
      BY <1>2, <1>4, <1>5, <1>15, <2>2, SamePlan
    <3>2. CASE p = o
      BY <1>4, <3>1, <3>2
    <3>3. CASE p # o
      <4>1. PartEnd(a, p) <= o
        BY <1>3, <3>1, <3>3 DEF PartFits
      <4>2. PartEnd(a, p) \in Int
        <5>1. p \in 0..Len(AssetChunks(a))
          BY <3>1, PartJobsThere
        <5> QED
          BY <1>3, <5>1, PartFacts
      <4> QED
        BY <1>3, <1>4, <3>1, <4>1, <4>2
    <3> QED
      BY <3>2, <3>3
  <2>3. group'.job[PartWrite(a, n)] \in {"created", "ready"} /\ PartWrite(a, n) \notin DOMAIN part'
    BY <1>7, <2>1 DEF w
  <2>4. \A j \in PartReads(a, n)' : reader'[j].block = "none"
    BY <1>2, <1>11, SamePlan DEF R
  <2> QED
    BY <1>4, <2>2, <2>3, <2>4, NewPartFits
<1>19. PartFits(a, o)'
  <2>1. InPart(a, o, "writing")' /\ ~Idle(group', v) /\ v \in DOMAIN part'
    BY <1>7, <1>10 DEF InPart, Idle, v
  <2>2. \A p \in 0..(o - 1) : Begun(a, p)' => PartEnd(a, p)' <= o
    BY <1>2, <1>3, <1>4, <1>15, SamePlan DEF PartFits
  <2>3. \A j \in PartReads(a, o)' : reader'[j].block = "lent"
    BY <1>2, <1>11, <1>12, SamePlan
  <2>4. ctx'[a].file /\ o # ctx'[a].offset /\ PartEnd(a, o)' = ctx'[a].offset
    BY <1>2, <1>3, <1>4, <1>9, SamePlan
  <2>5. group'.job[PartSync(a, ctx'[a].offset)] = "created"
    BY <1>7, <1>9 DEF s
  <2> QED
    BY <1>7, <2>1, <2>2, <2>3, <2>4, <2>5 DEF PartFits, v
<1>20. ASSUME NEW p, Begun(a, p), p # o PROVE PartFits(a, p)'
  <2>1. PartWrite(a, p) \in Jobs(group) \ {v}
    BY <1>20, JobNames DEF Begun, v
  <2>2. PartReads(a, p) \subseteq DOMAIN reader
    BY <1>20, PartJobsThere
  <2>3. \A q \in 0..(p - 1) : Begun(a, q)' => Begun(a, q)
    BY <1>3, <1>4, <1>5, <1>15, <1>20
  <2>4. ~InPart(a, p, "writing")
    BY <1>1, <1>20
  <2>5. SamePhase(group, group', PartWrite(a, p))
    BY <1>7, <2>1 DEF SamePhase
  <2> QED
    BY <1>2, <1>10, <1>11, <1>20, <2>1, <2>2, <2>3, <2>4, <2>5, PartKept
<1>21. AssetFits(a)'
  <2>1. \A p : Begun(a, p)' => p \in 0..n /\ PartFits(a, p)'
    BY <1>3, <1>4, <1>5, <1>15, <1>18, <1>19, <1>20
  <2>2. Begun(a, n)' /\ ctx'[a].offset = n /\ Idle(group', w)
    BY <1>7, <1>9, <1>15 DEF Idle
  <2>3. n \in 0..Len(AssetChunks(a)') /\ n < Len(AssetChunks(a)')
    BY <1>2, <1>4, SamePlan
  <2> QED
    BY <2>1, <2>2, <2>3 DEF AssetFits, w
<1>22. ASSUME NEW c \in DOMAIN ctx, c # a PROVE AssetFits(c)'
  <2>1. /\ ctx'[c] = ctx[c]
        /\ \A p : v # PartWrite(c, p) /\ PartWrite(c, p) \notin js
    BY <1>9, <1>15, <1>22
  <2>2. \A p : /\ PartWrite(c, p) \in DOMAIN part' <=> PartWrite(c, p) \in DOMAIN part
               /\ PartWrite(c, p) \in DOMAIN part =>
                    part'[PartWrite(c, p)] = part[PartWrite(c, p)]
    BY <1>10, <2>1
  <2> QED
    BY <1>8, <2>1, <2>2, AddedAsset
<1>23. \A c \in DOMAIN ctx' : AssetFits(c)'
  BY <1>9, <1>21, <1>22
<1> QED
  BY <1>11, <1>14, <1>16, <1>17, <1>23 DEF WriteInv

(* A part's write job takes a step.                                        *)
LEMMA PartStep == WriteInv /\ PartNext => WriteInv'
<1> SUFFICES ASSUME WriteInv, NEW a, NEW o,
                    \/ PartAfterFailure(a, o) \/ PartAsserts(a, o)
                    \/ PartCancelled(a, o) \/ PartReadsFailed(a, o)
                    \/ PartNotOpened(a, o) \/ PartDirectory(a, o) \/ PartOpens(a, o)
                    \/ PartWritten(a, o) \/ LastPartWritten(a, o) \/ PartWriteFails(a, o)
                    \/ PartHasNoLookup(a, o) \/ PartSetsError(a, o)
             PROVE  WriteInv'
  BY DEF PartNext
<1> QED
  BY PartEndsEarly, LastPartOpens, NextPartOpens, PartReleasesStep, LastPartWrittenStep,
     PartWriteFailsStep, PartSetsErrorStep

(* The call waits for its jobs, or finds its cancel token set, or a job    *)
(* returns EBUSY, or nothing happens.                                      *)
LEMMA GroupWaits ==
    ASSUME WriteInv,
           \/ group' \in {group, WaitForJobs(group), CancelJobs(group)}
           \/ \E j : group' = ReturnJob(group, j),
           UNCHANGED <<call, contextVars, disk, todo, overwritten>>
    PROVE  WriteInv'
<1>1. /\ IsGroup(group') /\ Counted(group') /\ Jobs(group') = Jobs(group)
      /\ group'.job = group.job /\ group'.waitsFor = group.waitsFor
  BY WaitFacts DEF WriteInv, WriteShapes
<1>2. UNCHANGED <<reader, blockErr, ctx, part>>
  BY DEF contextVars
<1>3. Graph(group)' /\ CallType'
  BY <1>1, SamePlan DEF WriteInv, Graph
<1>4. WriteShapes' /\ DiskShape'
  BY <1>1, <1>2 DEF WriteInv, WriteShapes, DiskShape
<1>5. JobsKnown'
  BY <1>1, <1>2, JobsKnownKept DEF WriteInv, JobsKnown
<1>6. \A j \in DOMAIN reader' : ReaderFits(j)'
  BY <1>1, <1>2 DEF WriteInv, ReaderFits
<1>7. \A b \in DOMAIN blockErr' : BlockJobFits(b)'
  BY <1>1, <1>2 DEF WriteInv, BlockJobFits, Idle
<1>8. ASSUME NEW a \in DOMAIN ctx' PROVE AssetFits(a)'
  <2>1. a \in DOMAIN ctx /\ ctx'[a] = ctx[a]
    BY <1>2, <1>8
  <2>2. \A o : /\ Begun(a, o)' <=> Begun(a, o)
               /\ SamePhase(group, group', PartWrite(a, o))
    BY <1>1 DEF Begun, SamePhase
  <2> QED
    BY <1>1, <1>2, <2>1, <2>2, AssetKept
<1> QED
  BY <1>3, <1>4, <1>5, <1>6, <1>7, <1>8 DEF WriteInv

(* WriteAssets goes on with making jobs, or begins to wait for them.       *)
LEMMA CreateJobsStep == WriteInv /\ CreateJobsNext => WriteInv'
<1> SUFFICES ASSUME WriteInv, CreateJobsNext PROVE WriteInv'
  OBVIOUS
<1>1. ASSUME StartWaiting PROVE WriteInv'
  BY <1>1, GroupWaits DEF StartWaiting
<1> QED
  BY <1>1, CreateBlockJobStep, CreateAssetJobStep DEF CreateJobsNext

(* Any job of WriteAssets takes a step.                                    *)
LEMMA WriteAssetsStep == WriteInv /\ WriteAssetsNext => WriteInv'
BY ReaderStep, BlockJobStep, PartStep, WriteReadyStep DEF WriteAssetsNext

--------------------------------------------------------------------------------
(* What the invariant is for *)

(* One part of an asset is written at a time, with its blocks at hand.     *)
LEMMA OneWriter ==
    ASSUME WriteInv, NEW a \in DOMAIN ctx
    PROVE  LET writing == {o \in 0..Len(AssetChunks(a)) : InPart(a, o, "writing")} IN
           /\ Cardinality(writing) <= 1
           /\ \A o \in writing : /\ ctx[a].file
                                 /\ \A j \in PartReads(a, o) : reader[j].block = "lent"
<1> DEFINE writing == {o \in 0..Len(AssetChunks(a)) : InPart(a, o, "writing")}
<1>1. ASSUME NEW o \in writing, NEW p \in writing PROVE o = p
  BY InPartBegun, SoleWriter
<1>2. Cardinality(writing) <= 1
  <2>1. CASE writing = {}
    <3> HIDE DEF writing
    <3> QED
      BY <2>1, FS_EmptySet
  <2>2. ASSUME NEW o \in writing PROVE Cardinality(writing) <= 1
    <3> HIDE DEF writing
    <3>1. writing = {o}
      BY <1>1, <2>2
    <3> QED
      BY <3>1, FS_Singleton
  <2> QED
    BY <2>1, <2>2
<1>3. ASSUME NEW o \in writing
      PROVE  ctx[a].file /\ \A j \in PartReads(a, o) : reader[j].block = "lent"
  <2>1. PartFits(a, o) /\ InPart(a, o, "writing")
    BY InPartBegun, PartJobsThere
  <2> QED
    BY <2>1 DEF PartFits
<1> QED
  BY <1>2, <1>3

(* When all jobs are done, no block is left and no file is open.           *)
LEMMA NothingIsLeft ==
    ASSUME WriteInv, \A j \in Jobs(group) : group.job[j] = "complete"
    PROVE  /\ \A a, o, where : ~InPart(a, o, where)
           /\ \A a \in DOMAIN ctx : ~ctx[a].file
           /\ \A j \in DOMAIN reader : reader[j].block \notin {"asked", "lent"}
<1>1. ASSUME NEW a, NEW o, Begun(a, o)
      PROVE  ~Idle(group, PartWrite(a, o)) /\ group.job[PartWrite(a, o)] # "running"
  BY <1>1 DEF Begun, Idle
<1>2. ASSUME NEW a, NEW o, NEW where, InPart(a, o, where) PROVE FALSE
  BY <1>1, <1>2, InPartBegun
<1>3. ASSUME NEW a \in DOMAIN ctx PROVE ~ctx[a].file
  BY <1>1, <1>2 DEF WriteInv, AssetFits
<1>4. ASSUME NEW j \in DOMAIN reader, reader[j].block \in {"asked", "lent"} PROVE FALSE
  <2>1. j \in Jobs(group) /\ group.job[j] = "complete" /\ ReaderFits(j)
    BY ReaderJobs
  <2>2. reader[j].block = "lent"
    BY <1>4, <2>1 DEF ReaderFits
  <2>3. CASE \E b \in DOMAIN blockErr : j = ReadJob(b) \/ j = WriteJob(b)
    <3>1. PICK b \in DOMAIN blockErr : j = ReadJob(b)
      BY <2>3, ReaderJobs, JobNames
    <3> QED
      BY <2>2, <3>1 DEF WriteInv, BlockJobFits, JobsKnown
  <2>4. CASE \E a \in DOMAIN ctx : \E o \in 0..ctx[a].offset : Begun(a, o) /\ j \in PartJobs(a, o)
    <3>1. PICK a, o : Begun(a, o) /\ j \in PartJobs(a, o)
      BY <2>4
    <3>2. j \in PartReads(a, o)
      BY <3>1, ReaderJobs, JobNames, WaitsOnFacts DEF PartJobs
    <3>3. PartFits(a, o) /\ ~Idle(group, PartWrite(a, o)) /\ ~InPart(a, o, "writing")
      BY <1>1, <1>2, <3>1, PartJobsThere
    <3> QED
      BY <2>2, <3>2, <3>3 DEF PartFits
  <2> QED
    BY <2>1, <2>3, <2>4 DEF WriteInv, JobsKnown
<1> QED
  BY <1>2, <1>3, <1>4

--------------------------------------------------------------------------------
(* The jobs WriteAssets reserves *)

(* A set with one element more.                                            *)
LEMMA OneMore ==
    ASSUME NEW S, IsFiniteSet(S), NEW x
    PROVE  /\ IsFiniteSet(S \cup {x}) /\ Cardinality(S) \in Nat
           /\ Cardinality(S \cup {x}) \in Nat /\ Cardinality(S \cup {x}) <= Cardinality(S) + 1
<1>1. Cardinality(S) \in Nat
  BY FS_CardinalityType
<1>2. IsFiniteSet(S \cup {x})
  BY FS_AddElement
<1>3. Cardinality(S \cup {x}) = IF x \in S THEN Cardinality(S) ELSE Cardinality(S) + 1
  BY FS_AddElement
<1> QED
  BY <1>1, <1>2, <1>3

(* A part has as many jobs as it has blocks, and two.                      *)
LEMMA PartJobCount ==
    ASSUME NEW a, AssetChunks(a) \in Seq(Nat), NEW o \in 0..Len(AssetChunks(a))
    PROVE  /\ IsFiniteSet(PartJobs(a, o)) /\ Cardinality(PartBlocks(a, o)) \in Nat
           /\ Cardinality(PartJobs(a, o)) <= Cardinality(PartBlocks(a, o)) + 2
<1> DEFINE R == PartReads(a, o)
           B == PartBlocks(a, o)
           f == [b \in B |-> <<"partread", a, o, b>>]
<1>1. IsFiniteSet(R) /\ PartEnd(a, o) \in o..Len(AssetChunks(a))
  BY PartFacts
<1>2. IsFiniteSet(B) /\ Cardinality(B) \in Nat
  <2>1. o \in Nat /\ PartEnd(a, o) \in Nat
    BY <1>1
  <2> QED
    BY <2>1, BlocksBetweenFacts DEF PartBlocks
<1>3. f \in Surjection(B, R)
  BY DEF Surjection, PartReads
<1>4. Cardinality(R) <= Cardinality(B) /\ Cardinality(R) \in Nat
  <2> HIDE DEF B, R, f
  <2>1. Cardinality(R) <= Cardinality(B)
    BY <1>2, <1>3, FS_Surjection
  <2> QED
    BY <2>1, <1>1, FS_CardinalityType
<1>5. \/ PartJobs(a, o) = {PartWrite(a, o)}
      \/ PartJobs(a, o) = (R \cup {PartSync(a, o)}) \cup {PartWrite(a, o)}
  BY WaitsOnFacts DEF PartJobs
<1> HIDE DEF R, B
<1>6. ASSUME NEW s, NEW w, NEW P, P = {w} \/ P = (R \cup {s}) \cup {w}
      PROVE  IsFiniteSet(P) /\ Cardinality(P) <= Cardinality(R) + 2
  <2>1. CASE P = {w}
    <3>1. IsFiniteSet(P) /\ Cardinality(P) = 1
      BY <2>1, FS_Singleton
    <3> QED
      BY <1>4, <3>1
  <2>2. CASE P = (R \cup {s}) \cup {w}
    <3> DEFINE T == R \cup {s}
    <3>1. IsFiniteSet(T) /\ Cardinality(T) <= Cardinality(R) + 1
      BY <1>1, OneMore
    <3> HIDE DEF T
    <3>2. /\ IsFiniteSet(T \cup {w}) /\ Cardinality(T) \in Nat
          /\ Cardinality(T \cup {w}) \in Nat /\ Cardinality(T \cup {w}) <= Cardinality(T) + 1
      BY <3>1, OneMore
    <3>3. Cardinality(T \cup {w}) <= Cardinality(R) + 2
      BY <1>4, <3>1, <3>2
    <3> QED
      BY <2>2, <3>2, <3>3 DEF T
  <2> QED
    BY <1>6, <2>1, <2>2
<1>7. IsFiniteSet(PartJobs(a, o)) /\ Cardinality(PartJobs(a, o)) <= Cardinality(R) + 2
  BY <1>5, <1>6
<1>8. Cardinality(PartJobs(a, o)) \in Nat
  BY <1>7, FS_CardinalityType
<1> QED
  BY <1>2, <1>4, <1>7, <1>8 DEF B

(* A set of jobs has all those of the part of asset a at o, and with the   *)
(* write job of a part all those of the next one.                          *)
PlanFrom(a, o, P) ==
    /\ PartJobs(a, o) \subseteq P
    /\ \A q \in 0..Len(AssetChunks(a)) :
         PartWrite(a, q) \in P /\ PartEnd(a, q) < Len(AssetChunks(a)) =>
           PartJobs(a, PartEnd(a, q)) \subseteq P

(* All write jobs of parts in P are of assets in S.                        *)
OnlyPartsOf(P, S) == \A c, q : PartWrite(c, q) \in P => c \in S

(* The union of two finite sets has at most as many elements as both.      *)
LEMMA UnionCount ==
    ASSUME NEW S, NEW T, IsFiniteSet(S), IsFiniteSet(T), NEW m \in Nat, NEW n \in Nat,
           Cardinality(S) <= m, Cardinality(T) <= n
    PROVE  IsFiniteSet(S \cup T) /\ Cardinality(S \cup T) <= m + n
<1>1. IsFiniteSet(S \cup T)
  BY FS_Union
<1>2. Cardinality(S \cup T) = Cardinality(S) + Cardinality(T) - Cardinality(S \cap T)
  BY FS_Union
<1>3. IsFiniteSet(S \cap T)
  BY FS_Intersection
<1>4. Cardinality(S) \in Nat /\ Cardinality(T) \in Nat /\ Cardinality(S \cap T) \in Nat
  BY <1>3, FS_CardinalityType
<1> QED
  BY <1>1, <1>2, <1>4

(* One part more.                                                          *)
LEMMA PlanOneMore ==
    ASSUME NEW a, AssetChunks(a) \in Seq(Nat), NEW o \in 0..Len(AssetChunks(a)), NEW P,
           PartEnd(a, o) < Len(AssetChunks(a)) => PlanFrom(a, PartEnd(a, o), P),
           PartEnd(a, o) = Len(AssetChunks(a)) => P = {}, OnlyPartsOf(P, {a})
    PROVE  PlanFrom(a, o, PartJobs(a, o) \cup P) /\ OnlyPartsOf(PartJobs(a, o) \cup P, {a})
<1> DEFINE len == Len(AssetChunks(a))
<1>1. PartEnd(a, o) \in o..len /\ len \in Nat
  BY PartFacts
<1>2. \A c, q : PartWrite(c, q) \in PartJobs(a, o) => c = a /\ q = o
  <2> TAKE c, q
  <2>1. PartWrite(c, q)[1] = "partwrite" /\ PartWrite(c, q)[2] = c /\ PartWrite(c, q)[3] = q
    BY JobNames
  <2>2. /\ PartWrite(a, o)[2] = a /\ PartWrite(a, o)[3] = o /\ PartSync(a, o)[1] = "partsync"
        /\ \A j \in PartReads(a, o) : j[1] = "partread"
    BY JobNames
  <2>3. PartJobs(a, o) \subseteq {PartWrite(a, o), PartSync(a, o)} \cup PartReads(a, o)
    BY WaitsOnFacts DEF PartJobs
  <2> QED
    BY <2>1, <2>2, <2>3
<1>3. ASSUME NEW q \in 0..len, PartWrite(a, q) \in PartJobs(a, o) \cup P, PartEnd(a, q) < len
      PROVE  PartJobs(a, PartEnd(a, q)) \subseteq P
  BY <1>1, <1>2, <1>3 DEF PlanFrom
<1>4. OnlyPartsOf(PartJobs(a, o) \cup P, {a})
  BY <1>2 DEF OnlyPartsOf
<1> HIDE DEF len
<1> QED
  BY <1>3, <1>4 DEF PlanFrom, len

(* What WriteAssets counts is enough for all parts of an asset.            *)
LEMMA JobCountFacts ==
    ASSUME NEW a, AssetChunks(a) \in Seq(Nat)
    PROVE  /\ AssetJobCount(a) \in Nat
           /\ \E P : /\ IsFiniteSet(P) /\ Cardinality(P) <= AssetJobCount(a)
                     /\ PlanFrom(a, 0, P) /\ OnlyPartsOf(P, {a})
<1> DEFINE len == Len(AssetChunks(a))
           D == 0..len
           size(o) == Cardinality(PartBlocks(a, o))
           IsCount(f) == f = [o \in D |-> IF o = len THEN 0 ELSE size(o) + 2 + f[PartEnd(a, o)]]
           count == CHOOSE f : IsCount(f)
           rank == [o \in D |-> len - o]
<1>0. len \in Nat
  OBVIOUS
<1>1. \A o \in D : /\ PartEnd(a, o) \in D /\ size(o) \in Nat
                   /\ o # len => PartEnd(a, o) > o
  <2> TAKE o \in D
  <2>1. PartEnd(a, o) \in o..len /\ (o < len => PartEnd(a, o) > o)
    BY PartFacts
  <2>2. size(o) \in Nat
    BY PartJobCount
  <2> QED
    BY <1>0, <2>1, <2>2
<1>2. AssetJobCount(a) = IF len = 0 THEN 1 ELSE count[0]
  BY Zenon DEF AssetJobCount
<1> HIDE DEF size
<1>3. \E f : IsCount(f)
  <2> DEFINE base == {len}
             value == [o \in D |-> 0]
             next == [o \in D \ base |-> PartEnd(a, o)]
             step == [o \in D \ base |-> [v \in Nat |-> size(o) + 2 + v]]
  <2>1. /\ value \in [D -> Nat] /\ next \in [D \ base -> D]
        /\ step \in [D \ base -> [Nat -> Nat]] /\ rank \in [D -> Nat]
    <3>1. value \in [D -> Nat] /\ rank \in [D -> Nat]
      BY <1>0
    <3>2. next \in [D \ base -> D]
      BY <1>1
    <3>3. ASSUME NEW o \in D PROVE [v \in Nat |-> size(o) + 2 + v] \in [Nat -> Nat]
      BY <1>1
    <3>4. step \in [D \ base -> [Nat -> Nat]]
      <4> HIDE DEF D
      <4> QED
        BY <3>3
    <3> QED
      BY <3>1, <3>2, <3>4
  <2>2. len + 1 \in Nat /\ \A x \in D : rank[x] < len + 1
    BY <1>0
  <2>3. \A x \in D \ base : rank[next[x]] < rank[x]
    BY <1>0, <1>1
  <2>4. \E f \in [D -> Nat] :
          \A x \in D : f[x] = IF x \in base THEN value[x] ELSE step[x][f[next[x]]]
    <3>1. IsRecursion(D, Nat, base, value, next, step, rank, len + 1)
      <4> HIDE DEF D, base, value, next, step, rank
      <4> QED
        BY <2>1, <2>2, <2>3 DEF IsRecursion
    <3> HIDE DEF D, base, value, next, step, rank
    <3>2. \E f \in [D -> Nat] : Solves(f, D, base, value, next, step)
      BY <3>1, LinearRecursion
    <3> QED
      BY <3>2 DEF Solves
  <2>5. PICK f \in [D -> Nat] :
          \A x \in D : f[x] = IF x \in base THEN value[x] ELSE step[x][f[next[x]]]
    BY <2>4
  <2>6. ASSUME NEW x \in D
        PROVE  f[x] = IF x = len THEN 0 ELSE size(x) + 2 + f[PartEnd(a, x)]
    <3>1. f[x] = IF x \in base THEN value[x] ELSE step[x][f[next[x]]]
      BY <2>5
    <3>2. x # len => next[x] = PartEnd(a, x) /\ f[PartEnd(a, x)] \in Nat
      BY <1>1
    <3> QED
      BY <3>1, <3>2
  <2>7. IsCount(f)
    <3> HIDE DEF D
    <3> QED
      BY <2>6
  <2> QED
    BY <2>7
<1>4. IsCount(count)
  <2> HIDE DEF IsCount
  <2> QED
    BY <1>3
<1> HIDE DEF count
<1>5. \A o \in D : count[o] = IF o = len THEN 0 ELSE size(o) + 2 + count[PartEnd(a, o)]
  <2> HIDE DEF D
  <2> QED
    BY <1>4
<1> DEFINE HasPlan(o) ==
             \E P : /\ IsFiniteSet(P) /\ Cardinality(P) <= count[o] /\ OnlyPartsOf(P, {a})
                    /\ o = len => P = {}
                    /\ o < len => PlanFrom(a, o, P)
           Q == {o \in D : count[o] \in Nat /\ HasPlan(o)}
<1>6. ASSUME NEW o \in D, \A p \in D : rank[p] < rank[o] => p \in Q PROVE o \in Q
  <2>1. CASE o = len
    <3>1. count[o] = 0
      BY <1>5, <2>1
    <3>2. IsFiniteSet({}) /\ Cardinality({}) = 0
      BY FS_EmptySet
    <3>3. OnlyPartsOf({}, {a})
      BY DEF OnlyPartsOf
    <3> QED
      BY <2>1, <3>1, <3>2, <3>3, <1>0
  <2>2. CASE o # len
    <3> DEFINE e == PartEnd(a, o)
    <3>1. e \in D /\ e > o /\ size(o) \in Nat /\ o < len
      BY <1>0, <1>1, <2>2
    <3>2. e \in Q
      <4>1. rank[e] < rank[o]
        <5> HIDE DEF e
        <5> QED
          BY <1>0, <3>1
      <4> QED
        BY <1>6, <3>1, <4>1
    <3>3. count[o] = size(o) + 2 + count[e] /\ count[e] \in Nat
      BY <1>5, <2>2, <3>2
    <3>4. PICK P : /\ IsFiniteSet(P) /\ Cardinality(P) <= count[e] /\ OnlyPartsOf(P, {a})
                   /\ e = len => P = {}
                   /\ e < len => PlanFrom(a, e, P)
      BY <3>2
    <3>5. PlanFrom(a, o, PartJobs(a, o) \cup P) /\ OnlyPartsOf(PartJobs(a, o) \cup P, {a})
      <4>1. o \in 0..Len(AssetChunks(a))
        BY <1>6
      <4>2. /\ PartEnd(a, o) < Len(AssetChunks(a)) => PlanFrom(a, PartEnd(a, o), P)
            /\ PartEnd(a, o) = Len(AssetChunks(a)) => P = {}
            /\ OnlyPartsOf(P, {a})
        BY <3>4
      <4> QED
        BY <4>1, <4>2, PlanOneMore
    <3>6. IsFiniteSet(PartJobs(a, o)) /\ Cardinality(PartJobs(a, o)) <= size(o) + 2
      BY PartJobCount DEF size
    <3> DEFINE m == size(o) + 2
               n == count[e]
               S == PartJobs(a, o)
    <3>7. m \in Nat /\ n \in Nat
      BY <3>1, <3>3
    <3>8. IsFiniteSet(S \cup P) /\ Cardinality(S \cup P) <= m + n
      <4>1. IsFiniteSet(S) /\ Cardinality(S) <= m
        BY <3>6
      <4>2. IsFiniteSet(P) /\ Cardinality(P) <= n
        BY <3>4
      <4> HIDE DEF S, m, n
      <4> QED
        BY <3>7, <4>1, <4>2, UnionCount
    <3> HIDE DEF D, size, e, Q
    <3>9. HasPlan(o)
      BY <2>2, <3>3, <3>5, <3>8
    <3> QED
      BY <3>1, <3>3, <3>9 DEF Q
  <2> QED
    BY <2>1, <2>2
<1>7. D \subseteq Q
  <2>1. rank \in [D -> Nat]
    BY <1>0
  <2> HIDE DEF D, Q, rank
  <2> QED
    BY <1>6, <2>1, RankInduction
<1>8. CASE len = 0
  <2>0. 0 \in 0..Len(AssetChunks(a))
    BY <1>8
  <2>1. PartReads(a, 0) = {}
    BY <1>8, <2>0, PartFacts
  <2>2. PartJobs(a, 0) = {PartWrite(a, 0)}
    BY <2>1, WaitsOnFacts DEF PartJobs
  <2>3. PartEnd(a, 0) = len
    <3>1. PartEnd(a, 0) \in 0..Len(AssetChunks(a))
      BY <2>0, PartFacts
    <3> QED
      BY <1>8, <3>1
  <2>4. PlanFrom(a, 0, PartJobs(a, 0) \cup {}) /\ OnlyPartsOf(PartJobs(a, 0) \cup {}, {a})
    <3>1. /\ PartEnd(a, 0) < Len(AssetChunks(a)) => PlanFrom(a, PartEnd(a, 0), {})
          /\ PartEnd(a, 0) = Len(AssetChunks(a)) => {} = {}
          /\ OnlyPartsOf({}, {a})
      BY <1>8, <2>3 DEF OnlyPartsOf
    <3> QED
      BY <2>0, <3>1, PlanOneMore
  <2>5. IsFiniteSet(PartJobs(a, 0)) /\ Cardinality(PartJobs(a, 0)) = 1
    BY <2>2, FS_Singleton
  <2>6. AssetJobCount(a) = 1
    BY <1>2, <1>8
  <2> QED
    BY <2>4, <2>5, <2>6
<1>9. CASE len # 0
  <2>1. 0 \in D /\ 0 < len
    BY <1>0, <1>9
  <2>2. 0 \in Q
    BY <1>7, <2>1
  <2>3. AssetJobCount(a) = count[0] /\ 0 # len
    BY <1>2, <1>9
  <2>4. count[0] \in Nat /\ HasPlan(0)
    BY <2>2
  <2>5. \E P : /\ IsFiniteSet(P) /\ Cardinality(P) <= count[0]
               /\ PlanFrom(a, 0, P) /\ OnlyPartsOf(P, {a})
    BY <2>1, <2>4
  <2> QED
    BY <2>3, <2>4, <2>5
<1> QED
  BY <1>8, <1>9

(* What is counted for some assets is enough for all their parts.          *)
LEMMA JobSumFacts ==
    ASSUME NEW S, IsFiniteSet(S), \A a \in S : AssetChunks(a) \in Seq(Nat)
    PROVE  /\ MapThenSumSet(AssetJobCount, S) \in Nat
           /\ \E P : /\ IsFiniteSet(P) /\ Cardinality(P) <= MapThenSumSet(AssetJobCount, S)
                     /\ \A a \in S : PlanFrom(a, 0, P)
                     /\ OnlyPartsOf(P, S)
<1> DEFINE D == SUBSET S
           pick(s) == CHOOSE x \in s : TRUE
           IsSum(f) == f = [s \in D |-> IF s = {} THEN 0
                                        ELSE AssetJobCount(pick(s)) + f[s \ {pick(s)}]]
           sum == CHOOSE f : IsSum(f)
           rank == [s \in D |-> Cardinality(s)]
<1>1. MapThenSumSet(AssetJobCount, S) = sum[S]
  BY DEF MapThenSumSet, MapThenFoldSet
<1>2. ASSUME NEW s \in D
      PROVE  /\ IsFiniteSet(s) /\ Cardinality(s) \in Nat /\ Cardinality(s) <= Cardinality(S)
             /\ s # {} => /\ pick(s) \in s /\ s \ {pick(s)} \in D
                          /\ AssetJobCount(pick(s)) \in Nat
                          /\ Cardinality(s \ {pick(s)}) < Cardinality(s)
  <2>1. IsFiniteSet(s) /\ Cardinality(s) \in Nat /\ Cardinality(s) <= Cardinality(S)
    BY FS_Subset, FS_CardinalityType
  <2>2. ASSUME s # {} PROVE pick(s) \in s
    BY <2>2
  <2>3. ASSUME NEW x \in s PROVE Cardinality(s \ {x}) < Cardinality(s) /\ s \ {x} \in D
    <3>1. Cardinality(s \ {x}) = Cardinality(s) - 1
      BY <2>1, FS_RemoveElement
    <3> QED
      BY <2>1, <3>1
  <2>4. ASSUME NEW x \in s PROVE AssetJobCount(x) \in Nat
    BY JobCountFacts
  <2> HIDE DEF pick, D
  <2> QED
    BY <2>1, <2>2, <2>3, <2>4
<1> HIDE DEF pick
<1>3. \E f : IsSum(f)
  <2> DEFINE base == {{}}
             value == [s \in D |-> 0]
             next == [s \in D \ base |-> s \ {pick(s)}]
             step == [s \in D \ base |-> [v \in Nat |-> AssetJobCount(pick(s)) + v]]
             n == Cardinality(S) + 1
  <2>1. IsRecursion(D, Nat, base, value, next, step, rank, n)
    <3>1. value \in [D -> Nat] /\ rank \in [D -> Nat]
      BY <1>2
    <3>2. next \in [D \ base -> D]
      BY <1>2
    <3>3. ASSUME NEW s \in D \ base
          PROVE  [v \in Nat |-> AssetJobCount(pick(s)) + v] \in [Nat -> Nat]
      <4>1. AssetJobCount(pick(s)) \in Nat
        BY <1>2
      <4>2. ASSUME NEW k \in Nat PROVE [v \in Nat |-> k + v] \in [Nat -> Nat]
        OBVIOUS
      <4> QED
        BY <4>1, <4>2
    <3>4. step \in [D \ base -> [Nat -> Nat]]
      <4> HIDE DEF D, base
      <4> QED
        BY <3>3
    <3>5. n \in Nat /\ \A x \in D : rank[x] < n
      <4>1. Cardinality(S) \in Nat
        BY FS_CardinalityType
      <4>2. ASSUME NEW x \in D PROVE rank[x] < n
        <5>1. Cardinality(x) \in Nat /\ Cardinality(x) <= Cardinality(S)
          BY <1>2
        <5>2. rank[x] = Cardinality(x)
          OBVIOUS
        <5> HIDE DEF rank, D
        <5> QED
          BY <4>1, <5>1, <5>2
      <4>3. n \in Nat
        BY <4>1
      <4> HIDE DEF n, rank, D
      <4> QED
        BY <4>2, <4>3
    <3>6. \A x \in D \ base : rank[next[x]] < rank[x]
      <4> TAKE x \in D \ base
      <4>1. next[x] = x \ {pick(x)} /\ next[x] \in D /\ Cardinality(next[x]) < Cardinality(x)
        BY <1>2
      <4> HIDE DEF next, D
      <4> QED
        BY <4>1
    <3> HIDE DEF D, base, value, next, step, rank, n
    <3> QED
      BY <3>1, <3>2, <3>4, <3>5, <3>6 DEF IsRecursion
  <2>2. \E f \in [D -> Nat] : Solves(f, D, base, value, next, step)
    <3> HIDE DEF D, base, value, next, step, rank, n
    <3> QED
      BY <2>1, LinearRecursion
  <2>3. PICK f \in [D -> Nat] :
          \A x \in D : f[x] = IF x \in base THEN value[x] ELSE step[x][f[next[x]]]
    <3> HIDE DEF D, base, value, next, step, rank, n
    <3> QED
      BY <2>2 DEF Solves
  <2>4. ASSUME NEW x \in D
        PROVE  f[x] = IF x = {} THEN 0 ELSE AssetJobCount(pick(x)) + f[x \ {pick(x)}]
    <3>1. f[x] = IF x \in base THEN value[x] ELSE step[x][f[next[x]]]
      BY <2>3
    <3>2. x # {} => next[x] = x \ {pick(x)} /\ f[x \ {pick(x)}] \in Nat
      BY <1>2
    <3> QED
      BY <3>1, <3>2
  <2>5. IsSum(f)
    <3> HIDE DEF D
    <3> QED
      BY <2>4
  <2> QED
    BY <2>5
<1>4. IsSum(sum)
  <2> HIDE DEF IsSum
  <2> QED
    BY <1>3
<1> HIDE DEF sum
<1>5. \A s \in D : sum[s] = IF s = {} THEN 0 ELSE AssetJobCount(pick(s)) + sum[s \ {pick(s)}]
  <2> HIDE DEF D
  <2> QED
    BY <1>4
<1> DEFINE HasPlan(s) == \E P : /\ IsFiniteSet(P) /\ Cardinality(P) <= sum[s]
                                /\ \A a \in s : PlanFrom(a, 0, P)
                                /\ OnlyPartsOf(P, s)
           Q == {s \in D : sum[s] \in Nat /\ HasPlan(s)}
<1>6. ASSUME NEW s \in D, \A t \in D : rank[t] < rank[s] => t \in Q PROVE s \in Q
  <2>1. CASE s = {}
    <3>1. sum[s] = 0
      BY <1>5, <2>1
    <3>2. IsFiniteSet({}) /\ Cardinality({}) = 0
      BY FS_EmptySet
    <3>3. OnlyPartsOf({}, s)
      BY DEF OnlyPartsOf
    <3> QED
      BY <2>1, <3>1, <3>2, <3>3
  <2>2. CASE s # {}
    <3> DEFINE x == pick(s)
               t == s \ {x}
    <3>1. x \in s /\ t \in D /\ AssetJobCount(x) \in Nat /\ rank[t] < rank[s]
      BY <1>2, <2>2
    <3>2. sum[s] = AssetJobCount(x) + sum[t] /\ sum[t] \in Nat /\ HasPlan(t)
      BY <1>5, <1>6, <2>2, <3>1
    <3>3. PICK P : /\ IsFiniteSet(P) /\ Cardinality(P) <= sum[t]
                   /\ \A a \in t : PlanFrom(a, 0, P)
                   /\ OnlyPartsOf(P, t)
      BY <3>2
    <3>4. AssetChunks(x) \in Seq(Nat)
      BY <3>1
    <3>5. PICK R : /\ IsFiniteSet(R) /\ Cardinality(R) <= AssetJobCount(x)
                   /\ PlanFrom(x, 0, R) /\ OnlyPartsOf(R, {x})
      BY <3>4, JobCountFacts
    <3> HIDE DEF x, D, rank
    <3>6. ASSUME NEW a \in s PROVE PlanFrom(a, 0, R \cup P)
      <4>1. CASE a = x
        BY <3>3, <3>5, <4>1 DEF PlanFrom, OnlyPartsOf
      <4>2. CASE a # x
        BY <3>3, <3>5, <4>2 DEF PlanFrom, OnlyPartsOf
      <4> QED
        BY <4>1, <4>2
    <3>7. OnlyPartsOf(R \cup P, s)
      BY <3>1, <3>3, <3>5 DEF OnlyPartsOf
    <3> DEFINE m == AssetJobCount(x)
               n == sum[t]
    <3>8. IsFiniteSet(R \cup P) /\ Cardinality(R \cup P) <= m + n
      <4>1. m \in Nat /\ n \in Nat /\ Cardinality(R) <= m /\ Cardinality(P) <= n
        BY <3>1, <3>2, <3>3, <3>5
      <4>2. IsFiniteSet(R) /\ IsFiniteSet(P)
        BY <3>3, <3>5
      <4> HIDE DEF m, n
      <4> QED
        BY <4>1, <4>2, UnionCount
    <3>9. HasPlan(s)
      BY <3>2, <3>6, <3>7, <3>8
    <3>10. sum[s] \in Nat
      BY <3>1, <3>2
    <3> QED
      BY <3>9, <3>10
  <2> QED
    BY <2>1, <2>2
<1>7. D \subseteq Q
  <2>1. rank \in [D -> Nat]
    BY <1>2
  <2> HIDE DEF D, Q, rank
  <2> QED
    BY <1>6, <2>1, RankInduction
<1>8. sum[S] \in Nat /\ HasPlan(S)
  <2> HIDE DEF HasPlan
  <2> QED
    BY <1>7
<1> QED
  BY <1>1, <1>8

(* A set of jobs that is large enough for what is left to do: it has the   *)
(* jobs that were created, and those of the block jobs and the parts to    *)
(* come.                                                                   *)
Planned(P) ==
    /\ Jobs(group) \subseteq P
    /\ \A b \in todo.blocks : ReadJob(b) \in P /\ WriteJob(b) \in P
    /\ \A a \in todo.assets \cup DOMAIN ctx : PlanFrom(a, 0, P)

(* The reservation is as large as such a set, and all jobs that WriteAssets *)
(* makes are made before it waits for them.                                *)
JobsPlanned ==
    /\ \E P : IsFiniteSet(P) /\ Cardinality(P) <= group.reserved /\ Planned(P)
    /\ group.waiting => JobsAreCreated

(* A group has no fields but those of NewGroup.                            *)
IsShaped(g) ==
    g \in [reserved : {g.reserved}, pending : {g.pending}, cancelled : {g.cancelled},
           waiting : {g.waiting}, returning : {g.returning}, job : {g.job},
           waitsFor : {g.waitsFor}]

(* The operation created jobs js, and nothing else.                        *)
Creates(g, h, js) ==
    /\ IsShaped(h) /\ h.reserved = g.reserved /\ h.waiting = g.waiting
    /\ Jobs(h) = Jobs(g) \cup js

(* Of the job system's operations, CreateJobs alone makes jobs.            *)
LEMMA OperationsCreate ==
    ASSUME NEW g, IsShaped(g)
    PROVE  /\ Creates(g, g, {})
           /\ \A j : Creates(g, EndJob(g, j), {})
           /\ \A j : Creates(g, BlockJob(g, j), {}) /\ Creates(g, ReturnJob(g, j), {})
           /\ \A j, s : Creates(g, [g EXCEPT !.job[j] = s], {})
           /\ \A js : Creates(g, ReadyJobs(g, js), {})
           /\ \A j, js : Creates(g, AddDependencies(g, j, js), {})
           /\ \A js : Creates(g, CreateJobs(g, js), js)
           /\ Creates(g, CancelJobs(g), {})
           /\ WaitForJobs(g).reserved = g.reserved /\ Jobs(WaitForJobs(g)) = Jobs(g)
<1>1. Creates(g, g, {})
  BY DEF Creates
<1>2. ASSUME NEW j PROVE Creates(g, EndJob(g, j), {})
  BY DEF Creates, IsShaped, EndJob, Jobs
<1>3. ASSUME NEW j, NEW s PROVE Creates(g, [g EXCEPT !.job[j] = s], {})
  BY DEF Creates, IsShaped, Jobs
<1>4. ASSUME NEW j PROVE Creates(g, BlockJob(g, j), {}) /\ Creates(g, ReturnJob(g, j), {})
  BY DEF Creates, IsShaped, BlockJob, ReturnJob, Jobs
<1>5. ASSUME NEW js PROVE Creates(g, ReadyJobs(g, js), {})
  BY DEF Creates, IsShaped, ReadyJobs, Jobs
<1>6. ASSUME NEW j, NEW js PROVE Creates(g, AddDependencies(g, j, js), {})
  BY DEF Creates, IsShaped, AddDependencies, Jobs
<1>7. ASSUME NEW js PROVE Creates(g, CreateJobs(g, js), js)
  BY DEF Creates, IsShaped, CreateJobs, Jobs, Extend
<1>8. /\ Creates(g, CancelJobs(g), {})
      /\ WaitForJobs(g).reserved = g.reserved /\ Jobs(WaitForJobs(g)) = Jobs(g)
  BY DEF Creates, IsShaped, WaitForJobs, CancelJobs, Jobs
<1> QED
  BY <1>1, <1>2, <1>3, <1>4, <1>5, <1>6, <1>7, <1>8

(* CreatePartialAssetWriteJob makes the jobs of its part.                  *)
LEMMA PartIsCreated ==
    ASSUME NEW g, IsShaped(g), NEW a, NEW o
    PROVE  Creates(g, CreatePartialAssetWriteJob(g, a, o), PartJobs(a, o))
<1> DEFINE R == PartReads(a, o)
           w == PartWrite(a, o)
           s == PartSync(a, o)
           c == CreateJobs(g, R \cup {w, s})
           d == AddDependencies(c, w, R \cup {s})
<1>1. CASE R = {}
  <2>1. PartJobs(a, o) = {w} /\ CreatePartialAssetWriteJob(g, a, o) = CreateJobs(g, {w})
    BY <1>1, WaitsOnFacts DEF PartJobs, CreatePartialAssetWriteJob
  <2> HIDE DEF w
  <2> QED
    BY <2>1, OperationsCreate
<1>2. CASE R # {}
  <2>1. PartJobs(a, o) = R \cup {w, s} /\ CreatePartialAssetWriteJob(g, a, o) = ReadyJobs(d, R)
    BY <1>2, WaitsOnFacts DEF PartJobs, CreatePartialAssetWriteJob
  <2> DEFINE js == R \cup {w, s}
  <2>2. Creates(g, c, js)
    <3> HIDE DEF js
    <3> QED
      BY OperationsCreate DEF js
  <2> HIDE DEF c
  <2>3. Creates(c, d, {})
    <3> DEFINE on == R \cup {s}
    <3>1. IsShaped(c)
      BY <2>2 DEF Creates
    <3> HIDE DEF on, w
    <3> QED
      BY <3>1, OperationsCreate DEF on
  <2> HIDE DEF d
  <2>4. Creates(d, ReadyJobs(d, R), {})
    <3> HIDE DEF R
    <3> QED
      BY <2>3, OperationsCreate DEF Creates
  <2> QED
    BY <2>1, <2>2, <2>3, <2>4 DEF Creates
<1> QED
  BY <1>1, <1>2

(* A step that creates no job, or jobs that were planned.                  *)
LEMMA PlanKept ==
    ASSUME NEW P, Planned(P), UNCHANGED call, NEW js \in SUBSET P,
           Jobs(group') = Jobs(group) \cup js,
           todo'.blocks \subseteq todo.blocks,
           todo'.assets \cup DOMAIN ctx' \subseteq todo.assets \cup DOMAIN ctx
    PROVE  Planned(P)'
<1>1. \A a : PlanFrom(a, 0, P)' <=> PlanFrom(a, 0, P)
  BY SamePlan DEF PlanFrom, PartWrite
<1>2. Jobs(group') \subseteq P
  BY DEF Planned
<1>3. \A b : ReadJob(b)' = ReadJob(b) /\ WriteJob(b)' = WriteJob(b)
  BY DEF ReadJob, WriteJob
<1> QED
  BY <1>1, <1>2, <1>3 DEF Planned

(* A group is a record of those fields.                                    *)
LEMMA GroupIsShaped == ASSUME NEW g, IsGroup(g) PROVE IsShaped(g)
BY DEF IsGroup, IsShaped

(* No step of a job creates a job that was not planned.                    *)
LEMMA JobStepPlanned ==
    ASSUME WriteInv, ReaderNext \/ BlockJobNext \/ WriteReady
    PROVE  /\ Creates(group, group', {})
           /\ UNCHANGED call /\ todo' = todo /\ ctx' = ctx
<1>0. IsShaped(group)
  BY GroupIsShaped DEF WriteInv, WriteShapes
<1>1. CASE ReaderNext
  BY <1>0, <1>1, OperationsCreate
     DEF ReaderNext, ReaderCancelled, ReaderRefused, ReaderAccepted, ReaderComplete, ReaderResumed,
         readerRest
<1>2. CASE BlockJobNext
  BY <1>0, <1>2, OperationsCreate
     DEF BlockJobNext, BlockReadFailed, BlockCancelled, BlockWritten, BlockNotWritten,
         BlockJobGoesOn, BlockJobEnds, blockRest
<1>3. CASE WriteReady
  BY <1>0, <1>3, OperationsCreate DEF WriteReady, contextVars
<1> QED
  BY <1>1, <1>2, <1>3

(* The release of the next part makes no job.                              *)
LEMMA ReleaseCreates ==
    ASSUME IsShaped(group), NEW a, NEW o
    PROVE  /\ Creates(group, NextReleased(a, o), {})
           /\ Creates(group, EndJob(NextReleased(a, o), PartWrite(a, o)), {})
<1> DEFINE g == NextReleased(a, o)
<1>1. Creates(group, g, {})
  BY OperationsCreate DEF NextReleased
<1> HIDE DEF g
<1>2. Creates(g, EndJob(g, PartWrite(a, o)), {})
  BY <1>1, OperationsCreate DEF Creates
<1> QED
  BY <1>1, <1>2 DEF g, Creates

(* Nor does a part's write job, but for the jobs of the next part, which   *)
(* were planned with its own.                                              *)
LEMMA PartStepPlanned ==
    ASSUME WriteInv, NEW P, Planned(P), PartNext
    PROVE  /\ \E js \in SUBSET P : Creates(group, group', js)
           /\ UNCHANGED call /\ todo' = todo /\ DOMAIN ctx' = DOMAIN ctx
<1> SUFFICES ASSUME NEW a \in DOMAIN ctx, NEW o \in 0..Len(AssetChunks(a)),
                    \/ PartAfterFailure(a, o) \/ PartAsserts(a, o)
                    \/ PartCancelled(a, o) \/ PartReadsFailed(a, o)
                    \/ PartNotOpened(a, o) \/ PartDirectory(a, o) \/ PartOpens(a, o)
                    \/ PartWritten(a, o) \/ LastPartWritten(a, o) \/ PartWriteFails(a, o)
                    \/ PartHasNoLookup(a, o) \/ PartSetsError(a, o)
             PROVE  /\ \E js \in SUBSET P : Creates(group, group', js)
                    /\ UNCHANGED call /\ todo' = todo /\ DOMAIN ctx' = DOMAIN ctx
  BY DEF PartNext
<1>0. IsShaped(group)
  BY GroupIsShaped DEF WriteInv, WriteShapes
<1>1. {} \in SUBSET P
  OBVIOUS
<1>2. ASSUME NEW f, NEW err, \/ ctx' = [ctx EXCEPT ![a].file = f, ![a].err = err]
                             \/ ctx' = [ctx EXCEPT ![a].file = f]
                             \/ ctx' = [ctx EXCEPT ![a].err = err]
                             \/ ctx' = [ctx EXCEPT ![a] = f]
                             \/ ctx' = ctx
      PROVE  DOMAIN ctx' = DOMAIN ctx
  BY <1>2
<1>3. ASSUME NEW err, PartOver(a, o, err)
      PROVE  /\ Creates(group, group', {})
             /\ UNCHANGED call /\ todo' = todo /\ DOMAIN ctx' = DOMAIN ctx
  BY <1>0, <1>2, <1>3, OperationsCreate DEF PartOver, partRest
<1>11. CASE PartAsserts(a, o)
  BY <1>1, <1>3, <1>11, PartAssertsIsOver
<1>4. CASE \/ PartAfterFailure(a, o) \/ PartCancelled(a, o) \/ PartReadsFailed(a, o)
           \/ PartNotOpened(a, o) \/ PartDirectory(a, o)
  BY <1>1, <1>3, <1>4, PartGivesUpIsOver
     DEF PartAfterFailure, PartCancelled, PartReadsFailed, PartNotOpened, PartDirectory
<1>5. CASE PartOpens(a, o)
  <2> DEFINE w == PartWrite(a, o)
             n == PartEnd(a, o)
             g == [group EXCEPT !.job[w] = "running"]
  <2>1. UNCHANGED call /\ todo' = todo /\ DOMAIN ctx' = DOMAIN ctx
    BY <1>2, <1>5 DEF PartOpens, partRest
  <2>2. Creates(group, g, {})
    <3> HIDE DEF w
    <3> QED
      BY <1>0, OperationsCreate
  <2>3. CASE IsLastPart(a, o)
    <3>1. group' = g
      BY <1>5, <2>3 DEF PartOpens
    <3> QED
      BY <1>1, <2>1, <2>2, <3>1
  <2>4. CASE ~IsLastPart(a, o)
    <3>1. group' = CreatePartialAssetWriteJob(g, a, n)
      BY <1>5, <2>4 DEF PartOpens
    <3>2. w \in P
      BY <1>5 DEF PartOpens, PartGoesOn, PartStarts, Planned
    <3>3. n < Len(AssetChunks(a))
      <4>1. AssetChunks(a) \in Seq(Nat)
        BY DEF WriteInv, JobsKnown, CallType
      <4>2. n \in o..Len(AssetChunks(a)) /\ Len(AssetChunks(a)) \in Nat
        BY <4>1, PartFacts
      <4> QED
        BY <2>4, <4>2 DEF IsLastPart
    <3>4. PartJobs(a, n) \in SUBSET P
      BY <3>2, <3>3 DEF Planned, PlanFrom
    <3> HIDE DEF n, g
    <3>5. Creates(g, group', PartJobs(a, n))
      BY <2>2, <3>1, PartIsCreated DEF Creates
    <3>6. Creates(group, group', PartJobs(a, n))
      BY <2>2, <3>5 DEF Creates
    <3> QED
      BY <2>1, <3>4, <3>6
  <2> QED
    BY <2>3, <2>4
<1>6. CASE PartWritten(a, o)
  BY <1>0, <1>1, <1>6, ReleaseCreates DEF PartWritten, partRest
<1>7. CASE LastPartWritten(a, o)
  <2>1. group' = EndJob(group, PartWrite(a, o)) /\ UNCHANGED <<call, todo>>
    BY <1>7 DEF LastPartWritten, PartEnds, partRest
  <2>2. DOMAIN ctx' = DOMAIN ctx
    BY <1>2, <1>7 DEF LastPartWritten
  <2> QED
    BY <1>0, <1>1, <2>1, <2>2, OperationsCreate
<1>8. CASE PartWriteFails(a, o)
  BY <1>0, <1>1, <1>2, <1>8, ReleaseCreates DEF PartWriteFails, PartEnds, partRest
<1>9. CASE PartHasNoLookup(a, o)
  BY <1>0, <1>1, <1>2, <1>9, ReleaseCreates DEF PartHasNoLookup, partRest
<1>10. CASE PartSetsError(a, o)
  <2>1. group' = EndJob(group, PartWrite(a, o)) /\ UNCHANGED <<call, todo>>
    BY <1>10 DEF PartSetsError, PartEnds, partRest
  <2>2. DOMAIN ctx' = DOMAIN ctx
    BY <1>2, <1>10 DEF PartSetsError
  <2> QED
    BY <1>0, <1>1, <2>1, <2>2, OperationsCreate
<1> QED
  BY <1>4, <1>5, <1>6, <1>7, <1>8, <1>9, <1>10, <1>11

(* The jobs that are created while assets are written were planned.        *)
LEMMA WriteAssetsPlanned == WriteInv /\ JobsPlanned /\ WriteAssetsNext => JobsPlanned'
<1> SUFFICES ASSUME WriteInv, NEW P, IsFiniteSet(P), Cardinality(P) <= group.reserved, Planned(P),
                    group.waiting => JobsAreCreated, WriteAssetsNext
             PROVE  JobsPlanned'
  BY DEF JobsPlanned
<1>1. /\ \E js \in SUBSET P : Creates(group, group', js)
      /\ UNCHANGED call /\ todo' = todo /\ DOMAIN ctx' = DOMAIN ctx
  <2>1. {} \in SUBSET P
    OBVIOUS
  <2> QED
    BY <2>1, JobStepPlanned, PartStepPlanned DEF WriteAssetsNext
<1>2. Planned(P)' /\ group'.reserved = group.reserved /\ group'.waiting = group.waiting
  BY <1>1, PlanKept DEF Creates
<1> QED
  BY <1>1, <1>2 DEF JobsPlanned, JobsAreCreated

(* So were those that WriteAssets itself creates.                          *)
LEMMA CreateJobsPlanned == WriteInv /\ JobsPlanned /\ CreateJobsNext => JobsPlanned'
<1> SUFFICES ASSUME WriteInv, NEW P, IsFiniteSet(P), Cardinality(P) <= group.reserved, Planned(P),
                    group.waiting => JobsAreCreated, CreateJobsNext
             PROVE  JobsPlanned'
  BY DEF JobsPlanned
<1>0. IsShaped(group) /\ todo = [blocks |-> todo.blocks, assets |-> todo.assets]
  BY GroupIsShaped DEF WriteInv, WriteShapes
<1>1. CASE CreateBlockJob
  <2>1. PICK b \in todo.blocks :
          /\ group' = ReadyJobs(AddDependencies(CreateJobs(group, {ReadJob(b), WriteJob(b)}),
                                                WriteJob(b), {ReadJob(b)}), {ReadJob(b)})
          /\ todo' = [todo EXCEPT !.blocks = todo.blocks \ {b}]
    BY <1>1 DEF CreateBlockJob
  <2> DEFINE js == {ReadJob(b), WriteJob(b)}
             r == {ReadJob(b)}
             c == CreateJobs(group, js)
             d == AddDependencies(c, WriteJob(b), r)
  <2>2. js \in SUBSET P
    BY DEF Planned
  <2> HIDE DEF js, r
  <2>3. Creates(group, c, js)
    BY <1>0, OperationsCreate
  <2> HIDE DEF c
  <2>4. Creates(c, d, {})
    <3>1. IsShaped(c)
      BY <2>3 DEF Creates
    <3> QED
      BY ONLY <3>1, OperationsCreate
  <2> HIDE DEF d
  <2>5. Creates(d, ReadyJobs(d, r), {})
    BY <2>4, OperationsCreate DEF Creates
  <2>6. Creates(group, group', js)
    BY <2>1, <2>3, <2>4, <2>5 DEF Creates, c, d, js, r
  <2>7. UNCHANGED <<call, ctx>> /\ todo'.blocks \subseteq todo.blocks /\ todo'.assets = todo.assets
    BY <1>0, <1>1, <2>1 DEF CreateBlockJob
  <2>8. Planned(P)' /\ group'.reserved = group.reserved /\ group'.waiting = group.waiting
    BY <2>2, <2>6, <2>7, PlanKept DEF Creates
  <2> QED
    BY <2>8 DEF JobsPlanned, JobsAreCreated
<1>2. CASE CreateAssetJob
  <2>1. PICK a \in todo.assets :
          /\ group' = ReadyJobs(CreatePartialAssetWriteJob(group, a, 0), {PartGate(a, 0)})
          /\ ctx' = Extend(ctx, {a}, [offset |-> 0, file |-> FALSE, err |-> "initial"])
          /\ todo' = [todo EXCEPT !.assets = todo.assets \ {a}]
    BY <1>2 DEF CreateAssetJob
  <2> DEFINE js == PartJobs(a, 0)
             c == CreatePartialAssetWriteJob(group, a, 0)
             gate == {PartGate(a, 0)}
  <2>2. js \in SUBSET P
    BY DEF Planned, PlanFrom
  <2>3. Creates(group, c, js)
    BY <1>0, PartIsCreated
  <2> HIDE DEF c, js, gate
  <2>4. Creates(c, ReadyJobs(c, gate), {})
    BY <2>3, OperationsCreate DEF Creates
  <2>5. Creates(group, group', js)
    BY <2>1, <2>3, <2>4 DEF Creates, c, gate
  <2>6. /\ UNCHANGED call /\ todo'.blocks = todo.blocks
        /\ todo'.assets \cup DOMAIN ctx' \subseteq todo.assets \cup DOMAIN ctx
    BY <1>0, <1>2, <2>1 DEF CreateAssetJob, Extend
  <2>7. Planned(P)' /\ group'.reserved = group.reserved /\ group'.waiting = group.waiting
    BY <2>2, <2>5, <2>6, PlanKept DEF Creates
  <2> QED
    BY <2>7 DEF JobsPlanned, JobsAreCreated
<1>3. CASE StartWaiting
  <2>1. /\ group'.reserved = group.reserved /\ Jobs(group') = Jobs(group)
        /\ JobsAreCreated /\ UNCHANGED call /\ todo' = todo /\ ctx' = ctx
    BY <1>0, <1>3, OperationsCreate DEF StartWaiting, contextVars
  <2> DEFINE js == {}
  <2>2. js \in SUBSET P /\ Jobs(group') = Jobs(group) \cup js
    BY <2>1
  <2> HIDE DEF js
  <2>3. Planned(P)'
    BY <2>1, <2>2, PlanKept
  <2> QED
    BY <2>1, <2>3 DEF JobsPlanned, JobsAreCreated
<1> QED
  BY <1>1, <1>2, <1>3 DEF CreateJobsNext

(* What WriteAssets reserves is enough for all block jobs and all parts.   *)
LEMMA ReservedFacts ==
    ASSUME CallType
    PROVE  /\ ReservedJobs \in Nat
           /\ \E P : /\ IsFiniteSet(P) /\ Cardinality(P) <= ReservedJobs
                     /\ \A b \in BlockJobs : ReadJob(b) \in P /\ WriteJob(b) \in P
                     /\ \A a \in AssetJobs : PlanFrom(a, 0, P)
<1> DEFINE A == {a \in call.assets : IsBlockJob(a)}
           sum == MapThenSumSet(AssetJobCount, AssetJobs)
           n == Cardinality(A)
           R == {ReadJob(b) : b \in BlockJobs}
           W == {WriteJob(b) : b \in BlockJobs}
<1>1. IsFiniteSet(A) /\ n \in Nat
  BY FS_Subset, FS_CardinalityType DEF CallType
<1>2. IsFiniteSet(AssetJobs) /\ \A a \in AssetJobs : AssetChunks(a) \in Seq(Nat)
  BY FS_Subset DEF CallType, AssetJobs
<1>3. /\ sum \in Nat
      /\ \E P : /\ IsFiniteSet(P) /\ Cardinality(P) <= sum
                /\ \A a \in AssetJobs : PlanFrom(a, 0, P)
                /\ OnlyPartsOf(P, AssetJobs)
  BY <1>2, JobSumFacts
<1> HIDE DEF sum
<1>4. PICK P : /\ IsFiniteSet(P) /\ Cardinality(P) <= sum
               /\ \A a \in AssetJobs : PlanFrom(a, 0, P)
               /\ OnlyPartsOf(P, AssetJobs)
  BY <1>3
<1>5. BlockJobs = {BlockFor(Head(AssetChunks(a))) : a \in A}
  BY DEF BlockJobs
<1>6. IsFiniteSet(R) /\ Cardinality(R) <= n
  <2> DEFINE f == [a \in A |-> ReadJob(BlockFor(Head(AssetChunks(a))))]
  <2>1. f \in Surjection(A, R)
    <3> HIDE DEF A
    <3> QED
      BY <1>5 DEF Surjection
  <2> HIDE DEF A, R, f
  <2> QED
    BY <1>1, <2>1, FS_Surjection
<1>7. IsFiniteSet(W) /\ Cardinality(W) <= n
  <2> DEFINE f == [a \in A |-> WriteJob(BlockFor(Head(AssetChunks(a))))]
  <2>1. f \in Surjection(A, W)
    <3> HIDE DEF A
    <3> QED
      BY <1>5 DEF Surjection
  <2> HIDE DEF A, W, f
  <2> QED
    BY <1>1, <2>1, FS_Surjection
<1>8. \A b \in BlockJobs : ReadJob(b) \in R /\ WriteJob(b) \in W
  OBVIOUS
<1>9. \A c, q : PartWrite(c, q) \notin R \cup W
  BY JobNames
<1>10. ReservedJobs = 2 * n + sum
  BY DEF ReservedJobs, sum
<1> HIDE DEF A, R, W, n
<1> DEFINE T == R \cup W
<1>11. IsFiniteSet(T) /\ Cardinality(T) <= n + n
  BY <1>1, <1>6, <1>7, UnionCount
<1>12. \A c, q : PartWrite(c, q) \notin T
  BY <1>9
<1>13. \A b \in BlockJobs : ReadJob(b) \in T /\ WriteJob(b) \in T
  BY <1>8
<1> HIDE DEF T
<1> DEFINE m == n + n
<1>14. m \in Nat /\ ReservedJobs = m + sum
  BY <1>1, <1>3, <1>10
<1>15. IsFiniteSet(T \cup P) /\ Cardinality(T \cup P) <= m + sum
  <2> HIDE DEF m
  <2>1. Cardinality(T) <= m
    BY <1>11 DEF m
  <2> QED
    BY <1>3, <1>4, <1>11, <1>14, <2>1, UnionCount
<1>16. \A a \in AssetJobs : PlanFrom(a, 0, T \cup P)
  BY <1>4, <1>12 DEF PlanFrom
<1> HIDE DEF m
<1> QED
  BY <1>3, <1>13, <1>14, <1>15, <1>16

(* The group is there, with no job.                                        *)
LEMMA StartWriteAssetsStep ==
    ASSUME CallType, DiskShape, StartWriteAssets
    PROVE  WriteInv' /\ JobsPlanned'
<1>1. /\ group' = NewGroup(ReservedJobs) /\ todo' = [blocks |-> BlockJobs, assets |-> AssetJobs]
      /\ reader' = <<>> /\ blockErr' = <<>> /\ ctx' = <<>> /\ part' = <<>>
      /\ UNCHANGED <<call, disk, overwritten>>
  BY DEF StartWriteAssets
<1>2. /\ IsGroup(group') /\ Counted(group') /\ Jobs(group') = {} /\ group'.reserved = ReservedJobs
  BY <1>1, ReservedFacts, NewGroupFacts
<1>3. /\ DOMAIN reader' = {} /\ DOMAIN blockErr' = {} /\ DOMAIN ctx' = {} /\ DOMAIN part' = {}
      /\ todo'.blocks = BlockJobs /\ todo'.assets = AssetJobs
  BY <1>1
<1>4. CallType' /\ Graph(group)'
  BY <1>1, <1>2, SamePlan DEF Graph
<1>5. WriteShapes' /\ DiskShape'
  BY <1>1, <1>2, <1>3 DEF WriteShapes, DiskShape
<1>6. JobsKnown'
  BY <1>1, <1>2, <1>3 DEF JobsKnown, AssetJobs
<1>7. WriteInv'
  BY <1>3, <1>4, <1>5, <1>6 DEF WriteInv
<1>8. PICK P : /\ IsFiniteSet(P) /\ Cardinality(P) <= ReservedJobs
               /\ \A b \in BlockJobs : ReadJob(b) \in P /\ WriteJob(b) \in P
               /\ \A a \in AssetJobs : PlanFrom(a, 0, P)
  BY ReservedFacts
<1>9. \A a : PlanFrom(a, 0, P)' <=> PlanFrom(a, 0, P)
  BY <1>1, SamePlan DEF PlanFrom, PartWrite
<1>10. \A b : ReadJob(b)' = ReadJob(b) /\ WriteJob(b)' = WriteJob(b)
  BY DEF ReadJob, WriteJob
<1>11. Planned(P)'
  BY <1>2, <1>3, <1>8, <1>9, <1>10 DEF Planned
<1>12. ~group'.waiting
  BY <1>1 DEF NewGroup
<1> QED
  BY <1>2, <1>7, <1>8, <1>11, <1>12 DEF JobsPlanned

(* There are never more jobs than were reserved.                           *)
LEMMA PlanFits ==
    IsGroup(group) /\ JobsPlanned => Cardinality(Jobs(group)) <= group.reserved
<1> SUFFICES ASSUME IsGroup(group), JobsPlanned PROVE Cardinality(Jobs(group)) <= group.reserved
  OBVIOUS
<1>1. PICK P : IsFiniteSet(P) /\ Cardinality(P) <= group.reserved /\ Planned(P)
  BY DEF JobsPlanned
<1>2. Jobs(group) \subseteq P
  BY <1>1 DEF Planned
<1>3. IsFiniteSet(Jobs(group)) /\ Cardinality(Jobs(group)) <= Cardinality(P)
  BY <1>1, <1>2, FS_Subset
<1>4. Cardinality(Jobs(group)) \in Nat /\ Cardinality(P) \in Nat /\ group.reserved \in Nat
  BY <1>1, <1>3, FS_CardinalityType DEF IsGroup
<1> QED
  BY <1>1, <1>3, <1>4

(* Cancelling creates no jobs, nor does a job that returns.                *)
LEMMA CancelPlanned ==
    ASSUME WriteInv, JobsPlanned,
           group' \in {group, CancelJobs(group)} \/ \E j : group' = ReturnJob(group, j),
           UNCHANGED <<call, ctx, todo>>
    PROVE  JobsPlanned'
<1>1. /\ group.waiting => JobsAreCreated
      /\ \E P : IsFiniteSet(P) /\ Cardinality(P) <= group.reserved /\ Planned(P)
  BY DEF JobsPlanned
<1>2. PICK P : IsFiniteSet(P) /\ Cardinality(P) <= group.reserved /\ Planned(P)
  BY <1>1
<1> DEFINE js == {}
<1>3. Creates(group, group', js)
  <2>1. IsShaped(group)
    BY GroupIsShaped DEF WriteInv, WriteShapes
  <2>2. CASE group' \in {group, CancelJobs(group)}
    BY <2>1, <2>2, OperationsCreate
  <2>3. CASE \E j : group' = ReturnJob(group, j)
    BY <2>1, <2>3, OperationsCreate
  <2> QED
    BY <2>2, <2>3
<1>4. js \in SUBSET P
  OBVIOUS
<1> HIDE DEF js
<1>5. Planned(P)' /\ group'.reserved = group.reserved /\ group'.waiting = group.waiting
  BY <1>2, <1>3, <1>4, PlanKept DEF Creates
<1> QED
  BY <1>1, <1>2, <1>5 DEF JobsPlanned, JobsAreCreated

--------------------------------------------------------------------------------
(* What the target folder holds *)

NewDir == [Nothing EXCEPT !.kind = "dir"]

(* Nothing changed outside of S, but for directories of the version that   *)
(* were made.                                                              *)
Leaves(d, e, S) ==
    \A p \in Paths \ S :
        \/ e[p] = d[p]
        \/ p \in DirPaths \cap DOMAIN call.version /\ d[p].kind = "none" /\ e[p] = NewDir

(* Two changes are one.                                                    *)
LEMMA LeavesMore ==
    ASSUME NEW d, NEW e, NEW f, NEW S, NEW T, NEW U, S \subseteq U, T \subseteq U,
           Leaves(d, e, S), Leaves(e, f, T)
    PROVE  Leaves(d, f, U)
<1>1. NewDir.kind = "dir"
  BY DEF NewDir, Nothing
<1> QED
  BY <1>1 DEF Leaves

(* The directories that are made are of the version, and nothing else is.  *)
LEMMA ParentsMade ==
    ASSUME IsTree(call.version), NEW d, NEW as, as \subseteq DOMAIN call.version
    PROVE  /\ Leaves(d, WithParents(d, as), {})
           /\ \A p \in Paths \ DirPaths : WithParents(d, as)[p] = d[p]
BY DEF IsTree, Leaves, WithParents, NewDir

(* One asset is replaced.                                                  *)
LEMMA OneAssetSet ==
    ASSUME NEW d, IsDisk(d), NEW a \in Paths, NEW x
    PROVE  /\ [d EXCEPT ![a].perm = x][a] = [d[a] EXCEPT !.perm = x]
           /\ [d EXCEPT ![a].chunks = x][a] = [d[a] EXCEPT !.chunks = x]
           /\ [d EXCEPT ![a].kind = x][a] = [d[a] EXCEPT !.kind = x]
           /\ \A p \in Paths \ {a} : /\ [d EXCEPT ![a].perm = x][p] = d[p]
                                     /\ [d EXCEPT ![a].chunks = x][p] = d[p]
                                     /\ [d EXCEPT ![a].kind = x][p] = d[p]
BY DEF IsDisk

(* What an asset is set to it is.                                          *)
LEMMA AssetFields ==
    ASSUME NEW r, IsAsset(r), NEW x
    PROVE  /\ [r EXCEPT !.perm = x].perm = x /\ [r EXCEPT !.perm = x].kind = r.kind
           /\ [r EXCEPT !.perm = x].chunks = r.chunks
           /\ [r EXCEPT !.chunks = x].chunks = x /\ [r EXCEPT !.chunks = x].kind = r.kind
           /\ [r EXCEPT !.chunks = x].perm = r.perm
           /\ [r EXCEPT !.kind = x].kind = x /\ [r EXCEPT !.kind = x].chunks = r.chunks
           /\ [r EXCEPT !.kind = x].perm = r.perm
BY DEF IsAsset

(* A file that is made writable is the only one that changes.              *)
LEMMA WritableFacts ==
    ASSUME NEW d, IsDisk(d), NEW a \in Paths
    PROVE  /\ IsDisk(MadeWritable(d, a))
           /\ \A p \in Paths \ {a} : MadeWritable(d, a)[p] = d[p]
<1>1. IsDisk(MadeWritable(d, a))
  BY DiskSteps
<1>2. \A p \in Paths \ {a} : [d EXCEPT ![a].perm = "rw"][p] = d[p]
  BY OneAssetSet
<1> QED
  BY <1>1, <1>2 DEF MadeWritable

(* A file that is opened is empty or has holes.                            *)
LEMMA OpenedFacts ==
    ASSUME IsTree(call.version), NEW d, IsDisk(d), NEW a \in Paths \cap DOMAIN call.version, NEW n
    PROVE  /\ Opened(d, a, n)[a].kind = "file"
           /\ n = 0 => Opened(d, a, n)[a].chunks = <<>>
           /\ n \in Nat => /\ Opened(d, a, n)[a].chunks \in Seq(Nat)
                           /\ Len(Opened(d, a, n)[a].chunks) = n
           /\ Leaves(d, Opened(d, a, n), {a})
           /\ IsDisk(Opened(d, a, n))
<1> DEFINE f == WithParents(d, {a})
           g == MadeWritable(f, a)
           h == [g EXCEPT ![a].kind = "file"]
           holes == [i \in 1..n |-> 0]
           e == [h EXCEPT ![a].chunks = holes]
<1>1. IsDisk(f) /\ Leaves(d, f, {})
  BY DiskSteps, ParentsMade
<1>2. Opened(d, a, n) = e
  <2>1. IsDisk(g)
    <3> HIDE DEF f
    <3> QED
      BY <1>1, DiskSteps
  <2> HIDE DEF g, holes
  <2>2. [g EXCEPT ![a].kind = "file", ![a].chunks = holes] = e
    BY <2>1 DEF IsDisk
  <2> QED
    BY <2>2 DEF Opened, g, holes
<1> HIDE DEF f, holes
<1>3. IsDisk(g) /\ \A p \in Paths \ {a} : g[p] = f[p]
  BY <1>1, WritableFacts
<1> HIDE DEF g
<1>4. IsDisk(h) /\ h[a].kind = "file" /\ \A p \in Paths \ {a} : h[p] = g[p]
  <2>1. IsAsset(g[a])
    BY <1>3 DEF IsDisk
  <2>2. h[a] = [g[a] EXCEPT !.kind = "file"] /\ \A p \in Paths \ {a} : h[p] = g[p]
    BY <1>3 DEF IsDisk
  <2>3. IsDisk(h)
    BY <1>3, DiskChanges
  <2>4. [g[a] EXCEPT !.kind = "file"].kind = "file"
    BY <2>1, AssetFields
  <2> QED
    BY <2>2, <2>3, <2>4
<1> HIDE DEF h
<1>5. /\ IsDisk(e) /\ e[a].kind = "file" /\ e[a].chunks = holes
      /\ \A p \in Paths \ {a} : e[p] = h[p]
  <2>1. IsAsset(h[a])
    BY <1>4 DEF IsDisk
  <2>2. e[a] = [h[a] EXCEPT !.chunks = holes] /\ \A p \in Paths \ {a} : e[p] = h[p]
    BY <1>4 DEF IsDisk
  <2>3. IsDisk(e)
    BY <1>4, DiskChanges
  <2>4. /\ [h[a] EXCEPT !.chunks = holes].chunks = holes
        /\ [h[a] EXCEPT !.chunks = holes].kind = h[a].kind
    BY <2>1, AssetFields
  <2> QED
    BY <1>4, <2>2, <2>3, <2>4
<1>6. Leaves(d, e, {a})
  BY <1>1, <1>3, <1>4, <1>5 DEF Leaves
<1>7. (n = 0 => holes = <<>>) /\ (n \in Nat => holes \in Seq(Nat) /\ Len(holes) = n)
  BY DEF holes
<1> QED
  BY <1>2, <1>5, <1>6, <1>7

(* An asset that cannot be opened leaves the others alone.                 *)
LEMMA NotOpenedFacts ==
    ASSUME IsTree(call.version), NEW d, IsDisk(d), NEW a \in Paths \cap DOMAIN call.version,
           NEW e \in NotOpened(d, a)
    PROVE  Leaves(d, e, {a}) /\ IsDisk(e)
<1>1. IsDisk(WithParents(d, {a})) /\ Leaves(d, WithParents(d, {a}), {})
  BY DiskSteps, ParentsMade
<1>2. /\ IsDisk(MadeWritable(WithParents(d, {a}), a))
      /\ \A p \in Paths \ {a} : MadeWritable(WithParents(d, {a}), a)[p] = WithParents(d, {a})[p]
  BY <1>1, WritableFacts
<1> QED
  BY <1>1, <1>2 DEF NotOpened, Leaves

--------------------------------------------------------------------------------
(* The data of a file *)

(* The block of each chunk of the asset has its data.                      *)
DataIsThere(a) ==
    /\ AssetChunks(a) \in Seq(Nat)
    /\ \A i \in 1..Len(AssetChunks(a)) : DataOf(AssetChunks(a)[i]) = AssetChunks(a)[i]

(* The file of asset a is as long as it should be, and has its first n     *)
(* chunks.                                                                 *)
Holds(d, a, n) ==
    /\ d[a].kind = "file" /\ d[a].chunks \in Seq(Nat)
    /\ Len(d[a].chunks) = Len(AssetChunks(a))
    /\ \A i \in 1..n : d[a].chunks[i] = AssetChunks(a)[i]

(* The file of asset a is what it should be.                               *)
Whole(d, a) ==
    /\ d[a].kind = "file" /\ d[a].chunks = AssetChunks(a)
    /\ call.retain => d[a].perm = call.version[a].perm

(* Chunks are written after those that are there; to an empty file all.    *)
LEMMA FileGrows ==
    ASSUME NEW a, DataIsThere(a), NEW old \in Seq(Nat),
           NEW o \in 0..Len(AssetChunks(a)), NEW e \in o..Len(AssetChunks(a)),
           \/ Len(old) = Len(AssetChunks(a))
           \/ old = <<>> /\ o = 0 /\ e = Len(AssetChunks(a)),
           \A i \in 1..o : old[i] = AssetChunks(a)[i]
    PROVE  /\ FileData(old, a, o, e) \in Seq(Nat)
           /\ Len(FileData(old, a, o, e)) = Len(AssetChunks(a))
           /\ \A i \in 1..e : FileData(old, a, o, e)[i] = AssetChunks(a)[i]
           /\ e = Len(AssetChunks(a)) => FileData(old, a, o, e) = AssetChunks(a)
<1> DEFINE new == AssetChunks(a)
           n == Len(new)
           r == FileData(old, a, o, e)
<1>0. new \in Seq(Nat) /\ n \in Nat /\ o \in Nat /\ e \in Nat /\ o <= e /\ e <= n
      /\ \A i \in 1..n : DataOf(new[i]) = new[i] /\ new[i] \in Nat
  BY SMTT(30) DEF DataIsThere
<1>1. (IF Len(old) > e THEN Len(old) ELSE e) = n
  BY <1>0
<1>2. r = [i \in 1..n |-> IF i > o /\ i <= e THEN DataOf(new[i]) ELSE old[i]]
  BY <1>1 DEF FileData
<1> HIDE DEF r, new
<1>3. \A i \in 1..n : r[i] \in Nat /\ (i <= e => r[i] = new[i])
  <2> TAKE i \in 1..n
  <2>1. CASE i > o /\ i <= e
    BY <1>0, <1>2, <2>1
  <2>2. CASE i <= o
    <3>1. r[i] = old[i]
      BY <1>0, <1>2, <2>2
    <3>2. old[i] = new[i]
      BY <1>0, <2>2 DEF new
    <3> QED
      BY <1>0, <3>1, <3>2
  <2>3. CASE i > e
    <3>1. r[i] = old[i] /\ i \in 1..Len(old)
      BY <1>0, <1>2, <2>3 DEF new
    <3> QED
      <4>1. e \in Nat /\ i \in 1..n /\ old[i] \in Nat
        BY <1>0, <3>1
      <4> QED
        BY ONLY <2>3, <3>1, <4>1
  <2> QED
    BY <1>0, <2>1, <2>2, <2>3
<1>4. r \in Seq(Nat) /\ Len(r) = n
  <2> DEFINE q == [i \in 1..n |-> r[i]]
  <2>1. r = q
    BY <1>2
  <2>2. q \in Seq(Nat) /\ Len(q) = n
    BY <1>0, <1>3
  <2> QED
    BY <2>1, <2>2
<1>5. ASSUME e = n PROVE r = new
  <2>1. r = [i \in 1..n |-> r[i]] /\ new = [i \in 1..n |-> new[i]]
    BY <1>0, <1>4
  <2>2. \A i \in 1..n : r[i] = new[i]
    BY <1>0, <1>3, <1>5
  <2> QED
    BY <2>1, <2>2
<1> QED
  BY <1>0, <1>3, <1>4, <1>5 DEF r, new

(* Of a folder in which one asset is written nothing else changes.         *)
LEMMA WrittenElsewhere ==
    ASSUME NEW d, IsDisk(d), NEW a \in Paths, NEW o, NEW e
    PROVE  /\ IsDisk(Written(d, a, o, e)) /\ Leaves(d, Written(d, a, o, e), {a})
           /\ Written(d, a, o, e)[a].kind = d[a].kind
           /\ Written(d, a, o, e)[a].chunks = FileData(d[a].chunks, a, o, e)
<1> DEFINE x == FileData(d[a].chunks, a, o, e)
           f == [d EXCEPT ![a].chunks = x]
<1>1. Written(d, a, o, e) = f
  <2>1. d = [p \in Paths |-> d[p]]
    BY DEF IsDisk
  <2> QED
    BY <2>1 DEF Written
<1> HIDE DEF x
<1>2. f[a] = [d[a] EXCEPT !.chunks = x] /\ \A p \in Paths \ {a} : f[p] = d[p]
  BY DEF IsDisk
<1>3. /\ [d[a] EXCEPT !.chunks = x].chunks = x
      /\ [d[a] EXCEPT !.chunks = x].kind = d[a].kind
  BY AssetFields DEF IsDisk
<1>4. IsDisk(f)
  BY DiskChanges
<1> HIDE DEF f
<1> QED
  BY <1>1, <1>2, <1>3, <1>4 DEF Leaves, x

(* A part goes on where the part before it ended.                          *)
LEMMA WrittenFacts ==
    ASSUME NEW d, IsDisk(d), NEW a \in Paths, DataIsThere(a),
           NEW o \in 0..Len(AssetChunks(a)), NEW e \in o..Len(AssetChunks(a)), Holds(d, a, o)
    PROVE  /\ IsDisk(Written(d, a, o, e)) /\ Leaves(d, Written(d, a, o, e), {a})
           /\ Holds(Written(d, a, o, e), a, e)
<1>1. /\ FileData(d[a].chunks, a, o, e) \in Seq(Nat)
      /\ Len(FileData(d[a].chunks, a, o, e)) = Len(AssetChunks(a))
      /\ \A i \in 1..e : FileData(d[a].chunks, a, o, e)[i] = AssetChunks(a)[i]
  <2> DEFINE old == d[a].chunks
  <2>1. old \in Seq(Nat) /\ Len(old) = Len(AssetChunks(a)) /\ \A i \in 1..o : old[i] = AssetChunks(a)[i]
    BY DEF Holds
  <2> HIDE DEF old
  <2>2. /\ FileData(old, a, o, e) \in Seq(Nat)
        /\ Len(FileData(old, a, o, e)) = Len(AssetChunks(a))
        /\ \A i \in 1..e : FileData(old, a, o, e)[i] = AssetChunks(a)[i]
    BY <2>1, FileGrows
  <2> QED
    BY <2>2 DEF old
<1>2. \A p, q : /\ IsDisk(Written(d, a, p, q)) /\ Leaves(d, Written(d, a, p, q), {a})
                /\ Written(d, a, p, q)[a].kind = d[a].kind
                /\ Written(d, a, p, q)[a].chunks = FileData(d[a].chunks, a, p, q)
  BY WrittenElsewhere
<1>3. d[a].kind = "file"
  BY DEF Holds
<1> QED
  BY ONLY <1>1, <1>2, <1>3 DEF Holds

(* The permissions of a file that has all its chunks are set at last.      *)
LEMMA PermittedFacts ==
    ASSUME NEW d, IsDisk(d), NEW a \in Paths, d[a].kind = "file", d[a].chunks = AssetChunks(a)
    PROVE  Whole(Permitted(d, a), a) /\ Leaves(d, Permitted(d, a), {a})
<1> DEFINE x == call.version[a].perm
           f == [d EXCEPT ![a].perm = x]
<1>1. CASE call.retain
  <2>1. Permitted(d, a) = f
    BY <1>1 DEF Permitted
  <2> HIDE DEF x
  <2>2. f[a] = [d[a] EXCEPT !.perm = x] /\ \A p \in Paths \ {a} : f[p] = d[p]
    BY DEF IsDisk
  <2>3. /\ [d[a] EXCEPT !.perm = x].perm = x /\ [d[a] EXCEPT !.perm = x].kind = d[a].kind
        /\ [d[a] EXCEPT !.perm = x].chunks = d[a].chunks
    BY AssetFields DEF IsDisk
  <2> HIDE DEF f
  <2> QED
    BY <2>1, <2>2, <2>3 DEF Leaves, Whole, x
<1>2. CASE ~call.retain
  BY <1>2 DEF Permitted, Leaves, Whole
<1> QED
  BY <1>1, <1>2

(* A file that holds all its chunks has no others.                         *)
LEMMA HoldsAll ==
    ASSUME NEW d, NEW a, AssetChunks(a) \in Seq(Nat), Holds(d, a, Len(AssetChunks(a)))
    PROVE  d[a].kind = "file" /\ d[a].chunks = AssetChunks(a)
<1> DEFINE r == d[a].chunks
           new == AssetChunks(a)
           n == Len(new)
<1>1. r \in Seq(Nat) /\ new \in Seq(Nat) /\ Len(r) = n /\ \A i \in 1..n : r[i] = new[i]
  BY DEF Holds
<1> HIDE DEF r, new
<1>2. r = [i \in 1..n |-> r[i]] /\ new = [i \in 1..n |-> new[i]]
  BY <1>1
<1>3. r = new
  BY <1>1, <1>2
<1> QED
  BY <1>3 DEF r, new, Holds

(* What a block job does to one of its assets.                             *)
LEMMA BlockAsset ==
    ASSUME IsTree(call.version), NEW d, IsDisk(d), NEW a \in Paths \cap DOMAIN call.version,
           DataIsThere(a)
    PROVE  LET f == Written(Opened(d, a, 0), a, 0, Len(AssetChunks(a))) IN
           Whole(Permitted(f, a), a) /\ Leaves(d, Permitted(f, a), {a})
<1> DEFINE g == Opened(d, a, 0)
           n == Len(AssetChunks(a))
           f == Written(g, a, 0, n)
<1>1. g[a].kind = "file" /\ g[a].chunks = <<>> /\ Leaves(d, g, {a}) /\ IsDisk(g)
  BY OpenedFacts
<1> HIDE DEF g
<1>3. FileData(<<>>, a, 0, n) = AssetChunks(a)
  <2>1. n \in Nat /\ 0 \in 0..n /\ n \in 0..n
    BY DEF DataIsThere
  <2>2. <<>> \in Seq(Nat) /\ \A i \in 1..0 : <<>>[i] = AssetChunks(a)[i]
    OBVIOUS
  <2> QED
    BY <2>1, <2>2, FileGrows
<1>4. f[a].kind = "file" /\ f[a].chunks = AssetChunks(a) /\ Leaves(g, f, {a}) /\ IsDisk(f)
  <2>1. /\ IsDisk(f) /\ Leaves(g, f, {a}) /\ f[a].kind = g[a].kind
        /\ f[a].chunks = FileData(g[a].chunks, a, 0, n)
    BY <1>1, WrittenElsewhere, SMTT(30)
  <2> QED
    BY ONLY <1>1, <1>3, <2>1
<1> HIDE DEF f
<1>5. Whole(Permitted(f, a), a) /\ Leaves(f, Permitted(f, a), {a})
  BY <1>4, PermittedFacts
<1>6. Leaves(d, f, {a})
  BY <1>1, <1>4, LeavesMore
<1>7. Leaves(d, Permitted(f, a), {a})
  BY <1>5, <1>6, LeavesMore
<1> QED
  BY <1>5, <1>7 DEF f, g

(* A block job that fails leaves other assets than the one it fails at as  *)
(* they were.                                                              *)
LEMMA HalfWrittenFacts ==
    ASSUME IsTree(call.version), NEW d, IsDisk(d), NEW a \in Paths \cap DOMAIN call.version,
           NEW e \in HalfWritten(d, a)
    PROVE  Leaves(d, e, {a})
<1>1. CASE e \in NotOpened(d, a)
  BY <1>1, NotOpenedFacts
<1>2. CASE e \notin NotOpened(d, a)
  <2> DEFINE g == Opened(d, a, 0)
  <2>1. PICK n : e = Written(g, a, 0, n)
    BY <1>2 DEF HalfWritten
  <2>2. Leaves(d, g, {a}) /\ IsDisk(g)
    BY OpenedFacts
  <2> HIDE DEF g
  <2>3. Leaves(g, e, {a})
    BY <2>1, <2>2, WrittenElsewhere
  <2> QED
    BY <2>2, <2>3, LeavesMore
<1> QED
  BY <1>1, <1>2

(* Some assets of a block are written, and nothing else.                   *)
LEMMA BlockWrites ==
    ASSUME IsTree(call.version), IsDisk(disk), NEW as, as \subseteq Paths \cap DOMAIN call.version,
           \A a \in as : DataIsThere(a)
    PROVE  /\ Leaves(disk, WithAssets(as), as)
           /\ \A a \in as : Whole(WithAssets(as), a)
<1>1. ASSUME NEW a \in as PROVE Whole(WithAssets(as), a)
  <2> DEFINE f == Written(Opened(disk, a, 0), a, 0, Len(AssetChunks(a)))
  <2>1. Whole(Permitted(f, a), a)
    BY BlockAsset
  <2>2. WithAssets(as)[a] = Permitted(f, a)[a]
    BY DEF WithAssets
  <2> HIDE DEF f
  <2> QED
    BY <2>1, <2>2 DEF Whole
<1>2. Leaves(disk, WithAssets(as), as)
  <2>1. Leaves(disk, WithParents(disk, as), {})
    BY ParentsMade
  <2>2. \A p \in Paths \ as : WithAssets(as)[p] = WithParents(disk, as)[p]
    BY DEF WithAssets
  <2> QED
    BY <2>1, <2>2 DEF Leaves
<1> QED
  BY <1>1, <1>2

(* A directory is made where nothing is.                                   *)
LEMMA DirectoryMade ==
    ASSUME IsTree(call.version), NEW d, IsDisk(d), NEW a \in DirPaths \cap DOMAIN call.version,
           a \in Paths, d[a].kind \in {"none", "dir"},
           NEW e, e = [WithParents(d, {a}) EXCEPT
                         ![a] = IF @.kind = "none" THEN [Nothing EXCEPT !.kind = "dir"] ELSE @]
    PROVE  Leaves(d, e, {}) /\ e[a].kind = "dir"
<1> DEFINE f == WithParents(d, {a})
<1>1. IsDisk(f) /\ Leaves(d, f, {})
  BY DiskSteps, ParentsMade
<1>2. NewDir.kind = "dir"
  BY DEF NewDir, Nothing
<1>3. f[a] = d[a] \/ (d[a].kind = "none" /\ f[a] = NewDir)
  BY <1>1 DEF Leaves
<1> HIDE DEF f
<1>4. /\ e[a] = IF f[a].kind = "none" THEN NewDir ELSE f[a]
      /\ \A p \in Paths \ {a} : e[p] = f[p]
  BY <1>1 DEF IsDisk, NewDir, f
<1> QED
  BY <1>1, <1>2, <1>3, <1>4 DEF Leaves

--------------------------------------------------------------------------------
(* The data of the folder while assets are written *)

(* The version is that of a folder, and the chunks of its assets are       *)
(* stored.                                                                 *)
SourceFits ==
    /\ IsTree(call.version) /\ call.assets \subseteq DOMAIN call.version
    /\ \A a \in call.assets : DataIsThere(a)

(* The directories of the write list are there, or nothing is.             *)
DirsFit(d) ==
    \A p \in call.assets \cap DirPaths : d[p].kind \in {"none", "dir"} /\ d[p].chunks = <<>>

(* Each asset of the write list has its job, or will have one.             *)
WorkKnown ==
    /\ todo.blocks \cup DOMAIN blockErr = BlockJobs
    /\ todo.assets \cup DOMAIN ctx = AssetJobs

(* An error of the asset is known, will be, or was overwritten.            *)
Failed(a) ==
    \/ ctx[a].err \in {"failed", "cancelled"}
    \/ a \in overwritten
    \/ \E o : InPart(a, o, "failed")

NoPart(a) == \A o : PartWrite(a, o) \notin DOMAIN part
Untouched(a) == ctx[a].offset = 0 /\ ctx[a].err = "initial" /\ NoPart(a)

(* The chunks before n are written: those before the part that is being    *)
(* written, and of the next one when none is.                              *)
WrittenTo(a, n) ==
    InPart(a, n, "writing") \/ (n = ctx[a].offset /\ \A o : ~InPart(a, o, "writing"))

(* A file that is open has all chunks of the parts that are over, one that *)
(* was closed without an error has all.                                    *)
FileKept(a) ==
    /\ ctx[a].file => \A n : WrittenTo(a, n) => Holds(disk, a, n)
    /\ ~ctx[a].file => Untouched(a) \/ Whole(disk, a) \/ Failed(a)

(* A directory has no parts.                                               *)
DirKept(a) == NoPart(a) /\ (ctx[a].err = "ok" => disk[a].kind = "dir")

BlockKept(b) == blockErr[b] = "ok" => \A a \in BlockJobAssets(b) : Whole(disk, a)

DataInv ==
    /\ SourceFits /\ WorkKnown /\ DirsFit(disk)
    /\ \A b \in DOMAIN blockErr : BlockKept(b)
    /\ \A a \in DOMAIN ctx : IF a \in DirPaths THEN DirKept(a) ELSE FileKept(a)

(* What is to be written depends on the call and the store only.           *)
LEMMA SameWork ==
    ASSUME UNCHANGED <<call, store>>
    PROVE  /\ SourceFits' <=> SourceFits
           /\ DirsFit(disk)' <=> DirsFit(disk')
           /\ BlockJobs' = BlockJobs /\ AssetJobs' = AssetJobs
           /\ \A b : BlockJobAssets(b)' = BlockJobAssets(b)
           /\ \A a : Whole(disk, a)' <=> Whole(disk', a)
           /\ \A a, n : Holds(disk, a, n)' <=> Holds(disk', a, n)
<1>1. \A a : AssetChunks(a)' = AssetChunks(a)
  BY DEF AssetChunks
<1>2. \A h : BlockFor(h)' = BlockFor(h)
  BY DEF BlockFor
<1>3. \A h : DataOf(h)' = DataOf(h)
  BY <1>2 DEF DataOf, SelectInSeq
<1>4. \A a : DataIsThere(a)' <=> DataIsThere(a)
  BY <1>1, <1>3 DEF DataIsThere
<1>5. SourceFits' <=> SourceFits
  BY <1>4 DEF SourceFits, IsTree
<1>6. \A a : IsBlockJob(a)' <=> IsBlockJob(a)
  BY <1>1, <1>2 DEF IsBlockJob
<1>7. /\ BlockJobs' = BlockJobs /\ AssetJobs' = AssetJobs
      /\ \A b : BlockJobAssets(b)' = BlockJobAssets(b)
  BY <1>1, <1>2, <1>6 DEF BlockJobs, AssetJobs, BlockJobAssets
<1>8. \A a : Whole(disk, a)' <=> Whole(disk', a)
  BY <1>1 DEF Whole
<1>9. \A a, n : Holds(disk, a, n)' <=> Holds(disk', a, n)
  BY <1>1 DEF Holds
<1>10. DirsFit(disk)' <=> DirsFit(disk')
  BY DEF DirsFit
<1> QED
  BY <1>5, <1>7, <1>8, <1>9, <1>10

(* What is left as it was has what it had.                                 *)
LEMMA LeftAlone ==
    ASSUME NEW d, NEW e, NEW S, Leaves(d, e, S), NEW a \in Paths \ S
    PROVE  /\ a \notin DirPaths => /\ Whole(d, a) => Whole(e, a)
                                  /\ \A n : Holds(d, a, n) => Holds(e, a, n)
           /\ d[a].kind = "dir" => e[a].kind = "dir"
<1>1. e[a] = d[a] \/ (a \in DirPaths /\ d[a].kind = "none" /\ e[a] = NewDir)
  BY DEF Leaves
<1> QED
  BY <1>1 DEF Whole, Holds

(* Directories still fit if those that are set do.                         *)
LEMMA DirsLeftAlone ==
    ASSUME NEW d, NEW e, NEW S, Leaves(d, e, S), DirsFit(d), call.assets \subseteq Paths,
           \A p \in S \cap DirPaths : e[p].kind \in {"none", "dir"} /\ e[p].chunks = <<>>
    PROVE  DirsFit(e)
<1>1. NewDir.kind = "dir" /\ NewDir.chunks = <<>>
  BY DEF NewDir, Nothing
<1> QED
  BY <1>1 DEF DirsFit, Leaves

(* Assets of block jobs are files.                                         *)
LEMMA BlockAssets ==
    ASSUME DataInv, CallType, NEW b, NEW a \in BlockJobAssets(b)
    PROVE  /\ a \in call.assets /\ a \in Paths \ DirPaths /\ a \notin AssetJobs /\ a \in DOMAIN call.version
           /\ DataIsThere(a)
<1>1. a \in call.assets /\ IsBlockJob(a) /\ a \in Paths
  BY DEF BlockJobAssets, CallType
<1>2. a \in DOMAIN call.version /\ DataIsThere(a)
  BY <1>1 DEF DataInv, SourceFits
<1>3. a \notin DirPaths
  BY <1>1, <1>2 DEF DataInv, SourceFits, IsTree, IsBlockJob, AssetChunks
<1> QED
  BY <1>1, <1>2, <1>3 DEF AssetJobs

(* Steps that leave the data, and what is known of it, alone.              *)
LEMMA DataStays ==
    ASSUME WriteInv, DataInv, UNCHANGED <<call, store, disk, blockErr, ctx, part, todo, overwritten>>
    PROVE  DataInv' /\ Leaves(disk, disk', call.assets)
<1>1. \A a : /\ NoPart(a)' <=> NoPart(a)
             /\ Failed(a)' <=> Failed(a)
             /\ \A n : WrittenTo(a, n)' <=> WrittenTo(a, n)
  BY DEF NoPart, Failed, WrittenTo, InPart, PartWrite
<1>2. \A a : DirKept(a)' <=> DirKept(a)
  BY <1>1 DEF DirKept
<1>3. \A a : FileKept(a)' <=> FileKept(a)
  BY <1>1, SameWork DEF FileKept, Untouched
<1>4. \A b : BlockKept(b)' <=> BlockKept(b)
  BY SameWork DEF BlockKept
<1>5. WorkKnown' /\ SourceFits' /\ DirsFit(disk)'
  BY SameWork DEF WorkKnown, DataInv
<1> QED
  BY <1>2, <1>3, <1>4, <1>5 DEF DataInv, Leaves

(* A block job ends: its assets are written, or some of them are.          *)
LEMMA BlockJobData ==
    WriteInv /\ DataInv /\ BlockJobNext => DataInv' /\ Leaves(disk, disk', call.assets)
<1> SUFFICES ASSUME WriteInv, DataInv, NEW b \in DOMAIN blockErr,
                    \/ BlockReadFailed(b) \/ BlockCancelled(b)
                    \/ BlockWritten(b) \/ BlockNotWritten(b)
             PROVE  DataInv' /\ Leaves(disk, disk', call.assets)
  BY DEF BlockJobNext
<1> DEFINE as == BlockJobAssets(b)
<1>1. /\ UNCHANGED <<call, store, ctx, part, todo, overwritten>>
      /\ \E err : blockErr' = [blockErr EXCEPT ![b] = err]
  BY DEF BlockReadFailed, BlockCancelled, BlockWritten, BlockNotWritten, BlockJobEnds, BlockJobGoesOn,
         blockRest, uploadVars
<1>2. CallType /\ IsDisk(disk) /\ call.assets \subseteq Paths /\ IsTree(call.version)
  BY DEF WriteInv, DiskShape, CallType, DataInv, SourceFits
<1>3. \A a \in as : /\ a \in call.assets /\ a \in Paths \ DirPaths /\ a \notin AssetJobs
                    /\ a \in DOMAIN call.version /\ DataIsThere(a)
  BY <1>2, BlockAssets
<1>4. Leaves(disk, disk', as)
  <2>1. CASE disk' = disk
    BY <2>1 DEF Leaves
  <2>2. CASE BlockWritten(b)
    BY <1>2, <1>3, <2>2, BlockWrites DEF BlockWritten
  <2>3. CASE BlockNotWritten(b)
    <3>0. PICK a \in as :
            \E before \in SUBSET (as \ {a}) : disk' \in HalfWritten(WithAssets(before), a)
      BY <2>3 DEF BlockNotWritten
    <3>1. PICK before \in SUBSET (as \ {a}) : disk' \in HalfWritten(WithAssets(before), a)
      BY <3>0
    <3> DEFINE d == WithAssets(before)
    <3>2. Leaves(disk, d, before)
      BY <1>2, <1>3, BlockWrites
    <3>3. IsDisk(d)
      BY <1>2, <1>3, BlockDisk
    <3> HIDE DEF d
    <3>4. Leaves(d, disk', {a})
      BY <1>2, <1>3, <3>1, <3>3, HalfWrittenFacts DEF d
    <3> QED
      BY <3>2, <3>4, LeavesMore
  <2> QED
    BY <2>1, <2>2, <2>3 DEF BlockReadFailed, BlockCancelled
<1>5. blockErr'[b] = "ok" => \A a \in as : Whole(disk', a)
  <2>1. CASE BlockWritten(b)
    BY <1>2, <1>3, <2>1, BlockWrites DEF BlockWritten
  <2>2. CASE BlockCancelled(b) \/ BlockNotWritten(b)
    BY <2>2 DEF BlockCancelled, BlockNotWritten, BlockJobEnds
  <2>3. CASE BlockReadFailed(b)
    BY <2>3 DEF BlockReadFailed, BlockJobEnds
  <2> QED
    BY <2>1, <2>2, <2>3
<1>6. ASSUME NEW c \in DOMAIN blockErr PROVE BlockKept(c)'
  <2>1. CASE c = b
    BY <1>1, <1>5, <2>1, SameWork DEF BlockKept
  <2>2. CASE c # b
    <3>1. blockErr'[c] = blockErr[c] /\ BlockKept(c)
      BY <1>1, <2>2 DEF DataInv
    <3>2. ASSUME NEW a \in BlockJobAssets(c) PROVE a \in Paths \ as /\ a \notin DirPaths
      <4>1. a \in Paths \ DirPaths
        BY <1>2, BlockAssets
      <4>2. a \notin as
        BY <2>2 DEF BlockJobAssets
      <4> QED
        BY <4>1, <4>2
    <3>3. \A a \in BlockJobAssets(c) : Whole(disk, a) => Whole(disk', a)
      BY <1>4, <3>2, LeftAlone
    <3> QED
      BY <1>1, <3>1, <3>3, SameWork DEF BlockKept
  <2> QED
    BY <2>1, <2>2
<1>7. ASSUME NEW a \in DOMAIN ctx PROVE (IF a \in DirPaths THEN DirKept(a) ELSE FileKept(a))'
  <2>1. a \in AssetJobs /\ a \in Paths \ as
    BY <1>2, <1>3 DEF DataInv, WorkKnown, AssetJobs
  <2>2. /\ NoPart(a)' <=> NoPart(a)
        /\ Failed(a)' <=> Failed(a)
        /\ \A n : WrittenTo(a, n)' <=> WrittenTo(a, n)
    BY <1>1 DEF NoPart, Failed, WrittenTo, InPart, PartWrite
  <2>3. CASE a \in DirPaths
    <3>1. DirKept(a)
      BY <2>3 DEF DataInv
    <3> QED
      BY <1>1, <1>4, <2>1, <2>2, <2>3, <3>1, LeftAlone DEF DirKept
  <2>4. CASE a \notin DirPaths
    <3>1. FileKept(a)
      BY <2>4 DEF DataInv
    <3>2. (Whole(disk, a) => Whole(disk', a)) /\ \A n : Holds(disk, a, n) => Holds(disk', a, n)
      BY <1>4, <2>1, <2>4, LeftAlone
    <3> QED
      BY <1>1, <2>2, <2>4, <3>1, <3>2, SameWork DEF FileKept, Untouched
  <2> QED
    BY <2>3, <2>4
<1>8. DirsFit(disk')
  BY <1>2, <1>3, <1>4, DirsLeftAlone DEF DataInv
<1>9. WorkKnown'
  BY <1>1, SameWork DEF WorkKnown, DataInv
<1>10. Leaves(disk, disk', call.assets)
  BY <1>3, <1>4 DEF Leaves
<1> QED
  BY <1>1, <1>6, <1>7, <1>8, <1>9, <1>10, SameWork DEF DataInv

(* A step of one asset's part: it changes the folder, the context and the  *)
(* parts of that asset.                                                    *)
OnlyAsset(a) ==
    /\ UNCHANGED <<call, store, blockErr, todo>>
    /\ DOMAIN ctx' = DOMAIN ctx
    /\ \A c \in DOMAIN ctx \ {a} : ctx'[c] = ctx[c]
    /\ \A c, o : c # a => /\ PartWrite(c, o) \in DOMAIN part' <=> PartWrite(c, o) \in DOMAIN part
                          /\ PartWrite(c, o) \in DOMAIN part =>
                               part'[PartWrite(c, o)] = part[PartWrite(c, o)]
    /\ overwritten \subseteq overwritten'

LEMMA OneAssetStep ==
    ASSUME WriteInv, DataInv, NEW a \in DOMAIN ctx, OnlyAsset(a), Leaves(disk, disk', {a}),
           IF a \in DirPaths
           THEN DirKept(a)' /\ disk'[a].kind \in {"none", "dir"} /\ disk'[a].chunks = <<>>
           ELSE FileKept(a)'
    PROVE  DataInv' /\ Leaves(disk, disk', call.assets)
<1>1. /\ CallType /\ call.assets \subseteq Paths /\ UNCHANGED <<call, store, blockErr, todo>>
      /\ a \in AssetJobs /\ a \in call.assets /\ DOMAIN ctx \subseteq AssetJobs
      /\ AssetJobs \subseteq call.assets
  BY DEF WriteInv, CallType, OnlyAsset, DataInv, WorkKnown, AssetJobs
<1>2. ASSUME NEW b \in DOMAIN blockErr PROVE BlockKept(b)'
  <2>1. \A c \in BlockJobAssets(b) : c \in Paths \ {a} /\ c \notin DirPaths
    BY <1>1, BlockAssets
  <2>2. \A c \in BlockJobAssets(b) : Whole(disk, c) => Whole(disk', c)
    BY <2>1, LeftAlone
  <2> QED
    BY <1>1, <2>2, SameWork DEF DataInv, BlockKept
<1>3. ASSUME NEW c \in DOMAIN ctx, c # a
      PROVE  (IF c \in DirPaths THEN DirKept(c) ELSE FileKept(c))'
  <2>1. c \in Paths \ {a} /\ ctx'[c] = ctx[c]
    BY <1>1, <1>3 DEF OnlyAsset
  <2>2. /\ \A o : /\ PartWrite(c, o) \in DOMAIN part' <=> PartWrite(c, o) \in DOMAIN part
                  /\ PartWrite(c, o) \in DOMAIN part =>
                       part'[PartWrite(c, o)] = part[PartWrite(c, o)]
        /\ overwritten \subseteq overwritten'
    BY <1>3 DEF OnlyAsset
  <2>3. \A o, w : InPart(c, o, w)' <=> InPart(c, o, w)
    BY <2>2 DEF InPart, PartWrite
  <2>4. NoPart(c)' <=> NoPart(c)
    BY <2>2 DEF NoPart, PartWrite
  <2>5. Failed(c) => Failed(c)'
    BY <2>1, <2>2, <2>3 DEF Failed
  <2>6. \A n : WrittenTo(c, n)' <=> WrittenTo(c, n)
    BY <2>1, <2>3 DEF WrittenTo
  <2>7. CASE c \in DirPaths
    <3>1. DirKept(c)
      BY <2>7 DEF DataInv
    <3> QED
      BY <2>1, <2>4, <2>7, <3>1, LeftAlone DEF DirKept
  <2>8. CASE c \notin DirPaths
    <3>1. FileKept(c)
      BY <2>8 DEF DataInv
    <3>2. (Whole(disk, c) => Whole(disk', c)) /\ \A n : Holds(disk, c, n) => Holds(disk', c, n)
      BY <2>1, <2>8, LeftAlone
    <3> QED
      BY <1>1, <2>1, <2>4, <2>5, <2>6, <2>8, <3>1, <3>2, SameWork DEF FileKept, Untouched
  <2> QED
    BY <2>7, <2>8
<1>4. \A c \in DOMAIN ctx' : (IF c \in DirPaths THEN DirKept(c) ELSE FileKept(c))'
  BY <1>3 DEF OnlyAsset
<1>5. DirsFit(disk')
  BY <1>1, DirsLeftAlone DEF DataInv
<1>6. WorkKnown'
  BY <1>1, SameWork DEF WorkKnown, DataInv, OnlyAsset
<1>7. Leaves(disk, disk', call.assets)
  BY <1>1 DEF Leaves
<1> QED
  BY <1>1, <1>2, <1>4, <1>5, <1>6, <1>7, SameWork DEF DataInv

(* What is known of an asset that a job writes in parts.                   *)
LEMMA AssetOfPart ==
    ASSUME WriteInv, DataInv, NEW a \in DOMAIN ctx
    PROVE  /\ a \in Paths /\ a \in call.assets /\ a \in DOMAIN call.version
           /\ IsTree(call.version) /\ IsDisk(disk)
           /\ DataIsThere(a) /\ AssetChunks(a) \in Seq(Nat)
           /\ a \in DirPaths => disk[a].kind \in {"none", "dir"} /\ disk[a].chunks = <<>>
           /\ IF a \in DirPaths THEN DirKept(a) ELSE FileKept(a)
<1>1. a \in call.assets /\ call.assets \subseteq Paths /\ IsDisk(disk)
  BY DEF WriteInv, JobsKnown, CallType, DiskShape
<1> QED
  BY <1>1 DEF DataInv, SourceFits, DirsFit, DataIsThere

(* A part is over before it wrote anything.                                *)
LEMMA GivesUpData ==
    ASSUME WriteInv, DataInv, NEW a, NEW o,
           \/ PartAfterFailure(a, o) \/ PartAsserts(a, o) \/ PartCancelled(a, o)
           \/ PartReadsFailed(a, o) \/ PartNotOpened(a, o) \/ PartDirectory(a, o)
    PROVE  DataInv' /\ Leaves(disk, disk', call.assets)
<1>1. PartStarts(a, o) /\ UNCHANGED <<call, store, blockErr, todo, part, overwritten>>
  BY DEF PartAfterFailure, PartAsserts, PartCancelled, PartReadsFailed, PartNotOpened,
         PartDirectory, PartGoesOn, PartGivesUp, partRest, uploadVars
<1>2. a \in DOMAIN ctx /\ o = ctx[a].offset
  BY <1>1, PartCalled
<1>3. PICK err \in Errors : /\ ctx' = [ctx EXCEPT ![a].file = FALSE, ![a].err = err]
                           /\ \/ err \in {"failed", "cancelled"}
                              \/ PartAfterFailure(a, o) /\ err = ctx[a].err
                              \/ PartAsserts(a, o) /\ err = ctx[a].err
                              \/ PartDirectory(a, o)
  <2>1. ctx[a].err \in Errors /\ "failed" \in Errors /\ "cancelled" \in Errors /\ "ok" \in Errors
    BY <1>2 DEF WriteInv, WriteShapes, Errors
  <2>2. CASE PartAsserts(a, o)
    BY <2>1, <2>2, PartAssertsIsOver DEF PartOver
  <2> QED
    BY <2>1, <2>2
       DEF PartAfterFailure, PartCancelled, PartReadsFailed, PartNotOpened, PartDirectory, PartGivesUp
<1>4. OnlyContext(a) /\ ctx'[a].file = FALSE /\ ctx'[a].err = err /\ DOMAIN ctx' = DOMAIN ctx
  BY <1>2, <1>3, ContextSet
<1>5. OnlyAsset(a)
  BY <1>1, <1>4 DEF OnlyAsset, OnlyContext, PartWrite
<1>6. /\ a \in Paths /\ a \in call.assets /\ a \in DOMAIN call.version
      /\ IsTree(call.version) /\ IsDisk(disk)
      /\ a \in DirPaths => disk[a].kind \in {"none", "dir"} /\ disk[a].chunks = <<>>
      /\ IF a \in DirPaths THEN DirKept(a) ELSE FileKept(a)
  BY <1>2, AssetOfPart
<1>7. PartDirectory(a, o) => Leaves(disk, disk', {}) /\ disk'[a].kind = "dir" /\ a \in DirPaths
  <2> SUFFICES ASSUME PartDirectory(a, o)
               PROVE  Leaves(disk, disk', {}) /\ disk'[a].kind = "dir" /\ a \in DirPaths
    OBVIOUS
  <2>1. /\ a \in DirPaths
        /\ disk' = [WithParents(disk, {a}) EXCEPT
                     ![a] = IF @.kind = "none" THEN [Nothing EXCEPT !.kind = "dir"] ELSE @]
    BY DEF PartDirectory
  <2> DEFINE e == disk'
  <2>2. e = [WithParents(disk, {a}) EXCEPT
               ![a] = IF @.kind = "none" THEN [Nothing EXCEPT !.kind = "dir"] ELSE @]
    BY <2>1
  <2> HIDE DEF e
  <2>3. Leaves(disk, e, {}) /\ e[a].kind = "dir"
    BY ONLY <1>6, <2>1, <2>2, DirectoryMade, ZenonT(30)
  <2> QED
    BY <2>1, <2>3 DEF e
<1>8. NewDir.kind = "dir" /\ NewDir.chunks = <<>>
  BY DEF NewDir, Nothing
<1>9. /\ Leaves(disk, disk', {a})
      /\ a \in DirPaths => disk'[a].kind \in {"none", "dir"} /\ disk'[a].chunks = <<>>
      /\ PartAfterFailure(a, o) \/ PartAsserts(a, o) => disk' = disk
  <2>1. CASE \/ PartAfterFailure(a, o) \/ PartAsserts(a, o)
             \/ PartCancelled(a, o) \/ PartReadsFailed(a, o)
    <3>1. disk' = disk
      BY <2>1 DEF PartAfterFailure, PartAsserts, PartCancelled, PartReadsFailed
    <3> QED
      BY <1>6, <3>1 DEF Leaves
  <2>2. CASE PartDirectory(a, o)
    <3>1. ~PartAfterFailure(a, o) /\ ~PartAsserts(a, o)
      BY <2>2 DEF PartAfterFailure, PartAsserts, PartDirectory, PartGoesOn
    <3> QED
      BY <1>6, <1>7, <1>8, <2>2, <3>1 DEF Leaves
  <2>3. CASE PartNotOpened(a, o)
    <3>1. ~PartAfterFailure(a, o) /\ ~PartAsserts(a, o)
      BY <2>3 DEF PartAfterFailure, PartAsserts, PartNotOpened, PartGoesOn
    <3>2. CASE a \in DirPaths
      <4>1. disk' = disk \/ Leaves(disk, disk', {})
        BY <1>6, <2>3, <3>2, ParentsMade DEF PartNotOpened
      <4> QED
        BY <1>6, <1>8, <3>1, <4>1 DEF Leaves
    <3>3. CASE a \notin DirPaths
      <4>1. disk' \in NotOpened(disk, a)
        BY <2>3, <3>3 DEF PartNotOpened
      <4> QED
        BY <1>6, <3>1, <3>3, <4>1, NotOpenedFacts
    <3> QED
      BY <3>2, <3>3
  <2> QED
    BY <2>1, <2>2, <2>3
<1>10. NoPart(a)' <=> NoPart(a)
  BY <1>1 DEF NoPart, PartWrite
<1>11. CASE a \in DirPaths
  <2>1. DirKept(a)'
    BY <1>3, <1>4, <1>6, <1>7, <1>9, <1>10, <1>11 DEF DirKept
  <2> QED
    BY <1>2, <1>5, <1>9, <1>11, <2>1, OneAssetStep
<1>12. CASE a \notin DirPaths
  <2>1. Untouched(a)' \/ Whole(disk, a)' \/ Failed(a)'
    <3>1. CASE err \in {"failed", "cancelled"}
      BY <1>4, <3>1 DEF Failed
    <3>2. CASE (PartAfterFailure(a, o) \/ PartAsserts(a, o)) /\ err = ctx[a].err
      <4>1. ~ctx[a].file /\ o > 0
        BY <3>2 DEF PartAfterFailure, PartAsserts, EarlierPartFailed
      <4>2. Whole(disk, a) \/ Failed(a)
        BY <1>2, <1>6, <1>12, <4>1 DEF FileKept, Untouched
      <4>3. Failed(a) => Failed(a)'
        BY <1>1, <1>4, <3>2 DEF Failed, InPart, PartWrite
      <4> QED
        BY <1>1, <1>9, <3>2, <4>2, <4>3, SameWork
    <3> QED
      BY <1>3, <1>7, <1>12, <3>1, <3>2
  <2>2. FileKept(a)'
    BY <1>4, <2>1 DEF FileKept
  <2> QED
    BY <1>2, <1>5, <1>9, <1>12, <2>2, OneAssetStep
<1> QED
  BY <1>11, <1>12

(* What is known of a part that is being written.                          *)
LEMMA PartInHand ==
    ASSUME WriteInv, DataInv, NEW a, NEW o, NEW w, InPart(a, o, w)
    PROVE  /\ a \in DOMAIN ctx /\ a \in Paths \ DirPaths /\ FileKept(a)
           /\ a \in DOMAIN call.version /\ IsTree(call.version) /\ IsDisk(disk)
           /\ DataIsThere(a) /\ AssetChunks(a) \in Seq(Nat) /\ o \in 0..Len(AssetChunks(a))
           /\ PartEnd(a, o) \in o..Len(AssetChunks(a))
           /\ w = "writing" => /\ ctx[a].file /\ Holds(disk, a, o)
                               /\ \A p : p # o => ~InPart(a, p, "writing")
                               /\ ~IsLastPart(a, o) => PartEnd(a, o) = ctx[a].offset
<1>1. Begun(a, o)
  BY InPartBegun
<1>2. a \in DOMAIN ctx /\ PartFits(a, o) /\ o \in 0..Len(AssetChunks(a))
  BY <1>1, PartJobsThere
<1>3. /\ a \in Paths /\ a \in DOMAIN call.version /\ IsTree(call.version) /\ IsDisk(disk)
      /\ DataIsThere(a) /\ AssetChunks(a) \in Seq(Nat)
      /\ IF a \in DirPaths THEN DirKept(a) ELSE FileKept(a)
  BY <1>2, AssetOfPart
<1>4. a \notin DirPaths
  BY <1>3 DEF DirKept, NoPart, InPart
<1>5. PartEnd(a, o) \in o..Len(AssetChunks(a))
  BY <1>2, <1>3, PartFacts
<1>6. ASSUME w = "writing"
      PROVE  /\ ctx[a].file /\ Holds(disk, a, o)
             /\ \A p : p # o => ~InPart(a, p, "writing")
             /\ ~IsLastPart(a, o) => PartEnd(a, o) = ctx[a].offset
  <2>1. ctx[a].file /\ (~IsLastPart(a, o) => PartEnd(a, o) = ctx[a].offset)
    BY <1>2, <1>6 DEF PartFits
  <2>2. Holds(disk, a, o)
    BY <1>3, <1>4, <1>6, <2>1 DEF FileKept, WrittenTo
  <2>3. \A p : p # o => ~InPart(a, p, "writing")
    BY <1>6, PartAtWork
  <2> QED
    BY <2>1, <2>2, <2>3
<1> QED
  BY <1>2, <1>3, <1>4, <1>5, <1>6

(* The file is opened, or goes on to be written.                           *)
LEMMA OpensData ==
    ASSUME WriteInv, DataInv, NEW a, NEW o, PartOpens(a, o)
    PROVE  DataInv' /\ Leaves(disk, disk', call.assets)
<1> DEFINE w == PartWrite(a, o)
           n == Len(AssetChunks(a))
<1>1. /\ PartStarts(a, o) /\ ~EarlierPartFailed(a, o) /\ a \notin DirPaths
      /\ UNCHANGED <<call, store, blockErr, todo, overwritten>>
      /\ part' = Extend(part, {w}, "writing")
      /\ disk' = IF o = 0 THEN Opened(disk, a, n) ELSE disk
  BY DEF PartOpens, PartGoesOn, partRest, uploadVars
<1>2. /\ a \in DOMAIN ctx /\ o = ctx[a].offset /\ w \notin DOMAIN part
      /\ \A p : p # o => ~InPart(a, p, "writing")
  BY <1>1, PartCalled
<1>3. DOMAIN ctx' = DOMAIN ctx /\ ctx'[a].file /\ \A c \in DOMAIN ctx \ {a} : ctx'[c] = ctx[c]
  <2>1. CASE IsLastPart(a, o)
    <3>1. ctx' = [ctx EXCEPT ![a].file = TRUE]
      BY <2>1 DEF PartOpens
    <3>2. ctx[a].err \in Errors
      BY <1>2 DEF WriteInv, WriteShapes
    <3>3. OnlyContext(a) /\ ctx'[a].file = TRUE
      BY <1>2, <3>1, <3>2, ContextSet
    <3> QED
      BY <3>1, <3>3 DEF OnlyContext
  <2>2. CASE ~IsLastPart(a, o)
    <3> DEFINE r == [offset |-> PartEnd(a, o), file |-> TRUE, err |-> "initial"]
    <3>1. ctx' = [ctx EXCEPT ![a] = r]
      BY <2>2 DEF PartOpens
    <3>2. ctx = [c \in DOMAIN ctx |-> ctx[c]] /\ r.file = TRUE
      BY DEF WriteInv, WriteShapes
    <3> HIDE DEF r
    <3> QED
      BY <1>2, <3>1, <3>2
  <2> QED
    BY <2>1, <2>2
<1>4. /\ a \in Paths /\ a \in DOMAIN call.version /\ IsTree(call.version) /\ IsDisk(disk)
      /\ AssetChunks(a) \in Seq(Nat) /\ FileKept(a)
  BY <1>1, <1>2, AssetOfPart
<1>5. /\ InPart(a, o, "writing")'
      /\ \A p : p # o => ~InPart(a, p, "writing")'
      /\ \A k : k # w => /\ k \in DOMAIN part' <=> k \in DOMAIN part
                         /\ k \in DOMAIN part => part'[k] = part[k]
  <2>1. DOMAIN part' = DOMAIN part \cup {w} /\ part'[w] = "writing"
    BY <1>1 DEF Extend
  <2>2. \A k : k # w => /\ k \in DOMAIN part' <=> k \in DOMAIN part
                        /\ k \in DOMAIN part => part'[k] = part[k]
    BY <1>1 DEF Extend
  <2>3. \A p : p # o => PartWrite(a, p) # w
    BY JobNames
  <2>4. \A p : PartWrite(a, p)' = PartWrite(a, p)
    BY DEF PartWrite
  <2> QED
    BY <1>2, <2>1, <2>2, <2>3, <2>4 DEF InPart
<1>6. OnlyAsset(a)
  <2>1. \A c, p : c # a => PartWrite(c, p) # w
    BY JobNames
  <2> HIDE DEF w
  <2> QED
    BY <1>1, <1>3, <1>5, <2>1 DEF OnlyAsset
<1>7. Leaves(disk, disk', {a}) /\ Holds(disk', a, o)
  <2>1. CASE o = 0
    <3>1. n \in Nat
      BY <1>4
    <3> HIDE DEF n
    <3>2. /\ Opened(disk, a, n)[a].kind = "file"
          /\ Opened(disk, a, n)[a].chunks \in Seq(Nat) /\ Len(Opened(disk, a, n)[a].chunks) = n
          /\ Leaves(disk, Opened(disk, a, n), {a})
      BY ONLY <1>4, <3>1, OpenedFacts, ZenonT(30)
    <3>3. disk' = Opened(disk, a, n)
      BY <1>1, <2>1
    <3> QED
      BY <2>1, <3>2, <3>3 DEF Holds, n
  <2>2. CASE o # 0
    <3>1. disk' = disk /\ ctx[a].file
      <4>1. o \in Nat
        BY <1>2 DEF WriteInv, WriteShapes
      <4> QED
        BY <1>1, <2>2, <4>1 DEF EarlierPartFailed
    <3>2. WrittenTo(a, o)
      BY <1>2 DEF WrittenTo, InPart
    <3> QED
      BY <1>4, <3>1, <3>2 DEF FileKept, Leaves
  <2> QED
    BY <2>1, <2>2
<1>8. FileKept(a)'
  <2>1. \A p : WrittenTo(a, p)' => p = o
    BY <1>5 DEF WrittenTo
  <2>2. Holds(disk, a, o)'
    BY <1>1, <1>7, SameWork
  <2> QED
    BY <1>3, <2>1, <2>2 DEF FileKept
<1> QED
  BY <1>1, <1>2, <1>6, <1>7, <1>8, OneAssetStep

(* What all steps of a part that is at work have in common.                *)
LEMMA WorkStep ==
    ASSUME WriteInv, DataInv, NEW a, NEW o, NEW w, InPart(a, o, w),
           UNCHANGED <<call, store, blockErr, todo>>, overwritten \subseteq overwritten',
           OnlyContext(a), DOMAIN ctx' = DOMAIN ctx,
           \A k : k # PartWrite(a, o) => /\ k \in DOMAIN part' <=> k \in DOMAIN part
                                         /\ k \in DOMAIN part => part'[k] = part[k],
           Leaves(disk, disk', {a}), FileKept(a)'
    PROVE  DataInv' /\ Leaves(disk, disk', call.assets)
<1>1. a \in DOMAIN ctx /\ a \notin DirPaths
  BY PartInHand
<1>2. \A c, p : c # a => PartWrite(c, p) # PartWrite(a, o)
  BY JobNames
<1>3. OnlyAsset(a)
  BY <1>2 DEF OnlyAsset, OnlyContext
<1> QED
  BY <1>1, <1>3, OneAssetStep

(* The part's entry goes, or is changed.                                   *)
LEMMA PartEntry ==
    ASSUME NEW a, NEW o, NEW w, InPart(a, o, w)
    PROVE  /\ \A s : part' = [part EXCEPT ![PartWrite(a, o)] = s] =>
                /\ \A k : k # PartWrite(a, o) => /\ k \in DOMAIN part' <=> k \in DOMAIN part
                                                 /\ k \in DOMAIN part => part'[k] = part[k]
                /\ \A p, v : p # o => (InPart(a, p, v)' <=> InPart(a, p, v))
                /\ \A v : InPart(a, o, v)' <=> v = s
           /\ part' = Restrict(part, DOMAIN part \ {PartWrite(a, o)}) =>
                /\ \A k : k # PartWrite(a, o) => /\ k \in DOMAIN part' <=> k \in DOMAIN part
                                                 /\ k \in DOMAIN part => part'[k] = part[k]
                /\ \A p, v : p # o => (InPart(a, p, v)' <=> InPart(a, p, v))
                /\ \A v : ~InPart(a, o, v)'
<1> DEFINE w0 == PartWrite(a, o)
<1>1. \A p : p # o => PartWrite(a, p) # w0
  BY JobNames
<1>2. \A p : PartWrite(a, p)' = PartWrite(a, p)
  BY DEF PartWrite
<1>3. w0 \in DOMAIN part
  BY DEF InPart
<1>4. ASSUME NEW s, part' = [part EXCEPT ![w0] = s]
      PROVE  /\ \A k : k # w0 => /\ k \in DOMAIN part' <=> k \in DOMAIN part
                                 /\ k \in DOMAIN part => part'[k] = part[k]
             /\ w0 \in DOMAIN part' /\ part'[w0] = s
  BY <1>3, <1>4
<1>5. ASSUME part' = Restrict(part, DOMAIN part \ {w0})
      PROVE  /\ \A k : k # w0 => /\ k \in DOMAIN part' <=> k \in DOMAIN part
                                 /\ k \in DOMAIN part => part'[k] = part[k]
             /\ w0 \notin DOMAIN part'
  BY <1>5 DEF Restrict
<1> HIDE DEF w0
<1>6. ASSUME \A k : k # w0 => /\ k \in DOMAIN part' <=> k \in DOMAIN part
                              /\ k \in DOMAIN part => part'[k] = part[k]
      PROVE  \A p, v : p # o => (InPart(a, p, v)' <=> InPart(a, p, v))
  BY <1>1, <1>2, <1>6 DEF InPart
<1>7. \A v : InPart(a, o, v)' <=> w0 \in DOMAIN part' /\ part'[w0] = v
  BY <1>2 DEF InPart, w0
<1>8. ASSUME NEW s, part' = [part EXCEPT ![w0] = s]
      PROVE  /\ \A k : k # w0 => /\ k \in DOMAIN part' <=> k \in DOMAIN part
                                 /\ k \in DOMAIN part => part'[k] = part[k]
             /\ \A p, v : p # o => (InPart(a, p, v)' <=> InPart(a, p, v))
             /\ \A v : InPart(a, o, v)' <=> v = s
  BY <1>4, <1>6, <1>7, <1>8
<1>9. ASSUME part' = Restrict(part, DOMAIN part \ {w0})
      PROVE  /\ \A k : k # w0 => /\ k \in DOMAIN part' <=> k \in DOMAIN part
                                 /\ k \in DOMAIN part => part'[k] = part[k]
             /\ \A p, v : p # o => (InPart(a, p, v)' <=> InPart(a, p, v))
             /\ \A v : ~InPart(a, o, v)'
  BY <1>5, <1>6, <1>7, <1>9
<1> QED
  BY <1>8, <1>9 DEF w0

(* A part that is not the last is written: the next one can go on.         *)
LEMMA PartWrittenData ==
    ASSUME WriteInv, DataInv, NEW a, NEW o, PartWritten(a, o)
    PROVE  DataInv' /\ Leaves(disk, disk', call.assets)
<1> DEFINE e == PartEnd(a, o)
<1>1. /\ InPart(a, o, "writing") /\ ~IsLastPart(a, o)
      /\ disk' = Written(disk, a, o, e)
      /\ part' = [part EXCEPT ![PartWrite(a, o)] = "ok"]
      /\ UNCHANGED <<call, store, blockErr, todo, ctx, overwritten>>
  BY DEF PartWritten, partRest, uploadVars
<1>2. /\ a \in DOMAIN ctx /\ a \in Paths /\ IsDisk(disk) /\ DataIsThere(a)
      /\ o \in 0..Len(AssetChunks(a)) /\ e \in o..Len(AssetChunks(a))
      /\ ctx[a].file /\ Holds(disk, a, o) /\ e = ctx[a].offset
      /\ \A p : p # o => ~InPart(a, p, "writing")
  BY <1>1, PartInHand
<1>3. /\ \A k : k # PartWrite(a, o) => /\ k \in DOMAIN part' <=> k \in DOMAIN part
                                       /\ k \in DOMAIN part => part'[k] = part[k]
      /\ \A p, v : p # o => (InPart(a, p, v)' <=> InPart(a, p, v))
      /\ ~InPart(a, o, "writing")'
  BY <1>1, PartEntry
<1> HIDE DEF e
<1>4. Leaves(disk, disk', {a}) /\ Holds(disk', a, e)
  BY <1>1, <1>2, WrittenFacts
<1>5. FileKept(a)'
  <2>1. \A n : WrittenTo(a, n)' => n = e
    BY <1>1, <1>2, <1>3 DEF WrittenTo
  <2>2. \A n : n = e => Holds(disk, a, n)'
    BY <1>1, <1>4, SameWork
  <2> QED
    BY <1>1, <1>2, <2>1, <2>2 DEF FileKept
<1>6. OnlyContext(a)
  BY <1>1 DEF OnlyContext, WriteInv, WriteShapes
<1> QED
  BY <1>1, <1>3, <1>4, <1>5, <1>6, WorkStep

(* The file is whole when its last part is written.                        *)
LEMMA LastPartData ==
    ASSUME WriteInv, DataInv, NEW a, NEW o, LastPartWritten(a, o)
    PROVE  DataInv' /\ Leaves(disk, disk', call.assets)
<1> DEFINE e == PartEnd(a, o)
           f == Written(disk, a, o, e)
<1>1. /\ InPart(a, o, "writing") /\ e = Len(AssetChunks(a))
      /\ part' = Restrict(part, DOMAIN part \ {PartWrite(a, o)})
      /\ UNCHANGED <<call, store, blockErr, todo, overwritten>>
      /\ \/ disk' = Permitted(f, a) /\ ctx' = [ctx EXCEPT ![a].file = FALSE, ![a].err = "ok"]
         \/ disk' = f /\ ctx' = [ctx EXCEPT ![a].file = FALSE, ![a].err = "failed"]
  BY DEF LastPartWritten, PartEnds, IsLastPart, partRest, uploadVars
<1>2. /\ a \in DOMAIN ctx /\ a \in Paths /\ IsDisk(disk) /\ DataIsThere(a)
      /\ AssetChunks(a) \in Seq(Nat)
      /\ o \in 0..Len(AssetChunks(a)) /\ e \in o..Len(AssetChunks(a)) /\ Holds(disk, a, o)
  BY <1>1, PartInHand
<1>3. \A k : k # PartWrite(a, o) => /\ k \in DOMAIN part' <=> k \in DOMAIN part
                                    /\ k \in DOMAIN part => part'[k] = part[k]
  BY <1>1, PartEntry
<1> HIDE DEF e
<1>4. IsDisk(f) /\ Leaves(disk, f, {a}) /\ Holds(f, a, e)
  BY <1>1, <1>2, WrittenFacts
<1> HIDE DEF f
<1>5. Whole(Permitted(f, a), a) /\ Leaves(f, Permitted(f, a), {a})
  BY <1>1, <1>2, <1>4, HoldsAll, PermittedFacts
<1>6. Leaves(disk, Permitted(f, a), {a})
  BY <1>4, <1>5, LeavesMore
<1>7. \/ /\ disk' = Permitted(f, a) /\ OnlyContext(a) /\ ~ctx'[a].file /\ DOMAIN ctx' = DOMAIN ctx
      \/ /\ disk' = f /\ OnlyContext(a) /\ ~ctx'[a].file /\ ctx'[a].err = "failed"
         /\ DOMAIN ctx' = DOMAIN ctx
  <2>1. CASE ctx' = [ctx EXCEPT ![a].file = FALSE, ![a].err = "ok"] /\ disk' = Permitted(f, a)
    BY <1>2, <2>1, ContextSet DEF Errors
  <2>2. CASE ctx' = [ctx EXCEPT ![a].file = FALSE, ![a].err = "failed"] /\ disk' = f
    BY <1>2, <2>2, ContextSet DEF Errors
  <2> QED
    BY <1>1, <2>1, <2>2
<1>8. FileKept(a)'
  <2>1. CASE disk' = Permitted(f, a) /\ ~ctx'[a].file
    BY <1>1, <1>5, <2>1, SameWork DEF FileKept
  <2>2. CASE ctx'[a].err = "failed" /\ ~ctx'[a].file
    BY <2>2 DEF FileKept, Failed
  <2> QED
    BY <1>7, <2>1, <2>2
<1>9. Leaves(disk, disk', {a})
  BY <1>4, <1>6, <1>7
<1>10. OnlyContext(a) /\ DOMAIN ctx' = DOMAIN ctx
  BY <1>7
<1> QED
  BY <1>1, <1>3, <1>8, <1>9, <1>10, WorkStep

(* A part that fails leaves its error, or is about to.                     *)
LEMMA PartFailsData ==
    ASSUME WriteInv, DataInv, NEW a, NEW o, PartWriteFails(a, o) \/ PartHasNoLookup(a, o)
    PROVE  DataInv' /\ Leaves(disk, disk', call.assets)
<1>1. /\ InPart(a, o, "writing")
      /\ UNCHANGED <<call, store, blockErr, todo, overwritten>>
      /\ disk' = disk \/ \E e : disk' = Written(disk, a, o, e)
      /\ \/ /\ part' = Restrict(part, DOMAIN part \ {PartWrite(a, o)})
            /\ ctx' = [ctx EXCEPT ![a].file = FALSE, ![a].err = "failed"]
         \/ /\ part' = [part EXCEPT ![PartWrite(a, o)] = "failed"]
            /\ ctx' = [ctx EXCEPT ![a].file = FALSE]
  BY DEF PartWriteFails, PartHasNoLookup, PartEnds, partRest, uploadVars
<1>2. a \in DOMAIN ctx /\ a \in Paths /\ IsDisk(disk)
  BY <1>1, PartInHand
<1>3. Leaves(disk, disk', {a})
  <2>1. CASE disk' = disk
    BY <2>1 DEF Leaves
  <2>2. CASE \E e : disk' = Written(disk, a, o, e)
    BY <1>2, <2>2, WrittenElsewhere
  <2> QED
    BY <1>1, <2>1, <2>2
<1>4. \A k : k # PartWrite(a, o) => /\ k \in DOMAIN part' <=> k \in DOMAIN part
                                    /\ k \in DOMAIN part => part'[k] = part[k]
  BY <1>1, PartEntry
<1>5. OnlyContext(a) /\ DOMAIN ctx' = DOMAIN ctx /\ FileKept(a)'
  <2>1. CASE ctx' = [ctx EXCEPT ![a].file = FALSE, ![a].err = "failed"]
    <3>1. OnlyContext(a) /\ ctx'[a].file = FALSE /\ ctx'[a].err = "failed"
      BY <1>2, <2>1, ContextSet DEF Errors
    <3> QED
      BY <2>1, <3>1 DEF FileKept, Failed
  <2>2. CASE /\ part' = [part EXCEPT ![PartWrite(a, o)] = "failed"]
             /\ ctx' = [ctx EXCEPT ![a].file = FALSE]
    <3>1. ctx[a].err \in Errors
      BY <1>2 DEF WriteInv, WriteShapes
    <3>2. OnlyContext(a) /\ ctx'[a].file = FALSE
      BY <1>2, <2>2, <3>1, ContextSet
    <3>3. InPart(a, o, "failed")'
      BY <1>1, <2>2, PartEntry
    <3> QED
      BY <2>2, <3>2, <3>3 DEF FileKept, Failed
  <2> QED
    BY <1>1, <2>1, <2>2
<1> QED
  BY <1>1, <1>3, <1>4, <1>5, WorkStep

(* The error of a part is set, over that of the next part maybe.           *)
LEMMA SetsErrorData ==
    ASSUME WriteInv, DataInv, NEW a, NEW o, PartSetsError(a, o)
    PROVE  DataInv' /\ Leaves(disk, disk', call.assets)
<1> DEFINE s == part[PartWrite(a, o)]
<1>1. /\ InPart(a, o, s) /\ s \in {"ok", "failed"}
      /\ ctx' = [ctx EXCEPT ![a].err = s]
      /\ overwritten' = IF s = "ok" /\ ctx[a].err \in {"failed", "cancelled"}
                        THEN overwritten \cup {a} ELSE overwritten
      /\ part' = Restrict(part, DOMAIN part \ {PartWrite(a, o)})
      /\ UNCHANGED <<call, store, blockErr, todo, disk>>
  BY DEF PartSetsError, InPart, PartEnds, partRest, uploadVars
<1> HIDE DEF s
<1>2. a \in DOMAIN ctx /\ FileKept(a)
  BY <1>1, PartInHand
<1>3. OnlyContext(a) /\ ctx'[a].file = ctx[a].file /\ ctx'[a].err = s /\ DOMAIN ctx' = DOMAIN ctx
  <2>1. ctx[a].file \in BOOLEAN /\ s \in Errors
    BY <1>1, <1>2 DEF WriteInv, WriteShapes, Errors
  <2> QED
    BY <1>1, <1>2, <2>1, ContextSet
<1>4. /\ \A k : k # PartWrite(a, o) => /\ k \in DOMAIN part' <=> k \in DOMAIN part
                                       /\ k \in DOMAIN part => part'[k] = part[k]
      /\ \A p, v : p # o => (InPart(a, p, v)' <=> InPart(a, p, v))
      /\ \A v : ~InPart(a, o, v)'
  BY <1>1, PartEntry
<1>5. Leaves(disk, disk', {a})
  BY <1>1 DEF Leaves
<1>6. \A v : InPart(a, o, v) => v = s
  BY <1>1 DEF InPart
<1>7. Failed(a) => Failed(a)'
  <2>1. CASE s = "failed"
    BY <1>3, <2>1 DEF Failed
  <2>2. CASE s # "failed" /\ ctx[a].err \in {"failed", "cancelled"}
    BY <1>1, <2>2 DEF Failed
  <2>3. CASE a \in overwritten
    BY <1>1, <2>3 DEF Failed
  <2>4. CASE s # "failed" /\ \E p : InPart(a, p, "failed")
    BY <1>4, <1>6, <2>4 DEF Failed
  <2> QED
    BY <2>1, <2>2, <2>3, <2>4 DEF Failed
<1>8. FileKept(a)'
  <2>1. CASE ctx[a].file
    <3>1. \A n : WrittenTo(a, n)' => WrittenTo(a, n)
      BY <1>1, <1>3, <1>4, <1>6 DEF WrittenTo, OnlyContext
    <3> QED
      BY <1>1, <1>2, <1>3, <2>1, <3>1, SameWork DEF FileKept
  <2>2. CASE ~ctx[a].file
    <3>1. Whole(disk, a) \/ Failed(a)
      BY <1>1, <1>2, <2>2 DEF FileKept, Untouched, NoPart, InPart
    <3> QED
      BY <1>1, <1>3, <1>7, <2>2, <3>1, SameWork DEF FileKept
  <2> QED
    BY <2>1, <2>2
<1> QED
  BY <1>1, <1>3, <1>4, <1>5, <1>8, WorkStep

(* The jobs of a block or an asset are made; none has run.                 *)
LEMMA CreateJobsData ==
    WriteInv /\ DataInv /\ CreateJobsNext => DataInv' /\ Leaves(disk, disk', call.assets)
<1> SUFFICES ASSUME WriteInv, DataInv, CreateJobsNext
             PROVE  DataInv' /\ Leaves(disk, disk', call.assets)
  OBVIOUS
<1>1. /\ UNCHANGED <<call, store, part, disk, overwritten>>
      /\ Leaves(disk, disk', call.assets)
      /\ todo = [blocks |-> todo.blocks, assets |-> todo.assets]
  BY DEF CreateJobsNext, CreateBlockJob, CreateAssetJob, StartWaiting, uploadVars, contextVars, Leaves,
         WriteInv, WriteShapes
<1>2. \A a : /\ NoPart(a)' <=> NoPart(a)
             /\ \A o, w : InPart(a, o, w)' <=> InPart(a, o, w)
  BY <1>1 DEF NoPart, InPart, PartWrite
<1>3. ASSUME NEW a \in DOMAIN ctx, a \in DOMAIN ctx', ctx'[a] = ctx[a]
      PROVE  (IF a \in DirPaths THEN DirKept(a) ELSE FileKept(a))'
  <2>1. Failed(a)' <=> Failed(a)
    BY <1>1, <1>2, <1>3 DEF Failed
  <2>2. \A n : WrittenTo(a, n)' <=> WrittenTo(a, n)
    BY <1>2, <1>3 DEF WrittenTo
  <2>3. DirKept(a)' <=> DirKept(a)
    BY <1>1, <1>2, <1>3 DEF DirKept
  <2>4. FileKept(a)' <=> FileKept(a)
    BY <1>1, <1>2, <1>3, <2>1, <2>2, SameWork DEF FileKept, Untouched
  <2> QED
    BY <2>3, <2>4 DEF DataInv
<1>4. SourceFits' /\ DirsFit(disk)'
  BY <1>1, SameWork DEF DataInv
<1>5. CASE CreateBlockJob
  <2>1. PICK b \in todo.blocks : /\ blockErr' = Extend(blockErr, {b}, "initial")
                                 /\ todo' = [todo EXCEPT !.blocks = todo.blocks \ {b}]
    BY <1>5 DEF CreateBlockJob
  <2>2. UNCHANGED ctx
    BY <1>5 DEF CreateBlockJob
  <2>3. /\ DOMAIN blockErr' = DOMAIN blockErr \cup {b} /\ blockErr'[b] # "ok"
        /\ \A c \in DOMAIN blockErr \ {b} : blockErr'[c] = blockErr[c]
    BY <2>1 DEF Extend
  <2>4. \A c \in DOMAIN blockErr' : BlockKept(c)'
    BY <1>1, <2>3, SameWork DEF BlockKept, DataInv
  <2>5. WorkKnown'
    BY <1>1, <2>1, <2>2, <2>3, SameWork DEF WorkKnown, DataInv
  <2> QED
    BY <1>1, <1>3, <1>4, <2>2, <2>4, <2>5 DEF DataInv
<1>6. CASE CreateAssetJob
  <2> DEFINE r == [offset |-> 0, file |-> FALSE, err |-> "initial"]
  <2>1. PICK a \in todo.assets : /\ ctx' = Extend(ctx, {a}, r)
                                 /\ todo' = [todo EXCEPT !.assets = todo.assets \ {a}]
    BY <1>6 DEF CreateAssetJob
  <2>2. UNCHANGED blockErr
    BY <1>6 DEF CreateAssetJob
  <2>3. /\ DOMAIN ctx' = DOMAIN ctx \cup {a} /\ ctx'[a] = r
        /\ \A c \in DOMAIN ctx \ {a} : ctx'[c] = ctx[c]
    BY <2>1 DEF Extend
  <2>4. a \notin DOMAIN ctx
    BY DEF WriteInv, JobsKnown
  <2>5. NoPart(a)
    <3>1. \A o : PartWrite(a, o) \in DOMAIN part => InPart(a, o, part[PartWrite(a, o)])
      BY DEF InPart
    <3>2. \A o : PartWrite(a, o) \in DOMAIN part => Begun(a, o)
      BY <3>1, InPartBegun
    <3>3. \A o : Begun(a, o) => a \in DOMAIN ctx
      BY PartJobsThere
    <3> QED
      BY <2>4, <3>2, <3>3 DEF NoPart
  <2>6. (IF a \in DirPaths THEN DirKept(a) ELSE FileKept(a))'
    BY <1>2, <2>3, <2>5 DEF DirKept, FileKept, Untouched
  <2>7. \A c \in DOMAIN ctx' : (IF c \in DirPaths THEN DirKept(c) ELSE FileKept(c))'
    BY <1>3, <2>3, <2>4, <2>6
  <2>8. \A c \in DOMAIN blockErr' : BlockKept(c)'
    BY <1>1, <2>2, SameWork DEF BlockKept, DataInv
  <2>9. WorkKnown'
    BY <1>1, <2>1, <2>2, <2>3, SameWork DEF WorkKnown, DataInv
  <2> QED
    BY <1>1, <1>4, <2>7, <2>8, <2>9 DEF DataInv
<1>7. CASE StartWaiting
  BY <1>7, DataStays DEF StartWaiting, uploadVars, contextVars
<1> QED
  BY <1>1, <1>5, <1>6, <1>7 DEF CreateJobsNext

(* No step of a job breaks what is known of the data, and none changes an  *)
(* asset that is not to be written.                                        *)
LEMMA WriteAssetsData ==
    WriteInv /\ DataInv /\ WriteAssetsNext => DataInv' /\ Leaves(disk, disk', call.assets)
<1> SUFFICES ASSUME WriteInv, DataInv, WriteAssetsNext
             PROVE  DataInv' /\ Leaves(disk, disk', call.assets)
  OBVIOUS
<1>1. CASE ReaderNext
  BY <1>1, DataStays
     DEF ReaderNext, ReaderCancelled, ReaderRefused, ReaderAccepted, ReaderComplete, ReaderResumed,
         readerRest, uploadVars
<1>2. CASE WriteReady
  BY <1>2, DataStays DEF WriteReady, uploadVars, contextVars
<1>3. CASE BlockJobNext
  BY <1>3, BlockJobData
<1>4. CASE PartNext
  BY <1>4, GivesUpData, OpensData, PartWrittenData, LastPartData, PartFailsData, SetsErrorData DEF PartNext
<1> QED
  BY <1>1, <1>2, <1>3, <1>4 DEF WriteAssetsNext

(* When all jobs are done without an error, and none was overwritten, the  *)
(* assets are what they should be.                                         *)
LEMMA AllWritten ==
    ASSUME WriteInv, DataInv, JobsPlanned, AllJobsDone(group), WriteAssetsResult = "ok",
           overwritten = {},
           \A j \in Jobs(group) : group.job[j] = "complete"
    PROVE  \A a \in call.assets : IF a \in DirPaths THEN disk[a].kind = "dir" ELSE Whole(disk, a)
<1>1. JobsAreCreated
  BY DEF JobsPlanned, AllJobsDone
<1>2. DOMAIN blockErr = BlockJobs /\ DOMAIN ctx = AssetJobs
  BY <1>1 DEF DataInv, WorkKnown, JobsAreCreated
<1>3. (\A b \in BlockJobs : blockErr[b] = "ok") /\ \A a \in AssetJobs : ctx[a].err = "ok"
  BY <1>2 DEF WriteAssetsResult
<1>4. (\A a, o, w : ~InPart(a, o, w)) /\ \A a \in DOMAIN ctx : ~ctx[a].file
  BY NothingIsLeft
<1> TAKE a \in call.assets
<1>5. CASE IsBlockJob(a)
  <2> DEFINE b == BlockFor(Head(AssetChunks(a)))
  <2>1. b \in BlockJobs /\ a \in BlockJobAssets(b)
    BY <1>5 DEF BlockJobs, BlockJobAssets
  <2>2. BlockKept(b)
    BY <1>2, <2>1 DEF DataInv
  <2>3. Whole(disk, a)
    BY <1>3, <2>1, <2>2 DEF BlockKept
  <2>4. a \notin DirPaths
    BY <2>1, BlockAssets DEF WriteInv
  <2> QED
    BY <2>3, <2>4
<1>6. CASE ~IsBlockJob(a)
  <2>1. a \in AssetJobs /\ a \in DOMAIN ctx /\ ctx[a].err = "ok" /\ ~ctx[a].file
    BY <1>2, <1>3, <1>4, <1>6 DEF AssetJobs
  <2>2. IF a \in DirPaths THEN DirKept(a) ELSE FileKept(a)
    BY <2>1 DEF DataInv
  <2> QED
    BY <1>4, <2>1, <2>2 DEF DirKept, FileKept, Untouched, Failed
<1> QED
  BY <1>5, <1>6

(* Before the first job nothing is known but what is to be written.        *)
LEMMA StartData ==
    ASSUME SourceFits, DirsFit(disk), StartWriteAssets
    PROVE  DataInv'
<1>1. /\ UNCHANGED <<call, store, disk>>
      /\ todo' = [blocks |-> BlockJobs, assets |-> AssetJobs]
      /\ blockErr' = <<>> /\ ctx' = <<>>
  BY DEF StartWriteAssets, uploadVars
<1>2. SourceFits' /\ DirsFit(disk)' /\ BlockJobs' = BlockJobs /\ AssetJobs' = AssetJobs
  BY <1>1, SameWork
<1>3. DOMAIN blockErr' = {} /\ DOMAIN ctx' = {}
  BY <1>1
<1>4. WorkKnown'
  BY <1>1, <1>2, <1>3 DEF WorkKnown
<1> QED
  BY <1>2, <1>3, <1>4 DEF DataInv

================================================================================

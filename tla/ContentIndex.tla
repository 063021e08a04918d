------------------------------ MODULE ContentIndex ------------------------------
(***************************************************************************)
(* src/longtail.c: the arithmetic of content indexes, version indexes and  *)
(* version diffs.  Everything here is a pure function of its arguments, as *)
(* it is in the code.                                                      *)
(*                                                                         *)
(* A chunk hash is a number; a chunk is its hash, so the order of hashes   *)
(* is the order of numbers.  A block hash is the hash of the block's chunk *)
(* hashes, nothing else (line 2550): it is the sequence of them.  A path   *)
(* is a number, in the order the folder scan lists assets.  A content      *)
(* index keeps the code's two arrays: the block hashes, and the chunks,    *)
(* each with the index of its block.  A version maps its paths to assets.  *)
(* Lookup tables keep the first value put under a key (lines 609-768).     *)
(***************************************************************************)
EXTENDS Integers, FiniteSets, SequencesExt

CONSTANTS Paths,             \* asset paths
          DirPaths,          \* the paths that end in a slash
          ChunkSize,         \* bytes of a chunk, by hash
          ChunkTag,          \* compression tag of a chunk, by hash
          MaxBlockSize,      \* max_block_size
          MaxChunksPerBlock  \* max_chunks_per_block

ASSUME PathsType == Paths \subseteq Nat /\ DirPaths \subseteq Paths
ASSUME LimitsType == /\ MaxBlockSize \in Nat \ {0}
                     /\ MaxChunksPerBlock \in Nat \ {0}

(* Sequences keep what they have in its order. *)
Without(s, S) == FoldLeft(LAMBDA kept, x : IF x \in S THEN kept ELSE Append(kept, x), <<>>, s)

SumOver(f, s) == FoldLeft(LAMBDA n, x : n + f[x], 0, s)

(* The first of each hash of a sequence, in order. *)
UniqueHashes(s) ==
    FoldLeft(LAMBDA first, h : IF h \in ToSet(first) THEN first ELSE Append(first, h), <<>>, s)

(* The numbers of a finite set in their order. *)
InOrder(S) ==
    [k \in 1..Cardinality(S) |-> CHOOSE p \in S : Cardinality({q \in S : q < p}) = k - 1]

(* The index of the first x of a sequence, 0 if it has none. *)
IndexIn(s, x) == SelectInSeq(s, LAMBDA y : y = x)

--------------------------------------------------------------------------------
(* Content indexes *)

(* The blocks, and chunks that are each in one of them. *)
IsContent(ci) ==
    /\ ci.blocks \in Seq(Seq(Nat))
    /\ ci.chunks \in Seq([hash : Nat, block : Nat])
    /\ \A i \in DOMAIN ci.chunks : ci.chunks[i].block \in DOMAIN ci.blocks

EmptyContent == [blocks |-> <<>>, chunks |-> <<>>]

ContentIndexFromBlocks(blocks) ==
    [blocks |-> blocks,
     chunks |-> FlattenSeq([b \in DOMAIN blocks |->
                    [i \in DOMAIN blocks[b] |-> [hash |-> blocks[b][i], block |-> b]]])]

ChunkHashes(ci) == [i \in DOMAIN ci.chunks |-> ci.chunks[i].hash]

(* The hash of the block of the chunk at index i. *)
BlockHashAt(ci, i) == ci.blocks[ci.chunks[i].block]

(* The block a lookup table of the chunks gives for a hash. *)
BlockOfChunk(ci, h) == BlockHashAt(ci, SelectInSeq(ci.chunks, LAMBDA c : c.hash = h))

HasChunk(ci, h) == h \in ToSet(ChunkHashes(ci))

(* The chunks that go in the block being filled: the tag must be the same, *)
(* the count not yet at its limit, and the size may overshoot by 10%.      *)
FitsInBlock(block, h) ==
    /\ ChunkTag[h] = ChunkTag[Head(block)]
    /\ Len(block) # MaxChunksPerBlock
    /\ SumOver(ChunkSize, block) + ChunkSize[h] <= MaxBlockSize + MaxBlockSize \div 10

CreateContentIndexRaw(hashes) ==
    LET Fill(blocks, h) ==
          IF blocks # <<>> /\ FitsInBlock(Last(blocks), h)
          THEN ReplaceAt(blocks, Len(blocks), Append(Last(blocks), h))
          ELSE Append(blocks, <<h>>)
    IN  ContentIndexFromBlocks(FoldLeft(Fill, <<>>, UniqueHashes(hashes)))

(* The chunks of ci at the given indexes, as chunks of these blocks. *)
ListChunks(ci, indexes, blocks) ==
    [k \in DOMAIN indexes |-> [hash |-> ci.chunks[indexes[k]].hash,
                               block |-> IndexIn(blocks, BlockHashAt(ci, indexes[k]))]]

(* The content index of the chunks of ci at the given indexes, naming each *)
(* block once, at its first chunk.  The loops of RetargetContent and of    *)
(* MergeContentIndex number blocks in this way.                            *)
KeepChunks(ci, indexes) ==
    LET blocks == UniqueHashes([k \in DOMAIN indexes |-> BlockHashAt(ci, indexes[k])])
    IN  [blocks |-> blocks, chunks |-> ListChunks(ci, indexes, blocks)]

(* Mutant of RetargetContent: a chunk is kept wherever it comes. *)
RetargetContent_Twice(reference, requested) ==
    KeepChunks(reference, InOrder({i \in DOMAIN reference.chunks :
        HasChunk(requested, reference.chunks[i].hash)}))

(* What of the reference content serves the request: each requested chunk  *)
(* once, where it comes first.                                             *)
RetargetContent(reference, requested) ==
    KeepChunks(reference, InOrder({i \in DOMAIN reference.chunks :
        /\ HasChunk(requested, reference.chunks[i].hash)
        /\ \A j \in 1..(i - 1) : reference.chunks[j].hash # reference.chunks[i].hash}))

(* The blocks of the content that have a chunk the reference does not,     *)
(* whole; blocks are listed by their first such chunk.                     *)
GetMissingContent(reference, ci) ==
    LET new == InOrder({i \in DOMAIN ci.chunks : ~HasChunk(reference, ci.chunks[i].hash)})
        blocks == KeepChunks(ci, new).blocks
        kept == InOrder({i \in DOMAIN ci.chunks : BlockHashAt(ci, i) \in ToSet(blocks)})
    IN  [blocks |-> blocks, chunks |-> ListChunks(ci, kept, blocks)]

(* All of the new content, then the chunks of the local one it does not    *)
(* have; a block that both name is the first of the new content's.         *)
MergeContentIndex(localContent, new) ==
    LET kept == InOrder({i \in DOMAIN localContent.chunks :
                           ~HasChunk(new, localContent.chunks[i].hash)})
        blocks == new.blocks \o
                    Without(KeepChunks(localContent, kept).blocks, ToSet(new.blocks))
    IN  [blocks |-> blocks, chunks |-> new.chunks \o ListChunks(localContent, kept, blocks)]

(* One content after the other, whatever they share. *)
AddContentIndex(localContent, new) ==
    [blocks |-> localContent.blocks \o new.blocks,
     chunks |-> localContent.chunks \o
                  [i \in DOMAIN new.chunks |->
                    [new.chunks[i] EXCEPT !.block = @ + Len(localContent.blocks)]]]

--------------------------------------------------------------------------------
(* Versions: functions from some paths to assets *)

(* A folder that is scanned is finite, and no chunk of it is empty.         *)
IsVersion(v) ==
    /\ DOMAIN v \subseteq Paths /\ IsFiniteSet(DOMAIN v)
    /\ v \in [DOMAIN v -> [chunks : Seq(Nat), perm : {"ro", "rw"}]]
    /\ \A p \in DOMAIN v : \A h \in ToSet(v[p].chunks) : ChunkSize[h] \in Nat \ {0}

ChunksOfAssets(v, order) == FlattenSeq([i \in DOMAIN order |-> v[order[i]].chunks])

(* m_ChunkHashes of a version index: every chunk once, in the order the    *)
(* assets first need it.                                                   *)
VersionChunks(v) == UniqueHashes(ChunksOfAssets(v, InOrder(DOMAIN v)))

CreateContentIndex(v) == CreateContentIndexRaw(VersionChunks(v))

(* The hashes of new that the reference does not have.  The code finds     *)
(* them on sorted copies without duplicates and then puts them back in     *)
(* their order, going over as many hashes of new as there are different    *)
(* ones.                                                                   *)
DiffHashes(reference, new) ==
    Without(SubSeq(new, 1, Cardinality(ToSet(new))), ToSet(reference))

CreateMissingContent(ci, v) ==
    CreateContentIndexRaw(DiffHashes(ChunkHashes(ci), VersionChunks(v)))

(* What removes, adds and changes between the version source and the       *)
(* version target; permissions are only compared where the content is the  *)
(* same.                                                                   *)
CreateVersionDiff(source, target) ==
    LET both == DOMAIN source \cap DOMAIN target
        changed == {p \in both : source[p].chunks # target[p].chunks}
    IN  [removed |-> DOMAIN source \ DOMAIN target,
         added |-> DOMAIN target \ DOMAIN source,
         modified |-> changed,
         permissions |-> {p \in both \ changed : source[p].perm # target[p].perm}]

NothingToDo(diff, retain) ==
    /\ diff.removed = {} /\ diff.added = {} /\ diff.modified = {}
    /\ diff.permissions = {} \/ ~retain

(* The assets ChangeVersion writes: the added ones, then the modified.     *)
(* The code has the added by the length of the path and the modified by    *)
(* the hash of the path; here both are in the order of paths.              *)
WrittenAssets(diff) == InOrder(diff.added) \o InOrder(diff.modified)

CreateContentIndexFromDiff(v, diff) ==
    CreateContentIndexRaw(ChunksOfAssets(v, WrittenAssets(diff)))

(* Every chunk of the version is in the content.  (The sizes of assets     *)
(* that the code also compares are sums of the sizes of chunks here.)      *)
ValidateContent(ci, v) == ToSet(VersionChunks(v)) \subseteq ToSet(ChunkHashes(ci))

OffsetOf(chunks, i) == SumOver(ChunkSize, SubSeq(chunks, 1, i - 1))

(* Mutant of AssetPart: the offset is that of the end of the chunk. *)
AssetPart_End(v, h) ==
    LET path == CHOOSE p \in DOMAIN v :
                  /\ Contains(v[p].chunks, h)
                  /\ \A q \in DOMAIN v : q < p => ~Contains(v[q].chunks, h)
    IN  [path |-> path,
         offset |-> OffsetOf(v[path].chunks, IndexIn(v[path].chunks, h) + 1)]

(* Where WriteContent reads a chunk from: the first asset that has it, and *)
(* the offset in bytes it has there.                                       *)
AssetPart(v, h) ==
    LET path == CHOOSE p \in DOMAIN v :
                  /\ Contains(v[p].chunks, h)
                  /\ \A q \in DOMAIN v : q < p => ~Contains(v[q].chunks, h)
    IN  [path |-> path,
         offset |-> OffsetOf(v[path].chunks, IndexIn(v[path].chunks, h))]

--------------------------------------------------------------------------------
(* What is expected of them *)

Pairs(ci) == {<<ci.chunks[i].hash, BlockHashAt(ci, i)>> : i \in DOMAIN ci.chunks}

(* No chunk and no block twice, and no block without a chunk. *)
Compact(ci) ==
    /\ \A i, j \in DOMAIN ci.chunks : ci.chunks[i].hash = ci.chunks[j].hash => i = j
    /\ \A b, c \in DOMAIN ci.blocks : ci.blocks[b] = ci.blocks[c] => b = c
    /\ \A b \in DOMAIN ci.blocks : \E i \in DOMAIN ci.chunks : ci.chunks[i].block = b

(* The chunks are listed block by block, as line 4190 takes for granted. *)
Grouped(ci) ==
    /\ ci.chunks # <<>> => ci.chunks[1].block = 1
    /\ \A i \in 2..Len(ci.chunks) :
         ci.chunks[i].block \in {ci.chunks[i - 1].block, ci.chunks[i - 1].block + 1}

WithinLimits(ci) ==
    \A b \in DOMAIN ci.blocks :
        LET block == ci.blocks[b] IN
        /\ Len(block) <= MaxChunksPerBlock
        /\ Len(block) = 1 \/ SumOver(ChunkSize, block) * 10 <= MaxBlockSize * 11
        /\ \A h \in ToSet(block) : ChunkTag[h] = ChunkTag[Head(block)]

RetargetIsExact(reference, requested) ==
    LET r == RetargetContent(reference, requested) IN
    /\ Pairs(r) \subseteq Pairs(reference)
    /\ ToSet(ChunkHashes(r)) = ToSet(ChunkHashes(reference)) \cap ToSet(ChunkHashes(requested))
    /\ Compact(r)

MissingIsExact(reference, v) ==
    LET m == CreateMissingContent(reference, v) IN
    /\ ToSet(ChunkHashes(m)) = ToSet(VersionChunks(v)) \ ToSet(ChunkHashes(reference))
    /\ Compact(m) /\ Grouped(m) /\ WithinLimits(m)

MissingBlocksAreWhole(reference, ci) ==
    LET m == GetMissingContent(reference, ci)
        wanted == {BlockHashAt(ci, i) : i \in {j \in DOMAIN ci.chunks :
                                                ~HasChunk(reference, ci.chunks[j].hash)}}
    IN  Pairs(m) = {pair \in Pairs(ci) : pair[2] \in wanted}

MergeIsUnion(localContent, new) ==
    LET g == MergeContentIndex(localContent, new) IN
    /\ Pairs(g) = Pairs(new) \cup
                    {pair \in Pairs(localContent) : ~HasChunk(new, pair[1])}
    /\ \A b, c \in DOMAIN g.blocks : g.blocks[b] = g.blocks[c] =>
         b = c \/ {b, c} \subseteq DOMAIN new.blocks

AddKeepsBoth(localContent, new) ==
    Pairs(AddContentIndex(localContent, new)) = Pairs(localContent) \cup Pairs(new)

(* A version patched with the diff of two is the other one, but for        *)
(* permissions, and the content of the diff is what the patch needs.       *)
DiffIsExact(source, target) ==
    LET diff == CreateVersionDiff(source, target)
        rewritten == diff.added \cup diff.modified
        patched == [p \in (DOMAIN source \ diff.removed) \cup rewritten |->
                      IF p \in rewritten THEN target[p].chunks ELSE source[p].chunks]
    IN  /\ patched = [p \in DOMAIN target |-> target[p].chunks]
        /\ ToSet(ChunkHashes(CreateContentIndexFromDiff(target, diff)))
             = UNION {ToSet(target[p].chunks) : p \in rewritten}
        /\ \A p \in DOMAIN target :
             p \in rewritten \cup diff.permissions \/ source[p] = target[p]

(* A content index tells the truth about a store that holds these blocks. *)
PairsAreTrue(ci) == \A pair \in Pairs(ci) : Contains(pair[2], pair[1])
================================================================================

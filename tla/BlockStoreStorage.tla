--------------------------- MODULE BlockStoreStorage ---------------------------
(***************************************************************************)
(* lib/blockstorestorage/longtail_blockstorestorage.c: a version seen      *)
(* through its content index and a block store, as read-only files.  Read  *)
(* finds the chunks of a range of bytes, from the place in the file where  *)
(* the last Read stopped if it can, and the blocks they are in; a job for  *)
(* each block gets it from the store and copies what the range has of it.  *)
(*                                                                         *)
(* A byte is a chunk and its place in it.  Chunks are counted from 1,      *)
(* bytes of a file from 0, those of the buffer from 1.  A handle is used   *)
(* by one thread.                                                          *)
(***************************************************************************)
EXTENDS WriteContent

CONSTANTS MaxReads,  \* bound on the reads of a behaviour
          Ranges     \* the reads: where each starts, and its size

ASSUME RangesType == Ranges \subseteq Nat \X Nat

VARIABLES
    handle,  \* BlockStoreStorageAPI_OpenFile: asset, m_SeekChunkOffset, m_SeekAssetPos
    read,    \* the last Read: its start and size, and its chunk ranges by block
    copier,  \* ReadFromBlockJobData of each block: m_Err, m_StoredBlock
    buffer,  \* out_buffer
    reads    \* Reads so far

readVars == <<handle, read, copier, buffer, reads>>

FileChunks == call.version[handle.path].chunks
FileSize == SumOver(ChunkSize, FileChunks)

(* m_ChunkAssetOffsets of the file that is open. *)
ChunkAssetOffsets == [c \in DOMAIN FileChunks |-> OffsetOf(FileChunks, c)]

NoRead == [start |-> 0, size |-> 0, ranges |-> <<>>]

OpenReadFile(p) == [path |-> p, chunk |-> 1, pos |-> 0]

(* The last chunk that starts at pos or before it: a search by halves for  *)
(* the first that starts there or behind, among some chunks from one on.   *)
FindStartChunk(pos) ==
    LET a == ChunkAssetOffsets
        n == Len(a)
        parts == {s \in (1..(n + 1)) \X (0..n) : s[1] + s[2] <= n + 1}
        search[s \in parts] ==
          LET step == s[2] \div 2
              it == s[1] + step
          IN  IF s[2] = 0 THEN s[1]
              ELSE IF a[it] < pos THEN search[<<it + 1, s[2] - step - 1>>]
                                  ELSE search[<<s[1], step>>]
        found == search[<<1, n>>]
    IN  IF found = n + 1 \/ a[found] > pos THEN found - 1 ELSE found

(* The handle stays if pos is at its place or in the chunk there.          *)
SeekFile(pos) ==
    LET a == ChunkAssetOffsets
        here == /\ pos >= a[handle.chunk]
                /\ handle.chunk = Len(a) \/ pos < a[handle.chunk + 1]
    IN  IF pos = handle.pos \/ here THEN handle
        ELSE [handle EXCEPT !.chunk = FindStartChunk(pos), !.pos = a[FindStartChunk(pos)]]

(* The chunk in which a read from the handle ends. *)
EndChunk(h, end) ==
    CHOOSE c \in h.chunk..Len(FileChunks) :
        /\ OffsetOf(FileChunks, c + 1) >= end
        /\ \A d \in h.chunk..(c - 1) : OffsetOf(FileChunks, d + 1) < end

(* BlockStoreStorageAPI_ChunkRange of each block: from its first to its    *)
(* last chunk between the handle and the end of the read.  Chunks of other *)
(* blocks may lie between.                                                 *)
ChunkRanges(h, end) ==
    LET within == {c \in DOMAIN FileChunks : h.chunk <= c /\ c <= EndChunk(h, end)}
        chunksOf(b) == {c \in within : BlockOfChunk(call.content, FileChunks[c]) = b}
        blocks == {BlockOfChunk(call.content, FileChunks[c]) : c \in within}
    IN  [b \in blocks |->
           LET first == Min(chunksOf(b))
           IN  [start |-> first, end |-> Max(chunksOf(b)), offset |-> ChunkAssetOffsets[first]]]

(* Mutant of CopyChunk: a chunk of another block is not stepped over.      *)
CopyChunk_NoStep(b, s, c) ==
    LET h == FileChunks[c]
        skipped == IF s.offset < read.start THEN read.start - s.offset ELSE 0
        from == s.offset + skipped - read.start
        length == Min({ChunkSize[h] - skipped, read.start + read.size - s.offset - skipped})
    IN  IF ~Contains(b, h) THEN s
        ELSE [offset |-> s.offset + skipped + length,
              buffer |-> [i \in DOMAIN s.buffer |->
                            IF i > from /\ i <= from + length
                            THEN <<store[b][IndexIn(b, h)], skipped + i - from>>
                            ELSE s.buffer[i]]]

(* What the read has of a chunk is copied: the first chunk without what    *)
(* comes before the read, the last without what comes behind.              *)
CopyChunk(b, s, c) ==
    LET h == FileChunks[c]
        skipped == IF s.offset < read.start THEN read.start - s.offset ELSE 0
        from == s.offset + skipped - read.start
        length == Min({ChunkSize[h] - skipped, read.start + read.size - s.offset - skipped})
    IN  IF ~Contains(b, h) THEN [s EXCEPT !.offset = @ + ChunkSize[h]]
        ELSE [offset |-> s.offset + skipped + length,
              buffer |-> [i \in DOMAIN s.buffer |->
                            IF i > from /\ i <= from + length
                            THEN <<store[b][IndexIn(b, h)], skipped + i - from>>
                            ELSE s.buffer[i]]]

(* The buffer with what the range has of the block: the chunks in it.      *)
ReadFromBlock(b) ==
    LET r == read.ranges[b]
        Copy(s, c) == CopyChunk(b, s, c)
    IN  FoldLeft(Copy, [offset |-> r.offset, buffer |-> buffer],
                 [k \in 1..(r.end - r.start + 1) |-> r.start + k - 1]).buffer

--------------------------------------------------------------------------------
CopyJob(b) == <<"copy", b>>

(* A read within the file: others return EIO, and change nothing.  A read *)
(* of a file without chunks divides by 0 (line 503).                       *)
ReadIsPossible(start, size) ==
    /\ reads < MaxReads
    /\ FileChunks # <<>> /\ start + size <= FileSize

Moved(start, size) ==
    LET h == SeekFile(start)
        last == EndChunk(h, start + size)
    IN  [h EXCEPT !.chunk = last, !.pos = ChunkAssetOffsets[last]]

StartRead(start, size) ==
    /\ ReadIsPossible(start, size)
    /\ LET ranges == ChunkRanges(SeekFile(start), start + size)
           jobs == {CopyJob(b) : b \in DOMAIN ranges}
       IN  /\ read' = [start |-> start, size |-> size, ranges |-> ranges]
           /\ copier' = [b \in DOMAIN ranges |-> [err |-> "ok", block |-> "none"]]
           /\ group' = WaitForJobs(ReadyJobs(CreateJobs(NewGroup(Cardinality(jobs)), jobs), jobs))
    /\ handle' = Moved(start, size)
    /\ buffer' = [i \in 1..size |-> <<0, 0>>]
    /\ reads' = reads + 1
    /\ NoFail
    /\ UNCHANGED <<call, store, put>>

(* ENOMEM; the handle has moved. *)
ReadNoMemory(start, size) ==
    /\ ReadIsPossible(start, size)
    /\ handle' = Moved(start, size)
    /\ reads' = reads + 1
    /\ Fail
    /\ UNCHANGED <<call, store, put, group, read, copier, buffer>>

Copier(b, err, block) == copier' = [copier EXCEPT ![b] = [err |-> err, block |-> block]]

(* The job has no block and no error: it asks the store. *)
CopyStarts(b) == copier[b] = [err |-> "ok", block |-> "none"] /\ CanStart(group, CopyJob(b))

CopyRefused(b) ==
    /\ CopyStarts(b)
    /\ Copier(b, "failed", "none")
    /\ group' = EndJob(group, CopyJob(b))
    /\ Fail
    /\ UNCHANGED buffer

CopyAccepted(b) ==
    /\ CopyStarts(b)
    /\ Copier(b, "ok", "asked")
    /\ group' = BlockJob(group, CopyJob(b))
    /\ NoFail
    /\ UNCHANGED buffer

(* BlockStoreStorageAPI_ReadBlock_OnComplete *)
CopyComplete(b) ==
    /\ copier[b].block = "asked"
    /\ group' = ReadyJobs(group, {CopyJob(b)})
    /\ \/ Copier(b, "ok", "lent") /\ NoFail
       \/ Copier(b, "failed", "none") /\ Fail
    /\ UNCHANGED buffer

CopyGivesUp(b) ==
    /\ copier[b] = [err |-> "failed", block |-> "none"] /\ CanStart(group, CopyJob(b))
    /\ group' = EndJob(group, CopyJob(b))
    /\ NoFail
    /\ UNCHANGED <<copier, buffer>>

(* The job copies, unless it has no memory for its look-up table, and      *)
(* disposes of the block.                                                  *)
CopyEnds(b) ==
    /\ copier[b].block = "lent" /\ CanStart(group, CopyJob(b))
    /\ group' = EndJob(group, CopyJob(b))
    /\ \/ Copier(b, "ok", "disposed") /\ buffer' = ReadFromBlock(b) /\ NoFail
       \/ Copier(b, "failed", "disposed") /\ buffer' = buffer /\ Fail

CopyNext ==
    /\ \E b \in DOMAIN copier : \/ CopyRefused(b) \/ CopyAccepted(b) \/ CopyComplete(b)
                                \/ CopyGivesUp(b) \/ CopyEnds(b)
    /\ UNCHANGED <<call, store, put, handle, read, reads>>

--------------------------------------------------------------------------------
FileBytes ==
    FlattenSeq([c \in DOMAIN FileChunks |->
                  [i \in 1..ChunkSize[FileChunks[c]] |-> <<FileChunks[c], i>>]])

(* The bytes of the range that was asked for. *)
BufferIsExact == buffer = SubSeq(FileBytes, read.start + 1, read.start + read.size)

(* m_Err of some job is set.  Nobody looks at it. *)
CopyFailed == \E b \in DOMAIN copier : copier[b].err # "ok"

ReadType ==
    /\ handle.path \in Paths \ DirPaths
    /\ reads \in 0..MaxReads
    /\ DOMAIN copier = DOMAIN read.ranges
    /\ \A b \in DOMAIN copier : /\ copier[b].err \in {"ok", "failed"}
                                /\ copier[b].block \in {"none", "asked", "lent", "disposed"}
================================================================================

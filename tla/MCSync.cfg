CONSTANTS
    Paths = {1, 2, 3, 4}
    DirPaths = {2}
    ChunkSize <- MCChunkSize
    ChunkTag <- MCChunkTag
    MaxBlockSize = 2
    MaxChunksPerBlock = 2
    Ancestors <- MCAncestors
    Workers = 1
    MaxReaders = 2
    MaxFailures = 1
    MaxReads = 2
    Ranges <- MCRanges
    Inputs <- MCInputs
    Contents <- MCContents
SPECIFICATION Spec
INVARIANTS
    TypeOK
    IndexAlgebra
    UploadKept
    RoundTrip
    ReadsAreExact
    OneWriterPerFile
    BlocksDisposedOnce
    JobsFitReservation
PROPERTIES
    SyncEnds
CHECK_DEADLOCK FALSE

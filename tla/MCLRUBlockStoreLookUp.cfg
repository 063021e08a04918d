CONSTANTS
    r1 = r1
    r2 = r2
    r3 = r3
    h1 = h1
    h2 = h2
    h3 = h3
    g1 = g1
    None = None
    Requests <- MCRequests
    Hashes <- MCHashes
    Flushes <- MCFlushes
    MaxCounts = {1, 2}
SYMMETRY Symmetry
SPECIFICATION Spec
INVARIANTS
    LookUpReadsLiveBlock
CHECK_DEADLOCK FALSE

CONSTANTS
    r1 = r1
    r2 = r2
    r3 = r3
    h1 = h1
    h2 = h2
    g1 = g1
    None = None
    Requests <- MCRequests
    Hashes <- MCHashes
    Flushes <- MCFlushes
SPECIFICATION Spec
INVARIANTS
    ErrorForwardedToOthersOnly
CHECK_DEADLOCK FALSE

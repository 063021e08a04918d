CONSTANTS
    r1 = r1
    r2 = r2
    r3 = r3
    h1 = h1
    h2 = h2
    g1 = g1
    None = None
    Requests <- MCRequests
    Hashes <- MCOneHash
    Flushes <- MCFlushes
SPECIFICATION FairSpec
PROPERTIES
    EveryGetAnswered
    EveryFlushCompletes
CHECK_DEADLOCK FALSE

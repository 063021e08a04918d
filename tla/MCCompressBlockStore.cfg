CONSTANTS
    p1 = p1
    g1 = g1
    a1 = a1
    f1 = f1
    h1 = h1
    h2 = h2
    Puts = {p1}
    Gets = {g1}
    Asks = {a1}
    Flushes = {f1}
    Hashes = {h1, h2}
    Taggings <- MCTaggings
    BlockOf <- MCBlockOf
SPECIFICATION MCSpec
INVARIANTS
    TypeOK
    PendingCountsRequests
    OneTrueOutcome
    BlocksOutliveTheirUse
    FlushCovers
    RetargetFindsStored
    NothingLeftWaiting
CHECK_DEADLOCK FALSE

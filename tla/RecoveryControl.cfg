SPECIFICATION FairSpec
CONSTANTS
    i1 = i1  i2 = i2  i3 = i3  b1 = b1  b2 = b2
    Ids = {i1, i2, i3}
    Bundles = {b1, b2}
    None = None
    Requests <- HostRequests
    LedgerMax = 4
INVARIANTS
    RepliesAgree
    AcquiresOnce
    CommitHasRoom
    StateLoads
    ExecutesProven
PROPERTIES
    ImplementsOneShot
    WatchdogDeathEnds

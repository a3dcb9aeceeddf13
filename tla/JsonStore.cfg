SPECIFICATION FairSpec
CONSTANTS
    p1 = p1
    p2 = p2
    k1 = k1
    k2 = k2
    None = None
    Threads = {p1, p2}
    Stores <- AllStores
    Hashes = {k1, k2}
    Data = {"short", "long"}
    Entries <- TwoEntries
    Bulk <- TwoSizes
    MaxCalls = 3
    MaxFaults = 1
CHECK_DEADLOCK FALSE
INVARIANT TypeOK
INVARIANT NoDuplicates
INVARIANT ParsesIfIntact
PROPERTY Linearizable
PROPERTY SpoiltForGood
PROPERTY CallsReturn

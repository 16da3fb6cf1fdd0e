CONSTANTS
    k1 = k1
    k2 = k2
    k3 = k3
    d1 = d1
    d2 = d2
    d3 = d3
    Keys = {k1, k2, k3}
    Data = {d1, d2, d3}
    NoData = NoData
    NoArg = NoArg
    NoAnswer = NoAnswer
    KeyLen <- OneByte
    DataLen <- DataLens
    Bucket <- Buckets
    Hdr = 16
    Word = 4
    CacheSize = 80
    TTLs = {0, 1}
    Requests <- Adds
    Loads <- Files
    FileLen = 18
    LoadFits = TRUE
    LoopLimit = 2
    MaxTime = 1
SPECIFICATION FairSpec
CHECK_DEADLOCK FALSE
INVARIANTS Layout Chains
PROPERTIES ImplementsFifo AddReturns

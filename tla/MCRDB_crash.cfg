CONSTANTS
    k1 = k1
    k2 = k2
    k3 = k3
    d1 = d1
    d2 = d2
    p1 = p1
    p2 = p2
    Procs = {p1, p2}
    Keys = {k1, k2, k3}
    Data = {d1, d2}
    NoData = NoData
    Torn = Torn
    NoOp = NoOp
    NoProc = NoProc
    Slots = {1, 2}
    Hash <- OneSlot
    GoLeft <- LeftOf
    Size <- Sizes
    InitCdb <- CdbFull
    Requests <- RemoveOps
    JournalSize = 100
    Full = {}
    CrashOps = {"remove"}
    MaxOff = 6
    MaxFault = 2
    ReorgFaults = {}
SPECIFICATION FairSpec
CHECK_DEADLOCK FALSE
PROPERTIES ImplementsKVStore Returns

CONSTANTS
    k1 = k1
    k2 = k2
    k3 = k3
    d1 = d1
    d2 = d2
    p1 = p1
    p2 = p2
    Procs = {p1}
    Keys = {k1, k2, k3}
    Data = {d1, d2}
    NoData = NoData
    Torn = Torn
    NoOp = NoOp
    NoProc = NoProc
    Slots = {1, 2}
    Hash <- TwoSlots
    GoLeft <- LeftOf
    Size <- Sizes
    InitCdb <- CdbSome
    Requests <- SubstOps
    JournalSize = 3
    Full = {"ftruncate"}
    CrashOps = {}
    MaxOff = 10
    MaxFault = 0
    ReorgFaults = {}
SPECIFICATION Spec
CHECK_DEADLOCK FALSE
INVARIANTS SubstituteStores WritesInFile
PROPERTY ImplementsKVStore

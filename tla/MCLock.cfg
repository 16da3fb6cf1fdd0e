CONSTANTS
    Kids = {k1, k2, k3}
    Parent = Parent
    ParentLogs = FALSE
    MaxDepth = 2
    MaxFail = 1
    MaxCrash = 2
    MaxIntr = 1
SPECIFICATION FairSpec
CHECK_DEADLOCK FALSE
INVARIANTS Accounting Drift MutualExclusion
PROPERTY Recovered

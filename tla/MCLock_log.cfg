CONSTANTS
    Kids = {k1, k2}
    Parent = Parent
    ParentLogs = TRUE
    MaxDepth = 1
    MaxFail = 0
    MaxCrash = 1
    MaxIntr = 0
SPECIFICATION FairSpec
CHECK_DEADLOCK FALSE
PROPERTY Recovered

CONSTANTS
    max_connection = 4
    Burst = 2
    Idle = 1
    Parts = 3
    MaxEvents = 3
    MaxFiles = 1
SPECIFICATION FairSpec
INVARIANTS TypeOK Accounting Capacity Registered EdgeKept WriteEdgeKept
PROPERTIES  SilentReleased
CHECK_DEADLOCK FALSE

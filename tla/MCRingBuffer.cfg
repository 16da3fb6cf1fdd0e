CONSTANTS
    p1 = p1
    p2 = p2
    Readers = {p1, p2}
    FD_SETSIZE = 2
    size = 3
    MaxBytes = 4
    MaxOpens = 3
SPECIFICATION FairSpec
INVARIANTS TypeOK  Census
PROPERTIES SkippedOnChange StreamFed
CHECK_DEADLOCK FALSE
CONSTRAINT Unraced

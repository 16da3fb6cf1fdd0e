CONSTANTS
    a1 = a1
    a2 = a2
    a3 = a3
    Alarms = {a1, a2, a3}
    Period <- Periods
SPECIFICATION FairSpec
INVARIANTS TypeOK Ordered Armed SignalKept
PROPERTY AlarmsFire

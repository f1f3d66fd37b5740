SPECIFICATION FairSpec
CHECK_DEADLOCK FALSE
CONSTANTS
    b = b
    s = s
    p = p
    Requests = {b, s, p}
    Mode <- OneOfEach
    Ceiling = 1
    MaxUsage = 1
    MaxFaults = 1
INVARIANTS
    WithinCeiling
    MeasuredIsCharged
    NothingLeaks
    RowTellsTheBill
PROPERTIES
    RequestsSettle

SPECIFICATION SceneSpec
CONSTANTS
    u1 = u1
    r1 = r1
    r2 = r2
    f1 = f1
    f2 = f2
    c1 = c1
    NoOwner = NoOwner
    NoChannel = NoChannel
    Channels = {c1}
    Charges = {2}
    Requests = {r1, r2}
    UserOf <- OneUser
    LastHour = 1
    Month <- TwoMonths
    Flushers = {f1, f2}
    BatchLimit = 2
    MaxFaults = 2
INVARIANTS
    RollupsMatchRows
    OneRowPerMonth
    RecordedIsKept
PROPERTIES
    UsageSettlesAlone

SPECIFICATION Spec
CHECK_DEADLOCK FALSE
CONSTANTS
    b = b
    s = s
    p = p
    Requests = {s}
    Mode <- JustStream
    Ceiling = 2
    MaxUsage = 1
    MaxFaults = 0
INVARIANTS
    AbandonedIsMetered

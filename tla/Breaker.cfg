SPECIFICATION RoutingSpec
CHECK_DEADLOCK FALSE
CONSTANTS
    c1 = c1
    c2 = c2
    r1 = r1
    Channels = {c1, c2}
    Priority <- OneAbove
    Requests = {r1}
    MaxAttempts = 2
    Threshold = 1
    AutoDisable = 2
    MaxEdits = 2
PROPERTIES
    ReenablingClearsTheBreaker

SPECIFICATION SceneSpec
CHECK_DEADLOCK FALSE
CONSTANTS
    r1 = r1
    r2 = r2
    c1 = c1
    c2 = c2
    p1 = p1
    p2 = p2
    Requests = {r1, r2}
    Channels = {c1, c2}
    Pollers = {p1, p2}
    MaxChannels = 2
    Price = 2
    BatchLimit = 1
    MaxPolls = 2
    MaxFaults = 2
INVARIANTS
    OneJobPerRequest
    TasksArePaid
    ChargedForAcceptance
    
PROPERTIES
    EndedTasksRest
    TasksSettleAlone

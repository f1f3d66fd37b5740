SPECIFICATION BenchSpec
CHECK_DEADLOCK FALSE
SYMMETRY Interchangeable
CONSTANTS
    b1 = b1
    b2 = b2
    b3 = b3
    k1 = k1
    n1 = n1
    d1 = d1
    d2 = d2
    u1 = u1
    Absent = Absent
    Unknown = Unknown
    Blank = Blank
    Gone = Gone
    Nil = Nil
    NoLease = NoLease
    MaxLineBytes = 4
    MaxText = 5
    MaxPayload = 2
    MaxEvents = 4
    MaxCalls = 2
    Reports = {1, 2}
    MaxTurns = 3
    MaxSpent = 1
    MaxProxies = 3
    MaxPrepended = 2
    Texts <- SmallTexts
    UpstreamStatuses = {101, 200, 302, 400, 401, 402, 403, 404, 408, 409, 413, 429, 499, 500, 502, 503, 504, 523, 524, 529, 599}
    Requests = {b1, b2}
    Tokens = {k1}
    RpmLimit = 2
    UserRpm = 2
    SuccessLimit = 2
    TpmLimit = 1
    Window = 2
    MaxFailures = 1
    MaxCommands = 4
    MaxNow = 4
    Callers = {b1, b2}
    Books = {n1}
    DocIds = {d1, d2}
    Uniques = {Absent, u1}
    MaxObjects = 2
    MaxSteps = 2
    Calls = {b1, b2}
    MaxSessions = 1
    MaxPatches = 1
    MaxRowWrites = 2
    MaxLoads = 2
    Rows = {b1, b2}
    Paid = 2
    MaxLedgerEvents = 3
    MaxPlans = 2
    ScriptCallers = {b1, b2}
    MaxScripts = 3
    MaxTicks = 2
    Setups = {b1, b2, b3}
    MaxSetupClock = 2
    MaxOwnerEdits = 1
    Seekers = {b1, b2}
    MaxAttempts = 3
    MaxBuilds = 3
    MaxSeconds = 4
    DocumentIds = {d1, d2}
    Missing = Missing
    Null = Null
    NoRow = NoRow
    MaxRank = 2
INVARIANTS
    FramingIsExact
    TranslationIsFaithful
    ConversionIsFaithful
    
    
    
    CoordinationAgrees
    
    ConsoleIsGuarded
    PagesAreCurrent
    
    SetupIsSafe

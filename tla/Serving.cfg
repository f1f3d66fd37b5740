SPECIFICATION ServingSpec
CHECK_DEADLOCK FALSE
CONSTANTS
    c1 = c1
    c2 = c2
    r1 = r1
    l1 = l1
    op = op
    cron = cron
    Unsent = Unsent
    ClientHeaders = {"accept", "authorization", "anthropic-version", "host", "connection"}
    OperatorHeaders = {"accept", "anthropic-version", "content-type", "x-vendor", "host", "api-key"}
    ProviderHeaders = {"content-type", "retry-after", "set-cookie", "content-length", "x-request-id", "connection", "x-ratelimit-remaining-tokens", "x-other"}
    Calls <- SmallCalls
    NoError = NoError
    Sources = {c1, c2}
    Readers = {r1}
    Editors = {op, cron}
    Cron = cron
    MaxServingEdits = 2
    MaxOutages = 2
    Channels = {c1, c2}
    Priority <- OneAbove
    Requests = {r1}
    MaxAttempts = 2
    Threshold = 1
    AutoDisable = 2
    MaxEdits = 2
    Callers = {r1}
    MaxRotations = 1
    MaxWrites = 3
    Lookups = {l1}
    MaxCatalogEdits = 2
    MaxMisreads = 1
    MaxRedirects = 2
    MaxBytes = 3
    MaxMoves = 2
    MaxBody = 3
    MaxJsonNodes = 3
    MaxJsonDepth = 2
    MaxChunks = 3
INVARIANTS
    RoutingIsSound
    AdmittedWasGood
    ForwardingIsSound
    ExchangesStayBounded

    

SPECIFICATION RequestSpec
CHECK_DEADLOCK FALSE
CONSTANTS
    Unsent = Unsent
    ClientHeaders = {"accept"}
    OperatorHeaders = {"accept"}
    ProviderHeaders = {"content-type", "retry-after", "set-cookie", "content-length", "x-request-id", "connection", "x-ratelimit-remaining-tokens", "x-other"}
    Calls <- ClientCalls
INVARIANTS
    StreamsAreAsked

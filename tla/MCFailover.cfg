\* Fail-over between two providers, two concurrent requests, one streaming.
CONSTANTS
    p1 = p1
    p2 = p2
    r1 = r1
    r2 = r2
    Providers = {p1, p2}
    Requests = {r1, r2}
    Streaming = {r1}
    Chains <- MCChains
    MaxAttempts = 2
    RectifyEnabled = TRUE
    Repairable = {r2}
    FailureThreshold = 1
    SuccessThreshold = 2
    MinRequests = 2
    RateNum = 3
    RateDen = 5
    MaxWindow = 1
SPECIFICATION LoadedSpec
INVARIANTS NoRepeatedAttempt BreakerTypeOK BreakerInv
PROPERTIES OpenProviderProtected NoPermanentOutage ImplementsCircuitBreaker

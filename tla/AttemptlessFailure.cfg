\* Both providers half-open at once: is a request ever failed without an attempt?
CONSTANTS
    p1 = p1
    p2 = p2
    r1 = r1
    r2 = r2
    Providers = {p1, p2}
    Requests = {r1}
    Streaming = {r1}
    Chains <- MCChains
    MaxAttempts = 2
    RectifyEnabled = TRUE
    Repairable = {r1}
    FailureThreshold = 1
    SuccessThreshold = 2
    MinRequests = 2
    RateNum = 3
    RateDen = 5
    MaxWindow = 1
SPECIFICATION Spec
INVARIANT FailedOnlyAfterAttempt

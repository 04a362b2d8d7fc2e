\* Is a request ever blocked while tokens are left?
CONSTANTS
    r1 = r1
    r2 = r2
    Requests = {r1, r2}
    TokenLimit = 5
    OverageAction = "block"
    Amounts = {4}
    MaxPeriod = 1
    MaxTokens = 8
SPECIFICATION Spec
PROPERTIES BlockedOnlyWhenUsedUp

\* Two concurrent requests over two periods.
CONSTANTS
    r1 = r1
    r2 = r2
    Requests = {r1, r2}
    TokenLimit = 5
    OverageAction = "downgrade"
    Amounts = {4}
    MaxPeriod = 1
    MaxTokens = 8
SPECIFICATION FairSpec
INVARIANTS AlertNotSilenced
PROPERTIES UsedUpIsNoticed

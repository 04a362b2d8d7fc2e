SPECIFICATION RelaySpec
CONSTANTS
    Links <- MCLinks
    ToolContext <- MCToolContext
    CallOf <- MCCallOf
    PrimeLimit = 2
    WhitespaceThreshold = 2
    MaxEntries = 2
    MaxEntryBytes = 6
INVARIANTS
    ItemsBracketed
    OneEnd
    ContentConserved
    ToolsIntact
    HonestEnd
    SnapshotIsTheAnswer
    ContextKept
    BilledOnce
    PingsBetweenLines
CHECK_DEADLOCK FALSE

SPECIFICATION RelaySpec
CONSTANTS
    Links <- TurnLinks
    ToolContext <- MCToolContext
    CallOf <- MCCallOf
    PrimeLimit = 2
    WhitespaceThreshold = 2
    MaxEntries = 2
    MaxEntryBytes = 6
INVARIANTS
    FailedNotRecorded
CHECK_DEADLOCK FALSE

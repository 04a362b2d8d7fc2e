SPECIFICATION SessionsSpec
CONSTANTS
    Desks <- MCDesks
    Users = {"root", "u"}
    Protected = "root"
    MaxKeys = 1
    MaxBuckets = 3
    IdleEvictAfter = 2
    UserRate = 1
    UserBurst = 2
    IpRate = 2
    IpBurst = 3
INVARIANTS
    OneActiveToken
    EndedStaysEnded
    GuessesBounded
    ProtectedAdminKept
PROPERTY RequestsAnswered
CHECK_DEADLOCK FALSE

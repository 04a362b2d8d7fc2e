SPECIFICATION PlansSpec
CONSTANTS
    Offices <- MCOffices
    Models = {"fast", "slow"}
    Covers <- MCCovers
    Exact = {"fast", "slow"}
    Routed = {"fast", "slow"}
    HoursPerDay = 4
    MonthStarts <- MCMonthStarts
    MaxHours = 7
    MaxPatterns = 3
    Users = {0, 1, 2, 3}
    Protected = 0
    Procs = {"a1", "a2", "worker", "reloader", "reader"}
    Worker = "worker"
    Reloader = "reloader"
    Reader = "reader"
INVARIANTS
    
    ListedAddsNeverDeadlock
    HandAddedStay
PROPERTIES
    AllOrNothing
    PeriodsTile
    DirectoryReachesPlans
    HandlersAnswered
CHECK_DEADLOCK FALSE

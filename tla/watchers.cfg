SPECIFICATION LiveSpec
CONSTANTS
    Sweepers = {"s1", "s2"}
    Leader = "s1"
    Policies = {"on_change", "always"}
    Fingerprints = {"f1", "f2"}
    Price = 2
    Fee = 1
    Budget = 2
    Funds = 6
    MaxErrors = 2
    Interval = 1
    Day = 2
    MaxNow = 3
    MaxFaults = 1
INVARIANTS
    TypeOK
    TickFiresOnce
    BudgetHolds
    PauseStands
PROPERTIES
    ExhaustedEnds
CHECK_DEADLOCK FALSE

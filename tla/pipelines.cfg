SPECIFICATION LiveSpec
CONSTANTS
    N = 3
    Funds = 3
    MaxFaults = 1
    Starts <- MCStarts
INVARIANTS
    TypeOK
    DependenciesFirst
    OnlyLastStepUnpaid
PROPERTIES
    StepChargeEnds
CHECK_DEADLOCK FALSE

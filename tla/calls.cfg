SPECIFICATION LiveSpec
CONSTANTS
    r1 = r1
    r2 = r2
    Requests = {r1, r2}
    NoRequest = NoRequest
    Workers = {"w1"}
    Hosts = {"h1", "h2"}
    Bodies = {"b1", "b2"}
    Mixes <- MCMixes
    BatchSize = 2
    MaxAttempts = 2
    Funds = 2
    MaxFaults = 1
    MaxAgeings = 1
INVARIANTS
    TypeOK
    RefundedKeepsNothing
    KeySpendsOnce
    KeyGivenBack
PROPERTIES
    EveryRequestAnswered
    EveryChargeEnds
CHECK_DEADLOCK FALSE

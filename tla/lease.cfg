SPECIFICATION LiveSpec
CONSTANTS
    w1 = w1
    w2 = w2
    o1 = o1
    o2 = o2
    Workers = {w1, w2}
    NoOwner = NoOwner
    Owners = {o1, o2}
    OwnerOf <- MCOwnerOf
    LeaseChoices = {1, 2}
    DefaultLease = 1
    RetryDelay = 1
    ClaimDeadline = 3
    SLA = 3
    MaxAttempts = 2
    MaxNow = 5
    MaxLease = 6
INVARIANTS
    TypeOK
    ReportUncontested
PROPERTIES
    LiveLeaseRespected
    EveryJobEnds

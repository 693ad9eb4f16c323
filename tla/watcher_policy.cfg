SPECIFICATION Spec
CONSTANTS
    Sweepers = {"s1"}
    Leader = "s1"
    Policies = {"fire_once_per_change"}
    Fingerprints = {"f1", "f2"}
    Price = 2
    Fee = 1
    Budget = 4
    Funds = 9
    MaxErrors = 2
    Interval = 1
    Day = 2
    MaxNow = 3
    MaxFaults = 0
INVARIANT
    FiresOncePerChange
CHECK_DEADLOCK FALSE

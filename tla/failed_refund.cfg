SPECIFICATION LiveSpec
CONSTANTS
    p1 = p1
    p2 = p2
    Procs <- MCSequential
    Kinds = {"complete", "cancel", "timeout", "sweep", "verif_expiry"}
    Outcomes = {"caller_wins"}
    MaxAttempts = 2
    MaxCrashes = 1
    Payout = 9
    Fee = 1
    PartialSplits <- MCPartialSplits
    SplitCaller = 4
    SplitAgent = 5
    JudgeFee = 0
    PlatformFloat = 0
PROPERTY
    FailedJobRefunded

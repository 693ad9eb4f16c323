SPECIFICATION Spec
CONSTANTS
    p1 = p1
    p2 = p2
    Procs <- MCProcs
    Kinds = {"complete", "master_complete", "fail", "master_fail", "cancel",
             "timeout", "retry", "proceed", "verif_expiry", "sweep", "accept",
             "reject", "compare_loser", "file", "sla", "clarify_fail", "claim_deadline",
             "startup", "close_agent", "judge", "admin"}
    Outcomes = {"agent_wins", "split"}
    MaxAttempts = 2
    MaxCrashes = 0
    Payout = 9
    Fee = 1
    PartialSplits <- MCPartialSplits
    SplitCaller = 4
    SplitAgent = 5
    JudgeFee = 0
    PlatformFloat = 0
SYMMETRY Symmetry
INVARIANTS
    TypeOK
    ChargeLegsExact
    SettledMeansDistributed
    StatusPaidAlike
    MintsOnlyCrossed
    DrainedUnlessCrossed
PROPERTY
    ChargeLives

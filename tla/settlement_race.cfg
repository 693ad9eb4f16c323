SPECIFICATION Spec
CONSTANTS
    p1 = p1
    p2 = p2
    Procs <- MCProcs
    Kinds = {"complete", "sla"}
    Outcomes = {"caller_wins"}
    MaxAttempts = 2
    MaxCrashes = 0
    Payout = 9
    Fee = 1
    PartialSplits <- MCPartialSplits
    SplitCaller = 4
    SplitAgent = 5
    JudgeFee = 0
    PlatformFloat = 0
INVARIANT
    SettlementMatchesStatus

SPECIFICATION LiveSpec
CONSTANTS
    p1 = p1
    p2 = p2
    Procs <- MCSequential
    Kinds = {"complete", "master_complete", "fail", "master_fail", "cancel",
             "timeout", "retry", "proceed", "verif_expiry", "sweep", "accept",
             "reject", "compare_winner", "file", "sla", "clarify_fail", "claim_deadline",
             "startup", "close_agent", "judge", "admin", "tie_timeout"}
    Outcomes = {"caller_wins", "agent_wins"}
    MaxAttempts = 2
    MaxCrashes = 1
    Payout = 9
    Fee = 1
    PartialSplits = {}
    SplitCaller = 4
    SplitAgent = 5
    JudgeFee = 1
    PlatformFloat = 1
INVARIANTS
    JudgedRulingStands
PROPERTIES
    CompletedJobSettles
    DisputeEnds

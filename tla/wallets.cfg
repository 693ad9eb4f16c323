SPECIFICATION Spec
CONSTANTS
    j1 = j1
    j2 = j2
    j3 = j3
    j4 = j4
    j5 = j5
    Jobs = {j1, j2, j3, j4, j5}
    Unheld = {j5}
    Orders <- MCOrders
    NoJob = NoJob
    Payer <- MCPayer
    Payee <- MCPayee
    Clients = {"c1"}
    Withdrawals = {"w1"}
    Keys = {"k1"}
    Funds <- MCFunds
    Payout = 2
    Fee = 1
    CurvePct = {40, 100}
    Outcomes = {"caller_wins", "agent_wins", "void"}
    KeyCap = 6
    DailyLimit = 6
    SessionBudget = 6
    GuarantorCap = 2
    FilingDeposit = 1
    Amounts = {2}
    Day = 1
    Window = 1
    FileWindow = 1
    MaxSent = 2
    ResetTimes = {1}
    MaxNow = 2
SYMMETRY Symmetry
INVARIANTS
    TypeOK
    HeldMatchesHolds
    OpenWindowIsHeld
    AgentLosesOnce
    CentsConserved
    KeySpendExact
    HoldsBackedUnlessSpent
CHECK_DEADLOCK FALSE

SPECIFICATION Spec
CONSTANTS
    Prices <- MCPrices
    FeePcts <- MCFeePcts
    Fractions <- MCFractions
    Backends = {"sqlite", "postgres"}
INVARIANTS
    LedgerBalances
    DriftIsStrayLeg
    CallerGetsHalf
    ActualPriceCharged

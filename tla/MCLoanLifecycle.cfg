\* One loan of 3 or 8 atoms over four ticks, paid in any installments.
CONSTANTS
    SCALE = 4
    BPS_PER_UNIT = 10
    SECONDS_PER_YEAR = 2
    Principals = {3, 8}
    LenderRates = {5}
    Spreads = {0, 3}
    CuratorFees = {4}
    Collaterals = {9}
    Prices <- MCPrices
    ShareValues = {4, 5}
    OriginationBps = 2
    ProtocolBps = 7
    KeeperBps = 2
    LiquidationLtv = 8
    Term = 1
    GracePeriod = 1
    MinPartialRepay = 2
    MaxTime = 4
SPECIFICATION Spec
INVARIANTS
    TypeOK
    LoanConservation
    DebtPathIndependent
    FeeSplitRespected
    ClosedIffPaid
    EncumbranceCoversLoan
    SeatBackedByAccount
    FullRepayRefusedOnlyForDust
PROPERTIES CollateralLeavesAgainstDebt
CHECK_DEADLOCK FALSE

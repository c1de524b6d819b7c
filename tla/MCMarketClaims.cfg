\* Expected to fail: fees booked against the last installment.
CONSTANTS
    SCALE = 1
    BPS_PER_UNIT = 10
    SECONDS_PER_YEAR = 1
    MaxSubVaults = 1
    MaxLoans = 2
    MaxTime = 2
    MaxShares = 4
    Depositors = {d1}
    DepositAmounts = {4}
    BurnAmounts = {4}
    AskRates = {10}
    BidRates = {10}
    Demands = {2}
    Installments = {4}
    WithdrawAmounts = {1}
    ShareValues = {1}
    FeeFloorBps = 10
    OriginationBps = 5
    ProtocolBps = 5
    CuratorFeeBps = 0
    Term = 0
    MinPartialRepay = 1
SPECIFICATION Spec
INVARIANTS
    MarketClaimsBacked
CHECK_DEADLOCK FALSE

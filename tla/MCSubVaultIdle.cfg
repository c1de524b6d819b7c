\* Expected to fail: the spare atoms of two promotions.
CONSTANTS
    SCALE = 1
    BPS_PER_UNIT = 10
    SECONDS_PER_YEAR = 1
    MaxSubVaults = 2
    MaxLoans = 2
    MaxTime = 1
    MaxShares = 8
    Depositors = {d1}
    DepositAmounts = {4}
    BurnAmounts = {4}
    AskRates = {5}
    BidRates = {5}
    Demands = {2}
    Installments = {1}
    WithdrawAmounts = {}
    ShareValues = {1}
    FeeFloorBps = 3
    OriginationBps = 5
    ProtocolBps = 5
    CuratorFeeBps = 4
    Term = 1
    MinPartialRepay = 1
SPECIFICATION Spec
INVARIANTS
    VaultIdleInvariant
CHECK_DEADLOCK FALSE

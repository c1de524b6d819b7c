\* Expected to fail, without interest or fees: pending_claim outlives what there is to sweep.
CONSTANTS
    SCALE = 1
    BPS_PER_UNIT = 10
    SECONDS_PER_YEAR = 1
    MaxSubVaults = 1
    MaxLoans = 2
    MaxTime = 1
    MaxShares = 4
    Depositors = {d1}
    DepositAmounts = {4}
    BurnAmounts = {4}
    AskRates = {10}
    BidRates = {10}
    Demands = {2}
    Installments = {1}
    WithdrawAmounts = {1}
    ShareValues = {1}
    FeeFloorBps = 0
    OriginationBps = 0
    ProtocolBps = 0
    CuratorFeeBps = 0
    Term = 0
    MinPartialRepay = 1
SPECIFICATION Spec
INVARIANTS
    PendingIsUnswept
CHECK_DEADLOCK FALSE

\* Two depositors, one loan over two intervals, its yield a fraction of an atom in each,
\* a share value that moves both ways by 3/2.
CONSTANTS
    SCALE = 2
    BPS_PER_UNIT = 10
    SECONDS_PER_YEAR = 1
    MaxSubVaults = 1
    MaxLoans = 1
    MaxTime = 3
    MaxShares = 5
    Depositors = {d1, d2}
    DepositAmounts = {3}
    BurnAmounts = {1}
    AskRates = {5}
    BidRates = {10}
    Demands = {2}
    Installments = {2}
    WithdrawAmounts = {}
    ShareValues = {2, 3}
    FeeFloorBps = 5
    OriginationBps = 0
    ProtocolBps = 5
    CuratorFeeBps = 5
    Term = 0
    MinPartialRepay = 1
SPECIFICATION Spec
INVARIANTS
    TypeOK
    SharesMatchPositions
    NoOwnerlessCapital
    AssetsCoverPrincipal
PROPERTIES
    NoDilution
CHECK_DEADLOCK FALSE
SYMMETRY DepositorSymmetry

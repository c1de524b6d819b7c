\* Two sub-vaults and two loans over one marginfi account, no time passing.
CONSTANTS
    SCALE = 1
    BPS_PER_UNIT = 10
    SECONDS_PER_YEAR = 1
    MaxSubVaults = 2
    MaxLoans = 2
    MaxTime = 1
    MaxShares = 4
    Depositors = {d1}
    DepositAmounts = {2}
    BurnAmounts = {}
    AskRates = {10}
    BidRates = {10}
    Demands = {2}
    Installments = {1}
    WithdrawAmounts = {1}
    ShareValues = {1}
    FeeFloorBps = 5
    OriginationBps = 5
    ProtocolBps = 5
    CuratorFeeBps = 5
    Term = 0
    MinPartialRepay = 2
SPECIFICATION Spec
INVARIANTS
    VaultSolvent
    LedgerMatchesLoans
    CountersMatchBook
    NoOrphans
CHECK_DEADLOCK FALSE

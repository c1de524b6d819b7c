CONSTANTS
    SCALE = 10
    BPS_PER_UNIT = 10
    v1 = v1
    v2 = v2
    b1 = b1
    b2 = b2
    Borrowers = {b1, b2}
    SubVaults = {v1, v2}
    Curator <- MCCurator
    Bids <- MCBids
    Policies <- MCPolicies
    Worlds <- MCWorlds
    InitWorld <- MCInitWorld
    InitPolicy <- MCInitPolicy
    InitIdle <- MCInitIdle
    IdleLevels = {}
    Funded = {b1}
    InitDeposit = 6
    Sunsettable = {v2}
    Quoting = {v1}
    DepositAtoms = {7}
    Budgets = {1}
    FeeFloorBps = 1
    U16_MAX = 9
    DebtWeight = 12
    CollWeight = 8
    MaxOrders = 3
    MaxTime = 3
    MaxCollateral = 61
    NIL = NIL
    GracePeriod = 0
    KeeperBps = 1
    MinPartialRepay = 2
    DebtWeightMaint = 11
    CollWeightMaint = 9
    RepayAmounts = {2}
    Refinances <- MCRefinances
SPECIFICATION PoolSpec
INVARIANTS
    LiabilityAttributed
    SeatsBacked
    ConversionsComplete
PROPERTIES
    FillsHonourTerms
CHECK_DEADLOCK FALSE

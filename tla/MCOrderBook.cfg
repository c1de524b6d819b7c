CONSTANTS
    SCALE = 10
    BPS_PER_UNIT = 10
    v1 = v1
    v2 = v2
    b1 = b1
    b2 = b2
    Borrowers = {b1, b2}
    SubVaults = {v1, v2}
    Curator <- MCCurator
    Bids <- MCBids
    Policies <- MCPolicies
    Worlds <- MCWorlds
    InitWorld <- MCInitWorld
    InitPolicy <- MCInitPolicy
    InitIdle <- MCInitIdle
    IdleLevels = {5}
    Funded = {b1, b2}
    InitDeposit = 5
    Sunsettable = {v1}
    Quoting = {v1}
    DepositAtoms = {}
    Budgets = {1}
    FeeFloorBps = 1
    U16_MAX = 7
    DebtWeight = 12
    CollWeight = 8
    MaxOrders = 3
    MaxTime = 2
    MaxCollateral = 0
    NIL = NIL
SPECIFICATION FairSpec
INVARIANTS
    TypeOK
    EncumbranceExact
    SeatsBacked
    BlocksAccounted
    WalksComplete
    BorrowCountExact
    OrdersAddressable
PROPERTIES
    NeverWalksPastACross
    FillsHonourTerms
    CrossesGetFilled
CHECK_DEADLOCK FALSE

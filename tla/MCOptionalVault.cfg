\* Expected to fail: a bid placed without the vault account.
CONSTANTS
    SCALE = 10
    BPS_PER_UNIT = 10
    v1 = v1
    v2 = v2
    b1 = b1
    b2 = b2
    Borrowers = {b1, b2}
    SubVaults = {v1, v2}
    Curator <- MCCurator
    Bids <- MCBids
    Policies <- MCPolicies
    Worlds <- MCWorlds
    InitWorld <- MCInitWorld
    InitPolicy <- MCInitPolicy
    InitIdle <- MCInitIdle
    IdleLevels = {}
    Funded = {b1}
    InitDeposit = 5
    Sunsettable = {}
    Quoting = {v1}
    DepositAtoms = {}
    Budgets = {1}
    FeeFloorBps = 1
    U16_MAX = 7
    DebtWeight = 12
    CollWeight = 8
    MaxOrders = 2
    MaxTime = 1
    MaxCollateral = 0
    NIL = NIL
SPECIFICATION Spec
PROPERTIES
    EveryPlacementTakes
CHECK_DEADLOCK FALSE

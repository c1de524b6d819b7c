CONSTANTS
    k1 = k1
    k2 = k2
    m1 = m1
    v1 = v1
    Keys = {k1, k2}
    Borrowers = {k2}
    UpgradeAuthority = k1
    Markets = {m1}
    Vaults = {v1}
    DebtBank <- MCDebtBank
    Policies <- MCPolicies
    PolicyOverrides <- MCPolicyOverrides
    FeeDefault <- MCFeeDefault
    FeeCap <- MCFeeCap
    FeeOverrides <- MCFeeOverrides
    BPS_PER_UNIT = 10
    MIN_LIQ_GAP_BPS = 2
    MaxSubVaults <- MCMaxSubVaults
    MaxLoans = 1
    Edited <- MCEdited
    MaxEdits = 2
    GLOBAL_CONFIG = GLOBAL_CONFIG
    Foreign = Foreign
    NIL = NIL
SPECIFICATION Spec
VIEW NoMoved
INVARIANTS
    TermsSound
PROPERTIES
    HandoverAuthorised
    OnlyOpenScopesMove
CHECK_DEADLOCK FALSE

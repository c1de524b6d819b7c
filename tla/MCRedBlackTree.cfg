CONSTANTS
    N = 9
    Key <- MCKey
SPECIFICATION Spec
INVARIANTS
    LinksAgree
    RedBlackRules
    LookupFinds
    MaxIsRightmost
PROPERTIES
    ImplementsPriorityList

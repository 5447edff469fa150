\* A FOK order that finds nothing to trade with stays in orders_ unlinked.
CONSTANTS
    o1 = o1
    o2 = o2
    o3 = o3
    o4 = o4
    Ids <- MCIds
    Prices <- MCPrices
    Qtys <- MCQtys
    OrderTypes <- MCLimitFok
    PoolSize = 3
    MaxTrades = 2
    MaxCalls = 4
SYMMETRY MCSymmetry
SPECIFICATION Spec
INVARIANT BookIndexConsistent
CHECK_DEADLOCK FALSE

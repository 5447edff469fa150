\* Limit orders only: a resting order consumed by a fill keeps its quantity in
\* its level total_quantity.
CONSTANTS
    o1 = o1
    o2 = o2
    o3 = o3
    o4 = o4
    Ids <- MCIds
    Prices <- MCPrices
    Qtys <- MCQtys
    OrderTypes <- MCLimitOnly
    PoolSize = 3
    MaxTrades = 2
    MaxCalls = 4
SYMMETRY MCSymmetry
SPECIFICATION Spec
INVARIANT LevelTotalsExact
CHECK_DEADLOCK FALSE

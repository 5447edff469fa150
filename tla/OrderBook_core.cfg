\* Limit, Market and IOC orders; the trade buffer holds as many trades as the
\* largest order can make, so the cap is reached but never cuts a walk
\* short (book_fok lowers it to 1, where it does).
CONSTANTS
    o1 = o1
    o2 = o2
    o3 = o3
    o4 = o4
    Ids <- MCIds
    Prices <- MCPrices
    Qtys <- MCQtys
    OrderTypes <- MCTypesNoFok
    PoolSize = 3
    MaxTrades = 2
    MaxCalls = 4
SYMMETRY MCSymmetry
SPECIFICATION Spec
INVARIANTS
    TypeOK
    BookIndexConsistent
    PoolConserved
    BestPricesCached
    TimePriority
PROPERTIES
    TradesWithinLimit
CHECK_DEADLOCK FALSE

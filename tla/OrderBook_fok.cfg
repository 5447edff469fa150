\* Limit and FOK orders: FOK orders that fill, that roll back after partial
\* fills and that find nothing to trade with.  Only properties the FOK paths
\* do not break are checked here; the others have their own violation runs.
\* The trade buffer holds one trade, so MAX_TRADES_PER_MATCH cuts walks short
\* while the next resting order is still marketable.
CONSTANTS
    o1 = o1
    o2 = o2
    o3 = o3
    o4 = o4
    Ids <- MCIds
    Prices <- MCPrices
    Qtys <- MCQtys
    OrderTypes <- MCLimitFok
    PoolSize = 3
    MaxTrades = 1
    MaxCalls = 3
SYMMETRY MCSymmetry
SPECIFICATION Spec
INVARIANTS
    PoolConserved
    CrossedOnlyByCap

    
CHECK_DEADLOCK FALSE

CONSTANTS
    MM = MM
    Pairs = Pairs
    Strats <- MCStrats
    Base <- MCBase
    MaxOrders <- MCMaxOrders
    Exchanges <- MCExchanges
    RoutingStrategies <- MCRoutingStrategies
SPECIFICATION Spec
INVARIANT RestingOrdersReachable
\* Every strategy stops after MaxOrders ids.
CHECK_DEADLOCK FALSE

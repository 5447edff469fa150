\* The whole order path: risk gate, order queue, engine thread with its rate
\* limiter and drain, venues, report queue, tracker and drawdown monitor.
CONSTANTS
    MaxInstruments = 1
    FillPrices <- MCFillPrices
    OrderQtys <- MCOrderQtys
    OrderPrices <- MCOrderPrices
    MarketPrices <- MCMarketPrices
    MaxOrderSize = 2
    MaxPositionPerInstrument = 2
    MaxTotalPosition = 2
    MaxCapital = 4
    MaxOrdersPerSecond = 2
    MaxPriceDeviationPct = 20
    MaxDrawdownPct = 50
    WindowTicks = 1
    OrderQCap = 1
    ReportQCap = 1
    EngineMaxPerSec = 2
    MaxTicks = 1
    MaxChecks = 4
SPECIFICATION Spec
INVARIANTS
    RateWithinWindow
    EngineRateWithinWindow
    AccountingIdentity
PROPERTIES
    NoApprovalAfterDrawdown
    OrdersEventuallyProcessed
CHECK_DEADLOCK FALSE

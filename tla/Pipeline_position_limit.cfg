\* Pipeline: a counterexample to PositionWithinLimit.
CONSTANTS
    MaxInstruments = 1
    FillPrices <- MCFillPrices
    OrderQtys <- MCOrderQtys
    OrderPrices <- MCOrderPrices
    MarketPrices <- MCMarketPrices
    MaxOrderSize = 2
    MaxPositionPerInstrument = 2
    MaxTotalPosition = 2
    MaxCapital = 4
    MaxOrdersPerSecond = 2
    MaxPriceDeviationPct = 20
    MaxDrawdownPct = 50
    WindowTicks = 1
    OrderQCap = 1
    ReportQCap = 1
    EngineMaxPerSec = 1
    MaxTicks = 2
    MaxChecks = 4
SPECIFICATION Spec
INVARIANT
    PositionWithinLimit
CHECK_DEADLOCK FALSE

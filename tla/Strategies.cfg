\* The three strategies fed by market data and execution reports.
CONSTANTS
    MdBids <- MCMdBids
    MdAsks <- MCMdAsks
    MaxMd = 4
    BaseSpreadBps = 10
    MaxInventory = 2
    MMOrderSize = 1
    SkewPct = 50
    VolMinSamples = 2
    VolMults <- MCVolMults
    MidCap = 3
    HedgeRatio = 1
    PairsOrderSize = 1
    EntryZ = 20
    ExitZ = 5
    ZScores <- MCZScores
    MinSpreads = 2
    SpreadCap = 2
    SlowWindow = 2
    MomOrderSize = 1
    BreakoutBps = 5
    Signals <- MCSignals
    MaxPriceDeviationPct = 5
SPECIFICATION Spec
INVARIANTS
    WindowsMatchHistory
    QuotesStraddleFair
CHECK_DEADLOCK FALSE

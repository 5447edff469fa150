CONSTANTS
    Walk <- MCWalk
    LastOffsets <- MCLastOffsets
    QtyFactors <- MCQtyFactors
    MaxMsgs <- MCMaxMsgs
    Latencies <- MCLatencies
    TrackerCap <- MCTrackerCap
SPECIFICATION Spec
INVARIANT TypeOK
INVARIANT MdMatchesFeed
INVARIANT FixedPriceRoundTrip
INVARIANT LatencyStatsMatchWindow
INVARIANT HistogramMatchesSamples
\* The loop ends at the simulation deadline.
CHECK_DEADLOCK FALSE

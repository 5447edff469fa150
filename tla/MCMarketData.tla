---------------------------- MODULE MCMarketData ----------------------------
EXTENDS MarketData

\* Mids a random-walk step reaches (mills): one under the 0.01 floor, where
\* AAPL's bid is -0.99 and GOOG's -1.49; one where the bid is just above
\* zero; and one near AAPL's start whose bid and ask print on a tie.
MCWalk == {5, 1250, 15000005}
MCLastOffsets == {-15, 200}
MCQtyFactors == {1, 2}
MCMaxMsgs == 3
\* Tick-to-trade latencies of 9 and 1000000 ns: the first and the last
\* bucket, the latter exactly at its 10^6 bound.  Two samples per
\* tracker, so three passes wrap it.
MCLatencies == {<<4, 5>>, <<95, 999905>>}
MCTrackerCap == 2
=============================================================================

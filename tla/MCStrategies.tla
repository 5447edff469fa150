---------------------------- MODULE MCStrategies ----------------------------
(* Model values and bounds for checking Strategies with TLC.               *)
EXTENDS Strategies

MCMdBids == {1, 2}
MCMdAsks == {2, 3}
MCVolMults == {5}
MCZScores == {-30, 30}
MCSignals == {-10, 10}
=============================================================================

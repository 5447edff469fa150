----------------------------- MODULE MCPipeline -----------------------------
(* Model values and bounds for checking Pipeline with TLC.                 *)
EXTENDS Pipeline

MCFillPrices == {100, 150}
MCOrderQtys == {1, 2}
MCOrderPrices == {100, 150}
MCMarketPrices == {100}
=============================================================================

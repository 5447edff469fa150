---------------------------- MODULE MCOrderBook ----------------------------
(* Model-checking instance of OrderBook: order ids are model values (only  *)
(* compared for equality, so they are symmetric), two prices, two          *)
(* quantities, a pool of three entries.                                    *)
EXTENDS OrderBook, TLC

CONSTANTS o1, o2, o3, o4

MCIds == {o1, o2, o3, o4}
MCPrices == {1, 2}
MCQtys == {1, 2}
MCSymmetry == Permutations(MCIds)
\* Order types that rest or cancel cleanly; FOK is checked in its own runs.
MCTypesNoFok == {"Limit", "Market", "IOC"}
MCLimitFok == {"Limit", "FOK"}
MCLimitOnly == {"Limit"}
=============================================================================

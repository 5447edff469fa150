------------------------------ MODULE MCRouter ------------------------------
EXTENDS Router

CONSTANTS MM, Pairs

\* base_order_id is 100000 for the market maker and 200000 for pairs
\* trading: one strategy's range is 100000 ids wide.  Scaled to 2 ids, the
\* market maker's third order takes the pairs strategy's first id.
MCStrats == {MM, Pairs}
MCBase == [s \in MCStrats |-> IF s = MM THEN 1 ELSE 3]
MCMaxOrders == 3

\* default_config's first num_exchanges = 2 venues.
MCExchanges == << [id |-> 0, latency_ns |-> 500, enabled |-> TRUE],
                  [id |-> 1, latency_ns |-> 300, enabled |-> TRUE] >>
MCRoutingStrategies == {"BestPrice", "LowestLatency", "RoundRobin"}

=============================================================================

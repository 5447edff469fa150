------------------------------- MODULE Router -------------------------------
(***************************************************************************)
(* The order router of the execution engine (src/src/order_router.cpp)    *)
(* with the venues behind it (src/src/exchange_simulator.cpp) and the      *)
(* order ids the strategies give their orders                              *)
(* (src/include/strategy/strategy_interface.hpp).                          *)
(*                                                                         *)
(* The router keeps order_exchange_map_, the venue each order id was sent  *)
(* to, and a venue's book keeps orders_, its own index from order id to    *)
(* book entry.  Both are keyed by the bare id, and each strategy numbers   *)
(* its orders from its own base_order_id.  A venue's book is abstracted to *)
(* that index and the set of entries resting in its levels; the matching   *)
(* itself (OrderBook) only decides which resting entries a new order       *)
(* consumes and whether the new order rests, which is chosen freely here.  *)
(* An order is the pair <<strategy, id>>: the entry the book allocates for *)
(* it.  Every order the strategies send is a Limit order, so an order that *)
(* is neither rejected nor filled rests.                                   *)
(***************************************************************************)
EXTENDS Integers, Sequences, FiniteSets, Functions, TLC

CONSTANTS
    Strats,            \* the strategies that allocate order ids
    Base,              \* [Strats -> Nat]: each strategy's params.base_order_id
    MaxOrders,         \* ids each strategy allocates in a behaviour
    Exchanges,         \* the venues' ExchangeConfig: [id, latency_ns, enabled]
    RoutingStrategies  \* the values of OrderRouter::RoutingStrategy

VARIABLES
    next_order_id,     \* [Strats -> Nat]: StrategyBase::next_order_id_
    routing,           \* OrderRouter::strategy_
    round_robin_idx,   \* OrderRouter::round_robin_idx_
    order_exchange_map,\* OrderRouter::order_exchange_map_: id -> ExchangeId
    orders,            \* [venue -> (id -> order)]: each venue book's orders_
    resting            \* [venue -> SUBSET order]: the entries in its levels

vars == <<next_order_id, routing, round_robin_idx, order_exchange_map, orders, resting>>

Venues == 1..Len(Exchanges)

\* The ids of orders: bare ids, which say nothing of their strategy.
IdOf(o) == o[2]

-----------------------------------------------------------------------------

\* The strategy's constructor sets next_order_id_ to base_order_id; the
\* engine adds num_exchanges venues through add_exchange; strategy_ is
\* RoundRobin and the cursor 0.
Init ==
    /\ next_order_id = Base
    /\ routing = "RoundRobin"
    /\ round_robin_idx = 0
    /\ order_exchange_map = <<>>
    /\ orders = [v \in Venues |-> <<>>]
    /\ resting = [v \in Venues |-> {}]

\* alloc_order_id: the strategy takes the next id, in generate_orders and
\* before the risk check, so an order that is never routed uses one too.
AllocOrderId(s) == next_order_id[s]

\* select_exchange: the venue and the new round-robin cursor.  Lowest
\* latency takes the first enabled venue of least latency_ns, or the first
\* venue when none is enabled; best price falls through to round robin,
\* which takes the cursor's venue without looking at enabled.
SelectExchange(strategy, rr) ==
    LET n == Len(Exchanges)
        enabled == {v \in Venues : Exchanges[v].enabled}
        Lat(v) == Exchanges[v].latency_ns
    IN IF strategy = "LowestLatency"
       THEN [venue |-> IF enabled = {} THEN 1
                       ELSE CHOOSE v \in enabled :
                              \A w \in enabled : Lat(v) < Lat(w) \/ (Lat(v) = Lat(w) /\ v <= w),
             rr |-> rr]
       ELSE [venue |-> (rr % n) + 1, rr |-> (rr + 1) % n]

\* OrderBook::add_order as a venue's submit_order drives it, on the index:
\* orders_[id] is set to the new entry before matching; each resting entry
\* the match fills is erased by its id; the new entry is erased by its id
\* unless it rests.
BookAdd(idx, o, consumed, rests) ==
    LET set == (IdOf(o) :> o) @@ idx
        matched == RestrictDomain(set, LAMBDA k : k \notin {IdOf(r) : r \in consumed})
    IN IF rests THEN matched ELSE RestrictDomain(matched, LAMBDA k : k # IdOf(o))

\* submit_order at venue v: the fill-probability draw rejects the order
\* and leaves the book alone, or add_order matches it: it consumes at most
\* one of the venue's resting entries here, and then rests (no fill or a
\* partial one) or is done (filled).
SubmitOrder(v, o) ==
    \/ UNCHANGED <<orders, resting>>
    \/ \E consumed \in {{}} \cup {{r} : r \in resting[v]}, rests \in BOOLEAN :
         /\ orders' = [orders EXCEPT ![v] = BookAdd(@, o, consumed, rests)]
         /\ resting' = [resting EXCEPT ![v] = (@ \ consumed) \cup (IF rests THEN {o} ELSE {})]

\* exchange cancel_order: the book cancels the entry its orders_ holds for
\* the id (Cancelled); with no entry it answers Rejected and nothing changes.
CancelAtVenue(v, id) ==
    /\ id \in DOMAIN orders[v]
    /\ resting' = [resting EXCEPT ![v] = @ \ {orders[v][id]}]
    /\ orders' = [orders EXCEPT ![v] = RestrictDomain(@, LAMBDA k : k # id)]

\* A strategy's order is risk-rejected, throttled or dropped on a full
\* queue: only its id is used up.
OrderNotRouted(s) ==
    /\ next_order_id[s] < Base[s] + MaxOrders
    /\ next_order_id' = [next_order_id EXCEPT ![s] = @ + 1]
    /\ UNCHANGED <<routing, round_robin_idx, order_exchange_map, orders, resting>>

\* route_order: select a venue, record order_exchange_map_[id] and submit.
RouteOrder(s) ==
    LET id == AllocOrderId(s)
        o == <<s, id>>
        sel == SelectExchange(routing, round_robin_idx)
        v == sel.venue
    IN /\ id < Base[s] + MaxOrders
       /\ Exchanges # <<>>
       /\ next_order_id' = [next_order_id EXCEPT ![s] = @ + 1]
       /\ round_robin_idx' = sel.rr
       /\ order_exchange_map' = (id :> Exchanges[v].id) @@ order_exchange_map
       /\ SubmitOrder(v, o)
       /\ UNCHANGED routing

\* cancel_order for an id the router has mapped (an unmapped id is
\* Rejected with no change): the first venue with that ExchangeId cancels,
\* and the router erases the mapping only when it answers Cancelled.
CancelOrder(id) ==
    LET eid == order_exchange_map[id]
        found == {v \in Venues : Exchanges[v].id = eid}
    IN /\ id \in DOMAIN order_exchange_map
       /\ found # {}
       /\ CancelAtVenue(CHOOSE w \in found : \A u \in found : w <= u, id)
       /\ order_exchange_map' = RestrictDomain(order_exchange_map, LAMBDA k : k # id)
       /\ UNCHANGED <<next_order_id, routing, round_robin_idx>>

\* set_routing_strategy.
SetRoutingStrategy(r) ==
    /\ routing' = r
    /\ UNCHANGED <<next_order_id, round_robin_idx, order_exchange_map, orders, resting>>

Next ==
    \/ \E s \in Strats : OrderNotRouted(s) \/ RouteOrder(s)
    \/ \E id \in DOMAIN order_exchange_map : CancelOrder(id)
    \/ \E r \in RoutingStrategies : SetRoutingStrategy(r)

Spec == Init /\ [][Next]_vars

-----------------------------------------------------------------------------

\* Spec 4.8 and I1: cancel_order reaches every resting order, because the
\* router maps its id to the venue it rests at and that venue's orders_ maps
\* the id to its entry.  Order ids are keyed bare in both maps, while each
\* strategy counts up from its own base, so once one strategy's count runs
\* into the next one's base a new order overwrites a live one's entries.
RestingOrdersReachable ==
    \A v \in Venues : \A o \in resting[v] :
        /\ IdOf(o) \in DOMAIN order_exchange_map
        /\ order_exchange_map[IdOf(o)] = Exchanges[v].id
        /\ IdOf(o) \in DOMAIN orders[v]
        /\ orders[v][IdOf(o)] = o

=============================================================================

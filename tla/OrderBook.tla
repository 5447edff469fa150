----------------------------- MODULE OrderBook -----------------------------
(***************************************************************************)
(* The price-time priority matching engine of one instrument               *)
(* (src/src/order_book.cpp), with the intrusive FIFO of a price level      *)
(* (price_level.hpp) and the slab pool owning every entry                  *)
(* (memory_pool.hpp).                                                      *)
(*                                                                         *)
(* The book is used by one thread, so every public call is a sequence of   *)
(* steps of that thread: add_order and modify_order start a matching walk  *)
(* (phase "Walk") made of one step per iteration of the loops of           *)
(* try_match_limit / try_match_market, and end with the post-processing of *)
(* match_order (Finish).  No other call interleaves with a walk.           *)
(*                                                                         *)
(* Pointers are slot indices of the pool, nullptr is Null.  The pool's     *)
(* free list is the sequence of slots reached from free_head_.             *)
(***************************************************************************)
EXTENDS Integers, Sequences, FiniteSets, FiniteSetsExt, Functions

CONSTANTS
    Ids,         \* order ids the caller may submit (each at most once)
    Prices,      \* limit prices (positive integers)
    Qtys,        \* order quantities (positive integers)
    OrderTypes,  \* the OrderType values the caller may use
    PoolSize,    \* ORDER_POOL_SIZE
    MaxTrades,   \* MAX_TRADES_PER_MATCH
    MaxCalls     \* bound on add_order calls, direct or through modify_order

ASSUME /\ Prices \subseteq Nat \ {0} /\ Qtys \subseteq Nat \ {0}
       /\ OrderTypes \subseteq {"Limit", "Market", "IOC", "FOK"}
       /\ PoolSize \in Nat \ {0} /\ MaxTrades \in Nat \ {0}

Sides == {"Buy", "Sell"}
Opposite(s) == IF s = "Buy" THEN "Sell" ELSE "Buy"
Null == 0                       \* nullptr; also the end() iterator of a level map
Slots == 1..PoolSize
FreedId == -1                   \* first word of a freed slot: a free-list link
PriceMax == 2147483647          \* std::numeric_limits<Price>::max()
EmptyLevel == [head |-> Null, tail |-> Null, total |-> 0, count |-> 0]

VARIABLES
    ent,        \* ent[s]: the OrderBookEntry stored in slot s
    keys,       \* keys[side]: the prices that are keys of bids_ / asks_
    levels,     \* levels[side][p]: the PriceLevel of price p
    orders,     \* orders_: orders[id] = slot, Null when absent
    free,       \* pool_: the free list, head first
    allocated,  \* pool_.allocated_count_
    best,       \* best[side] = [px, qty]: best_bid_/best_bid_qty_, best_ask_/...
    phase,      \* "Idle" between calls, "Walk" inside match_order
    cur,        \* the incoming entry of the running match_order
    it,         \* the level iterator of the walk (Null once the walk is over)
    trades,     \* trade_buffer_[0 .. trade_count-1]
    result,     \* the span returned by the last add_order / modify_order
    used,       \* ids already submitted by the caller
    clock,      \* number of add_order calls so far (ghost: arrival order)
    arrival,    \* arrival[s]: clock value of the call that created slot s
    capped      \* (history) some walk ended at MAX_TRADES_PER_MATCH with the
                \* incoming order not yet filled

vars == <<ent, keys, levels, orders, free, allocated, best, phase, cur, it,
          trades, result, used, clock, arrival, capped>>

Residual(E, s) == E[s].qty - E[s].filled
LiveIds == {i \in Ids : orders[i] # Null}
LiveSlots == {orders[i] : i \in LiveIds}

\* The slots reached by following next pointers from s, at most n of them.
RECURSIVE ChainFrom(_, _, _)
ChainFrom(E, s, n) ==
    IF s = Null \/ n = 0 THEN <<>> ELSE <<s>> \o ChainFrom(E, E[s].next, n - 1)

LevelList(side, p) == ChainFrom(ent, levels[side][p].head, PoolSize + 1)
LinkedSlots == UNION {Range(LevelList(sd, p)) : sd \in Sides, p \in Prices}

\* Mutant: bids_ declared with the default ascending comparator.
BestKeyAscending(side, K) == IF K = {} THEN Null ELSE Min(K)

\* The best key of a side's map: bids_ is ordered by std::greater, asks_ by std::less.
BestKey(side, K) == IF K = {} THEN Null ELSE IF side = "Buy" THEN Max(K) ELSE Min(K)
\* The key after p in map order, Null for end().
NextKey(side, K, p) ==
    BestKey(side, {q \in K : IF side = "Buy" THEN q < p ELSE q > p})

\* update_best_bid / update_best_ask.
RefreshBest(side, K, Lv) ==
    IF K = {} THEN [px |-> IF side = "Buy" THEN 0 ELSE PriceMax, qty |-> 0]
    ELSE [px |-> BestKey(side, K), qty |-> Lv[BestKey(side, K)].total]

\* MemoryPool::deallocate: push slot s on the free list; its first word is
\* overwritten by the old free head.
Deallocate(E, F, s) == [ent |-> [E EXCEPT ![s].id = FreedId], free |-> <<s>> \o F]

\* orders_.erase(id): a no-op for an id that is not a key.
Erase(O, i) == IF i \in Ids THEN [O EXCEPT ![i] = Null] ELSE O

\* Mutant: the successor's prev pointer is not updated.
UnlinkNoPrevFix(E, L, s) ==
    LET p == E[s].prev
        n == E[s].next
        E1 == IF p # Null THEN [E EXCEPT ![p].next = n] ELSE E
    IN [ent |-> [E1 EXCEPT ![s].prev = Null, ![s].next = Null],
        lvl |-> [head |-> IF p # Null THEN L.head ELSE n,
                 tail |-> IF n # Null THEN L.tail ELSE p,
                 total |-> IF L.total >= Residual(E, s) THEN L.total - Residual(E, s) ELSE 0,
                 count |-> L.count - 1]]

\* PriceLevel::remove_order: unlink s from level L.
Unlink(E, L, s) ==
    LET p == E[s].prev
        n == E[s].next
        E1 == IF p # Null THEN [E EXCEPT ![p].next = n] ELSE E
        E2 == IF n # Null THEN [E1 EXCEPT ![n].prev = p] ELSE E1
        rem == Residual(E, s)
    IN [ent |-> [E2 EXCEPT ![s].prev = Null, ![s].next = Null],
        lvl |-> [head |-> IF p # Null THEN L.head ELSE n,
                 tail |-> IF n # Null THEN L.tail ELSE p,
                 total |-> IF L.total >= rem THEN L.total - rem ELSE 0,
                 count |-> L.count - 1]]   \* -1 stands for the wrapped uint32_t

\* Mutant: a new entry linked in at the head.
Append2LevelAtHead(E, L, s) ==
    LET E1 == IF L.head # Null THEN [E EXCEPT ![L.head].prev = s] ELSE E
    IN [ent |-> [E1 EXCEPT ![s].prev = Null, ![s].next = L.head],
        lvl |-> [head |-> s,
                 tail |-> IF L.head = Null THEN s ELSE L.tail,
                 total |-> L.total + Residual(E, s),
                 count |-> L.count + 1]]

\* PriceLevel::add_order: append s at the tail of level L.
Append2Level(E, L, s) ==
    LET E1 == IF L.tail # Null THEN [E EXCEPT ![L.tail].next = s] ELSE E
    IN [ent |-> [E1 EXCEPT ![s].prev = L.tail, ![s].next = Null],
        lvl |-> [head |-> IF L.tail = Null THEN s ELSE L.head,
                 tail |-> s,
                 total |-> L.total + Residual(E, s),
                 count |-> L.count + 1]]
-----------------------------------------------------------------------------
(* Matching.                                                               *)

\* Mutant: the price checks use strict comparisons.
MarketableStrict(e, p) ==
    \/ e.type = "Market"
    \/ e.side = "Buy" /\ p < e.price
    \/ e.side = "Sell" /\ p > e.price

\* The price check of try_match_limit; try_match_market matches any price.
Marketable(e, p) ==
    \/ e.type = "Market"
    \/ e.side = "Buy" /\ p <= e.price
    \/ e.side = "Sell" /\ p >= e.price

\* Mutant: the outer loop without the price check.
EnterNoPriceCheck(e, p, tc) == IF p # Null /\ tc < MaxTrades THEN p ELSE Null

\* The outer loop condition of the walk at level p; Null once it stops.
Enter(e, p, tc) == IF p # Null /\ tc < MaxTrades /\ Marketable(e, p) THEN p ELSE Null

\* OrderBook::add_order from a state whose entries, index, free list and
\* allocation count are E, O, F, A: allocate, fill the entry, index it and
\* start match_order.  An exhausted pool returns an empty span.
AddOrderFrom(E, Lv, O, F, A, id, side, type, price, qty) ==
    IF F = <<>>
    THEN /\ ent' = E /\ orders' = O /\ free' = F /\ allocated' = A
         /\ result' = <<>>
         /\ UNCHANGED <<phase, cur, it, trades, arrival>>
    ELSE LET s == Head(F)
             e == [id |-> id, side |-> side, type |-> type, status |-> "New",
                   price |-> price, qty |-> qty, filled |-> 0,
                   prev |-> Null, next |-> Null]
         IN /\ ent' = [E EXCEPT ![s] = e]
            /\ orders' = [O EXCEPT ![id] = s]
            /\ free' = Tail(F)
            /\ allocated' = A + 1
            /\ phase' = "Walk" /\ cur' = s /\ trades' = <<>>
            /\ it' = Enter(e, BestKey(Opposite(side), keys[Opposite(side)]), 0)
            /\ arrival' = [arrival EXCEPT ![s] = clock]
            /\ UNCHANGED result

\* A call of add_order.  Each call takes a fresh id: what a reused id does
\* to orders_ is the Router model's question (RestingOrdersReachable).
AddOrder(id, side, type, price, qty) ==
    /\ phase = "Idle" /\ id \notin used /\ clock < MaxCalls
    /\ used' = used \cup {id}
    /\ clock' = clock + 1
    /\ AddOrderFrom(ent, levels, orders, free, allocated, id, side, type, price, qty)
    /\ UNCHANGED <<keys, levels, best, capped>>

\* Mutant: the fill takes the resting residual only.
FillQtyResting(entryRemaining, restingRemaining) == restingRemaining

\* std::min(entry_remaining, resting_remaining).
FillQty(entryRemaining, restingRemaining) == Min({entryRemaining, restingRemaining})

\* One pass of the inner loop: trade against the head of the current level.
\* A resting order that becomes filled is unlinked, erased and deallocated;
\* otherwise the level total is reduced by the fill.
Fill ==
    LET e == ent[cur]
        opp == Opposite(e.side)
        L == levels[opp][it]
        h == L.head
        q == FillQty(Residual(ent, cur), Residual(ent, h))
        E1 == [ent EXCEPT ![cur].filled = @ + q, ![h].filled = @ + q]
        t == [buyer |-> IF e.side = "Buy" THEN e.id ELSE ent[h].id,
              seller |-> IF e.side = "Sell" THEN e.id ELSE ent[h].id,
              price |-> ent[h].price, qty |-> q]
    IN /\ phase = "Walk" /\ it # Null /\ h # Null
       /\ Len(trades) < MaxTrades /\ Residual(ent, cur) > 0
       /\ trades' = Append(trades, t)
       /\ IF E1[h].filled >= E1[h].qty
          THEN LET U == Unlink([E1 EXCEPT ![h].status = "Filled"], L, h)
                   D == Deallocate(U.ent, free, h)
               IN /\ ent' = D.ent /\ free' = D.free
                  /\ levels' = [levels EXCEPT ![opp][it] = U.lvl]
                  /\ orders' = Erase(orders, ent[h].id)
                  /\ allocated' = allocated - 1
          ELSE /\ ent' = [E1 EXCEPT ![h].status = "PartiallyFilled"]
               /\ levels' = [levels EXCEPT ![opp][it].total = @ - q]
               /\ UNCHANGED <<free, orders, allocated>>
       /\ UNCHANGED <<keys, best, phase, cur, it, result, used, clock, arrival, capped>>

\* The inner loop ends (level empty or trade buffer full): an empty level is
\* erased, the iterator moves on and the outer loop re-checks its condition.
NextLevel ==
    LET e == ent[cur]
        opp == Opposite(e.side)
        emptied == levels[opp][it].head = Null
        K == IF emptied THEN keys[opp] \ {it} ELSE keys[opp]
    IN /\ phase = "Walk" /\ it # Null
       /\ emptied \/ Len(trades) >= MaxTrades
       /\ keys' = [keys EXCEPT ![opp] = K]
       /\ levels' = IF emptied THEN [levels EXCEPT ![opp][it] = EmptyLevel] ELSE levels
       /\ it' = Enter(e, NextKey(opp, K, it), Len(trades))
       /\ UNCHANGED <<ent, orders, free, allocated, best, phase, cur, trades,
                      result, used, clock, arrival, capped>>

\* `if (entry_remaining == 0) return;` inside the inner loop.
StopFilled ==
    /\ phase = "Walk" /\ it # Null
    /\ levels[Opposite(ent[cur].side)][it].head # Null
    /\ Len(trades) < MaxTrades /\ Residual(ent, cur) = 0
    /\ it' = Null
    /\ UNCHANGED <<ent, keys, levels, orders, free, allocated, best, phase, cur,
                   trades, result, used, clock, arrival, capped>>

\* OrderBook::add_to_book: rest entry s at the tail of its level (created by
\* operator[] when absent) and update the cache of its side when the price is
\* better than the cached one or the cached quantity is zero.
AddToBook(E, s, B) ==
    LET sd == E[s].side
        p == E[s].price
        A == Append2Level(E, levels[sd][p], s)
        better == IF sd = "Buy" THEN p > B[sd].px ELSE p < B[sd].px
    IN /\ ent' = A.ent
       /\ keys' = [keys EXCEPT ![sd] = @ \cup {p}]
       /\ levels' = [levels EXCEPT ![sd][p] = A.lvl]
       /\ best' = IF better \/ B[sd].qty = 0
                  THEN [B EXCEPT ![sd] = [px |-> p, qty |-> A.lvl.total]]
                  ELSE B

\* Mutant: a branch that erases the entry but never deallocates it.
ReleaseNoFree(E) ==
    /\ ent' = E /\ free' = free
    /\ orders' = Erase(orders, E[cur].id)
    /\ allocated' = allocated
    /\ UNCHANGED <<keys, levels>>

\* Erase the incoming entry from orders_ and return its slot to the pool.
Release(E) ==
    LET D == Deallocate(E, free, cur)
    IN /\ ent' = D.ent /\ free' = D.free
       /\ orders' = Erase(orders, E[cur].id)
       /\ allocated' = allocated - 1
       /\ UNCHANGED <<keys, levels>>

\* The end of try_match_*: update_best_* of the side walked; then the rest of
\* match_order: FOK rollback, IOC/Market cancel, Limit rest, or filled.
Finish ==
    LET e == ent[cur]
        opp == Opposite(e.side)
        rem == Residual(ent, cur)
        B == [best EXCEPT ![opp] = RefreshBest(opp, keys[opp], levels[opp])]
        status == IF e.filled > 0 THEN "PartiallyFilled" ELSE "Cancelled"
    IN /\ phase = "Walk" /\ it = Null
       /\ phase' = "Idle"
       /\ CASE e.type = "FOK" /\ rem > 0 /\ Len(trades) > 0 ->
                 /\ Release([ent EXCEPT ![cur].filled = 0, ![cur].status = "Cancelled"])
                 /\ best' = B /\ result' = <<>>
            [] rem > 0 /\ e.type \in {"IOC", "Market"} ->
                 /\ Release([ent EXCEPT ![cur].status = status])
                 /\ best' = B /\ result' = trades
            [] rem > 0 /\ e.type = "Limit" ->
                 /\ AddToBook([ent EXCEPT ![cur].status =
                                 IF e.filled > 0 THEN "PartiallyFilled" ELSE "New"], cur, B)
                 /\ UNCHANGED <<orders, free, allocated>>
                 /\ result' = trades
            [] rem > 0 ->
                 /\ best' = B /\ result' = trades
                 /\ UNCHANGED <<ent, keys, levels, orders, free, allocated>>
            [] OTHER ->
                 /\ Release([ent EXCEPT ![cur].status = "Filled"])
                 /\ best' = B /\ result' = trades
       /\ capped' = (capped \/ (Len(trades) >= MaxTrades /\ rem > 0))
       /\ UNCHANGED <<cur, it, trades, used, clock, arrival>>

-----------------------------------------------------------------------------
(* Cancel and modify.                                                      *)

\* OrderBook::remove_from_book: unlink s from the level of its price if that
\* level exists, erase the level when it is left empty, refresh the cache.
RemoveFromBook(E, s) ==
    LET sd == E[s].side
        p == E[s].price
        found == p \in keys[sd]
        U == Unlink(E, levels[sd][p], s)
        emptied == found /\ U.lvl.head = Null
        K == IF emptied THEN keys[sd] \ {p} ELSE keys[sd]
        Lv == IF ~found THEN levels[sd]
              ELSE [levels[sd] EXCEPT ![p] = IF emptied THEN EmptyLevel ELSE U.lvl]
    IN [ent |-> IF found THEN U.ent ELSE E,
        keys |-> [keys EXCEPT ![sd] = K],
        levels |-> [levels EXCEPT ![sd] = Lv],
        best |-> [best EXCEPT ![sd] = RefreshBest(sd, K, Lv)]]

\* OrderBook::cancel_order of an id that is in orders_ (one that is not
\* changes nothing and returns false).
CancelOrder(id) ==
    LET s == orders[id]
        R == RemoveFromBook([ent EXCEPT ![s].status = "Cancelled"], s)
        D == Deallocate(R.ent, free, s)
    IN /\ phase = "Idle" /\ orders[id] # Null
       /\ ent' = D.ent /\ free' = D.free
       /\ keys' = R.keys /\ levels' = R.levels /\ best' = R.best
       /\ orders' = [orders EXCEPT ![id] = Null]
       /\ allocated' = allocated - 1
       /\ UNCHANGED <<phase, cur, it, trades, result, used, clock, arrival, capped>>

\* OrderBook::modify_order: remove the order, then add_order with the same
\* id, side and type at the new price and quantity (time priority is lost).
ModifyOrder(id, np, nq) ==
    LET s == orders[id]
        R == RemoveFromBook(ent, s)
        D == Deallocate(R.ent, free, s)
    IN /\ phase = "Idle" /\ orders[id] # Null /\ clock < MaxCalls
       /\ keys' = R.keys /\ levels' = R.levels /\ best' = R.best
       /\ clock' = clock + 1
       /\ AddOrderFrom(D.ent, R.levels, [orders EXCEPT ![id] = Null], D.free, allocated - 1,
                       id, ent[s].side, ent[s].type, np, nq)
       /\ UNCHANGED <<used, capped>>

-----------------------------------------------------------------------------
(* The constructors: zeroed pool storage threaded into a free list, empty   *)
(* maps, best_ask_ at the max sentinel.                                    *)
Init ==
    /\ ent = [s \in Slots |-> [id |-> FreedId, side |-> "Buy", type |-> "Limit",
                               status |-> "New", price |-> 0, qty |-> 0,
                               filled |-> 0, prev |-> Null, next |-> Null]]
    /\ keys = [sd \in Sides |-> {}]
    /\ levels = [sd \in Sides |-> [p \in Prices |-> EmptyLevel]]
    /\ orders = [i \in Ids |-> Null]
    /\ free = [i \in 1..PoolSize |-> i]
    /\ allocated = 0
    /\ best = [sd \in Sides |-> [px |-> IF sd = "Buy" THEN 0 ELSE PriceMax, qty |-> 0]]
    /\ phase = "Idle" /\ cur = Null /\ it = Null
    /\ trades = <<>> /\ result = <<>>
    /\ used = {} /\ clock = 0
    /\ arrival = [s \in Slots |-> 0]
    /\ capped = FALSE

\* The price of a market order is never read by the book (it never rests),
\* so one value stands for all of them.
OrderPrices(ty) == IF ty = "Market" THEN {Min(Prices)} ELSE Prices

\* The steps of a running match_order.
Walk == Fill \/ NextLevel \/ StopFilled \/ Finish

Next ==
    \/ \E id \in Ids, sd \in Sides, ty \in OrderTypes, q \in Qtys :
          \E p \in OrderPrices(ty) : AddOrder(id, sd, ty, p, q)
    \/ \E id \in Ids : CancelOrder(id)
    \/ \E id \in Ids, p \in Prices, q \in Qtys : ModifyOrder(id, p, q)
    \/ Walk

\* A call in progress keeps running: the thread that called it executes it.
Spec == Init /\ [][Next]_vars /\ WF_vars(Walk)
-----------------------------------------------------------------------------
(* Properties.                                                             *)

Entry == [id : Ids \cup {FreedId}, side : Sides,
          type : {"Limit", "Market", "IOC", "FOK"},
          status : {"New", "PartiallyFilled", "Filled", "Cancelled"},
          price : Prices \cup {0}, qty : Qtys \cup {0}, filled : Nat,
          prev : Slots \cup {Null}, next : Slots \cup {Null}]

\* Type invariant; an entry is never filled beyond its quantity and the
\* trade buffer never holds more than MAX_TRADES_PER_MATCH trades.
TypeOK ==
    /\ ent \in [Slots -> Entry]
    /\ \A s \in Slots : ent[s].filled <= ent[s].qty
    /\ keys \in [Sides -> SUBSET Prices]
    /\ orders \in [Ids -> Slots \cup {Null}]
    /\ free \in Seq(Slots) /\ allocated \in 0..PoolSize
    /\ phase \in {"Idle", "Walk"} /\ cur \in Slots \cup {Null}
    /\ it \in Prices \cup {Null}
    /\ Len(trades) <= MaxTrades /\ used \subseteq Ids

\* A level list read from its head: a doubly linked FIFO, no longer than the
\* pool, ending at tail, of entries of this side and price, with order_count
\* equal to its length.
WellFormedLevel(sd, p) ==
    LET l == LevelList(sd, p)
        L == levels[sd][p]
    IN /\ l # <<>> /\ Len(l) <= PoolSize
       /\ L.tail = l[Len(l)] /\ L.count = Len(l)
       /\ ent[l[1]].prev = Null
       /\ \A k \in 2..Len(l) : ent[l[k]].prev = l[k - 1]
       /\ \A k \in 1..Len(l) : ent[l[k]].side = sd /\ ent[l[k]].price = p

\* Spec I1 (after any add_order, cancel_order or modify_order returns):
\* orders_ indexes exactly the entries linked into the level lists, each
\* under its own id, and every level of bids_/asks_ is a well-formed list.
BookIndexConsistent ==
    phase = "Idle" =>
        /\ \A sd \in Sides, p \in Prices : p \in keys[sd] => WellFormedLevel(sd, p)
        /\ LiveSlots = LinkedSlots
        /\ \A i \in LiveIds : ent[orders[i]].id = i

\* Spec I5 and P3: the pool's free list holds each slot once and never a
\* slot still indexed by orders_; allocated_count_ agrees with it; and after
\* a call every slot is either free or holds an indexed order (nothing leaks
\* and nothing is freed twice across fills, cancels, modifies and rejects).
PoolConserved ==
    /\ IsInjective(free)
    /\ Len(free) + allocated = PoolSize
    /\ Range(free) \cap LiveSlots = {}
    /\ phase = "Idle" => Len(free) + Cardinality(LiveSlots) = PoolSize

\* Spec I3/P4: after a call the cached best bid is the highest bid price
\* (0 when there is none) and the cached best ask the lowest ask price (the
\* max sentinel when there is none), whichever path last touched the side.
BestPricesCached ==
    phase = "Idle" =>
        /\ best["Buy"].px = IF keys["Buy"] = {} THEN 0 ELSE Max(keys["Buy"])
        /\ best["Sell"].px = IF keys["Sell"] = {} THEN PriceMax ELSE Min(keys["Sell"])

\* Spec I2: a level's total_quantity is the sum of the residuals of the
\* entries in its list.
LevelTotalsExact ==
    phase = "Idle" =>
        \A sd \in Sides, p \in Prices : p \in keys[sd] =>
            levels[sd][p].total =
                MapThenSumSet(LAMBDA s : ent[s].qty - ent[s].filled, Range(LevelList(sd, p)))

\* Spec I4/P5 asks that after a call every bid price is below every ask
\* price.  The walk of try_match_limit stops at MAX_TRADES_PER_MATCH
\* trades (order_book.cpp:87) even when the next resting order is still
\* marketable, and the residual of a Limit order then rests crossed.  So
\* the book is crossed after a call only once some walk was cut short by
\* the cap: the price checks and the resting logic never cross it.
CrossedOnlyByCap ==
    phase = "Idle" /\ keys["Buy"] # {} /\ keys["Sell"] # {} /\ ~capped =>
        Max(keys["Buy"]) < Min(keys["Sell"])

\* Spec P6: within a level the entries are in the order their add_order
\* calls were made, so the earlier order is consumed first.
TimePriority ==
    \A sd \in Sides, p \in Prices :
        LET l == LevelList(sd, p)
        IN \A k \in 1..Len(l) - 1 : arrival[l[k]] < arrival[l[k + 1]]

\* No trade of a limit, IOC or FOK order is at a price worse than its limit,
\* on any level the walk reaches.
TradesWithinLimit ==
    [][Len(trades') > Len(trades) /\ ent[cur].type # "Market" =>
         IF ent[cur].side = "Buy" THEN trades'[Len(trades')].price <= ent[cur].price
                                  ELSE trades'[Len(trades')].price >= ent[cur].price]_vars
=============================================================================

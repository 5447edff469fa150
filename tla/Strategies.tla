----------------------------- MODULE Strategies -----------------------------
(***************************************************************************)
(* The three strategies of src/src/main.cpp as the main loop drives them:  *)
(* for each market data message, on_market_data of the market maker, the   *)
(* pairs strategy and the momentum strategy, then generate_orders of each  *)
(* in that order; for each execution report, on_execution_report of all   *)
(* three.  A generated order stays open until its one report comes back    *)
(* with a filled quantity k (0 when the risk gate or the venue did not     *)
(* fill it).                                                               *)
(*                                                                         *)
(* The floating-point signals are data the model abstracts: the momentum  *)
(* signal (EMA crossover, in bps), the pairs z-score (in tenths) and the   *)
(* market maker's volatility multiplier are chosen from small sets each    *)
(* time the code recomputes them, except where the code fixes them (the    *)
(* first EMA tick, too few samples).  Quote prices are computed exactly    *)
(* and truncated as static_cast<Price> does.  The rolling buffers keep the *)
(* values pushed: a mid price as bid + ask (twice the double mid), a       *)
(* spread as price_a - hedge_ratio * price_b.                              *)
(***************************************************************************)
EXTENDS Integers, Sequences, CircularBuffer

CONSTANTS
    MdBids, MdAsks, MaxMd,                  \* market data messages
    BaseSpreadBps, MaxInventory, MMOrderSize, SkewPct,
    VolMinSamples, VolMults, MidCap,        \* market maker
    HedgeRatio, PairsOrderSize, EntryZ, ExitZ, ZScores,
    MinSpreads, SpreadCap,                  \* pairs (z in tenths)
    SlowWindow, MomOrderSize, BreakoutBps, Signals, \* momentum
    MaxPriceDeviationPct                    \* risk gate's fat-finger limit

\* main.cpp: the market maker and momentum trade instrument 0, the pairs
\* strategy instruments 0 and 1.
MMInst == 0
MomInst == 0
InstA == 0
InstB == 1

VARIABLES
    mm, pairs, mom,    \* the strategy objects
    open,              \* orders generated whose report has not come back, oldest first
    md_count,          \* market data messages processed
    mid_hist,          \* (history) values pushed on mm.mid_prices
    spread_hist,       \* (history) values pushed on pairs.spreads
    last_quote,        \* (history) the market maker's last quote pair
    pairs_checks       \* (history) fat-finger verdicts of the last pairs orders

vars == <<mm, pairs, mom, open, md_count, mid_hist, spread_hist, last_quote, pairs_checks>>

Abs(x) == IF x < 0 THEN -x ELSE x
Signed(side, q) == IF side = "Buy" THEN q ELSE -q

\* static_cast<int64_t> of n / d, for d > 0: truncation toward zero.
Trunc(n, d) == IF n >= 0 THEN n \div d ELSE -((-n) \div d)

\* An order of a generate_orders call: the legs it builds, numbered by
\* alloc_order_id from the strategy's next_order_id_.
Leg(inst, side, qty, price) == [inst |-> inst, side |-> side, qty |-> qty, price |-> price]
LegIf(cond, leg) == IF cond THEN <<leg>> ELSE <<>>
Emit(owner, s, legs) ==
    [st |-> [s EXCEPT !.next_id = @ + Len(legs)],
     orders |-> [k \in 1..Len(legs) |->
                   [owner |-> owner, id |-> s.next_id + k - 1, inst |-> legs[k].inst,
                    side |-> legs[k].side, qty |-> legs[k].qty, price |-> legs[k].price]]]

-----------------------------------------------------------------------------
(* MarketMakerStrategy (src/src/market_maker.cpp).                         *)

MMInit == [inventory |-> 0, best_bid |-> 0, best_ask |-> 0, fair_value |-> 0,
           spread_bps |-> 0, has_bbo |-> FALSE, mid_prices |-> CBNew(MidCap), next_id |-> 0]

\* compute_dynamic_spread: the base spread times the clamped volatility
\* multiplier once there are enough mid prices.
DynamicSpread(mids, mult) ==
    IF Size(mids) >= VolMinSamples THEN BaseSpreadBps * mult ELSE BaseSpreadBps

\* on_market_data: a message of the instrument with both sides records the
\* BBO, pushes the mid, and recomputes fair value and spread.
MMTakes(i, bid, ask) == i = MMInst /\ bid > 0 /\ ask > 0
MMOnMarketData(s, i, bid, ask, mult) ==
    IF ~MMTakes(i, bid, ask) THEN s
    ELSE LET mids == PushBack(s.mid_prices, bid + ask)
         IN [s EXCEPT !.best_bid = bid, !.best_ask = ask, !.has_bbo = TRUE,
                      !.mid_prices = mids, !.fair_value = (bid + ask) \div 2,
                      !.spread_bps = DynamicSpread(mids, mult)]

\* Mutant: the ask is not moved above a clamped bid.
AskAboveNoClamp(bid, ask) == ask

\* `if (ask_price <= bid_price) ask_price = bid_price + 1;`
AskAbove(bid, ask) == IF ask <= bid THEN bid + 1 ELSE ask

\* The quote pair of generate_orders: fair value -/+ half the spread, minus
\* the inventory skew, truncated, then clamped.  Over the common
\* denominator 2e6 * max_inventory: half = bps * fv / 20000 and
\* skew = skew_factor * inv * (bps * fv / 10000) / max_inventory.
MMQuotes(s) ==
    LET den == 2000000 * MaxInventory
        fvN == s.fair_value * den
        halfN == s.spread_bps * s.fair_value * 100 * MaxInventory
        skewN == 2 * SkewPct * s.inventory * s.spread_bps * s.fair_value
        bid0 == Trunc(fvN - halfN - skewN, den)
        ask0 == Trunc(fvN + halfN - skewN, den)
        bid == IF bid0 <= 0 THEN 1 ELSE bid0
    IN <<bid, AskAbove(bid, ask0)>>

\* generate_orders: nothing without a BBO; at the inventory limit one order
\* flattening the whole inventory at the opposite best price; otherwise a
\* bid and an ask of order_size.
MMGenerate(s) ==
    IF ~s.has_bbo \/ s.fair_value <= 0 THEN [st |-> s, orders |-> <<>>]
    ELSE IF Abs(s.inventory) >= MaxInventory
    THEN Emit("MM", s, <<IF s.inventory > 0
                         THEN Leg(MMInst, "Sell", Abs(s.inventory), s.best_bid)
                         ELSE Leg(MMInst, "Buy", Abs(s.inventory), s.best_ask)>>)
    ELSE LET q == MMQuotes(s)
         IN Emit("MM", s, <<Leg(MMInst, "Buy", MMOrderSize, q[1]),
                            Leg(MMInst, "Sell", MMOrderSize, q[2])>>)

\* on_execution_report: a fill of the instrument moves the inventory.
MMOnReport(s, r) ==
    IF r.inst = MMInst /\ r.k > 0 THEN [s EXCEPT !.inventory = @ + Signed(r.side, r.k)] ELSE s

-----------------------------------------------------------------------------
(* PairsTradingStrategy (src/src/pairs_trading.cpp).                       *)

PairsInit == [price_a |-> 0, price_b |-> 0, spreads |-> CBNew(SpreadCap), z_score |-> 0,
              state |-> "Flat", position_a |-> 0, position_b |-> 0, next_id |-> 0]

\* update_spread: push the spread; the z-score is 0 until min samples.
UpdateSpread(s, z) ==
    LET sp == PushBack(s.spreads, s.price_a - HedgeRatio * s.price_b)
    IN [s EXCEPT !.spreads = sp, !.z_score = IF Size(sp) < MinSpreads THEN 0 ELSE z]

\* on_market_data: record the mid of either leg; with both prices known,
\* update the spread.
PairsPrices(s, i, bid, ask) ==
    LET mid == (bid + ask) \div 2
    IN CASE i = InstA -> [s EXCEPT !.price_a = mid]
         [] i = InstB -> [s EXCEPT !.price_b = mid]
         [] OTHER -> s
BothPrices(s) == s.price_a > 0 /\ s.price_b > 0
PairsOnMarketData(s, i, bid, ask, z) ==
    LET s1 == PairsPrices(s, i, bid, ask)
    IN IF i \in {InstA, InstB} /\ BothPrices(s1) THEN UpdateSpread(s1, z) ELSE s1

\* generate_orders: enter a spread on a z-score beyond the entry threshold
\* (both legs); exit when it comes back inside the exit threshold,
\* flattening each leg that holds the position the entry opened.
PairsGenerate(s) ==
    LET qa == PairsOrderSize
        qb == PairsOrderSize * HedgeRatio
        z == s.z_score
        pa == s.position_a
        pb == s.position_b
    IN IF Size(s.spreads) < MinSpreads THEN [st |-> s, orders |-> <<>>]
       ELSE CASE s.state = "Flat" /\ z > EntryZ ->
                   Emit("Pairs", [s EXCEPT !.state = "ShortSpread"],
                        <<Leg(InstA, "Sell", qa, s.price_a), Leg(InstB, "Buy", qb, s.price_b)>>)
              [] s.state = "Flat" /\ z < -EntryZ ->
                   Emit("Pairs", [s EXCEPT !.state = "LongSpread"],
                        <<Leg(InstA, "Buy", qa, s.price_a), Leg(InstB, "Sell", qb, s.price_b)>>)
              [] s.state = "ShortSpread" /\ z < ExitZ ->
                   Emit("Pairs", [s EXCEPT !.state = "Flat"],
                        LegIf(pa < 0, Leg(InstA, "Buy", -pa, s.price_a)) \o
                        LegIf(pb > 0, Leg(InstB, "Sell", pb, s.price_b)))
              [] s.state = "LongSpread" /\ z > -ExitZ ->
                   Emit("Pairs", [s EXCEPT !.state = "Flat"],
                        LegIf(pa > 0, Leg(InstA, "Sell", pa, s.price_a)) \o
                        LegIf(pb < 0, Leg(InstB, "Buy", -pb, s.price_b)))
              [] OTHER -> [st |-> s, orders |-> <<>>]

\* on_execution_report: a fill moves the position of its leg.
PairsOnReport(s, r) ==
    CASE r.k = 0 -> s
      [] r.inst = InstA -> [s EXCEPT !.position_a = @ + Signed(r.side, r.k)]
      [] r.inst = InstB -> [s EXCEPT !.position_b = @ + Signed(r.side, r.k)]
      [] OTHER -> s

-----------------------------------------------------------------------------
(* MomentumStrategy (src/src/momentum.cpp).                                *)

MomInit == [tick_count |-> 0, current_price |-> 0, signal |-> 0, state |-> "Flat",
            position |-> 0, next_id |-> 0]

\* on_market_data and update_emas: a positive mid becomes the current
\* price and ticks the EMAs; the first tick seeds both EMAs with the
\* price, so the signal is 0.
MomOnMarketData(s, i, bid, ask, sig) ==
    LET mid == (bid + ask) \div 2
    IN IF i # MomInst \/ mid <= 0 THEN s
       ELSE [s EXCEPT !.current_price = mid, !.tick_count = @ + 1,
                      !.signal = IF s.tick_count = 0 THEN 0 ELSE sig]

\* generate_orders: after slow_window ticks, Flat enters Long or Short on
\* a breakout; Long or Short returns to Flat on a crossover, selling or
\* buying back the position if it has one.
MomGenerate(s) ==
    LET p == s.position
        px == s.current_price
    IN IF s.tick_count < SlowWindow \/ px <= 0 THEN [st |-> s, orders |-> <<>>]
       ELSE CASE s.state = "Flat" /\ s.signal > BreakoutBps ->
                   Emit("Momentum", [s EXCEPT !.state = "Long"], <<Leg(MomInst, "Buy", MomOrderSize, px)>>)
              [] s.state = "Flat" /\ s.signal < -BreakoutBps ->
                   Emit("Momentum", [s EXCEPT !.state = "Short"], <<Leg(MomInst, "Sell", MomOrderSize, px)>>)
              [] s.state = "Long" /\ s.signal < 0 ->
                   Emit("Momentum", [s EXCEPT !.state = "Flat"], LegIf(p > 0, Leg(MomInst, "Sell", p, px)))
              [] s.state = "Short" /\ s.signal > 0 ->
                   Emit("Momentum", [s EXCEPT !.state = "Flat"], LegIf(p < 0, Leg(MomInst, "Buy", -p, px)))
              [] OTHER -> [st |-> s, orders |-> <<>>]

\* on_execution_report: a fill of the instrument moves the position.
MomOnReport(s, r) ==
    IF r.inst = MomInst /\ r.k > 0 THEN [s EXCEPT !.position = @ + Signed(r.side, r.k)] ELSE s

-----------------------------------------------------------------------------
(* The main loop.                                                          *)

\* main.cpp: the market price every generated order is checked against is
\* the mid of the market data message just processed.
MarketPrice(bid, ask) == (bid + ask) \div 2

\* RiskManager::check_order, check 6: the order price deviates from the
\* market price by more than max_price_deviation_pct (skipped at 0).  The
\* double threshold only matters on an exact tie, which needs a market
\* price of at least 20 at 5%.
FatFinger(price, m) == m > 0 /\ Abs(price - m) * 100 > m * MaxPriceDeviationPct

Init ==
    /\ mm = MMInit /\ pairs = PairsInit /\ mom = MomInit
    /\ open = <<>> /\ md_count = 0
    /\ mid_hist = <<>> /\ spread_hist = <<>> /\ last_quote = <<>>
    /\ pairs_checks = <<>>

\* A market data message of instrument i reaches the strategies, each
\* generates its orders, and the orders go out.
MarketData(i, bid, ask, mult, z, sig) ==
    LET mm1 == MMOnMarketData(mm, i, bid, ask, mult)
        pr1 == PairsOnMarketData(pairs, i, bid, ask, z)
        mo1 == MomOnMarketData(mom, i, bid, ask, sig)
        g1 == MMGenerate(mm1)
        g2 == PairsGenerate(pr1)
        g3 == MomGenerate(mo1)
        quoted == Len(g1.orders) = 2
    IN /\ md_count < MaxMd
       /\ mm' = g1.st /\ pairs' = g2.st /\ mom' = g3.st
       /\ open' = open \o g1.orders \o g2.orders \o g3.orders
       /\ md_count' = md_count + 1
       /\ mid_hist' = IF MMTakes(i, bid, ask) THEN Append(mid_hist, bid + ask) ELSE mid_hist
       /\ spread_hist' = IF i \in {InstA, InstB} /\ BothPrices(pr1)
                         THEN Append(spread_hist, pr1.price_a - HedgeRatio * pr1.price_b)
                         ELSE spread_hist
       /\ last_quote' = IF quoted
                        THEN [bid |-> g1.orders[1].price, ask |-> g1.orders[2].price,
                              fv |-> mm1.fair_value]
                        ELSE last_quote
       /\ pairs_checks' = [k \in DOMAIN g2.orders |->
                               FatFinger(g2.orders[k].price, MarketPrice(bid, ask))]

\* The report of the oldest open order, with k lots filled, reaches all
\* strategies: the order queue and the report queue are both FIFO.
Report(k) ==
    LET o == Head(open)
        r == [inst |-> o.inst, side |-> o.side, k |-> k]
    IN /\ open # <<>> /\ k <= o.qty
       /\ open' = Tail(open)
       /\ mm' = MMOnReport(mm, r) /\ pairs' = PairsOnReport(pairs, r) /\ mom' = MomOnReport(mom, r)
       /\ UNCHANGED <<md_count, mid_hist, spread_hist, last_quote, pairs_checks>>

Next ==
    \/ \E i \in {InstA, InstB}, bid \in MdBids, ask \in MdAsks, mult \in VolMults,
          z \in ZScores, sig \in Signals :
          bid < ask /\ MarketData(i, bid, ask, mult, z, sig)
    \/ \E k \in 0..MaxInventory : Report(k)

Spec == Init /\ [][Next]_vars

-----------------------------------------------------------------------------
(* Properties.                                                             *)

\* Spec 4.3 for the two rolling buffers the strategies compute from
\* (mid_prices_ for the volatility, spreads_ for the z-score): iterating
\* the buffer visits exactly the last Capacity values pushed, oldest first,
\* and back() is the newest, across the wrap of write_pos_ and the moment
\* count_ reaches Capacity.
WindowsMatchHistory ==
    /\ Elements(mm.mid_prices) = RetainedOf(mid_hist, MidCap)
    /\ Elements(pairs.spreads) = RetainedOf(spread_hist, SpreadCap)
    /\ mid_hist # <<>> => Back(mm.mid_prices) = mid_hist[Len(mid_hist)]
    /\ spread_hist # <<>> => Back(pairs.spreads) = spread_hist[Len(spread_hist)]

\* The market maker's quotes are valid Limit prices that straddle its fair
\* value, whatever the inventory skew and the truncation of the double
\* prices: 1 <= bid <= fair value <= ask and bid < ask.  At low prices the
\* clamps of generate_orders are what keeps this true.
QuotesStraddleFair ==
    last_quote # <<>> =>
        /\ 1 <= last_quote.bid
        /\ last_quote.bid < last_quote.ask
        /\ last_quote.bid <= last_quote.fv
        /\ last_quote.fv <= last_quote.ask

\* A pairs entry or exit trades both legs or neither: main checks the two
\* orders generate_orders emits for one spread signal against the same
\* risk limits, so the fat-finger check gives both legs the same verdict.
\* main.cpp prices both against the mid of the instrument whose message
\* arrived, while the other leg is priced at the other instrument's mid.
PairsLegsAgree ==
    Len(pairs_checks) = 2 => pairs_checks[1] = pairs_checks[2]
=============================================================================

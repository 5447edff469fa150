-------------------------- MODULE PositionTracker --------------------------
(***************************************************************************)
(* PositionTracker (src/src/position_tracker.cpp): per-instrument signed   *)
(* position, average entry price, mark price and realized P&L, updated by  *)
(* on_fill.  The code computes P&L in double; the model computes it in     *)
(* exact rationals, so it states what the arithmetic is meant to compute   *)
(* and leaves rounding out.  A price is fixed point: fill_price is         *)
(* price / PRICE_SCALE.                                                    *)
(***************************************************************************)
EXTENDS Integers, FiniteSets

CONSTANTS
    MaxInstruments,  \* MAX_INSTRUMENTS
    FillPrices       \* fixed-point prices of fills and marks

ASSUME /\ MaxInstruments \in Nat \ {0}
       /\ FillPrices \subseteq Nat \ {0}

PriceScale == 100                   \* PRICE_SCALE
Instruments == 0..MaxInstruments - 1

-----------------------------------------------------------------------------
(* Exact rationals, always reduced, with a positive denominator.           *)

RECURSIVE Gcd(_, _)
Gcd(a, b) == IF b = 0 THEN a ELSE Gcd(b, a % b)

Abs(x) == IF x < 0 THEN -x ELSE x

Rat(n, d) ==
    LET g == Gcd(Abs(n), Abs(d))
        s == IF d < 0 THEN -1 ELSE 1
    IN [num |-> s * (n \div g), den |-> s * (d \div g)]

Zero == Rat(0, 1)
Int2Rat(k) == Rat(k, 1)
RatAdd(x, y) == Rat(x.num * y.den + y.num * x.den, x.den * y.den)
RatSub(x, y) == Rat(x.num * y.den - y.num * x.den, x.den * y.den)
RatMul(x, y) == Rat(x.num * y.num, x.den * y.den)
RatDiv(x, y) == Rat(x.num * y.den, x.den * y.num)
RatLess(x, y) == x.num * y.den < y.num * x.den

-----------------------------------------------------------------------------
VARIABLES
    positions,       \* positions_
    avg_prices,      \* avg_prices_
    mark_prices,     \* mark_prices_
    instrument_pnl,  \* instrument_pnl_
    realized_pnl,    \* realized_pnl_
    cash             \* (history) net cash of the fills of each instrument

trackerVars == <<positions, avg_prices, mark_prices, instrument_pnl, realized_pnl, cash>>

\* PositionTracker::reset, run by the constructor.
TrackerInit ==
    /\ positions = [i \in Instruments |-> 0]
    /\ avg_prices = [i \in Instruments |-> Zero]
    /\ mark_prices = [i \in Instruments |-> 0]
    /\ instrument_pnl = [i \in Instruments |-> Zero]
    /\ realized_pnl = Zero
    /\ cash = [i \in Instruments |-> Zero]

\* Mutant: a fill that reverses a position keeps the old average.
FlipAvgStale(fp, a) == a

\* The average of the part opened by a fill that reverses the position: the
\* "new long/short from scratch" starts at the fill price.
FlipAvg(fp, a) == fp

\* PositionTracker::on_fill.  s is +1 for a buy and -1 for a sell; a fill
\* adds to the position when it is flat or on the fill's side, and closes
\* (and possibly reverses) it otherwise.  An instrument out of range is
\* ignored.  The marks are left to the caller.
OnFill(i, side, q, price) ==
    IF i \notin Instruments
    THEN UNCHANGED <<positions, avg_prices, instrument_pnl, realized_pnl, cash>>
    ELSE LET s == IF side = "Buy" THEN 1 ELSE -1
                fp == Rat(price, PriceScale)
                pos == positions[i]
                a == avg_prices[i]
                np == pos + s * q
            IN /\ positions' = [positions EXCEPT ![i] = np]
               /\ cash' = [cash EXCEPT ![i] = RatSub(@, RatMul(Int2Rat(s * q), fp))]
               /\ IF s * pos >= 0
                  THEN \* adding to the position: weighted average
                       LET cost == RatAdd(RatMul(a, Int2Rat(Abs(pos))), RatMul(fp, Int2Rat(q)))
                       IN /\ avg_prices' = [avg_prices EXCEPT ![i] =
                                IF s * np > 0 THEN RatDiv(cost, Int2Rat(Abs(np))) ELSE a]
                          /\ UNCHANGED <<instrument_pnl, realized_pnl>>
                  ELSE \* closing: realize P&L on the covered part
                       LET cover == IF q < Abs(pos) THEN q ELSE Abs(pos)
                           pnl == RatMul(Int2Rat(s * cover), RatSub(a, fp))
                       IN /\ realized_pnl' = RatAdd(realized_pnl, pnl)
                          /\ instrument_pnl' = [instrument_pnl EXCEPT ![i] = RatAdd(@, pnl)]
                          /\ avg_prices' = [avg_prices EXCEPT ![i] =
                                IF s * np > 0 THEN FlipAvg(fp, a)
                                ELSE IF np = 0 THEN Zero ELSE a]

\* PositionTracker::update_mark_price, as the marks M it leaves: an
\* instrument out of range is ignored.
MarkedAt(M, i, price) == IF i \in Instruments THEN [M EXCEPT ![i] = price] ELSE M

\* Queries.  position() of an instrument out of range is 0.
Position(i) == IF i \in Instruments THEN positions[i] ELSE 0
TotalAbsolutePosition == LET RECURSIVE S(_)
                             S(k) == IF k < 0 THEN 0 ELSE Abs(positions[k]) + S(k - 1)
                         IN S(MaxInstruments - 1)

\* unrealized_pnl over positions P, averages A and marks M: instruments with
\* a position and a known mark; for a short, (-pos) * (avg - mark) equals
\* pos * (mark - avg).
UnrealizedOf(P, A, M, i) ==
    IF P[i] # 0 /\ M[i] # 0
    THEN RatMul(Int2Rat(P[i]), RatSub(Rat(M[i], PriceScale), A[i]))
    ELSE Zero

RECURSIVE SumRat(_, _)
SumRat(f, k) == IF k < 0 THEN Zero ELSE RatAdd(f[k], SumRat(f, k - 1))

\* total_pnl = realized_pnl_ + unrealized_pnl().
TotalPnlOf(P, A, M, R) ==
    RatAdd(R, SumRat([i \in Instruments |-> UnrealizedOf(P, A, M, i)], MaxInstruments - 1))

\* capital_used: |pos| times the mark, or the average when no mark is known.
CapitalUsed ==
    SumRat([i \in Instruments |->
              IF positions[i] = 0 THEN Zero
              ELSE RatMul(Int2Rat(Abs(positions[i])),
                          IF mark_prices[i] > 0 THEN Rat(mark_prices[i], PriceScale)
                          ELSE avg_prices[i])],
           MaxInstruments - 1)

-----------------------------------------------------------------------------
(* Properties.                                                             *)

\* Spec 4.5 and P8, for any sequence of fills: the realized P&L of an
\* instrument equals its net cash plus its open position valued at the
\* average entry price, so a flat position has realized exactly its net
\* cash; the average is 0 when flat and positive otherwise; and the global
\* realized P&L is the sum of the per-instrument ones.  Adding to, closing,
\* and reversing a long or a short all have to agree for this to hold.
AccountingIdentity ==
    /\ \A i \in Instruments :
          /\ instrument_pnl[i] = RatAdd(cash[i], RatMul(Int2Rat(positions[i]), avg_prices[i]))
          /\ (positions[i] = 0) = (avg_prices[i] = Zero)
          /\ positions[i] # 0 => RatLess(Zero, avg_prices[i])
    /\ realized_pnl = SumRat(instrument_pnl, MaxInstruments - 1)
=============================================================================

---------------------------- MODULE RiskManager ----------------------------
(***************************************************************************)
(* The pre-trade risk gate (src/src/risk_manager.cpp) with the position    *)
(* tracker it owns.  check_order reads the tracker and the monotonic clock *)
(* and updates only the gate's own counters and rate window; on_pnl_update *)
(* ratchets the peak and may set the kill switch.  The gate is driven by   *)
(* the main loop, so its behaviour is the Pipeline module's.               *)
(***************************************************************************)
EXTENDS PositionTracker, Sequences

CONSTANTS
    MaxOrderSize, MaxPositionPerInstrument, MaxTotalPosition,
    MaxCapital,              \* in currency units
    MaxOrdersPerSecond, MaxPriceDeviationPct, MaxDrawdownPct,
    WindowTicks              \* clock ticks per second

VARIABLES
    kill_switch,             \* kill_switch_
    order_count_in_window,   \* order_count_in_window_
    rate_window_start,       \* rate_window_start_
    peak_pnl,                \* peak_pnl_
    checks_performed, checks_rejected

gateVars == <<kill_switch, order_count_in_window, rate_window_start, peak_pnl,
              checks_performed, checks_rejected>>

\* RiskManager's constructor (rate_window_start_ = now_ns(), the clock at 0).
GateInit ==
    /\ kill_switch = FALSE /\ order_count_in_window = 0 /\ rate_window_start = 0
    /\ peak_pnl = Zero /\ checks_performed = 0 /\ checks_rejected = 0

\* Mutant: the rate test off by one.
RateExceededOffByOne(count) == count > MaxOrdersPerSecond + 1

\* `order_count_in_window_ > limits_.max_orders_per_second`, after the
\* increment.
RateExceeded(count) == count > MaxOrdersPerSecond

\* The outcome of the six checks of check_order, in their order, for request
\* r at market price m and rate count c (after the increment).
CheckResult(r, m, c) ==
    LET newPos == Position(r.inst) + (IF r.side = "Buy" THEN r.qty ELSE -r.qty)
        delta == Abs(newPos) - Abs(Position(r.inst))
        orderValue == Rat(r.qty * r.price, PriceScale)
    IN CASE kill_switch -> "KillSwitchActive"
         [] r.qty > MaxOrderSize -> "OrderSizeTooLarge"
         [] Abs(newPos) > MaxPositionPerInstrument -> "PositionLimitBreached"
         [] TotalAbsolutePosition + delta > MaxTotalPosition -> "PositionLimitBreached"
         [] RatLess(Int2Rat(MaxCapital), RatAdd(CapitalUsed, orderValue)) -> "CapitalLimitBreached"
         [] RateExceeded(c) -> "OrderRateExceeded"
         [] m > 0 /\ Abs(r.price - m) * 100 > m * MaxPriceDeviationPct -> "FatFingerPrice"
         [] OTHER -> "Approved"

\* The window has elapsed at clock value t, and the count it starts from.
WindowExpired(t) == t - rate_window_start >= WindowTicks
CountBefore(t) == IF WindowExpired(t) THEN 0 ELSE order_count_in_window

\* What check_order(r, m) returns at clock value t.
Outcome(r, m, t) == CheckResult(r, m, CountBefore(t) + 1)

\* RiskManager::check_order(r, m) at clock value t: the counters, and the
\* rate window and counter when the checks before the rate check pass.
CheckOrder(r, m, t) ==
    LET reachesRate == CheckResult(r, m, 0) \notin
                          {"KillSwitchActive", "OrderSizeTooLarge",
                           "PositionLimitBreached", "CapitalLimitBreached"}
    IN /\ checks_performed' = checks_performed + 1
       /\ checks_rejected' = IF Outcome(r, m, t) = "Approved" THEN checks_rejected
                             ELSE checks_rejected + 1
       /\ IF reachesRate
          THEN /\ rate_window_start' = IF WindowExpired(t) THEN t ELSE rate_window_start
               /\ order_count_in_window' = CountBefore(t) + 1
          ELSE UNCHANGED <<rate_window_start, order_count_in_window>>
       /\ UNCHANGED <<kill_switch, peak_pnl>>

\* Mutant: the peak is never raised.
RaisePeakNever(peak, total) == peak

\* `if (total_pnl > peak_pnl_) peak_pnl_ = total_pnl;`
RaisePeak(peak, total) == IF RatLess(peak, total) THEN total ELSE peak

\* (peak - total) / peak > max_drawdown_pct / 100, for a positive peak.
Drawdown(peak, total) ==
    /\ RatLess(Zero, peak)
    /\ RatLess(RatMul(peak, Rat(MaxDrawdownPct, 100)), RatSub(peak, total))

\* RiskManager::on_pnl_update(total).
OnPnlUpdate(total) ==
    LET pk == RaisePeak(peak_pnl, total)
    IN /\ peak_pnl' = pk
       /\ kill_switch' = (kill_switch \/ Drawdown(pk, total))
       /\ UNCHANGED <<order_count_in_window, rate_window_start,
                      checks_performed, checks_rejected>>
=============================================================================

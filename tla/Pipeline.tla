----------------------------- MODULE Pipeline -----------------------------
(***************************************************************************)
(* The order path of src/src/main.cpp: the main thread checks each order   *)
(* a strategy generates with the risk gate and pushes the approved ones on *)
(* the order queue; the execution engine thread                            *)
(* (src/src/execution_engine.cpp) pops them, applies its own rate limit,   *)
(* sends them to a venue and pushes the venue's report on the report       *)
(* queue; the main thread pops reports and applies them to the position    *)
(* tracker and the drawdown monitor.  At shutdown main leaves its loop and *)
(* calls exec_engine.stop(), which clears the running flag and joins the   *)
(* engine thread; the engine drains its input queue before it exits.       *)
(*                                                                         *)
(* The two SPSC queues are bounded FIFOs of their usable capacity: the     *)
(* LockFreeQueue module shows the ring buffer implements exactly that, so  *)
(* a try_push or try_pop is one step here.  A venue's book is abstracted   *)
(* to the reports submit_order can return for one Limit order; which venue *)
(* the router picks changes none of them.  Orders come from the strategies *)
(* as arbitrary requests.  The clock is a tick counter; WindowTicks ticks  *)
(* make one second for both rate limiters.                                 *)
(***************************************************************************)
EXTENDS RiskManager

CONSTANTS
    OrderQtys, OrderPrices,  \* requests the strategies generate
    MarketPrices,            \* mid prices passed to check_order (0: unknown)
    OrderQCap, ReportQCap,   \* usable capacities of the two SPSC queues
    EngineMaxPerSec,         \* ExecutionEngine::max_orders_per_sec_
    MaxTicks, MaxChecks      \* bounds on the clock and on check_order calls

VARIABLES
    now,                     \* the monotonic clock
    main_pc,                 \* "Loop", "Joining" (in stop()), "Done"
    running,                 \* ExecutionEngine::running_
    engine_pc,               \* "Loop" (run loop), "Drain", "Exited"
    orderQ, reportQ,         \* order_queue, exec_report_queue
    held,                    \* the report the engine is about to push, if any
    eng_window_start,        \* ExecutionEngine::rate_window_start_
    orders_in_window,        \* ExecutionEngine::orders_in_window_
    approvals,               \* (history) clock value of every approval
    forwarded,               \* (history) clock value of every order sent to a venue
    venue_net,               \* (history) net quantity the venues filled, per instrument
    highest,                 \* (history) highest total P&L seen by a report
    breached                 \* (history) a report saw the drawdown limit exceeded

pipeVars == <<now, main_pc, running, engine_pc, orderQ, reportQ, held,
              eng_window_start, orders_in_window, approvals, forwarded,
              venue_net, highest, breached>>
vars == <<trackerVars, gateVars, pipeVars>>

Requests == [inst : Instruments, side : {"Buy", "Sell"}, qty : OrderQtys, price : OrderPrices]
Signed(side, q) == IF side = "Buy" THEN q ELSE -q

\* LockFreeRingBuffer::try_push: the item is dropped when the queue is full.
TryPush(q, cap, x) == IF Len(q) < cap THEN Append(q, x) ELSE q

\* The reports ExchangeSimulator::submit_order returns for Limit order r:
\* trades of k lots ending at price p (Filled or PartiallyFilled); or no
\* trade, with the order's own price (New when it rests, Rejected when the
\* fill-probability draw fails).
VenueReports(r) ==
    {[inst |-> r.inst, side |-> r.side, k |-> k, p |-> p] :
        k \in 1..r.qty, p \in FillPrices} \cup
    {[inst |-> r.inst, side |-> r.side, k |-> 0, p |-> r.price]}

\* Mutant: the engine throttles only above the limit.
ThrottlesAbove(count) == count > EngineMaxPerSec

\* `if (orders_in_window_ >= max_orders_per_sec_) return false;`
Throttles(count) == count >= EngineMaxPerSec

Init ==
    /\ TrackerInit /\ GateInit
    /\ now = 0 /\ main_pc = "Loop" /\ running = TRUE /\ engine_pc = "Loop"
    /\ orderQ = <<>> /\ reportQ = <<>> /\ held = <<>>
    /\ eng_window_start = -WindowTicks   \* 0, long before the first now_ns()
    /\ orders_in_window = 0
    /\ approvals = <<>> /\ forwarded = <<>>
    /\ venue_net = [i \in Instruments |-> 0]
    /\ highest = Zero /\ breached = FALSE

-----------------------------------------------------------------------------
(* The main thread.                                                        *)

\* One generated order: risk_mgr.check_order, then order_queue.try_push of
\* an approved order, whose result is ignored.
MainCheck(r, m) ==
    LET req == [inst |-> r.inst, side |-> r.side,
                qty |-> r.qty, price |-> r.price]
    IN /\ main_pc = "Loop" /\ checks_performed < MaxChecks
       /\ CheckOrder(req, m, now)
       /\ IF Outcome(req, m, now) = "Approved"
          THEN /\ orderQ' = TryPush(orderQ, OrderQCap, req)
               /\ approvals' = Append(approvals, now)
          ELSE UNCHANGED <<orderQ, approvals>>
       /\ UNCHANGED <<trackerVars, now, main_pc, running, engine_pc, reportQ, held,
                      eng_window_start, orders_in_window, forwarded,
                      venue_net, highest, breached>>

\* One pass of the report loop: a Filled or PartiallyFilled report goes to
\* on_fill; a report with a price updates the mark; then
\* on_pnl_update(total_pnl()).
MainReport ==
    LET o == Head(reportQ)
    IN /\ main_pc = "Loop" /\ reportQ # <<>>
       /\ reportQ' = Tail(reportQ)
       /\ IF o.k > 0 THEN OnFill(o.inst, o.side, o.k, o.p)
          ELSE UNCHANGED <<positions, avg_prices, instrument_pnl, realized_pnl, cash>>
       /\ mark_prices' = IF o.p > 0 THEN MarkedAt(mark_prices, o.inst, o.p) ELSE mark_prices
       /\ LET total == TotalPnlOf(positions', avg_prices', mark_prices', realized_pnl')
          IN /\ OnPnlUpdate(total)
             /\ highest' = IF RatLess(highest, total) THEN total ELSE highest
             /\ breached' = (breached \/ Drawdown(highest', total))
       /\ UNCHANGED <<now, main_pc, running, engine_pc, orderQ, held, eng_window_start,
                      orders_in_window, approvals, forwarded, venue_net>>

\* The loop ends (stop signal or simulation deadline) and exec_engine.stop()
\* clears the running flag and starts joining the engine thread.
MainStop ==
    /\ main_pc = "Loop"
    /\ main_pc' = "Joining" /\ running' = FALSE
    /\ UNCHANGED <<trackerVars, gateVars, now, engine_pc, orderQ, reportQ, held,
                   eng_window_start, orders_in_window, approvals, forwarded,
                   venue_net, highest, breached>>

\* thread_.join() returns; main prints its report and exits.
MainJoined ==
    /\ main_pc = "Joining" /\ engine_pc = "Exited"
    /\ main_pc' = "Done"
    /\ UNCHANGED <<trackerVars, gateVars, now, running, engine_pc, orderQ, reportQ,
                   held, eng_window_start, orders_in_window, approvals, forwarded,
                   venue_net, highest, breached>>

\* The monotonic clock advances.
Tick ==
    /\ now < MaxTicks
    /\ now' = now + 1
    /\ UNCHANGED <<trackerVars, gateVars, main_pc, running, engine_pc, orderQ, reportQ,
                   held, eng_window_start, orders_in_window, approvals, forwarded,
                   venue_net, highest, breached>>

-----------------------------------------------------------------------------
(* The execution engine thread.                                            *)

\* input_.try_pop succeeds and process_order runs: check_rate_limit either
\* throttles the order (a Rejected report with no price) or counts it, and
\* the router sends it to a venue, whose report the engine holds.
EngineProcess ==
    LET r == Head(orderQ)
        expired == now - eng_window_start >= WindowTicks
        count == IF expired THEN 0 ELSE orders_in_window
    IN /\ engine_pc \in {"Loop", "Drain"} /\ held = <<>> /\ orderQ # <<>>
       /\ orderQ' = Tail(orderQ)
       /\ eng_window_start' = IF expired THEN now ELSE eng_window_start
       /\ IF Throttles(count)
          THEN /\ orders_in_window' = count
               /\ held' = <<[inst |-> r.inst, side |-> r.side, k |-> 0, p |-> 0]>>
               /\ UNCHANGED <<forwarded, venue_net>>
          ELSE /\ orders_in_window' = count + 1
               /\ forwarded' = Append(forwarded, now)
               /\ \E o \in VenueReports(r) :
                     /\ held' = <<o>>
                     /\ venue_net' = [venue_net EXCEPT ![r.inst] = @ + Signed(r.side, o.k)]
       /\ UNCHANGED <<trackerVars, gateVars, now, main_pc, running, engine_pc, reportQ,
                      approvals, highest, breached>>

\* output_.try_push(report); the report is dropped when the queue is full.
EnginePush ==
    /\ held # <<>>
    /\ reportQ' = TryPush(reportQ, ReportQCap, held[1])
    /\ held' = <<>>
    /\ UNCHANGED <<trackerVars, gateVars, now, main_pc, running, engine_pc, orderQ,
                   eng_window_start, orders_in_window, approvals, forwarded,
                   venue_net, highest, breached>>

\* The relaxed load of running_ at the loop head reads false: the engine
\* goes on to drain its input queue.
EngineSeesStop ==
    /\ engine_pc = "Loop" /\ held = <<>> /\ ~running
    /\ engine_pc' = "Drain"
    /\ UNCHANGED <<trackerVars, gateVars, now, main_pc, running, orderQ, reportQ, held,
                   eng_window_start, orders_in_window, approvals, forwarded,
                   venue_net, highest, breached>>

\* Mutant: run_loop returns without draining.
DrainedNothing(q) == TRUE

\* The drain loop's try_pop fails: run_loop returns.
Drained(q) == q = <<>>

EngineExit ==
    /\ engine_pc = "Drain" /\ held = <<>> /\ Drained(orderQ)
    /\ engine_pc' = "Exited"
    /\ UNCHANGED <<trackerVars, gateVars, now, main_pc, running, orderQ, reportQ, held,
                   eng_window_start, orders_in_window, approvals, forwarded,
                   venue_net, highest, breached>>

Engine == EngineProcess \/ EnginePush \/ EngineSeesStop \/ EngineExit

Next ==
    \/ \E r \in Requests, m \in MarketPrices : MainCheck(r, m)
    \/ MainReport \/ MainStop \/ MainJoined \/ Tick
    \/ Engine

\* The engine thread busy-spins on its queue, so it keeps taking steps while
\* it has work; join returns once the thread has exited.
Spec == Init /\ [][Next]_vars /\ WF_vars(Engine) /\ WF_vars(MainJoined)
-----------------------------------------------------------------------------
(* Properties.                                                             *)

\* The approvals, and the orders sent to a venue, at clock values >= t.
ApprovedSince(t) == Len(SelectSeq(approvals, LAMBDA a : a >= t))
ForwardedSince(t) == Len(SelectSeq(forwarded, LAMBDA a : a >= t))

\* P10: check_order approves at most max_orders_per_second orders in the
\* current rate window, however rejections before and after the rate check
\* interleave with the window's expiry.
RateWithinWindow == ApprovedSince(rate_window_start) <= MaxOrdersPerSecond

\* check_rate_limit in the engine thread forwards at most
\* max_orders_per_sec_ orders to the venues in its current window.
EngineRateWithinWindow == ForwardedSince(eng_window_start) <= EngineMaxPerSec

\* P9: once a report's on_pnl_update has seen the total P&L fall more than
\* max_drawdown_pct below its peak, check_order approves nothing more.
NoApprovalAfterDrawdown == [][breached => approvals' = approvals]_vars

\* Spec 4.9 and section 5: every order the main thread managed to queue is
\* eventually popped by the engine, the ones still queued at stop() by the
\* drain of run_loop.  Only the engine takes orders off the queue, oldest
\* first, so the queue emptying again pops every order that was in it.
OrdersEventuallyProcessed ==
    orderQ # <<>> ~> orderQ = <<>>

\* Spec 4.6, check 3: check_order keeps every instrument's position within
\* max_position_per_instrument.  It checks the position the tracker has,
\* and orders still at the engine or a venue are not part of it.
PositionWithinLimit == \A i \in Instruments : Abs(positions[i]) <= MaxPositionPerInstrument

\* Spec 4.9 and section 5 (no in-flight order is lost at shutdown): when
\* main has joined the engine, the tracker's positions are what the venues
\* filled.  Reports pushed after main's last pass of the report loop, or
\* dropped by a full report queue, are never applied.
FillsApplied == main_pc = "Done" => positions = venue_net
=============================================================================

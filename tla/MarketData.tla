----------------------------- MODULE MarketData -----------------------------
(***************************************************************************)
(* The market data path of src/src/main.cpp.  Each pass of the main loop    *)
(* asks the feed simulator (src/src/feed_simulator.cpp) for its next FIX    *)
(* message, hands it to MarketDataHandler::process_message                  *)
(* (src/src/market_data_handler.cpp), which parses it with FixParser        *)
(* (src/src/fix_parser.cpp), normalises it into a MarketDataMessage and     *)
(* pushes it on the market data queue, and then pops that queue.  All of   *)
(* this runs on the main thread, so one pass is one step.                  *)
(*                                                                         *)
(* Data abstraction.  A FIX message is the sequence of its fields, each a  *)
(* tag and the characters of its value; the feed's format string writes    *)
(* the tags as digit literals and no value contains '=' or '|', so the     *)
(* parser's scan for the separators yields exactly these fields.  The       *)
(* feed's double prices are kept in thousandths of a currency unit (mills), *)
(* and "%.2f" rounds them to cents, either way on a tie since the binary    *)
(* double is not exactly the decimal tie.  The random walk's Gaussian      *)
(* steps are unbounded, so a step may reach any price of Walk.              *)
(***************************************************************************)
EXTENDS Integers, Sequences, SequencesExt

CONSTANTS
    Walk,          \* mid prices (mills) one step of the random walk can reach
    LastOffsets,   \* last - mid (mills): spread * 0.1 * N(0,1)
    QtyFactors,    \* static_cast<int>(1.0 + |N(0,1)|)
    MaxMsgs,       \* passes of the main loop before the simulation deadline
    Latencies,     \* pairs <<t1 - t0, t7 - t1>> of now_ns() differences: around
                   \* next_message and process_message, then to the strategies' end
    TrackerCap     \* LatencyTracker::MAX_SAMPLES (1048576 in the code)

CB == INSTANCE CircularBuffer

PRICE_SCALE == 100
MAX_INSTRUMENTS == 256
MAX_COMMON_TAGS == 128
MAX_EXTRA_FIELDS == 32
MSG_BUFFER_SIZE == 512

\* main.cpp: feed.add_instrument(0, "AAPL", 15000, vol, 2, 100) and
\* (1, "GOOG", 28000, vol * 1.2, 3, 50); the feed takes these as doubles
\* in currency units.
FeedInstruments ==
    << [id |-> 0, symbol |-> <<"A", "A", "P", "L">>, mid |-> 15000000, spread |-> 2000, base_size |-> 100],
       [id |-> 1, symbol |-> <<"G", "O", "O", "G">>, mid |-> 28000000, spread |-> 3000, base_size |-> 50] >>

VARIABLES
    feed,        \* FeedSimulator: instruments_, current_instrument_, msg_count_
    processed,   \* MarketDataHandler::messages_processed_
    dropped,     \* MarketDataHandler::messages_dropped_
    md,          \* the MarketDataMessage main popped last
    main_pc,     \* "Loop", "Done"
    sent,        \* (history) the quote the feed built last, before formatting
    metrics,     \* MetricsCollector: md_latency_, tick_to_trade_, the histogram, counters
    md_lat_hist, \* (history) every market data latency recorded
    t2t_hist     \* (history) every tick-to-trade latency recorded

vars == <<feed, processed, dropped, md, main_pc, sent, metrics, md_lat_hist, t2t_hist>>

NoMd == [msg_type |-> "none"]
NoQuote == [id |-> -1]

-----------------------------------------------------------------------------
(* Characters and numbers.                                                  *)

Digit == <<"0", "1", "2", "3", "4", "5", "6", "7", "8", "9">>
IsDigit(c) == \E d \in 0..9 : Digit[d + 1] = c
DigitValue(c) == CHOOSE d \in 0..9 : Digit[d + 1] = c

\* printf "%lu" of n >= 0.
RECURSIVE DigitsOf(_)
DigitsOf(n) == IF n < 10 THEN <<Digit[n + 1]>> ELSE DigitsOf(n \div 10) \o <<Digit[(n % 10) + 1]>>

\* The cents "%.2f" prints for a double of m mills (magnitude): the
\* nearest, and on a tie either neighbour.
RoundedCents(m) ==
    LET a == IF m < 0 THEN -m ELSE m
    IN IF a % 10 = 5 THEN {a \div 10, a \div 10 + 1} ELSE {(a + 5) \div 10}

\* snprintf "%.2f": a '-' for a negative double (also "-0.00"), the integer
\* part, '.', and two decimals.
Fmt2(neg, cents) ==
    (IF neg THEN <<"-">> ELSE <<>>) \o DigitsOf(cents \div 100) \o
    <<".", Digit[((cents \div 10) % 10) + 1], Digit[(cents % 10) + 1]>>
Printed(m) == {Fmt2(m < 0, c) : c \in RoundedCents(m)}

\* Mutant: the check for a leading '-' left out.
IsNegativeNever(sv) == FALSE

\* parse_price_field: a leading '-' marks a negative price.
IsNegative(sv) == sv # <<>> /\ sv[1] = "-"

\* FixParser::parse_price_field: an optional '-', digits with at most two
\* decimals kept, stopping at the first other character; the decimals are
\* padded to two and the result scaled by PRICE_SCALE.
ParsePriceField(sv) ==
    LET neg == IsNegative(sv)
        Step(a, c) ==
            CASE a.stop -> a
              [] c = "." -> [a EXCEPT !.in_decimal = TRUE]
              [] ~IsDigit(c) -> [a EXCEPT !.stop = TRUE]
              [] a.in_decimal /\ a.decimal_digits < 2 ->
                    [a EXCEPT !.decimal_part = @ * 10 + DigitValue(c),
                              !.decimal_digits = @ + 1]
              [] a.in_decimal -> a
              [] OTHER -> [a EXCEPT !.integer_part = @ * 10 + DigitValue(c)]
        r == FoldLeft(Step, [integer_part |-> 0, decimal_part |-> 0, decimal_digits |-> 0,
                             in_decimal |-> FALSE, stop |-> FALSE],
                      IF neg THEN Tail(sv) ELSE sv)
        result == r.integer_part * PRICE_SCALE + r.decimal_part * 10 ^ (2 - r.decimal_digits)
    IN CASE sv = <<>> -> 0
         [] neg -> -result
         [] OTHER -> result

\* FixParser::parse_uint64_field: leading digits.
ParseUint64Field(sv) ==
    LET Step(a, c) == IF a.stop \/ ~IsDigit(c) THEN [a EXCEPT !.stop = TRUE]
                      ELSE [a EXCEPT !.result = @ * 10 + DigitValue(c)]
    IN FoldLeft(Step, [result |-> 0, stop |-> FALSE], sv).result

-----------------------------------------------------------------------------
(* FeedSimulator.                                                           *)

Field(tag, val) == [tag |-> tag, val |-> val]

\* build_fix_message's format: 8=FIX.4.4|9=200|35=W|49=FEED|56=CLIENT|34=n|
\* 55=sym|132=bid|133=ask|134=bq|135=aq|44=last|38=lq|10=000|
FixMessage(n, sym, bid, ask, bq, aq, last, lq) ==
    << Field(8, <<"F", "I", "X", ".", "4", ".", "4">>), Field(9, <<"2", "0", "0">>),
       Field(35, <<"W">>), Field(49, <<"F", "E", "E", "D">>),
       Field(56, <<"C", "L", "I", "E", "N", "T">>), Field(34, DigitsOf(n)),
       Field(55, sym), Field(132, bid), Field(133, ask), Field(134, DigitsOf(bq)),
       Field(135, DigitsOf(aq)), Field(44, last), Field(38, DigitsOf(lq)),
       Field(10, <<"0", "0", "0">>) >>

\* The length snprintf returns for a message.
MsgLength(msg) ==
    FoldLeft(LAMBDA n, f : n + Len(DigitsOf(f.tag)) + Len(f.val) + 2, 0, msg)

\* The mid after a random-walk step to m, floored at 0.01.
Floored(m) == IF m < 10 THEN 10 ELSE m

\* Mutant: the round-robin cursor advanced without the modulo.
NextInstrumentNoWrap(k, n) == k + 1

\* next_message: current_instrument_ = (current_instrument_ + 1) % size,
\* here over the 1-based indices of the instruments.
NextInstrument(k, n) == (k % n) + 1

\* next_message: the next instrument round-robin, its mid after one step,
\* build_fix_message, and ++msg_count_.  The result is the new feed state,
\* the message (empty when it does not fit the buffer) and the quote built.
NextMessage(f, step, factor, bidS, askS, lastS) ==
    LET k == f.cur
        st == [f.instruments[k] EXCEPT !.mid = Floored(step)]
        msg == FixMessage(f.msg_count, st.symbol, bidS, askS, st.base_size * factor,
                          st.base_size * factor, lastS, st.base_size \div 2)
    IN [feed |-> [f EXCEPT !.instruments[k] = st,
                           !.cur = NextInstrument(k, Len(f.instruments)),
                           !.msg_count = @ + 1],
        msg |-> IF MsgLength(msg) < MSG_BUFFER_SIZE THEN msg ELSE <<>>]

\* The doubles build_fix_message formats, for instrument state st after the
\* step: bid and ask at half the spread from the mid, and the last price.
Quote(st, off, factor) ==
    [id |-> st.id, bid |-> st.mid - st.spread \div 2, ask |-> st.mid + st.spread \div 2,
     last |-> st.mid + off, bq |-> st.base_size * factor, lq |-> st.base_size \div 2]

-----------------------------------------------------------------------------
(* FixParser and MarketDataHandler.                                         *)

\* parse: each field goes to the flat array when 0 < tag < 128 (a later
\* one overwrites), otherwise to the extra fields while there is room.
ParseFields(msg) ==
    LET Store(p, f) ==
            IF f.tag > 0 /\ f.tag < MAX_COMMON_TAGS THEN [p EXCEPT !.common[f.tag] = f.val]
            ELSE IF Len(p.extra) < MAX_EXTRA_FIELDS THEN [p EXCEPT !.extra = Append(@, f)]
            ELSE p
    IN FoldLeft(Store, [common |-> [t \in 1..MAX_COMMON_TAGS - 1 |-> <<>>], extra |-> <<>>], msg)

\* get_field: the flat array, or the first extra field with the tag.
GetField(p, tag) ==
    IF tag > 0 /\ tag < MAX_COMMON_TAGS THEN p.common[tag]
    ELSE LET k == SelectInSeq(p.extra, LAMBDA f : f.tag = tag)
         IN IF k = 0 THEN <<>> ELSE p.extra[k].val

\* The getters process_message calls.
MsgType(p) == GetField(p, 35)
GetSymbol(p) == GetField(p, 55)
GetPrice(p) == ParsePriceField(GetField(p, 44))
GetQuantity(p) == ParseUint64Field(GetField(p, 38))
GetBidPrice(p) == ParsePriceField(GetField(p, 132))
GetAskPrice(p) == ParsePriceField(GetField(p, 133))
GetBidSize(p) == ParseUint64Field(GetField(p, 134))
GetAskSize(p) == ParseUint64Field(GetField(p, 135))

\* Mutant: "GOOG" copied from the line above and left returning 0.
SymbolToIdCopyPaste(sym) ==
    CASE sym = <<"A", "A", "P", "L">> -> 0
      [] sym = <<"G", "O", "O", "G">> -> 0
      [] OTHER -> MAX_INSTRUMENTS

\* symbol_to_id: the five known symbols, else hash * 31 + c over the
\* characters, modulo MAX_INSTRUMENTS (which divides 2^32, so the uint32
\* wrap does not change the result).
SymbolToId(sym) ==
    LET Code(c) == CHOOSE n \in 65..90 : <<"A", "B", "C", "D", "E", "F", "G", "H", "I", "J",
                        "K", "L", "M", "N", "O", "P", "Q", "R", "S", "T", "U", "V", "W",
                        "X", "Y", "Z">>[n - 64] = c
    IN CASE sym = <<"A", "A", "P", "L">> -> 0
         [] sym = <<"G", "O", "O", "G">> -> 1
         [] sym = <<"M", "S", "F", "T">> -> 2
         [] sym = <<"A", "M", "Z", "N">> -> 3
         [] sym = <<"T", "S", "L", "A">> -> 4
         [] OTHER -> FoldLeft(LAMBDA h, c : (h * 31 + Code(c)) % MAX_INSTRUMENTS, 0, sym)

\* process_message: parse, normalise a W, 8 or D message, and try_push it.
\* The result is the message pushed, or NoMd when the parse fails or the
\* type is unsupported.
ProcessMessage(raw) ==
    LET p == ParseFields(raw)
        type == MsgType(p)
        last == [msg_type |-> type, instrument |-> SymbolToId(GetSymbol(p)),
                 bid_price |-> 0, ask_price |-> 0, bid_quantity |-> 0, ask_quantity |-> 0,
                 last_price |-> GetPrice(p), last_quantity |-> GetQuantity(p)]
    IN CASE raw = <<>> \/ type = <<>> -> NoMd
         [] type = <<"W">> ->
               [last EXCEPT !.bid_price = GetBidPrice(p), !.ask_price = GetAskPrice(p),
                            !.bid_quantity = GetBidSize(p), !.ask_quantity = GetAskSize(p)]
         [] type \in {<<"8">>, <<"D">>} -> last
         [] OTHER -> NoMd

-----------------------------------------------------------------------------
(* Histogram and LatencyTracker (src/include/monitoring).                   *)

NUM_BUCKETS == 7

\* Histogram(): every count 0, total, max and min 0.
HistNew == [counts |-> [k \in 0..NUM_BUCKETS - 1 |-> 0], total |-> 0, max |-> 0, min |-> 0]

\* Histogram::record: the decade bucket of the value.
BucketOf(v) ==
    CASE v < 10 -> 0 [] v < 100 -> 1 [] v < 1000 -> 2 [] v < 10000 -> 3
      [] v < 100000 -> 4 [] v < 1000000 -> 5 [] OTHER -> 6

\* Mutant: min_ taken only from values below it, so the 0 it starts at stays.
HistRecordMinNoFirst(h, v) ==
    [h EXCEPT !.counts[BucketOf(v)] = @ + 1, !.total = @ + 1,
              !.max = IF v > @ THEN v ELSE @,
              !.min = IF v < @ THEN v ELSE @]

\* Histogram::record: count the bucket and the total, raise max_, and lower
\* min_ (or set it at the first sample).
HistRecord(h, v) ==
    [h EXCEPT !.counts[BucketOf(v)] = @ + 1, !.total = @ + 1,
              !.max = IF v > @ THEN v ELSE @,
              !.min = IF v < @ \/ h.total + 1 = 1 THEN v ELSE @]

\* Mutant: the nearest-rank index taken over n - 1 samples.
PctIndexOverLast(n, p) == ((n - 1) * p) \div 100

\* compute_stats: sorted[n * p / 100], 0-based.
PctIndex(n, p) == (n * p) \div 100

\* LatencyTracker::compute_stats over the samples the tracker's circular
\* buffer holds: copied in logical order, sorted, and indexed.  Its mean is
\* neither printed nor written by the reports, so it is left out.
ComputeStats(tr) ==
    LET n == CB!Size(tr)
        sorted == SortSeq(CB!Elements(tr), <)
        At0(k) == sorted[k + 1]
    IN IF n = 0 THEN [count |-> 0]
       ELSE [count |-> n, min |-> At0(0), max |-> At0(n - 1),
             p50 |-> At0(PctIndex(n, 50)), p90 |-> At0(PctIndex(n, 90)),
             p95 |-> At0(PctIndex(n, 95)), p99 |-> At0(PctIndex(n, 99)),
             p999 |-> At0(IF n - 1 < (n * 999) \div 1000 THEN n - 1 ELSE (n * 999) \div 1000)]

\* The tick-to-trade latency t7 - t0 goes into its tracker and its histogram.
RecordTickToTrade(mt, t) ==
    [mt EXCEPT !.tick_to_trade = CB!PushBack(@, t), !.t2t_hist = HistRecord(@, t)]

MetricsNew ==
    [md_latency |-> CB!CBNew(TrackerCap), tick_to_trade |-> CB!CBNew(TrackerCap),
     t2t_hist |-> HistNew, md_msg_count |-> 0, ob_update_count |-> 0]

-----------------------------------------------------------------------------
(* The main loop.                                                           *)

Init ==
    /\ feed = [instruments |-> FeedInstruments, cur |-> 1, msg_count |-> 0]
    /\ processed = 0 /\ dropped = 0
    /\ md = NoMd /\ main_pc = "Loop" /\ sent = NoQuote
    /\ metrics = MetricsNew /\ md_lat_hist = <<>> /\ t2t_hist = <<>>

\* One pass: next_message; process_message when it is not empty, whose
\* try_push onto the queue main empties every pass always succeeds; then
\* try_pop hands the message to the strategies.  The metrics calls: the
\* market data latency t1 - t0 and the message count on every pass; when a
\* message was popped, the book update count and the tick-to-trade latency
\* t7 - t0 into its tracker and its histogram.
MainMarketData(step, off, factor, a, b) ==
    LET st == [feed.instruments[feed.cur] EXCEPT !.mid = Floored(step)]
        q == Quote(st, off, factor)
        mt == [metrics EXCEPT !.md_latency = CB!PushBack(@, a), !.md_msg_count = @ + 1]
    IN /\ main_pc = "Loop" /\ feed.msg_count < MaxMsgs
       /\ \E bidS \in Printed(q.bid), askS \in Printed(q.ask), lastS \in Printed(q.last) :
            LET n == NextMessage(feed, step, factor, bidS, askS, lastS) IN
            \E m \in {IF n.msg = <<>> THEN NoMd ELSE ProcessMessage(n.msg)} :
            LET popped == m # NoMd
            IN /\ feed' = n.feed
               /\ processed' = IF popped THEN processed + 1 ELSE processed
               /\ md' = IF popped THEN m ELSE md
               /\ metrics' = IF popped
                              THEN RecordTickToTrade([mt EXCEPT !.ob_update_count = @ + 1], a + b)
                              ELSE mt
               /\ t2t_hist' = IF popped THEN Append(t2t_hist, a + b) ELSE t2t_hist
       /\ sent' = q
       /\ md_lat_hist' = Append(md_lat_hist, a)
       /\ UNCHANGED <<dropped, main_pc>>

\* The simulation deadline (or the stop flag) ends the loop.
MainDeadline ==
    /\ main_pc = "Loop"
    /\ main_pc' = "Done"
    /\ UNCHANGED <<feed, processed, dropped, md, sent, metrics, md_lat_hist, t2t_hist>>

Next ==
    \/ \E step \in Walk, off \in LastOffsets, factor \in QtyFactors,
          lat \in Latencies :
          MainMarketData(step, off, factor, lat[1], lat[2])
    \/ MainDeadline

Spec == Init /\ [][Next]_vars

-----------------------------------------------------------------------------
(* Properties.                                                              *)

TypeOK ==
    /\ feed.cur \in 1..Len(FeedInstruments) /\ feed.msg_count \in 0..MaxMsgs
    /\ processed \in Nat /\ dropped \in Nat
    /\ main_pc \in {"Loop", "Done"}

\* Every quote the feed builds reaches main intact through the FIX text and
\* the handler: the popped message is a snapshot of the instrument the feed
\* quoted (symbol_to_id inverts the feed's symbol), with the feed's sizes,
\* and the handler counted every message and dropped none.
MdMatchesFeed ==
    sent # NoQuote =>
        /\ md.msg_type = <<"W">>
        /\ md.instrument = sent.id
        /\ md.bid_quantity = sent.bq /\ md.ask_quantity = sent.bq
        /\ md.last_quantity = sent.lq
        /\ processed = feed.msg_count /\ dropped = 0

\* Spec P7: a price printed with "%.2f" and read back by parse_price_field
\* is within half a tick of the feed's double, for the bid, the ask and
\* the last price, also where the bid of a cheap instrument is negative.
FixedPriceRoundTrip ==
    LET Near(ticks, mills) == ticks * 10 - mills \in -5..5
    IN sent # NoQuote =>
        /\ Near(md.bid_price, sent.bid)
        /\ Near(md.ask_price, sent.ask)
        /\ Near(md.last_price, sent.last)

\* Reference: the value of rank k (0-based) of the samples w, by counting
\* the samples below and up to it rather than by sorting.
RankOf(w, k) ==
    CHOOSE v \in ToSet(w) :
        /\ Len(SelectSeq(w, LAMBDA x : x < v)) <= k
        /\ Len(SelectSeq(w, LAMBDA x : x <= v)) > k

\* The summary main prints at the end (print_summary) reports, for each
\* tracker, percentiles of exactly the samples the tracker still holds:
\* the last MAX_SAMPLES recorded, not the whole run, once its circular
\* buffer has wrapped.  The ranks are floor(n * p / 100), and p99.9 is
\* kept below n.
LatencyStatsMatchWindow ==
    LET Ref(h) ==
            LET w == CB!RetainedOf(h, TrackerCap)
                n == Len(w)
            IN IF n = 0 THEN [count |-> 0]
               ELSE [count |-> n, min |-> Min(ToSet(w)), max |-> Max(ToSet(w)),
                     p50 |-> RankOf(w, (n * 50) \div 100), p90 |-> RankOf(w, (n * 90) \div 100),
                     p95 |-> RankOf(w, (n * 95) \div 100), p99 |-> RankOf(w, (n * 99) \div 100),
                     p999 |-> RankOf(w, (n * 999) \div 1000)]
    IN main_pc = "Done" =>
        /\ ComputeStats(metrics.md_latency) = Ref(md_lat_hist)
        /\ ComputeStats(metrics.tick_to_trade) = Ref(t2t_hist)

\* The tick-to-trade histogram covers every sample of the run: each bucket
\* k counts the samples with k powers of ten from 10 to 10^6 at or below
\* them, the total counts them all, and min and max are theirs, including
\* a minimum above 0, which the 0 min_ starts at would otherwise hide.
HistogramMatchesSamples ==
    LET h == metrics.t2t_hist
        Decade(v) == Cardinality({k \in 1..6 : 10 ^ k <= v})
    IN /\ h.total = Len(t2t_hist)
       /\ \A k \in 0..NUM_BUCKETS - 1 :
             h.counts[k] = Len(SelectSeq(t2t_hist, LAMBDA v : Decade(v) = k))
       /\ t2t_hist # <<>> =>
             h.min = Min(ToSet(t2t_hist)) /\ h.max = Max(ToSet(t2t_hist))

=============================================================================

------------------------------- MODULE Trades -------------------------------
(***************************************************************************)
(* The record of completed trades (trades.py) and what the API shows of it *)
(* (offer_grouping.py): trades grouped by price and time, and the bins of  *)
(* the price chart.                                                        *)
(*                                                                         *)
(* Prices are integers; Tick of them make a unit of the precision prices   *)
(* are cut off at.  A price of the chart is a fraction <<sum, count>>,     *)
(* because the closing price is an average.                                *)
(***************************************************************************)
EXTENDS Integers, Sequences, FiniteSets, FiniteSetsExt, SequencesExt

CONSTANTS
    Offers,       \* records: offer_id, type, price, base_amount
    Times,        \* timestamps of completions and of queries
    Interval,     \* length of a time bin
    Tick,         \* PRICE_GROUP_PRECISION
    MaxTrades,    \* bound: trades recorded
    MaxGroups,    \* bound: groups and bins asked for
    None          \* model value

ASSUME OffersAssumption ==
    /\ \A o \in Offers : o.offer_id \in Nat \ {0} /\ o.price \in Nat /\ o.base_amount \in Nat
    /\ \A o, p \in Offers : o.offer_id = p.offer_id => o = p
ASSUME TimesAssumption == Times \subseteq Nat /\ None \notin Int
ASSUME IntervalAssumption == Interval \in Nat \ {0} /\ Tick \in Nat \ {0}
ASSUME BoundsAssumption == MaxTrades \in Nat /\ MaxGroups \in Nat

VARIABLES
    pending_offer_by_id,   \* the offers that were taken
    trades,                \* TradesView._trades, whose key is (timestamp, offer_id)
    trade_by_id            \* offer -> its last trade

vars == <<pending_offer_by_id, trades, trade_by_id>>

Trade == [offer : Offers, timestamp : Times]

Init ==
    /\ pending_offer_by_id = {}
    /\ trades = {}
    /\ trade_by_id = [o \in Offers |-> None]

-----------------------------------------------------------------------------
(* TradesView *)

AddPending(o) ==
    /\ pending_offer_by_id' = pending_offer_by_id \cup {o}
    /\ UNCHANGED <<trades, trade_by_id>>

\* Mutant: an offer that is not pending is reported all the same.
ReportUnchecked(o, completed) ==
    LET trade == [offer |-> IF o \in pending_offer_by_id THEN o ELSE None, timestamp |-> completed] IN
    /\ Cardinality(trades) < MaxTrades
    /\ pending_offer_by_id' = pending_offer_by_id \ {o}
    /\ trades' = trades \cup {trade}
    /\ trade_by_id' = [trade_by_id EXCEPT ![o] = trade]

\* Mutant: the offer stays pending.
ReportAgain(o, completed) ==
    LET trade == [offer |-> o, timestamp |-> completed] IN
    /\ Cardinality(trades) < MaxTrades
    /\ o \in pending_offer_by_id
    /\ trades' = trades \cup {trade}
    /\ trade_by_id' = [trade_by_id EXCEPT ![o] = trade]
    /\ UNCHANGED pending_offer_by_id

\* A report for an offer that is not pending changes nothing.
ReportCompleted(o, completed) ==
    LET trade == [offer |-> o, timestamp |-> completed] IN
    /\ Cardinality(trades) < MaxTrades
    /\ o \in pending_offer_by_id
    /\ pending_offer_by_id' = pending_offer_by_id \ {o}
    /\ trades' = trades \cup {trade}
    /\ trade_by_id' = [trade_by_id EXCEPT ![o] = trade]

Next ==
    \E o \in Offers : \/ AddPending(o)
                      \/ \E t \in Times : ReportCompleted(o, t)

Spec == Init /\ [][Next]_vars

KeyLess(t, u) ==
    \/ t.timestamp < u.timestamp
    \/ t.timestamp = u.timestamp /\ t.offer.offer_id < u.offer.offer_id

\* The values of the sorted dictionary: some trades in the order of their keys.
Sorted(S) ==
    CHOOSE s \in [1 .. Cardinality(S) -> S] : \A i, j \in DOMAIN s : i < j => KeyLess(s[i], s[j])

\* Mutant: the end of the range is included.
get_trades_inclusive(from, to) ==
    Sorted({t \in trades : /\ from # None => from <= t.timestamp
                           /\ to # None => t.timestamp <= to})

\* TradesView.trades: keys from (from, 0) up to and without (to, 0).
get_trades(from, to) ==
    Sorted({t \in trades : /\ from # None => from <= t.timestamp
                           /\ to # None => t.timestamp < to})

-----------------------------------------------------------------------------
(* Grouping.  The groups are a function from their keys to their amounts; the
   order in which they are listed is left out. *)

Quantized(price) == price \div Tick
find_time_bin(t) == (t \div Interval) * Interval

Add(groups, key, amount) ==
    LET old(k) == IF k \in DOMAIN groups THEN groups[k] ELSE 0 IN
    [k \in DOMAIN groups \cup {key} |-> IF k = key THEN old(k) + amount ELSE old(k)]

group_offers(offers) ==
    FoldLeft(LAMBDA groups, o : Add(groups, Quantized(o.price), o.base_amount), <<>>, offers)

TradeKey(t) == <<Quantized(t.offer.price), find_time_bin(t.timestamp), t.offer.type>>

\* Mutant: the group that is one too many is kept.
group_trades_over(iterable, chunk_size) ==
    FoldLeft(LAMBDA acc, t :
                LET groups == Add(acc.groups, TradeKey(t), t.offer.base_amount) IN
                IF acc.done THEN acc
                ELSE [groups |-> groups,
                      done |-> chunk_size # None /\ Cardinality(DOMAIN groups) = chunk_size + 1],
             [groups |-> <<>>, done |-> FALSE], iterable).groups

\* The loop ends at the trade that would open one group too many.
group_trades(iterable, chunk_size) ==
    FoldLeft(LAMBDA acc, t :
                LET groups == Add(acc.groups, TradeKey(t), t.offer.base_amount) IN
                IF acc.done THEN acc
                ELSE IF chunk_size # None /\ Cardinality(DOMAIN groups) = chunk_size + 1
                     THEN [acc EXCEPT !.done = TRUE]
                     ELSE [acc EXCEPT !.groups = groups],
             [groups |-> <<>>, done |-> FALSE], iterable).groups

\* Mutant: trades are taken from the given time on.
group_trades_after(from) == group_trades(get_trades(from, None), None)

\* The start is moved back to the start of its bin.
group_trades_from(from) ==
    group_trades(get_trades(IF from = None THEN None ELSE find_time_bin(from), None), None)

get_n_recent_trades(n) == group_trades(Reverse(get_trades(None, None)), n)

-----------------------------------------------------------------------------
(* The price chart *)

PriceBin(open_price, timestamp_bin) ==
    [timestamp |-> timestamp_bin, open |-> open_price, min |-> None, max |-> None,
     amount |-> 0, close_timestamp |-> None, close_prices |-> <<>>]

\* Mutant: a price that is the least so far is not compared with the greatest.
AddTradeElse(bin, t) ==
    LET price == Quantized(t.offer.price)
        least == bin.min = None \/ price < bin.min
        later == bin.close_timestamp = None \/ t.timestamp > bin.close_timestamp IN
    [bin EXCEPT !.min = IF least THEN price ELSE @,
                !.max = IF ~ least /\ (@ = None \/ price > @) THEN price ELSE @,
                !.amount = @ + t.offer.base_amount,
                !.close_timestamp = IF later THEN t.timestamp ELSE @,
                !.close_prices = IF later THEN <<price>> ELSE Append(@, price)]

\* Mutant: of two trades at the same time the second one makes the closing price.
AddTradeLast(bin, t) ==
    LET price == Quantized(t.offer.price) IN
    [bin EXCEPT !.min = IF @ = None \/ price < @ THEN price ELSE @,
                !.max = IF @ = None \/ price > @ THEN price ELSE @,
                !.amount = @ + t.offer.base_amount,
                !.close_timestamp = t.timestamp,
                !.close_prices = <<price>>]

\* PriceBin.add, with trades in the order of their timestamps.
AddTrade(bin, t) ==
    LET price == Quantized(t.offer.price)
        later == bin.close_timestamp = None \/ t.timestamp > bin.close_timestamp IN
    [bin EXCEPT !.min = IF @ = None \/ price < @ THEN price ELSE @,
                !.max = IF @ = None \/ price > @ THEN price ELSE @,
                !.amount = @ + t.offer.base_amount,
                !.close_timestamp = IF later THEN t.timestamp ELSE @,
                !.close_prices = IF later THEN <<price>>
                                 ELSE IF t.timestamp = bin.close_timestamp THEN Append(@, price)
                                 ELSE @]

close_price(bin) ==
    IF bin.close_timestamp = None THEN bin.open
    ELSE <<FoldLeft(LAMBDA sum, p : sum + p, 0, bin.close_prices), Len(bin.close_prices)>>

\* "price or open_price": a price of zero counts as none.
min_price(bin) == IF bin.min \in {None, 0} THEN bin.open ELSE <<bin.min, 1>>
max_price(bin) == IF bin.max \in {None, 0} THEN bin.open ELSE <<bin.max, 1>>

\* The starts of the last nof_bins bins, the one of the given time included.
time_bin_gen(current, nof_bins) ==
    [i \in 1 .. nof_bins |-> find_time_bin(current) + (i - nof_bins) * Interval]

\* A new bin with the trades of its time.
price_bin(open_price, from, to) == FoldLeft(AddTrade, PriceBin(open_price, from), get_trades(from, to))

\* Each bin opens with the closing price of the one before it; the first bin serves to
\* find the price the second one opens with.
make_price_bins(current, nof_buckets) ==
    LET start == time_bin_gen(current, 2)
        from == time_bin_gen(start[1], nof_buckets + 1)
        to == time_bin_gen(start[2], nof_buckets + 1)
        NextBin(acc, i) ==
            LET bin == price_bin(acc.last_close_price, from[i], to[i]) IN
            [bins |-> Append(acc.bins, bin), last_close_price |-> close_price(bin)]
    IN  Tail(FoldLeft(NextBin, [bins |-> <<>>, last_close_price |-> <<0, 1>>],
                      [i \in 1 .. nof_buckets + 1 |-> i]).bins)

-----------------------------------------------------------------------------
(* What they promise. *)

\* Every variable has its type.
TypeOK ==
    /\ pending_offer_by_id \subseteq Offers
    /\ trades \subseteq Trade
    /\ trade_by_id \in [Offers -> Trade \cup {None}]

\* A completion uses up the pending offer: one swap that is taken once and reported any
\* number of times is one trade, and no trade is ever lost from either view.
CompletionStep ==
    /\ trades \subseteq trades'
    /\ \A t \in trades' \ trades : t.offer \in pending_offer_by_id \ pending_offer_by_id'
    /\ \A o \in Offers : trade_by_id'[o] # trade_by_id[o] => trade_by_id'[o] \in trades'

\* No step of TradesView does anything else to the views.
CompletedOnce == [][CompletionStep]_vars

Amount(S) == SumFunctionOnSet([t \in trades |-> t.offer.base_amount], S)
InBin(b) == {t \in trades : b <= t.timestamp /\ t.timestamp < b + Interval}

\* The groups shown from some time on are whole: each has the amount of all trades of
\* its price, bin and type, also of those in its bin before that time, and every trade
\* from then on is in one.  Offers grouped by price are complete, too.
GroupsAreSums ==
    /\ \A from \in Times \cup {None} :
          LET groups == group_trades_from(from) IN
          /\ \A t \in trades : from = None \/ from <= t.timestamp => TradeKey(t) \in DOMAIN groups
          /\ \A k \in DOMAIN groups : groups[k] = Amount({t \in trades : TradeKey(t) = k})
    /\ LET groups == group_offers(SetToSeq(pending_offer_by_id)) IN
       \A o \in pending_offer_by_id :
          groups[Quantized(o.price)] =
             SumFunctionOnSet([p \in pending_offer_by_id |-> p.base_amount],
                              {p \in pending_offer_by_id : Quantized(p.price) = Quantized(o.price)})

\* The most recent groups are as many as were asked for, if there are as many, and they
\* are the newest: no bin that is left out is newer than one that is shown.  A group is
\* whole unless the listing breaks off within its bin.
RecentGroups ==
    \A n \in 0 .. MaxGroups :
        LET groups == get_n_recent_trades(n)
            all == {TradeKey(t) : t \in trades}
            left == all \ DOMAIN groups IN
        /\ DOMAIN groups \subseteq all
        /\ Cardinality(DOMAIN groups) = Min({n, Cardinality(all)})
        /\ \A k \in DOMAIN groups :
              /\ \A j \in left : j[2] <= k[2]
              /\ (\A j \in left : j[2] # k[2]) => groups[k] = Amount({t \in trades : TradeKey(t) = k})

\* The chart has the bins asked for, which are the last ones that are over, and every
\* trade in that time counts in the bin of its timestamp and nowhere else.
BinsCoverWindow ==
    \A now \in Times, n \in 1 .. MaxGroups :
        LET bins == make_price_bins(now, n) IN
        /\ Len(bins) = n
        /\ \A i \in 1 .. n :
              /\ bins[i].timestamp = find_time_bin(now) - (n + 1 - i) * Interval
              /\ bins[i].amount = Amount(InBin(bins[i].timestamp))

\* The average price of the latest of some trades.
LatestPrice(S) ==
    LET latest == {t \in S : \A u \in S : u.timestamp <= t.timestamp} IN
    IF S = {} THEN <<0, 1>>
    ELSE <<SumFunctionOnSet([t \in trades |-> Quantized(t.offer.price)], latest), Cardinality(latest)>>

\* A bin opens with the last price before it, however many bins without trades lie
\* between, and closes with the last price in it.
ChartIsContinuous ==
    \A now \in Times, n \in 1 .. MaxGroups :
        LET bins == make_price_bins(now, n)
            start == find_time_bin(now) - (n + 1) * Interval
            Until(b) == {t \in trades : start <= t.timestamp /\ t.timestamp < b} IN
        \A i \in 1 .. n :
            /\ bins[i].open = LatestPrice(Until(bins[i].timestamp))
            /\ close_price(bins[i]) = LatestPrice(Until(bins[i].timestamp + Interval))

\* The price range of a bin is that of its trades, if none of them is at a price that is
\* cut off to zero, and its closing price lies in it.
RangeOfTrades ==
    \A now \in Times, n \in 1 .. MaxGroups :
        LET bins == make_price_bins(now, n) IN
        \A i \in 1 .. n :
            LET prices == {Quantized(t.offer.price) : t \in InBin(bins[i].timestamp)}
                close == close_price(bins[i]) IN
            prices # {} /\ 0 \notin prices =>
                /\ min_price(bins[i]) = <<Min(prices), 1>>
                /\ max_price(bins[i]) = <<Max(prices), 1>>
                /\ Min(prices) * close[2] <= close[1] /\ close[1] <= Max(prices) * close[2]
=============================================================================

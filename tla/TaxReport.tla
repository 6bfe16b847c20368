------------------------------- MODULE TaxReport -------------------------------
(* What trades/ledger/taxes.py says of the lots a replay has closed and still  *)
(* holds: long or short term, whether a loss may be washed, whether a dividend *)
(* qualifies, and the gains of each year under each tax regime.                *)
(* Time is counted in half days, because a sale counts whole days between two  *)
(* datetimes and a preview the days between two dates.  Shares and prices are  *)
(* integers, a dividend pays 1; splits and withholding are left out.           *)
EXTENDS Integers, Sequences, FiniteSets, FiniteSetsExt

CONSTANTS
    Symbols,
    Payers,          \* those that pay dividends, at most a day after the ex-date
    Similar,         \* wash_sale_similar_symbols: symbol -> set of symbols
    WashWindow,      \* wash_sale_window_days
    LongTermDays,    \* long_term_holding_days
    DividendWindow,  \* qualified_dividend_window_days, on each side of the ex-date
    MinDaysHeld,     \* qualified_dividend_min_days_held
    Purchases,       \* how many shares a purchase buys
    Costs, Prices,   \* of a share, bought and sold
    StatusChange,    \* the day the residency status changed
    DaysPerYear,
    LongRate, OrdinaryRate, TreatyRate,   \* in percent: long gains and qualified dividends, the rest, a nonresident's dividends
    LastMoment,      \* bounds the half days
    MaxEvents,       \* bounds the ledger
    MaxPaid          \* bounds its dividends

VARIABLES
    now,             \* the half day
    trades,          \* the ledger's purchases and sales, in order
    held,            \* open lots of the replay, oldest first
    sold,            \* closed lots: the parts of lots sales closed
    paid             \* the ledger's dividends

vars == <<now, trades, held, sold, paid>>

Least(a, b) == IF a < b THEN a ELSE b
Most(a, b)  == IF a < b THEN b ELSE a

DayOf(moment)  == moment \div 2
YearOf(day)    == day \div DaysPerYear

Init == now = 0 /\ trades = <<>> /\ held = <<>> /\ sold = {} /\ paid = {}

-------------------------------------------------------------------------------
(* The ledger *)

Events == Len(trades) + Cardinality(paid)

\* A lot has the id of the purchase that opened it.
Buy(symbol, shares, cost) ==
    /\ Events < MaxEvents
    /\ trades' = Append(trades, [kind |-> "BUY", symbol |-> symbol, shares |-> shares, at |-> now])
    /\ held' = Append(held, [lot |-> Len(trades) + 1, symbol |-> symbol, shares |-> shares,
                             cost |-> cost, at |-> now])
    /\ UNCHANGED <<now, sold, paid>>

SharesIn(positions) == MapThenSumSet(LAMBDA n : held[n].shares, positions)
Positions(symbol)   == {n \in DOMAIN held : held[n].symbol = symbol}

\* A term is long from so many days on.
Term(days) == IF days >= LongTermDays THEN "LONG" ELSE "SHORT"

\* consume_fifo counts the whole days between the two datetimes.
ClosedPart(n, shares, price) ==
    [lot |-> held[n].lot, symbol |-> held[n].symbol, shares |-> shares, opened |-> held[n].at, at |-> now,
     gain |-> shares * (price - held[n].cost), term |-> Term((now - held[n].at) \div 2), by |-> Len(trades) + 1]

Sell(symbol, shares, price) ==
    LET own      == Positions(symbol)
        take(n)  == IF n \notin own THEN 0
                    ELSE Least(held[n].shares, Most(0, shares - SharesIn({m \in own : m < n})))
    IN  /\ Events < MaxEvents
        /\ shares \in 1..SharesIn(own)
        /\ trades' = Append(trades, [kind |-> "SELL", symbol |-> symbol, shares |-> shares, at |-> now])
        /\ sold' = sold \cup {ClosedPart(n, take(n), price) : n \in {m \in own : take(m) > 0}}
        /\ held' = SelectSeq([n \in DOMAIN held |-> [held[n] EXCEPT !.shares = @ - take(n)]],
                             LAMBDA lot : lot.shares > 0)
        /\ UNCHANGED <<now, paid>>

\* A dividend, with its ex-date.
Dividend(symbol, ex) ==
    /\ Events < MaxEvents /\ Cardinality(paid) < MaxPaid
    /\ paid' = paid \cup {[symbol |-> symbol, ex |-> ex, at |-> now]}
    /\ UNCHANGED <<now, trades, held, sold>>

Later == now < LastMoment /\ now' = now + 1 /\ UNCHANGED <<trades, held, sold, paid>>

Next ==
    \/ \E symbol \in Symbols, shares \in Purchases, cost \in Costs : Buy(symbol, shares, cost)
    \/ \E symbol \in Symbols : \E shares \in 1..SharesIn(Positions(symbol)), price \in Prices : Sell(symbol, shares, price)
    \/ \E symbol \in Payers, ex \in Most(0, DayOf(now) - 1)..DayOf(now) : Dividend(symbol, ex)
    \/ Later

Spec == Init /\ [][Next]_vars

-------------------------------------------------------------------------------
(* The answers *)

\* Mutant: a declaration counts in one direction only.
Related_OneWay(symbols) ==
    {<<s, s>> : s \in symbols} \cup UNION {{<<s, t>> : t \in Similar[s]} : s \in DOMAIN Similar}

\* _related_symbols, for a set of symbols: themselves and the pairs declared, both ways.
Related(symbols) ==
    {<<s, s>> : s \in symbols} \cup
    UNION {{<<s, t>> : t \in Similar[s]} \cup {<<t, s>> : t \in Similar[s]} : s \in DOMAIN Similar}

\* _wash_sale_flagged_lot_ids, of candidates each with a lot, a symbol and the day of its sale.
FlaggedLots(candidates) ==
    {c.lot : c \in {d \in candidates :
        \E pair \in Related({e.symbol : e \in candidates}), b \in DOMAIN trades :
            /\ pair[1] = d.symbol
            /\ trades[b].kind = "BUY" /\ trades[b].symbol = pair[2]
            /\ DayOf(trades[b].at) \in (d.day - WashWindow) .. (d.day + WashWindow)
            /\ b # d.lot}}

\* flag_wash_sales: by lot, whichever part of it was the loss.
WashSaleFlag(part) ==
    part.lot \in FlaggedLots({[lot |-> s.lot, symbol |-> s.symbol, day |-> DayOf(s.at)] : s \in {t \in sold : t.gain < 0}})

\* preview_sale of an open lot, were it sold today at a price; days between dates.
Preview(n, price) ==
    [lot |-> held[n].lot, shares |-> held[n].shares, gain |-> held[n].shares * (price - held[n].cost),
     term |-> Term(DayOf(now) - DayOf(held[n].at)),
     wash |-> /\ price < held[n].cost
              /\ held[n].lot \in FlaggedLots({[lot |-> held[n].lot, symbol |-> held[n].symbol, day |-> DayOf(now)]})]

\* _longest_holding_span_within_window, walking the symbol's trades in order.
Overlap(from, until, first, end) == Most(0, Least(until, end) - Most(from, first))

Trades(symbol) == SelectSeq(trades, LAMBDA t : t.symbol = symbol)

\* The position after each of the first n trades.
PositionAfter(own, n) ==
    MapThenSumSet(LAMBDA k : IF own[k].kind = "BUY" THEN own[k].shares ELSE -own[k].shares, 1..n)

LongestSpan(symbol, first, last) ==
    LET own == Trades(symbol)
        end == last + 1
        \* after n trades: the start of the run that is open, if any, and the longest that is closed
        walk[n \in 0..Len(own)] ==
            IF n = 0 THEN [run |-> <<>>, longest |-> 0]
            ELSE LET was  == PositionAfter(own, n - 1) > 0
                     is   == PositionAfter(own, n) > 0
                     day  == DayOf(own[n].at)
                     done == walk[n - 1]
                 IN  IF is /\ ~was THEN [done EXCEPT !.run = <<day>>]
                     ELSE IF was /\ ~is
                     THEN [run |-> <<>>, longest |-> Most(done.longest, Overlap(done.run[1], day, first, end))]
                     ELSE done
        after == walk[Len(own)]
    IN  IF after.run = <<>> THEN after.longest
        ELSE Most(after.longest, Overlap(after.run[1], end, first, end))

\* classify_dividend, of a dividend the broker has no label for.
Qualified(dividend) ==
    LongestSpan(dividend.symbol, dividend.ex - DividendWindow, dividend.ex + DividendWindow) > MinDaysHeld

\* _regime_expr: residents from the day of the change on.
Regime(day) == IF day < StatusChange THEN "NRA" ELSE "RESIDENT"

\* _gains_by_year_and_regime, _dividends_by_year_and_regime.
Gain(year, regime, term) ==
    MapThenSumSet(LAMBDA s : s.gain,
                  {s \in sold : YearOf(DayOf(s.at)) = year /\ Regime(DayOf(s.at)) = regime /\ s.term = term})

Income(year, regime, qualified) ==
    Cardinality({d \in paid : YearOf(DayOf(d.at)) = year /\ Regime(DayOf(d.at)) = regime /\ Qualified(d) = qualified})

\* annual_tax_report: one row for each year and regime.
Report(year, regime) ==
    [regime |-> regime, long |-> Gain(year, regime, "LONG"), short |-> Gain(year, regime, "SHORT"),
     qualified |-> Income(year, regime, TRUE), ordinary |-> Income(year, regime, FALSE)]

\* tax_owed_by_year_and_regime: a net loss is no credit, and a nonresident owes
\* nothing on gains and one rate on all dividends.
CapitalGainsTax(report) ==
    IF report.regime = "NRA" THEN 0
    ELSE Most(0, report.long) * LongRate + Most(0, report.short) * OrdinaryRate

TaxOwed(report) ==
    CapitalGainsTax(report) +
        IF report.regime = "NRA" THEN (report.qualified + report.ordinary) * TreatyRate
        ELSE report.qualified * LongRate + report.ordinary * OrdinaryRate

\* liquidation_gain_buckets and liquidation_tax_usd: everything sold now.
Bucket(price, term) ==
    Most(0, MapThenSumSet(LAMBDA n : Preview(n, price).gain, {n \in DOMAIN held : Preview(n, price).term = term}))
LiquidationTax(price) ==
    IF Regime(DayOf(now)) = "NRA" THEN 0
    ELSE Bucket(price, "LONG") * LongRate + Bucket(price, "SHORT") * OrdinaryRate

-------------------------------------------------------------------------------
(* Properties *)

\* Type correctness.
TypeOK ==
    /\ now \in 0..LastMoment
    /\ \A n \in DOMAIN trades : trades[n].at <= now /\ trades[n].symbol \in Symbols
    /\ \A n \in DOMAIN held : held[n].shares > 0 /\ trades[held[n].lot].kind = "BUY"
    /\ \A s \in sold : s.shares > 0 /\ s.opened <= s.at /\ s.at <= now

\* The symbol was held from the k-th to the l-th of its trades, without ever having none
\* in between; the last run goes on to the end of the window.
HeldRun(own, k, l) == \A n \in k..(l - 1) : PositionAfter(own, n) > 0
RunLength(own, k, l, first, last) ==
    Overlap(DayOf(own[k].at), IF l > Len(own) THEN last + 1 ELSE DayOf(own[l].at), first, last + 1)

\* A dividend qualifies if and only if its shares were held without a break for more than
\* the days required within the window, whatever was bought and sold meanwhile.
DividendsAreEarned ==
    \A d \in paid :
        LET own == Trades(d.symbol) IN
        Qualified(d) <=>
            \E k \in DOMAIN own : \E l \in (k + 1)..(Len(own) + 1) :
                HeldRun(own, k, l)
                /\ RunLength(own, k, l, d.ex - DividendWindow, d.ex + DividendWindow) > MinDaysHeld

\* The years and regimes that have a row.
Reported == {<<YearOf(DayOf(x.at)), Regime(DayOf(x.at))>> : x \in sold} \cup
            {<<YearOf(DayOf(x.at)), Regime(DayOf(x.at))>> : x \in paid}

\* Nothing is lost between the years, the regimes, the terms and the characters, and
\* nothing counted twice.
ReportsAreComplete ==
    /\ MapThenSumSet(LAMBDA k : Gain(k[1], k[2], "LONG") + Gain(k[1], k[2], "SHORT"), Reported)
          = MapThenSumSet(LAMBDA s : s.gain, sold)
    /\ MapThenSumSet(LAMBDA k : Income(k[1], k[2], TRUE) + Income(k[1], k[2], FALSE), Reported) = Cardinality(paid)

\* A loss near a purchase of the same or a similar symbol is flagged; a gain carries a flag
\* only if another part of its lot was such a loss.
Nearby(s) == \E b \in DOMAIN trades :
    /\ trades[b].kind = "BUY" /\ b # s.lot
    /\ trades[b].symbol = s.symbol \/ trades[b].symbol \in Similar[s.symbol] \/ s.symbol \in Similar[trades[b].symbol]
    /\ DayOf(trades[b].at) - DayOf(s.at) \in (-WashWindow)..WashWindow
WashesAreFlagged ==
    \A s \in sold : WashSaleFlag(s) <=> \E t \in sold : t.lot = s.lot /\ t.gain < 0 /\ Nearby(t)

\* Selling all of a symbol is what its preview said: the same parts, gains, and flags
\* (or a flag an earlier part of the lot had already), and the same term unless the lot was
\* opened later in its day than it is sold.
PreviewsHold ==
    trades' # trades => \A symbol \in Symbols, price \in Prices :
        Sell(symbol, SharesIn(Positions(symbol)), price) =>
            \A n \in Positions(symbol) : \E s \in sold' :
                /\ s.by = Len(trades')
                /\ s.lot = Preview(n, price).lot
                /\ s.shares = Preview(n, price).shares
                /\ s.gain = Preview(n, price).gain
                /\ held[n].at % 2 <= now % 2 => s.term = Preview(n, price).term
                /\ WashSaleFlag(s)' <=> (Preview(n, price).wash \/ \E t \in sold : t.lot = s.lot /\ WashSaleFlag(t))

\* Selling all that is held, in a year without other sales and as late in the day as its
\* lots were opened, makes the tax on gains that the liquidation estimate gave.
Liquidates(symbol) == \A n \in DOMAIN held : held[n].symbol = symbol /\ held[n].at % 2 <= now % 2
EstimatesHold ==
    trades' # trades => \A symbol \in Symbols, price \in Prices :
        (/\ Sell(symbol, SharesIn(Positions(symbol)), price) /\ Liquidates(symbol)
         /\ \A s \in sold : YearOf(DayOf(s.at)) # YearOf(DayOf(now)))
            => LiquidationTax(price) = CapitalGainsTax(Report(YearOf(DayOf(now)), Regime(DayOf(now))))'

\* What a past year reports, and so owes, stands once the windows of its dividends are
\* over, whatever is bought and sold afterwards.
PastYearsStand ==
    trades' # trades \/ paid' # paid => \A key \in Reported' :
        (/\ key[1] < YearOf(DayOf(now))
         /\ \A d \in paid : YearOf(DayOf(d.at)) = key[1] => DayOf(now) > d.ex + DividendWindow)
            => Report(key[1], key[2])' = Report(key[1], key[2])

\* What the tax page reports of the trades and the dividends there are.
TaxesAddUp == DividendsAreEarned /\ ReportsAreComplete /\ WashesAreFlagged

\* And what a step makes of it: previews and estimates come true, and the past stands.
TaxesFollowTheTrades == PreviewsHold /\ EstimatesHold /\ PastYearsStand
================================================================================

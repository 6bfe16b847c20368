------------------------------- MODULE CashLots -------------------------------
(* Uninvested cash and what it missed (trades/dashboard/cash_sitting.py): the  *)
(* balance of every day of the requested range, each rise a lot of its own,    *)
(* each fall taken from the oldest lots, and the lots valued against an index. *)
(* Every answer is computed from the range's first day on, and that of a       *)
(* shorter range is a prefix of it, so a step here is a day of the range.      *)
(* Amounts are integers, and an index value divides Scale, so that every       *)
(* growth is exact; the index is the benchmark's price or the compounded       *)
(* savings rate, and NoPrice on a day the benchmark has no price for.          *)
EXTENDS Integers, Sequences, SequencesExt, FiniteSetsExt

CONSTANTS
    Balances,    \* what the ledger's cash balance may be at the end of a day
    Indices,     \* the values an index takes, NoPrice among them
    Scale,       \* growth is counted in units of 1/Scale
    Starts,      \* first days of the range a request may ask for
    LastDay      \* bound: days since the ledger's first event

VARIABLES
    balance,     \* of the ledger, at the end of the last day
    index,       \* of each day
    start,       \* first day of the requested range
    eventful,    \* the ledger has an event in the range
    reported,    \* daily_cash_balances: the balance of each day, 0 outside the range
    cashLots,    \* the lots that are open, oldest first
    realized     \* growth of what has been consumed, in units of 1/Scale

vars == <<balance, index, start, eventful, reported, cashLots, realized>>

NoPrice == 0
Least(a, b) == IF a < b THEN a ELSE b
Most(a, b)  == IF a < b THEN b ELSE a

\* A growth factor, times Scale.
Growth(values, from, to) == (Scale * values[to]) \div values[from]

Init ==
    /\ start \in Starts
    /\ balance = 0 /\ eventful = FALSE
    /\ index = <<>> /\ reported = <<>> /\ cashLots = <<>> /\ realized = 0

-------------------------------------------------------------------------------
(* A day *)

\* _consume takes from one lot what is still to be taken.
TakeFrom(done, lot) ==
    LET taken == Least(lot.amount, done.remaining) IN
    [remaining |-> done.remaining - taken,
     open      |-> IF taken = lot.amount THEN done.open ELSE Append(done.open, [lot EXCEPT !.amount = @ - taken]),
     consumed  |-> IF taken = 0 THEN done.consumed ELSE Append(done.consumed, [lot EXCEPT !.amount = taken])]

\* Mutant: the newest lots first.
Consume_NewestFirst(queue, amount) ==
    LET done == FoldLeft(TakeFrom, [remaining |-> amount, open |-> <<>>, consumed |-> <<>>], Reverse(queue))
    IN  [done EXCEPT !.open = Reverse(@)]

\* The oldest lots first; an outflow larger than all lots together takes what there is.
Consume(queue, amount) == FoldLeft(TakeFrom, [remaining |-> amount, open |-> <<>>, consumed |-> <<>>], queue)

\* daily_cash_balances: events before the range are not looked at, so a day is
\* reported as 0 until the first event of the range; then carried forward.
Reported(amount, seen) == IF seen THEN amount ELSE 0

\* A day of the range without a price refuses the whole chart.
Refused(values) == \E d \in start..Len(values) : values[d] = NoPrice

\* What the slices consumed on a day gained since they arrived.
Banked(slices, values, day) ==
    FoldLeft(LAMBDA sum, s : sum + s.amount * (Growth(values, s.arrival, day) - Scale), 0, slices)

\* A day passes, with or without an event in the ledger.
Day(amount, value, event) ==
    LET day   == Len(index) + 1
        now   == Reported(amount, eventful \/ (event /\ day >= start))
        delta == now - (IF reported = <<>> THEN 0 ELSE Last(reported))
        fall  == Consume(cashLots, -delta)
    IN  /\ day <= LastDay
        /\ event \/ amount = balance
        /\ balance' = amount
        /\ index' = Append(index, value)
        /\ eventful' = (eventful \/ (event /\ day >= start))
        /\ reported' = Append(reported, now)
        /\ cashLots' = IF delta > 0 THEN Append(cashLots, [arrival |-> day, amount |-> delta])
                       ELSE IF delta < 0 THEN fall.open ELSE cashLots
        /\ realized' = IF delta < 0 /\ ~Refused(Append(index, value))
                       THEN realized + Banked(fall.consumed, Append(index, value), day) ELSE realized
        /\ UNCHANGED start

Next == \E amount \in Balances, value \in Indices, event \in BOOLEAN : Day(amount, value, event)

Spec == Init /\ [][Next]_vars

-------------------------------------------------------------------------------
(* The answers *)

\* live_usd of the chart's last day: what the open lots would be worth.
Live == FoldLeft(LAMBDA sum, lot : sum + lot.amount * Growth(index, lot.arrival, Len(index)), 0, cashLots)

\* cash_sitting_summary, of a range that begins with the ledger: it needs the index
\* of today and of the open lots' days only.
SummaryRefused ==
    \E d \in {Len(index)} \cup {cashLots[i].arrival : i \in DOMAIN cashLots} : index[d] = NoPrice

Since == IF cashLots = <<>> THEN Len(index) ELSE Head(cashLots).arrival

Missed == Live - Scale * balance

-------------------------------------------------------------------------------
(* Properties *)

Days == DOMAIN reported

\* Type correctness.
TypeOK ==
    /\ index \in Seq(Indices) /\ start \in Starts /\ eventful \in BOOLEAN /\ balance \in Balances \cup {0}
    /\ Len(index) = Len(reported) /\ Len(index) <= LastDay
    /\ \A d \in Days : reported[d] \in Balances \cup {0}
    /\ \A i \in DOMAIN cashLots : cashLots[i].arrival \in Days /\ cashLots[i].amount > 0
    /\ realized \in Int

\* The same without a queue.  The k-th dollar that ever came in is the k-th that
\* goes out; what goes out of a balance below zero is taken from no lot.
Rise(d)    == Most(0, reported[d] - (IF d = 1 THEN 0 ELSE reported[d - 1]))
CameIn(t)  == MapThenSumSet(Rise, 1..t)
Lowest(t)  == Min({0} \cup {reported[d] : d \in 1..t})
WentOut(t) == CameIn(t) - (reported[t] - Lowest(t))
Open(d, t) == Most(0, Least(Rise(d), CameIn(d) - WentOut(t)))
Kept(t)    == FoldLeft(LAMBDA queue, d : IF Open(d, t) > 0 THEN Append(queue, [arrival |-> d, amount |-> Open(d, t)])
                                         ELSE queue,
                       <<>>, [d \in 1..t |-> d])

\* What of day d's cash was spent on day t, and what it had gained.
GainOf(d, t) ==
    IF d >= t \/ Open(d, t - 1) = Open(d, t) THEN 0
    ELSE (Open(d, t - 1) - Open(d, t)) * (Growth(index, d, t) - Scale)
GainsOn(t) == MapThenSumSet(LAMBDA d : GainOf(d, t), Days)

\* What is still there of day d's cash, and what it would have gained by today.
MissedOf(d) ==
    IF Open(d, Len(reported)) = 0 THEN 0
    ELSE Open(d, Len(reported)) * (Growth(index, d, Len(reported)) - Scale)

\* The queue of lots: the dollars that came and have not gone, oldest first.
LotsAreTheDollars == cashLots = Kept(Len(reported))

\* If no day of the range lacks a price, what was banked is what each day's spending had
\* gained.
GainsAreBanked ==
    (\A d \in start..Len(index) : index[d] # NoPrice) => realized = MapThenSumSet(GainsOn, Days)

\* No dollar is older than the summary says, and it misses what those still there would
\* have gained.
SummaryIsOfTheDollars ==
    start = 1 /\ ~SummaryRefused =>
        /\ \A d \in Days : d < Since => Open(d, Len(reported)) = 0
        /\ Missed = MapThenSumSet(MissedOf, Days) - Scale * Lowest(Len(reported))

\* Every dollar is in one lot from the day it came until as many dollars as came before
\* it and itself have gone; its growth is banked once, at the index of the day it went,
\* and the summary's oldest lot and missed earnings are those of the dollars still there.
\* (While the balance was never below zero the lots are the balance; what was spent
\* below zero makes a lot of the same size when it is refilled, which the summary
\* reports as missed.)
EveryDollarOnce == reported # <<>> => LotsAreTheDollars /\ GainsAreBanked /\ SummaryIsOfTheDollars

-------------------------------------------------------------------------------
(* What the properties rest on *)

\* Every day has an index and is reported; what is reported was the balance, or 0 before
\* the first event of the range.
DaysPass ==
    /\ index \in Seq(Indices) /\ reported \in Seq(Balances \cup {0}) /\ Len(index) = Len(reported)
    /\ start \in Starts /\ eventful \in BOOLEAN /\ balance \in Balances \cup {0} /\ realized \in Int
    /\ reported = <<>> => balance = 0 /\ cashLots = <<>> /\ realized = 0
    /\ reported # <<>> => reported[Len(reported)] = Reported(balance, eventful)

\* A range that begins with the ledger misses nothing; nothing is reported before it.
RangesBegin ==
    /\ eventful => start <= Len(index)
    /\ start = 1 /\ ~eventful => balance = 0
    /\ \A d \in Days : d < start => reported[d] = 0

IInv == DaysPass /\ RangesBegin /\ EveryDollarOnce
===============================================================================

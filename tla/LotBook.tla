------------------------------ MODULE LotBook ------------------------------
(***************************************************************************)
(* replay_ledger and the LotBook of one symbol: a broker's ledger is       *)
(* walked once, each purchase opens a lot, each sale closes the oldest     *)
(* ones, and the cash runs along.                                          *)
(*                                                                         *)
(* The book does not touch its lots when a dividend is paid.  It adds the  *)
(* dividend of one share to a running figure, and what a lot received is   *)
(* what was banked for it plus its shares times the figure's growth.       *)
(*                                                                         *)
(* Shares and money are integers, so the float tolerances and the dust of  *)
(* a sale that missed a lot's shares by rounding are left out.             *)
(***************************************************************************)
EXTENDS Integers, Sequences, FiniteSets, Functions

CONSTANTS
    Purchases,      \* how many shares a purchase buys
    Prices,         \* of a share
    Dividends,      \* what a dividend pays in all
    Ratios,         \* of splits
    Transfers,      \* deposits, withdrawals, fees and taxes: the effect on the cash
    LastDay,        \* bounds the days
    MaxEvents       \* how long the ledger is

VARIABLES
    lots,           \* the open lots, oldest first
    total,          \* the shares of all of them
    divps,          \* the dividend of one share since the book was last empty
    closedLots,     \* the parts of lots that sales closed
    cash,           \* cash_balance
    day,            \* the day of the next event
    replayed,       \* how many events there were
    failed,         \* did the replay raise?
    external        \* history: what came from outside: transfers and dividends

book == <<lots, total, divps, closedLots>>
vars == <<book, cash, day, replayed, failed, external>>

Smaller(a, b) == IF a < b THEN a ELSE b
Larger(a, b) == IF a < b THEN b ELSE a

\* LotBook.accrued.
Accrued(lot) == lot.banked + lot.shares * (divps - lot.base)

Init ==
    /\ lots = <<>>
    /\ total = 0
    /\ divps = 0
    /\ closedLots = {}
    /\ cash = 0
    /\ day = 1
    /\ replayed = 0
    /\ failed = FALSE
    /\ external = 0

Event ==
    /\ ~failed
    /\ replayed < MaxEvents
    /\ replayed' = replayed + 1
    /\ UNCHANGED day

\* LotBook.open: behind every lot that is not younger.
Open(id, at, shares, cost) ==
    LET before == Cardinality({n \in DOMAIN lots : lots[n].at <= at})
        lot    == [id |-> id, at |-> at, shares |-> shares, cost |-> cost, banked |-> 0, base |-> divps]
    IN  /\ lots' = SubSeq(lots, 1, before) \o <<lot>> \o SubSeq(lots, before + 1, Len(lots))
        /\ total' = total + shares
        /\ UNCHANGED <<divps, closedLots>>

Buy(at, shares, price) ==
    /\ Event
    /\ Open(replayed + 1, at, shares, price)
    /\ cash' = cash - shares * price
    /\ UNCHANGED <<failed, external>>

\* LotBook.accrue_dividend: nobody to pay when no share is held.
AccrueDividend(amount) ==
    /\ divps' = IF total <= 0 THEN divps ELSE divps + amount \div total
    /\ UNCHANGED <<lots, total, closedLots>>

Dividend(amount) ==
    /\ Event
    /\ AccrueDividend(amount)
    /\ cash' = cash + amount
    /\ external' = external + amount
    /\ UNCHANGED failed

\* LotBook.consume_fifo.  The shares before a lot are sold first; a lot that is
\* sold in part has what it keeps banked, and starts over from the figure of now.
Before(n) == LET sum[k \in 0 .. Len(lots)] == IF k = 0 THEN 0 ELSE sum[k - 1] + lots[k].shares IN sum[n - 1]
Take(wanted, n) == Smaller(lots[n].shares, Larger(0, wanted - Before(n)))
DividendsTaken(wanted, n) == (Accrued(lots[n]) * Take(wanted, n)) \div lots[n].shares

\* A lot sold in part keeps its old baseline.
Shrunk_KeepsBase(wanted, n) ==
    IF Take(wanted, n) = 0 THEN lots[n]
    ELSE [lots[n] EXCEPT !.shares = @ - Take(wanted, n),
                         !.banked = Accrued(lots[n]) - DividendsTaken(wanted, n)]

Shrunk(wanted, n) ==
    IF Take(wanted, n) = 0 THEN lots[n]
    ELSE [lots[n] EXCEPT !.shares = @ - Take(wanted, n),
                         !.banked = Accrued(lots[n]) - DividendsTaken(wanted, n),
                         !.base   = divps]

Closed(wanted, n, price, id) ==
    [lot |-> lots[n].id, shares |-> Take(wanted, n), cost |-> lots[n].cost, price |-> price,
     received |-> DividendsTaken(wanted, n), by |-> id]

ConsumeFifo(wanted, price, id) ==
    LET gone == Cardinality({n \in DOMAIN lots : Take(wanted, n) = lots[n].shares})
    IN  /\ lots' = [n \in 1 .. Len(lots) - gone |-> Shrunk(wanted, gone + n)]
        /\ total' = IF gone = Len(lots) THEN 0 ELSE total - wanted
        /\ divps' = IF gone = Len(lots) THEN 0 ELSE divps
        /\ closedLots' = closedLots \cup {Closed(wanted, n, price, id) : n \in {m \in DOMAIN lots : Take(wanted, m) > 0}}

Sell(shares, price) ==
    /\ Event
    /\ IF shares > total
       THEN failed' = TRUE /\ UNCHANGED <<book, cash>>
       ELSE /\ ConsumeFifo(shares, price, replayed + 1)
            /\ cash' = cash + shares * price
            /\ UNCHANGED failed
    /\ UNCHANGED external

\* LotBook.apply_split.
ApplySplit(ratio) ==
    /\ lots' = [n \in DOMAIN lots |-> [lots[n] EXCEPT !.banked = Accrued(lots[n]), !.base = divps,
                                                      !.shares = @ * ratio, !.cost = @ \div ratio]]
    /\ total' = total * ratio
    /\ UNCHANGED <<divps, closedLots>>

Split(ratio) ==
    /\ Event
    /\ ApplySplit(ratio)
    /\ UNCHANGED <<cash, failed, external>>

\* The events that only move cash.
Transfer(effect) ==
    /\ Event
    /\ cash' = cash + effect
    /\ external' = external + effect
    /\ UNCHANGED <<book, failed>>

NextDay ==
    /\ day < LastDay /\ ~failed
    /\ day' = day + 1
    /\ UNCHANGED <<book, cash, replayed, failed, external>>

Next ==
    \/ \E at \in 1 .. day, shares \in Purchases, price \in Prices : Buy(at, shares, price)
    \/ \E shares \in 1 .. total + 1, price \in Prices : Sell(shares, price)
    \/ \E amount \in Dividends : Dividend(amount)
    \/ \E ratio \in Ratios : Split(ratio)
    \/ \E effect \in Transfers : Transfer(effect)
    \/ NextDay

Spec == Init /\ [][Next]_vars

-----------------------------------------------------------------------------
(* Properties.                                                             *)

TypeOK ==
    /\ \A n \in DOMAIN lots : lots[n].shares \in Nat \ {0} /\ lots[n].at \in 1 .. LastDay /\ lots[n].cost \in Nat
    /\ total \in Nat /\ divps \in Nat /\ cash \in Int

\* Sums over the lots and over what was closed.
Sum(f) == FoldFunction(+, 0, f)
CostOfOpen == Sum([n \in DOMAIN lots |-> lots[n].shares * lots[n].cost])
RealizedGain == Sum([c \in closedLots |-> c.shares * (c.price - c.cost)])

\* The books balance: cash and the cost of what is held are what came from outside and
\* what sales gained, through every order of purchases, sales, dividends and splits;
\* the running share count is the lots' own, and the oldest lot is always sold first.
BooksBalance ==
    /\ cash + CostOfOpen = external + RealizedGain
    /\ total = Sum([n \in DOMAIN lots |-> lots[n].shares])
    /\ \A m, n \in DOMAIN lots : m < n => lots[m].at <= lots[n].at

\* The running figure computes what sharing out every dividend would: the book is an
\* implementation of the lots kept one by one.
Ids == {lots[n].id : n \in DOMAIN lots}
Position(id) == CHOOSE n \in DOMAIN lots : lots[n].id = id
Accounts == INSTANCE LotAccounts WITH
    open <- [id \in Ids |-> [at |-> lots[Position(id)].at, shares |-> lots[Position(id)].shares,
                             cost |-> lots[Position(id)].cost, received |-> Accrued(lots[Position(id)])]],
    closed <- closedLots
NoLotsAtFirst    == Accounts!Init
LotsKeptOneByOne == [Accounts!Next(Dividends, Prices, Ratios, 1 .. MaxEvents)]_(Accounts!accounts)

-----------------------------------------------------------------------------
(* What the properties rest on.                                            *)

\* The lots are as the ledger so far left them, each of another purchase, the oldest
\* first and of one moment the one bought first.
LotsInOrder ==
    /\ lots \in Seq([id : 1 .. replayed, at : 1 .. day, shares : Nat \ {0}, cost : Nat, banked : Int, base : Nat])
    /\ \A m, n \in DOMAIN lots : m < n =>
          \/ lots[m].at < lots[n].at
          \/ lots[m].at = lots[n].at /\ lots[m].id < lots[n].id
    /\ \A m, n \in DOMAIN lots : lots[m].id = lots[n].id => m = n

\* What was closed was closed by an event there was.
PartsAreOfThePast ==
    /\ IsFiniteSet(closedLots)
    /\ \A c \in closedLots : c.shares \in Int /\ c.cost \in Int /\ c.price \in Int /\ c.by \in 1 .. replayed

Counters ==
    /\ day \in 1 .. LastDay /\ replayed \in 0 .. MaxEvents /\ failed \in BOOLEAN
    /\ total \in Nat /\ divps \in Nat /\ cash \in Int /\ external \in Int

IInv == LotsInOrder /\ PartsAreOfThePast /\ Counters /\ BooksBalance

=============================================================================

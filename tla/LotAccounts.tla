---------------------------- MODULE LotAccounts ----------------------------
(***************************************************************************)
(* What the lots of one symbol promise, said of each lot by itself: a sale *)
(* takes from the oldest lots, a dividend is shared out among the lots     *)
(* that are open when it is paid, each by its shares, and a lot that       *)
(* shrinks keeps its share of what it received.                            *)
(***************************************************************************)
EXTENDS Integers, FiniteSets, Functions

VARIABLES
    open,           \* the open lots: id -> when, shares, cost of a share, dividends received
    closed          \* what sales have closed: a set of parts of lots

accounts == <<open, closed>>

Least(a, b) == IF a < b THEN a ELSE b
Most(a, b) == IF a < b THEN b ELSE a
Shares(lots, ids) == FoldFunctionOnSet(+, 0, [i \in ids |-> lots[i].shares], ids)

\* Oldest first; of lots opened at one moment, the one bought first.
Older(lots, i) == {j \in DOMAIN lots : lots[j].at < lots[i].at \/ (lots[j].at = lots[i].at /\ j < i)}
Taken(lots, n, i) == Least(lots[i].shares, Most(0, n - Shares(lots, Older(lots, i))))

Init ==
    /\ open = <<>>
    /\ closed = {}

Buy ==
    \E i \in DOMAIN open' \ DOMAIN open :
        /\ open'[i].received = 0
        /\ open' = [j \in DOMAIN open \cup {i} |-> IF j = i THEN open'[i] ELSE open[j]]
        /\ UNCHANGED closed

Dividend(amount) ==
    LET total == Shares(open, DOMAIN open)
    IN  /\ total > 0
        /\ open' = [i \in DOMAIN open |-> [open[i] EXCEPT !.received = @ + (amount * open[i].shares) \div total]]
        /\ UNCHANGED closed

Sell(n, price, id) ==
    LET part(i) == (open[i].received * Taken(open, n, i)) \div open[i].shares
    IN  /\ n <= Shares(open, DOMAIN open)
        /\ open' = [i \in {j \in DOMAIN open : Taken(open, n, j) < open[j].shares} |->
                       [open[i] EXCEPT !.shares = @ - Taken(open, n, i), !.received = @ - part(i)]]
        /\ closed' = closed \cup
                {[lot |-> i, shares |-> Taken(open, n, i), cost |-> open[i].cost, price |-> price,
                  received |-> part(i), by |-> id] : i \in {j \in DOMAIN open : Taken(open, n, j) > 0}}

Split(ratio) ==
    /\ open' = [i \in DOMAIN open |-> [open[i] EXCEPT !.shares = @ * ratio, !.cost = @ \div ratio]]
    /\ UNCHANGED closed

\* Any amounts and prices: the module that keeps the book chooses them.
Next(amounts, prices, ratios, ids) ==
    \/ Buy
    \/ \E amount \in amounts : Dividend(amount)
    \/ \E n \in 1 .. Shares(open, DOMAIN open), price \in prices, id \in ids : Sell(n, price, id)
    \/ \E ratio \in ratios : Split(ratio)

=============================================================================

------------------------------ MODULE MCRecords ------------------------------
(* The parts of the program that keep records of their own and share none: a  *)
(* behaviour of this module is a behaviour of one of them, the scene chosen   *)
(* at the start.  Only one runs, so that they lend each other their variables.*)
EXTENDS Integers, Sequences, FiniteSets, TLC

CONSTANTS
    Callers, \* whoever acts, in most parts: requests, threads, clients, runs, jobs
    NoUser,  \* of an account without a user
    NoName   \* of a file's row without a category

VARIABLES
    scene,                                 \* the part that runs
    v1, v2, v3, v4, v5, v6, v7, v8, v9, v10 \* its variables; the rest are not used

vars == <<scene, v1, v2, v3, v4, v5, v6, v7, v8, v9, v10>>

-------------------------------------------------------------------------------
(* The instances.  The sets they take have names, so that TLC evaluates them once. *)

\* Two callers, threads, clients or jobs: nothing depends on which is which.
Swaps == Permutations(Callers)

\* A statement, its account, who can parse it, and how many rows it has of the
\* fingerprints p and q.
Statement(of, spreadsheet, bank, canonical, ps, qs) ==
    [account |-> of, spreadsheet |-> spreadsheet, bank |-> bank, canonical |-> canonical,
     rows |-> [p |-> ps, q |-> qs]]

\* A bank's statement, one that both importers take with a copy more, one that
\* neither takes, a spreadsheet, and a file of an account without an importer.
Uploads == {Statement("a", FALSE, TRUE, FALSE, 1, 0), Statement("a", FALSE, TRUE, TRUE, 2, 0),
            Statement("a", FALSE, FALSE, FALSE, 1, 0), Statement("a", TRUE, FALSE, TRUE, 1, 0),
            Statement("b", FALSE, FALSE, TRUE, 0, 1)}

Fingerprints == {"p", "q"}
WithImporter == {"a"}
TypedIn      == {<<"manual", "p", 1>>}
Statements == INSTANCE StatementLedger WITH
    Files <- Uploads, Prints <- Fingerprints, BankAccounts <- WithImporter, Manual <- TypedIn,
    MaxUploads <- 2, MaxLinks <- 1,
    archive <- v1, accounts <- v2, ledger <- v3, links <- v4, importing <- v5, rebuilding <- v6

\* Two payments of one amount and one receipt of it on another account, a rule
\* for each direction; the second names an account without statements.
OnAccounts   == <<1, 1, 2>>
EachWay      == <<[matched |-> {1, 2}, counterparty |-> 2], [matched |-> {1, 3}, counterparty |-> 3]>>
TheFirst     == {1}
TheFirstTwo  == {1, 2}
Pairs == INSTANCE TransferPairs WITH
    LastTransaction <- 3, Account <- OnAccounts, Amount <- OnAccounts, Rules <- EachWay,
    KnownRules <- TheFirst, Importable <- TheFirstTwo, Requests <- Callers, MaxEdits <- 2,
    ledger <- v1, rules <- v2, links <- v3, splits <- v4, merges <- v5, request <- v6, edits <- v7

OnePosting == {"p"}
TwoNames   == {"a", "b"}
Reviews == INSTANCE PostingReview WITH
    Postings <- OnePosting, Categories <- TwoNames, NoCategory <- "none",
    Requests <- Callers, MaxReviews <- 4,
    enforced <- v1, rule <- v2, override <- v3, suggestion <- v4, request <- v5, reviews <- v6, before <- v7

Models == <<"gemini", "mistral">>
Usage == INSTANCE ProviderUsage WITH
    Providers <- Models, Callers <- Callers, MaxCalls <- 2, MaxPeriod <- 2,
    secured <- v1, period <- v2, usage <- v3, caller <- v4, made <- v5

\* Two threads and the webhook race for one account.
TheAccount == {"x"}
Users == INSTANCE Provisioning WITH
    Accounts <- TheAccount, Threads <- Callers, Webhook <- "hook", MaxAttempts <- 2,
    clerk <- v1, users <- v2, identity <- v3, worker <- v4, attempts <- v5, events <- v6, ended <- v7

\* Batches that overlap, in both orders.
Sessions == {"s1", "s2", "s3"}
Batches  == {<<"k1", "k2">>, <<"k2", "k1">>, <<"k2">>}
Keys == INSTANCE NaturalKeys WITH
    Sessions <- Sessions, Batches <- Batches,
    Attempts <- 4, NoSession <- "nobody",
    table <- v1, merge <- v2, outcome <- v3

Versions == INSTANCE RowVersions WITH
    Clients <- Callers, Priorities <- TheFirstTwo, MaxVersion <- 3, Nobody <- "nobody",
    row <- v1, seen <- v2, patch <- v3, holder <- v4, reposted <- v5

Draw == {"w"}
Automations == INSTANCE GoalAutomations WITH
    Additions <- TwoNames, Withdrawals <- Draw, Requests <- Callers, MaxWrites <- 4,
    rules <- v1, minted <- v2, call <- v3, writes <- v4

Rule(goal, mode, value, from, every, until) ==
    [goal |-> goal, mode |-> mode, value |-> value, from |-> from, every |-> every, until |-> until]

\* A percentage that ends, a fixed amount every second day and a remainder; an
\* income that is negative, too small for the fixed amount, and enough.
InOrder == <<Rule("g", "percent", 50, 1, 1, 2), Rule("h", "fixed", 6, 1, 2, 9),
             Rule("g", "remainder", 0, 2, 1, 9)>>
Lowest  == <<"h", "g">>
Incomes == {-6, 6, 14}
Funding == INSTANCE GoalFunding WITH
    Rules <- InOrder, Drawdown <- Lowest, Incomes <- Incomes, LastDay <- 2, Runs <- Callers, MaxEvents <- 4,
    income <- v1, contributions <- v2, order <- v3, today <- v4, run <- v5, events <- v6

TwoShares == {2}
TwoPrices == {16, 32}
Divisible == {5040}
Deposit   == {500}
Lots == INSTANCE LotBook WITH
    Purchases <- TwoShares, Prices <- TwoPrices, Dividends <- Divisible, Ratios <- TwoShares, Transfers <- Deposit,
    LastDay <- 2, MaxEvents <- 4,
    lots <- v1, total <- v2, divps <- v3, closedLots <- v4, cash <- v5, day <- v6, replayed <- v7,
    failed <- v8, external <- v9

\* Three days, the first without a price.
Market == INSTANCE PriceCache WITH
    LastDay <- 3, Holidays <- TheFirst, Buffer <- 2, Retention <- 1, Runs <- Callers, MaxRuns <- 3,
    today <- v1, closed <- v2, file <- v3, readable <- v4, backups <- v5, taken <- v6, run <- v7,
    started <- v8, clean <- v9, disturbed <- v10

\* Pages as small as the retention, so that a listing takes several.
Dumps == INSTANCE Backups WITH
    Jobs <- Callers, MaxJobs <- 4, Retention <- 1, PageSize <- 2,
    stored <- v1, clock <- v2, scratch <- v3, job <- v4, jobs <- v5, uploads <- v6, remote <- v7

\* Two cash accounts in dollars, either of which may become one in euros, and a
\* transfer that may be recorded in both directions.
Cash(currency) == [kind |-> "cash", currency |-> currency, linked |-> FALSE]
Move(from, to, amount, on) == [id |-> "m", from |-> from, to |-> to, gave |-> amount, got |-> amount, day |-> on]
ThreeNames == {"a", "b", "c"}
Currencies == {Cash("usd"), Cash("eur")}
BothWays   == {Move("a", "b", 2, 1), Move("b", "a", 3, 2)}
Ledgers == INSTANCE AccountBook WITH
    Ids <- ThreeNames, Initial <- TwoNames, Terms <- Currencies, Moves <- BothWays, Days <- TheFirstTwo,
    Requests <- Callers, MaxRequests <- 3,
    account <- v1, opening <- v2, posted <- v3, transfer <- v4, asked <- v5, served <- v6, raced <- v7

\* Two descriptions or dates are alike or not.
Alike(a, b) == IF a = b THEN 2 ELSE 1

\* Files with a row nobody can read, rows that compete for a posting, a category and a
\* subcategory of one name, and one name spelled in two ways.
Spelled(word, how) == [word |-> word, spelled |-> how]
Row(on, amount, about, top, sub) ==
    [reads |-> on > 0, day |-> on, amount |-> amount, about |-> about, top |-> top, sub |-> sub]
LongFile  == <<Row(0, 0, 0, NoName, NoName), Row(1, -1, 2, Spelled("food", "l"), NoName),
               Row(2, -1, 1, Spelled("fun", "l"), Spelled("veg", "l")),
               Row(3, -2, 1, Spelled("food", "l"), Spelled("veg", "l")), Row(3, -1, 2, NoName, NoName)>>
ShortFile == <<Row(1, -1, 2, Spelled("food", "l"), Spelled("veg", "l")),
               Row(2, -1, 1, Spelled("food", "u"), Spelled("veg", "u"))>>
Bank(id, on, about) == [id |-> id, day |-> on, amount |-> -1, about |-> about, pair |-> <<<<>>, <<>>>>]
Nothing == [x \in {} |-> 0]
TheFiles  == {LongFile, ShortFile}
Renamings == {[tops |-> Nothing, subs |-> Nothing],
              [tops |-> Spelled("food", "l") :> Spelled("fun", "u"), subs |-> Nothing],
              [tops |-> Nothing, subs |-> <<Spelled("fun", "l"), Spelled("veg", "l")>> :> Spelled("x", "l")]}
OnlyOne   == {Bank(1, 1, 1)}
BothRows  == {Bank(1, 1, 1), Bank(2, 2, 2)}
FoodTree  == (<<"expense", "food", 1>> :> [name |-> Spelled("meals", "l"), parent |-> <<>>])
             @@ (<<"expense", "food", 1, "veg", 1>> :> [name |-> Spelled("veg", "l"), parent |-> <<"expense", "food", 1>>])
FoodAgain == {Spelled("food", "l")}
Files == INSTANCE FileReview WITH
    Files <- TheFiles, Renamings <- Renamings, FirstPostings <- OnlyOne, Feed <- BothRows, FirstTree <- FoodTree,
    NewNames <- FoodAgain, MostAlike <- 2, Window <- 2, Clients <- OnePosting, MaxChanges <- 2,
    tree <- v1, postings <- v2, picked <- v3, client <- v4, changes <- v5

\* Four payments on one account, days apart; the second is split, one half of it like the
\* first, the other like the third.  A receipt and a transfer typed in arrive later.
Leg(on, amount, about) == [account |-> on, amount |-> amount, about |-> about]
Listed(id, on, legs, placeholder) == [id |-> id, day |-> on, legs |-> legs, placeholder |-> placeholder]
Ledger   == {Listed(1, 2, <<Leg(1, -1, 1)>>, TRUE), Listed(2, 3, <<Leg(1, -1, 1), Leg(1, -2, 2)>>, TRUE),
             Listed(3, 2, <<Leg(1, -2, 2)>>, TRUE), Listed(4, 4, <<Leg(1, -1, 1)>>, TRUE),
             Listed(5, 2, <<Leg(2, 1, 1)>>, TRUE), Listed(6, 4, <<Leg(1, -1, 1), Leg(2, 1, 1)>>, FALSE)}
Payments == {1, 2, 3, 4}
Proposals == INSTANCE Suggestions WITH
    Transactions <- Ledger, Split <- TwoShares, Initial <- Payments, MostAlike <- 2, Window <- 1, MaxDecisions <- 4,
    present <- v1, linked <- v2, merged <- v3, dismissed <- v4, shown <- v5, decisions <- v6, outdated <- v7

\* A currency with a gap in its fixings and one that was given up.
Rate(currency, on) == IF currency = "eur" THEN on + 1 ELSE 2 * on
Foreign == {"eur", "hrk"}
Fixed   == [c \in Foreign |-> IF c = "eur" THEN {1, 2, 3, 6} ELSE {3}]
Needs   == {{"eur", "usd"}, {"hrk", "eur"}}
Rates == INSTANCE RateHistory WITH
    Currencies <- Foreign, Base <- "usd", LastDay <- 6, Fixings <- Fixed,
    History <- 2, Window <- 2, Runs <- Callers, MaxRuns <- 2, Requests <- OnePosting, Needs <- Needs,
    today <- v1, out <- v2, file <- v3, readable <- v4, backup <- v5, run <- v6, runs <- v7, request <- v8

\* Four days, on any of which the balance may fall below zero or the price be missing.
Balances == {-2, 1, 3}
Indices  == {0, 1, 2}
Idle == INSTANCE CashLots WITH
    Balances <- Balances, Indices <- Indices, Scale <- 2, Starts <- TheFirstTwo, LastDay <- 4,
    balance <- v1, index <- v2, start <- v3, eventful <- v4, reported <- v5, cashLots <- v6, realized <- v7

\* Two symbols declared alike on one side, three days in two years and two regimes, and
\* sales at a loss and at a gain.
Symbols == {"v", "i"}
Payers  == {"v"}
Alikes  == [v |-> {"i"}, i |-> {}]
AtLossOrGain == {1, 3}
Taxes == INSTANCE TaxReport WITH
    Symbols <- Symbols, Payers <- Payers, Similar <- Alikes, WashWindow <- 1,
    LongTermDays <- 1, DividendWindow <- 1, MinDaysHeld <- 1, Purchases <- TwoShares, Costs <- TwoShares,
    Prices <- AtLossOrGain,
    StatusChange <- 1, DaysPerYear <- 2, LongRate <- 15, OrdinaryRate <- 24, TreatyRate <- 30,
    LastMoment <- 4, MaxEvents <- 4, MaxPaid <- 1,
    now <- v1, trades <- v2, held <- v3, sold <- v4, paid <- v5

\* NoUser is no user's id, and nobody is no client.
ASSUME NoUserAssumption == NoUser \notin Users!Users
ASSUME NobodyAssumption == "nobody" \notin Callers

-------------------------------------------------------------------------------
(* One of them runs *)

Unused(n) ==
    /\ IF n <= 4 THEN v4 = 0 ELSE TRUE
    /\ IF n <= 5 THEN v5 = 0 ELSE TRUE
    /\ IF n <= 6 THEN v6 = 0 ELSE TRUE
    /\ IF n <= 7 THEN v7 = 0 ELSE TRUE
    /\ IF n <= 8 THEN v8 = 0 ELSE TRUE
    /\ IF n <= 9 THEN v9 = 0 ELSE TRUE
    /\ IF n <= 10 THEN v10 = 0 ELSE TRUE

Idles(n) ==
    /\ UNCHANGED scene
    /\ IF n <= 4 THEN UNCHANGED v4 ELSE TRUE
    /\ IF n <= 5 THEN UNCHANGED v5 ELSE TRUE
    /\ IF n <= 6 THEN UNCHANGED v6 ELSE TRUE
    /\ IF n <= 7 THEN UNCHANGED v7 ELSE TRUE
    /\ IF n <= 8 THEN UNCHANGED v8 ELSE TRUE
    /\ IF n <= 9 THEN UNCHANGED v9 ELSE TRUE
    /\ IF n <= 10 THEN UNCHANGED v10 ELSE TRUE

\* Of the two categories, which are alike, the rules of a posting under review give it
\* none or the first.
RecordsInit ==
    \/ scene = "statements"  /\ Statements!Init /\ Unused(7)
    \/ scene = "pairs"       /\ Pairs!Init /\ Unused(8)
    \/ scene = "reviews"     /\ Reviews!Init /\ Unused(8) /\ v2["p"] # "b" /\ (v1 => v2["p"] = "none")
    \/ scene = "usage"       /\ Usage!Init /\ Unused(6)
    \/ scene = "users"       /\ Users!Init /\ Unused(8)
    \/ scene = "keys"        /\ Keys!Init /\ Unused(4)
    \/ scene = "versions"    /\ Versions!Init /\ Unused(6)
    \/ scene = "automations" /\ Automations!Init /\ Unused(5)
    \/ scene = "funding"     /\ Funding!Init /\ Unused(7)
    \/ scene = "lots"        /\ Lots!Init /\ Unused(10)
    \/ scene = "market"      /\ Market!Init /\ Unused(11)
    \/ scene = "dumps"       /\ Dumps!Init /\ Unused(8)
    \/ scene = "accounts"    /\ Ledgers!Init /\ Unused(8) /\ \A a \in TwoNames : v1[a].terms = Cash("usd")
    \/ scene = "files"       /\ Files!Init /\ Unused(6)
    \/ scene = "proposals"   /\ Proposals!Init /\ Unused(8)
    \/ scene = "rates"       /\ Rates!Init /\ Unused(9)
    \/ scene = "cash"        /\ Idle!Init /\ Unused(8)
    \/ scene = "taxes"       /\ Taxes!Init /\ Unused(6)

RecordsNext ==
    \/ scene = "statements"  /\ Statements!Next /\ Idles(7)
    \/ scene = "pairs"       /\ Pairs!Next /\ Idles(8)
    \/ scene = "reviews"     /\ Reviews!Next /\ Idles(8)
    \/ scene = "usage"       /\ Usage!Next /\ Idles(6)
    \/ scene = "users"       /\ Users!Next /\ Idles(8)
    \/ scene = "keys"        /\ Keys!Next /\ Idles(4)
    \/ scene = "versions"    /\ Versions!Next /\ Idles(6)
    \/ scene = "automations" /\ Automations!Next /\ Idles(5)
    \/ scene = "funding"     /\ Funding!Next /\ Idles(7)
    \/ scene = "lots"        /\ Lots!Next /\ Idles(10)
    \/ scene = "market"      /\ Market!Next /\ Idles(11)
    \/ scene = "dumps"       /\ Dumps!Next /\ Idles(8)
    \/ scene = "accounts"    /\ Ledgers!Next /\ Idles(8)
    \/ scene = "files"       /\ Files!Next /\ Idles(6)
    \/ scene = "proposals"   /\ Proposals!Next /\ Idles(8)
    \/ scene = "rates"       /\ Rates!Next /\ Idles(9)
    \/ scene = "cash"        /\ Idle!Next /\ Idles(8)
    \/ scene = "taxes"       /\ Taxes!Next /\ Idles(6)

RecordsSpec == RecordsInit /\ [][RecordsNext]_vars

-------------------------------------------------------------------------------
(* Properties, each that of its part *)

\* The moving part's variables keep their types, and with them the rows the database
\* holds: both ends of every transfer link among them.
RecordsTypeOK ==
    CASE scene = "statements"  -> Statements!TypeOK
      [] scene = "pairs"       -> Pairs!TypeOK
      [] scene = "reviews"     -> Reviews!TypeOK
      [] scene = "usage"       -> Usage!TypeOK
      [] scene = "users"       -> Users!TypeOK
      [] scene = "keys"        -> Keys!TypeOK
      [] scene = "versions"    -> Versions!TypeOK
      [] scene = "automations" -> Automations!TypeOK
      [] scene = "funding"     -> Funding!TypeOK
      [] scene = "lots"        -> Lots!TypeOK
      [] scene = "market"      -> Market!TypeOK
      [] scene = "dumps"       -> Dumps!TypeOK
      [] scene = "accounts"    -> Ledgers!TypeOK
      [] scene = "files"       -> Files!TypeOK
      [] scene = "proposals"   -> Proposals!TypeOK
      [] scene = "rates"       -> Rates!TypeOK
      [] scene = "cash"        -> Idle!TypeOK
      [] scene = "taxes"       -> Taxes!TypeOK

\* A transaction, with all that is attached to it, leaves the ledger only through
\* a job that another job's write overtook, or through a rebuild if the canonical
\* importer made it: the rebuild knows the bank importers only.
OnlyOvertakenJobsLose == [][scene = "statements" => Statements!OnlyOvertakenJobsLose]_vars

\* Where the copies of a fingerprint carry the suffixes 1 to n, whichever importers
\* made them, every import and rebuild leaves them so, unless another job's write
\* overtook it: the suffix _reassign_colliding_transaction_ids hands out next is then
\* never one that is taken, which unique(keep="last") would overwrite.  And
\* importing again what the ledger has adds nothing and renames nothing, whatever
\* the order of rows and whoever imported it first.
CopiesStayApart ==
    [][scene = "statements" => Statements!CopiesStayNumbered /\ Statements!ReimportAddsNothing]_vars

\* A request is refused by the one-link-per-transaction constraint, or finds a
\* rule gone, only when another request committed after it looked: the pairs
\* one reconciliation proposes never collide with each other or with a link it
\* knew of (reconcile_rule_links; an import that fails here has already
\* committed its ledger).  And a transaction that is split stays in the income and
\* expense figures until the user says otherwise, by a merge or a rule of their own:
\* a link takes it out only if its request had looked before the split was saved
\* (reconcile_rule_links: "a split real leg must never be silently excluded
\* from income/expense by a link formed afterward").
LinksRespectWhatIsThere ==
    /\ [](scene = "pairs" => Pairs!OnlyRivalsCollide)
    /\ [][scene = "pairs" => Pairs!SplitsStayCounted]_vars

\* Rejecting a suggestion puts back exactly what the posting showed before it, if
\* no other request saved the posting between the suggestion's read and its save
\* (the model may take long) or during the validation, and the suggestion did not
\* replace an earlier one nobody had answered.  And a save changes only what its
\* request is about: a PUT its field, a validation or a suggestion the category and the
\* suggestion; everything else another request said survives, unless that request
\* saved between this one's load and its save.
ReviewsTouchTheirOwn == [][scene = "reviews" => Reviews!RejectionRestores /\ Reviews!SavesAreNarrow]_vars

\* What GET /llm-usage shows is never more than what was used: races lose calls,
\* and no period inherits the calls of the one before.
UsageIsNeverOverstated == scene = "usage" => Usage!UsageIsNeverOverstated

\* However sign-ins and deliveries race, an account has one user, every user has its
\* account, and whoever asked was answered with the id the account is linked to.
\* And handling the deletion of an account that has its user is final: no later delivery,
\* and no request that was confirmed before, makes a user of the account active.  (A
\* deletion handled before there is a user changes nothing, so one created after it,
\* by a delivery in the wrong order or a request confirmed earlier, stays active.)
UsersFollowTheirAccounts == scene = "users" => Users!OneUserPerAccount /\ Users!DeletionIsFinal

\* A lost race becomes an update: a batch is written whole, with all its caller did
\* before it, and the race itself never reaches the caller, neither as the unique
\* violation it is nor by using up the attempts.
LostRacesBecomeUpdates == scene = "keys" => Keys!LostRacesBecomeUpdates

\* An edit that names a version replaces the very row its client read, whatever other
\* edits, toggles and deletions came between, unless another client's POST of the same
\* rule did: that replaces the row and leaves the version alone on purpose, or makes
\* a deleted row again, at version 1.
EditsReplaceWhatWasSeen == [][scene = "versions" => Versions!EditsReplaceWhatWasSeen]_vars

\* Every write leaves the rules it is not about as they are.  A write that no other
\* write overtook leaves a list of contributions the checks accept if it found one,
\* and a reorder then keeps every rule and what it says.
WritesKeepTheList == [][scene = "automations" => Automations!WritesKeepTheList]_vars

\* However many runs of one day are computed side by side, what they insert takes no
\* more than was not allocated, but for the rounding of each amount they store.
\* However many draws of one day are computed side by side, what they insert leaves no
\* goal below zero and takes no more than was missing, but for the rounding of the last.
FundingStaysInBounds == [][scene = "funding" => Funding!AdditionsStayInThePool /\ Funding!DrawsStayInTheGoals]_vars

\* The books balance: cash and the cost of what is held are what came from outside and
\* what sales gained, through every order of purchases, sales, dividends and splits;
\* the running share count is the lots' own, and the oldest lot is always sold first.
\* And the running figure computes what sharing out every dividend would: the book is an
\* implementation of the lots kept one by one.
LotsAreKept ==
    /\ scene = "lots" => Lots!NoLotsAtFirst
    /\ [](scene = "lots" => Lots!BooksBalance)
    /\ [][scene = "lots" => Lots!LotsKeptOneByOne]_vars

\* A price that was still moving when it was cached does not outlive a run that gets
\* all it asks for on one of the days it is always fetched again: Buffer - 1 days after
\* its own.  A file restored from its backup does not undo that, as long as the run
\* overlaps no other and the backup is not missing (missing_ranges, the merge and the
\* backup together).
LivePricesSettle == scene = "market" => Market!LivePricesSettle

\* Wherever jobs end and however they overlap, of the newest Retention backups ever
\* stored none is deleted, no dump that failed to restore is stored, and what is in the
\* bucket is whole.  (A file of the local directory may be cut short; it counts among
\* the newest all the same.)
NewestBackupsAreKept == scene = "dumps" => Dumps!NewestBackupsAreKept

\* The postings of an account are in its currency: an account that has any keeps its
\* terms, and a posting takes the currency there is, unless two requests about the
\* account overlapped.
\* Recording a transfer, again or for the first time, moves money and makes none: net
\* worth stays what it was, on every day, if as much arrives as leaves, the accounts it
\* names and named are of one currency, and none of them is valued by its broker.
AccountsAgree ==
    /\ [](scene = "accounts" => Ledgers!CurrenciesAgree)
    /\ [][scene = "accounts" => Ledgers!TransfersMakeNoMoney]_vars

\* Within a file's preview each posting is matched once, no row could have a better one
\* that is left, and names that are alike name one category, however the user renames.
\* A tick means what was shown: if nothing was imported, edited or renamed after the
\* preview, an apply writes exactly the rows ticked, onto the postings shown for them,
\* with the categories shown unless the user renames some.
FilesMeanWhatTheyShow == [][scene = "files" => Files!PreviewsAreSound /\ Files!TicksMeanWhatWasShown]_vars

\* Whatever was imported, linked, merged, dismissed and restored before, the groups a
\* client is shown are connected, and once one is merged, whichever is kept is in none.
\* As long as what is merged is all still there, no event is merged away altogether,
\* and what comes back, when a decision is undone or replaced by a later one that keeps the
\* same transaction, is proposed again beside it.
SuggestionsHoldTogether ==
    /\ [](scene = "proposals" => v7 \/ Proposals!EventsStay)
    /\ [][scene = "proposals" => Proposals!SuggestionsHoldTogether]_vars

\* Between the first and the last day of the cache every rate published is in it,
\* whichever runs overlapped or died and whatever was restored; and a request that is not
\* refused converts every row, whatever its day, at the rates of that day.
EveryAmountHasARate ==
    /\ [](scene = "rates" => Rates!NoHole)
    /\ [][scene = "rates" => Rates!RequestsAreConverted]_vars

\* Every dollar is in one lot from the day it came until as many dollars as came before
\* it and itself have gone; its growth is banked once, at the index of the day it went,
\* and the summary's oldest lot and missed earnings are those of the dollars still there.
\* (While the balance was never below zero the lots are the balance; what was spent
\* below zero makes a lot of the same size when it is refilled, which the summary
\* reports as missed.)
EveryDollarOnce == scene = "cash" => Idle!EveryDollarOnce

\* A dividend qualifies if and only if its shares were held long enough without a break;
\* a loss near a purchase is flagged; the report loses and doubles nothing; a sale is what
\* its preview said and owes what the liquidation estimate gave; and what a past year
\* owes stands, whatever is traded later.
TaxesFollowTheTrades ==
    /\ [](scene = "taxes" => Taxes!TaxesAddUp)
    /\ [][scene = "taxes" => Taxes!TaxesFollowTheTrades]_vars
==============================================================================

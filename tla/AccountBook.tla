---------------------------- MODULE AccountBook ----------------------------
(***************************************************************************)
(* One user's accounts: created, edited, closed, reopened and deleted,     *)
(* their opening balances, and the transfers that say where the money of a *)
(* closed account went.  Handlers look first and write later; imports put  *)
(* postings on an account in the currency it had when they looked.         *)
(*                                                                         *)
(* A transfer is stored as two postings, each on its own account and in    *)
(* that account's currency; its id is the client's, and recording it again *)
(* replaces the two.  An imported posting here is one of amount 1.         *)
(***************************************************************************)
EXTENDS Integers, FiniteSets, FiniteSetsExt

CONSTANTS
    Ids,            \* account ids
    Initial,        \* the accounts there are at first
    Terms,          \* [kind, currency, linked]: what a user may say of an account
    Moves,          \* [id, from, to, gave, got, day]: transfers a close may record
    Days,
    Requests,
    MaxRequests     \* how many requests are served

VARIABLES
    account,        \* id to its terms and whether it is closed
    opening,        \* id to its opening balance
    posted,         \* imported postings: account and currency
    transfer,       \* id of a recorded transfer to its two postings
    asked,          \* where each request is
    served,         \* how many were begun
    raced           \* history: accounts written by a request that another one overtook

rowVars == <<account, opening, posted, transfer>>
vars == <<rowVars, asked, served, raced>>

Idle == [at |-> "idle", op |-> "none", id |-> "none", terms |-> CHOOSE t \in Terms : TRUE,
         closed |-> FALSE, moves |-> {}, overtaken |-> FALSE]

\* Of the ledger: which transfer's side or import, and what it says.
Postings ==
    {[of |-> <<"import", "once">>, leg |-> [account |-> p[1], currency |-> p[2], amount |-> 1, day |-> 1]] : p \in posted}
      \cup {[of |-> <<i, side>>, leg |-> transfer[i][side]] : i \in DOMAIN transfer, side \in {"from", "to"}}

HasPostings(a) == \E p \in Postings : p.leg.account = a

\* An edit of what is locked once there are postings.
Locked(old, new) == old.kind # new.kind \/ old.currency # new.currency

Init ==
    /\ account \in [Initial -> [terms : Terms, closed : {FALSE}]]
    /\ opening = [a \in {} |-> 0]
    /\ posted = {}
    /\ transfer = [i \in {} |-> 0]
    /\ asked = [q \in Requests |-> Idle]
    /\ served = 0
    /\ raced = {}

-----------------------------------------------------------------------------
(* Looking.                                                                *)

Look(q, op, a, terms, moves) ==
    /\ asked[q].at = "idle"
    /\ served < MaxRequests
    /\ a \in DOMAIN account
    /\ served' = served + 1
    /\ asked' = [asked EXCEPT ![q] = [at |-> "looked", op |-> op, id |-> a, terms |-> terms,
                                          closed |-> account[a].closed, moves |-> moves, overtaken |-> FALSE]]
    /\ UNCHANGED <<rowVars, raced>>

\* put_account: what is locked must not change once there are postings.
LookPut(q, a, new) ==
    /\ a \in DOMAIN account
    /\ Locked(account[a].terms, new) => ~HasPostings(a)
    /\ Look(q, "put", a, new, {})

LookDelete(q, a) == ~HasPostings(a) /\ Look(q, "delete", a, Idle.terms, {})

\* close_account: each transfer leaves the account and goes to one there is.
LookClose(q, a, moves) ==
    /\ \A mv \in moves : mv.from = a /\ mv.to \in DOMAIN account
    /\ Look(q, "close", a, Idle.terms, moves)

\* An import takes the account's currency for its postings.
LookImport(q, a) == a \in DOMAIN account /\ Look(q, "import", a, account[a].terms, {})

-----------------------------------------------------------------------------
(* Writing.                                                                *)

\* Request q has written accounts as; other requests about them are overtaken.
Wrote(q, as) ==
    /\ asked' = [r \in Requests |->
                     IF r = q THEN Idle
                     ELSE IF asked[r].id \in as THEN [asked[r] EXCEPT !.overtaken = TRUE]
                     ELSE asked[r]]
    /\ raced' = IF asked[q].overtaken THEN raced \cup as ELSE raced

Due(q, op) == asked[q].at = "looked" /\ asked[q].op = op

\* update_account_fields writes every field, closed as it was when the request looked.
Put(q) ==
    LET a == asked[q].id
    IN  /\ Due(q, "put") /\ a \in DOMAIN account
        /\ account' = [account EXCEPT ![a] = [terms |-> asked[q].terms, closed |-> asked[q].closed]]
        /\ Wrote(q, {a})
        /\ UNCHANGED <<opening, posted, transfer, served>>

\* remove_account: the opening balance goes with it; a posting refuses it.
Delete(q) ==
    LET a == asked[q].id
    IN  /\ Due(q, "delete") /\ ~HasPostings(a)
        /\ account' = [x \in DOMAIN account \ {a} |-> account[x]]
        /\ opening' = [x \in DOMAIN opening \ {a} |-> opening[x]]
        /\ Wrote(q, {a})
        /\ UNCHANGED <<posted, transfer, served>>

Leg(a, amount, day) == [account |-> a, currency |-> account[a].terms.currency, amount |-> amount, day |-> day]
Legs(mv) == [from |-> Leg(mv.from, -mv.gave, mv.day), to |-> Leg(mv.to, mv.got, mv.day)]
Changed(moves) == {mv.id : mv \in moves}
Of(i, moves) == CHOOSE mv \in moves : mv.id = i

\* What is already there is only updated on the side the money left.
Recorded_ReceiptStays(moves) ==
    [i \in DOMAIN transfer \cup Changed(moves) |->
        IF i \notin Changed(moves) THEN transfer[i]
        ELSE IF i \in DOMAIN transfer THEN [Legs(Of(i, moves)) EXCEPT !.to = transfer[i].to]
        ELSE Legs(Of(i, moves))]

\* insert_manual_transfers: two postings each, in the currencies of the accounts now;
\* those of a transfer already recorded are replaced.
Recorded(moves) ==
    [i \in DOMAIN transfer \cup Changed(moves) |->
        IF i \in Changed(moves) THEN Legs(Of(i, moves)) ELSE transfer[i]]

Close(q) ==
    LET a == asked[q].id
        moves == asked[q].moves
    IN  /\ Due(q, "close") /\ a \in DOMAIN account
        /\ \A mv \in moves : mv.to \in DOMAIN account
        /\ account' = [account EXCEPT ![a].closed = TRUE]
        /\ transfer' = Recorded(moves)
        /\ Wrote(q, {a} \cup {mv.to : mv \in moves})
        /\ UNCHANGED <<opening, posted, served>>

Import(q) ==
    LET a == asked[q].id
    IN  /\ Due(q, "import") /\ a \in DOMAIN account
        /\ posted' = posted \cup {<<a, asked[q].terms.currency>>}
        /\ Wrote(q, {a})
        /\ UNCHANGED <<account, opening, transfer, served>>

\* The account is gone (404), or a constraint refuses (500).
Fail(q) ==
    /\ asked[q].at = "looked"
    /\ asked' = [asked EXCEPT ![q] = Idle]
    /\ UNCHANGED <<rowVars, served, raced>>

\* One write about account a of a request that looks at nothing else.
AtOnce(a) ==
    /\ served < MaxRequests
    /\ a \in DOMAIN account
    /\ served' = served + 1
    /\ asked' = [r \in Requests |-> IF asked[r].id = a THEN [asked[r] EXCEPT !.overtaken = TRUE]
                                      ELSE asked[r]]
    /\ UNCHANGED raced

\* post_account mints an id.
Post(a, terms) ==
    /\ served < MaxRequests
    /\ a \notin DOMAIN account \cup Initial /\ \A q \in Requests : asked[q].id # a
    /\ served' = served + 1
    /\ account' = [x \in DOMAIN account \cup {a} |->
                     IF x = a THEN [terms |-> terms, closed |-> FALSE] ELSE account[x]]
    /\ UNCHANGED <<opening, posted, transfer, asked, raced>>

Reopen(a) == AtOnce(a) /\ account' = [account EXCEPT ![a].closed = FALSE] /\ UNCHANGED <<opening, posted, transfer>>

\* upsert_opening_balance.
PutOpening(a, day) ==
    /\ AtOnce(a)
    /\ opening' = [x \in DOMAIN opening \cup {a} |-> IF x = a THEN day ELSE opening[x]]
    /\ UNCHANGED <<account, posted, transfer>>

DeleteOpening(a) ==
    /\ AtOnce(a) /\ a \in DOMAIN opening
    /\ opening' = [x \in DOMAIN opening \ {a} |-> opening[x]]
    /\ UNCHANGED <<account, posted, transfer>>

Next ==
    \/ \E q \in Requests, a \in Ids :
          \/ \E t \in Terms : LookPut(q, a, t)
          \/ LookDelete(q, a) \/ LookImport(q, a)
          \/ \E moves \in {{}} \cup {{mv} : mv \in Moves} : LookClose(q, a, moves)
    \/ \E q \in Requests : Put(q) \/ Delete(q) \/ Close(q) \/ Import(q) \/ Fail(q)
    \/ \E a \in Ids : \/ \E t \in Terms : Post(a, t)
                      \/ Reopen(a) \/ DeleteOpening(a)
                      \/ \E day \in Days : PutOpening(a, day)

Spec == Init /\ [][Next]_vars

-----------------------------------------------------------------------------
(* Net worth.                                                              *)

\* account_balances: what the postings of a come to on a day.
Balance(a, day) == MapThenSumSet(LAMBDA p : p.leg.amount, {p \in Postings : p.leg.account = a /\ p.leg.day <= day})

\* net_worth_summary, the total in one currency: an account valued by its broker
\* counts as that, any other as its postings and its opening balance of 1; the
\* balance of a card is what is owed, below zero.
NetWorth(currency, day) ==
    LET own == {a \in DOMAIN account : account[a].terms.currency = currency /\ ~account[a].terms.linked}
    IN  MapThenSumSet(LAMBDA a : Balance(a, day) + (IF a \in DOMAIN opening /\ opening[a] <= day THEN 1 ELSE 0), own)

-----------------------------------------------------------------------------
(* Properties.                                                             *)

TypeOK ==
    /\ DOMAIN account \subseteq Ids
    /\ \A a \in DOMAIN account : account[a] \in [terms : Terms, closed : BOOLEAN]
    /\ DOMAIN opening \subseteq DOMAIN account /\ \A a \in DOMAIN opening : opening[a] \in Days
    /\ \A p \in Postings : p.leg.account \in DOMAIN account
    /\ raced \subseteq Ids

\* The postings of an account are in its currency: an account that has any keeps its
\* terms, and a posting takes the currency there is, unless two requests about the
\* account overlapped.
CurrenciesAgree ==
    \A p \in Postings : p.leg.account \notin raced => p.leg.currency = account[p.leg.account].terms.currency

PlainTransfers ==
    \A i \in DOMAIN transfer :
        /\ transfer[i].from.currency = transfer[i].to.currency
        /\ \A side \in {"from", "to"} :
              transfer[i][side].account \notin raced /\ ~account[transfer[i][side].account].terms.linked

\* Recording a transfer, again or for the first time, moves money and makes none: net
\* worth stays what it was, on every day, if as much arrives as leaves, the accounts it
\* names and named are of one currency, and none of them is valued by its broker.
TransfersMakeNoMoney ==
    (\A mv \in Moves : mv.gave = mv.got) /\ PlainTransfers /\ PlainTransfers' /\ transfer' # transfer =>
       \A currency \in {t.currency : t \in Terms}, day \in Days :
           NetWorth(currency, day)' = NetWorth(currency, day)

-----------------------------------------------------------------------------
(* What the properties rest on.                                            *)

\* A posting of this currency is on an account there is.
Stands(a, currency) ==
    /\ a \in DOMAIN account
    /\ a \notin raced => currency = account[a].terms.currency

\* What a transfer says is what one of the user's moves said.
Tells(legs, mv) ==
    /\ legs.from.amount = -mv.gave /\ legs.to.amount = mv.got
    /\ legs.from.day = mv.day /\ legs.to.day = mv.day

\* A request that nobody overtook may write what it looked for.
RequestStands(c) ==
    /\ c.closed \in BOOLEAN
    /\ c.op = "put" => c.terms \in Terms
    /\ c.op = "close" => \A mv \in c.moves : mv.from = c.id /\ c.moves = {mv} /\ mv \in Moves
    /\ c.at = "looked" /\ ~c.overtaken =>
          /\ c.id \in DOMAIN account
          /\ c.op = "put" /\ Locked(account[c.id].terms, c.terms) => ~HasPostings(c.id)
          /\ c.op = "import" => c.terms = account[c.id].terms

IsARequest(c) == DOMAIN c = {"at", "op", "id", "terms", "closed", "moves", "overtaken"}

IInv ==
    /\ IsFiniteSet(DOMAIN account) /\ account \in [DOMAIN account -> [terms : Terms, closed : BOOLEAN]]
    /\ IsFiniteSet(Postings)
    /\ \A x \in posted : Stands(x[1], x[2])
    /\ \A i \in DOMAIN transfer :
          /\ Stands(transfer[i].from.account, transfer[i].from.currency)
          /\ Stands(transfer[i].to.account, transfer[i].to.currency)
          /\ \E mv \in Moves : Tells(transfer[i], mv)
    /\ DOMAIN asked = Requests /\ \A q \in Requests : IsARequest(asked[q]) /\ RequestStands(asked[q])

=============================================================================

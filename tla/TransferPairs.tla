---------------------------- MODULE TransferPairs ----------------------------
(* The resolution of a user's ledger, and the two ways a pair of its          *)
(* transactions becomes one transfer: the user links them, or a transfer      *)
(* rule does whenever an import or a rule write reconciles the ledger         *)
(* (ledger/transfers.py).  A link takes both transactions out of the income   *)
(* and expense figures, as a merge or a rule naming an account that is never  *)
(* imported does; a split gives a transaction's real leg several categories   *)
(* and keeps it in those figures.  Requests overlap: what one of them looked  *)
(* at may have changed by the time it inserts, and PostgreSQL's constraints   *)
(* are all that stands between them.                                          *)
(*                                                                            *)
(* Every transaction has one real leg and one on a placeholder account.  The  *)
(* rules are numbered in the order they are tried (priority, then rule id),   *)
(* and Matched lists what a rule's description, account and exclusions let    *)
(* through.  Overlapping imports are StatementLedger's subject: here the      *)
(* ledger only grows.  The versions of a rule are RowVersions' subject.       *)
EXTENDS Naturals, FiniteSets

CONSTANTS
    LastTransaction, \* transactions are numbered in the order of their ids
    Account,         \* the account of a transaction's real leg
    Amount,          \* its amount, one of a pair of opposites: 1 or 2
    Rules,           \* rules, 1 first: [matched, counterparty]
    KnownRules,      \* the rules stored, and active, at the start
    Importable,      \* the accounts that have statements of their own
    Requests,        \* imports, rule writes and manual links, each made once
    MaxEdits         \* bound: splits, merges and removals the user makes

VARIABLES
    ledger,   \* the transactions imported so far
    rules,    \* rule -> absent, active or inactive
    links,    \* the transfer links: [pair, rule], rule 0 for a manual one
    splits,   \* the transactions whose real leg is split
    merges,   \* <<kept, duplicate>> decisions
    request,  \* request -> its progress and what it has read
    edits

vars == <<ledger, rules, links, splits, merges, request, edits>>

Transactions == 1 .. LastTransaction
RuleIds      == DOMAIN Rules
NoRule       == 0
Fresh == [phase |-> "new", kind |-> "none", rule |-> NoRule, state |-> "absent",
          ledger |-> {}, doomed |-> {}, splits |-> {}, links |-> {}, proposed |-> {}]

TypeOK ==
    /\ ledger \subseteq Transactions
    /\ rules \in [RuleIds -> {"absent", "active", "inactive"}]
    /\ links \subseteq [pair : SUBSET Transactions, rule : RuleIds \cup {NoRule}]
    /\ \A l \in links : Cardinality(l.pair) = 2
    /\ splits \subseteq ledger
    /\ merges \subseteq ledger \X ledger
    /\ edits \in 0 .. MaxEdits
    /\ \A q \in Requests :
          /\ request[q].phase \in {"new", "wrote", "looked", "done", "collided"}
          /\ request[q].kind \in {"none", "import", "save", "delete", "link"}

Init ==
    /\ ledger = {} /\ links = {} /\ splits = {} /\ merges = {} /\ edits = 0
    /\ rules = [r \in RuleIds |-> IF r \in KnownRules THEN "active" ELSE "absent"]
    /\ request = [q \in Requests |-> Fresh]

-------------------------------------------------------------------------------
(* Resolution *)

Members(ls) == UNION {l.pair : l \in ls}

\* The rules that match a transaction; the first of them decides, whatever its
\* counterparty.
Matching(rs, t) == {r \in RuleIds : rs[r] = "active" /\ t \in Rules[r].matched}
RuleMatch(rs, t) == CHOOSE r \in Matching(rs, t) : \A o \in Matching(rs, t) : r <= o

\* A rule repoints the placeholder itself only at an account that has no
\* statements of its own.
Repointed(t) ==
    /\ Matching(rules, t) # {}
    /\ Rules[RuleMatch(rules, t)].counterparty \notin Importable

Dropped == {m[2] : m \in merges}

\* The real income and expenses: a leg beside a placeholder, in a transaction
\* that no merge dropped and no link took out.
Counted(t) == t \in ledger \ (Dropped \cup Members(links)) /\ ~Repointed(t)

\* Transactions a rule's link may still take, and the ones it may pair t with.
Unresolved(led, spl, ls) == led \ (spl \cup Members(ls))

Candidates(led, rs, spl, ls, t) ==
    IF t \notin Unresolved(led, spl, ls) \/ Matching(rs, t) = {} THEN {}
    ELSE LET c == Rules[RuleMatch(rs, t)].counterparty
         IN IF c \notin Importable THEN {}
            ELSE {u \in Unresolved(led, spl, ls) \ {t} : Account[u] = c /\ Amount[u] # Amount[t]}

\* A transaction is offered to every match that wants it.
ReconcileRuleLinks_Shared(led, rs, spl, ls) ==
    UNION {LET cs == Candidates(led, rs, spl, ls, t)
           IN IF Cardinality(cs) = 1 THEN {[pair |-> {t} \cup cs, rule |-> RuleMatch(rs, t)]} ELSE {}
             : t \in Transactions}

\* Transactions in the order of their ids: one that is still free takes its
\* candidate if only one is still free.
ReconcileRuleLinks(led, rs, spl, ls) ==
    LET proposed[n \in 0 .. LastTransaction] ==
          IF n = 0 THEN {}
          ELSE LET before    == proposed[n - 1]
                   remaining == Candidates(led, rs, spl, ls, n) \ Members(before)
               IN IF n \notin Members(before) /\ Cardinality(remaining) = 1
                  THEN before \cup {[pair |-> {n} \cup remaining, rule |-> RuleMatch(rs, n)]}
                  ELSE before
    IN proposed[LastTransaction]

-------------------------------------------------------------------------------
(* The requests that pair transactions *)

\* An import commits the ledger before it reconciles.
Import(q) ==
    /\ request[q].phase = "new"
    /\ \E new \in SUBSET (Transactions \ ledger) :
          /\ new # {}
          /\ ledger' = ledger \cup new
          /\ request' = [request EXCEPT ![q] =
                [Fresh EXCEPT !.phase = "wrote", !.kind = "import", !.ledger = ledger']]
    /\ UNCHANGED <<rules, links, splits, merges, edits>>

\* A rule write locks the rule's row until it commits.
Unlocked(r) == \A q \in Requests : request[q].phase \in {"wrote", "looked"} => request[q].rule # r

WriteRule(q, r, kind, state, doomed) ==
    /\ request[q].phase = "new" /\ Unlocked(r)
    /\ request' = [request EXCEPT ![q] =
          [Fresh EXCEPT !.phase = "wrote", !.kind = kind, !.rule = r, !.state = state,
                        !.ledger = ledger, !.doomed = doomed]]
    /\ UNCHANGED <<ledger, rules, links, splits, merges, edits>>

\* Posting a rule anew keeps whether it is active.
PostRule(q) == \E r \in RuleIds :
    WriteRule(q, r, "save", IF rules[r] = "absent" THEN "active" ELSE rules[r], {})

PatchRule(q) == \E r \in RuleIds, state \in {"active", "inactive"} :
    rules[r] # "absent" /\ WriteRule(q, r, "save", state, {})

\* Deleting a rule first deletes the links it made.
DeleteRule(q) == \E r \in RuleIds :
    rules[r] # "absent" /\ WriteRule(q, r, "delete", "absent", {l \in links : l.rule = r})

\* reconcile_and_persist_rule_links reads the rules, with the request's own
\* change, the splits and the links, and decides.
Reconcile(q) ==
    LET rs == [r \in RuleIds |-> IF r = request[q].rule THEN request[q].state ELSE rules[r]]
        ls == links \ request[q].doomed
    IN /\ request[q].phase = "wrote"
       /\ request' = [request EXCEPT ![q].phase = "looked", ![q].splits = splits, ![q].links = ls,
                         ![q].proposed = ReconcileRuleLinks(request[q].ledger, rs, splits, ls)]
       /\ UNCHANGED <<ledger, rules, links, splits, merges, edits>>

\* The user links two transactions: neither may be linked or split.
CheckManualLink(q) ==
    /\ request[q].phase = "new"
    /\ \E t, u \in ledger \ (splits \cup Members(links)) :
          /\ t < u
          /\ request' = [request EXCEPT ![q] =
                [Fresh EXCEPT !.phase = "looked", !.kind = "link", !.splits = splits, !.links = links,
                              !.proposed = {[pair |-> {t, u}, rule |-> NoRule]}]]
    /\ UNCHANGED <<ledger, rules, links, splits, merges, edits>>

\* What the insert sees: the links of everyone who committed, less the ones
\* this request deletes.  A pair that is already linked is left as it is; a
\* transaction of another pair, or a rule deleted meanwhile, fails the insert.
Standing(q) == links \ request[q].doomed
Inserted(q) == {p \in request[q].proposed : \A l \in Standing(q) : l.pair # p.pair}
Collides(q) ==
    \/ \E p \in Inserted(q), l \in Standing(q) \cup Inserted(q) : p # l /\ p.pair \cap l.pair # {}
    \/ \E p \in request[q].proposed :
          p.rule \notin {NoRule, request[q].rule} /\ rules[p.rule] = "absent"

\* A deleted rule's row clears the reference of a link inserted meanwhile.
RuleGone(l, q) ==
    IF request[q].kind = "delete" /\ l.rule = request[q].rule THEN [l EXCEPT !.rule = NoRule] ELSE l

Insert(q) ==
    /\ request[q].phase = "looked" /\ ~Collides(q)
    /\ links' = {RuleGone(l, q) : l \in Standing(q)} \cup Inserted(q)
    /\ rules' = IF request[q].rule = NoRule THEN rules
                ELSE [rules EXCEPT ![request[q].rule] = request[q].state]
    /\ request' = [request EXCEPT ![q].phase = "done"]
    /\ UNCHANGED <<ledger, splits, merges, edits>>

\* A collision rolls the whole request back: a 409 for a manual link, a 500 for
\* the others.  The ledger an import committed stays.
Collide(q) ==
    /\ request[q].phase = "looked" /\ Collides(q)
    /\ request' = [request EXCEPT ![q].phase = "collided"]
    /\ UNCHANGED <<ledger, rules, links, splits, merges, edits>>

-------------------------------------------------------------------------------
(* The user's other corrections *)

Edit == edits < MaxEdits /\ edits' = edits + 1 /\ UNCHANGED <<ledger, rules, request>>

\* A posting that a merge dropped is not found; one that is linked is split.
PutSplit == Edit /\ \E t \in ledger \ Dropped : splits' = splits \cup {t} /\ UNCHANGED <<links, merges>>

DeleteSplit == Edit /\ \E t \in splits : splits' = splits \ {t} /\ UNCHANGED <<links, merges>>

DeleteLink == Edit /\ \E l \in links : links' = links \ {l} /\ UNCHANGED <<splits, merges>>

\* One decision per kept transaction: a second one replaces the first.
PostMerge ==
    /\ Edit
    /\ \E kept, dup \in ledger :
          kept # dup /\ merges' = {m \in merges : m[1] # kept} \cup {<<kept, dup>>}
    /\ UNCHANGED <<links, splits>>

DeleteMerge == Edit /\ \E m \in merges : merges' = merges \ {m} /\ UNCHANGED <<links, splits>>

Next ==
    \/ \E q \in Requests :
          \/ Import(q) \/ PostRule(q) \/ PatchRule(q) \/ DeleteRule(q) \/ CheckManualLink(q)
          \/ Reconcile(q) \/ Insert(q) \/ Collide(q)
    \/ PutSplit \/ DeleteSplit \/ DeleteLink \/ PostMerge \/ DeleteMerge

Spec == Init /\ [][Next]_vars

-------------------------------------------------------------------------------
(* Properties *)

\* A request is refused by the one-link-per-transaction constraint, or finds a
\* rule gone, only when another request committed after it looked: the pairs
\* one reconciliation proposes never collide with each other or with a link it
\* knew of (reconcile_rule_links; an import that fails here has already
\* committed its ledger).
OnlyRivalsCollide ==
    \A q \in Requests : request[q].phase = "looked" /\ Collides(q) =>
        \/ Standing(q) # request[q].links
        \/ \E o \in Requests \ {q} : request[o].kind = "delete" /\ request[o].phase = "done"

\* A transaction that is split stays in the income and expense figures until
\* the user says otherwise, by a merge or a rule of their own: a link takes it
\* out only if its request had looked before the split was saved
\* (reconcile_rule_links: "a split real leg must never be silently excluded
\* from income/expense by a link formed afterward").
SplitsStayCounted ==
    \A t \in splits \cap splits' : Counted(t) /\ ~Counted(t)' =>
       \/ merges' # merges
       \/ rules' # rules
       \/ \E q \in Requests :
             /\ request[q].phase = "looked" /\ request'[q].phase = "done"
             /\ t \notin request[q].splits

-------------------------------------------------------------------------------
(* What the properties rest on *)

IsALink(l) == DOMAIN l = {"pair", "rule"}

\* What a request proposes is of transactions it found neither split nor linked.
ProposalIsSound(c) ==
    /\ \A p \in c.proposed : /\ p.pair \cap (c.splits \cup Members(c.links)) = {}
                             /\ p.rule \in RuleIds \cup {NoRule} /\ IsALink(p)
    /\ \A p, r \in c.proposed : p # r => p.pair \cap r.pair = {}

\* A rule the request found is only absent once a request that deleted it is done.
RulesStand(q) ==
    \A p \in request[q].proposed :
        p.rule \notin {NoRule, request[q].rule} /\ rules[p.rule] = "absent" =>
           \E o \in Requests \ {q} : request[o].kind = "delete" /\ request[o].phase = "done"

IsARequest(c) ==
    DOMAIN c = {"phase", "kind", "rule", "state", "ledger", "doomed", "splits", "links", "proposed"}

IInv ==
    /\ rules \in [RuleIds -> {"absent", "active", "inactive"}]
    /\ \A l \in links : IsALink(l)
    /\ DOMAIN request = Requests
    /\ \A q \in Requests :
          /\ IsARequest(request[q]) /\ ProposalIsSound(request[q]) /\ RulesStand(q)
          /\ request[q].state \in {"absent", "active", "inactive"}
          /\ request[q].rule # NoRule /\ request[q].state = "absent" => request[q].kind = "delete"

=============================================================================

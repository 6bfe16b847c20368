----------------------------- MODULE Suggestions -----------------------------
(***************************************************************************)
(* What the postings page proposes and a user decides: pairs of postings   *)
(* that look like the two sides of a transfer (ledger/transfers.py) and    *)
(* groups of transactions that look like one event recorded more than once *)
(* (ledger/duplicates.py).  Nothing of it is stored but what was decided:  *)
(* links, merges, and the keys of what was dismissed.  The proposals are   *)
(* computed on every request from the resolved postings.                   *)
(***************************************************************************)
EXTENDS Integers, Sequences, FiniteSets, FiniteSetsExt

CONSTANTS
    Transactions,  \* [id, day, legs, placeholder]; legs is the sequence of what the splits
                   \* leave on real accounts, each [account, amount, about]; the other
                   \* side is a placeholder, unless the transfer was typed in.
    Split,         \* ids of those whose posting is split
    Initial,       \* ids of those there are at first
    Alike(_, _),   \* how alike two descriptions are, from 0 to MostAlike
    MostAlike, Window, MaxDecisions

VARIABLES
    present,       \* ids of the transactions in the ledger
    linked,        \* pairs of ids that are confirmed transfers
    merged,        \* of a kept transaction, those it stands for
    dismissed,     \* keys of what is not to be proposed
    shown,         \* the lists a client has
    decisions,     \* how many requests changed something
    outdated       \* history: was a group merged of which something was merged before?

vars == <<present, linked, merged, dismissed, shown, decisions, outdated>>

-----------------------------------------------------------------------------
(* The postings the proposals are made from.                               *)

\* apply_posting_merges: what another transaction stands for is left out.
MergedAway == UNION {merged[k] : k \in DOMAIN merged}
Resolved == {t \in Transactions : t.id \in present \ MergedAway}

\* The legs on real accounts; each leg of a split posting has an id of its own.
Legs(ts) == UNION {{[posting |-> <<t.id, n>>, id |-> t.id, day |-> t.day, account |-> t.legs[n].account,
                     amount |-> t.legs[n].amount, about |-> t.legs[n].about] : n \in DOMAIN t.legs} : t \in ts}

Earlier(p, q) == p[1] < q[1] \/ (p[1] = q[1] /\ p[2] < q[2])
Distance(p, q) == IF p.day < q.day THEN q.day - p.day ELSE p.day - q.day

-----------------------------------------------------------------------------
(* find_unmatched_transfer_candidates: between two accounts, of opposite   *)
(* amounts, both sides without a counterpart and without a link.           *)

Linked == UNION linked
Unresolved(ts) == {l \in Legs({t \in ts : t.placeholder}) : l.id \notin Linked}
Candidates(ts) ==
    {c \in Unresolved(ts) \X Unresolved(ts) :
        /\ c[1].account # c[2].account /\ Earlier(c[1].posting, c[2].posting)
        /\ c[1].amount + c[2].amount = 0 /\ Distance(c[1], c[2]) <= Window}

\* _transfer_suggestion_id.
TransferKey(c) == [kind |-> "transfer", of |-> {c[1].posting, c[2].posting}]

-----------------------------------------------------------------------------
(* find_duplicate_candidates.                                              *)

\* Two legs of one account and amount, close in time, described alike.
Edges(ts) ==
    {e \in Legs(ts) \X Legs(ts) :
        /\ e[1].account = e[2].account /\ e[1].id # e[2].id /\ Earlier(e[1].posting, e[2].posting)
        /\ e[1].amount = e[2].amount /\ Distance(e[1], e[2]) <= Window
        /\ 10 * Alike(e[1].about, e[2].about) >= 3 * MostAlike}

\* 0.6 of how alike the descriptions are and 0.4 of how close the days, scaled.
Certainty(e) == 3 * Alike(e[1].about, e[2].about) * Window + 2 * (Window - Distance(e[1], e[2])) * MostAlike

\* _UnionFind.find.  That it flattens the path on its way changes no root.
Find(parent, node) ==
    LET root[n \in DOMAIN parent] == IF parent[n] = n THEN n ELSE root[parent[n]] IN root[node]

\* The node itself is hung under the other root: what was above it is cut off.
Union_Node(parent, a, b) == [parent EXCEPT ![a] = Find(parent, b)]

\* _UnionFind.union.
Union(parent, a, b) == [parent EXCEPT ![Find(parent, a)] = Find(parent, b)]

LastEdge(es) ==
    CHOOSE e \in es : \A f \in es \ {e} :
        Earlier(f[1].posting, e[1].posting) \/ (f[1].posting = e[1].posting /\ Earlier(f[2].posting, e[2].posting))

\* The parents once the edges are joined, one after the other.
Joined(edges) ==
    LET after[es \in SUBSET edges] ==
            IF es = {} THEN [n \in UNION {{e[1].id, e[2].id} : e \in edges} |-> n]
            ELSE LET e == LastEdge(es) IN Union(after[es \ {e}], e[1].id, e[2].id)
    IN  after[edges]

\* Each group has the account of the last edge it was made of, and the certainty of the
\* least certain one.
Groups(ts) ==
    LET edges == Edges(ts)
        parent == Joined(edges)
        of(root) == {e \in edges : Find(parent, e[1].id) = root}
    IN  {[key |-> UNION {{e[1].id, e[2].id} : e \in es},
          account |-> LastEdge(es)[1].account,
          certainty |-> Min({Certainty(e) : e \in es})] : es \in {of(Find(parent, e[1].id)) : e \in edges}}

\* _duplicate_suggestion_id.
GroupKey(g) == [kind |-> "duplicate", of |-> {<<i>> : i \in g.key}]

-----------------------------------------------------------------------------
(* The requests.                                                           *)

Init ==
    /\ present = Initial
    /\ linked = {}
    /\ merged = [k \in {} |-> {}]
    /\ dismissed = {}
    /\ shown = [pairs |-> {}, groups |-> {}]
    /\ decisions = 0
    /\ outdated = FALSE

\* get_transfer_suggestions and get_duplicate_suggestions.
Fetch ==
    /\ shown' = [pairs |-> {c \in Candidates(Resolved) : TransferKey(c) \notin dismissed},
                 groups |-> {g \in Groups(Resolved) : GroupKey(g) \notin dismissed}]
    /\ UNCHANGED <<present, linked, merged, dismissed, decisions, outdated>>

Decides == decisions < MaxDecisions /\ decisions' = decisions + 1

\* post_transfer_link: anything but two free transactions, neither split, is refused.
CanLink(c) == {c[1].id, c[2].id} \cap (Linked \cup Split) = {}
Link(c) ==
    /\ Decides
    /\ CanLink(c)
    /\ linked' = linked \cup {{c[1].id, c[2].id}}
    /\ UNCHANGED <<present, merged, dismissed, shown, outdated>>

\* delete_transfer_link.
Unlink(l) ==
    /\ Decides
    /\ linked' = linked \ {l}
    /\ UNCHANGED <<present, merged, dismissed, shown, outdated>>

\* post_posting_merge: the decision recorded for the kept transaction is replaced.
Merge(g, kept) ==
    /\ Decides
    /\ merged' = [k \in DOMAIN merged \cup {kept} |-> IF k = kept THEN g.key \ {kept} ELSE merged[k]]
    /\ outdated' = (outdated \/ g.key \cap MergedAway # {})
    /\ UNCHANGED <<present, linked, dismissed, shown>>

\* delete_posting_merge.
Unmerge(kept) ==
    /\ Decides
    /\ merged' = [k \in DOMAIN merged \ {kept} |-> merged[k]]
    /\ UNCHANGED <<present, linked, dismissed, shown, outdated>>

\* put_dismissed_suggestion, of anything the client has on its screen.
Dismiss(key) ==
    /\ Decides
    /\ dismissed' = dismissed \cup {key}
    /\ UNCHANGED <<present, linked, merged, shown, outdated>>

\* delete_dismissed_suggestion.
Restore(key) ==
    /\ Decides
    /\ dismissed' = dismissed \ {key}
    /\ UNCHANGED <<present, linked, merged, shown, outdated>>

\* An import adds a transaction.
Arrive(t) ==
    /\ t.id \notin present
    /\ present' = present \cup {t.id}
    /\ UNCHANGED <<linked, merged, dismissed, shown, decisions, outdated>>

Next ==
    \/ Fetch
    \/ \E c \in shown.pairs : Link(c) \/ Dismiss(TransferKey(c))
    \/ \E g \in shown.groups : Dismiss(GroupKey(g)) \/ \E kept \in g.key : Merge(g, kept)
    \/ \E l \in linked : Unlink(l)
    \/ \E kept \in DOMAIN merged : Unmerge(kept)
    \/ \E key \in dismissed : Restore(key)
    \/ \E t \in Transactions : Arrive(t)

Spec == Init /\ [][Next]_vars

-----------------------------------------------------------------------------
(* Properties.                                                             *)

\* What is decided is about transactions there are; each is in one link at most.
TypeOK ==
    /\ present \subseteq {t.id : t \in Transactions}
    /\ \A l \in linked : l \subseteq present /\ Cardinality(l) = 2
    /\ \A l, m \in linked : l # m => l \cap m = {}
    /\ \A k \in DOMAIN merged : k \in present /\ merged[k] \subseteq present \ {k}
    /\ decisions \in 0..MaxDecisions

\* The groups are the connected parts of the likeness: each pair of alike transactions is
\* in one group, two groups share none, and no group falls apart into two with nothing
\* alike between them.
GroupsAreConnected(ts) ==
    LET gs == Groups(ts)
        alike == {{e[1].id, e[2].id} : e \in Edges(ts)}
    IN  /\ \A e \in alike : \E g \in gs : e \subseteq g.key
        /\ \A g, h \in gs : g # h => g.key \cap h.key = {}
        /\ \A g \in gs : \A part \in SUBSET g.key \ {{}, g.key} :
              \E e \in alike : e \subseteq g.key /\ e \cap part # {} /\ ~(e \subseteq part)

\* A group of transactions of one account each is of one account; any group is as certain
\* as its least certain pair, and once it is merged, whichever is kept is in no group.
GroupsCanBeMerged(ts) ==
    \A g \in Groups(ts) :
        LET all == {t \in ts : t.id \in g.key}
            accounts(t) == {t.legs[n].account : n \in DOMAIN t.legs}
        IN  /\ (\A t \in all : Cardinality(accounts(t)) = 1) => \A t \in all : accounts(t) = {g.account}
            /\ \A e \in Edges(all) : g.certainty <= Certainty(e)
            /\ \A t \in all : \A h \in Groups((ts \ all) \cup {t}) : t.id \notin h.key

\* Of what was merged, something is left: a transaction that is left out is stood for by
\* one that is not, or by one that another stands for in its turn.
EventsStay ==
    \A gone \in SUBSET MergedAway \ {{}} :
        \E t \in gone, kept \in DOMAIN merged : t \in merged[kept] /\ kept \notin gone

\* What comes back, when a decision is undone or replaced by a later one that keeps the same
\* transaction, is proposed again beside it.
WhatComesBackIsProposed ==
    \A kept \in DOMAIN merged \ MergedAway' :
        \A t \in merged[kept] \ MergedAway' : \E g \in Groups(Resolved') : {t, kept} \subseteq g.key

\* Whatever was imported, linked, merged, dismissed and restored before, the groups a
\* client is shown hold together.
SuggestionsHoldTogether ==
    /\ shown' # shown => GroupsAreConnected(Resolved) /\ GroupsCanBeMerged(Resolved)
    /\ ~outdated' => WhatComesBackIsProposed
=============================================================================

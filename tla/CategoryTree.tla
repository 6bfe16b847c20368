---------------------------- MODULE CategoryTree ----------------------------
(***************************************************************************)
(* One user's category tree: create, rename with merge, delete, the rows   *)
(* that stay behind as tombstones, and what else names a category.         *)
(*                                                                         *)
(* A key is the path of names a row was created with: <<n>> for a          *)
(* top-level category, <<n, m>> for a subcategory, <<n, Other>> for the    *)
(* catch-all of <<n>>.  A rename changes the name of a row, never its key, *)
(* and a merge may give a subcategory another parent.  Names stand for     *)
(* their lower-case form and for their slug, and all categories have one   *)
(* classification: categories of two classifications never meet.           *)
(*                                                                         *)
(* Budgets and category patterns are `planned`: both need a category and   *)
(* lose their row with it.  Split legs are `legs`: both fields may be      *)
(* NULL.  A posting holds the pair it was `imported` under, which nothing  *)
(* rewrites, and may have an override, saved by a function that commits.   *)
(*                                                                         *)
(* Requests do not overlap here; a request may stop after its first        *)
(* commit.  `enforced` says whether the connection's role is subject to    *)
(* row-level security: then nothing is visible, and nothing may be         *)
(* inserted, after a commit in the middle of a request, because the        *)
(* setting the policies read is local to the transaction.                  *)
(***************************************************************************)
EXTENDS Naturals, Sequences

CONSTANTS
    Names,          \* category names
    Other,          \* the name of a catch-all subcategory
    NoKey,          \* NULL
    Postings,       \* postings that may be imported and overridden
    Seed,           \* the keys of the default tree
    MaxRequests     \* how many requests are served after the first

VARIABLES
    rows,           \* the categories table: key to name, parent, tombstone
    planned,        \* pairs budgets and patterns name
    legs,           \* pairs split legs name
    overrides,      \* posting to the pair its override sets
    imported,       \* posting to the pair it was imported under
    enforced,       \* is the role subject to row-level security
    answer,         \* history: the last request and how it ended
    lapses,         \* history: what has left the tree short of what an edit makes it
    requests        \* how many requests have been served since the first

refVars == <<planned, legs, overrides>>
vars == <<rows, planned, legs, overrides, imported, enforced, answer, lapses, requests>>

NoPair == <<NoKey, NoKey>>

TopKeys == {<<n>> : n \in Names}
SubKeys == {<<n, m>> : n \in Names, m \in Names \cup {Other}}
Keys == TopKeys \cup SubKeys
Pairs == (TopKeys \cup {NoKey}) \X (SubKeys \cup {NoKey})

CatchAll(top) == <<top[1], Other>>
IsCatchAll(k) == Len(k) = 2 /\ k[2] = Other

ASSUME NamesAssumption == Other \notin Names /\ NoKey \notin Keys

\* default_categories: parents come with their children, and the tree is normalised.
ASSUME SeedAssumption ==
    /\ Seed \subseteq Keys
    /\ \A k \in Seed : <<k[1]>> \in Seed
    /\ \A n \in Names : <<n, Other>> \in Seed <=> \E m \in Names : <<n, m>> \in Seed

ASSUME RequestsAssumption == MaxRequests \in Nat

-----------------------------------------------------------------------------
(* Trees: what load_categories returns, key to name and parent.            *)

Restrict(f, S) == [k \in DOMAIN f \cap S |-> f[k]]
Node(name, parent) == [name |-> name, parent |-> parent]
With(t, k, node) == [j \in DOMAIN t \cup {k} |-> IF j \in DOMAIN t THEN t[j] ELSE node]

Retired(rs) == {k \in DOMAIN rs : rs[k].retired}
Tree(rs) == [k \in DOMAIN rs \ Retired(rs) |-> Node(rs[k].name, rs[k].parent)]

Children(t, p) == {k \in DOMAIN t : t[k].parent = p}
RealChildren(t, p) == {k \in Children(t, p) : ~IsCatchAll(k)}

\* A parent with a real child has a catch-all, a parent without has none.
Normalize_CatchAllStays(t) ==
    LET missing == {p \in DOMAIN t : RealChildren(t, p) # {} /\ CatchAll(p) \notin DOMAIN t}
    IN  [k \in DOMAIN t \cup {CatchAll(p) : p \in missing} |->
            IF k \in DOMAIN t THEN t[k] ELSE Node(Other, <<k[1]>>)]
Normalize(t) ==
    LET parents == {p \in DOMAIN t : Children(t, p) # {}}
        missing == {p \in parents : RealChildren(t, p) # {} /\ CatchAll(p) \notin DOMAIN t}
        alone   == {CatchAll(p) : p \in {q \in parents : RealChildren(t, q) = {}}}
    IN  [k \in (DOMAIN t \ alone) \cup {CatchAll(p) : p \in missing} |->
            IF k \in DOMAIN t THEN t[k] ELSE Node(Other, <<k[1]>>)]

\* The category a rename folds into, at most one.
MergeTargets(t, k, name) ==
    {c \in DOMAIN t \ {k} : /\ ~IsCatchAll(c)
                            /\ t[c].name = name
                            /\ t[c].parent = t[k].parent}

\* The tree after a rename that merges nothing.
Renamed(t, k, name) == Normalize([t EXCEPT ![k].name = name])

\* Where a merge of k into target sends every key it removes: a child goes to
\* the target's child of the same name, a catch-all to the target's catch-all.
MergeRemap(t, k, target) ==
    LET kids == {c \in Children(t, k) :
                    IsCatchAll(c) \/ \E d \in RealChildren(t, target) : t[d].name = t[c].name}
    IN  [c \in {k} \cup kids |->
            CASE c = k                   -> target
              [] c # k /\ IsCatchAll(c) -> CatchAll(target)
              [] OTHER                   -> CHOOSE d \in RealChildren(t, target) : t[d].name = t[c].name]

\* The tree after the merge: what was not merged away moves under the target.
Merged(t, k, target) ==
    LET gone == DOMAIN MergeRemap(t, k, target)
    IN  Normalize([c \in DOMAIN t \ gone |->
            IF t[c].parent = k THEN Node(t[c].name, target) ELSE t[c]])

\* The keys a delete names, and the tree it leaves: the catch-all left alone goes too.
Named(t, k) == {k} \cup Children(t, k)
Remaining(t, k) == Normalize(Restrict(t, DOMAIN t \ Named(t, k)))
Leaving(t, k) == DOMAIN t \ DOMAIN Remaining(t, k)

-----------------------------------------------------------------------------
(* The table.                                                              *)

Live(name, parent) == [name |-> name, parent |-> parent, retired |-> FALSE, successor |-> NoKey]

\* merge_by_natural_key of the rows of t: every row written is live again.
Upsert(rs, t) ==
    [k \in DOMAIN rs \cup DOMAIN t |->
        IF k \in DOMAIN t THEN Live(t[k].name, t[k].parent) ELSE rs[k]]

\* upsert_and_prune: the live rows not in t are deleted, ON DELETE SET NULL.
Replace(rs, t) ==
    LET kept == Restrict(Upsert(rs, t), DOMAIN t \cup Retired(rs))
    IN  [k \in DOMAIN kept |->
            IF kept[k].successor \in DOMAIN kept THEN kept[k] ELSE [kept[k] EXCEPT !.successor = NoKey]]

\* Follow the mapping to a key that is not itself being retired: the one in every set
\* that holds k and, with a key, its successor.  No mapping here goes in a circle.
Terminal(successors, k) ==
    LET keys == {k} \cup DOMAIN successors \cup {successors[j] : j \in DOMAIN successors}
        Follows(S) == \A j \in S \cap DOMAIN successors : successors[j] \in S
    IN  CHOOSE end \in keys \ DOMAIN successors :
            \A S \in SUBSET keys : k \in S /\ Follows(S) => end \in S

\* No retired row keeps a successor.
Retire_MissingIsNull(rs, successors) ==
    [k \in DOMAIN rs |->
        IF k \in DOMAIN successors \/ rs[k].successor \in DOMAIN successors
        THEN [rs[k] EXCEPT !.retired = TRUE, !.successor = NoKey]
        ELSE rs[k]]

\* retire_categories: what pointed at a retired row points at its successor.
Retire(rs, successors) ==
    [k \in DOMAIN rs |->
        IF k \in DOMAIN successors
        THEN [rs[k] EXCEPT !.retired = TRUE, !.successor = Terminal(successors, k)]
        ELSE IF rs[k].successor \in DOMAIN successors
        THEN [rs[k] EXCEPT !.successor = Terminal(successors, rs[k].successor)]
        ELSE rs[k]]

\* What a key resolves to, one hop: load_category_redirects.
Resolve(rs, k) == IF k \in DOMAIN rs /\ rs[k].retired THEN rs[k].successor ELSE k
ResolvePair(rs, pair) == <<Resolve(rs, pair[1]), Resolve(rs, pair[2])>>

\* The foreign keys of one pair: both rows exist and the second is a child of the first.
PairHolds(rs, pair) ==
    /\ pair[1] \in DOMAIN rs \cup {NoKey}
    /\ pair[2] # NoKey => /\ pair[2] \in DOMAIN rs
                          /\ rs[pair[2]].parent = pair[1]

\* Every foreign key of a table content, and the parents' own.
KeysHold(rs, plans, splits, sets) ==
    /\ \A pair \in plans \cup splits : PairHolds(rs, pair)
    /\ \A p \in Postings : PairHolds(rs, sets[p]) /\ PairHolds(rs, imported[p])
    /\ \A k \in DOMAIN rs : rs[k].parent # NoKey => rs[k].parent \in DOMAIN rs

-----------------------------------------------------------------------------
(* References.                                                             *)

Follow(map, k) == IF k \in DOMAIN map THEN map[k] ELSE k
FollowPair(map, pair) == <<Follow(map, pair[1]), Follow(map, pair[2])>>
Clearing(gone) == [k \in gone |-> NoKey]

\* A merge repoints all three; a delete drops the planned rows of a category that goes.
Repoint(map, pairs) == {FollowPair(map, pair) : pair \in pairs}
Uncategorize(gone, pairs) ==
    Repoint(Clearing(gone), {pair \in pairs : pair[1] \notin gone})

\* The overrides an edit rewrites, those that name a category the mapping names.
Changed_Everything(map) == {p \in Postings : overrides[p] # NoPair}
Changed_CategoryOnly(map) == {p \in Postings : overrides[p][1] \in DOMAIN map}
Changed(map) == {p \in Postings : {overrides[p][1], overrides[p][2]} \cap DOMAIN map # {}}
OverridesAfter(map) == [p \in Postings |-> FollowPair(map, overrides[p])]

TypeOK ==
    /\ DOMAIN rows \subseteq Keys
    /\ \A k \in DOMAIN rows :
          rows[k] \in [name : Names \cup {Other}, parent : TopKeys \cup {NoKey},
                       retired : BOOLEAN, successor : Keys \cup {NoKey}]
    /\ planned \subseteq Pairs
    /\ legs \subseteq Pairs
    /\ overrides \in [Postings -> Pairs]
    /\ imported \in [Postings -> Pairs]
    /\ enforced \in BOOLEAN
    /\ lapses \subseteq {"stopped", "minted"}
    /\ requests \in 0..MaxRequests

Nothing == [code |-> "none", op |-> "none", key |-> NoKey, name |-> NoKey]

Init ==
    /\ rows = << >>
    /\ planned = {}
    /\ legs = {}
    /\ overrides = [p \in Postings |-> NoPair]
    /\ imported = [p \in Postings |-> NoPair]
    /\ enforced \in BOOLEAN
    /\ answer = Nothing
    /\ lapses = {}
    /\ requests = 0

-----------------------------------------------------------------------------
(* Requests.                                                               *)

Served == requests < MaxRequests /\ requests' = requests + 1

\* The request ends with this code: "half" is an error after the first commit,
\* "hollow" a 200 of a request whose second half did nothing.
Answers(code, op, k, name) ==
    answer' = [code |-> code, op |-> op, key |-> k, name |-> name]

\* A request that changed nothing.
Refused(op, k, name) ==
    /\ Answers("500", op, k, name)
    /\ UNCHANGED <<rows, planned, legs, overrides, imported, enforced, lapses>>

\* The first request of a new user seeds the default tree and commits; the
\* request then reads on, without the setting if policies are enforced.
FirstContact ==
    /\ DOMAIN rows = {}
    /\ UNCHANGED requests
    /\ rows' = [k \in Seed |-> Live(k[Len(k)], IF Len(k) = 1 THEN NoKey ELSE <<k[1]>>)]
    /\ Answers("200", "seed", NoKey, NoKey)
    /\ UNCHANGED <<planned, legs, overrides, imported, enforced, lapses>>

\* Write the added categories of a tree, without a prune, and commit.
Add(op, k, name, t) ==
    LET added == Restrict(t, {c \in DOMAIN t : c \notin DOMAIN Tree(rows)})
    IN  /\ rows' = Upsert(rows, added)
        /\ Answers("200", op, k, name)
        /\ UNCHANGED <<planned, legs, overrides, imported, enforced, lapses>>

\* POST /categories: 409 for a name or a slug in use leaves everything as it is.
PostCategory(n) ==
    LET t == Tree(rows)
    IN  /\ Served
        /\ DOMAIN rows # {}
        /\ \A k \in Children(t, NoKey) : t[k].name # n
        /\ <<n>> \notin DOMAIN t
        /\ Add("create", <<n>>, n, Normalize(With(t, <<n>>, Node(n, NoKey))))

\* POST /categories/{parent_id}/subcategories.
PostSubcategory(p, n) ==
    LET t == Tree(rows)
        k == <<p[1], n>>
    IN  /\ Served
        /\ \A c \in Children(t, p) : t[c].name # n
        /\ k \notin DOMAIN t
        /\ Add("create", k, n, Normalize(With(t, k, Node(n, p))))

\* The write half of rename and delete.  `minted`, the references and the
\* overrides come first; if an override changed, saving it commits them.  What
\* is left needs the setting: without it nothing is found to retire, and the
\* tree cannot be written unless it is empty.
Edit(op, k, name, minted, plans, splits, map, t) ==
    LET sets  == OverridesAfter(map)
        final == Replace(Retire(minted, map), t)
        known == \A c \in DOMAIN map : map[c] \in DOMAIN minted \cup {NoKey}
        holds == known /\ KeysHold(final, plans, splits, sets)
    IN  IF ~KeysHold(minted, plans, splits, sets)
        THEN Refused(op, k, name)
        ELSE IF Changed(map) = {}
        THEN IF ~holds
             THEN Refused(op, k, name)
             ELSE /\ rows' = final
                  /\ planned' = plans
                  /\ legs' = splits
                  /\ Answers("200", op, k, name)
                  /\ UNCHANGED <<overrides, imported, enforced, lapses>>
        ELSE /\ planned' = plans
             /\ legs' = splits
             /\ overrides' = sets
             /\ UNCHANGED <<imported, enforced>>
             /\ \/ /\ rows' = minted
                   /\ IF enforced /\ DOMAIN t = {}
                      THEN Answers("hollow", op, k, name)
                      ELSE Answers("half", op, k, name)
                   /\ lapses' = lapses \cup {"stopped"}
                \/ /\ ~enforced
                   /\ holds
                   /\ rows' = final
                   /\ Answers("200", op, k, name)
                   /\ UNCHANGED lapses

\* DELETE /categories/{category_id}.
Delete(k) ==
    LET t    == Tree(rows)
        gone == Leaving(t, k)
    IN  /\ Served
        /\ Edit("delete", k, NoKey, rows,
                Uncategorize(gone, planned), Repoint(Clearing(gone), legs),
                Clearing(gone), Remaining(t, k))

\* POST /categories/{category_id}/rename: the rows the plan introduces come first.
Rename(k, name) ==
    LET t      == Tree(rows)
        merges == MergeTargets(t, k, name) # {}
        target == CHOOSE c \in MergeTargets(t, k, name) : TRUE
        plan   == IF merges THEN Merged(t, k, target) ELSE Renamed(t, k, name)
        remap  == IF merges THEN MergeRemap(t, k, target) ELSE << >>
        minted == Upsert(rows, Restrict(plan, DOMAIN plan \ DOMAIN t))
    IN  /\ Served
        /\ Edit("rename", k, name, minted, Repoint(remap, planned), Repoint(remap, legs),
                remap, plan)

\* The tree with the categories a file names and nobody has: matched by name under
\* its parent, else minted under its own slug.
Minted(t, n, m) ==
    LET top  == {k \in Children(t, NoKey) : t[k].name = n}
        p    == IF top # {} THEN CHOOSE k \in top : TRUE ELSE <<n>>
        t1   == With(t, p, Node(n, NoKey))
        subs == {k \in Children(t1, p) : t1[k].name = m}
        s    == IF m = NoKey THEN NoKey
                ELSE IF subs # {} THEN CHOOSE k \in subs : TRUE ELSE <<p[1], m>>
    IN  [tree |-> IF s = NoKey THEN t1 ELSE With(t1, s, Node(m, p)),
         pair |-> <<p, s>>,
         free |-> /\ top # {} \/ p \notin DOMAIN t
                  /\ s = NoKey \/ subs # {} \/ s \notin DOMAIN t1]

\* A canonical import of one posting.  New categories are written and committed
\* first; under enforced policies the ledger is then written without the setting
\* and the request fails.  (A slug in use would be given a suffix: not modelled.)
Import(p, n, m) ==
    LET file == Minted(Tree(rows), n, m)
        all  == Normalize(file.tree)
    IN  /\ Served
        /\ DOMAIN rows # {}
        /\ imported[p] = NoPair
        /\ file.free
        /\ IF DOMAIN file.tree = DOMAIN Tree(rows)
           THEN /\ rows' = rows
                /\ imported' = [imported EXCEPT ![p] = file.pair]
                /\ Answers("200", "import", NoKey, NoKey)
                /\ UNCHANGED lapses
           ELSE /\ rows' = Upsert(rows, all)
                /\ UNCHANGED lapses
                /\ \/ /\ Answers("half", "import", NoKey, NoKey)
                      /\ UNCHANGED imported
                   \/ /\ ~enforced
                      /\ imported' = [imported EXCEPT ![p] = file.pair]
                      /\ Answers("200", "import", NoKey, NoKey)
        /\ UNCHANGED <<planned, legs, overrides, enforced>>

\* Categories a file introduces for postings already there: no normalisation.
MintFromFile(n, m) ==
    LET file == Minted(Tree(rows), n, m)
        new  == DOMAIN file.tree \ DOMAIN Tree(rows)
    IN  /\ Served
        /\ DOMAIN rows # {}
        /\ file.free
        /\ new # {}
        /\ rows' = Upsert(rows, Restrict(file.tree, new))
        /\ lapses' = lapses \cup {"minted"}
        /\ Answers("200", "file", NoKey, NoKey)
        /\ UNCHANGED <<planned, legs, overrides, imported, enforced>>

\* A pair the client can offer: a live top-level category and a child of it, or no child.
LivePairs_AnyCategory == {<<k, NoKey>> : k \in DOMAIN Tree(rows)}
LivePairs ==
    LET t == Tree(rows)
    IN  UNION {{p} \X (Children(t, p) \cup {NoKey}) : p \in Children(t, NoKey)}

\* An override, a budget or pattern, a split leg is saved.
Refer(pair) ==
    /\ Served
    /\ \/ \E p \in Postings :
             /\ overrides' = [overrides EXCEPT ![p] = pair]
             /\ UNCHANGED <<planned, legs>>
       \/ planned' = planned \cup {pair} /\ UNCHANGED <<legs, overrides>>
       \/ legs' = legs \cup {pair} /\ UNCHANGED <<planned, overrides>>
    /\ Answers("200", "refer", NoKey, NoKey)
    /\ UNCHANGED <<rows, imported, enforced, lapses>>

Next ==
    \/ FirstContact
    \/ \E n \in Names : PostCategory(n)
    \/ \E p \in Children(Tree(rows), NoKey), n \in Names : PostSubcategory(p, n)
    \/ \E k \in DOMAIN Tree(rows) : Delete(k) \/ \E n \in Names : Rename(k, n)
    \/ \E p \in Postings, n \in Names, m \in Names \cup {NoKey} : Import(p, n, m)
    \/ \E n \in Names, m \in Names \cup {NoKey} : MintFromFile(n, m)
    \/ \E pair \in LivePairs : Refer(pair)

Spec == Init /\ [][Next]_vars

-----------------------------------------------------------------------------
(* Properties.                                                             *)

\* A tombstone names a live category or nothing, so that one hop is enough:
\* the docstring of retire_categories, "a tombstone can never name another
\* tombstone".  Merges, deletes and recreations come in any order.
NoTombstoneNamesATombstone ==
    \A k \in Retired(rows) : rows[k].successor \notin Retired(rows)

\* As long as no edit has stopped after its first commit, nothing names a retired
\* category: no tombstone, so that one hop is enough, and no budget, pattern, split leg or
\* override: an edit that takes a category out finds every reference.
NothingNamesTheRetired ==
    "stopped" \notin lapses =>
    LET named == UNION {{pair[1], pair[2]} : pair \in planned \cup legs \cup
                                                {overrides[p] : p \in Postings}}
    IN  /\ NoTombstoneNamesATombstone
        /\ named \cap Retired(rows) = {}

\* A live subcategory hangs under a live top-level category, two live siblings
\* never share a name, and a category has a catch-all exactly when it has a real
\* subcategory, unless an edit stopped half way or a file's categories were added
\* without normalising the tree.
LiveTreeIsWhole ==
    LET t == Tree(rows)
    IN  /\ \A k \in DOMAIN t : t[k].parent # NoKey =>
                                  t[k].parent \in DOMAIN t /\ t[t[k].parent].parent = NoKey
        /\ \A j, k \in DOMAIN t : j # k /\ t[j].parent = t[k].parent /\ ~IsCatchAll(j) /\ ~IsCatchAll(k)
                                    => t[j].name # t[k].name
        /\ lapses = {} => \A p \in Children(t, NoKey) :
                        CatchAll(p) \in DOMAIN t <=> RealChildren(t, p) # {}

\* Where a request sends the categories that leave the tree.
Effect(t, op, k, name) ==
    CASE op = "delete" -> Clearing(Leaving(t, k))
      [] op = "rename" /\ MergeTargets(t, k, name) # {} ->
            MergeRemap(t, k, CHOOSE c \in MergeTargets(t, k, name) : TRUE)
      [] OTHER -> << >>

\* A request moves exactly the categories it is about: what a posting resolves to
\* after a 200 is what it resolved to before, followed through the merge or the
\* delete; after any other answer nothing resolves elsewhere.  A category that is
\* back in the tree resolves to itself, and a catch-all merged or deleted on its
\* own is put back at once.  A catch-all with no real sibling, which only an edit
\* that stopped leaves behind, goes with the next edit, and what resolved to it
\* resolves to nothing.
ResolutionStep ==
    LET effect == Effect(Tree(rows), answer'.op, answer'.key, answer'.name)
        back   == DOMAIN Tree(rows') \ DOMAIN Tree(rows)
        Left(k) == IF "stopped" \in lapses /\ k # NoKey /\ k \notin DOMAIN rows' /\ IsCatchAll(k)
                   THEN NoKey ELSE k
    IN  \A k \in DOMAIN rows \cap DOMAIN rows' :
            LET now == Resolve(rows', k)
            IN  IF k \in back THEN now = k
                ELSE IF answer'.code = "200" THEN now = Left(Follow(effect, Resolve(rows, k)))
                ELSE now = Resolve(rows, k)

OfCatchAll == answer'.key # NoKey /\ IsCatchAll(answer'.key)

ResolutionFollowsRequests == [][OfCatchAll \/ ResolutionStep]_vars

\* A request that stopped after its first commit is finished by repeating it: its
\* references are already moved, nothing commits early, and it answers 200, unless
\* it moves a subcategory that a posting was imported under, which the posting's
\* foreign key on (subcategory, category) refuses every time.
SameRequest == /\ answer'.op = answer.op
               /\ answer'.key = answer.key
               /\ answer'.name = answer.name

PinnedSubcategory(k) == \E p \in Postings : imported[p][1] = k /\ imported[p][2] # NoKey

OneRetrySuffices ==
    [][/\ answer.code = "half"
       /\ answer.op \in {"delete", "rename"}
       /\ SameRequest
       => \/ answer'.code = "200"
          \/ answer.op = "rename" /\ PinnedSubcategory(answer.key)]_vars

=============================================================================

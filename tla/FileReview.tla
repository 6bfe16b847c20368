----------------------------- MODULE FileReview -----------------------------
(***************************************************************************)
(* A file of transactions with categories in it, kept by hand: imported as *)
(* new postings (importers/canonical/csv.py), or matched with the postings *)
(* that are already there so that its categories can be copied onto them   *)
(* (importers/categorize_from_file.py).  The second takes two requests: a  *)
(* preview the user ticks rows of, and an apply that matches the file      *)
(* again; imports, edits and renames may come between.                     *)
(*                                                                         *)
(* A name is a word and how it is spelled: names are compared without the  *)
(* spelling.  A category's id is the slug of its first name, with a suffix *)
(* if that is taken.  How alike two descriptions are is a given number.    *)
(***************************************************************************)
EXTENDS Integers, FiniteSets, FiniteSetsExt, Sequences, TLC

CONSTANTS
    Files,          \* sequences of rows [reads, day, amount, about, top, sub]
    Renamings,      \* what a user may rename on the way: [tops, subs], both partial
    FirstPostings,  \* the postings there are at first
    Feed,           \* postings an import of bank statements may add
    FirstTree,      \* the categories there are at first
    NewNames,       \* what a category may be renamed to
    NoName,
    Alike(_, _),    \* of two descriptions, from 0 to MostAlike
    MostAlike, Window,
    Clients, MaxChanges

VARIABLES
    tree,           \* id of a category to its name and parent
    postings,       \* those a row may be matched with, with the pair they were imported with
    picked,         \* id of a posting to the pair of its override
    client,         \* what each client sees, and where its request is
    changes         \* how many requests changed something

dataVars == <<tree, postings, picked>>
vars == <<dataVars, client, changes>>

NoCategory == <<>>
NoPair == <<NoCategory, NoCategory>>
NoRenaming == CHOOSE r \in Renamings : DOMAIN r.tops = {} /\ DOMAIN r.subs = {}

Word(n) == n.word
Top(t) == {c \in DOMAIN t : t[c].parent = NoCategory}
Coherent(pair, t) ==
    \/ pair = NoPair
    \/ pair[1] \in Top(t) /\ (pair[2] # NoCategory => pair[2] \in DOMAIN t /\ t[pair[2]].parent = pair[1])

-----------------------------------------------------------------------------
(* Reading a file.  A row that has no readable date or amount is skipped;  *)
(* with more than a fifth of them the file is refused.                     *)

Parsed(f) == {i \in DOMAIN f : f[i].reads}
Readable(f) == f # <<>> /\ 10 * Cardinality(Parsed(f)) >= 8 * Len(f)

\* The names of a row, once renamed.
EffectiveTop(f, i, r) == IF f[i].top \in DOMAIN r.tops THEN r.tops[f[i].top] ELSE f[i].top
EffectiveSub(f, i, r) ==
    LET raw == <<f[i].top, f[i].sub>> IN IF raw \in DOMAIN r.subs THEN r.subs[raw] ELSE f[i].sub

WithTop(f) == {i \in Parsed(f) : f[i].top # NoName}
WithSub(f) == {i \in WithTop(f) : f[i].sub # NoName}

\* _unique_category_id.
Unique(base, t) == Append(base, Min({k \in 1..(Cardinality(DOMAIN t) + 1) : Append(base, k) \notin DOMAIN t}))

\* _match_existing_category, or the id of a new one.
Found(word, parent, t) == {c \in DOMAIN t : t[c].parent = parent /\ Word(t[c].name) = word}
IdOf(word, parent, base, t) ==
    IF Found(word, parent, t) # {} THEN CHOOSE c \in Found(word, parent, t) : TRUE ELSE Unique(base, t)

Classification(f, group) ==
    IF 2 * Cardinality({j \in group : f[j].amount < 0}) >= Cardinality(group) THEN "expense" ELSE "income"

\* Of some rows, one of the group that comes up last in the file.
LatestOf(rows, group) == CHOOSE j \in rows : \A k \in rows : Min(group[k]) <= Min(group[j])

\* _resolve_top_categories: rows of one name are a group and become one category, an
\* expense if most of them are; the rows spelled like row i have that of the last group
\* one of them belongs to.
Tops(f, r, t) ==
    LET rows == WithTop(f)
        word == [i \in rows |-> Word(EffectiveTop(f, i, r))]
        group == [i \in rows |-> {j \in rows : word[j] = word[i]}]
        made == [i \in rows |-> IdOf(word[i], NoCategory, <<Classification(f, group[i]), word[i]>>, t)]
    IN  [made |-> made,
         id |-> [i \in rows |-> made[LatestOf({j \in rows : Word(f[j].top) = Word(f[i].top)}, group)]]]

\* _resolve_subcategories: in the same way, each under the category of its row.
Subs(f, r, t, topId) ==
    LET rows == WithSub(f)
        key == [i \in rows |-> <<topId[i], Word(EffectiveSub(f, i, r))>>]
        group == [i \in rows |-> {j \in rows : key[j] = key[i]}]
        made == [i \in rows |-> IdOf(key[i][2], topId[i], Append(topId[i], key[i][2]), t)]
        alike(i) == {j \in rows : Word(f[j].top) = Word(f[i].top) /\ Word(f[j].sub) = Word(f[i].sub)}
    IN  [made |-> made, id |-> [i \in rows |-> made[LatestOf(alike(i), group)]]]

\* resolve_categorization_rows: the pair of each row, and the categories to create.
Resolved(f, r, t) ==
    LET tops == Tops(f, r, t)
        subs == Subs(f, r, t, tops.id)
        last(made, c) == Max({i \in DOMAIN made : made[i] = c})
        created(made) == {made[i] : i \in DOMAIN made} \ DOMAIN t
    IN  [pair |-> [i \in Parsed(f) |-> IF i \in WithSub(f) THEN <<tops.id[i], subs.id[i]>>
                                       ELSE IF i \in WithTop(f) THEN <<tops.id[i], NoCategory>> ELSE NoPair],
         new |-> [c \in created(tops.made) |-> [name |-> EffectiveTop(f, last(tops.made, c), r), parent |-> NoCategory]]
                   @@ [c \in created(subs.made) |-> [name |-> EffectiveSub(f, last(subs.made, c), r),
                                                    parent |-> tops.id[last(subs.made, c)]]]]

-----------------------------------------------------------------------------
(* Matching rows and postings.                                             *)

Distance(a, b) == IF a < b THEN b - a ELSE a - b

\* 0.6 of how alike the descriptions are and 0.4 of how close the days, scaled.
Score(row, p) == 3 * Alike(row.about, p.about) * Window + 2 * (Window - Distance(row.day, p.day)) * MostAlike

Candidates(f, ps) ==
    {[row |-> i, posting |-> p.id, day |-> p.day, score |-> Score(f[i], p)] :
        i \in Parsed(f), p \in ps}
Scored(f, ps) ==
    {c \in Candidates(f, ps) :
        LET p == CHOOSE q \in ps : q.id = c.posting
        IN  /\ p.amount = f[c.row].amount /\ Distance(p.day, f[c.row].day) <= Window
            /\ 10 * Alike(f[c.row].about, p.about) >= 3 * MostAlike}

\* The order they are taken in: the best first, then as they were met.
Before(a, b) ==
    \/ a.score > b.score
    \/ (a.score = b.score /\ a.row < b.row)
    \/ a.score = b.score /\ a.row = b.row /\ (a.day < b.day \/ (a.day = b.day /\ a.posting < b.posting))

Clash(a, b) == a.row = b.row \/ a.posting = b.posting

\* Each row in its turn takes the best posting that is left.
First_RowByRow(cs) ==
    CHOOSE c \in cs : \A d \in cs \ {c} : c.row < d.row \/ (c.row = d.row /\ Before(c, d))

First(cs) == CHOOSE c \in cs : \A d \in cs \ {c} : Before(c, d)

\* The first takes its row and its posting, and so on with what is left.
Matching(f, ps) ==
    LET taken[left \in SUBSET Scored(f, ps)] ==
            IF left = {} THEN {} ELSE {First(left)} \cup taken[{c \in left : ~Clash(c, First(left))}]
    IN  taken[Scored(f, ps)]

\* preview_categorize_from_file.
Matches(f, pair, ps) ==
    LET found == Matching(f, ps)
        of(i) == {m.posting : m \in {n \in found : n.row = i}}
    IN  [i \in Parsed(f) |-> [posting |-> IF of(i) = {} THEN 0 ELSE CHOOSE p \in of(i) : TRUE, pair |-> pair[i]]]

-----------------------------------------------------------------------------
(* The two requests of a client.                                           *)

Away == [at |-> "away", file |-> <<>>, renaming |-> NoRenaming, shown |-> <<>>, ticked |-> {},
         write |-> {}, stale |-> FALSE]

Init ==
    /\ tree = FirstTree
    /\ postings = FirstPostings
    /\ picked = [p \in {} |-> NoPair]
    /\ client = [c \in Clients |-> Away]
    /\ changes = 0

Preview(c, f) ==
    /\ client[c].at = "away"
    /\ Readable(f)
    /\ client' = [client EXCEPT ![c] = [Away EXCEPT !.at = "looking", !.file = f,
                                                    !.shown = Matches(f, Resolved(f, NoRenaming, tree).pair, postings)]]
    /\ UNCHANGED <<dataVars, changes>>

\* Request of client c has changed data: what the others see is stale.
Changes(c) ==
    /\ changes < MaxChanges
    /\ changes' = changes + 1
    /\ client' = [d \in Clients |-> IF d = c THEN client[d] ELSE [client[d] EXCEPT !.stale = TRUE]]

\* The rows that are ticked, by their number in the file.
Wanted(f, ticked) == Parsed(f) \cap ticked

\* post_categorize_from_file_apply up to its commit of the new categories.
Apply(c, ticked, r) ==
    LET f == client[c].file
        made == Resolved(f, r, tree)
        all == Matches(f, made.pair, postings)
        write == {[posting |-> all[i].posting, pair |-> all[i].pair, row |-> i] :
                    i \in {j \in Wanted(f, ticked) : all[j].posting # 0 /\ all[j].pair # NoPair}}
    IN  /\ client[c].at = "looking" /\ ticked \subseteq Parsed(f)
        /\ changes < MaxChanges /\ changes' = changes + 1
        /\ tree' = tree @@ made.new
        /\ client' = [d \in Clients |->
                        IF d = c THEN [client[c] EXCEPT !.at = "applying", !.renaming = r, !.ticked = ticked,
                                                        !.write = write]
                        ELSE IF made.new = <<>> THEN client[d] ELSE [client[d] EXCEPT !.stale = TRUE]]
        /\ UNCHANGED <<postings, picked>>

\* The override after a confirmed row: a row without a subcategory leaves that alone.
Patched(old, pair) == <<pair[1], IF pair[2] = NoCategory THEN old[2] ELSE pair[2]>>
Old(p) == IF p \in DOMAIN picked THEN picked[p] ELSE NoPair
After(write) ==
    [p \in DOMAIN picked \cup {w.posting : w \in write} |->
        IF \E w \in write : w.posting = p
        THEN Patched(Old(p), (CHOOSE w \in write : w.posting = p).pair) ELSE picked[p]]

\* apply_categorize_from_file, if every pair it makes is one the foreign key takes.
Save(c) ==
    /\ client[c].at = "applying"
    /\ \A w \in client[c].write : Coherent(After(client[c].write)[w.posting], tree)
    /\ picked' = After(client[c].write)
    /\ client' = [client EXCEPT ![c] = Away]
    /\ UNCHANGED <<tree, postings, changes>>

\* It does not, or the request ends for another reason: what was created stays.
Break(c) ==
    /\ client[c].at # "away"
    /\ client' = [client EXCEPT ![c] = Away]
    /\ UNCHANGED <<dataVars, changes>>

-----------------------------------------------------------------------------
(* What else happens.                                                      *)

\* Postings of a bank's statement.
Import(p) ==
    /\ p \notin postings
    /\ Changes("nobody")
    /\ postings' = postings \cup {p}
    /\ UNCHANGED <<tree, picked>>

\* The file itself is imported: ids are made of what a row says, so a row that is
\* there already is not added again.
RowId(f, i) == 100 + i
ImportFile(f, r) ==
    LET made == Resolved(f, r, tree)
        added == {[id |-> RowId(f, i), day |-> f[i].day, amount |-> f[i].amount, about |-> f[i].about,
                   pair |-> made.pair[i]] : i \in Parsed(f)}
    IN  /\ Readable(f)
        /\ Changes("nobody")
        /\ tree' = tree @@ made.new
        /\ postings' = postings \cup {p \in added : \A q \in postings : q.id # p.id}
        /\ UNCHANGED picked

\* put_posting_override, with a pair the client was offered.
Edit(p, pair) ==
    /\ p \in {q.id : q \in postings}
    /\ Coherent(pair, tree)
    /\ Changes("nobody")
    /\ picked' = [q \in DOMAIN picked \cup {p} |-> IF q = p THEN pair ELSE picked[q]]
    /\ UNCHANGED <<tree, postings>>

\* A category is renamed, to a name none beside it has: it keeps its id.
Rename(c, n) ==
    /\ c \in DOMAIN tree
    /\ Found(Word(n), tree[c].parent, tree) = {}
    /\ Changes("nobody")
    /\ tree' = [tree EXCEPT ![c].name = n]
    /\ UNCHANGED <<postings, picked>>

\* The user unticks all rows but one, or none.
Ticks(f) == {Parsed(f)} \cup {{i} : i \in Parsed(f)}

Next ==
    \/ \E c \in Clients :
          \/ \E f \in Files : Preview(c, f)
          \/ \E ticked \in Ticks(client[c].file), r \in Renamings : Apply(c, ticked, r)
          \/ Save(c) \/ Break(c)
    \/ \E p \in Feed : Import(p)
    \/ \E f \in Files, r \in Renamings : ImportFile(f, r)
    \/ \E p \in {q.id : q \in postings}, a, b \in DOMAIN tree \cup {NoCategory} : Edit(p, <<a, b>>)
    \/ \E c \in DOMAIN tree, n \in NewNames : Rename(c, n)

Spec == Init /\ [][Next]_vars

-----------------------------------------------------------------------------
(* Properties.                                                             *)

\* What the database holds is of its type: the pair of a posting or an override is a
\* category and one of its children, or none.
TypeOK ==
    /\ \A c \in DOMAIN tree : tree[c].parent \in Top(tree) \cup {NoCategory}
    /\ \A p \in postings : Coherent(p.pair, tree)
    /\ DOMAIN picked \subseteq {p.id : p \in postings}
    /\ \A p \in DOMAIN picked : Coherent(picked[p], tree)
    /\ changes \in 0..MaxChanges

\* No row and no posting are left with partners both would be better off without: a
\* stable matching.
MatchingIsStable(f) ==
    LET all == Scored(f, postings)
        found == Matching(f, postings)
    IN  /\ \A a, b \in found : a # b => ~Clash(a, b)
        /\ \A c \in all \ found : \E d \in found : Clash(c, d) /\ d.score >= c.score

\* Every row's pair is a category and one of its children.  If the file spells each name
\* in one way, rows whose names the user makes the same get one category, of that name,
\* and a category is created only for a row that gets it.
NamesDecide(f, r) ==
    LET made == Resolved(f, r, tree)
        all == tree @@ made.new
        oneSpelling == \A i, j \in WithTop(f) :
                          /\ (Word(f[i].top) = Word(f[j].top) => f[i].top = f[j].top)
                          /\ {i, j} \subseteq WithSub(f) =>
                                (Word(f[i].sub) = Word(f[j].sub) => f[i].sub = f[j].sub)
    IN  /\ \A i \in Parsed(f) : Coherent(made.pair[i], all)
        /\ oneSpelling =>
             /\ \A i \in WithTop(f) : Word(all[made.pair[i][1]].name) = Word(EffectiveTop(f, i, r))
             /\ \A i \in WithSub(f) : Word(all[made.pair[i][2]].name) = Word(EffectiveSub(f, i, r))
             /\ \A c \in DOMAIN made.new : \E i \in WithTop(f) : c \in {made.pair[i][1], made.pair[i][2]}

\* What a preview shows of a file, whatever there is and however the user may rename.
PreviewsAreSound ==
    \A c \in Clients, f \in Files :
      client[c].at = "away" /\ client'[c].at = "looking" /\ client'[c].file = f =>
         MatchingIsStable(f) /\ \A r \in Renamings : NamesDecide(f, r)

\* A tick means what was shown: if nothing was imported, edited or renamed after the
\* preview, an apply writes exactly the rows ticked, onto the postings shown for them,
\* with the categories shown unless the user renames some.
TicksMeanWhatWasShown ==
    \A c \in Clients :
      Save(c) /\ ~client[c].stale =>
         LET s == client[c].shown
             written == {p \in DOMAIN picked' : p \notin DOMAIN picked \/ picked'[p] # picked[p]}
         IN  /\ written \subseteq {s[i].posting : i \in client[c].ticked}
             /\ client[c].renaming = NoRenaming =>
                  \A i \in client[c].ticked :
                     s[i].posting # 0 /\ s[i].pair # NoPair => picked'[s[i].posting][1] = s[i].pair[1]
=============================================================================

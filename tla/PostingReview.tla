--------------------------- MODULE PostingReview ---------------------------
(***************************************************************************)
(* What a user and the categorizers say about postings: manual overrides   *)
(* and the pending suggestions staged on them.                             *)
(*                                                                         *)
(* Every handler loads the rows of its postings, computes, and then        *)
(* replaces them (save_overrides_for_postings deletes the override and the *)
(* suggestion of each posting and inserts what the handler holds, in one   *)
(* commit).  Handlers of several requests run between each other's load    *)
(* and save.  A suggestion waits for a language model between the moment   *)
(* it reads what the posting shows and the moment it loads the rows.       *)
(***************************************************************************)
EXTENDS Naturals, FiniteSets

CONSTANTS
    Postings,
    Categories,
    NoCategory,
    Requests,       \* requests that can be under way at once
    MaxReviews      \* how many requests there are

VARIABLES
    enforced,       \* does row-level security apply to the role (an operator's choice)
    rule,           \* the category the rules give each posting
    override,       \* the override of each posting
    suggestion,     \* the pending suggestion of each posting
    request,        \* where each request is
    reviews,        \* how many requests were made
    before          \* history: what a posting showed when its suggestion was staged

rowVars == <<override, suggestion>>
vars == <<enforced, rule, rowVars, request, reviews, before>>

MaybeCategory == Categories \cup {NoCategory}

\* A pending suggestion is answered as its checkbox says, on validation.
NoSuggestion == [pending |-> FALSE, selected |-> TRUE, previous |-> NoCategory]
Suggestions == {NoSuggestion} \cup [pending : {TRUE}, selected : BOOLEAN, previous : MaybeCategory]

\* An override: a category, and whether account or tags are set too.
NoOverride == [category |-> NoCategory, other |-> FALSE]
Overrides == [category : MaybeCategory, other : BOOLEAN]

\* One posting's entry as a handler holds it: its override and its suggestion.
Entries == [own : Overrides, staged : Suggestions]
Loaded(p) == [own |-> override[p], staged |-> suggestion[p]]

\* The category a posting shows: the override's, or else the rules'.
Shown(p) == IF override[p].category # NoCategory THEN override[p].category ELSE rule[p]

Unknown == [fresh |-> FALSE, category |-> NoCategory]
NoEntry == [p \in {} |-> NoOverride]
Request(at, op, ps, target, entry) ==
    [at |-> at, op |-> op, postings |-> ps, target |-> target, entry |-> entry, overtaken |-> {}]
Idle == Request("idle", "none", {}, NoCategory, NoEntry)

Init ==
    /\ enforced \in BOOLEAN
    /\ rule \in [Postings -> MaybeCategory]
    /\ override = [p \in Postings |-> NoOverride]
    /\ suggestion = [p \in Postings |-> NoSuggestion]
    /\ request = [r \in Requests |-> Idle]
    /\ reviews = 0
    /\ before = [p \in Postings |-> Unknown]

-----------------------------------------------------------------------------
(* Loading.                                                                *)

Start(r, op, ps, entry) ==
    /\ request[r].at = "idle"
    /\ reviews < MaxReviews
    /\ reviews' = reviews + 1
    /\ request' = [request EXCEPT ![r] = Request("loaded", op, ps, NoCategory, entry)]

\* The fields a PUT names replace the loaded ones; the others stay as they are.
Changes == [field : {"category"}, value : MaybeCategory]
             \cup [field : {"other", "selected"}, value : BOOLEAN]

Merged(e, change) ==
    CASE change.field = "category" -> [e EXCEPT !.own.category = change.value]
      [] change.field = "other"    -> [e EXCEPT !.own.other = change.value]
      [] change.field = "selected" /\ e.staged.pending -> [e EXCEPT !.staged.selected = change.value]
      [] OTHER -> e

\* put_posting_override loads and merges.
Put(r, p, change) ==
    /\ Start(r, change.field, {p}, [x \in {p} |-> Merged(Loaded(p), change)])
    /\ UNCHANGED <<enforced, rule, rowVars, before>>

\* Rejecting clears the category.
Resolved_ClearsCategory(e) ==
    [own    |-> IF e.staged.pending /\ ~e.staged.selected
                THEN [e.own EXCEPT !.category = NoCategory] ELSE e.own,
     staged |-> NoSuggestion]

\* Accepting keeps the category; rejecting puts the snapshotted one in its place.
Resolved(e) ==
    [own    |-> IF e.staged.pending /\ ~e.staged.selected
                THEN [e.own EXCEPT !.category = e.staged.previous] ELSE e.own,
     staged |-> NoSuggestion]

\* post_validate_pending loads what the filter matches and resolves it.
Validate(r, ps) ==
    /\ Start(r, "validate", ps, [p \in ps |-> Resolved(Loaded(p))])
    /\ UNCHANGED <<enforced, rule, rowVars, before>>

\* stage_pending_suggestion: the entry takes the suggested category at once and
\* remembers what the posting showed.
Staged(e, c, shown) ==
    [own    |-> [e.own EXCEPT !.category = c],
     staged |-> [pending |-> TRUE, selected |-> TRUE, previous |-> shown]]

\* post_ai_suggest_category resolves the posting, then waits for the model.
Ask(r, p) ==
    /\ request[r].at = "idle"
    /\ reviews < MaxReviews
    /\ reviews' = reviews + 1
    /\ request' = [request EXCEPT ![r] = Request("asking", "suggest", {p}, Shown(p), NoEntry)]
    /\ UNCHANGED <<enforced, rule, rowVars, before>>

\* The model answers with a valid category.  Counting the call committed, and with
\* it went the row-level-security user: the posting is no longer there to be staged.
Answer(r, c) ==
    LET p == CHOOSE x \in request[r].postings : TRUE
    IN  /\ request[r].at = "asking"
        /\ request' = [request EXCEPT ![r] =
                           IF enforced THEN Idle
                           ELSE [@ EXCEPT !.at = "loaded",
                                          !.entry = [x \in {p} |-> Staged(Loaded(p), c, request[r].target)]]]
        /\ UNCHANGED <<enforced, rule, rowVars, reviews, before>>

\* post_pattern_suggest_category_bulk reads rows and overrides one after the other,
\* and suggests only where there is no category yet or the same one.
Match(r, ps, c) ==
    /\ Start(r, "suggest", ps, [p \in ps |-> IF Shown(p) \in {NoCategory, c}
                                             THEN Staged(Loaded(p), c, Shown(p)) ELSE Loaded(p)])
    /\ UNCHANGED <<enforced, rule, rowVars, before>>

-----------------------------------------------------------------------------
(* Saving.                                                                 *)

\* save_overrides_for_postings, for the postings of request r.
Save(r) ==
    LET ps == request[r].postings
        new(p) == request[r].entry[p]
        isNew(p) == new(p).staged.pending /\ request[r].op = "suggest" /\ new(p) # Loaded(p)
    IN  /\ request[r].at = "loaded"
        /\ override' = [p \in Postings |-> IF p \in ps THEN new(p).own ELSE override[p]]
        /\ suggestion' = [p \in Postings |-> IF p \in ps THEN new(p).staged ELSE suggestion[p]]
        /\ before' = [p \in Postings |->
                        IF p \notin ps THEN before[p]
                        ELSE IF isNew(p) THEN [fresh |-> ~suggestion[p].pending /\ p \notin request[r].overtaken,
                                               category |-> Shown(p)]
                        ELSE IF p \in request[r].overtaken THEN Unknown ELSE before[p]]
        /\ request' = [s \in Requests |-> IF s = r THEN Idle
                                          ELSE IF request[s].at = "idle" THEN request[s]
                                          ELSE [request[s] EXCEPT !.overtaken = @ \cup (ps \cap request[s].postings)]]
        /\ UNCHANGED <<enforced, rule, reviews>>

\* Nothing is saved: the model has no usable answer, the posting is locked to another
\* category, no provider answers, or the insert meets the row a faster request
\* inserted after this one's delete had looked (a unique violation, 500).
Abandon(r) ==
    /\ request[r].at \in {"asking", "loaded"}
    /\ request' = [request EXCEPT ![r] = Idle]
    /\ UNCHANGED <<enforced, rule, rowVars, reviews, before>>

Next ==
    \E r \in Requests :
        \/ \E p \in Postings, change \in Changes : Put(r, p, change)
        \/ \E ps \in (SUBSET Postings) \ {{}} : Validate(r, ps)
        \/ \E p \in Postings : Ask(r, p)
        \/ \E c \in Categories : Answer(r, c)
        \/ \E ps \in (SUBSET Postings) \ {{}}, c \in Categories : Match(r, ps, c)
        \/ Save(r)
        \/ Abandon(r)

Spec == Init /\ [][Next]_vars

-----------------------------------------------------------------------------
(* Properties.                                                             *)

TypeOK ==
    /\ override \in [Postings -> Overrides]
    /\ suggestion \in [Postings -> Suggestions]
    /\ before \in [Postings -> [fresh : BOOLEAN, category : MaybeCategory]]
    /\ \A r \in Requests : \A p \in DOMAIN request[r].entry : request[r].entry[p] \in Entries

\* Rejecting a suggestion puts back exactly what the posting showed before it, if
\* no other request saved the posting between the suggestion's read and its save
\* (the model may take long) or during the validation, and the suggestion did not
\* replace an earlier one nobody had answered.
RejectionRestores ==
    \A r \in Requests, p \in Postings :
       (/\ Save(r) /\ request[r].op = "validate" /\ p \in request[r].postings \ request[r].overtaken
        /\ suggestion[p].pending /\ ~suggestion[p].selected /\ before[p].fresh)
           => Shown(p)' = before[p].category

\* A save changes only what its request is about: a PUT its field, a validation or
\* a suggestion the category and the suggestion; everything else another request
\* said survives, unless that request saved between this one's load and its save.
SavesAreNarrow ==
    \A r \in Requests, p \in Postings :
       (Save(r) /\ p \in request[r].postings \ request[r].overtaken) =>
           /\ request[r].op # "other" => override'[p].other = override[p].other
           /\ request[r].op \in {"other", "selected"} => override'[p].category = override[p].category
           /\ request[r].op \in {"category", "other"} => suggestion'[p] = suggestion[p]
           /\ ~suggestion[p].pending /\ request[r].op # "suggest" => ~suggestion'[p].pending
           /\ request[r].op = "validate" /\ ~suggestion[p].pending => override'[p] = override[p]

-----------------------------------------------------------------------------
(* What the properties rest on.                                            *)

\* What a request q means to save of a posting p that nobody saved since q looked.
Keeps(q, p, e) ==
    /\ q.op # "other" => e.own.other = override[p].other
    /\ q.op \in {"other", "selected"} => e.own.category = override[p].category
    /\ q.op \in {"category", "other"} => e.staged = suggestion[p]
    /\ q.op = "selected" => e.staged.pending = suggestion[p].pending /\ e.staged.previous = suggestion[p].previous
    /\ q.op = "validate" => e = Resolved(Loaded(p))
    /\ q.op = "suggest" => e = Loaded(p) \/ e.staged.previous = Shown(p)

RequestStands(q) ==
    /\ q.postings \subseteq Postings /\ q.target \in MaybeCategory
    /\ q.at = "asking" => /\ q.op = "suggest" /\ \E p \in Postings : q.postings = {p}
                         /\ \A p \in q.postings \ q.overtaken : q.target = Shown(p)
    /\ \A p \in DOMAIN q.entry : q.entry[p] \in Entries
    /\ q.at = "loaded" => /\ q.op \in {"category", "other", "selected", "validate", "suggest"}
                         /\ DOMAIN q.entry = q.postings
                         /\ \A p \in q.postings \ q.overtaken : Keeps(q, p, q.entry[p])

\* A fresh suggestion remembers what the posting showed; it showed nothing only if the
\* rules have nothing for it either.
Remembers(p) ==
    suggestion[p].pending /\ before[p].fresh =>
       /\ suggestion[p].previous = before[p].category
       /\ suggestion[p].previous = NoCategory => rule[p] = NoCategory

IsARequest(q) == q = [at |-> q.at, op |-> q.op, postings |-> q.postings, target |-> q.target, entry |-> q.entry,
                      overtaken |-> q.overtaken]

IInv ==
    /\ rule \in [Postings -> MaybeCategory]
    /\ override \in [Postings -> Overrides] /\ suggestion \in [Postings -> Suggestions]
    /\ before \in [Postings -> [fresh : BOOLEAN, category : MaybeCategory]]
    /\ DOMAIN request = Requests /\ \A r \in Requests : IsARequest(request[r]) /\ RequestStands(request[r])
    /\ \A p \in Postings : Remembers(p)

=============================================================================

------------------------- MODULE ResolvedProjection -------------------------
(***************************************************************************)
(* The resolved-posting projection of one user: the stored rows the        *)
(* transactions screen is served from (accounting.resolved_postings), the  *)
(* staleness queue the database triggers fill                              *)
(* (accounting.resolved_postings_dirty) and the drain that empties it at   *)
(* the top of every read (src/src/accounting/repositories/projection.py).  *)
(*                                                                         *)
(* Data are versions.  A transaction resolves to a function of two inputs: *)
(* the overlays `overlay_context` reads once per drain (rules, accounts,   *)
(* splits, merges, links, ...) and the ledger rows and per-posting         *)
(* overrides each batch reads for itself.  A write bumps the version of    *)
(* the inputs it changes; a stored row remembers the versions it was       *)
(* computed from.                                                          *)
(*                                                                         *)
(* Postgres runs the code at READ COMMITTED: each statement sees what was  *)
(* committed when it started, and waits for another session only on a row  *)
(* that session inserted or deleted and has not yet committed.  The queue  *)
(* has a primary key, so `INSERT ... ON CONFLICT DO NOTHING` on a          *)
(* transaction that has a committed marker inserts nothing, locks nothing  *)
(* and does not wait.                                                      *)
(***************************************************************************)
EXTENDS Integers, FiniteSets

CONSTANTS
    Txns,            \* row ids of transactions, in the order a scan meets their markers
    Writers,         \* sessions that change what a posting resolves to
    Readers,         \* sessions that drain and then query
    BatchSize,       \* RECOMPUTE_BATCH_TRANSACTIONS
    MaxStatements    \* bound: writing statements in one behaviour

ASSUME TxnsAssumption == Txns \subseteq Nat
ASSUME SessionsAssumption ==
    /\ Writers \cap Readers = {}
    /\ {"clean", "pending"} \cap (Writers \cup Readers) = {}
ASSUME BatchAssumption == BatchSize \in Nat \ {0}
ASSUME BoundAssumption == MaxStatements \in Nat

VARIABLES
    overlay,     \* committed version of each transaction's whole-collection overlays
    ledger,      \* committed version of its own rows; 0 not created yet, -1 deleted
    stored,      \* committed projection row of each transaction
    queue,       \* its marker: absent, committed, inserted or deleted by an open session
    work,        \* per writer, what its open transaction has changed
    owed,        \* per writer, the markers its last statement's trigger has still to insert
    passed,      \* history: per writer, changed transactions its triggers inserted no marker for
    statements,  \* writing statements issued so far (bounded)
    pc,          \* per reader, where its request stands
    want,        \* per reader, visible markers its DELETE has still to reach
    claimed,     \* per reader, the transactions its DELETE returned
    seen,        \* per reader, overlay versions read by overlay_context
    todo,        \* per reader, claimed transactions not yet recomputed
    fresh,       \* per reader, rows recomputed and not yet committed
    armed,       \* per reader, whether app.current_user_id is set on its transaction
    page,        \* per reader, the rows its query returned
    floor,       \* history: per reader, the committed inputs when its drain began
    escaped      \* history: changed by a commit that left no marker, and not claimed since

dbVars     == <<overlay, ledger, stored, queue>>
writerVars == <<work, owed, passed, statements>>
readerVars == <<pc, want, claimed, seen, todo, fresh, armed, page, floor>>
vars       == <<dbVars, writerVars, readerVars, escaped>>

Clean    == "clean"       \* no marker
Pending  == "pending"     \* a committed marker no session holds
NotYet   == 0
Deleted  == -1

Row   == [overlay : Nat, ledger : Nat]
NoRow == [overlay |-> 0, ledger |-> 0]

\* Mutant of Resolve: no early return for a transaction that has no ledger rows left.
Resolve_DeletedStillResolves(o, l) == [overlay |-> o, ledger |-> l]

\* What the pipeline makes of a transaction from the inputs it read.
Resolve(o, l) == IF l > 0 THEN [overlay |-> o, ledger |-> l] ELSE NoRow

Live(t)    == ledger[t] > 0
Inputs(t)  == [overlay |-> overlay[t], ledger |-> ledger[t]]
Current(t) == Resolve(overlay[t], ledger[t])

Work   == [overlay : SUBSET Txns, ledger : SUBSET Txns, removed : SUBSET Txns, wide : BOOLEAN]
NoWork == [overlay |-> {}, ledger |-> {}, removed |-> {}, wide |-> FALSE]

Init ==
    /\ overlay = [t \in Txns |-> 0]
    /\ ledger \in [Txns -> {NotYet, 1}]
    /\ stored = [t \in Txns |-> Current(t)]
    /\ queue = [t \in Txns |-> Clean]
    /\ work = [w \in Writers |-> NoWork]
    /\ owed = [w \in Writers |-> {}]
    /\ passed = [w \in Writers |-> {}]
    /\ statements = 0
    /\ pc = [r \in Readers |-> "idle"]
    /\ want = [r \in Readers |-> {}]
    /\ claimed = [r \in Readers |-> {}]
    /\ seen = [r \in Readers |-> [t \in Txns |-> 0]]
    /\ todo = [r \in Readers |-> {}]
    /\ fresh = [r \in Readers |-> [t \in Txns |-> NoRow]]
    /\ armed = [r \in Readers |-> TRUE]
    /\ page = [r \in Readers |-> [t \in Txns |-> NoRow]]
    /\ floor = [r \in Readers |-> [t \in Txns |-> NoRow]]
    /\ escaped = {}
-----------------------------------------------------------------------------
(* Writers.  A statement changes rows the session alone can see and fires  *)
(* the table's AFTER trigger, which enqueues the affected transactions     *)
(* before the statement returns.                                           *)

CanWrite(w) == owed[w] = {} /\ statements < MaxStatements

\* The transactions a statement of w sees: the committed ones and its own.
Visible(w) == ({t \in Txns : Live(t)} \cup work[w].ledger) \ work[w].removed

\* Nobody else has deleted t, which its row lock and foreign keys would show.
NotRemoved(t) == \A w \in Writers : t \notin work[w].removed

Write(w, change, affected, unseen) ==
    /\ work' = [work EXCEPT ![w] = change]
    /\ owed' = [owed EXCEPT ![w] = affected]
    /\ passed' = [passed EXCEPT ![w] = @ \cup unseen]
    /\ statements' = statements + 1
    /\ UNCHANGED <<dbVars, readerVars, escaped>>

\* A row of the transaction itself, or an override or suggestion on its postings.
WriteLedger(w, t) ==
    /\ CanWrite(w) /\ t \in Visible(w) /\ NotRemoved(t)
    /\ Write(w, [work[w] EXCEPT !.ledger = @ \cup {t}], {t}, {})

\* A split, merge, link, tag, exclusion or filed-under category: overlays that
\* a drain reads for the whole collection, changed for one transaction.
WriteOverlay(w, t) ==
    /\ CanWrite(w) /\ t \in Visible(w) /\ NotRemoved(t)
    /\ Write(w, [work[w] EXCEPT !.overlay = @ \cup {t}], {t}, {})

\* A transfer rule or an account: it can change any transaction there is or
\* will be, and enqueues the ones the statement can see.
WriteWide(w) ==
    /\ CanWrite(w)
    /\ Write(w, [work[w] EXCEPT !.wide = TRUE], Visible(w), Txns \ Visible(w))

CreateTransaction(w, t) ==
    /\ CanWrite(w) /\ ledger[t] = NotYet
    /\ \A v \in Writers : t \notin work[v].ledger
    /\ Write(w, [work[w] EXCEPT !.ledger = @ \cup {t}], {t}, {})

\* Mutant of DeleteTransaction: only the children's triggers, whose join to the
\* deleted parent finds nothing.
DeleteTransaction_JoinFindsNothing(w, t) ==
    /\ CanWrite(w) /\ Live(t) /\ NotRemoved(t)
    /\ \A v \in Writers \ {w} : t \notin work[v].ledger \cup work[v].overlay
    /\ Write(w, [work[w] EXCEPT !.removed = @ \cup {t}], {}, {})

DeleteTransaction(w, t) ==
    /\ CanWrite(w) /\ Live(t) /\ NotRemoved(t)
    /\ \A v \in Writers \ {w} : t \notin work[v].ledger \cup work[v].overlay
    /\ Write(w, [work[w] EXCEPT !.removed = @ \cup {t}], {t}, {})

\* INSERT ... ON CONFLICT DO NOTHING for one of the affected transactions.  It
\* waits while another open session has inserted or deleted the marker.
EnqueueMarker(w, t) ==
    /\ t \in owed[w]
    /\ queue[t] \in {Clean, Pending, w}
    /\ queue' = [queue EXCEPT ![t] = IF @ = Clean THEN w ELSE @]
    /\ owed' = [owed EXCEPT ![w] = @ \ {t}]
    /\ passed' = [passed EXCEPT ![w] = IF queue[t] = Pending THEN @ \cup {t} ELSE @]
    /\ UNCHANGED <<overlay, ledger, stored, work, statements, readerVars, escaped>>

Bumped(w)  == {t \in Txns : work[w].wide \/ t \in work[w].overlay}
Touched(w) == {t \in Txns : /\ Live(t) \/ t \in work[w].ledger
                            /\ t \in Bumped(w) \cup work[w].ledger \cup work[w].removed}

\* The write becomes visible, and with it the markers it inserted.  A marker it
\* found pending and that is no longer pending does not speak for it.
CommitWrite(w) ==
    /\ work[w] # NoWork /\ owed[w] = {}
    /\ overlay' = [t \in Txns |-> IF t \in Bumped(w) THEN overlay[t] + 1 ELSE overlay[t]]
    /\ ledger' = [t \in Txns |-> IF t \in work[w].removed THEN Deleted
                                 ELSE IF t \in work[w].ledger THEN ledger[t] + 1 ELSE ledger[t]]
    /\ queue' = [t \in Txns |-> IF queue[t] = w THEN Pending ELSE queue[t]]
    /\ escaped' = escaped \cup {t \in Touched(w) \cap passed[w] : queue[t] \notin {w, Pending}}
    /\ work' = [work EXCEPT ![w] = NoWork]
    /\ passed' = [passed EXCEPT ![w] = {}]
    /\ UNCHANGED <<stored, owed, statements, readerVars>>

\* A failed request, a lost connection or a deadlock victim.
AbortWrite(w) ==
    /\ work[w] # NoWork
    /\ queue' = [t \in Txns |-> IF queue[t] = w THEN Clean ELSE queue[t]]
    /\ work' = [work EXCEPT ![w] = NoWork]
    /\ owed' = [owed EXCEPT ![w] = {}]
    /\ passed' = [passed EXCEPT ![w] = {}]
    /\ UNCHANGED <<overlay, ledger, stored, statements, readerVars, escaped>>
-----------------------------------------------------------------------------
(* Readers: drain, re-arm row-level security, query.                       *)

\* The markers r's statement can see: committed ones, also those being deleted.
Visited(r) == {t \in Txns : queue[t] = Pending \/ queue[t] \in Readers \ {r}}

\* The request begins: the DELETE takes its snapshot of the queue.
StartRead(r) ==
    /\ pc[r] = "idle"
    /\ pc' = [pc EXCEPT ![r] = "claim"]
    /\ want' = [want EXCEPT ![r] = Visited(r)]
    /\ floor' = [floor EXCEPT ![r] = [t \in Txns |-> IF t \in escaped THEN NoRow ELSE Inputs(t)]]
    /\ armed' = [armed EXCEPT ![r] = TRUE]
    /\ page' = [page EXCEPT ![r] = [t \in Txns |-> NoRow]]
    /\ UNCHANGED <<dbVars, writerVars, claimed, seen, todo, fresh, escaped>>

\* Mutant of ClaimMarker: FOR UPDATE SKIP LOCKED, a marker another drain holds is passed by.
ClaimMarker_SkipLocked(r, t) ==
    /\ pc[r] = "claim" /\ t \in want[r]
    /\ queue' = [queue EXCEPT ![t] = IF @ = Pending THEN r ELSE @]
    /\ want' = [want EXCEPT ![r] = @ \ {t}]
    /\ claimed' = [claimed EXCEPT ![r] = IF queue[t] = Pending THEN @ \cup {t} ELSE @]
    /\ escaped' = IF queue[t] = Pending THEN escaped \ {t} ELSE escaped
    /\ UNCHANGED <<overlay, ledger, stored, writerVars, pc, seen, todo, fresh, armed, page, floor>>

\* Mutant of ClaimMarker: markers are met in any order.
ClaimMarker_AnyOrder(r, t) ==
    /\ pc[r] = "claim" /\ t \in want[r]
    /\ queue[t] = Pending
    /\ queue' = [queue EXCEPT ![t] = r]
    /\ want' = [want EXCEPT ![r] = @ \ {t}]
    /\ claimed' = [claimed EXCEPT ![r] = @ \cup {t}]
    /\ escaped' = escaped \ {t}
    /\ UNCHANGED <<overlay, ledger, stored, writerVars, pc, seen, todo, fresh, armed, page, floor>>

\* DELETE ... RETURNING reaches the next marker of its snapshot; one that
\* another drain is deleting makes it wait for that drain to end.
ClaimMarker(r, t) ==
    /\ pc[r] = "claim" /\ t \in want[r]
    /\ \A u \in want[r] : t <= u
    /\ queue[t] = Pending
    /\ queue' = [queue EXCEPT ![t] = r]
    /\ want' = [want EXCEPT ![r] = @ \ {t}]
    /\ claimed' = [claimed EXCEPT ![r] = @ \cup {t}]
    /\ escaped' = escaped \ {t}
    /\ UNCHANGED <<overlay, ledger, stored, writerVars, pc, seen, todo, fresh, armed, page, floor>>

\* Nothing claimed: return 0 without committing, straight to the query.
NothingToDrain(r) ==
    /\ pc[r] = "claim" /\ want[r] = {} /\ claimed[r] = {}
    /\ pc' = [pc EXCEPT ![r] = "query"]
    /\ UNCHANGED <<dbVars, writerVars, want, claimed, seen, todo, fresh, armed, page, floor, escaped>>

\* Mutant of ReadContext: the claim is committed before the recompute begins.
ReadContext_ClaimCommittedFirst(r) ==
    /\ pc[r] = "claim" /\ want[r] = {} /\ claimed[r] # {}
    /\ pc' = [pc EXCEPT ![r] = "recompute"]
    /\ queue' = [t \in Txns |-> IF queue[t] = r THEN Clean ELSE queue[t]]
    /\ want' = [q \in Readers |-> want[q] \ claimed[r]]
    /\ seen' = [seen EXCEPT ![r] = overlay]
    /\ todo' = [todo EXCEPT ![r] = claimed[r]]
    /\ UNCHANGED <<overlay, ledger, stored, writerVars, claimed, fresh, armed, page, floor, escaped>>

\* overlay_context, read once for the whole drain.
ReadContext(r) ==
    /\ pc[r] = "claim" /\ want[r] = {} /\ claimed[r] # {}
    /\ pc' = [pc EXCEPT ![r] = "recompute"]
    /\ seen' = [seen EXCEPT ![r] = overlay]
    /\ todo' = [todo EXCEPT ![r] = claimed[r]]
    /\ UNCHANGED <<dbVars, writerVars, want, claimed, fresh, armed, page, floor, escaped>>

\* One batch: delete its rows, load its ledger and overrides, resolve, insert.
RecomputeBatch(r, batch) ==
    /\ pc[r] = "recompute" /\ batch \subseteq todo[r] /\ batch # {}
    /\ \/ Cardinality(batch) = BatchSize
       \/ batch = todo[r] /\ Cardinality(batch) <= BatchSize
    /\ fresh' = [fresh EXCEPT ![r] = [t \in Txns |-> IF t \in batch THEN Resolve(seen[r][t], ledger[t]) ELSE @[t]]]
    /\ todo' = [todo EXCEPT ![r] = @ \ batch]
    /\ UNCHANGED <<dbVars, writerVars, pc, want, claimed, seen, armed, page, floor, escaped>>

\* The rows and the queue delete become visible together; the RLS variable,
\* local to the transaction, is gone.  A drain waiting on these markers skips them.
CommitDrain(r) ==
    /\ pc[r] = "recompute" /\ todo[r] = {}
    /\ stored' = [t \in Txns |-> IF t \in claimed[r] THEN fresh[r][t] ELSE stored[t]]
    /\ queue' = [t \in Txns |-> IF queue[t] = r THEN Clean ELSE queue[t]]
    /\ want' = [q \in Readers |-> want[q] \ claimed[r]]
    /\ claimed' = [claimed EXCEPT ![r] = {}]
    /\ armed' = [armed EXCEPT ![r] = FALSE]
    /\ seen' = [seen EXCEPT ![r] = [t \in Txns |-> 0]]
    /\ fresh' = [fresh EXCEPT ![r] = [t \in Txns |-> NoRow]]
    /\ pc' = [pc EXCEPT ![r] = "rearm"]
    /\ UNCHANGED <<overlay, ledger, writerVars, todo, page, floor, escaped>>

\* set_rls_user after the commit.
Rearm(r) ==
    /\ pc[r] = "rearm"
    /\ armed' = [armed EXCEPT ![r] = TRUE]
    /\ pc' = [pc EXCEPT ![r] = "query"]
    /\ UNCHANGED <<dbVars, writerVars, want, claimed, seen, todo, fresh, page, floor, escaped>>

\* The page query: under an unset RLS variable every policy matches nothing.
Query(r) ==
    /\ pc[r] = "query"
    /\ page' = [page EXCEPT ![r] = IF armed[r] THEN stored ELSE [t \in Txns |-> NoRow]]
    /\ pc' = [pc EXCEPT ![r] = "served"]
    /\ UNCHANGED <<dbVars, writerVars, want, claimed, seen, todo, fresh, armed, floor, escaped>>

\* Mutant of Reset: a drain that fails does not bring its markers back.
Reset_MarkersLost(r) ==
    /\ queue' = [t \in Txns |-> IF queue[t] = r THEN Clean ELSE queue[t]]
    /\ pc' = [pc EXCEPT ![r] = "idle"]
    /\ want' = [q \in Readers |-> IF q = r THEN {} ELSE want[q] \ claimed[r]]
    /\ claimed' = [claimed EXCEPT ![r] = {}]
    /\ todo' = [todo EXCEPT ![r] = {}]
    /\ UNCHANGED <<overlay, ledger, stored, writerVars, seen, fresh, armed, page, floor, escaped>>

\* Back to a session that remembers nothing; the markers it held come back.
Reset(r) ==
    /\ queue' = [t \in Txns |-> IF queue[t] = r THEN Pending ELSE queue[t]]
    /\ pc' = [pc EXCEPT ![r] = "idle"]
    /\ want' = [want EXCEPT ![r] = {}]
    /\ claimed' = [claimed EXCEPT ![r] = {}]
    /\ seen' = [seen EXCEPT ![r] = [t \in Txns |-> 0]]
    /\ todo' = [todo EXCEPT ![r] = {}]
    /\ fresh' = [fresh EXCEPT ![r] = [t \in Txns |-> NoRow]]
    /\ armed' = [armed EXCEPT ![r] = TRUE]
    /\ page' = [page EXCEPT ![r] = [t \in Txns |-> NoRow]]
    /\ floor' = [floor EXCEPT ![r] = [t \in Txns |-> NoRow]]
    /\ UNCHANGED <<overlay, ledger, stored, writerVars, escaped>>

FinishRead(r) == pc[r] = "served" /\ Reset(r)

\* A drain that raises, times out or loses its connection rolls back.
FailRead(r) == pc[r] \notin {"idle", "served"} /\ Reset(r)
-----------------------------------------------------------------------------
WriterStatement(w) ==
    \/ WriteWide(w)
    \/ \E t \in Txns : \/ WriteLedger(w, t)
                       \/ WriteOverlay(w, t)
                       \/ CreateTransaction(w, t)
                       \/ DeleteTransaction(w, t)

WriterEnqueues(w) == \E t \in Txns : EnqueueMarker(w, t)

ReaderProceeds(r) ==
    \/ \E t \in Txns : ClaimMarker(r, t)
    \/ NothingToDrain(r)
    \/ ReadContext(r)
    \/ \E batch \in SUBSET todo[r] : RecomputeBatch(r, batch)
    \/ CommitDrain(r)
    \/ Rearm(r)
    \/ Query(r)
    \/ FinishRead(r)

Next ==
    \/ \E w \in Writers : WriterStatement(w) \/ WriterEnqueues(w) \/ CommitWrite(w) \/ AbortWrite(w)
    \/ \E r \in Readers : StartRead(r) \/ ReaderProceeds(r) \/ FailRead(r)

Spec == Init /\ [][Next]_vars

\* A request that has begun runs on: each session keeps executing, and a
\* writer's transaction ends, by commit or by rollback (get_db closes the
\* session; Postgres ends a deadlock by aborting a victim).  Strong fairness of
\* the claim: a session waiting for a row is woken in its turn when the row is freed.
Fairness ==
    /\ \A w \in Writers : WF_vars(WriterEnqueues(w)) /\ WF_vars(CommitWrite(w) \/ AbortWrite(w))
    /\ \A r \in Readers : WF_vars(ReaderProceeds(r)) /\ SF_vars(\E t \in Txns : ClaimMarker(r, t))

FairSpec == Spec /\ Fairness
-----------------------------------------------------------------------------
(* Properties                                                              *)

TypeOK ==
    /\ overlay \in [Txns -> Nat]
    /\ ledger \in [Txns -> Nat \cup {Deleted}]
    /\ stored \in [Txns -> Row]
    /\ queue \in [Txns -> {Clean, Pending} \cup Writers \cup Readers]
    /\ work \in [Writers -> Work]
    /\ owed \in [Writers -> SUBSET Txns]
    /\ passed \in [Writers -> SUBSET Txns]
    /\ statements \in Nat
    /\ pc \in [Readers -> {"idle", "claim", "recompute", "rearm", "query", "served"}]
    /\ want \in [Readers -> SUBSET Txns]
    /\ claimed \in [Readers -> SUBSET Txns]
    /\ seen \in [Readers -> [Txns -> Nat]]
    /\ todo \in [Readers -> SUBSET Txns]
    /\ fresh \in [Readers -> [Txns -> Row]]
    /\ armed \in [Readers -> BOOLEAN]
    /\ page \in [Readers -> [Txns -> Row]]
    /\ floor \in [Readers -> [Txns -> [overlay : Nat, ledger : Nat \cup {Deleted}]]]
    /\ escaped \subseteq Txns

\* What the module's docstring promises: a row that disagrees with the pipeline
\* has a marker, pending or claimed by a drain that has not committed.
StaleRowHasMarker ==
    \A t \in Txns : stored[t] # Current(t) => queue[t] \in {Pending} \cup Readers

\* What the code does guarantee: the same, but for a transaction changed by a
\* write whose trigger found its marker pending, or could not yet see the
\* transaction, and that committed after a drain had claimed the marker there was.
StaleRowIsAccountedFor ==
    \A t \in Txns : stored[t] # Current(t) => t \in escaped \/ queue[t] \in {Pending} \cup Readers

\* The strengthening of StaleRowIsAccountedFor that every step preserves.
\* A drain's claim list is exactly the markers it holds, and it has not
\* committed while it has one.
ClaimsAreHeld ==
    \A r \in Readers : /\ claimed[r] = {t \in Txns : queue[t] = r}
                       /\ claimed[r] # {} => pc[r] \in {"claim", "recompute"}
                       /\ todo[r] \subseteq claimed[r]

\* What an open write changed, its triggers have dealt with or still owe.
WritesAreEnqueued ==
    \A w \in Writers, t \in Txns :
        work[w].wide \/ t \in work[w].overlay \cup work[w].ledger \cup work[w].removed
            => queue[t] = w \/ t \in owed[w] \cup passed[w]

\* What a drain has read of a transaction it claimed is what is committed now.
RecomputeIsCurrent ==
    \A r \in Readers : pc[r] = "recompute" =>
        \A t \in claimed[r] \ escaped : /\ Resolve(seen[r][t], ledger[t]) = Current(t)
                                        /\ t \notin todo[r] => fresh[r][t] = Current(t)

IInv == TypeOK /\ ClaimsAreHeld /\ WritesAreEnqueued /\ RecomputeIsCurrent /\ StaleRowIsAccountedFor

\* A row computed from these inputs, or from later ones, covers what f records.
Covers(row, f, t) ==
    \/ f.ledger = Deleted /\ row = NoRow
    \/ f.ledger >= 0 /\ \/ row.ledger >= f.ledger /\ row.overlay >= f.overlay
                        \/ f.ledger = NotYet
                        \/ row = NoRow /\ ledger[t] = Deleted

\* A page served after a drain shows every change committed before the drain
\* began (and never an empty page under an unset RLS variable).
ServedPageIsCurrent ==
    \A r \in Readers : pc[r] = "served" => \A t \in Txns : Covers(page[r][t], floor[r][t], t)

\* The projection never goes back: a commit of a slow drain does not replace a
\* row by one computed from older inputs.
NoRowGoesBack ==
    \A t \in Txns : stored'[t] # NoRow => /\ stored'[t].ledger >= stored[t].ledger
                                          /\ stored'[t].overlay >= stored[t].overlay
RowsMoveForward == [][NoRowGoesBack]_vars

\* The strengthening of ServedPageIsCurrent and of RowsMoveForward.  Versions only grow,
\* for who deletes a transaction is the only one writing to it ...
RemovalsAreExclusive ==
    \A w \in Writers, t \in Txns :
        /\ t \in work[w].removed => Live(t) /\ \A v \in Writers \ {w} : t \notin work[v].ledger \cup work[v].removed
        /\ t \in work[w].ledger => ledger[t] # Deleted

\* ... so that what has been read or stored is never ahead of what is committed ...
Past(row, t) == row.overlay <= overlay[t] /\ (ledger[t] = Deleted \/ row.ledger <= ledger[t])

ReadsArePast ==
    /\ \A t \in Txns : Past(stored[t], t)
    /\ \A r \in Readers, t \in Txns : /\ seen[r][t] <= overlay[t] /\ Past(fresh[r][t], t) /\ Past(floor[r][t], t)
                                      /\ floor[r][t].ledger = Deleted => ledger[t] = Deleted

\* ... while what a drain makes of a marker it holds is behind neither the row it will
\* replace nor the start of any request that is running ...
DrainsAreAhead ==
    \A q \in Readers : pc[q] = "recompute" => \A t \in claimed[q] :
        /\ seen[q][t] >= stored[t].overlay
        /\ \A r \in Readers : floor[r][t].ledger > 0 => seen[q][t] >= floor[r][t].overlay
        /\ t \notin todo[q] => /\ \A r \in Readers : Covers(fresh[q][t], floor[r][t], t)
                               /\ fresh[q][t] # NoRow => /\ fresh[q][t].ledger >= stored[t].ledger
                                                         /\ fresh[q][t].overlay >= stored[t].overlay

\* ... and a request finds its changes stored, or under a marker it still has to claim or holds.
RequestsAreServed ==
    \A r \in Readers :
        /\ pc[r] # "rearm" => armed[r]
        /\ pc[r] # "claim" => want[r] = {}
        /\ pc[r] \in {"claim", "recompute", "rearm", "query"} =>
              \A t \in Txns \ (want[r] \cup claimed[r]) : Covers(stored[t], floor[r][t], t)

PageInv ==
    /\ IInv /\ RemovalsAreExclusive /\ ReadsArePast /\ DrainsAreAhead
    /\ RequestsAreServed /\ ServedPageIsCurrent

\* A drain that has begun ends: it never waits for a writer, and two drains
\* never wait for each other.
DrainEnds == \A r \in Readers : pc[r] = "claim" ~> pc[r] \in {"idle", "served"}
-----------------------------------------------------------------------------
Marked == {t \in Txns : queue[t] \in {Pending} \cup Readers}

Contract == INSTANCE StalenessContract WITH
    current <- [t \in Txns |-> Current(t)], marked <- Marked, excused <- escaped

\* The sessions, locks and batches implement the contract: a marker is never
\* discharged without storing what was current, whoever else is at work.
ImplementsContract == Contract!Spec
=============================================================================

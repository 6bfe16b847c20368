# FinanceDashboard: TLA+ models, checks and proofs

FinanceDashboard is one FastAPI process (`src/src/accounting` and `src/src/trades`
mounted side by side) over one Postgres database with row-level security, an
object store for uploaded and fetched statements, a few cron jobs, and a React
client. Requests run on a thread pool; each has one SQLAlchemy session, at READ
COMMITTED, whose transaction carries the acting user in a transaction-local
setting. What is hard in it is hardly ever arithmetic: it is two sessions of the
same user, a commit in the middle of a request, a process that stops.

Paths below are relative to the repository; the Python packages are in `src/src`.

## The system

| Component | State | Operations | How it meets the others | What makes it correct |
|---|---|---|---|---|
| Resolved-posting projection (`accounting/repositories/projection.py`, `accounting/db/projection.py`, `accounting/ledger/resolution.py`) | stored rows, staleness queue | trigger on every write, `drain`, page queries, `rebuild` | every writer of the accounting tables dirties it; `GET /postings` and four other routes drain it | a served row is what the pipeline would compute; a drain terminates; rows never go back |
| Sync runs (`trades/api/sync_runs.py`, `routers/sync.py`, `dependencies.py`) | `sync_runs` rows; thread pool and queue in memory | start, begin, progress, finish, fail, startup sweep, shutdown | request threads insert rows, pool threads update them, clients poll | one pull per user; every run ends; an ended run stays ended |
| Broker ledger (`trades/brokers/ibkr`) | `ledger_events` rows; statement archive outside the database | sync, rebuild | run by a sync run; read by every investments view | no event is lost, no hole is created, the archive can rebuild the ledger |
| Accounting imports (`accounting/importers/ingest.py`) | imported transactions, statement archive | bank and canonical import, rebuild | writes what overrides, links, merges and goals point at | an import never removes what another one added; copies keep their ids |
| Categories (`accounting/repositories/taxonomy.py`, `api/routers/categories.py`) | live tree, retired rows with successors | create, rename or merge, delete | rewrites overrides, budgets, patterns and splits in several commits | redirects end in a live category; a request stopped half way can be repeated |
| Files with categories (`accounting/importers/canonical`, `categorize_from_file.py`) | nothing of their own | import; preview and apply | write postings, overrides and categories | a tick means what was shown |
| Transfer links, rules, splits, merges (`accounting/ledger/transfers.py`, `duplicates.py`, `repositories/interpretation.py`) | one table each | reconcile, link, split, merge, dismiss | inputs of the resolution | one link per transaction; what is split stays counted; suggestions can be accepted |
| Overrides and pending suggestions (`api/routers/postings.py`, `ledger/pending.py`, `llm`) | one row per posting each | edit, suggest, validate, reject | inputs of the resolution | an edit is not undone by what read before it |
| Accounts (`api/routers/accounts.py`, `dashboard/net_worth.py`) | accounts, opening balances | create, edit, close with transfers, reopen, delete | postings and transfers name them | one currency per account; a transfer makes no money |
| Goals (`api/routers/goals.py`, `ledger/goal_automations.py`) | rules with a priority order, contributions | edit, reorder, fund, draw down | funded from what the dashboard leaves over | an order lists what is stored; funding stays within what there is |
| Trades ledger (`trades/ledger`, `trades/dashboard`) | none: computed from the events | lots, dividends, splits, taxes, idle cash | read by every investments view | books balance; each dollar and each share counted once |
| Market data (`trades/market_data`, `accounting/market_data`) | cache files and their backups | daily refresh | read by every valuation | live prices get replaced; rates have no holes |
| Provisioning (`db/provisioning.py`, webhooks) | users, external identities | sign-in, webhook | before any request | one identity, one user |
| Natural keys and row versions (`db/base.py`) | none | upsert with savepoint retry, prune, version check | every repository | concurrent upserts converge; a stale save is refused |
| Row-level security (`db/session.py`, `db/tenant.py`) | transaction-local user | `session_scope`, `set_rls_user` | every query | a query after a commit sees the user's rows |
| Database backups (`db/backup.py`, `db/timestamped_backups.py`) | stored dumps | dump, verify, upload, prune | run by cron or by hand | what is stored in the bucket restores; the newest are kept |
| LLM usage (`accounting/llm`) | counters per provider | fallback, record | each suggestion | no call counted twice |
| Web client, migrations, deployment, shared HTTP helpers | | | | not modelled |

`PROJECT.json` lists every component with its status, and under `hazards` each
place where this code can go wrong in a way a test would hardly reach.

## Modules

| Module | Models |
|---|---|
| `ResolvedProjection` | triggers, queue, drains and page queries of one user |
| `StalenessContract` | what the projection promises, without sessions or locks |
| `SyncRuns` | run rows, the requests that start them, the pool, the process |
| `BrokerLedger` | sync, archive, gap check, rewrite, rebuild |
| `CategoryTree` | the category tree, its tombstones, and what else names a category |
| `StatementLedger` | uploads, imports, rebuilds of the posting ledger |
| `TransferPairs` | transfer rules and links, splits, merges, and what counts as income |
| `Suggestions` | proposed transfers and duplicate groups |
| `PostingReview` | overrides and pending suggestions |
| `FileReview` | files with categories: import, preview, apply |
| `AccountBook` | accounts, opening balances, transfers at closing |
| `GoalAutomations`, `GoalFunding` | the ordered rules of goals; the money they move |
| `LotBook`, `LotAccounts` | the FIFO lot book; the lots kept one by one |
| `TaxReport` | terms, wash sales, qualified dividends, yearly reports |
| `CashLots` | idle cash and what it missed |
| `PriceCache`, `RateHistory` | the two caches of market data and their backups |
| `Provisioning`, `NaturalKeys`, `RowVersions` | users of accounts; upsert; version check |
| `ProviderUsage` | calls to language models and their counters |
| `Backups` | dumps of the database |
| `ResolvedProjection_proofs`, `SyncRuns_proofs`, `BrokerLedger_proofs`, `CategoryTree_proofs` | theorems about the module of that name |
| `Parts_proofs` | theorems about `ProviderUsage`, `RowVersions`, `Backups`, `PriceCache`, `GoalAutomations`, `PostingReview`, `AccountBook`, `TransferPairs`, `StatementLedger`, `RateHistory`, `Provisioning`, `NaturalKeys`, each an instance |
| `Money_proofs` | theorems about `CashLots` and `GoalFunding` |
| `Sums_proofs` | lemmas on sums, running totals and lists, without a state |
| `Records_proofs` | that the scenes of `MCRecords` have the properties of their parts |
| `MCResolvedProjection`, `MCSyncRuns`, `MCBrokerLedger`, `MCCategoryTree` | extended by the TLC runs |
| `MCRecords` | one instance of each module from `StatementLedger` on, for one run |

### ResolvedProjection

Data are versions: a transaction resolves to the version of the overlays
`overlay_context` reads once per drain, and of the ledger rows and overrides a
batch reads for itself. A write bumps them, a stored row remembers the versions it
was computed from, and "stale" is a comparison of versions.

| In the module | In the code |
|---|---|
| `queue[t]`: clean, pending, or a session | row of `resolved_postings_dirty`: absent, committed, or inserted or deleted by an open transaction |
| `WriteLedger`, `WriteOverlay`, `WriteWide`, `CreateTransaction`, `DeleteTransaction` | one statement on a table of `AFFECTED_TRANSACTIONS`, by the set of transactions it maps to |
| `EnqueueMarker` | the trigger's `INSERT ... ON CONFLICT DO NOTHING`, waiting for an uncommitted marker and stopping at nothing else |
| `CommitWrite`, `AbortWrite` | the request's commit, its rollback |
| `StartRead`, `ClaimMarker`, `NothingToDrain` | `DELETE ... RETURNING`: snapshot, one row at a time, waiting for another drain's row |
| `ReadContext`, `RecomputeBatch`, `CommitDrain`, `Rearm` | the rest of `drain` |
| `Query` | `filtered_page` and `page_rows`, empty if the security variable is unset |
| `FinishRead`, `FailRead` | the session is closed; every open change is rolled back |

`escaped`, `passed` and `floor` are history: what the queue missed, and what was
committed when a drain began. No action's guard reads them, except that the
accounting of `escaped` itself refers to `passed`.

`ClaimMarker` meets markers in the order of their ids: two drains scan one small
table by the same plan. The mutant `ClaimMarker_AnyOrder` shows that `DrainEnds`
rests on this (Postgres would abort one of the two: `FailRead`).

### SyncRuns

| In the module | In the code |
|---|---|
| `proc` | the process: down, after the startup sweep, serving, shutting down |
| `Sweep`, `Open`, `Shutdown`, `Stopped`, `Crash` | `_lifespan`, `fail_interrupted_runs`, `SyncRunner`, a kill |
| `Post`, `Lookup` | `start_run`: insert, or rollback and look for the run in flight |
| `Submit`, `CloseRun`, `Respond` | `post_sync_run` |
| `Pick`, `Begin`, `Sync`, `Finish`, `Fail` | `_execute_run` on a pool thread |
| `Wrote`, `WriteRaises` | `_apply` in a session of its own; a failed write may have been applied, when only the acknowledgement of its COMMIT was lost |

`Begin`, `Finish` and `Fail` write whatever the row holds, as the code does: no
update looks at the state it replaces. The legs of `_run_sync` catch their own
errors, so `Sync` goes on to `Finish` or, for an error outside them, to `Fail`.

### BrokerLedger

An event is a day and a place in that day; a statement covers a range of days and
reports what has happened in it so far. The ledger stores an event's time in UTC,
the statement's window is in the broker's days, and the gap check compares the two:
an `Evening` event, after midnight in UTC, counts for the day after (`StoredDay`).
`DeleteRows` and `InsertRows` are the two
statements of `_write_ledger`: the delete takes the rows of its snapshot and waits
for a delete already holding them, the insert fails on a key somebody else has put
there. `Stop` is an exception, a lost connection or a killed process at any point;
a session that waited goes on with what is left of the rows it saw (`End`). The archive is outside the
database, so nothing rolls it back.

`since`, `rebuilt` and `overlapped` are history the properties use.

### CategoryTree

| In the module | In the code |
|---|---|
| `rows` | `categories`: live and retired rows, `superseded_by_category_id` |
| `planned`, `legs`, `overrides`, `imported` | budgets and category patterns; split legs; overrides; what postings were imported under, which nothing rewrites |
| `PostCategory`, `PostSubcategory`, `Rename`, `Delete` | the handlers of `routers/categories.py`, with `normalize_categories`, `remap_category_ids`, `retire_categories`, `replace_categories` as operators of the tree |
| `Edit` | the order of a rename's or delete's writes: references, overrides (a commit), retirement, tree (a commit); it may stop after the first commit, and does if row-level security is enforced |
| `Import`, `MintFromFile`, `Refer` | a posting, a category that comes with a file, a budget, split or override a user makes |

Requests do not overlap in this module. `answer` and `lapses` are history. A category
id is the path of names its row was created with, as slugs are.

### StatementLedger

`Upload`, `Load`, `ImportBegins`, `ImportWrites` are `import_statement` and the canonical
import, in the order archive, parse, load, merge, write; `RebuildReads`, `RebuildBegins` and
`RebuildWrites` are `rebuild_from_raw_statements`. An import runs on the event loop, so there is
one at a time; the rebuild runs on a thread beside it. `Merge` is `_merge_ledger` with
`_reassign_colliding_transaction_ids`. A fingerprint stands for all that a transaction
id is hashed from.

`_write_ledger` reads the ids there are (`Begin`), upserts row by row, prunes what it had
read and does not have, and commits (`Write`). At READ COMMITTED the commit of the other job in between
is neither updated nor pruned: the ledger may become the union of both, two copies under
one suffix included, a row the other has inserted is refused by the unique key, and a row the
other has pruned is inserted again or not, by whether it had been merged already (`Behind`,
`Overtaken`). `overtaken` is a history variable of the job; the properties excuse such jobs and say
that no other loses or doubles anything. Two rebuilds at once are not modelled.

### TransferPairs and Suggestions

`TransferPairs` has what is stored: `ReconcileRuleLinks` is
`reconcile_and_persist_rule_links` with its choice among candidates, run by `Import`
and the rule writes; `CheckManualLink` and `Insert` are the two halves of
`POST /transfer-links`; `Collide` is the constraint that allows a transaction one link.
`Counted` is what `resolve_postings` leaves in the income and expense figures. Dates
and excluded transactions are folded into the set a rule `matched`.

`Suggestions` has what is computed on every request: `Candidates` and `Groups` are
`find_unmatched_transfer_candidates` and `find_duplicate_candidates`; union and find
are written out, without path compression (it changes no root). A transaction has the
legs its splits leave, each with an amount and description of its own, so a group may join two
transactions through a third one's halves. `Merge` replaces the decision recorded for the kept transaction,
as `upsert_posting_merge` does. A client acts on
the list it was shown, which may be old; `outdated` is history: something of what was merged
had been merged before.

### PostingReview and FileReview

`PostingReview`: each handler loads, computes and saves; `Save` is
`save_overrides_for_postings`, which deletes and inserts. Suggestions wait for a language
model between what they read and what they load (`Ask`, `Answer`). `before` is
history: what the posting showed when the pending suggestion was made.

`FileReview`: `Preview` and `Apply` of a file with categories, `ImportFile` of one as new
postings, and what may come between. `Matching` scores every row against every posting
and takes the best first; `Tops` and `Subs` resolve names to categories, renamed by
the user or not. How alike two descriptions are is a given number, on which nothing
else depends.

### AccountBook

`Look...` and `Put`, `Delete`, `Close`, `Import` are the two halves of the handlers of
`routers/accounts.py` and of an import: the check and the write. `Recorded` is what closing an
account with transfers leaves, `NetWorth` is that of `dashboard/net_worth.py` in one
currency. An imported posting has amount 1 on day 1. `overtaken` and `raced` are history.

### GoalAutomations and GoalFunding

The first is the ordered list: append, patch, reorder (`Replace` deletes a direction
and inserts what it had read), delete. The second is the money: `Due`, `Funded` and
`Drawn` are the recurring additions and the drawdown; the ids of what they insert are
derived from rule, goal and day (`AutoId`, `DrawId`), and a second insert of an id is refused
whole. `Additions` and `Draws` are what a run of a day would insert, `Unallocated` is what a
drawdown finds missing. Amounts are quarters of the smallest amount stored, so that `Quantized` really
rounds. A request is about today; `as_of` is not a parameter of a client in use. Contributions
typed in or changed by hand (`POST` and `PUT`, `goals.py:387-466`) are not actions, only their deletion is
(`Remove`). They are checked against nothing; a run under way when one is committed is out of date, as it is
after any other event, and a later one finds more or less unallocated, as it does after a change of
income.

### LotBook, LotAccounts, TaxReport, CashLots

`LotBook` is `LotBook` of `trades/ledger/lots.py` with the running dividend per share, and
the replay around it. `LotAccounts` states the same for every lot by itself; `Position`
maps one to the other and `LotsKeptOneByOne` says that every step of the book is one
of the accounts. Arithmetic is exact: the branches for float dust are not there.

`TaxReport` counts time in half days, since a sale counts whole days between two
datetimes and a preview days between dates. Dividends pay 1; splits and withholding are
left out; `as_of` is now.

`CashLots` takes a day of the requested range per step, as the answer for a shorter
range is a prefix of that for a longer one. One index stands for the benchmark or the
savings rate.

### PriceCache and RateHistory

Both are a file, its backups, and jobs that overlap or die between fetch, write and
backup. `Corrupt` makes the file unreadable; the next job restores the newest backup. In
`PriceCache` the provider may leave out a day; in `RateHistory` currencies are published on
days of their own, what there is of a day all at once (a currency that lags behind the others, or is added to
the list later, is not in it), and `Ask` and `Answer` are a request that reads the file twice. Only
the newest backup is kept in `RateHistory`, as only that one is ever read, and a request
ends before the next day's rates are published.

### Provisioning, NaturalKeys, RowVersions

`Provisioning`: `SignIn`, `Confirm`, `Provision`, `Link`, `Commit`, `Break` are the steps of
just-in-time provisioning and of the webhook; deliveries come late, repeatedly, in any
order. `NaturalKeys`: `merge_by_natural_key` as lookup, flush in a savepoint (row by row,
waiting for the holder of a key), conflict, retry; `Victim` is the database breaking a
circle. Rows are only added: the prune of `upsert_and_prune` is not in the module.
`RowVersions`: a versioned row under edits, toggles, posts and deletes. `Matches` is the comparison
in the UPDATE of `check_and_bump_row_version`; an edit whose row is deleted meanwhile ends in a 404 even
if the row is made again (`orphan`), as the new row has another id. A row made again begins at
version 1, and an edit of whoever has seen version 1 of the old one overwrites it unseen: that is
the exception the property makes for a POST (`reposted`).

### ProviderUsage and Backups

`ProviderUsage`: `complete_with_fallback` and `record_call`, which reads all counters and
writes all of them. `Backups`: dump, scratch database, restore, take a name, store, list,
delete one by one, with a crash anywhere. With a bucket (`remote`) an object is stored whole or not at
all and a listing has pages; without one the file is opened under its final name and written after
that (`BeginWrite`, `EndWrite`), so that a job that ends between leaves a dump cut short, and two
jobs of one second may mix theirs. A name is taken before the dump is stored, so an older name may be
stored after a newer one.

## What the runs check

| Run | Bounds | Result |
|---|---|---|
| `ResolvedProjection` | 2 transactions, 2 writers, 2 readers, batches of 1, 3 statements | `TypeOK`, `StaleRowIsAccountedFor`, `ServedPageIsCurrent`, `ImplementsContract` hold |
| `ResolvedProjectionLive` | 2 transactions, 1 writer, 2 readers, batches of 2, 2 statements | `DrainEnds`, `RowsMoveForward` hold |
| `LostInvalidation` | 1 writer, 1 reader | `StaleRowHasMarker` is violated |
| `SyncRuns` | 2 users, 2 requests, 3 runs, 1 pool thread, 1 stop, 1 failed write | `OwnedUnlessAWriteFailed`, `OneSyncPerUser`, `EndedRunsStayEnded`, `EveryRunEnds` hold |
| `SecondStart` | 1 user, 2 requests | `SecondStartIs409` is violated |
| `OrphanedRun` | 1 user, 1 failed write | `RunningRunIsExecuted` is violated |
| `BrokerLedger` | 3 days of 2 events, one syncing and one rebuilding session, 3 jobs | `LedgerIsRecoverable`, `SyncsLeaveNoHole`, `NothingIsLost` hold |
| `RebuiltGap` | 3 days, 3 jobs | `NoForwardHole` is violated |
| `OlderPull` | 4 days, 2 jobs | `AcceptedPullConnects` is violated |
| `Categories` | 2 names, 1 posting, 4 requests after the first, row-level security on or off | `NothingNamesTheRetired`, `LiveTreeIsWhole`, `ResolutionFollowsRequests`, `OneRetrySuffices` hold |
| `TombstoneChain` | 3 names, 4 requests, renames, deletes and overrides only | `NoTombstoneNamesATombstone` is violated |
| `Records` | eighteen scenes, see below | one or two properties each, and `RecordsTypeOK`, hold |

Why these bounds. Every race of the projection is between two sessions and about
one transaction; the second transaction is there for batches, for drains that hold
one marker and wait for another, and for wide writes. Three statements let a
write, a wide write and a create or delete meet one another and a drain. A sync run
meets at most one other request, one other user in the pool, and one restart; a
second failed write repeats the effect of the first. A hole needs three days
(covered, missed, refused) and three jobs (first pull, refused pull, rebuild); two
events in a day make the last day partly reported. The three days have an evening
only, a day and an evening, and no evening (`MixedEvenings`).

A merge of two categories with subcategories and catch-alls needs two names, and four
requests let one be deleted, made again, merged and used. A chain of tombstones needs
a third name; its run leaves out creation and files to reach it.

`Records` runs eighteen modules that share no state. Its first step chooses a `scene`; only
that module moves afterwards, and the modules lend each other the variables `v1` to
`v10` (each INSTANCE says which). Every property begins with the scene it is about. One
run has one search for all of them, and the constants of each stand beside its instance
in `MCRecords`. The two callers of most scenes are interchangeable (`Swaps`).

| Property | Bounds |
|---|---|
| `CopiesStayApart`, `OnlyOvertakenJobsLose` | five kinds of statement, two fingerprints, two uploads, a rebuild beside them |
| `LinksRespectWhatIsThere` | three transactions (two payments, one receipt), two rules, two requests, two edits |
| `SuggestionsHoldTogether` | six transactions, one of them split, two arriving later, four decisions |
| `ReviewsTouchTheirOwn` | one posting, two categories, two handlers at once, four requests; two categories are alike, and row-level security is enforced only with a posting without category |
| `FilesMeanWhatTheyShow` | two files, three renamings, two postings, one client, two changes between preview and apply |
| `AccountsAgree` | three names, two currencies, a transfer in either direction, two handlers at once, three requests |
| `WritesKeepTheList` | two contribution rules and a withdrawal rule, two handlers, four requests |
| `FundingStaysInBounds` | three rules (percentage, fixed, remainder), two goals, two days, two runs, four events |
| `LotsAreKept` | two prices, two days, four events |
| `TaxesFollowTheTrades` | two symbols alike on one side, two tax years and two regimes, four events |
| `EveryDollarOnce` | four days, three balances (one negative), three index values (one missing) |
| `LivePricesSettle` | three days, the first a holiday, two jobs at once, three jobs |
| `EveryAmountHasARate` | six days, one currency with a gap and one given up, two jobs |
| `UsersFollowTheirAccounts` | one account, two request threads and the webhook, two attempts each |
| `LostRacesBecomeUpdates` | three sessions, batches of two keys in both orders, four attempts |
| `EditsReplaceWhatWasSeen` | two clients, two priorities and a switch, three versions: an edit naming the first meets the second and the third |
| `UsageIsNeverOverstated` | two providers, two callers, two calls each, one rollover |
| `NewestBackupsAreKept` | four jobs, two at once, one backup kept, a bucket with pages of two or a directory |

Two callers are enough where what is checked is what one of them had read when the other
wrote; three sessions are there where a third can wait for the second. Events are as
many as the longest story needs: a value, a change, a run that read before it, its
write.

Deadlock is checked except where the system may stop for good: nobody has to start
another sync, job or request, so the configurations of `SyncRuns`, `BrokerLedger`,
`CategoryTree` and `Records` turn it off.

### What the violations show

1. **A lost invalidation.** Transaction T is pending. Session W changes T; its
   trigger finds the marker, inserts nothing and locks nothing. A read drains T,
   recomputes it from what is committed, commits. W commits. T is stale and
   nothing says so, until something else touches it. The same happens to a
   transaction created while a rule or an account is being written.
   `StaleRowIsAccountedFor` is what remains true, and `escaped` names exactly these.
2. **A second start answers 500.** `start_run` looks for the run in flight after a
   rollback, when the row-level-security variable is gone.
3. **A run that nobody executes.** A run begins, fails, and `fail_run`, the one write that would close
   it, raises. The pool swallows the exception and the row says `running` until a restart.
   `OwnedUnlessAWriteFailed` is what remains true.
4. **A rebuild makes a hole.** Statements are archived before the check that may
   refuse them, and a rebuild does not check. In the trace no two jobs overlap: a first pull, a
   pull of the day after the next, refused, and a rebuild.
5. **A pull of older days** is accepted although it connects to nothing.
6. **A tombstone names a tombstone.** A merge stops after its first commit (an error,
   or row-level security: the commit drops the user). The catch-all of the name it
   retired stays behind. A later merge of that leftover maps it to a catch-all that is
   retired already, and `load_category_redirects` follows one hop only.
`SyncsLeaveNoHole` allows one exception, the rest of an evening: if a statement
reports part of an evening, its last event is stored under the next day and a pull
beginning there is accepted. Statements of whole days (those in
`tests/trades/brokers/ibkr/test_ibkr.py` are made the morning after) cannot do this,
nothing in the code requires them. `NoForwardHole` under `MixedEvenings` has a trace.

`BrokerLedger` also shows that two overlapping jobs lose updates (remove
`~overlapped` from `NothingIsLost`): the second rewrite deletes rows its merge
never read. They stay in the archive, which is `LedgerIsRecoverable`.

### Fairness

`ResolvedProjection`: a request that has begun keeps executing and a writer's
transaction ends, because the request ends and `get_db` closes its session (weak
fairness per session; commit or abort, not commit). Strong fairness of
`ClaimMarker`: a session waiting for a row lock is woken in its turn, and other
drains could otherwise take the row again and again. No fairness of `StartRead`
or of any writing statement.

`SyncRuns`: threads run (`Serve`, `Execute`, `Pick`), and a process that went down
is started again (`restart: unless-stopped`), so `Boot` is weakly fair. The broker
pull ends because it is a bounded number of bounded polls. Nothing obliges a user to
start a sync or the process to stop.

`BrokerLedger`, `CategoryTree` and the modules of `Records` have safety properties only.
What must happen eventually in them is said as what one more request does:
`OneRetrySuffices` (the next request of the same kind finishes what a stopped one
began) and `LivePricesSettle` (a run that gets all it asks for).

## What is proved

Every theorem is for every value of the constants, from the assumptions named in the
modules: names that must differ do, numbers are natural. None assumes anything of the
code. In each module `IInv` is the invariant that every step preserves, with a comment on
each part; TLC has checked every one of them on its run's instance.

`ResolvedProjection_proofs`, for all transactions, writers, readers and batch sizes:

- `TypeCorrect`: `Spec => []TypeOK`.
- `StaleRowsAccountedFor`: `Spec => []StaleRowIsAccountedFor`. It is not inductive by
  itself: that a drain's commit makes a row current depends on what the drain read
  and when. `IInv` adds that a drain's list is exactly the markers it holds
  (`ClaimsAreHeld`), that an open write has dealt with each transaction it changed or
  still owes it (`WritesAreEnqueued`), and that what a drain has read of a claimed
  transaction that has not escaped is what is committed (`RecomputeIsCurrent`). The
  step that needs all three is `CommitWrite`: if it changes a transaction some drain
  holds, the write cannot own its marker, so it is in `passed`, so it escapes.
- `ServedPagesAreCurrent` and `RowsMoveForwardHolds`, from `PageInv`. A page may be served
  from a row that another request's drain computed, so the invariant follows the versions
  through every drain: they only grow (`RemovalsAreExclusive`, `ReadsArePast`); what a drain
  computes is behind neither the row it replaces nor the beginning of any request
  (`DrainsAreAhead`); and what a request must show is stored, or under a marker it has yet
  to claim or holds (`RequestsAreServed`). The last two need each other: a request that
  finds no marker relies on the drain that took it being ahead of it.
- `ProjectionImplementsContract`: `Spec => ImplementsContract`, from `IInv`, one lemma per
  kind of step: writers' commits are `Change`, `CommitDrain` is `Refresh`, `ClaimMarker` is
  `TakeOn`, all else stutters.

`SyncRuns_proofs`, for all users, requests, runs, pool sizes, stops and failed writes:
`SyncRunsTypeCorrect`, `OneSyncPerUserHolds`, `RunsAreOwned`, `EndedRunsStay`; the last two as far as no
write of a row has failed (after a lost acknowledgement of `finish_run` the run is closed once more, by
`fail_run`). The invariant
follows a run from the request that made it through the queue to a pool thread: it is in
one of these at a time (`OnePlacePerRun`), its row says which (`RowFollowsPlace`), a user has one
active row (`OneActiveRunPerUser`, what the unique index enforces), and before the process
serves there is nothing in memory (`NothingBeforeServing`). No update of a row looks
at the state it replaces; that an ended run stays ended is a matter of places alone.

`BrokerLedger_proofs`, for all days, events, evenings and sessions:

- `BrokerTypeCorrect` and `LedgerRecoverable`. `RowsAreArchived` says
  that what a session is about to write came from the archive: a sync's statement is
  archived before its rows are merged, and a rebuild reads nothing else.
- `NothingIsLostHolds`: until jobs overlap, what the one at work is about to write
  contains the ledger (`OneJobHoldsTheLedger`).
- `SyncsLeaveNoHoleHolds`, for one syncing session beside any number that rebuild: statements lack
  nothing that came before an event they report (`StatementsAreComplete`), and the
  ledger a sync has checked is the one it rewrites (`SyncsRewriteWhatTheyChecked`). The hypothesis is
  needed, as TLC finds a hole with two sessions, and `OneSyncPerUserHolds` provides it.

`CategoryTree_proofs`, for all names, default trees and numbers of requests, from
`NamesAssumption`, `SeedAssumption` (the default tree comes with its parents and is
normalised, as the one in `accounting/taxonomy.py` is) and `RequestsAssumption`:

- `TypeOKHolds`, `LiveTreeIsWholeHolds`, `NothingNamesTheRetiredHolds`. The
  invariant is about trees first (`Shape`): parents are top-level and live, catch-alls
  hang under the category they are of, siblings have different names. The lemmas of the first part
  say what `Normalize`, a rename, a merge, a delete and the categories of a file make
  of such a tree, those of the second what `Upsert`, `Retire` and `Replace` write of it. That nothing
  names a retired category rests on one more fact: no catch-all is alone
  (`NoneIsLone`). A merge sends the catch-all of what it merges to the
  catch-all of its target, and only a target that keeps a real child has one afterwards.
- `ResolutionFollowsRequestsHolds`: what a key resolves to is followed through the last
  request's mapping (`Heir`), as long as it ends in a row (`Kept`). The case in which it does not was
  met in the proof and confirmed with TLC on three names and five requests: after two
  merges that stopped, a lone catch-all goes with the next edit, and what was redirected to it
  resolves to nothing. The property now says so.

`Parts_proofs` has one section per module, each with what it assumes of that module's constants:

- `OneUserPerAccountHolds` and `DeletionIsFinalHolds` (`Provisioning`), for all accounts, threads
  and attempts. A worker holds an id that nobody else has (`WorkersHoldFreshIds`), a link
  belongs to its account and stays (`LinksStay`), and who was deleted after being linked has
  an inactive user (`EndedUsersAreInactive`).
- `LostRacesBecomeUpdatesHolds` (`NaturalKeys`), for all batches and at most as many
  transactions as `merge_by_natural_key` has attempts. Each attempt a merge has lost, it lost
  to a different transaction that has ended since (`RacesAreCounted`); with one transaction more
  than attempts TLC has a merge that gives up, so the bound is exact.
- `UsageIsNeverOverstatedHolds` (what a caller has read is honest about the period it read),
  `EditsReplaceWhatWasSeenHolds` (who has bumped the version holds the row, and what a client has seen
  is there, or was replaced by a later version, or is gone: `LaterThanSeen`),
  `NewestBackupsAreKeptHolds` (what a job is about to delete was outlived when it listed what
  there is, and later uploads only push it further down; of a local file it does not say that it is
  whole), `LivePricesSettleHolds` (a price that
  was still moving has had no complete run since).
- `WritesKeepTheListHolds` (`GoalAutomations`), for all rules and requests, additions and
  withdrawals being different rules. A rule about to be written is one the checks took beside
  the rules there are (`ChecksStillHold`), an order about to be written is one of all rules of
  its direction (`OrdersAreWhole`), each unless another write came between.
- `ReviewsTouchTheirOwnHolds` (`PostingReview`), without assumptions. What a request means to
  save differs from what is stored in its own fields only, for every posting nobody saved
  since (`Keeps`); that rejecting restores what was shown needs what a fresh suggestion remembers
  (`Remembers`), and that needs what a request waiting for the language model had read.
- `AccountsAgreeHolds` (`AccountBook`), for finitely many accounts to begin with and moves of
  integer amounts. Every posting is on an account of its currency (`Stands`) and every transfer is
  one a user asked for (`Tells`); the sums before and after a closing are compared account
  by account.
- `LinksRespectWhatIsThereHolds` (`TransferPairs`): what a request is about to link was neither split nor
  linked when it looked, and no two of its proposals share a transaction (`ProposalIsSound`). An insert
  that collides does so with a link of another request, and a rule that has gone was
  deleted by one (`RulesStand`).
- `OnlyOvertakenJobsLoseHolds` and `CopiesStayApartHolds` (`StatementLedger`), for all files whose
  rows are given. Whatever a bank importer made is in the archive (`Archived`), also in what overlapping
  jobs leave; a job nobody overtook knows the ledger, has found it, and, if it is an import, is about to
  write the merge of it (`ImportStands`, `RebuildStands`). A merge of copies numbered without gaps
  numbers the ones it adds from where those end; as two overlapping jobs may leave numbers that are not,
  the theorem is about the step: numbered copies stay numbered unless the write was
  overtaken. Importing a file again adds nothing by their count alone.
- `EveryAmountHasARateHolds` (`RateHistory`), for rates of every currency published with pauses shorter
  than the window: a history is always the published rates between two days (`HasNoHole`),
  whichever of two jobs writes last.

`Money_proofs` is about what loops over a ledger compute:

- `EveryDollarOnceHolds` (`CashLots`), for all balances, dates and indices. `IInv` adds to the
  property that what is reported of a day is its balance (`DaysPass`) and that nothing is reported before
  the range (`RangesBegin`); a withdrawal is followed lot by lot, the newest first.
- `FundingStaysInBoundsHolds` (`GoalFunding`), for all rules of whole amounts and all incomes, no goal being
  listed twice in the order of drawdowns (`SchemesAreSound`); percentages may come to more than a hundred. A
  run that is not out of date would compute the same again, or inserts nothing
  (`RunsAreCurrent`), so its bounds are those of what a run computes when it writes: bounds on
  sums over rules in priority order, of which each takes what the ones before it left.

What a loop computes takes induction over data. The library's induction theorems have
an operator as a parameter, which the installed provers cannot instantiate, but an induction over a
set of numbers (the `n` for which the statement holds) they can do. `Sums_proofs` states so, once,
what the modules' folds and recursive functions are: that a recurrence has a solution and
only one, that a sum is the same in any order, splits at a point, is linear, and moves with a renaming;
that a list of demands filled in order from a limited supply takes the lesser of both.

`Records_proofs` carries the theorems of `Parts_proofs` and `Money_proofs` to `MCRecords`: a behaviour that
plays a part's scene is one of the part, with the scene's constants, which satisfy what the theorem
assumes.

Only model-checked:

- liveness: `DrainEnds`, `EveryRunEnds` (the prover has no ENABLED, so no fairness);
- `OneRetrySuffices`, which runs a second request on the state a first one leaves;
- of `Records`: `LotsAreKept`, `TaxesFollowTheTrades`, `SuggestionsHoldTogether` and
  `FilesMeanWhatTheyShow`, whose recursions over lots, trades, edges and rows are checked on small
  inputs only, and `RecordsTypeOK`.

## Disagreements without a run

Met while modelling; the modules have the code's behaviour, and where a property would
fail because of it the property says so.

- A new contribution rule is said to go "after the current lowest-priority
  contribution" (`routers/goals.py:532`); its place is the number of rules, which after a
  deletion may be one that is taken. A patch that waits for a delete brings the rule back.
- `prices.py:250` fetches again one day less than the comment at line 45 says.
- A link is not to exclude a split transaction; `PUT /splits` on a linked one is
  accepted, and a rule with a counterparty that is never imported redirects a linked one, which then counts twice.
- `run_backup` says that "a broken dump can never replace or sit alongside a good one" (`backup.py:310-313`).
  Without a bucket the dump is written onto its final name; a job killed meanwhile leaves a file that
  does not restore beside the good ones, and the next prune counts it among the newest
  (`NewestBackupsAreKept` says only of the bucket that what is stored is whole).
- A merge "shrinks two or more transactions down to the single one that's kept"
  (`categorization.py:365-368`). Of two duplicates on the screen, one request may keep the first and drop the
  second, the next keep the second and drop the first; both are recorded
  (`interpretation.py:1027`) and neither transaction is left. `EventsStay` holds until something is merged
  from an outdated list (`outdated`), and `SuggestionsHoldTogether` says so.
- A group that contains a transfer typed in by hand
  may span two accounts. A dismissed group is proposed again when it grows. A merge that keeps the same
  transaction as an earlier one replaces it, and what the earlier one had dropped is back.
- A link committed while a write looks up the links of what it prunes (`ingest.py:317`) keeps one end.
- Transfer suggestions offer split transactions, which `POST /transfer-links` refuses.
- The AI suggestion under enforced row-level security always ends in a 500: counting the
  call commits, and the posting is then not found. Rejecting a suggestion freezes the
  rule's category as an override. The notes in `ledger/pending.py:10` and
  `corrections.py` describe an earlier version.
- An apply of a file matches it again (`imports.py`), against what the ledger has become.
- Deleting an account at the provider before its creation is handled leaves an active
  user, and `users.is_active` is not read when a request is authenticated.
- A rebuild raises if an account was imported through the canonical route or a failed
  upload was archived, and does not see spreadsheets; `ingest.py:909` says otherwise. A file uploaded twice
  is two files to it.
- A wash sale is marked by lot: a part sold at a gain is marked when another part of its
  lot was a washed loss (`taxes.py:448` says never). `qualified_dividend_window_days` is half the window
  its documentation calls it. Classification of dividends does not know splits.
- A negative cash balance that is refilled makes a lot of the whole deposit, which the
  summary reports as missed earnings; a range that starts late ignores the balance
  before it.
- A cache file that is damaged before its first backup stays unreadable until it is
  deleted.

## What is not modelled

- `rebuild` of the projection: no request calls it. The three queries of one page
  are one step. Statement timeouts are `FailRead` and `AbortWrite`.
- Which overlay row dirties which transaction (the joins of `AFFECTED_TRANSACTIONS`):
  the module has the four shapes they take, not the joins.
- A read's exception when a transaction is deleted between two of its statements.
- Progress percentages of a run, and the polling client.
- Parsing of bank statements, spreadsheets and pay stubs: text in, rows out.
- Simulator, projections and charts (`accounting/dashboard` beyond net worth, income and
  what goals are funded from; `trades/dashboard` beyond idle cash; NAV and metrics): they compute
  values from data frames and decide nothing.
- Secrets and encryption, settings and broker connections: one row, one write.
- Prompts and answers of the language models: inputs of `PostingReview`.
- Overlapping category requests: `CategoryTree` serves one at a time.
- Schema migrations, deployment files and the web client. What a client reads before
  it writes is part of the requests.

`PROJECT.json` has every component with its status.

## What is left

In the order of what it would show:

1. A proof of `LotsAreKept`: the running dividend figures of `LotBook` against the lots kept one by one
   is an induction over the queue of lots, with `Sums_proofs` at hand.
2. Proofs of `SuggestionsHoldTogether` (union and find yield the connected parts) and
   `FilesMeanWhatTheyShow` (best first).
3. Category requests that overlap: each handler's load and its two commits as steps of their own.
4. The three queries of a page as three steps, for the counts that disagree with the rows.
5. The prune of `upsert_and_prune` beside a merge of the same keys.

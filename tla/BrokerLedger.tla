---------------------------- MODULE BrokerLedger ----------------------------
(***************************************************************************)
(* One user's investment ledger and its raw-statement archive: a sync      *)
(* fetches a statement, archives it, checks it for a gap against the       *)
(* stored ledger and rewrites the ledger merged with it; a rebuild         *)
(* rewrites the ledger from everything archived                            *)
(* (src/src/trades/brokers/ibkr/main.py and api.py).                       *)
(*                                                                         *)
(* An event is a day at the broker and its place in that day.  A statement *)
(* counts days in the broker's time zone, the ledger in UTC: the evening's *)
(* events are stored under the day after.                                  *)
(*                                                                         *)
(* The archive is files or an object store, the ledger is rows in          *)
(* Postgres: no transaction spans both, and anything may stop between two  *)
(* steps.  A rewrite is a DELETE of the rows its snapshot saw, which waits *)
(* for a rewrite that is deleting them, and an INSERT that the unique key  *)
(* (user_id, natural_key) may refuse.                                      *)
(***************************************************************************)
EXTENDS Naturals

CONSTANTS
    LastDay,        \* bound: days in one behaviour
    EventsPerDay,   \* bound: broker events in one day
    Evening,        \* the events late enough to be after midnight in UTC
    Syncers,        \* sessions that may sync
    Rebuilders,     \* sessions that may rebuild
    MaxJobs         \* bound: syncs and rebuilds started in one behaviour

ASSUME DaysAssumption == LastDay \in Nat \ {0} /\ EventsPerDay \in Nat \ {0}
ASSUME JobsAssumption == MaxJobs \in Nat

Days     == 1 .. LastDay
Events   == Days \X (1 .. EventsPerDay)
Sessions == Syncers \cup Rebuilders
Day(e)   == e[1]
Before(e, f) == Day(e) < Day(f) \/ (Day(e) = Day(f) /\ e[2] < f[2])

\* What follows an evening event on its day is an evening event.
ASSUME EveningAssumption ==
    /\ Evening \subseteq Events
    /\ \A e \in Evening, f \in Events : Day(f) = Day(e) /\ Before(e, f) => f \in Evening

\* parse_ibkr_datetime: the day of the event's naive UTC time.
StoredDay(e) == IF e \in Evening THEN Day(e) + 1 ELSE Day(e)

\* A statement: the days it covers and the events it reports.
Statement == [from : 0 .. LastDay, to : 0 .. LastDay, events : SUBSET Events]

VARIABLES
    today,
    happened,   \* the events there have been at the broker
    ledger,     \* committed rows of trades.ledger_events
    archive,    \* the statements archived
    pc,         \* per session: idle, archive, check, delete, blocked, insert
    pulled,     \* per session, the statement its sync fetched
    rows,       \* per session, the merged ledger it is about to write
    gone,       \* per session, the committed rows its DELETE is deleting
    since,      \* history: the first day covered by the sync that began the ledger, or 0
    rebuilt,    \* history: whether a rebuild has written the ledger
    overlapped, \* history: whether two jobs have run side by side
    started     \* jobs so far (bounded)

worldVars   == <<today, happened>>
sessionVars == <<pc, pulled, rows, gone>>
historyVars == <<since, rebuilt, overlapped>>
vars        == <<worldVars, ledger, archive, sessionVars, historyVars, started>>

NoStatement == [from |-> 0, to |-> 0, events |-> {}]
Archived    == UNION {s.events : s \in archive}

Init ==
    /\ today = 1
    /\ happened = {}
    /\ ledger = {}
    /\ archive = {}
    /\ pc = [p \in Sessions |-> "idle"]
    /\ pulled = [p \in Sessions |-> NoStatement]
    /\ rows = [p \in Sessions |-> {}]
    /\ gone = [p \in Sessions |-> {}]
    /\ since = 0
    /\ rebuilt = FALSE
    /\ overlapped = FALSE
    /\ started = 0
-----------------------------------------------------------------------------
(* The broker                                                              *)

NextDay ==
    /\ today < LastDay
    /\ today' = today + 1
    /\ UNCHANGED <<happened, ledger, archive, sessionVars, historyVars, started>>

Happen(e) ==
    /\ Day(e) = today /\ e \notin happened
    /\ \A f \in Events : Day(f) = today /\ Before(f, e) => f \in happened
    /\ happened' = happened \cup {e}
    /\ UNCHANGED <<today, ledger, archive, sessionVars, historyVars, started>>
-----------------------------------------------------------------------------
(* A sync                                                                  *)

Start(p, step) ==
    /\ pc[p] = "idle" /\ started < MaxJobs
    /\ pc' = [pc EXCEPT ![p] = step]
    /\ started' = started + 1
    /\ overlapped' = (overlapped \/ \E q \in Sessions : pc[q] # "idle")
    /\ UNCHANGED <<since, rebuilt>>

\* Mutant of Fetch: the end of the window is taken as exclusive.
Fetch_ExclusiveEnd(p, from, to) ==
    /\ p \in Syncers /\ Start(p, "archive")
    /\ from <= to /\ to <= today
    /\ pulled' = [pulled EXCEPT ![p] =
          [from |-> from, to |-> to + 1, events |-> {e \in happened : from <= Day(e) /\ Day(e) <= to}]]
    /\ UNCHANGED <<worldVars, ledger, archive, rows, gone>>

\* fetch_flex_statement: the query's window, reported as of now.
Fetch(p, from, to) ==
    /\ p \in Syncers /\ Start(p, "archive")
    /\ from <= to /\ to <= today
    /\ pulled' = [pulled EXCEPT ![p] =
          [from |-> from, to |-> to, events |-> {e \in happened : from <= Day(e) /\ Day(e) <= to}]]
    /\ UNCHANGED <<worldVars, ledger, archive, rows, gone>>

\* Mutant of Archive: an archive that cannot be written does not stop the sync.
Archive_BestEffort(p) ==
    /\ pc[p] = "archive"
    /\ archive' \in {archive, archive \cup {pulled[p]}}
    /\ pc' = [pc EXCEPT ![p] = "check"]
    /\ UNCHANGED <<worldVars, ledger, pulled, rows, gone, historyVars, started>>

\* save_raw_statement, under a name nobody has taken.
Archive(p) ==
    /\ pc[p] = "archive"
    /\ archive' = archive \cup {pulled[p]}
    /\ pc' = [pc EXCEPT ![p] = "check"]
    /\ UNCHANGED <<worldVars, ledger, pulled, rows, gone, historyVars, started>>

\* The last UTC day the ledger has an event on, which the code takes as covered.
ReachesBack(day) == \E e \in ledger : StoredDay(e) >= day

\* Mutant of Gap: a pull that begins the day after the ledger's last event is let through.
Gap_NextDayConnects(p) == ledger # {} /\ ~\E e \in ledger : StoredDay(e) + 1 >= pulled[p].from

\* TradeHistoryGapError: the pull begins after the ledger ends.
Gap(p) == ledger # {} /\ ~ReachesBack(pulled[p].from)

Idle(p) == /\ pc' = [pc EXCEPT ![p] = "idle"]
           /\ pulled' = [pulled EXCEPT ![p] = NoStatement]
           /\ rows' = [rows EXCEPT ![p] = {}]
           /\ gone' = [gone EXCEPT ![p] = {}]

\* Mutant of LoadAndCheck: the statement replaces the ledger.
LoadAndCheck_NoMerge(p) ==
    /\ pc[p] = "check"
    /\ \/ /\ ~Gap(p)
          /\ rows' = [rows EXCEPT ![p] = pulled[p].events]
          /\ pc' = [pc EXCEPT ![p] = "delete"]
          /\ UNCHANGED <<pulled, gone>>
       \/ Gap(p) /\ Idle(p)
    /\ UNCHANGED <<worldVars, ledger, archive, historyVars, started>>

\* Load the ledger, check for a gap, merge by event id.
LoadAndCheck(p) ==
    /\ pc[p] = "check"
    /\ \/ /\ ~Gap(p)
          /\ rows' = [rows EXCEPT ![p] = ledger \cup pulled[p].events]
          /\ pc' = [pc EXCEPT ![p] = "delete"]
          /\ UNCHANGED <<pulled, gone>>
       \/ Gap(p) /\ Idle(p)
    /\ UNCHANGED <<worldVars, ledger, archive, historyVars, started>>
-----------------------------------------------------------------------------
(* rebuild_from_raw_statements                                             *)

\* Every archived statement, merged; FileNotFoundError when there is none.
ReadArchive(p) ==
    /\ p \in Rebuilders /\ archive # {} /\ Start(p, "delete")
    /\ rows' = [rows EXCEPT ![p] = Archived]
    /\ UNCHANGED <<worldVars, ledger, archive, pulled, gone>>
-----------------------------------------------------------------------------
(* _write_ledger                                                           *)

Deleting(q) == pc[q] = "insert" /\ gone[q] # {}

\* DELETE: the rows committed now, once nobody else is deleting them.
DeleteRows(p) ==
    /\ pc[p] = "delete"
    /\ gone' = [gone EXCEPT ![p] = ledger]
    /\ pc' = [pc EXCEPT ![p] = IF \E q \in Sessions : Deleting(q) THEN "blocked" ELSE "insert"]
    /\ UNCHANGED <<worldVars, ledger, archive, pulled, rows, historyVars, started>>

\* p's transaction ends having deleted the rows d: who waited for it goes on
\* with what is left of the rows it saw.
End(p, d) ==
    /\ pc' = [q \in Sessions |-> IF q = p THEN "idle" ELSE IF pc[q] = "blocked" THEN "insert" ELSE pc[q]]
    /\ gone' = [q \in Sessions |-> IF q = p THEN {} ELSE IF pc[q] = "blocked" THEN gone[q] \ d ELSE gone[q]]
    /\ pulled' = [pulled EXCEPT ![p] = NoStatement]
    /\ rows' = [rows EXCEPT ![p] = {}]

Kept(p)     == ledger \ gone[p]
Conflict(p) == rows[p] \cap Kept(p) # {}

\* INSERT and COMMIT.
InsertRows(p) ==
    /\ pc[p] = "insert" /\ ~Conflict(p)
    /\ ledger' = Kept(p) \cup rows[p]
    /\ since' = IF ledger = {} /\ rows[p] # {} THEN pulled[p].from ELSE since
    /\ rebuilt' = (rebuilt \/ pulled[p] = NoStatement)
    /\ End(p, gone[p])
    /\ UNCHANGED <<worldVars, archive, overlapped, started>>

\* The unique key refuses a row another rewrite has put there.
InsertRefused(p) ==
    /\ pc[p] = "insert" /\ Conflict(p)
    /\ End(p, {})
    /\ UNCHANGED <<worldVars, ledger, archive, historyVars, started>>

\* A step that raises, a connection or a process that dies.
Stop(p) ==
    /\ pc[p] # "idle"
    /\ IF Deleting(p) THEN End(p, {}) ELSE Idle(p)
    /\ UNCHANGED <<worldVars, ledger, archive, historyVars, started>>
-----------------------------------------------------------------------------
Proceed(p) ==
    \/ Archive(p) \/ LoadAndCheck(p)
    \/ DeleteRows(p) \/ InsertRows(p) \/ InsertRefused(p)

Next ==
    \/ NextDay \/ \E e \in Events : Happen(e)
    \/ \E p \in Sessions : \/ \E from, to \in Days : Fetch(p, from, to)
                           \/ ReadArchive(p) \/ Proceed(p) \/ Stop(p)

Spec == Init /\ [][Next]_vars
-----------------------------------------------------------------------------
(* Properties                                                              *)

TypeOK ==
    /\ today \in Days
    /\ happened \in SUBSET Events
    /\ ledger \in SUBSET Events
    /\ archive \in SUBSET Statement
    /\ pc \in [Sessions -> {"idle", "archive", "check", "delete", "blocked", "insert"}]
    /\ pulled \in [Sessions -> Statement]
    /\ rows \in [Sessions -> SUBSET Events]
    /\ gone \in [Sessions -> SUBSET Events]
    /\ since \in 0 .. LastDay
    /\ rebuilt \in BOOLEAN /\ overlapped \in BOOLEAN
    /\ started \in 0 .. MaxJobs

\* Whatever stops when, each event of the ledger is in an archived statement:
\* a rebuild brings it back.
LedgerIsRecoverable == ledger \subseteq Archived

\* As long as one job runs at a time, no sync and no rebuild, wherever it
\* stops, takes an event out of the ledger.
NothingIsLost == [][~overlapped => ledger \subseteq ledger']_vars

\* What has happened between the first day covered and the ledger's last event
\* and is not in the ledger.
Missing == {e \in happened \ ledger : since # 0 /\ Day(e) >= since /\ \E f \in ledger : Before(e, f)}

\* The gap check's promise: as long as one job runs at a time, the ledger lacks nothing
\* it reaches past, also when a rebuild has written it.
NoForwardHole == ~overlapped => Missing = {}

\* A ledger that only syncs have written lacks at most the rest of an evening:
\* a statement that reported part of the evening (it was made before the day
\* was over) leaves an event stored under the next day, where the next pull
\* may then begin.  Statements of whole days leave no hole at all.
SyncsLeaveNoHole ==
    ~rebuilt => \A e \in Missing : \E f \in Evening \cap ledger : Day(f) = Day(e) /\ Before(f, e)

\* A pull that passes the gap check connects to the window already covered.
AcceptedPullConnects ==
    \A p \in Syncers : pc[p] = "delete" /\ since # 0 => since <= pulled[p].to + 1

\* The strengthening of LedgerIsRecoverable that every step preserves.
RowsAreArchived ==
    \A p \in Sessions : /\ pc[p] # "archive" => pulled[p].events \subseteq Archived
                        /\ rows[p] \subseteq Archived

IInv == TypeOK /\ LedgerIsRecoverable /\ RowsAreArchived

\* The strengthening of NothingIsLost: unless jobs have overlapped, one runs, and
\* what it is about to write contains the ledger.
Writing(p) == pc[p] \in {"delete", "blocked", "insert"}
OneJobHoldsTheLedger ==
    ~overlapped => /\ \A p, q \in Sessions : pc[p] # "idle" /\ pc[q] # "idle" => p = q
                   /\ \A p \in Sessions : Writing(p) => ledger \subseteq rows[p]

\* The strengthening of SyncsLeaveNoHole, for one syncing session.  Events happen in
\* their order ...
HappenedInOrder ==
    \A f \in happened : /\ Day(f) <= today
                        /\ \A e \in Events : Day(e) = Day(f) /\ Before(e, f) => e \in happened

\* ... so a statement will never lack what came before an event it reports ...
StatementsAreComplete ==
    /\ Archived \subseteq happened
    /\ \A p \in Sessions :
          /\ pulled[p].events \subseteq happened
          /\ \A e \in happened, f \in pulled[p].events :
                pulled[p].from <= Day(e) /\ Before(e, f) => e \in pulled[p].events

\* ... and until a rebuild writes, the ledger a sync has checked is the one it rewrites.
SyncsRewriteWhatTheyChecked ==
    /\ \A p \in Sessions : pulled[p] # NoStatement => p \in Syncers /\ pc[p] # "idle"
    /\ ~rebuilt => \A p \in Sessions : pulled[p] # NoStatement /\ Writing(p) =>
                        /\ ~Gap(p) /\ rows[p] = ledger \cup pulled[p].events
                        /\ pc[p] # "delete" => gone[p] = ledger

SyncInv ==
    IInv /\ HappenedInOrder /\ StatementsAreComplete /\ SyncsRewriteWhatTheyChecked /\ SyncsLeaveNoHole
=============================================================================

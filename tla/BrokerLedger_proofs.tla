------------------------ MODULE BrokerLedger_proofs -------------------------
(***************************************************************************)
(* That every event of the ledger can be rebuilt from the archive,         *)
(* whatever syncs, rebuilds and failures there are, for every number of    *)
(* sessions and days.  The invariant has to speak of the sessions too: a   *)
(* ledger about to be written must consist of archived events already, and *)
(* so must a statement that has left its archiving step.                   *)
(*                                                                         *)
(* Then that nothing is lost and no hole is left, as far as the code       *)
(* promises it: the first of jobs that do not overlap, the second of one   *)
(* session that syncs.                                                     *)
(***************************************************************************)
EXTENDS BrokerLedger, TLAPS

LEMMA StatementsAreTyped == NoStatement \in Statement
BY DaysAssumption DEF NoStatement, Statement

\* What is archived stays archived.
LEMMA ArchivedGrows ==
    ASSUME archive \subseteq archive'
    PROVE  Archived \subseteq Archived'
BY DEF Archived

LEMMA InitInv == Init => IInv
<1> SUFFICES ASSUME Init PROVE IInv
  OBVIOUS
<1>1. rebuilt \in BOOLEAN /\ overlapped \in BOOLEAN
  BY Zenon DEF Init
<1>2. today \in Days /\ since \in 0 .. LastDay /\ started \in 0 .. MaxJobs
  BY DaysAssumption, JobsAssumption DEF Init, Days
<1>3. TypeOK
  BY <1>1, <1>2, StatementsAreTyped DEF Init, TypeOK
<1>4. LedgerIsRecoverable /\ RowsAreArchived
  BY DEF Init, LedgerIsRecoverable, RowsAreArchived, Archived, NoStatement
<1> QED
  BY <1>3, <1>4 DEF IInv

\* A session that stops, or ends its transaction, keeps the invariant's part about sessions.
LEMMA IdleKeeps ==
    ASSUME IInv, NEW p \in Sessions, Idle(p), archive' = archive
    PROVE  /\ pc' \in [Sessions -> {"idle", "archive", "check", "delete", "blocked", "insert"}]
           /\ pulled' \in [Sessions -> Statement]
           /\ rows' \in [Sessions -> SUBSET Events]
           /\ gone' \in [Sessions -> SUBSET Events]
           /\ RowsAreArchived'
BY StatementsAreTyped DEF IInv, TypeOK, Idle, RowsAreArchived, Archived, NoStatement

LEMMA EndKeeps ==
    ASSUME IInv, NEW p \in Sessions, NEW d, End(p, d), archive' = archive
    PROVE  /\ pc' \in [Sessions -> {"idle", "archive", "check", "delete", "blocked", "insert"}]
           /\ pulled' \in [Sessions -> Statement]
           /\ rows' \in [Sessions -> SUBSET Events]
           /\ gone' \in [Sessions -> SUBSET Events]
           /\ RowsAreArchived'
BY StatementsAreTyped DEF IInv, TypeOK, End, RowsAreArchived, Archived, NoStatement

LEMMA StepInv == IInv /\ [Next]_vars => IInv'
<1> SUFFICES ASSUME IInv, [Next]_vars PROVE IInv'
  OBVIOUS
<1> USE DaysAssumption, JobsAssumption
<1>1. CASE NextDay
  BY <1>1 DEF NextDay, historyVars, IInv, TypeOK, LedgerIsRecoverable, RowsAreArchived, Archived, sessionVars, Days
<1>2. ASSUME NEW e \in Events, Happen(e) PROVE IInv'
  BY <1>2 DEF Happen, historyVars, IInv, TypeOK, LedgerIsRecoverable, RowsAreArchived, Archived, sessionVars
<1>3. ASSUME NEW p \in Sessions, NEW from \in Days, NEW to \in Days, Fetch(p, from, to) PROVE IInv'
  <2>1. pulled'[p] \in Statement
    BY <1>3 DEF Fetch, Start, IInv, TypeOK, Statement, Days
  <2>2. TypeOK'
    BY <1>3, <2>1 DEF Fetch, Start, IInv, TypeOK, worldVars, historyVars
  <2>3. RowsAreArchived'
    BY <1>3 DEF Fetch, Start, IInv, TypeOK, RowsAreArchived, Archived
  <2> QED
    BY <1>3, <2>2, <2>3 DEF Fetch, Start, IInv, LedgerIsRecoverable, Archived
<1>4. ASSUME NEW p \in Sessions, Archive(p) PROVE IInv'
  <2>1. TypeOK'
    BY <1>4 DEF Archive, IInv, TypeOK, worldVars, historyVars
  <2>2. Archived \subseteq Archived'
    BY <1>4, ArchivedGrows DEF Archive
  <2>3. pulled[p].events \subseteq Archived'
    BY <1>4 DEF Archive, Archived
  <2>4. RowsAreArchived'
    BY <1>4, <2>2, <2>3 DEF Archive, IInv, TypeOK, RowsAreArchived
  <2> QED
    BY <1>4, <2>1, <2>2, <2>4 DEF Archive, IInv, LedgerIsRecoverable
<1>5. ASSUME NEW p \in Sessions, LoadAndCheck(p) PROVE IInv'
  <2>1. CASE Gap(p)
    BY <1>5, <2>1, IdleKeeps DEF LoadAndCheck, IInv, TypeOK, LedgerIsRecoverable, Archived, worldVars, historyVars
  <2>2. CASE ~Gap(p)
    <3>1. ledger \cup pulled[p].events \subseteq Archived
      BY <1>5 DEF LoadAndCheck, IInv, LedgerIsRecoverable, RowsAreArchived
    <3>2. pulled[p].events \subseteq Events
      BY DEF IInv, TypeOK, Statement
    <3>3. TypeOK'
      BY <1>5, <2>2, <3>2 DEF LoadAndCheck, IInv, TypeOK, worldVars, historyVars
    <3>4. RowsAreArchived'
      BY <1>5, <2>2, <3>1 DEF LoadAndCheck, IInv, TypeOK, RowsAreArchived, Archived
    <3> QED
      BY <1>5, <3>3, <3>4 DEF LoadAndCheck, IInv, LedgerIsRecoverable, Archived
  <2> QED
    BY <2>1, <2>2
<1>6. ASSUME NEW p \in Sessions, ReadArchive(p) PROVE IInv'
  <2>1. Archived \subseteq Events
    BY DEF IInv, TypeOK, Statement, Archived
  <2>2. TypeOK'
    BY <1>6, <2>1 DEF ReadArchive, Start, IInv, TypeOK, worldVars, historyVars
  <2> QED
    BY <1>6, <2>2 DEF ReadArchive, Start, IInv, TypeOK, LedgerIsRecoverable, RowsAreArchived, Archived
<1>7. ASSUME NEW p \in Sessions, DeleteRows(p) PROVE IInv'
  BY <1>7 DEF DeleteRows, IInv, TypeOK, LedgerIsRecoverable, RowsAreArchived, Archived, worldVars, historyVars
<1>8. ASSUME NEW p \in Sessions, InsertRows(p) PROVE IInv'
  <2>1. Kept(p) \cup rows[p] \subseteq Archived /\ Kept(p) \cup rows[p] \subseteq Events
    BY DEF Kept, IInv, TypeOK, LedgerIsRecoverable, RowsAreArchived
  <2>2. since' \in 0 .. LastDay
    BY <1>8 DEF InsertRows, IInv, TypeOK, Statement
  <2> QED
    BY <1>8, <2>1, <2>2, EndKeeps DEF InsertRows, IInv, TypeOK, LedgerIsRecoverable, Archived, worldVars, historyVars
<1>9. ASSUME NEW p \in Sessions, InsertRefused(p) PROVE IInv'
  BY <1>9, EndKeeps DEF InsertRefused, IInv, TypeOK, LedgerIsRecoverable, Archived, worldVars, historyVars
<1>10. ASSUME NEW p \in Sessions, Stop(p) PROVE IInv'
  BY <1>10, EndKeeps, IdleKeeps DEF Stop, IInv, TypeOK, LedgerIsRecoverable, Archived, worldVars, historyVars
<1>11. CASE UNCHANGED vars
  BY <1>11 DEF vars, worldVars, historyVars, sessionVars, IInv, TypeOK, LedgerIsRecoverable, RowsAreArchived, Archived
<1> QED
  BY <1>1, <1>2, <1>3, <1>4, <1>5, <1>6, <1>7, <1>8, <1>9, <1>10, <1>11 DEF Next, Proceed

\* Every event the ledger holds is in an archived statement, so a rebuild
\* brings it back, at every moment of every interleaving of syncs, rebuilds
\* and failures (save_raw_statement runs before anything is written).
THEOREM LedgerRecoverable == Spec => []LedgerIsRecoverable
<1>1. Spec => []IInv
  BY InitInv, StepInv, PTL DEF Spec
<1>2. IInv => LedgerIsRecoverable
  BY DEF IInv
<1> QED
  BY <1>1, <1>2, PTL

\* The variables keep their types: what a session holds is a statement and sets
\* of events, and its counters stay within their bounds.
THEOREM BrokerTypeCorrect == Spec => []TypeOK
<1>1. Spec => []IInv
  BY InitInv, StepInv, PTL DEF Spec
<1>2. IInv => TypeOK
  BY DEF IInv
<1> QED
  BY <1>1, <1>2, PTL
-----------------------------------------------------------------------------
(* Jobs that do not overlap.                                               *)

LEMMA OneJobStep == IInv /\ OneJobHoldsTheLedger /\ [Next]_vars => OneJobHoldsTheLedger'
<1> SUFFICES ASSUME IInv, OneJobHoldsTheLedger, [Next]_vars PROVE OneJobHoldsTheLedger'
  OBVIOUS
<1> USE DEF IInv, TypeOK, OneJobHoldsTheLedger, Writing, sessionVars, historyVars, worldVars
<1>1. CASE NextDay \/ \E e \in Events : Happen(e)
  BY <1>1 DEF NextDay, Happen
<1>2. ASSUME NEW p \in Sessions, NEW from \in Days, NEW to \in Days, Fetch(p, from, to)
      PROVE  OneJobHoldsTheLedger'
  BY <1>2 DEF Fetch, Start
<1>3. ASSUME NEW p \in Sessions, ReadArchive(p) PROVE OneJobHoldsTheLedger'
  BY <1>3 DEF ReadArchive, Start, LedgerIsRecoverable
<1>4. ASSUME NEW p \in Sessions, Archive(p) PROVE OneJobHoldsTheLedger'
  BY <1>4 DEF Archive
<1>5. ASSUME NEW p \in Sessions, LoadAndCheck(p) PROVE OneJobHoldsTheLedger'
  BY <1>5 DEF LoadAndCheck, Idle
<1>6. ASSUME NEW p \in Sessions, DeleteRows(p) PROVE OneJobHoldsTheLedger'
  BY <1>6 DEF DeleteRows
<1>7. ASSUME NEW p \in Sessions, InsertRows(p) PROVE OneJobHoldsTheLedger'
  BY <1>7 DEF InsertRows, End
<1>8. ASSUME NEW p \in Sessions, InsertRefused(p) \/ Stop(p) PROVE OneJobHoldsTheLedger'
  BY <1>8 DEF InsertRefused, Stop, End, Idle
<1>9. CASE UNCHANGED vars
  BY <1>9 DEF vars
<1> QED
  BY <1>1, <1>2, <1>3, <1>4, <1>5, <1>6, <1>7, <1>8, <1>9 DEF Next, Proceed

\* While jobs have not overlapped, no step takes an event out of the ledger: what a sync
\* writes is what it loaded and more, what a rebuild writes is all there is.
THEOREM NothingIsLostHolds == Spec => NothingIsLost
<1>1. Init => OneJobHoldsTheLedger
  BY DEF Init, OneJobHoldsTheLedger, Writing
<1>2. Spec => [](IInv /\ OneJobHoldsTheLedger)
  BY <1>1, InitInv, StepInv, OneJobStep, PTL DEF Spec
<1>3. IInv /\ OneJobHoldsTheLedger /\ [Next]_vars => [~overlapped => ledger \subseteq ledger']_vars
  <2> SUFFICES ASSUME IInv, OneJobHoldsTheLedger, [Next]_vars, ~overlapped PROVE ledger \subseteq ledger'
    OBVIOUS
  <2>1. ASSUME NEW p \in Sessions, InsertRows(p) PROVE ledger \subseteq ledger'
    BY <2>1 DEF InsertRows, OneJobHoldsTheLedger, Writing
  <2>2. CASE UNCHANGED ledger
    BY <2>2
  <2> QED
    BY <2>1, <2>2
       DEF Next, Proceed, NextDay, Happen, Fetch, ReadArchive, Archive, LoadAndCheck, DeleteRows, InsertRefused,
           Stop, vars
<1> QED
  BY <1>2, <1>3, PTL DEF Spec, NothingIsLost
-----------------------------------------------------------------------------
(* One session that syncs, beside any number that rebuild.                 *)

LEMMA InitSyncInv == Init => SyncInv
<1> SUFFICES ASSUME Init PROVE SyncInv
  OBVIOUS
<1> QED
  BY InitInv
     DEF Init, SyncInv, HappenedInOrder, StatementsAreComplete, SyncsRewriteWhatTheyChecked, SyncsLeaveNoHole,
         Missing, Archived, NoStatement, Writing

\* An event is never before one that has happened.
LEMMA NothingHappensBefore ==
    ASSUME SyncInv, NEW e \in Events, Happen(e), NEW f \in happened
    PROVE  ~Before(e, f)
<1>1. Day(e) = today /\ e \notin happened /\ Day(f) <= today /\ today \in Nat /\ f \in Events
  BY DEF Happen, SyncInv, HappenedInOrder, IInv, TypeOK, Days
<1>2. Day(e) = Day(f) /\ Before(e, f) => e \in happened
  BY DEF SyncInv, HappenedInOrder
<1>3. Day(f) \in Nat
  BY <1>1 DEF Day, Events, Days
<1> QED
  BY <1>1, <1>2, <1>3 DEF Before

LEMMA HappenedInOrderStep == SyncInv /\ [Next]_vars => HappenedInOrder'
<1> SUFFICES ASSUME SyncInv, [Next]_vars PROVE HappenedInOrder'
  OBVIOUS
<1> USE DEF SyncInv, HappenedInOrder, IInv, TypeOK, worldVars
<1>1. CASE NextDay
  <2>1. \A f \in happened : Day(f) \in Nat /\ today \in Nat
    BY DEF Day, Events, Days
  <2> QED
    BY <1>1, <2>1 DEF NextDay
<1>2. ASSUME NEW e \in Events, Happen(e) PROVE HappenedInOrder'
  <2>1. Day(e) <= today /\ \A f \in Events : Day(f) = Day(e) /\ Before(f, e) => f \in happened
    BY <1>2 DEF Happen, Days
  <2> QED
    BY <1>2, <2>1 DEF Happen
<1>3. CASE UNCHANGED worldVars
  BY <1>3
<1> QED
  BY <1>1, <1>2, <1>3
     DEF Next, Proceed, Fetch, ReadArchive, Archive, LoadAndCheck, DeleteRows, InsertRows, InsertRefused, Stop, vars

\* A statement reports all of its days that will ever come before what it reports.
LEMMA StatementsAreCompleteStep == SyncInv /\ [Next]_vars => StatementsAreComplete'
<1> SUFFICES ASSUME SyncInv, [Next]_vars PROVE StatementsAreComplete'
  OBVIOUS
<1> USE DEF StatementsAreComplete
<1>0. StatementsAreComplete /\ happened \subseteq Events /\ pulled \in [Sessions -> Statement]
  BY DEF SyncInv, IInv, TypeOK
<1>1. ASSUME NEW e \in Events, Happen(e) PROVE StatementsAreComplete'
  <2>1. happened' = happened \cup {e} /\ UNCHANGED <<archive, pulled>>
    BY <1>1 DEF Happen, sessionVars
  <2>2. \A f \in happened : ~Before(e, f)
    BY <1>1, NothingHappensBefore
  <2> QED
    BY <1>0, <2>1, <2>2 DEF Archived
<1>2. ASSUME NEW p \in Sessions, NEW from \in Days, NEW to \in Days, Fetch(p, from, to)
      PROVE  StatementsAreComplete'
  <2>1. /\ pulled' = [pulled EXCEPT ![p] =
             [from |-> from, to |-> to, events |-> {e \in happened : from <= Day(e) /\ Day(e) <= to}]]
        /\ UNCHANGED <<happened, archive>>
    BY <1>2 DEF Fetch, worldVars
  <2>2. ASSUME NEW e \in happened, NEW f \in happened, Day(f) <= to, Before(e, f) PROVE Day(e) <= to
    <3>1. Day(e) \in Nat /\ Day(f) \in Nat /\ to \in Nat
      BY <1>0 DEF Day, Events, Days
    <3> QED
      BY <2>2, <3>1 DEF Before
  <2> QED
    BY <1>0, <2>1, <2>2 DEF Archived
<1>3. ASSUME NEW p \in Sessions, Archive(p) PROVE StatementsAreComplete'
  <2>1. Archived' = Archived \cup pulled[p].events /\ UNCHANGED <<happened, pulled>>
    BY <1>3 DEF Archive, Archived, worldVars
  <2> QED
    BY <1>0, <2>1
<1>4. ASSUME UNCHANGED <<happened, archive>>,
             \A q \in Sessions : pulled'[q] \in {pulled[q], NoStatement}
      PROVE  StatementsAreComplete'
  BY <1>0, <1>4 DEF Archived, NoStatement
<1>5. ASSUME NEW p \in Sessions, ReadArchive(p) \/ LoadAndCheck(p) \/ DeleteRows(p) \/ InsertRows(p)
                                  \/ InsertRefused(p) \/ Stop(p)
      PROVE  StatementsAreComplete'
  <2>1. UNCHANGED <<happened, archive>> /\ \A q \in Sessions : pulled'[q] \in {pulled[q], NoStatement}
    BY <1>0, <1>5 DEF ReadArchive, LoadAndCheck, DeleteRows, InsertRows, InsertRefused, Stop, End, Idle, worldVars
  <2> QED
    BY <1>4, <2>1
<1>6. CASE NextDay \/ UNCHANGED vars
  BY <1>4, <1>6 DEF NextDay, vars, worldVars, sessionVars
<1> QED
  BY <1>1, <1>2, <1>3, <1>5, <1>6 DEF Next, Proceed

\* What a sync that passed the check is about to write is what it checked.
LEMMA SyncsRewriteWhatTheyCheckedStep ==
    ASSUME \A p, q \in Syncers : p = q, SyncInv, [Next]_vars
    PROVE  SyncsRewriteWhatTheyChecked'
<1> USE DEF SyncsRewriteWhatTheyChecked, Writing, Gap, ReachesBack
<1>0. SyncsRewriteWhatTheyChecked /\ TypeOK
  BY DEF SyncInv, IInv
<1> USE DEF TypeOK
<1>1. CASE NextDay \/ (\E e \in Events : Happen(e)) \/ UNCHANGED vars
  BY <1>0, <1>1 DEF NextDay, Happen, vars, sessionVars, historyVars
<1>2. ASSUME NEW p \in Sessions, NEW from \in Days, NEW to \in Days, Fetch(p, from, to)
      PROVE  SyncsRewriteWhatTheyChecked'
  BY <1>0, <1>2 DEF Fetch, Start
<1>3. ASSUME NEW p \in Sessions, ReadArchive(p) PROVE SyncsRewriteWhatTheyChecked'
  BY <1>0, <1>3 DEF ReadArchive, Start
<1>4. ASSUME NEW p \in Sessions, Archive(p) PROVE SyncsRewriteWhatTheyChecked'
  BY <1>0, <1>4 DEF Archive, historyVars
<1>5. ASSUME NEW p \in Sessions, LoadAndCheck(p) PROVE SyncsRewriteWhatTheyChecked'
  <2>1. CASE ~Gap(p)
    BY <1>0, <1>5, <2>1 DEF LoadAndCheck, historyVars, Idle
  <2>2. CASE Gap(p)
    BY <1>0, <1>5, <2>2 DEF LoadAndCheck, historyVars, Idle
  <2> QED
    BY <2>1, <2>2
<1>6. ASSUME NEW p \in Sessions, DeleteRows(p) PROVE SyncsRewriteWhatTheyChecked'
  BY <1>0, <1>6 DEF DeleteRows, historyVars
<1>7. ASSUME NEW p \in Sessions, InsertRows(p) PROVE SyncsRewriteWhatTheyChecked'
  <2>1. CASE pulled[p] = NoStatement
    BY <1>0, <1>7, <2>1 DEF InsertRows, End
  <2>2. CASE pulled[p] # NoStatement
    <3>1. \A q \in Sessions : q # p => pulled[q] = NoStatement
      BY <1>0, <2>2
    <3> QED
      BY <1>0, <1>7, <3>1 DEF InsertRows, End
  <2> QED
    BY <2>1, <2>2
<1>8. ASSUME NEW p \in Sessions, InsertRefused(p) \/ Stop(p) PROVE SyncsRewriteWhatTheyChecked'
  BY <1>0, <1>8 DEF InsertRefused, Stop, End, Idle, historyVars
<1> QED
  BY <1>1, <1>2, <1>3, <1>4, <1>5, <1>6, <1>7, <1>8 DEF Next, Proceed

\* The order of events in time and in the ledger.
LEMMA DaysOfEvents == \A e \in Events : Day(e) \in Days /\ e[2] \in Nat
BY DEF Events, Days, Day

LEMMA BeforeIsTransitive ==
    ASSUME NEW e \in Events, NEW f \in Events, NEW g \in Events, Before(e, f), Before(f, g)
    PROVE  Before(e, g)
BY DaysOfEvents DEF Before, Days

\* A rewrite that a sync has checked leaves a hole only where the ledger had one, or
\* after the evening event the check took for the end of its day.
LEMMA RewriteLeavesNoHole ==
    ASSUME SyncInv, NEW p \in Sessions, InsertRows(p), pulled[p] # NoStatement, ~rebuilt
    PROVE  SyncsLeaveNoHole'
<1> DEFINE from == pulled[p].from
           new  == pulled[p].events
<1>0. /\ TypeOK /\ SyncsLeaveNoHole /\ SyncsRewriteWhatTheyChecked /\ StatementsAreComplete
      /\ ledger \subseteq happened /\ happened \subseteq Events /\ new \subseteq happened
  BY DEF SyncInv, IInv, LedgerIsRecoverable, StatementsAreComplete, TypeOK
<1>1. ledger' = ledger \cup new /\ UNCHANGED happened /\ rows[p] = ledger \cup new /\ ~Gap(p)
  BY <1>0 DEF InsertRows, SyncsRewriteWhatTheyChecked, Writing, Kept, worldVars
<1>2. since' = IF ledger = {} /\ new # {} THEN from ELSE since
  BY <1>0, <1>1 DEF InsertRows
<1>3. SUFFICES ASSUME NEW e \in Missing'
               PROVE  \E g \in Evening \cap ledger' : Day(g) = Day(e) /\ Before(g, e)
  BY DEF SyncsLeaveNoHole
<1>4. PICK f \in ledger' : Before(e, f)
  BY DEF Missing
<1>5. e \in happened /\ e \notin ledger /\ e \notin new /\ since' # 0 /\ Day(e) >= since'
  BY <1>1 DEF Missing
<1>6. from \in Nat /\ Day(e) \in Nat /\ e \in Events
  BY <1>0, <1>5, DaysOfEvents DEF TypeOK, Statement, Days
<1>7. CASE \E g \in ledger : Before(e, g)
  <2>1. e \in Missing
    BY <1>2, <1>5, <1>7 DEF Missing
  <2> QED
    BY <1>0, <1>1, <2>1 DEF SyncsLeaveNoHole
<1>8. CASE ~\E g \in ledger : Before(e, g)
  <2>1. f \in new
    BY <1>1, <1>4, <1>8
  <2>2. Day(e) < from
    BY <1>0, <1>4, <1>5, <1>6, <2>1 DEF StatementsAreComplete
  <2>3. ledger # {}
    BY <1>2, <1>5, <1>6, <2>1, <2>2
  <2>4. PICK g \in ledger : StoredDay(g) >= from
    BY <1>1, <2>3 DEF Gap, ReachesBack
  <2>5. g \in Events /\ Day(g) \in Nat /\ ~Before(e, g)
    BY <1>0, <1>8, DaysOfEvents DEF Days
  <2>6. g \in Evening /\ Day(g) = Day(e)
    BY <1>6, <2>2, <2>4, <2>5 DEF StoredDay, Before
  <2>7. Before(g, e)
    <3>1. g # e
      BY <1>5, <2>4
    <3>2. g[1] = e[1] /\ g[2] # e[2]
      BY <1>6, <2>5, <2>6, <3>1 DEF Day, Events
    <3> QED
      BY <1>6, <2>5, <2>6, <3>2, DaysOfEvents DEF Before
  <2> QED
    BY <1>1, <2>4, <2>6, <2>7
<1> QED
  BY <1>7, <1>8

LEMMA SyncsLeaveNoHoleStep == SyncInv /\ [Next]_vars => SyncsLeaveNoHole'
<1> SUFFICES ASSUME SyncInv, [Next]_vars PROVE SyncsLeaveNoHole'
  OBVIOUS
<1>0. SyncsLeaveNoHole /\ ledger \subseteq happened
  BY DEF SyncInv, IInv, LedgerIsRecoverable, StatementsAreComplete
<1>1. ASSUME NEW e \in Events, Happen(e) PROVE SyncsLeaveNoHole'
  <2>1. happened' = happened \cup {e} /\ UNCHANGED <<ledger, since, rebuilt>>
    BY <1>1 DEF Happen, historyVars
  <2>2. \A f \in ledger : ~Before(e, f)
    BY <1>0, <1>1, NothingHappensBefore
  <2> QED
    BY <1>0, <2>1, <2>2 DEF SyncsLeaveNoHole, Missing
<1>2. ASSUME NEW p \in Sessions, InsertRows(p) PROVE SyncsLeaveNoHole'
  <2>1. CASE pulled[p] # NoStatement /\ ~rebuilt
    BY <1>2, <2>1, RewriteLeavesNoHole
  <2>2. CASE pulled[p] = NoStatement \/ rebuilt
    BY <1>2, <2>2 DEF InsertRows, SyncsLeaveNoHole, SyncInv, IInv, TypeOK
  <2> QED
    BY <2>1, <2>2
<1>3. CASE UNCHANGED <<happened, ledger, since, rebuilt>>
  BY <1>0, <1>3 DEF SyncsLeaveNoHole, Missing
<1> QED
  BY <1>1, <1>2, <1>3
     DEF Next, Proceed, NextDay, Fetch, Start, ReadArchive, Archive, LoadAndCheck, DeleteRows, InsertRefused, Stop,
         vars, worldVars, historyVars

\* One session syncs at a time (OneSyncPerUser of SyncRuns), beside any number that
\* rebuild, and whatever stops when: until a rebuild writes, the ledger lacks nothing
\* it reaches past but the rest of an evening a statement reported in part.
THEOREM SyncsLeaveNoHoleHolds ==
    ASSUME \A p, q \in Syncers : p = q
    PROVE  Spec => []SyncsLeaveNoHole
<1>1. SyncInv /\ [Next]_vars => SyncInv'
  BY StepInv, HappenedInOrderStep, StatementsAreCompleteStep, SyncsRewriteWhatTheyCheckedStep, SyncsLeaveNoHoleStep
     DEF SyncInv
<1>2. SyncInv => SyncsLeaveNoHole
  BY DEF SyncInv
<1> QED
  BY InitSyncInv, <1>1, <1>2, PTL DEF Spec
=============================================================================

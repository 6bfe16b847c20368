---------------------- MODULE ResolvedProjection_proofs ----------------------
(***************************************************************************)
(* Proofs about ResolvedProjection, for any number of transactions,        *)
(* writers, readers and statements, and any batch size.                    *)
(***************************************************************************)
EXTENDS ResolvedProjection, TLAPS

LEMMA ResolveType == ASSUME NEW o \in Nat, NEW l \in Nat \cup {Deleted} PROVE Resolve(o, l) \in Row
  BY DEF Resolve, Row, NoRow, Deleted

LEMMA CurrentType == ASSUME TypeOK, NEW t \in Txns PROVE Current(t) \in Row
  BY ResolveType DEF TypeOK, Current

LEMMA WriteType ==
  ASSUME TypeOK, NEW w \in Writers, NEW change \in Work, NEW affected \in SUBSET Txns, NEW unseen \in SUBSET Txns,
         Write(w, change, affected, unseen)
  PROVE  TypeOK'
  BY DEF TypeOK, Write, dbVars, readerVars

LEMMA TypeInit == Init => TypeOK
<1> SUFFICES ASSUME Init PROVE TypeOK OBVIOUS
<1>1. ledger \in [Txns -> Nat \cup {Deleted}]
  <2>1. ledger \in [Txns -> {0, 1}] BY DEF Init, NotYet
  <2>2. {0, 1} \subseteq Nat \cup {Deleted} OBVIOUS
  <2> QED BY <2>1, <2>2
<1>2. overlay \in [Txns -> Nat] BY DEF Init
<1>3. stored \in [Txns -> Row] BY <1>1, <1>2, ResolveType DEF Init, Current
<1> QED BY <1>1, <1>2, <1>3 DEF Init, TypeOK, NoWork, Work, NoRow, Row, Clean

LEMMA TypeStep == TypeOK /\ [Next]_vars => TypeOK'
<1> SUFFICES ASSUME TypeOK, [Next]_vars PROVE TypeOK' OBVIOUS
<1> USE DEF dbVars, writerVars, readerVars
<1>1. ASSUME NEW w \in Writers, WriterStatement(w) PROVE TypeOK'
  <2>0. w \in Writers /\ work[w] \in Work BY <1>1 DEF TypeOK
  <2>1. CASE WriteWide(w)
    <3>1. [work[w] EXCEPT !.wide = TRUE] \in Work BY <2>0 DEF Work
    <3> QED BY <2>0, <2>1, <3>1, WriteType DEF WriteWide, Visible, Work
  <2>2. ASSUME NEW t \in Txns, WriteLedger(w, t) \/ CreateTransaction(w, t) PROVE TypeOK'
    <3>1. [work[w] EXCEPT !.ledger = @ \cup {t}] \in Work BY <2>0 DEF Work
    <3> QED BY <2>0, <2>2, <3>1, WriteType DEF WriteLedger, CreateTransaction
  <2>3. ASSUME NEW t \in Txns, WriteOverlay(w, t) PROVE TypeOK'
    <3>1. [work[w] EXCEPT !.overlay = @ \cup {t}] \in Work BY <2>0 DEF Work
    <3> QED BY <2>0, <2>3, <3>1, WriteType DEF WriteOverlay
  <2>4. ASSUME NEW t \in Txns, DeleteTransaction(w, t) PROVE TypeOK'
    <3>1. [work[w] EXCEPT !.removed = @ \cup {t}] \in Work BY <2>0 DEF Work
    <3> QED BY <2>0, <2>4, <3>1, WriteType DEF DeleteTransaction
  <2> QED BY <1>1, <2>1, <2>2, <2>3, <2>4 DEF WriterStatement
<1>2. ASSUME NEW w \in Writers, NEW t \in Txns, EnqueueMarker(w, t) PROVE TypeOK'
  BY <1>2 DEF TypeOK, EnqueueMarker
<1>3. ASSUME NEW w \in Writers, CommitWrite(w) PROVE TypeOK'
  BY <1>3 DEF TypeOK, CommitWrite, NoWork, Work, Touched, Pending, Deleted
<1>4. ASSUME NEW w \in Writers, AbortWrite(w) PROVE TypeOK'
  BY <1>4 DEF TypeOK, AbortWrite, NoWork, Work, Clean
<1>5. ASSUME NEW r \in Readers, StartRead(r) PROVE TypeOK'
  BY <1>5 DEF TypeOK, StartRead, Visited, Inputs, NoRow, Row
<1>6. ASSUME NEW r \in Readers, ReaderProceeds(r) PROVE TypeOK'
  <2>1. ASSUME NEW t \in Txns, ClaimMarker(r, t) PROVE TypeOK' BY <2>1 DEF TypeOK, ClaimMarker
  <2>2. CASE NothingToDrain(r) BY <2>2 DEF TypeOK, NothingToDrain
  <2>3. CASE ReadContext(r) BY <2>3 DEF TypeOK, ReadContext
  <2>4. ASSUME NEW batch \in SUBSET todo[r], RecomputeBatch(r, batch) PROVE TypeOK'
    <3>1. ASSUME NEW t \in Txns PROVE Resolve(seen[r][t], ledger[t]) \in Row
      <4>1. seen[r][t] \in Nat /\ ledger[t] \in Nat \cup {Deleted} BY <1>6 DEF TypeOK
      <4> QED BY <4>1, ResolveType
    <3> QED BY <3>1, <1>6, <2>4 DEF TypeOK, RecomputeBatch
  <2>5. CASE CommitDrain(r) BY <2>5 DEF TypeOK, CommitDrain, NoRow, Row, Clean
  <2>6. CASE Rearm(r) BY <2>6 DEF TypeOK, Rearm
  <2>7. CASE Query(r) BY <2>7 DEF TypeOK, Query, NoRow, Row
  <2>8. CASE FinishRead(r) BY <2>8 DEF TypeOK, FinishRead, Reset, NoRow, Row, Pending
  <2> QED BY <1>6, <2>1, <2>2, <2>3, <2>4, <2>5, <2>6, <2>7, <2>8 DEF ReaderProceeds
<1>7. ASSUME NEW r \in Readers, FailRead(r) PROVE TypeOK'
  BY <1>7 DEF TypeOK, FailRead, Reset, NoRow, Row, Pending
<1>8. CASE UNCHANGED vars BY <1>8 DEF TypeOK, vars
<1> QED BY <1>1, <1>2, <1>3, <1>4, <1>5, <1>6, <1>7, <1>8 DEF Next, WriterEnqueues

\* Type correctness: every variable keeps its type, whatever the constants.
THEOREM TypeCorrect == Spec => []TypeOK
BY TypeInit, TypeStep, PTL DEF Spec
-----------------------------------------------------------------------------
(* The inductive invariant.                                                *)

\* Sessions that write and sessions that read are different, and neither is a
\* queue status.
LEMMA QueueTags ==
  ASSUME NEW w \in Writers, NEW r \in Readers
  PROVE  w # r /\ w \notin {Clean, Pending} /\ r \notin {Clean, Pending} /\ Clean # Pending
  BY SessionsAssumption DEF Clean, Pending

LEMMA InitIInv == Init => IInv
<1> SUFFICES ASSUME Init PROVE IInv OBVIOUS
<1>1. TypeOK BY TypeInit
<1>2. ClaimsAreHeld BY SessionsAssumption DEF Init, ClaimsAreHeld, Clean
<1>3. WritesAreEnqueued BY DEF Init, WritesAreEnqueued, NoWork
<1>4. RecomputeIsCurrent BY DEF Init, RecomputeIsCurrent
<1>5. StaleRowIsAccountedFor BY DEF Init, StaleRowIsAccountedFor
<1> QED BY <1>1, <1>2, <1>3, <1>4, <1>5 DEF IInv

\* A statement that enqueues, or cannot see, everything it changes.
LEMMA WriteIInv ==
  ASSUME IInv, TypeOK', NEW w \in Writers, NEW change, NEW affected, NEW unseen,
         owed[w] = {}, Write(w, change, affected, unseen),
         \A t \in Txns : change.wide \/ t \in change.overlay \cup change.ledger \cup change.removed
            => \/ t \in affected \cup unseen
               \/ work[w].wide \/ t \in work[w].overlay \cup work[w].ledger \cup work[w].removed
  PROVE  IInv'
<1> USE DEF Write, dbVars, readerVars
<1>1. ClaimsAreHeld' BY DEF IInv, ClaimsAreHeld
<1>2. WritesAreEnqueued' BY DEF IInv, WritesAreEnqueued, TypeOK
<1>3. RecomputeIsCurrent' BY DEF IInv, RecomputeIsCurrent, Current
<1>4. StaleRowIsAccountedFor' BY DEF IInv, StaleRowIsAccountedFor, Current
<1> QED BY <1>1, <1>2, <1>3, <1>4 DEF IInv

LEMMA StatementIInv ==
  ASSUME IInv, TypeOK', NEW w \in Writers, WriterStatement(w)
  PROVE  IInv'
<1>0. work[w] \in Work BY DEF IInv, TypeOK
<1>1. CASE WriteWide(w)
  <2>1. \A t \in Txns : t \in Visible(w) \cup (Txns \ Visible(w)) OBVIOUS
  <2> QED BY <1>1, <2>1, WriteIInv DEF WriteWide, CanWrite
<1>2. ASSUME NEW t \in Txns, WriteLedger(w, t) \/ CreateTransaction(w, t) PROVE IInv'
  <2>1. [work[w] EXCEPT !.ledger = @ \cup {t}] = [overlay |-> work[w].overlay, ledger |-> work[w].ledger \cup {t},
                                                 removed |-> work[w].removed, wide |-> work[w].wide]
    BY <1>0 DEF Work
  <2> QED BY <1>2, <2>1, WriteIInv DEF WriteLedger, CreateTransaction, CanWrite
<1>3. ASSUME NEW t \in Txns, WriteOverlay(w, t) PROVE IInv'
  <2>1. [work[w] EXCEPT !.overlay = @ \cup {t}] = [overlay |-> work[w].overlay \cup {t}, ledger |-> work[w].ledger,
                                                  removed |-> work[w].removed, wide |-> work[w].wide]
    BY <1>0 DEF Work
  <2> QED BY <1>3, <2>1, WriteIInv DEF WriteOverlay, CanWrite
<1>4. ASSUME NEW t \in Txns, DeleteTransaction(w, t) PROVE IInv'
  <2>1. [work[w] EXCEPT !.removed = @ \cup {t}] = [overlay |-> work[w].overlay, ledger |-> work[w].ledger,
                                                  removed |-> work[w].removed \cup {t}, wide |-> work[w].wide]
    BY <1>0 DEF Work
  <2> QED BY <1>4, <2>1, WriteIInv DEF DeleteTransaction, CanWrite
<1> QED BY <1>1, <1>2, <1>3, <1>4 DEF WriterStatement

LEMMA EnqueueIInv ==
  ASSUME IInv, TypeOK', NEW w \in Writers, NEW t \in Txns, EnqueueMarker(w, t)
  PROVE  IInv'
<1> USE DEF EnqueueMarker, readerVars
<1>1. ClaimsAreHeld' BY QueueTags DEF IInv, ClaimsAreHeld, TypeOK
<1>2. WritesAreEnqueued' BY SessionsAssumption DEF IInv, WritesAreEnqueued, TypeOK, Clean, Pending
<1>3. RecomputeIsCurrent' BY DEF IInv, RecomputeIsCurrent, Current
<1>4. StaleRowIsAccountedFor'
    BY SessionsAssumption DEF IInv, StaleRowIsAccountedFor, Current, TypeOK, Clean, Pending
<1> QED BY <1>1, <1>2, <1>3, <1>4 DEF IInv

\* Only what a commit touched resolves differently after it.
LEMMA CommitChangesTouched ==
  ASSUME TypeOK, NEW w \in Writers, CommitWrite(w), NEW t \in Txns, t \notin Touched(w)
  PROVE  /\ Current(t)' = Current(t)
         /\ \A o \in Nat : Resolve(o, ledger'[t]) = Resolve(o, ledger[t])
<1>1. CASE Live(t)
  <2>1. overlay'[t] = overlay[t] /\ ledger'[t] = ledger[t]
    BY <1>1 DEF CommitWrite, Touched, Bumped
  <2> QED BY <2>1 DEF Current
<1>2. CASE ~Live(t)
  <2>1. ~(ledger'[t] > 0)
    BY <1>2 DEF CommitWrite, Touched, Live, Deleted, TypeOK
  <2> QED BY <1>2, <2>1 DEF Current, Resolve, Live
<1> QED BY <1>1, <1>2

LEMMA CommitWriteIInv ==
  ASSUME IInv, TypeOK', NEW w \in Writers, CommitWrite(w)
  PROVE  IInv'
<1> USE DEF readerVars
<1>1. ClaimsAreHeld' BY QueueTags DEF CommitWrite, IInv, ClaimsAreHeld, TypeOK
<1>2. WritesAreEnqueued' BY QueueTags DEF CommitWrite, IInv, WritesAreEnqueued, TypeOK, NoWork
<1>3. ASSUME NEW t \in Touched(w) PROVE t \in escaped' \/ queue'[t] = Pending
  <2>1. t \in Txns /\ (queue[t] = w \/ t \in passed[w])
    BY DEF CommitWrite, IInv, WritesAreEnqueued, Touched, Bumped
  <2> QED BY <2>1 DEF CommitWrite
<1>4. RecomputeIsCurrent'
  <2> SUFFICES ASSUME NEW r \in Readers, pc'[r] = "recompute", NEW t \in claimed'[r] \ escaped'
               PROVE  /\ Resolve(seen'[r][t], ledger'[t]) = Current(t)'
                      /\ t \notin todo'[r] => fresh'[r][t] = Current(t)'
    BY DEF RecomputeIsCurrent
  <2>1. t \in Txns /\ queue[t] = r BY DEF CommitWrite, IInv, ClaimsAreHeld
  <2>2. t \notin Touched(w)
    BY <1>3, <2>1, QueueTags DEF CommitWrite
  <2>3. t \in claimed[r] \ escaped /\ pc[r] = "recompute" BY DEF CommitWrite
  <2>4. seen[r][t] \in Nat BY <2>1 DEF IInv, TypeOK
  <2> QED BY <2>1, <2>2, <2>3, <2>4, CommitChangesTouched DEF CommitWrite, IInv, RecomputeIsCurrent
<1>5. StaleRowIsAccountedFor'
  <2> SUFFICES ASSUME NEW t \in Txns, stored'[t] # Current(t)'
               PROVE  t \in escaped' \/ queue'[t] \in {Pending} \cup Readers
    BY DEF StaleRowIsAccountedFor
  <2>1. CASE t \in Touched(w) BY <2>1, <1>3
  <2>2. CASE t \notin Touched(w)
    <3>1. stored[t] # Current(t) BY <2>2, CommitChangesTouched DEF CommitWrite, IInv
    <3> QED BY <3>1, QueueTags DEF CommitWrite, IInv, StaleRowIsAccountedFor
  <2> QED BY <2>1, <2>2
<1> QED BY <1>1, <1>2, <1>4, <1>5 DEF IInv

LEMMA AbortWriteIInv ==
  ASSUME IInv, TypeOK', NEW w \in Writers, AbortWrite(w)
  PROVE  IInv'
<1> USE DEF AbortWrite, readerVars
<1>1. ClaimsAreHeld' BY QueueTags DEF IInv, ClaimsAreHeld, TypeOK
<1>2. WritesAreEnqueued' BY QueueTags DEF IInv, WritesAreEnqueued, TypeOK, NoWork
<1>3. RecomputeIsCurrent' BY DEF IInv, RecomputeIsCurrent, Current
<1>4. StaleRowIsAccountedFor'
    BY SessionsAssumption DEF IInv, StaleRowIsAccountedFor, Current, TypeOK, Pending
<1> QED BY <1>1, <1>2, <1>3, <1>4 DEF IInv

LEMMA StartReadIInv ==
  ASSUME IInv, TypeOK', NEW r \in Readers, StartRead(r)
  PROVE  IInv'
<1> USE DEF StartRead, dbVars, writerVars
<1>1. ClaimsAreHeld' BY DEF IInv, ClaimsAreHeld, TypeOK
<1>2. WritesAreEnqueued' BY DEF IInv, WritesAreEnqueued
<1>3. RecomputeIsCurrent' BY DEF IInv, RecomputeIsCurrent, Current, TypeOK
<1>4. StaleRowIsAccountedFor' BY DEF IInv, StaleRowIsAccountedFor, Current
<1> QED BY <1>1, <1>2, <1>3, <1>4 DEF IInv

LEMMA ClaimMarkerIInv ==
  ASSUME IInv, TypeOK', NEW r \in Readers, NEW t \in Txns, ClaimMarker(r, t)
  PROVE  IInv'
<1> USE DEF ClaimMarker, writerVars
<1>1. ClaimsAreHeld' BY SessionsAssumption DEF IInv, ClaimsAreHeld, TypeOK, Pending
<1>2. WritesAreEnqueued' BY QueueTags DEF IInv, WritesAreEnqueued, TypeOK
<1>3. RecomputeIsCurrent'
  <2> SUFFICES ASSUME NEW q \in Readers, pc[q] = "recompute", NEW u \in claimed'[q] \ escaped'
               PROVE  /\ Resolve(seen[q][u], ledger[u]) = Current(u)
                      /\ u \notin todo[q] => fresh[q][u] = Current(u)
    BY DEF RecomputeIsCurrent, Current
  <2>1. q # r /\ claimed'[q] = claimed[q] BY DEF IInv, TypeOK
  <2>2. u \in Txns /\ queue[u] = q BY <2>1 DEF IInv, ClaimsAreHeld
  <2>3. u # t BY <2>2, SessionsAssumption DEF Pending
  <2> QED BY <2>1, <2>3 DEF IInv, RecomputeIsCurrent
<1>4. StaleRowIsAccountedFor' BY DEF IInv, StaleRowIsAccountedFor, Current, TypeOK
<1> QED BY <1>1, <1>2, <1>3, <1>4 DEF IInv

LEMMA ReadContextIInv ==
  ASSUME IInv, TypeOK', NEW r \in Readers, ReadContext(r)
  PROVE  IInv'
<1> USE DEF ReadContext, dbVars, writerVars
<1>1. ClaimsAreHeld' BY DEF IInv, ClaimsAreHeld, TypeOK
<1>2. WritesAreEnqueued' BY DEF IInv, WritesAreEnqueued
<1>3. RecomputeIsCurrent' BY DEF IInv, RecomputeIsCurrent, Current, TypeOK
<1>4. StaleRowIsAccountedFor' BY DEF IInv, StaleRowIsAccountedFor, Current
<1> QED BY <1>1, <1>2, <1>3, <1>4 DEF IInv

LEMMA RecomputeBatchIInv ==
  ASSUME IInv, TypeOK', NEW r \in Readers, NEW batch \in SUBSET todo[r], RecomputeBatch(r, batch)
  PROVE  IInv'
<1> USE DEF RecomputeBatch, dbVars, writerVars
<1>1. ClaimsAreHeld' BY DEF IInv, ClaimsAreHeld, TypeOK
<1>2. WritesAreEnqueued' BY DEF IInv, WritesAreEnqueued
<1>3. RecomputeIsCurrent' BY DEF IInv, RecomputeIsCurrent, Current, TypeOK
<1>4. StaleRowIsAccountedFor' BY DEF IInv, StaleRowIsAccountedFor, Current
<1> QED BY <1>1, <1>2, <1>3, <1>4 DEF IInv

LEMMA CommitDrainIInv ==
  ASSUME IInv, TypeOK', NEW r \in Readers, CommitDrain(r)
  PROVE  IInv'
<1> USE DEF CommitDrain, writerVars
<1>1. ClaimsAreHeld' BY QueueTags, SessionsAssumption DEF IInv, ClaimsAreHeld, TypeOK, Clean
<1>2. WritesAreEnqueued' BY QueueTags DEF IInv, WritesAreEnqueued, TypeOK
<1>3. RecomputeIsCurrent' BY DEF IInv, RecomputeIsCurrent, Current, TypeOK
<1>4. StaleRowIsAccountedFor'
  <2> SUFFICES ASSUME NEW t \in Txns, stored'[t] # Current(t)'
               PROVE  t \in escaped' \/ queue'[t] \in {Pending} \cup Readers
    BY DEF StaleRowIsAccountedFor
  <2>0. Current(t)' = Current(t) BY DEF Current
  <2>1. CASE t \in claimed[r]
    <3>1. stored'[t] = fresh[r][t] /\ t \notin todo[r] /\ pc[r] = "recompute" BY <2>1 DEF IInv, TypeOK
    <3> QED BY <2>0, <2>1, <3>1 DEF IInv, RecomputeIsCurrent
  <2>2. CASE t \notin claimed[r]
    <3>1. stored'[t] = stored[t] /\ queue[t] # r BY <2>2 DEF IInv, ClaimsAreHeld
    <3> QED BY <2>0, <3>1 DEF IInv, StaleRowIsAccountedFor
  <2> QED BY <2>1, <2>2
<1> QED BY <1>1, <1>2, <1>3, <1>4 DEF IInv

LEMMA ResetIInv ==
  ASSUME IInv, TypeOK', NEW r \in Readers, Reset(r)
  PROVE  IInv'
<1> USE DEF Reset, writerVars
<1>1. ClaimsAreHeld' BY QueueTags, SessionsAssumption DEF IInv, ClaimsAreHeld, TypeOK, Pending
<1>2. WritesAreEnqueued' BY QueueTags DEF IInv, WritesAreEnqueued, TypeOK
<1>3. RecomputeIsCurrent' BY DEF IInv, RecomputeIsCurrent, Current, TypeOK
<1>4. StaleRowIsAccountedFor' BY DEF IInv, StaleRowIsAccountedFor, Current
<1> QED BY <1>1, <1>2, <1>3, <1>4 DEF IInv

\* The steps between a drain and its answer move no data.
LEMMA ServeIInv ==
  ASSUME IInv, TypeOK', NEW r \in Readers, NothingToDrain(r) \/ Rearm(r) \/ Query(r)
  PROVE  IInv'
<1>0. /\ UNCHANGED <<dbVars, writerVars, want, claimed, seen, todo, fresh, escaped>>
      /\ claimed[r] = {}
      /\ pc' = [pc EXCEPT ![r] = "query"] \/ pc' = [pc EXCEPT ![r] = "served"]
  BY DEF NothingToDrain, Rearm, Query, IInv, ClaimsAreHeld
<1> USE DEF dbVars, writerVars
<1>1. ClaimsAreHeld' BY <1>0 DEF IInv, ClaimsAreHeld, TypeOK
<1>2. WritesAreEnqueued' BY <1>0 DEF IInv, WritesAreEnqueued
<1>3. RecomputeIsCurrent'
  <2>1. \A q \in Readers : pc'[q] = "recompute" => q # r /\ pc[q] = "recompute" BY <1>0 DEF IInv, TypeOK
  <2> QED BY <1>0, <2>1 DEF IInv, RecomputeIsCurrent, Current
<1>4. StaleRowIsAccountedFor' BY <1>0 DEF IInv, StaleRowIsAccountedFor, Current
<1> QED BY <1>1, <1>2, <1>3, <1>4 DEF IInv

LEMMA StepIInv == IInv /\ [Next]_vars => IInv'
<1> SUFFICES ASSUME IInv, [Next]_vars PROVE IInv' OBVIOUS
<1>0. TypeOK' BY TypeStep DEF IInv
<1>1. ASSUME NEW w \in Writers, WriterStatement(w) \/ WriterEnqueues(w) \/ CommitWrite(w) \/ AbortWrite(w)
      PROVE  IInv'
  BY <1>0, <1>1, StatementIInv, EnqueueIInv, CommitWriteIInv, AbortWriteIInv DEF WriterEnqueues
<1>2. ASSUME NEW r \in Readers, StartRead(r) \/ FailRead(r) PROVE IInv'
  BY <1>0, <1>2, StartReadIInv, ResetIInv DEF FailRead
<1>3. ASSUME NEW r \in Readers, ReaderProceeds(r) PROVE IInv'
  BY <1>0, <1>3, ClaimMarkerIInv, ReadContextIInv, RecomputeBatchIInv, CommitDrainIInv, ResetIInv, ServeIInv
     DEF ReaderProceeds, FinishRead
<1>4. CASE UNCHANGED vars
  BY <1>4 DEF IInv, TypeOK, ClaimsAreHeld, WritesAreEnqueued, RecomputeIsCurrent, StaleRowIsAccountedFor, Current,
              vars, dbVars, writerVars, readerVars
<1> QED BY <1>1, <1>2, <1>3, <1>4 DEF Next

\* The queue accounts for every stale row but those changed by a write that left
\* no marker of its own: for every number of sessions and transactions.
THEOREM StaleRowsAccountedFor == Spec => []StaleRowIsAccountedFor
<1>1. IInv => StaleRowIsAccountedFor BY DEF IInv
<1> QED BY InitIInv, StepIInv, <1>1, PTL DEF Spec
-----------------------------------------------------------------------------
(* Refinement of StalenessContract.                                        *)

LEMMA InitContract == Init => Contract!Init
BY SessionsAssumption DEF Init, Contract!Init, Marked, Current, Clean, Pending

\* A step that leaves data, the queue's status and the excuses alone.
LEMMA StutterContract ==
  ASSUME UNCHANGED <<overlay, ledger, stored, escaped>>, Marked' = Marked
  PROVE  UNCHANGED Contract!vars
BY DEF Contract!vars, Current

LEMMA WriterContract ==
  ASSUME IInv, NEW w \in Writers,
         WriterStatement(w) \/ WriterEnqueues(w) \/ CommitWrite(w) \/ AbortWrite(w)
  PROVE  Contract!Next \/ UNCHANGED Contract!vars
<1>1. CASE WriterStatement(w)
  <2>1. UNCHANGED dbVars /\ UNCHANGED escaped
    BY <1>1 DEF WriterStatement, WriteWide, WriteLedger, WriteOverlay, CreateTransaction, DeleteTransaction, Write
  <2> QED BY <2>1, StutterContract DEF dbVars, Marked
<1>2. CASE WriterEnqueues(w)
  <2>1. PICK t \in Txns : EnqueueMarker(w, t) BY <1>2 DEF WriterEnqueues
  <2>2. Marked' = Marked
    BY <2>1, SessionsAssumption DEF EnqueueMarker, Marked, IInv, TypeOK, Clean, Pending
  <2> QED BY <2>1, <2>2, StutterContract DEF EnqueueMarker
<1>3. CASE CommitWrite(w)
  <2>1. ASSUME NEW t \in Txns, Current(t)' # Current(t) PROVE t \in Marked' \cup escaped'
    <3>1. t \in Touched(w) BY <1>3, <2>1, CommitChangesTouched DEF IInv
    <3>2. queue[t] = w \/ t \in passed[w]
      BY <1>3, <3>1 DEF CommitWrite, IInv, WritesAreEnqueued, Touched, Bumped
    <3> QED BY <1>3, <3>1, <3>2 DEF CommitWrite, Marked
  <2>2. Marked \subseteq Marked' BY <1>3 DEF CommitWrite, Marked
  <2>3. escaped \subseteq escaped' /\ UNCHANGED stored BY <1>3 DEF CommitWrite
  <2> QED BY <2>1, <2>2, <2>3 DEF Contract!Next, Contract!Change
<1>4. CASE AbortWrite(w)
  <2>1. Marked' = Marked BY <1>4, SessionsAssumption DEF AbortWrite, Marked, IInv, TypeOK, Clean, Pending
  <2> QED BY <1>4, <2>1, StutterContract DEF AbortWrite
<1> QED BY <1>1, <1>2, <1>3, <1>4

LEMMA ReaderContract ==
  ASSUME IInv, NEW r \in Readers, StartRead(r) \/ ReaderProceeds(r) \/ FailRead(r)
  PROVE  Contract!Next \/ UNCHANGED Contract!vars
<1>1. ASSUME NEW t \in Txns, ClaimMarker(r, t) PROVE Contract!Next
  <2>1. Marked' = Marked BY <1>1 DEF ClaimMarker, Marked, IInv, TypeOK
  <2>2. t \in Marked BY <1>1 DEF ClaimMarker, Marked
  <2>3. escaped' = escaped \ {t} /\ UNCHANGED <<overlay, ledger, stored>> BY <1>1 DEF ClaimMarker
  <2> QED BY <2>1, <2>2, <2>3 DEF Contract!Next, Contract!TakeOn, Current
<1>2. CASE CommitDrain(r)
  <2>0. pc[r] = "recompute" /\ todo[r] = {} BY <1>2 DEF CommitDrain
  <2>1. claimed[r] \subseteq Marked BY DEF IInv, ClaimsAreHeld, Marked
  <2>2. Marked' = Marked \ claimed[r]
    BY <1>2, SessionsAssumption DEF CommitDrain, Marked, IInv, ClaimsAreHeld, TypeOK, Clean, Pending
  <2>3. \A t \in claimed[r] : stored'[t] = Current(t) \/ t \in escaped
    BY <1>2, <2>0, <2>1 DEF CommitDrain, IInv, RecomputeIsCurrent, Marked
  <2>4. \A t \in Txns \ claimed[r] : stored'[t] = stored[t] BY <1>2 DEF CommitDrain
  <2>5. UNCHANGED <<overlay, ledger, escaped>> BY <1>2 DEF CommitDrain
  <2> QED BY <2>1, <2>2, <2>3, <2>4, <2>5 DEF Contract!Next, Contract!Refresh, Current, Marked
<1>3. CASE Reset(r)
  <2>1. Marked' = Marked BY <1>3 DEF Reset, Marked, IInv, TypeOK
  <2> QED BY <1>3, <2>1, StutterContract DEF Reset
<1>4. ASSUME UNCHANGED <<dbVars, escaped>> PROVE UNCHANGED Contract!vars
  BY <1>4, StutterContract DEF dbVars, Marked
<1>5. ASSUME NEW batch \in SUBSET todo[r], RecomputeBatch(r, batch) PROVE UNCHANGED <<dbVars, escaped>>
  BY <1>5 DEF RecomputeBatch
<1>6. StartRead(r) \/ NothingToDrain(r) \/ ReadContext(r) \/ Rearm(r) \/ Query(r) => UNCHANGED <<dbVars, escaped>>
  BY DEF StartRead, NothingToDrain, ReadContext, Rearm, Query
<1> QED BY <1>1, <1>2, <1>3, <1>4, <1>5, <1>6 DEF ReaderProceeds, FinishRead, FailRead

\* The projection implements the contract, for all constants.
THEOREM ProjectionImplementsContract == Spec => ImplementsContract
<1>1. IInv /\ [Next]_vars => [Contract!Next]_Contract!vars
  <2> SUFFICES ASSUME IInv, [Next]_vars PROVE [Contract!Next]_Contract!vars OBVIOUS
  <2>1. CASE UNCHANGED vars BY <2>1, StutterContract DEF vars, dbVars, Marked
  <2> QED BY <2>1, WriterContract, ReaderContract DEF Next
<1> QED BY InitIInv, StepIInv, InitContract, <1>1, PTL DEF Spec, ImplementsContract, Contract!Spec
-----------------------------------------------------------------------------
(* What a request is served.                                               *)

LEMMA InitPageInv == Init => PageInv
<1> SUFFICES ASSUME Init PROVE PageInv OBVIOUS
<1>1. IInv BY InitIInv
<1>2. RemovalsAreExclusive BY DEF Init, RemovalsAreExclusive, NoWork, NotYet, Deleted
<1>3. ReadsArePast
  <2>1. ASSUME NEW t \in Txns PROVE Past(NoRow, t) /\ Past(stored[t], t)
    <3>1. ledger[t] \in {0, 1} /\ overlay[t] = 0 /\ stored[t] = Resolve(0, ledger[t]) BY DEF Init, NotYet, Current
    <3> QED BY <3>1 DEF Past, Resolve, NoRow
  <2>2. ASSUME NEW r \in Readers, NEW t \in Txns
        PROVE  seen[r][t] = 0 /\ overlay[t] = 0 /\ fresh[r][t] = NoRow /\ floor[r][t] = NoRow
    BY DEF Init
  <2>3. NoRow.ledger # Deleted BY DEF NoRow, Deleted
  <2> QED BY <2>1, <2>2, <2>3 DEF ReadsArePast
<1>4. DrainsAreAhead BY DEF Init, DrainsAreAhead
<1>5. RequestsAreServed BY DEF Init, RequestsAreServed
<1>6. ServedPageIsCurrent BY DEF Init, ServedPageIsCurrent
<1> QED BY <1>1, <1>2, <1>3, <1>4, <1>5, <1>6 DEF PageInv

\* Who deletes a transaction is the only one writing to it.
LEMMA RemovalsStep == PageInv /\ [Next]_vars => RemovalsAreExclusive'
<1> SUFFICES ASSUME PageInv, [Next]_vars PROVE RemovalsAreExclusive' OBVIOUS
<1>0. TypeOK /\ RemovalsAreExclusive BY DEF PageInv, IInv
<1> USE DEF RemovalsAreExclusive, Live, NotYet, Deleted
<1>1. ASSUME NEW w \in Writers, WriterStatement(w) PROVE RemovalsAreExclusive'
  <2> USE DEF Write, CanWrite, Visible, NotRemoved, dbVars, TypeOK, Work, Live
  <2>1. CASE WriteWide(w) BY <1>0, <2>1 DEF WriteWide
  <2>2. ASSUME NEW t \in Txns, WriteLedger(w, t) PROVE RemovalsAreExclusive' BY <1>0, <2>2 DEF WriteLedger
  <2>3. ASSUME NEW t \in Txns, WriteOverlay(w, t) PROVE RemovalsAreExclusive' BY <1>0, <2>3 DEF WriteOverlay
  <2>4. ASSUME NEW t \in Txns, CreateTransaction(w, t) PROVE RemovalsAreExclusive' BY <1>0, <2>4 DEF CreateTransaction
  <2>5. ASSUME NEW t \in Txns, DeleteTransaction(w, t) PROVE RemovalsAreExclusive' BY <1>0, <2>5 DEF DeleteTransaction
  <2> QED BY <1>1, <2>1, <2>2, <2>3, <2>4, <2>5 DEF WriterStatement
<1>2. ASSUME NEW w \in Writers, CommitWrite(w) PROVE RemovalsAreExclusive'
  BY <1>0, <1>2 DEF CommitWrite, TypeOK, NoWork, Work
<1>3. ASSUME NEW w \in Writers, AbortWrite(w) PROVE RemovalsAreExclusive'
  BY <1>0, <1>3 DEF AbortWrite, TypeOK, NoWork, Work
<1>4. CASE UNCHANGED <<ledger, work>> BY <1>0, <1>4
<1> QED BY <1>1, <1>2, <1>3, <1>4
    DEF Next, WriterEnqueues, EnqueueMarker, StartRead, ReaderProceeds, ClaimMarker, NothingToDrain, ReadContext,
        RecomputeBatch, CommitDrain, Rearm, Query, FinishRead, FailRead, Reset, vars, dbVars, writerVars

\* Versions only grow, and a deletion is for ever.
LEMMA VersionsGrow ==
  ASSUME PageInv, [Next]_vars, NEW t \in Txns
  PROVE  /\ overlay'[t] >= overlay[t]
         /\ ledger[t] = Deleted => ledger'[t] = Deleted
         /\ ledger'[t] = Deleted \/ ledger'[t] >= ledger[t]
<1>0. TypeOK /\ TypeOK' /\ RemovalsAreExclusive BY TypeStep DEF PageInv, IInv
<1>1. CASE UNCHANGED <<overlay, ledger>> BY <1>0, <1>1 DEF TypeOK, Deleted
<1>2. ASSUME NEW w \in Writers, CommitWrite(w)
      PROVE  /\ overlay'[t] >= overlay[t]
             /\ ledger[t] = Deleted => ledger'[t] = Deleted
             /\ ledger'[t] = Deleted \/ ledger'[t] >= ledger[t]
  BY <1>0, <1>2 DEF CommitWrite, RemovalsAreExclusive, TypeOK, Deleted, Live
<1> QED BY <1>1, <1>2
    DEF Next, WriterStatement, WriteWide, WriteLedger, WriteOverlay, CreateTransaction, DeleteTransaction, Write,
        WriterEnqueues, EnqueueMarker, AbortWrite, StartRead, ReaderProceeds, ClaimMarker, NothingToDrain, ReadContext,
        RecomputeBatch, CommitDrain, Rearm, Query, FinishRead, FailRead, Reset, vars, dbVars, writerVars

Versions == [overlay : Nat, ledger : Nat \cup {Deleted}]

\* What was past stays past, what covered a request goes on covering it.
LEMMA PastStays ==
  ASSUME PageInv, [Next]_vars, NEW t \in Txns, NEW row \in Versions, Past(row, t)
  PROVE  Past(row, t)'
<1>1. TypeOK /\ TypeOK' BY TypeStep DEF PageInv, IInv
<1> QED BY <1>1, VersionsGrow DEF Past, TypeOK, Deleted, Versions

LEMMA CoversStays ==
  ASSUME PageInv, [Next]_vars, NEW t \in Txns, NEW row, NEW f, Covers(row, f, t)
  PROVE  Covers(row, f, t)'
  BY VersionsGrow DEF Covers

LEMMA RowsAreVersions == TypeOK => /\ \A t \in Txns : stored[t] \in Versions
                                   /\ \A r \in Readers, t \in Txns : fresh[r][t] \in Versions /\ floor[r][t] \in Versions
  BY DEF TypeOK, Row, Versions

LEMMA ReadsArePastStep == PageInv /\ [Next]_vars => ReadsArePast'
<1> SUFFICES ASSUME PageInv, [Next]_vars PROVE ReadsArePast' OBVIOUS
<1>0. TypeOK /\ TypeOK' /\ ReadsArePast /\ ClaimsAreHeld BY TypeStep DEF PageInv, IInv
<1>1. ASSUME NEW t \in Txns PROVE Past(stored[t], t)' \/ \E r \in Readers : CommitDrain(r)
  <2>1. CASE UNCHANGED stored
    <3>1. stored[t] \in Versions /\ Past(stored[t], t) BY <1>0, RowsAreVersions DEF ReadsArePast
    <3> QED BY <2>1, <3>1, PastStays DEF Past
  <2> QED BY <2>1
    DEF Next, WriterStatement, WriteWide, WriteLedger, WriteOverlay, CreateTransaction, DeleteTransaction, Write,
        WriterEnqueues, EnqueueMarker, CommitWrite, AbortWrite, StartRead, ReaderProceeds, ClaimMarker, NothingToDrain,
        ReadContext, RecomputeBatch, Rearm, Query, FinishRead, FailRead, Reset, vars, dbVars, writerVars
<1>2. ASSUME NEW t \in Txns, NEW r \in Readers, CommitDrain(r) PROVE Past(stored[t], t)'
  <2>1. stored'[t] \in {stored[t], fresh[r][t]} /\ UNCHANGED <<overlay, ledger>> BY <1>0, <1>2 DEF CommitDrain, TypeOK
  <2> QED BY <1>0, <2>1 DEF ReadsArePast, Past
<1>3. ASSUME NEW r \in Readers, NEW t \in Txns
      PROVE  /\ seen'[r][t] \in {seen[r][t], overlay[t], 0}
             /\ fresh'[r][t] \in {fresh[r][t], NoRow, Resolve(seen[r][t], ledger[t])}
             /\ floor'[r][t] \in {floor[r][t], NoRow, Inputs(t)}
             /\ (seen'[r][t] # seen[r][t] \/ fresh'[r][t] # fresh[r][t] \/ floor'[r][t] # floor[r][t]
                    => UNCHANGED <<overlay, ledger>>)
  <2> USE DEF dbVars, writerVars, readerVars
  <2>1. ASSUME NEW w \in Writers, WriterStatement(w) \/ WriterEnqueues(w) \/ CommitWrite(w) \/ AbortWrite(w)
        PROVE  UNCHANGED <<seen, fresh, floor>>
    BY <2>1 DEF WriterStatement, WriteWide, WriteLedger, WriteOverlay, CreateTransaction, DeleteTransaction, Write,
                WriterEnqueues, EnqueueMarker, CommitWrite, AbortWrite
  <2>2. ASSUME NEW q \in Readers, StartRead(q) \/ ReaderProceeds(q) \/ FailRead(q)
        PROVE  /\ seen'[r][t] \in {seen[r][t], overlay[t], 0}
               /\ fresh'[r][t] \in {fresh[r][t], NoRow, Resolve(seen[r][t], ledger[t])}
               /\ floor'[r][t] \in {floor[r][t], NoRow, Inputs(t)}
               /\ UNCHANGED <<overlay, ledger>>
    <3> USE <1>0 DEF TypeOK
    <3>1. CASE StartRead(q) BY <3>1 DEF StartRead
    <3>2. ASSUME NEW u \in Txns, ClaimMarker(q, u) PROVE UNCHANGED <<seen, fresh, floor, overlay, ledger>>
      BY <3>2 DEF ClaimMarker
    <3>3. CASE NothingToDrain(q) \/ Rearm(q) \/ Query(q) BY <3>3 DEF NothingToDrain, Rearm, Query
    <3>4. CASE ReadContext(q) BY <3>4 DEF ReadContext
    <3>5. ASSUME NEW batch \in SUBSET todo[q], RecomputeBatch(q, batch)
          PROVE  /\ UNCHANGED <<seen, floor, overlay, ledger>>
                 /\ fresh'[r][t] \in {fresh[r][t], Resolve(seen[r][t], ledger[t])}
      BY <3>5 DEF RecomputeBatch
    <3>6. CASE CommitDrain(q) BY <3>6 DEF CommitDrain
    <3>7. CASE Reset(q) BY <3>7 DEF Reset
    <3> QED BY <2>2, <3>1, <3>2, <3>3, <3>4, <3>5, <3>6, <3>7 DEF ReaderProceeds, FinishRead, FailRead
  <2>3. CASE UNCHANGED vars BY <2>3 DEF vars
  <2> QED BY <2>1, <2>2, <2>3 DEF Next
<1>4. ASSUME NEW r \in Readers, NEW t \in Txns
      PROVE  /\ seen'[r][t] <= overlay'[t] /\ Past(fresh[r][t], t)' /\ Past(floor[r][t], t)'
             /\ floor'[r][t].ledger = Deleted => ledger'[t] = Deleted
  <2>1. /\ fresh[r][t] \in Versions /\ floor[r][t] \in Versions
        /\ seen[r][t] \in Nat /\ seen[r][t] <= overlay[t] /\ overlay[t] \in Nat /\ ledger[t] \in Nat \cup {Deleted}
        /\ Past(fresh[r][t], t) /\ Past(floor[r][t], t) /\ (floor[r][t].ledger = Deleted => ledger[t] = Deleted)
    BY <1>0, RowsAreVersions DEF ReadsArePast, TypeOK
  <2>2. overlay'[t] \in Nat /\ ledger'[t] \in Nat \cup {Deleted} BY <1>0 DEF TypeOK
  <2>3. seen'[r][t] <= overlay'[t]
    BY <1>3, <2>1, <2>2, VersionsGrow
  <2>4. Past(fresh[r][t], t)'
    <3>1. CASE UNCHANGED <<overlay, ledger>>
      BY <1>3, <2>1, <3>1 DEF Past, Resolve, NoRow, Deleted, Versions
    <3>2. CASE fresh'[r][t] = fresh[r][t] BY <2>1, <3>2, PastStays DEF Past
    <3> QED BY <1>3, <3>1, <3>2
  <2>5. Past(floor[r][t], t)' /\ (floor'[r][t].ledger = Deleted => ledger'[t] = Deleted)
    <3>1. CASE UNCHANGED <<overlay, ledger>>
      BY <1>3, <2>1, <3>1 DEF Past, Inputs, NoRow, Deleted, Versions
    <3>2. CASE floor'[r][t] = floor[r][t] BY <2>1, <3>2, PastStays, VersionsGrow DEF Past
    <3> QED BY <1>3, <3>1, <3>2
  <2> QED BY <2>3, <2>4, <2>5
<1> QED BY <1>1, <1>2, <1>4 DEF ReadsArePast

\* What resolves the inputs a request found, or later ones, covers the request.
LEMMA ResolvedCovers ==
  ASSUME NEW o \in Nat, NEW l \in Nat \cup {Deleted}, NEW f \in Versions, NEW t, l = ledger[t],
         f.ledger = Deleted => l = Deleted, l = Deleted \/ f.ledger <= l, f.ledger > 0 => o >= f.overlay
  PROVE  Covers(Resolve(o, l), f, t)
  BY DEF Covers, Resolve, Versions, NoRow, Deleted, NotYet

LEMMA NothingIsCovered == ASSUME NEW row, NEW t PROVE Covers(row, NoRow, t)
  BY DEF Covers, NoRow, NotYet

LEMMA DrainsAreAheadStep == PageInv /\ [Next]_vars => DrainsAreAhead'
<1> SUFFICES ASSUME PageInv, [Next]_vars,
                    NEW q \in Readers, pc'[q] = "recompute", NEW t \in claimed'[q]
             PROVE  /\ seen'[q][t] >= stored'[t].overlay
                    /\ \A r \in Readers : floor'[r][t].ledger > 0 => seen'[q][t] >= floor'[r][t].overlay
                    /\ t \notin todo'[q] =>
                          /\ \A r \in Readers : Covers(fresh[q][t], floor[r][t], t)'
                          /\ fresh'[q][t] # NoRow => /\ fresh'[q][t].ledger >= stored'[t].ledger
                                                     /\ fresh'[q][t].overlay >= stored'[t].overlay
  BY DEF DrainsAreAhead
<1> DEFINE Goal == /\ seen'[q][t] >= stored'[t].overlay
                   /\ \A r \in Readers : floor'[r][t].ledger > 0 => seen'[q][t] >= floor'[r][t].overlay
                   /\ t \notin todo'[q] =>
                         /\ \A r \in Readers : Covers(fresh[q][t], floor[r][t], t)'
                         /\ fresh'[q][t] # NoRow => /\ fresh'[q][t].ledger >= stored'[t].ledger
                                                    /\ fresh'[q][t].overlay >= stored'[t].overlay
<1>0. TypeOK /\ TypeOK' /\ ReadsArePast /\ ClaimsAreHeld /\ ClaimsAreHeld' /\ DrainsAreAhead /\ RecomputeIsCurrent
  BY StepIInv DEF PageInv, IInv
<1>t. t \in Txns BY <1>0 DEF TypeOK
<1>1. ASSUME pc[q] = "recompute", t \in claimed[q], seen'[q][t] = seen[q][t], fresh'[q][t] = fresh[q][t],
             t \notin todo'[q] => t \notin todo[q], stored'[t] = stored[t],
             \A r \in Readers : floor'[r][t] \in {floor[r][t], NoRow}
      PROVE  Goal
  <2>1. NoRow.ledger = 0 BY DEF NoRow
  <2>2. ASSUME NEW r \in Readers, t \notin todo'[q] PROVE Covers(fresh[q][t], floor[r][t], t)'
    <3>1. CASE floor'[r][t] = floor[r][t]
      <4>1. Covers(fresh[q][t], floor[r][t], t) BY <1>0, <1>1, <2>2 DEF DrainsAreAhead
      <4> QED BY <1>1, <1>t, <3>1, <4>1, CoversStays DEF Covers
    <3>2. CASE floor'[r][t] = NoRow BY <3>2, NothingIsCovered DEF Covers, NoRow, NotYet
    <3> QED BY <1>1, <3>1, <3>2
  <2> QED BY <1>0, <1>1, <2>1, <2>2 DEF DrainsAreAhead
<1>2. ASSUME NEW r \in Readers, StartRead(r) PROVE Goal
  <2>1. /\ pc[q] = "recompute" /\ t \in claimed[q]
        /\ UNCHANGED <<overlay, ledger, stored, seen, fresh, todo>>
        /\ floor'[r][t] = IF t \in escaped THEN NoRow ELSE Inputs(t)
        /\ \A s \in Readers : s # r => floor'[s] = floor[s]
    BY <1>0, <1>2, <1>t DEF StartRead, TypeOK, dbVars, writerVars
  <2>2. CASE t \in escaped BY <1>1, <2>1, <2>2
  <2>3. CASE t \notin escaped
    <3>1. /\ Resolve(seen[q][t], ledger[t]) = Current(t)
          /\ t \notin todo[q] => fresh[q][t] = Current(t)
      BY <1>0, <2>1, <2>3 DEF RecomputeIsCurrent
    <3>2. overlay[t] \in Nat /\ ledger[t] \in Nat \cup {Deleted} /\ Inputs(t) \in Versions /\ seen[q][t] \in Nat
      BY <1>0, <1>t DEF TypeOK, Inputs, Versions
    <3>3. Covers(Current(t), Inputs(t), t)
      BY <3>2, <1>t, ResolvedCovers DEF Current, Inputs, Deleted
    <3>4. Inputs(t).ledger > 0 => seen[q][t] = overlay[t]
      BY <3>1, <3>2 DEF Resolve, Current, Inputs
    <3>5. ASSUME NEW s \in Readers
          PROVE  /\ floor'[s][t].ledger > 0 => seen[q][t] >= floor'[s][t].overlay
                 /\ t \notin todo[q] => Covers(fresh[q][t], floor'[s][t], t)
      <4>1. CASE s = r BY <2>1, <2>3, <3>1, <3>2, <3>3, <3>4, <4>1 DEF Inputs
      <4>2. CASE s # r BY <1>0, <2>1, <4>2 DEF DrainsAreAhead
      <4> QED BY <4>1, <4>2
    <3> QED BY <1>0, <2>1, <3>5 DEF DrainsAreAhead, Covers
  <2> QED BY <2>2, <2>3
<1>3. ASSUME NEW r \in Readers, ReadContext(r) PROVE Goal
  <2>1. CASE q # r BY <1>0, <1>1, <1>3, <2>1 DEF ReadContext, dbVars, writerVars, TypeOK
  <2>2. CASE q = r
    <3>1. seen'[q] = overlay /\ todo'[q] = claimed'[q] /\ UNCHANGED <<stored, floor>>
      BY <1>0, <1>3, <2>2 DEF ReadContext, dbVars, TypeOK
    <3>2. overlay[t] >= stored[t].overlay /\ \A s \in Readers : overlay[t] >= floor[s][t].overlay
      BY <1>0, <1>t DEF ReadsArePast, Past, TypeOK, Row
    <3> QED BY <3>1, <3>2
  <2> QED BY <2>1, <2>2
<1>4. ASSUME NEW r \in Readers, NEW batch \in SUBSET todo[r], RecomputeBatch(r, batch) PROVE Goal
  <2>1. CASE q # r \/ t \notin batch
    BY <1>0, <1>1, <1>4, <1>t, <2>1 DEF RecomputeBatch, dbVars, writerVars, TypeOK
  <2>2. CASE q = r /\ t \in batch
    <3>1. /\ fresh'[q][t] = Resolve(seen[q][t], ledger[t]) /\ pc[q] = "recompute" /\ t \in claimed[q]
          /\ UNCHANGED <<overlay, ledger, stored, seen, floor>>
      BY <1>0, <1>4, <1>t, <2>2 DEF RecomputeBatch, dbVars, writerVars, TypeOK
    <3>2. /\ seen[q][t] \in Nat /\ ledger[t] \in Nat \cup {Deleted} /\ stored[t] \in Versions
          /\ \A s \in Readers : floor[s][t] \in Versions
      BY <1>0, <1>t DEF TypeOK, Row, Versions
    <3>3. ASSUME NEW s \in Readers PROVE Covers(fresh'[q][t], floor[s][t], t)
      <4>1. /\ floor[s][t].ledger = Deleted => ledger[t] = Deleted
            /\ ledger[t] = Deleted \/ floor[s][t].ledger <= ledger[t]
            /\ floor[s][t].ledger > 0 => seen[q][t] >= floor[s][t].overlay
        BY <1>0, <1>t, <3>1 DEF ReadsArePast, Past, DrainsAreAhead
      <4> QED BY <1>t, <3>1, <3>2, <4>1, ResolvedCovers
    <3>4. fresh'[q][t] # NoRow => /\ fresh'[q][t].ledger >= stored[t].ledger
                                  /\ fresh'[q][t].overlay >= stored[t].overlay
      BY <1>0, <1>t, <3>1, <3>2 DEF Resolve, ReadsArePast, Past, DrainsAreAhead, Deleted
    <3> QED BY <1>0, <3>1, <3>3, <3>4 DEF DrainsAreAhead, Covers
  <2> QED BY <2>1, <2>2
<1>5. ASSUME NEW r \in Readers, CommitDrain(r) PROVE Goal
  <2>1. q # r /\ claimed'[q] = claimed[q] /\ pc[q] = "recompute" BY <1>0, <1>5 DEF CommitDrain, TypeOK
  <2>2. t \notin claimed[r] BY <1>0, <2>1 DEF ClaimsAreHeld
  <2> QED BY <1>0, <1>1, <1>5, <1>t, <2>1, <2>2 DEF CommitDrain, TypeOK
<1>6. ASSUME NEW r \in Readers, Reset(r) PROVE Goal
  BY <1>0, <1>1, <1>6, <1>t DEF Reset, writerVars, TypeOK
<1>7. ASSUME NEW r \in Readers, NEW u \in Txns, ClaimMarker(r, u) PROVE Goal
  BY <1>0, <1>1, <1>7 DEF ClaimMarker, writerVars, TypeOK
<1>8. ASSUME NEW r \in Readers, NothingToDrain(r) \/ Rearm(r) \/ Query(r) PROVE Goal
  BY <1>0, <1>1, <1>8 DEF NothingToDrain, Rearm, Query, dbVars, writerVars, TypeOK
<1>9. ASSUME NEW w \in Writers, WriterStatement(w) \/ WriterEnqueues(w) \/ CommitWrite(w) \/ AbortWrite(w) PROVE Goal
  <2>1. UNCHANGED <<stored, readerVars>>
    BY <1>9 DEF WriterStatement, WriteWide, WriteLedger, WriteOverlay, CreateTransaction, DeleteTransaction, Write,
                WriterEnqueues, EnqueueMarker, CommitWrite, AbortWrite, dbVars
  <2> QED BY <1>1, <2>1 DEF readerVars
<1>10. CASE UNCHANGED vars BY <1>1, <1>10 DEF vars, dbVars, readerVars
<1> QED BY <1>2, <1>3, <1>4, <1>5, <1>6, <1>7, <1>8, <1>9, <1>10 DEF Next, ReaderProceeds, FinishRead, FailRead

\* A request finds what was committed before it stored, or claims its marker.
LEMMA StartIsServed ==
  ASSUME PageInv, NEW r \in Readers, StartRead(r), NEW t \in Txns, t \notin want'[r]
  PROVE  Covers(stored[t], floor'[r][t], t)
<1>0. TypeOK /\ ClaimsAreHeld /\ StaleRowIsAccountedFor /\ pc[r] = "idle" /\ claimed[r] = {}
  BY DEF PageInv, IInv, StartRead, ClaimsAreHeld
<1>1. floor'[r][t] = IF t \in escaped THEN NoRow ELSE Inputs(t) BY <1>0 DEF StartRead, TypeOK
<1>2. queue[t] # Pending /\ queue[t] \notin Readers BY <1>0 DEF StartRead, Visited, ClaimsAreHeld, TypeOK
<1>3. t \in escaped \/ stored[t] = Current(t) BY <1>0, <1>2 DEF StaleRowIsAccountedFor
<1>4. overlay[t] \in Nat /\ ledger[t] \in Nat \cup {Deleted} /\ Inputs(t) \in Versions
  BY <1>0 DEF TypeOK, Inputs, Versions
<1>5. Covers(Current(t), Inputs(t), t)
  BY <1>4, ResolvedCovers DEF Current, Inputs, Deleted
<1> QED BY <1>1, <1>3, <1>5, NothingIsCovered

LEMMA RequestsAreServedStep == PageInv /\ [Next]_vars => RequestsAreServed'
<1> SUFFICES ASSUME PageInv, [Next]_vars, NEW r \in Readers
             PROVE  /\ pc'[r] # "rearm" => armed'[r]
                    /\ pc'[r] # "claim" => want'[r] = {}
                    /\ pc'[r] \in {"claim", "recompute", "rearm", "query"} =>
                          \A t \in Txns \ (want'[r] \cup claimed'[r]) : Covers(stored[t], floor[r][t], t)'
  BY DEF RequestsAreServed
<1>0. TypeOK /\ TypeOK' /\ ClaimsAreHeld /\ DrainsAreAhead /\ RequestsAreServed
  BY TypeStep DEF PageInv, IInv
<1>1. (pc'[r] # "rearm" => armed'[r]) /\ (pc'[r] # "claim" => want'[r] = {})
  <2>1. (pc[r] # "rearm" => armed[r]) /\ (pc[r] # "claim" => want[r] = {}) BY <1>0 DEF RequestsAreServed
  <2>2. ASSUME NEW w \in Writers, WriterStatement(w) \/ WriterEnqueues(w) \/ CommitWrite(w) \/ AbortWrite(w)
        PROVE  UNCHANGED <<pc, armed, want>>
    BY <2>2 DEF WriterStatement, WriteWide, WriteLedger, WriteOverlay, CreateTransaction, DeleteTransaction, Write,
                WriterEnqueues, EnqueueMarker, CommitWrite, AbortWrite, dbVars, readerVars
  <2>3. ASSUME NEW q \in Readers, StartRead(q) \/ FinishRead(q) \/ FailRead(q)
        PROVE  (pc'[r] # "rearm" => armed'[r]) /\ (pc'[r] # "claim" => want'[r] = {})
    BY <1>0, <2>1, <2>3 DEF TypeOK, StartRead, FinishRead, FailRead, Reset
  <2>4. ASSUME NEW q \in Readers, NothingToDrain(q) \/ ReadContext(q) \/ Rearm(q) \/ Query(q)
        PROVE  (pc'[r] # "rearm" => armed'[r]) /\ (pc'[r] # "claim" => want'[r] = {})
    BY <1>0, <2>1, <2>4 DEF TypeOK, NothingToDrain, ReadContext, Rearm, Query
  <2>5. ASSUME NEW q \in Readers, NEW u \in Txns, ClaimMarker(q, u)
        PROVE  (pc'[r] # "rearm" => armed'[r]) /\ (pc'[r] # "claim" => want'[r] = {})
    BY <1>0, <2>1, <2>5 DEF TypeOK, ClaimMarker
  <2>6. ASSUME NEW q \in Readers, NEW batch, RecomputeBatch(q, batch)
        PROVE  (pc'[r] # "rearm" => armed'[r]) /\ (pc'[r] # "claim" => want'[r] = {})
    BY <1>0, <2>1, <2>6 DEF TypeOK, RecomputeBatch
  <2>7. ASSUME NEW q \in Readers, CommitDrain(q)
        PROVE  (pc'[r] # "rearm" => armed'[r]) /\ (pc'[r] # "claim" => want'[r] = {})
    BY <1>0, <2>1, <2>7 DEF TypeOK, CommitDrain
  <2>8. CASE UNCHANGED vars BY <2>1, <2>8 DEF vars, readerVars
  <2> QED BY <2>1, <2>2, <2>3, <2>4, <2>5, <2>6, <2>7, <2>8 DEF Next, ReaderProceeds
<1>3. ASSUME pc'[r] \in {"claim", "recompute", "rearm", "query"},
             NEW t \in Txns, t \notin want'[r], t \notin claimed'[r]
      PROVE  Covers(stored[t], floor[r][t], t)'
  <2>1. ASSUME pc[r] \in {"claim", "recompute", "rearm", "query"}, t \notin want[r], t \notin claimed[r],
               stored'[t] = stored[t], floor'[r][t] = floor[r][t]
        PROVE  Covers(stored[t], floor[r][t], t)'
    <3>1. Covers(stored[t], floor[r][t], t) BY <1>0, <2>1 DEF RequestsAreServed
    <3> QED BY <2>1, <3>1, CoversStays DEF Covers
  <2>2. ASSUME NEW q \in Readers, StartRead(q) PROVE Covers(stored[t], floor[r][t], t)'
    <3>1. CASE q = r BY <1>3, <2>2, <3>1, StartIsServed DEF StartRead, dbVars, Covers
    <3>2. CASE q # r BY <1>0, <1>3, <2>1, <2>2, <3>2 DEF StartRead, dbVars, TypeOK
    <3> QED BY <3>1, <3>2
  <2>3. ASSUME NEW q \in Readers, CommitDrain(q) PROVE Covers(stored[t], floor[r][t], t)'
    <3>1. pc[q] = "recompute" /\ todo[q] = {} /\ UNCHANGED <<floor, overlay, ledger>> BY <2>3 DEF CommitDrain
    <3>2. CASE t \in claimed[q]
      <4>1. stored'[t] = fresh[q][t] BY <2>3, <3>2 DEF CommitDrain
      <4>2. Covers(fresh[q][t], floor[r][t], t) BY <1>0, <3>1, <3>2 DEF DrainsAreAhead
      <4> QED BY <3>1, <4>1, <4>2 DEF Covers
    <3>3. CASE t \notin claimed[q]
      <4>1. stored'[t] = stored[t] /\ t \notin want[r] /\ t \notin claimed[r]
        BY <1>0, <1>3, <2>3, <3>3 DEF CommitDrain, TypeOK
      <4>2. pc[r] \in {"claim", "recompute", "rearm", "query"} BY <1>0, <1>3, <2>3, <3>1 DEF CommitDrain, TypeOK
      <4> QED BY <2>1, <3>1, <4>1, <4>2
    <3> QED BY <3>2, <3>3
  <2>4. ASSUME NEW q \in Readers, Reset(q) PROVE Covers(stored[t], floor[r][t], t)'
    BY <1>0, <1>3, <2>1, <2>4 DEF Reset, TypeOK
  <2>5. ASSUME NEW q \in Readers, NEW u \in Txns, ClaimMarker(q, u) PROVE Covers(stored[t], floor[r][t], t)'
    BY <1>0, <1>3, <2>1, <2>5 DEF ClaimMarker, TypeOK
  <2>6. ASSUME NEW q \in Readers, NEW batch, RecomputeBatch(q, batch) PROVE Covers(stored[t], floor[r][t], t)'
    BY <1>0, <1>3, <2>1, <2>6 DEF RecomputeBatch, dbVars, TypeOK
  <2>7. ASSUME NEW q \in Readers, NothingToDrain(q) \/ ReadContext(q) \/ Rearm(q) \/ Query(q)
        PROVE  Covers(stored[t], floor[r][t], t)'
    BY <1>0, <1>3, <2>1, <2>7 DEF NothingToDrain, ReadContext, Rearm, Query, dbVars, TypeOK
  <2>8. ASSUME NEW w \in Writers, WriterStatement(w) \/ WriterEnqueues(w) \/ CommitWrite(w) \/ AbortWrite(w)
        PROVE  Covers(stored[t], floor[r][t], t)'
    <3>1. UNCHANGED <<stored, readerVars>>
      BY <2>8 DEF WriterStatement, WriteWide, WriteLedger, WriteOverlay, CreateTransaction, DeleteTransaction, Write,
                  WriterEnqueues, EnqueueMarker, CommitWrite, AbortWrite, dbVars
    <3> QED BY <1>3, <2>1, <3>1 DEF readerVars
  <2>9. CASE UNCHANGED vars BY <1>3, <2>1, <2>9 DEF vars, dbVars, readerVars
  <2> QED BY <2>2, <2>3, <2>4, <2>5, <2>6, <2>7, <2>8, <2>9 DEF Next, ReaderProceeds, FinishRead, FailRead
<1> QED BY <1>1, <1>3

LEMMA ServedPageStep == PageInv /\ [Next]_vars => ServedPageIsCurrent'
<1> SUFFICES ASSUME PageInv, [Next]_vars, NEW r \in Readers, pc'[r] = "served", NEW t \in Txns
             PROVE  Covers(page[r][t], floor[r][t], t)'
  BY DEF ServedPageIsCurrent
<1>0. TypeOK /\ ClaimsAreHeld /\ RequestsAreServed /\ ServedPageIsCurrent BY DEF PageInv, IInv
<1>1. CASE pc[r] = "served" /\ UNCHANGED <<page[r], floor[r]>>
  <2>1. Covers(page[r][t], floor[r][t], t) BY <1>0, <1>1 DEF ServedPageIsCurrent
  <2> QED BY <1>1, <2>1, CoversStays DEF Covers
<1>2. CASE Query(r)
  <2>1. pc[r] = "query" /\ armed[r] /\ want[r] = {} /\ claimed[r] = {}
    BY <1>0, <1>2 DEF Query, RequestsAreServed, ClaimsAreHeld
  <2>2. Covers(stored[t], floor[r][t], t) BY <1>0, <2>1 DEF RequestsAreServed
  <2>3. page'[r] = stored /\ UNCHANGED <<floor, overlay, ledger>> BY <1>0, <1>2, <2>1 DEF Query, dbVars, TypeOK
  <2> QED BY <2>2, <2>3 DEF Covers
<1>3. (pc[r] = "served" /\ UNCHANGED <<page[r], floor[r]>>) \/ Query(r)
  BY <1>0 DEF TypeOK, Next, WriterStatement, WriteWide, WriteLedger, WriteOverlay, CreateTransaction,
              DeleteTransaction, Write, WriterEnqueues, EnqueueMarker, CommitWrite, AbortWrite, StartRead, ReaderProceeds,
              ClaimMarker, NothingToDrain, ReadContext, RecomputeBatch, CommitDrain, Rearm, Query, FinishRead, FailRead,
              Reset, vars, readerVars
<1> QED BY <1>1, <1>2, <1>3

LEMMA StepPageInv == PageInv /\ [Next]_vars => PageInv'
BY StepIInv, RemovalsStep, ReadsArePastStep, DrainsAreAheadStep, RequestsAreServedStep, ServedPageStep DEF PageInv

\* Whatever is written while a request drains, fails or waits for another drain, the
\* page it serves shows every change committed before it began.
THEOREM ServedPagesAreCurrent == Spec => []ServedPageIsCurrent
<1>1. PageInv => ServedPageIsCurrent BY DEF PageInv
<1> QED BY InitPageInv, StepPageInv, <1>1, PTL DEF Spec

\* However two drains overlap, a stored row is never replaced by one computed from
\* older inputs.
THEOREM RowsMoveForwardHolds == Spec => RowsMoveForward
<1>1. PageInv /\ [Next]_vars => [NoRowGoesBack]_vars
  <2> SUFFICES ASSUME PageInv, [Next]_vars, NEW t \in Txns, stored'[t] # NoRow
               PROVE  stored'[t].ledger >= stored[t].ledger /\ stored'[t].overlay >= stored[t].overlay
    BY DEF NoRowGoesBack
  <2>0. TypeOK /\ DrainsAreAhead BY DEF PageInv, IInv
  <2>1. CASE stored'[t] = stored[t] BY <2>0, <2>1 DEF TypeOK, Row
  <2>2. ASSUME NEW r \in Readers, CommitDrain(r), t \in claimed[r]
        PROVE  stored'[t].ledger >= stored[t].ledger /\ stored'[t].overlay >= stored[t].overlay
    BY <2>0, <2>2 DEF CommitDrain, DrainsAreAhead
  <2>3. ASSUME NEW r \in Readers, CommitDrain(r), t \notin claimed[r] PROVE stored'[t] = stored[t]
    BY <2>3 DEF CommitDrain
  <2>4. UNCHANGED stored \/ \E r \in Readers : CommitDrain(r)
    BY DEF Next, WriterStatement, WriteWide, WriteLedger, WriteOverlay, CreateTransaction, DeleteTransaction, Write,
          WriterEnqueues, EnqueueMarker, CommitWrite, AbortWrite, StartRead, ReaderProceeds, ClaimMarker, NothingToDrain,
          ReadContext, RecomputeBatch, Rearm, Query, FinishRead, FailRead, Reset, vars, dbVars, writerVars
  <2> QED BY <2>1, <2>2, <2>3, <2>4
<1> QED BY InitPageInv, StepPageInv, <1>1, PTL DEF Spec, RowsMoveForward
=============================================================================

---------------------------- MODULE NaturalKeys ----------------------------
(***************************************************************************)
(* merge_by_natural_key: insert or update a batch of rows known only by    *)
(* their natural keys.  The lookup and the flush are two statements, so    *)
(* another transaction's insert may come between; the flush runs in a      *)
(* savepoint, and is tried again with the ids the winner has committed.    *)
(*                                                                         *)
(* A statement on a key another open transaction has written waits for it; *)
(* when all wait in a circle the database ends one of them.                *)
(***************************************************************************)
EXTENDS Naturals, Sequences, FiniteSets

CONSTANTS
    Sessions,
    Batches,        \* sequences of distinct keys, as callers pass them
    Attempts,       \* NATURAL_KEY_MERGE_ATTEMPTS
    NoSession

VARIABLES
    table,          \* the committed keys, each with the session that wrote it last
    merge,          \* the transaction of each session
    outcome         \* how it ended

vars == <<table, merge, outcome>>

Keys == UNION {{b[i] : i \in DOMAIN b} : b \in Batches}

NoMerge == [at |-> "idle", batch |-> <<>>, earlier |-> FALSE, known |-> {}, next |-> 1,
            written |-> {}, attempt |-> 1, bad |-> FALSE]

Init ==
    /\ table \in [Keys -> {NoSession} \cup {CHOOSE s \in Sessions : TRUE}]
    /\ merge = [s \in Sessions |-> NoMerge]
    /\ outcome = [s \in Sessions |-> "none"]

BatchKeys(b) == {b[i] : i \in DOMAIN b}
\* ids_by_natural_key: what of the batch is committed.
Resolve(b) == {k \in BatchKeys(b) : table[k] # NoSession}

\* The caller has flushed work of its own; the keys are resolved for the first time.
\* A bad batch has a row that breaks another constraint.
Lookup(s, b, bad) ==
    /\ outcome[s] = "none"
    /\ merge[s].at = "idle"
    /\ merge' = [merge EXCEPT ![s] = [NoMerge EXCEPT !.at = "flush", !.batch = b, !.earlier = TRUE,
                                                     !.known = Resolve(b), !.bad = bad]]
    /\ UNCHANGED <<table, outcome>>

Key(s) == merge[s].batch[merge[s].next]
Waits(s, t) == merge[s].at = "flush" /\ merge[s].next <= Len(merge[s].batch) /\ t # s /\ Key(s) \in merge[t].written

End(s, how) ==
    /\ merge' = [merge EXCEPT ![s] = NoMerge]
    /\ outcome' = [outcome EXCEPT ![s] = how]

\* One row of the flush: an update of a known key, or an insert that finds no row.
FlushRow(s) ==
    /\ merge[s].at = "flush"
    /\ merge[s].next <= Len(merge[s].batch)
    /\ \A t \in Sessions : ~Waits(s, t)
    /\ Key(s) \in merge[s].known \/ table[Key(s)] = NoSession
    /\ merge' = [merge EXCEPT ![s].written = @ \cup {Key(s)}, ![s].next = @ + 1]
    /\ UNCHANGED <<table, outcome>>

\* Back to the savepoint, for one attempt more with what was found.
Retry(s, now) ==
    merge' = [merge EXCEPT ![s].written = {}, ![s].next = 1, ![s].known = now, ![s].attempt = @ + 1]

\* The whole transaction is rolled back, not the savepoint.
Conflict_WholeTransaction(s) ==
    LET now == Resolve(merge[s].batch)
    IN  /\ merge[s].at = "flush"
        /\ merge[s].next <= Len(merge[s].batch)
        /\ \A t \in Sessions : ~Waits(s, t)
        /\ Key(s) \notin merge[s].known
        /\ table[Key(s)] # NoSession
        /\ merge[s].attempt < Attempts
        /\ merge' = [merge EXCEPT ![s].written = {}, ![s].next = 1, ![s].known = now,
                                  ![s].attempt = @ + 1, ![s].earlier = FALSE]
        /\ UNCHANGED <<table, outcome>>

\* The insert of a key that has a row by now: back to the savepoint, resolve again,
\* and try again if that finds a key that had no row.
Conflict(s) ==
    LET now == Resolve(merge[s].batch)
    IN  /\ merge[s].at = "flush"
        /\ merge[s].next <= Len(merge[s].batch)
        /\ \A t \in Sessions : ~Waits(s, t)
        /\ Key(s) \notin merge[s].known
        /\ table[Key(s)] # NoSession
        /\ IF now \subseteq merge[s].known THEN End(s, "refused")
           ELSE IF merge[s].attempt = Attempts THEN End(s, "exhausted")
           ELSE Retry(s, now) /\ UNCHANGED outcome
        /\ UNCHANGED table

\* Another constraint fails at the end of the flush; it is raised unless the lookup
\* finds new keys, which buys one more attempt and the same failure.
Violation(s) ==
    LET now == Resolve(merge[s].batch)
    IN  /\ merge[s].at = "flush" /\ merge[s].bad
        /\ merge[s].next > Len(merge[s].batch)
        /\ IF now \subseteq merge[s].known THEN End(s, "raised")
           ELSE IF merge[s].attempt = Attempts THEN End(s, "exhausted")
           ELSE Retry(s, now) /\ UNCHANGED outcome
        /\ UNCHANGED table

\* The caller commits its work and the batch.
Commit(s) ==
    /\ merge[s].at = "flush" /\ ~merge[s].bad
    /\ merge[s].next > Len(merge[s].batch)
    /\ table' = [k \in Keys |-> IF k \in merge[s].written THEN s ELSE table[k]]
    /\ End(s, IF merge[s].earlier /\ merge[s].written = BatchKeys(merge[s].batch) THEN "done" ELSE "partial")

\* The database breaks a circle of waits.
Victim(s) ==
    /\ \E t \in Sessions : Waits(s, t) /\ \E u \in Sessions : Waits(t, u) /\ (u = s \/ Waits(u, s))
    /\ End(s, "victim")
    /\ UNCHANGED table

Next ==
    \E s \in Sessions :
        \/ \E b \in Batches, bad \in BOOLEAN : Lookup(s, b, bad)
        \/ FlushRow(s) \/ Conflict(s) \/ Violation(s) \/ Commit(s) \/ Victim(s)

Spec == Init /\ [][Next]_vars

-----------------------------------------------------------------------------
(* Properties.                                                             *)

TypeOK ==
    /\ table \in [Keys -> Sessions \cup {NoSession}]
    /\ outcome \in [Sessions -> {"none", "done", "partial", "refused", "raised", "exhausted", "victim"}]
    /\ \A s \in Sessions : merge[s].known \cup merge[s].written \subseteq Keys /\ merge[s].attempt \in 1..Attempts

\* A lost race becomes an update: a batch is written whole, with all its caller did
\* before it, and the race itself never reaches the caller, neither as the unique
\* violation it is nor by using up the attempts.
LostRacesBecomeUpdates == \A s \in Sessions : outcome[s] \notin {"partial", "refused", "exhausted"}

\* The strengthening every step preserves.  A flush is of a transaction that has not
\* ended, and has written the rows before the next one.
WroteUpTo(m) == /\ m.batch \in Batches /\ m.earlier /\ m.next \in 1..(Len(m.batch) + 1)
                /\ m.written = {m.batch[i] : i \in 1..(m.next - 1)}

FlushesAreInOrder ==
    /\ merge \in [Sessions -> [at : {"idle", "flush"}, batch : Batches \cup {<<>>}, earlier : BOOLEAN,
                               known : SUBSET Keys, next : Nat, written : SUBSET Keys, attempt : 1..Attempts,
                               bad : BOOLEAN]]
    /\ \A s \in Sessions : merge[s].at = "flush" => outcome[s] = "none" /\ WroteUpTo(merge[s])

\* Each attempt a merge has lost, it lost to another transaction: one that had not ended
\* when the keys were resolved for it, and that will write no more.
Ended(s) == {t \in Sessions \ {s} : outcome[t] # "none"}
LostTo(s, winners) ==
    /\ winners \subseteq Ended(s) /\ Cardinality(winners) + 1 >= merge[s].attempt
    /\ \A k \in BatchKeys(merge[s].batch) \ merge[s].known : table[k] \in {NoSession} \cup (Ended(s) \ winners)
RacesAreCounted == \A s \in Sessions : merge[s].at = "flush" => \E winners \in SUBSET Sessions : LostTo(s, winners)

IInv == TypeOK /\ FlushesAreInOrder /\ RacesAreCounted /\ LostRacesBecomeUpdates

=============================================================================

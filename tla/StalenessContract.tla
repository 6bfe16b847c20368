------------------------- MODULE StalenessContract -------------------------
(***************************************************************************)
(* What the projection promises its readers, without sessions, locks or    *)
(* batches (the contract in the docstrings of                              *)
(* src/src/accounting/db/projection.py and repositories/projection.py): a  *)
(* change marks what it affects, a mark is discharged only by storing what *)
(* the transaction resolves to at that moment, and nothing else moves a    *)
(* stored row.  `excused` is the price of reading committed data: the      *)
(* transactions whose last change the queue may have missed.               *)
(***************************************************************************)
CONSTANT Txns
VARIABLES current, stored, marked, excused

vars == <<current, stored, marked, excused>>

Init ==
    /\ stored = current
    /\ marked = {}
    /\ excused = {}

\* Some transactions resolve differently: each is marked, or excused.
Change ==
    /\ \A t \in Txns : current'[t] # current[t] => t \in marked' \cup excused'
    /\ marked \subseteq marked'
    /\ excused \subseteq excused'
    /\ UNCHANGED stored

\* A drain commits.  It discharges the marks it claimed.
Refresh ==
    \E claimed \in SUBSET marked :
        /\ marked' = marked \ claimed
        /\ \A t \in claimed : stored'[t] = current[t] \/ t \in excused
        /\ \A t \in Txns \ claimed : stored'[t] = stored[t]
        /\ UNCHANGED <<current, excused>>

\* A drain takes on a marked transaction: it will read everything committed so far.
TakeOn ==
    /\ excused' \subseteq excused
    /\ excused \ excused' \subseteq marked
    /\ UNCHANGED <<current, stored, marked>>

Next == Change \/ Refresh \/ TakeOn

Spec == Init /\ [][Next]_vars
=============================================================================

--------------------------- MODULE MCCategoryTree ---------------------------
(* A small tree: one category with a subcategory and its catch-all, and one  *)
(* without, whose name the subcategory shares.  A larger one for a longer history.   *)
EXTENDS CategoryTree

CONSTANTS a, b, c, other

MCNames == {a, b}
MCNames3 == {a, b, c}
MCSeed3 == {<<a>>, <<a, b>>, <<a, other>>, <<b>>, <<c>>, <<c, b>>, <<c, other>>}
MCSeed == {<<a>>, <<a, b>>, <<a, other>>, <<b>>}

\* The answer is history: the properties of a step read the new one, and the old
\* one only when it was half.
MCView == <<refVars, rows, imported, enforced, lapses, requests,
            IF answer.code = "half" THEN answer ELSE Nothing>>

\* Where the violation run searches: histories of renames, deletes and overrides.
MCEditsOnly == /\ planned = {} /\ legs = {}
               /\ imported = [p \in Postings |-> NoPair]
               /\ answer.op \notin {"create", "file"}

=============================================================================

------------------------ MODULE MCResolvedProjection ------------------------
(* Small instances of ResolvedProjection.                                  *)
EXTENDS ResolvedProjection, TLC

Symmetry == Permutations(Writers) \cup Permutations(Readers)
=============================================================================

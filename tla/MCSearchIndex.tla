--------------------------- MODULE MCSearchIndex ---------------------------
(***************************************************************************)
(* SearchIndex for TLC.  The notes and the processes are alike.            *)
(***************************************************************************)
EXTENDS SearchIndex, TLC

Symmetry == Permutations(Note) \cup Permutations(Process)
=============================================================================

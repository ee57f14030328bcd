---------------------------- MODULE MCTaskStore ----------------------------
(***************************************************************************)
(* TaskStore for TLC.  Threads and tasks are interchangeable.        *)
(***************************************************************************)
EXTENDS TaskStore, TLC

Symmetry == Permutations(Thread) \cup Permutations(Task)
=============================================================================

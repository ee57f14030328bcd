---------------------------- MODULE MCOperations ----------------------------
(***************************************************************************)
(* Retention and backup for TLC: two administrators, a note that two       *)
(* consumers may read, and an artifact that is uploaded meanwhile.         *)
(***************************************************************************)
EXTENDS Backup, TLC

\* The recipient has one delivery before that of the note.
MCSequence == [n \in Note |-> 2]

Symmetry == Permutations(Admin) \cup Permutations(Consumer)
=============================================================================

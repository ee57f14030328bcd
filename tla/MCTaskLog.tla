----------------------------- MODULE MCTaskLog -----------------------------
(***************************************************************************)
(* TaskLog for TLC: two tasks that end in any order and state, one restart *)
(* with other options, one failing step and two edits.  Replays run one at *)
(* a time under the lock, so that one thread stands for all.               *)
(***************************************************************************)
EXTENDS TaskLog
=============================================================================

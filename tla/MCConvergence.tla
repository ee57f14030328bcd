--------------------------- MODULE MCConvergence ---------------------------
(***************************************************************************)
(* Convergence for TLC; the configurations choose who writes which notes   *)
(* and which stages may fail.                                              *)
(***************************************************************************)
EXTENDS Convergence
=============================================================================

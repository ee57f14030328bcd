---------------------------- MODULE MCDerivation ----------------------------
(***************************************************************************)
(* Derivation for TLC: two threads of the server and a command-line        *)
(* process act for one principal, with three operations between them.      *)
(***************************************************************************)
EXTENDS Derivation, TLC

CONSTANTS s1, s2, c1, server, cli, k1

Symmetry == Permutations({s1, s2})

MCProcessOf == [a \in Actor |-> IF a = c1 THEN cli ELSE server]
MCDeriveKey == [a \in Actor |-> k1]
=============================================================================

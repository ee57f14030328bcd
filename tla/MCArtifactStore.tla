-------------------------- MODULE MCArtifactStore --------------------------
(***************************************************************************)
(* ArtifactStore for TLC.  Contents of three bytes are sent whole, or in   *)
(* chunks of two bytes and one, which can be put together to the wrong     *)
(* content.  p1 may share, p2 may not.                                     *)
(***************************************************************************)
EXTENDS ArtifactStore

CONSTANTS p1, p2

Symmetry == Permutations(Thread)

MCContent == {<<0, 0, 1>>, <<0, 0, 0>>}
MCOneContent == {<<0, 0, 1>>}
MCData == {<<0, 0>>, <<0>>, <<1>>}
MCClaim == {[size |-> 3, chunkSize |-> 2, sha |-> <<0, 0, 1>>]}

\* The empty content, and claims at the edges of the layout, the last two of
\* which are refused.
MCEdgeContent == {<<>>, <<0, 0, 1>>}
MCEdgeClaim ==
    {[size |-> 0, chunkSize |-> 3, sha |-> <<>>], [size |-> 3, chunkSize |-> 2, sha |-> <<0, 0, 1>>],
     [size |-> 2, chunkSize |-> 2, sha |-> <<0, 0, 1>>],
     [size |-> 4, chunkSize |-> 2, sha |-> <<>>], [size |-> 3, chunkSize |-> 0, sha |-> <<>>]}
=============================================================================

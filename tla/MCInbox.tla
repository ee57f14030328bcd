------------------------------ MODULE MCInbox ------------------------------
(***************************************************************************)
(* Inbox for TLC.  It starts from a migrated database: note n1 has two     *)
(* reason rows, with another principal's row between them, and one legacy  *)
(* cursor lies beyond the watermark.  Note n2 is new.  Two threads serve   *)
(* two consumers of one principal, one row to a page, so that a v1 page    *)
(* can end inside a logical delivery.                                      *)
(***************************************************************************)
EXTENDS Lifecycle, Wakeup, TLC

CONSTANTS c1, c2, n1, n2

Symmetry == Permutations(Thread)

MCOwner == [c \in Consumer |-> 1]

\* Note n1 may since have been edited into a handoff: a reason the old rows
\* lack.
MCRouteSets == {{<<1, "direct">>, <<1, "handoff">>}}

MCLegacyRows ==
    {[seq |-> 1, note |-> n1, recipient |-> 1, reason |-> "about"],
     [seq |-> 3, note |-> n1, recipient |-> 1, reason |-> "direct"]}
MCLegacyCursors ==
    {[consumer |-> c1, seq |-> 3, model |-> "v1", kind |-> "unknown",
      items |-> {}, skipped |-> {}]}
MCNoteBytes == [n \in Note |-> IF n = n1 THEN 1 ELSE 2]
MCLegacyWatermark == [c \in Consumer |-> IF c = c1 THEN 1 ELSE 0]
=============================================================================

----------------------------- MODULE Lifecycle -----------------------------
(***************************************************************************)
(* What note_lifecycle (memory.py) reports of a note's deliveries, over    *)
(* the tables of Inbox.  Receipts are newer than watermarks: a delivery    *)
(* acknowledged before there were receipts, or passed as unreadable, has   *)
(* none, and is reported from the watermarks.  An administrator and the    *)
(* recipient see the consumers; the author sees only that there was one.   *)
(* The stored, indexed and linked facts are single reads and are left out. *)
(* The tables are read in one step: an acknowledgement that commits between*)
(* the reads of one call is left out.                                      *)
(***************************************************************************)
EXTENDS Inbox

\* The caller of note_lifecycle, by the first of its authorities that applies.
Caller == [role : {"admin", "author", "recipient"}, who : Principal]

\* visible_deliveries: the rows a caller's answer speaks of.
VisibleDeliveries(n, caller) ==
    {l \in logical : l.note = n /\ (caller.role # "recipient" \/ l.recipient = caller.who)}

\* logical_ack_receipts of a delivery, by consumer.
AckRows(l) ==
    {r.consumer : r \in {q \in receipts : q.note = l.note /\ Owner[q.consumer] = l.recipient}}

\* Faulty: a consumer at the row before counts.
HistoricalRowsEarly(l) == {c \in Consumer : Owner[c] = l.recipient /\ watermark[c] >= l.seq - 1}

\* consumer_cursors of the recipient that have reached the delivery.
HistoricalRows(l) == {c \in Consumer : Owner[c] = l.recipient /\ watermark[c] >= l.seq}

Acknowledgements(l) == IF AckRows(l) # {} THEN AckRows(l) ELSE HistoricalRows(l)

\* What the answer says of a delivery: the consumers are kept from the author.
DeliveryFact(l, caller) ==
    [acknowledged |-> Acknowledgements(l) # {},
     consumers |-> IF caller.role = "author" /\ l.recipient # caller.who THEN {}
                   ELSE Acknowledgements(l)]

-----------------------------------------------------------------------------
(***************************************************************************)
(* Whoever asks is told the same: a delivery is reported acknowledged      *)
(* exactly when some consumer of its recipient has passed it and will not  *)
(* be shown it again, and every consumer that is named has.  This holds    *)
(* for migrated deliveries, for v1 pages that end inside a delivery and    *)
(* between the transactions of concurrent acknowledgements                 *)
(* (docs/MEMORY_API.md:144).                                               *)
(***************************************************************************)
LifecycleIsHonest ==
    \A n \in Note, caller \in Caller : \A l \in VisibleDeliveries(n, caller) :
        LET fact == DeliveryFact(l, caller)
            passed == {c \in Consumer : Owner[c] = l.recipient /\ l.seq <= watermark[c]} IN
        /\ fact.acknowledged <=> passed # {}
        /\ fact.consumers \subseteq passed
=============================================================================

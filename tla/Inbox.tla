------------------------------- MODULE Inbox -------------------------------
(***************************************************************************)
(* The delivery tables of memory-ops.sqlite and the inbox that consumers   *)
(* page through and acknowledge (memory.py: _generate_deliveries_for_note, *)
(* fetch_inbox, _issue_cursor, acknowledge_inbox).                         *)
(*                                                                         *)
(* Deliveries are numbered by one AUTOINCREMENT column.  A v1 page lists   *)
(* the reason rows (aliases), a v2 page the logical deliveries, one for a  *)
(* note and recipient; both kinds of page advance the same watermark of a  *)
(* consumer.  sqlite3 opens a transaction at the first INSERT, so every    *)
(* SELECT of a fetch and of an acknowledgement has a snapshot of its own   *)
(* and other threads commit in between.                                    *)
(*                                                                         *)
(* A delivery id is determined by note and recipient (and reason), so a    *)
(* page is recorded as a set of notes; the recipient is the owner of the   *)
(* cursor's consumer.                                                      *)
(***************************************************************************)
EXTENDS Integers, FiniteSets

CONSTANTS
    Principal,        \* numbers, in the order of the principals' names
    Consumer,         \* (principal, consumer_id) pairs
    Owner,            \* Owner[c]: the principal of consumer c
    Note,             \* note ids
    Thread,           \* request-handler threads
    RouteSets,        \* what _delivery_targets can return for some note
    Limit,            \* page_limit of a fetch
    LegacyRows,       \* reason rows found by the schema migration
    LegacyCursors,    \* cursors issued before the migration
    LegacyWatermark,  \* acked_sequence by consumer at the migration
    LegacyNextSeq,    \* the next delivery sequence at the migration
    MaxCursors        \* bound on the cursors issued

Reason == {"about", "direct", "handoff"}
Model == {"v1", "v2"}
Route == Principal \X Reason
AliasRow == [seq : Nat, note : Note, recipient : Principal, reason : Reason]
LogicalRow == [seq : Nat, note : Note, recipient : Principal]
\* "skipped" is a history field: the notes a page passed without showing them.
Cursor == [consumer : Consumer, seq : Nat, model : Model, kind : {"inbox", "unknown"},
           items : SUBSET Note, skipped : SUBSET Note]

ASSUME InboxAssumption ==
    /\ Principal \subseteq Nat
    /\ Owner \in [Consumer -> Principal]
    /\ RouteSets \subseteq SUBSET Route
    /\ \A r \in RouteSets : IsFiniteSet(r)
    /\ Limit \in Nat \ {0}
    /\ LegacyRows \subseteq AliasRow /\ IsFiniteSet(LegacyRows)
    /\ \A a, b \in LegacyRows : a.seq = b.seq => a = b
    /\ LegacyCursors \subseteq [consumer : Consumer, seq : Nat, model : {"v1"},
                                kind : {"unknown"}, items : {{}}, skipped : {{}}]
    /\ LegacyWatermark \in [Consumer -> Nat]
    /\ LegacyNextSeq \in Nat \ {0}
    /\ \A r \in LegacyRows \cup LegacyCursors : r.seq < LegacyNextSeq
    /\ \A c \in Consumer : LegacyWatermark[c] < LegacyNextSeq
    /\ MaxCursors \in Nat

VARIABLES
    aliases,     \* rows of deliveries (and of delivery_aliases)
    logical,     \* rows of logical_deliveries
    nextSeq,     \* the next AUTOINCREMENT value of deliveries.sequence
    routes,      \* routes[n]: delivery_route_snapshots; {} or {set of routes}
    readable,    \* the <<note, principal>> pairs that read_note lets through
    watermark,   \* consumer_cursors.acked_sequence
    cursors,     \* rows of issued_cursors with their issued_cursor_items
    receipts,    \* rows of logical_ack_receipts: consumer and note
    fetch,       \* fetch[th]: the fetch_inbox a thread is executing
    ack          \* ack[th]: the acknowledge_inbox a thread is executing

vars == <<aliases, logical, nextSeq, routes, readable, watermark, cursors,
          receipts, fetch, ack>>

Row == [seq : Nat, note : Note]
Fetch == [pc : {"rows", "read"}, consumer : Consumer, model : Model, high : Nat,
          todo : SUBSET Row, items : SUBSET Note, skipped : SUBSET Note]
Ack == [pc : {"commit"}, consumer : Consumer, cursor : Cursor, current : Nat]

NoFetch == [pc |-> "idle"]
NoAck == [pc |-> "idle"]

-----------------------------------------------------------------------------
(***************************************************************************)
(* _backfill_logical_deliveries: one logical row for each group of reason  *)
(* rows, at the group's last sequence.                                     *)
(***************************************************************************)
Backfill(rows) ==
    {[seq |-> r.seq, note |-> r.note, recipient |-> r.recipient] :
        r \in {a \in rows : \A b \in rows :
                 b.note = a.note /\ b.recipient = a.recipient => b.seq <= a.seq}}

Init ==
    /\ aliases = LegacyRows
    /\ logical = Backfill(LegacyRows)
    /\ nextSeq = LegacyNextSeq
    /\ routes = [n \in Note |-> {}]
    /\ readable = Note \X Principal
    /\ watermark = LegacyWatermark
    /\ cursors = LegacyCursors
    /\ receipts = {}
    /\ fetch = [th \in Thread |-> NoFetch]
    /\ ack = [th \in Thread |-> NoAck]

\* Faulty: the snapshot keeps only the routes that have no row yet.
SnapshottedTargetsNew(n, proposed) ==
    {r \in proposed : \A a \in aliases : a.note = n => <<a.recipient, a.reason>> # r}

(***************************************************************************)
(* _generate_deliveries_for_note, with _snapshotted_delivery_targets: the  *)
(* routes that the note's text asks for are frozen the first time; missing *)
(* reason rows are inserted in the order of recipient and reason, and the  *)
(* logical row of a recipient at the last of its reason rows.  INSERT OR   *)
(* IGNORE skips a logical row whose sequence or whose note and recipient   *)
(* is taken.                                                               *)
(***************************************************************************)
SnapshottedTargets(n, proposed) ==
    IF routes[n] = {} THEN proposed ELSE CHOOSE r \in RouteSets : r \in routes[n]

Rank(reason) == CASE reason = "about" -> 1 [] reason = "direct" -> 2 [] OTHER -> 3

Before(r, q) == r[1] < q[1] \/ (r[1] = q[1] /\ Rank(r[2]) < Rank(q[2]))

\* The numbers AUTOINCREMENT gives to the new rows, in the order of insertion.
Numbering(new) ==
    {num \in [new -> nextSeq..(nextSeq + Cardinality(new) - 1)] :
        \A r, q \in new : Before(r, q) => num[r] < num[q]}

\* Faulty: one logical delivery for a recipient, whatever the note.
LogicalTakenByRecipient(l, r) == l.recipient = r.recipient

\* The constraints of logical_deliveries that INSERT OR IGNORE gives way to.
LogicalTaken(l, r) ==
    l.seq = r.seq \/ (l.note = r.note /\ l.recipient = r.recipient)

GenerateDeliveries(n, proposed) ==
    LET targets == SnapshottedTargets(n, proposed)
        new == {r \in targets : \A a \in aliases :
                  ~(a.note = n /\ a.recipient = r[1] /\ a.reason = r[2])} IN
    \E num \in Numbering(new) :
        /\ aliases' = aliases \cup {[seq |-> num[r], note |-> n, recipient |-> r[1],
                                    reason |-> r[2]] : r \in new}
        /\ LET group(p) == {a \in aliases' : a.note = n /\ a.recipient = p
                                              /\ <<p, a.reason>> \in targets}
               rows == {[seq |-> a.seq, note |-> n, recipient |-> a.recipient] :
                          a \in {a \in aliases' :
                                   /\ a \in group(a.recipient)
                                   /\ \A b \in group(a.recipient) : b.seq <= a.seq}} IN
           logical' = logical \cup {r \in rows : \A l \in logical : ~LogicalTaken(l, r)}
        /\ nextSeq' = nextSeq + Cardinality(new)
        /\ routes' = [routes EXCEPT ![n] = {targets}]
        /\ UNCHANGED <<readable, watermark, cursors, receipts, fetch, ack>>

\* A note's file is edited, moved or quarantined (or a derived note's artifact
\* changes its visibility): read_note's answer for a principal changes.
ChangeReadable(n, p) ==
    /\ readable' = IF <<n, p>> \in readable THEN readable \ {<<n, p>>}
                                            ELSE readable \cup {<<n, p>>}
    /\ UNCHANGED <<aliases, logical, nextSeq, routes, watermark, cursors, receipts, fetch, ack>>

-----------------------------------------------------------------------------
(***************************************************************************)
(* fetch_inbox: the watermark, the page of rows, each note, the cursor.    *)
(***************************************************************************)
FetchWatermark(th, c, m) ==
    /\ fetch[th].pc = "idle" /\ ack[th].pc = "idle"
    /\ fetch' = [fetch EXCEPT ![th] =
                   [pc |-> "rows", consumer |-> c, model |-> m, high |-> watermark[c],
                    todo |-> {}, items |-> {}, skipped |-> {}]]
    /\ UNCHANGED <<aliases, logical, nextSeq, routes, readable, watermark, cursors, receipts, ack>>

\* The rows of a principal's inbox after a sequence number.
Pending(m, p, low) ==
    {[seq |-> r.seq, note |-> r.note] :
        r \in {q \in (IF m = "v1" THEN aliases ELSE logical) : q.recipient = p /\ q.seq > low}}

\* Faulty: ORDER BY sequence DESC.
PageNewestFirst(rows) == {r \in rows : Cardinality({q \in rows : q.seq > r.seq}) < Limit}

\* ORDER BY sequence LIMIT page_limit.
Page(rows) == {r \in rows : Cardinality({q \in rows : q.seq < r.seq}) < Limit}

FetchRows(th) ==
    LET f == fetch[th] IN
    /\ f.pc = "rows"
    /\ fetch' = [fetch EXCEPT ![th].pc = "read",
                              ![th].todo = Page(Pending(f.model, Owner[f.consumer], f.high))]
    /\ UNCHANGED <<aliases, logical, nextSeq, routes, readable, watermark, cursors, receipts, ack>>

\* One turn of the loop over the page: the row counts as scanned whether or
\* not its note can still be read.
ReadNote(th) ==
    LET f == fetch[th] IN
    /\ f.pc = "read"
    /\ \E r \in f.todo :
         /\ \A q \in f.todo : r.seq <= q.seq
         /\ fetch' = [fetch EXCEPT
              ![th] = [f EXCEPT
                 !.todo = f.todo \ {r},
                 !.high = IF r.seq > f.high THEN r.seq ELSE f.high,
                 !.items = IF <<r.note, Owner[f.consumer]>> \in readable
                           THEN f.items \cup {r.note} ELSE f.items,
                 !.skipped = IF <<r.note, Owner[f.consumer]>> \in readable
                             THEN f.skipped ELSE f.skipped \cup {r.note}]]
    /\ UNCHANGED <<aliases, logical, nextSeq, routes, readable, watermark, cursors, receipts, ack>>

IssueCursor(th) ==
    LET f == fetch[th] IN
    /\ f.pc = "read" /\ f.todo = {}
    /\ Cardinality(cursors) < MaxCursors
    /\ cursors' = cursors \cup
          {[consumer |-> f.consumer, seq |-> f.high, model |-> f.model, kind |-> "inbox",
            items |-> f.items, skipped |-> f.skipped]}
    /\ fetch' = [fetch EXCEPT ![th] = NoFetch]
    /\ UNCHANGED <<aliases, logical, nextSeq, routes, readable, watermark, receipts, ack>>

\* wakeup fetches a page without a cursor, and a client may go away.
DropFetch(th) ==
    /\ fetch[th].pc = "read" /\ fetch[th].todo = {}
    /\ fetch' = [fetch EXCEPT ![th] = NoFetch]
    /\ UNCHANGED <<aliases, logical, nextSeq, routes, readable, watermark, cursors, receipts, ack>>

-----------------------------------------------------------------------------
(***************************************************************************)
(* acknowledge_inbox: the checks and the SELECT of the current watermark;  *)
(* then receipts and watermark in one write transaction.                   *)
(***************************************************************************)
\* The token is bound to its consumer, and one that predates the purpose
\* binding may not advance the watermark (CursorRefreshRequiredError).
CursorAccepted(c, cu) ==
    /\ cu.consumer = c
    /\ cu.kind = "unknown" => cu.seq <= watermark[c]

AckRead(th, c, cu) ==
    /\ fetch[th].pc = "idle" /\ ack[th].pc = "idle"
    /\ CursorAccepted(c, cu)
    /\ ack' = [ack EXCEPT ![th] = [pc |-> "commit", consumer |-> c, cursor |-> cu,
                                     current |-> watermark[c]]]
    /\ UNCHANGED <<aliases, logical, nextSeq, routes, readable, watermark, cursors, receipts, fetch>>

\* Faulty: a v1 member gets its receipt wherever its logical delivery ends.
ReceiptRowsAllMembers(cu, newValue) ==
    {l \in logical : l.recipient = Owner[cu.consumer] /\ l.note \in cu.items}

\* The page members that get a receipt; a v1 page may hold only the first
\* reason rows of a logical delivery that ends above the new watermark.
ReceiptRows(cu, newValue) ==
    {l \in logical : /\ l.recipient = Owner[cu.consumer]
                     /\ l.note \in cu.items
                     /\ cu.model = "v2" \/ newValue >= l.seq}

NewValue(current, seq) == IF seq > current THEN seq ELSE current

\* Faulty: the stored value is overwritten.
UpsertOverwrite(stored, value) == value

\* ON CONFLICT DO UPDATE SET acked_sequence = MAX(stored, excluded)
Upsert(stored, value) == IF value > stored THEN value ELSE stored

AckCommit(th) ==
    LET c == ack[th].consumer
        cu == ack[th].cursor
        newValue == NewValue(ack[th].current, cu.seq) IN
    /\ ack[th].pc = "commit"
    /\ receipts' = IF cu.seq > ack[th].current
                   THEN receipts \cup {[consumer |-> c, note |-> l.note] :
                                         l \in ReceiptRows(cu, newValue)}
                   ELSE receipts
    /\ watermark' = [watermark EXCEPT ![c] = Upsert(@, newValue)]
    /\ ack' = [ack EXCEPT ![th] = NoAck]
    /\ UNCHANGED <<aliases, logical, nextSeq, routes, readable, cursors, fetch>>

\* The server is killed between two transactions.
Crash ==
    /\ fetch' = [th \in Thread |-> NoFetch]
    /\ ack' = [th \in Thread |-> NoAck]
    /\ UNCHANGED <<aliases, logical, nextSeq, routes, readable, watermark, cursors, receipts>>

Next ==
    \/ \E n \in Note, r \in RouteSets : GenerateDeliveries(n, r)
    \/ \E n \in Note, p \in Principal : ChangeReadable(n, p)
    \/ \E th \in Thread :
         \/ \E c \in Consumer, m \in Model : FetchWatermark(th, c, m)
         \/ FetchRows(th) \/ ReadNote(th) \/ IssueCursor(th) \/ DropFetch(th)
         \/ \E c \in Consumer, cu \in cursors : AckRead(th, c, cu)
         \/ AckCommit(th)
    \/ Crash

Spec == Init /\ [][Next]_vars

-----------------------------------------------------------------------------
(***************************************************************************)
(* Properties                                                              *)
(***************************************************************************)

\* Types of the tables and of the threads' local state.
TypeOK ==
    /\ aliases \subseteq AliasRow
    /\ logical \subseteq LogicalRow
    /\ nextSeq \in Nat
    /\ routes \in [Note -> SUBSET RouteSets]
    /\ readable \subseteq Note \X Principal
    /\ watermark \in [Consumer -> Nat]
    /\ cursors \subseteq Cursor
    /\ receipts \subseteq [consumer : Consumer, note : Note]
    /\ fetch \in [Thread -> Fetch \cup {NoFetch}]
    /\ ack \in [Thread -> Ack \cup {NoAck}]

\* Every note and recipient with a reason row has exactly one logical
\* delivery, no two rows of a table share a sequence, and no row carries a
\* number that is still to be handed out.
OneLogicalDelivery ==
    /\ \A a, b \in aliases : a.seq = b.seq => a = b
    /\ \A k, l \in logical :
         k.seq = l.seq \/ (k.note = l.note /\ k.recipient = l.recipient) => k = l
    /\ \A a \in aliases : /\ a.seq < nextSeq
                           /\ \E l \in logical : l.note = a.note /\ l.recipient = a.recipient

\* No delivery is lost: once a consumer's watermark has passed a logical
\* delivery, some inbox page of that consumer showed its note, or found the
\* note unreadable when it was scanned; v1 and v2 pages, stale reads,
\* concurrent acknowledgements and refused legacy cursors included.
NoSilentLoss ==
    \A c \in Consumer, l \in logical :
        /\ l.recipient = Owner[c]
        /\ LegacyWatermark[c] < l.seq /\ l.seq <= watermark[c]
        => \E cu \in cursors : /\ cu.consumer = c /\ cu.kind = "inbox"
                               /\ l.note \in cu.items \cup cu.skipped

\* docs/MEMORY_API.md: an acknowledgement creates receipts only for the
\* members of a page issued to that consumer, and never above its watermark.
ReceiptsAreHonest ==
    \A r \in receipts :
        /\ \E cu \in cursors : cu.consumer = r.consumer /\ r.note \in cu.items
        /\ \E l \in logical : /\ l.note = r.note /\ l.recipient = Owner[r.consumer]
                               /\ l.seq <= watermark[r.consumer]

\* A watermark never moves back, though two acknowledgements may both have
\* read it before either wrote, and receipts and cursors are never withdrawn.
WatermarkMonotone ==
    [][/\ \A c \in Consumer : watermark[c] <= watermark'[c]
       /\ receipts \subseteq receipts' /\ cursors \subseteq cursors']_vars
=============================================================================

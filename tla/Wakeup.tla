------------------------------- MODULE Wakeup -------------------------------
(***************************************************************************)
(* wakeup (memory.py): the preview that an agent loads at the start of a   *)
(* session, over the tables of Inbox.  Candidates of four sections are     *)
(* packed one after the other until the next one would break the byte      *)
(* budget; the envelope says for each section whether something was left   *)
(* out, and such an envelope sends the agent to its inbox.                 *)
(*                                                                         *)
(* The call is for the v2 model and reads one state of the tables.  The    *)
(* replacement of an envelope that does not even fit without items is left *)
(* out: with the longest consumer id it takes 759 bytes, and the budget is *)
(* at least 1024.                                                          *)
(***************************************************************************)
EXTENDS Inbox, SequencesExt

CONSTANTS
    NoteBytes,     \* NoteBytes[n]: the size of a packed note, in some unit
    RecentLimit,   \* recent notes proposed (10 in the code)
    MaxBudget      \* the largest budget asked for, beyond the empty envelope

ASSUME WakeupAssumption ==
    /\ IsFiniteSet(Note)
    /\ NoteBytes \in [Note -> Nat \ {0}]
    /\ RecentLimit \in Nat
    /\ MaxBudget \in Nat

Section == {"profile", "inbox", "recent", "activeTasks"}

\* timeline: what the principal may read.  It is in the order of time; which note
\* is newer does not matter here.
History(p) == {n \in Note : <<n, p>> \in readable}

\* Rows in the order of their sequence.
InSequence(rows) ==
    CHOOSE s \in [1..Cardinality(rows) -> rows] :
        /\ ToSet(s) = rows
        /\ \A i, j \in DOMAIN s : i < j => s[i].seq < s[j].seq

\* The page of fetch_inbox, with issue_cursor=False, and its hasMore.
Unread(c) == Pending("v2", Owner[c], watermark[c])
InboxNotes(c) ==
    LET rows == InSequence({r \in Page(Unread(c)) : <<r.note, Owner[c]>> \in readable}) IN
    [i \in DOMAIN rows |-> rows[i].note]
HasMore(c) == Cardinality(Unread(c)) > Limit

Items(kind, notes) == [i \in DOMAIN notes |-> [kind |-> kind, bytes |-> NoteBytes[notes[i]],
                                               note |-> notes[i]]]
Cut(s, limit) == SubSeq(s, 1, IF Len(s) < limit THEN Len(s) ELSE limit)

\* _active_task_wakeup_items: links to the tasks that are not terminal.
ActiveTaskItems(tasks) == [i \in 1..tasks |-> [kind |-> "activeTasks", bytes |-> 1, note |-> i]]

\* section_candidates, in their order: the newest profile, the inbox, recent
\* notes that are neither of the two, and the links to active tasks.
Candidates(c, profiles, tasks) ==
    LET history == History(Owner[c])
        profile == Cut(SetToSeq(history \cap profiles), 1)
        recent == SetToSeq(history \ (profiles \cup ToSet(InboxNotes(c)))) IN
    Items("profile", profile) \o Items("inbox", InboxNotes(c)) \o
        Items("recent", Cut(recent, RecentLimit)) \o ActiveTaskItems(tasks)

\* The places of a section's items.
InSection(kind, items) == {i \in DOMAIN items : items[i].kind = kind}
Included(kind, items) == Cardinality(InSection(kind, items))

\* Faulty: what the page limit of the inbox left out is forgotten.
RefreshTruncationBytesOnly(candidates, items, more) ==
    [kind \in Section |-> Included(kind, items) < Included(kind, candidates)]

\* hasMore by section.
RefreshTruncation(candidates, items, more) ==
    [kind \in Section |-> \/ Included(kind, items) < Included(kind, candidates)
                          \/ kind = "inbox" /\ more]

\* The bytes beyond the empty envelope: an inbox item is there twice, and a
\* reason for an omission takes space, so that an item more may cost less.
Bytes(candidates, items, more) ==
    FoldLeft(LAMBDA sum, i : sum + (IF i.kind = "inbox" THEN 2 * i.bytes ELSE i.bytes), 0, items)
      + (IF Len(items) < Len(candidates) THEN 1 ELSE 0) + (IF more THEN 1 ELSE 0)

\* The loop over the candidates: it ends with the first that does not fit.
Packed(candidates, more, budget) ==
    LET fits(k) == Bytes(candidates, SubSeq(candidates, 1, k), more) <= budget
        count == CHOOSE k \in 0..Len(candidates) :
                    /\ \A j \in 1..k : fits(j)
                    /\ k < Len(candidates) => ~fits(k + 1) IN
    SubSeq(candidates, 1, count)

Envelope(c, profiles, tasks, budget) ==
    LET candidates == Candidates(c, profiles, tasks)
        items == Packed(candidates, HasMore(c), budget)
        hasMore == RefreshTruncation(candidates, items, HasMore(c)) IN
    [items |-> items,
     bytes |-> Bytes(candidates, items, HasMore(c)),
     hasMore |-> hasMore,
     readInbox |-> \E kind \in Section : hasMore[kind]]

-----------------------------------------------------------------------------
(***************************************************************************)
(* "The response reports per-section hasMore" and keeps to its budget      *)
(* (docs/MEMORY_API.md:109): an unread delivery that the agent could read  *)
(* is in the envelope, or the envelope says that the inbox has more and    *)
(* sends the agent there; what is left out is newer than what is shown.    *)
(* It is stated for states without a request in progress: a kill reaches   *)
(* one with the same tables from every other.                              *)
(***************************************************************************)
WakeupIsHonest ==
    (\A th \in Thread : fetch[th].pc = "idle" /\ ack[th].pc = "idle") =>
    \A c \in Consumer, profiles \in SUBSET Note, tasks \in 0..1, budget \in 2..MaxBudget :
        LET envelope == Envelope(c, profiles, tasks, budget)
            shown == {envelope.items[i].note : i \in InSection("inbox", envelope.items)}
            missed == {r \in Unread(c) : <<r.note, Owner[c]>> \in readable /\ r.note \notin shown} IN
        /\ envelope.bytes <= budget
        /\ missed # {} => envelope.hasMore["inbox"] /\ envelope.readInbox
        /\ \A r \in missed, q \in Unread(c) : q.note \in shown => q.seq < r.seq
=============================================================================

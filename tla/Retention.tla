----------------------------- MODULE Retention -----------------------------
(***************************************************************************)
(* Recoverable trash (operations.py, RetentionManager) under the exclusive *)
(* lease of the state directory (StateLease).  The hub holds the lease     *)
(* while it runs; an operation that does not get it ends at once and       *)
(* leaves no trace.  People edit notes, and command-line processes create  *)
(* notes and artifacts and acknowledge deliveries, without the lease.      *)
(*                                                                         *)
(* A tombstone row, the move of a file and the final state of the row are  *)
(* three separate steps, and the process may end between any two.  The     *)
(* file of an object is represented by a version, which stands for its     *)
(* SHA-256 too.  Authority (hub.admin, --allow-private) is checked before  *)
(* anything changes and is left out.  The index, which the last step of an *)
(* operation on a note brings to the files, belongs to Convergence.        *)
(***************************************************************************)
EXTENDS Integers, FiniteSets

CONSTANTS
    Admin,        \* command-line processes that run operations
    Note,         \* notes, each delivered to one recipient
    Sequence,     \* Sequence[n]: the sequence number of the delivery of n
    Artifact,     \* artifacts; the object is the manifest
    Present,      \* the objects that exist at the start
    Named,        \* artifacts a note names in a relation by the bare artifact id
    Cited,        \* artifacts a note names as artifact:<id> or sha256:<digest>
    Consumer,     \* consumers of the recipient
    Hub,          \* the running hub, as the holder of the lease
    None,         \* nobody, no file, no row: none of the other values
    Beside,       \* whether files are written beside a retention operation
    MaxVersion,   \* bound on the versions written
    MaxSequence,  \* the last delivery of the recipient
    MaxStops      \* bound on the operations that are cut short

Object == Note \cup Artifact
Version == 1..MaxVersion
Row == [state : {"preparing", "trashed", "restoring", "restored"}, sha : Version]

ASSUME RetentionAssumption ==
    /\ Present \subseteq Object
    /\ Note \subseteq Present
    /\ Sequence \in [Note -> 1..MaxSequence]
    /\ MaxSequence \in Nat \ {0}
    /\ None \notin 0..MaxSequence
    /\ Named \subseteq Artifact
    /\ Cited \subseteq Artifact
    /\ Note \cap Artifact = {}
    /\ Hub \notin Admin
    /\ None \notin Admin \cup {Hub} \cup Object \cup Version
    /\ None \notin Row
    /\ Beside \in BOOLEAN
    /\ MaxVersion \in Nat \ {0}
    /\ MaxStops \in Nat

VARIABLES
    lease,     \* the holder of .operations.lock: Hub, an administrator, or None
    op,        \* op[p]: the operation of p, [pc, verb, obj, sha]
    orig,      \* orig[o]: the file in its place, a version or None
    trash,     \* trash[o]: the file in the trash, a version or None
    tomb,      \* tomb[o]: the tombstone row, a Row, or None
    blobs,     \* artifacts whose content is stored
    cursor,    \* cursor[c]: the watermark in c's row of consumer_cursors, or None
    written,   \* history: versions written so far
    latest,    \* history: latest[o]: the last version written of o, or None
    touched,   \* history: objects written while their row was in transition
    review,    \* history: objects an operation left to manual review
    vouched,   \* history: vouched[n]: consumers with a row when n passed the check
    stops      \* history: operations cut short so far

store == <<orig, trash, tomb, blobs>>
history == <<written, latest, touched, review, vouched, stops>>
retentionVars == <<lease, op, store, cursor, history>>

Idle == [pc |-> "idle", verb |-> None, obj |-> None, sha |-> None]
Pc == {"idle", "recover", "check", "prepare", "moveOut", "trashed",
       "mark", "moveBack", "restored", "sync",
       "databases", "notes", "manifests", "blobs", "trash", "archive"}

-----------------------------------------------------------------------------
RetentionInit ==
    /\ lease = None
    /\ op = [p \in Admin |-> Idle]
    /\ orig = [o \in Object |-> IF o \in Present THEN 1 ELSE None]
    /\ trash = [o \in Object |-> None]
    /\ tomb = [o \in Object |-> None]
    /\ blobs = Present \cap Artifact
    /\ cursor = [c \in Consumer |-> None]
    /\ written = 1
    /\ latest = orig
    /\ touched = {}
    /\ review = {}
    /\ vouched = [n \in Note |-> {}]
    /\ stops = 0

\* flock(LOCK_EX | LOCK_NB) succeeds.
LeaseFree == lease = None

Enter(p, verb, o, pc) ==
    /\ op[p].pc = "idle"
    /\ LeaseFree
    /\ lease' = p
    /\ op' = [op EXCEPT ![p] = [Idle EXCEPT !.pc = pc, !.verb = verb, !.obj = o]]

\* The operation ends, with an answer or an error, and the lock is given up.
Exit(p) ==
    /\ op' = [op EXCEPT ![p] = Idle]
    /\ lease' = None

Goto(p, pc) == op' = [op EXCEPT ![p].pc = pc] /\ UNCHANGED lease

\* trash_note, trash_artifact or restore is called.
Begin(p, verb, o) ==
    /\ Enter(p, verb, o, "recover")
    /\ UNCHANGED <<store, cursor, history>>

\* Faulty: the row is believed, whatever the files show.
SettledTrusting(t, here, there) ==
    IF t.state = "preparing" THEN "trashed" ELSE "restored"

\* What _recover_transitions makes of a row: delete it, a state, or review.
Settled(t, here, there) ==
    CASE t.state = "preparing" /\ here = t.sha /\ there = None -> "deleted"
      [] there = t.sha /\ here = None -> "trashed"
      [] t.state = "restoring" /\ here = t.sha /\ there = None -> "restored"
      [] OTHER -> "review"

InTransition(t) == t # None /\ t.state \in {"preparing", "restoring"}

\* Every row in transition is settled by what the files show, in one
\* transaction: one row that cannot be settled ends the operation.
Recover(p) ==
    LET open == {o \in Object : InTransition(tomb[o])}
        outcome(o) == Settled(tomb[o], orig[o], trash[o])
        stuck == {o \in open : outcome(o) = "review"}
    IN
    /\ op[p].pc = "recover"
    /\ \/ /\ stuck # {}
          /\ review' = review \cup stuck
          /\ Exit(p)
          /\ UNCHANGED tomb
       \/ /\ stuck = {}
          /\ tomb' = [o \in Object |->
                        IF o \notin open THEN tomb[o]
                        ELSE IF outcome(o) = "deleted" THEN None
                        ELSE [tomb[o] EXCEPT !.state = outcome(o)]]
          /\ Goto(p, "check")
          /\ UNCHANGED review
    /\ UNCHANGED <<orig, trash, blobs, cursor, written, latest, touched, vouched, stops>>

State(o) == IF tomb[o] = None THEN "none" ELSE tomb[o].state

-----------------------------------------------------------------------------
(***************************************************************************)
(* To the trash.                                                           *)
(***************************************************************************)
\* _assert_deliveries_acknowledged: no cursor, or one behind the delivery.
Unacknowledged(n) ==
    \/ \A c \in Consumer : cursor[c] = None
    \/ \E c \in Consumer : cursor[c] # None /\ cursor[c] < Sequence[n]

\* The relation targets of the notes hold the bare id of the artifact.
Referenced(o) == o \in Named

TrashBlocked(o) ==
    \/ orig[o] = None
    \/ o \in Note /\ Unacknowledged(o)
    \/ o \in Artifact /\ Referenced(o)
    \/ trash[o] # None

\* A note's check starts a memory service, which makes the deliveries that are
\* missing, and then reads the cursors.
CheckTrash(p) ==
    LET o == op[p].obj IN
    /\ op[p].pc = "check" /\ op[p].verb = "trash"
    /\ \/ (State(o) = "trashed" \/ TrashBlocked(o)) /\ Exit(p) /\ UNCHANGED vouched
       \/ /\ State(o) # "trashed" /\ ~TrashBlocked(o)
          /\ op' = [op EXCEPT ![p].pc = "prepare", ![p].sha = orig[o]]
          /\ vouched' = [n \in Note |-> IF n = o THEN {c \in Consumer : cursor[c] # None}
                                      ELSE vouched[n]]
          /\ UNCHANGED lease
    /\ UNCHANGED <<store, cursor, written, latest, touched, review, stops>>

PrepareTombstone(p) ==
    /\ op[p].pc = "prepare"
    /\ tomb' = [tomb EXCEPT ![op[p].obj] = [state |-> "preparing", sha |-> op[p].sha]]
    /\ Goto(p, "moveOut")
    /\ UNCHANGED <<orig, trash, blobs, cursor, history>>

\* shutil.move within one file system: a rename.
MoveToTrash(p) ==
    LET o == op[p].obj IN
    /\ op[p].pc = "moveOut"
    /\ trash' = [trash EXCEPT ![o] = orig[o]]
    /\ orig' = [orig EXCEPT ![o] = None]
    /\ Goto(p, "trashed")
    /\ UNCHANGED <<tomb, blobs, cursor, history>>

\* _set_tombstone_state after either move.
SetTombstoneState(p) ==
    LET o == op[p].obj IN
    /\ op[p].pc \in {"trashed", "restored"}
    /\ tomb' = [tomb EXCEPT ![o].state = op[p].pc]
    /\ IF o \in Note THEN Goto(p, "sync") ELSE Exit(p)
    /\ UNCHANGED <<orig, trash, blobs, cursor, history>>

\* sync_filesystem, under the lease, and the operation answers.
SyncFilesystem(p) ==
    /\ op[p].pc = "sync"
    /\ Exit(p)
    /\ UNCHANGED <<store, cursor, history>>

-----------------------------------------------------------------------------
(***************************************************************************)
(* And back.                                                               *)
(***************************************************************************)
\* Faulty: an existing destination is overwritten.
RestoreBlockedNot(o) == State(o) # "trashed" \/ trash[o] # tomb[o].sha

RestoreBlocked(o) ==
    \/ State(o) # "trashed"
    \/ trash[o] # tomb[o].sha
    \/ orig[o] # None

\* A row that is already restored is answered as it is.
CheckRestore(p) ==
    LET o == op[p].obj IN
    /\ op[p].pc = "check" /\ op[p].verb = "restore"
    /\ IF RestoreBlocked(o) THEN Exit(p) ELSE Goto(p, "mark")
    /\ UNCHANGED <<store, cursor, history>>

MarkRestoring(p) ==
    /\ op[p].pc = "mark"
    /\ tomb' = [tomb EXCEPT ![op[p].obj].state = "restoring"]
    /\ Goto(p, "moveBack")
    /\ UNCHANGED <<orig, trash, blobs, cursor, history>>

MoveBack(p) ==
    LET o == op[p].obj IN
    /\ op[p].pc = "moveBack"
    /\ orig' = [orig EXCEPT ![o] = trash[o]]
    /\ trash' = [trash EXCEPT ![o] = None]
    /\ Goto(p, "restored")
    /\ UNCHANGED <<tomb, blobs, cursor, history>>

-----------------------------------------------------------------------------
(***************************************************************************)
(* Around the operations.                                                  *)
(***************************************************************************)
\* The process is killed, or a step raises: the lock goes, the rest stays.
CutShort(p) ==
    /\ op[p].pc # "idle"
    /\ stops < MaxStops
    /\ stops' = stops + 1
    /\ Exit(p)
    /\ UNCHANGED <<store, cursor, written, latest, touched, review, vouched>>

\* make_server takes the lease.
HubStart ==
    /\ LeaseFree
    /\ lease' = Hub
    /\ UNCHANGED <<op, store, cursor, history>>

HubStop ==
    /\ lease = Hub
    /\ lease' = None
    /\ UNCHANGED <<op, store, cursor, history>>

InRetention == lease \in Admin /\ op[lease].verb \in {"trash", "restore"}
MayWrite == Beside \/ ~InRetention

\* A note is created again under its idempotency key, or edited; an artifact
\* is uploaded again: its manifest is written when there is none.
WriteFile(o) ==
    /\ MayWrite
    /\ written < MaxVersion
    /\ o \in Artifact => o \in blobs /\ orig[o] = None
    /\ orig' = [orig EXCEPT ![o] = written + 1]
    /\ latest' = [latest EXCEPT ![o] = written + 1]
    /\ written' = written + 1
    /\ touched' = IF InTransition(tomb[o]) THEN touched \cup {o} ELSE touched
    /\ UNCHANGED <<lease, op, trash, tomb, blobs, cursor, review, vouched, stops>>

\* The content of an artifact is stored before its manifest is written.
PutBlob(a) ==
    /\ a \notin blobs
    /\ blobs' = blobs \cup {a}
    /\ UNCHANGED <<lease, op, orig, trash, tomb, cursor, history>>

\* Faulty: the acknowledgement of an older page sets the watermark back.
AdvancedBack(w, s) == s

\* MAX(acked_sequence, excluded.acked_sequence) of the upsert.
Advanced(w, s) == IF w # None /\ w > s THEN w ELSE s

\* acknowledge_inbox of a page that ends at s, from the hub or the command
\* line, at any time: it takes no lease.  Polling writes no row.
Acknowledge(c, s) ==
    /\ cursor' = [cursor EXCEPT ![c] = Advanced(cursor[c], s)]
    /\ UNCHANGED <<lease, op, store, history>>

Retain(p) ==
    \/ Recover(p) \/ CheckTrash(p) \/ PrepareTombstone(p) \/ MoveToTrash(p)
    \/ SetTombstoneState(p) \/ SyncFilesystem(p)
    \/ CheckRestore(p) \/ MarkRestoring(p) \/ MoveBack(p)

RetentionNext ==
    \/ \E p \in Admin : \/ \E verb \in {"trash", "restore"}, o \in Object : Begin(p, verb, o)
                        \/ Retain(p)
                        \/ CutShort(p)
    \/ HubStart \/ HubStop
    \/ \E o \in Object : WriteFile(o)
    \/ \E a \in Artifact : PutBlob(a)
    \/ \E c \in Consumer, s \in 0..MaxSequence : Acknowledge(c, s)

-----------------------------------------------------------------------------
RetentionTypeOK ==
    /\ lease \in Admin \cup {Hub, None}
    /\ op \in [Admin -> [pc : Pc, verb : {"trash", "restore", "backup", None},
                         obj : Object \cup {None}, sha : Version \cup {None}]]
    /\ orig \in [Object -> Version \cup {None}]
    /\ trash \in [Object -> Version \cup {None}]
    /\ tomb \in [Object -> Row \cup {None}]
    /\ blobs \subseteq Artifact
    /\ cursor \in [Consumer -> (0..MaxSequence) \cup {None}]
    /\ vouched \in [Note -> SUBSET Consumer]
    /\ \A p \in Admin : op[p].pc # "idle" <=> lease = p

(***************************************************************************)
(* Whatever is cut short and wherever, the last version written of an      *)
(* object is in its place or in the trash: a move never destroys, and      *)
(* restore "refuses to overwrite an existing destination"                  *)
(* (docs/OPERATIONS.md:166).                                               *)
(***************************************************************************)
LatestKept ==
    \A o \in Object : latest[o] # None => latest[o] \in {orig[o], trash[o]}

(***************************************************************************)
(* A row that says trashed has the file with its hash in the trash, so     *)
(* that it can be restored; one that says restored has nothing there.      *)
(* This holds for the rows that recovery settles after a kill, too; and a  *)
(* kill alone never asks for a manual review: recovery can settle every    *)
(* row whose file nobody wrote while it was in transition.                 *)
(***************************************************************************)
TombstonesAreTrue ==
    /\ \A o \in Object : /\ State(o) = "trashed" => trash[o] = tomb[o].sha
                         /\ State(o) = "restored" => trash[o] = None
    /\ review \subseteq touched

(***************************************************************************)
(* "A note with any unacknowledged logical delivery is retained"           *)
(* (docs/OPERATIONS.md:163): a note in the trash was acknowledged by       *)
(* somebody, and every consumer that had a cursor when the note was        *)
(* checked is past its delivery, although pages old and new are            *)
(* acknowledged between the check and the move, and while the note lies in *)
(* the trash.                                                              *)
(***************************************************************************)
AcknowledgedBeforeTrash ==
    \A n \in Note : trash[n] # None =>
        /\ vouched[n] # {}
        /\ \A c \in vouched[n] : cursor[c] # None /\ cursor[c] >= Sequence[n]

(***************************************************************************)
(* "An artifact manifest cannot be trashed while authoritative memory      *)
(* references it" (docs/OPERATIONS.md:164), in whatever form.              *)
(***************************************************************************)
ReferencedKept == \A a \in Named \cup Cited : State(a) # "trashed"
=============================================================================

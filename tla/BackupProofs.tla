---------------------------- MODULE BackupProofs ----------------------------
(***************************************************************************)
(* TLAPS proofs about Retention and Backup, for any sets of notes,         *)
(* artifacts, administrators and consumers, and any bounds.                *)
(*                                                                         *)
(* The lease makes the operation in progress the only one, so the          *)
(* invariant says for each of its program counters where the version of    *)
(* its object is (WorkOK), for each row what the files may show whoever    *)
(* was cut short (RowOK), and for each part of a backup what the copy      *)
(* already guarantees (StageGood).  WorkOK, and what follows from it, is   *)
(* about an installation where nobody writes a file beside an operation;   *)
(* AckInv, about who had acknowledged a note, is about any.                *)
(***************************************************************************)
EXTENDS Backup, TLAPS

\* The history variables, and no version beyond those written.
HistoryOK ==
    /\ written \in Version
    /\ latest \in [Object -> Version \cup {None}]
    /\ touched \subseteq Object
    /\ review \subseteq Object
    /\ stops \in Nat
    /\ \A o \in Object : latest[o] # None => latest[o] <= written

RetentionPc == {"recover", "check", "prepare", "moveOut", "trashed",
                "mark", "moveBack", "restored", "sync"}
BackupPc == {"databases", "notes", "manifests", "blobs", "trash", "archive"}

\* What an operation that the administrator called carries along.
CallGood(w) ==
    /\ w.pc \in RetentionPc => w.verb \in {"trash", "restore"} /\ w.obj \in Object
    /\ w.pc = "prepare" => w.sha \in Version
    /\ w.pc \in {"moveOut", "trashed", "mark", "moveBack", "restored"} => tomb[w.obj] # None
CallOK == \A p \in Admin : CallGood(op[p])

TypeInv == TypeOK /\ HistoryOK /\ CallOK

\* Where the file of the operation w is, at its program counter.
WorkGood(w) ==
    LET o == w.obj IN
    /\ w.pc \in {"prepare", "moveOut"} =>
          w.sha \in Version /\ orig[o] = w.sha /\ trash[o] = None
    /\ w.pc \in {"moveOut", "trashed"} => tomb[o] = [state |-> "preparing", sha |-> w.sha]
    /\ w.pc = "trashed" => w.sha \in Version /\ orig[o] = None /\ trash[o] = w.sha
    /\ w.pc = "mark" => State(o) = "trashed" /\ orig[o] = None
    /\ w.pc \in {"moveBack", "restored"} => State(o) = "restoring"
    /\ w.pc = "moveBack" => orig[o] = None /\ trash[o] = tomb[o].sha
    /\ w.pc = "restored" => orig[o] = tomb[o].sha /\ trash[o] = None
WorkOK == \A p \in Admin : WorkGood(op[p])

\* The file of a row in transition is in exactly one of its two places.
Fits(t, here, there) ==
    \/ here = t.sha /\ there = None
    \/ here = None /\ there = t.sha

RowGood(o) ==
    /\ State(o) \in {"none", "restored"} => trash[o] = None
    /\ State(o) = "trashed" => trash[o] = tomb[o].sha
    /\ InTransition(tomb[o]) =>
          /\ trash[o] \in {None, tomb[o].sha}
          /\ o \notin touched => Fits(tomb[o], orig[o], trash[o])
RowOK == \A o \in Object : RowGood(o)

\* The content of a manifest is stored, wherever the manifest is.
BlobOK == \A a \in Artifact : orig[a] # None \/ trash[a] # None => a \in blobs

FileInv ==
    /\ WorkOK /\ RowOK /\ BlobOK
    /\ LatestKept
    /\ review \subseteq touched

\* What the check of a note leaves behind: consumers that are past its delivery,
\* and at least one of them where the note is on its way to the trash or there.
AckGood(n) == \A c \in vouched[n] : cursor[c] # None /\ cursor[c] >= Sequence[n]
LeavingGood(w) ==
    w.pc \in {"prepare", "moveOut"} /\ w.obj \in Note => vouched[w.obj] # {}
AckInv ==
    /\ \A n \in Note : AckGood(n) /\ (trash[n] # None => vouched[n] # {})
    /\ \A p \in Admin : LeavingGood(op[p])

\* What the backup has taken over of an object whose directory is copied.
PlaceGood(o) ==
    /\ stage.latest[o] # None =>
          \E v \in {stage.orig[o], trash[o]} \ {None} : v >= stage.latest[o]
    /\ InTransition(tomb[o]) /\ o \notin touched => Fits(tomb[o], stage.orig[o], trash[o])
    /\ o \in Artifact /\ stage.orig[o] # None => o \in blobs

StageGood(pc) ==
    /\ archive = None
    /\ \A o \in Object : stage.latest[o] # None =>
          latest[o] # None /\ latest[o] >= stage.latest[o]
    /\ pc # "databases" => stage.tomb = tomb
    /\ pc \in {"manifests", "blobs", "trash", "archive"} => \A o \in Note : PlaceGood(o)
    /\ pc \in {"blobs", "trash", "archive"} => \A o \in Artifact : PlaceGood(o)
    /\ pc \in {"trash", "archive"} =>
          \A a \in Artifact : stage.orig[a] # None \/ trash[a] # None => a \in stage.blobs
    /\ pc = "archive" => stage.trash = trash

StageOK == \A p \in Admin : op[p].pc \in BackupPc => StageGood(op[p].pc)

ArchiveOK ==
    /\ Whole
    /\ archive # None =>
          /\ \A a \in Artifact : archive.orig[a] # None \/ archive.trash[a] # None
                                    => a \in archive.blobs
          /\ \A o \in Object : archive.tomb[o] # None =>
                /\ archive.tomb[o].state = "trashed" => archive.trash[o] = archive.tomb[o].sha
                /\ InTransition(archive.tomb[o]) /\ o \notin touched =>
                      Fits(archive.tomb[o], archive.orig[o], archive.trash[o])
    /\ target # "absent" => archive # None
    /\ target # "refused"

CopyInv == StageOK /\ ArchiveOK

-----------------------------------------------------------------------------
(***************************************************************************)
(* Types, and the exclusive lease.                                         *)
(***************************************************************************)
\* The administrator that runs an operation has the lease, and is the only one.
LEMMA Alone ==
    ASSUME TypeOK, NEW p \in Admin, op[p].pc # "idle"
    PROVE  lease = p /\ \A q \in Admin \ {p} : op[q].pc = "idle"
BY RetentionAssumption DEF TypeOK, RetentionTypeOK

\* The records that an operation holds.
Work == [pc : Pc, verb : {"trash", "restore", "backup", None},
         obj : Object \cup {None}, sha : Version \cup {None}]

\* Exit, Goto and Enter keep the types of the lease and of the operations.
LEMMA ExitType ==
    ASSUME TypeOK, NEW p \in Admin, op[p].pc # "idle", Exit(p)
    PROVE  /\ lease' \in Admin \cup {Hub, None}
           /\ op' \in [Admin -> Work]
           /\ \A q \in Admin : op'[q].pc # "idle" <=> lease' = q
           /\ lease' = None /\ op'[p] = Idle
           /\ \A q \in Admin : op'[q].pc = "idle"
<1>1. lease = p /\ \A q \in Admin \ {p} : op[q].pc = "idle"
  BY Alone
<1>2. Idle \in Work /\ Idle.pc = "idle"
  BY DEF Idle, Work, Pc
<1>3. op \in [Admin -> Work]
  BY DEF TypeOK, RetentionTypeOK, Work
<1>4. op' = [op EXCEPT ![p] = Idle] /\ lease' = None
  BY DEF Exit
<1> QED
  BY <1>1, <1>2, <1>3, <1>4, RetentionAssumption

LEMMA GotoType ==
    ASSUME TypeOK, NEW p \in Admin, op[p].pc # "idle",
           NEW pc \in Pc \ {"idle"}, Goto(p, pc)
    PROVE  /\ lease' = p
           /\ op' \in [Admin -> Work]
           /\ \A q \in Admin : op'[q].pc # "idle" <=> lease' = q
           /\ op'[p] = [op[p] EXCEPT !.pc = pc]
           /\ \A q \in Admin \ {p} : op'[q] = op[q]
<1>1. lease = p /\ \A q \in Admin \ {p} : op[q].pc = "idle"
  BY Alone
<1>2. op \in [Admin -> Work]
  BY DEF TypeOK, RetentionTypeOK, Work
<1>3. op' = [op EXCEPT ![p] = [op[p] EXCEPT !.pc = pc]] /\ lease' = lease
  BY DEF Goto
<1>4. [op[p] EXCEPT !.pc = pc] \in Work /\ [op[p] EXCEPT !.pc = pc].pc = pc
  BY <1>2 DEF Work
<1> QED
  BY <1>1, <1>2, <1>3, <1>4

LEMMA EnterType ==
    ASSUME TypeOK, NEW p \in Admin, NEW verb \in {"trash", "restore", "backup"},
           NEW o \in Object \cup {None}, NEW pc \in Pc \ {"idle"}, Enter(p, verb, o, pc)
    PROVE  /\ lease = None /\ lease' = p
           /\ op' \in [Admin -> Work]
           /\ \A q \in Admin : op'[q].pc # "idle" <=> lease' = q
           /\ op'[p].pc = pc /\ op'[p].verb = verb /\ op'[p].obj = o
<1>1. op \in [Admin -> Work]
  BY DEF TypeOK, RetentionTypeOK, Work
<1>2. \A q \in Admin : op[q].pc = "idle"
  BY RetentionAssumption DEF TypeOK, RetentionTypeOK, Enter, LeaseFree
<1> DEFINE w == [Idle EXCEPT !.pc = pc, !.verb = verb, !.obj = o]
<1>3. w \in Work /\ w.pc = pc /\ w.verb = verb /\ w.obj = o
  BY DEF Idle, Work
<1>4. op' = [op EXCEPT ![p] = w] /\ lease' = p /\ lease = None
  BY DEF Enter, LeaseFree
<1> HIDE DEF w
<1> QED
  BY <1>1, <1>2, <1>3, <1>4

LEMMA InitTypeInv == Init => TypeInv
<1> SUFFICES ASSUME Init PROVE TypeInv
  OBVIOUS
<1> USE RetentionAssumption DEF Init, RetentionInit
<1>1. 1 \in Version
  BY DEF Version
<1>2. orig \in [Object -> Version \cup {None}] /\ latest = orig /\ written = 1
  BY <1>1
<1>3. HistoryOK
  BY <1>1, <1>2 DEF HistoryOK
<1>4. op \in [Admin -> Work] /\ \A p \in Admin : op[p].pc = "idle"
  BY DEF Idle, Work, Pc
<1>5. RetentionTypeOK
  <2>1. blobs \subseteq Artifact /\ vouched \in [Note -> SUBSET Consumer]
    OBVIOUS
  <2>2. \A p \in Admin : op[p].pc # "idle" <=> lease = p
    BY <1>4
  <2>3. cursor \in [Consumer -> (0..MaxSequence) \cup {None}] /\ trash \in [Object -> Version \cup {None}]
        /\ tomb \in [Object -> Row \cup {None}] /\ lease \in Admin \cup {Hub, None}
    OBVIOUS
  <2> QED
    BY <1>2, <1>4, <2>1, <2>2, <2>3 DEF RetentionTypeOK, Work
<1>6. stage \in Copies
  BY DEF NoCopy, Copies
<1>7. CallOK
  BY <1>4 DEF CallOK, CallGood, RetentionPc
<1> QED
  BY <1>3, <1>5, <1>6, <1>7 DEF TypeInv, TypeOK

\* The types of what an operation changes beside its own record.
StoreType ==
    /\ orig \in [Object -> Version \cup {None}]
    /\ trash \in [Object -> Version \cup {None}]
    /\ tomb \in [Object -> Row \cup {None}]
    /\ blobs \subseteq Artifact
    /\ cursor \in [Consumer -> (0..MaxSequence) \cup {None}]
    /\ vouched \in [Note -> SUBSET Consumer]
WorkType ==
    /\ lease \in Admin \cup {Hub, None}
    /\ op \in [Admin -> Work]
    /\ \A p \in Admin : op[p].pc # "idle" <=> lease = p
BackupType ==
    /\ stage \in Copies
    /\ archive \in Copies \cup {None}
    /\ target \in {"absent", "restored", "refused"}

LEMMA TypeParts == TypeInv <=> StoreType /\ WorkType /\ BackupType /\ HistoryOK /\ CallOK
BY DEF TypeInv, TypeOK, RetentionTypeOK, StoreType, WorkType, BackupType, Work

LEMMA TypePartsNext == TypeInv' <=> StoreType' /\ WorkType' /\ BackupType' /\ HistoryOK' /\ CallOK'
BY DEF TypeInv, TypeOK, RetentionTypeOK, StoreType, WorkType, BackupType, Work

\* The row of an object in the state a move ends in.
LEMMA RowUpdate ==
    ASSUME NEW o \in Object, StoreType, tomb[o] # None,
           NEW st \in {"preparing", "trashed", "restoring", "restored"}
    PROVE  /\ [tomb[o] EXCEPT !.state = st] \in Row
           /\ [tomb[o] EXCEPT !.state = st].state = st
           /\ [tomb[o] EXCEPT !.state = st].sha = tomb[o].sha
           /\ tomb[o].sha \in Version
BY DEF StoreType, Row

\* An outcome of _recover_transitions is one of four.
LEMMA SettledIs ==
    ASSUME NEW t \in Row, NEW here, NEW there
    PROVE  Settled(t, here, there) \in {"deleted", "trashed", "restored", "review"}
BY DEF Settled

\* With everybody else idle, CallOK is about the one operation.
LEMMA CallOfOne ==
    ASSUME NEW p \in Admin, \A q \in Admin \ {p} : op'[q].pc = "idle", CallGood(op[p])'
    PROVE  CallOK'
BY DEF CallOK, CallGood, RetentionPc

\* One operation of RetentionManager keeps the types.
LEMMA RetainType ==
    ASSUME TypeInv, NEW p \in Admin, Retain(p), UNCHANGED backupVars
    PROVE  TypeInv'
<1> USE RetentionAssumption
<1> DEFINE o == op[p].obj
<1>1. TypeOK /\ StoreType /\ WorkType /\ BackupType /\ HistoryOK /\ CallGood(op[p])
  BY TypeParts DEF TypeInv, CallOK
<1>2. BackupType'
  BY <1>1 DEF BackupType, backupVars
<1>3. op[p] \in Work
  BY <1>1 DEF WorkType
<1>5. op[p].pc \in RetentionPc
  BY DEF Retain, Recover, CheckTrash, PrepareTombstone, MoveToTrash, SetTombstoneState,
         SyncFilesystem, CheckRestore, MarkRestoring, MoveBack, RetentionPc
<1>6. o \in Object /\ op[p].verb \in {"trash", "restore"}
  BY <1>1, <1>5 DEF CallGood
<1>7. op[p].pc # "idle" /\ \A q \in Admin \ {p} : op[q].pc = "idle"
  BY <1>1, <1>5, Alone DEF RetentionPc
<1>8. ASSUME Exit(p) PROVE WorkType' /\ CallOK'
  BY <1>1, <1>7, <1>8, ExitType DEF WorkType, CallOK, CallGood, RetentionPc
<1>9. ASSUME NEW pc \in RetentionPc, Goto(p, pc),
             pc = "prepare" => op[p].sha \in Version,
             pc \in {"moveOut", "trashed", "mark", "moveBack", "restored"} => tomb'[o] # None
      PROVE  WorkType' /\ CallOK'
  <2>1. pc \in Pc \ {"idle"}
    BY <1>9 DEF RetentionPc, Pc
  <2>2. /\ WorkType'
        /\ op'[p] = [op[p] EXCEPT !.pc = pc]
        /\ \A q \in Admin \ {p} : op'[q] = op[q]
    BY <2>1, <1>1, <1>7, <1>9, GotoType, RetentionAssumption DEF WorkType
  <2>3. op'[p].pc = pc /\ op'[p].obj = o /\ op'[p].verb = op[p].verb /\ op'[p].sha = op[p].sha
    BY <2>2, <1>3 DEF Work
  <2>4. CallGood(op[p])'
    BY <2>3, <1>6, <1>9 DEF CallGood
  <2> QED
    BY <2>2, <2>4, <1>7, CallOfOne
<1>10. CASE Recover(p)
  <2>1. /\ op[p].pc = "recover"
        /\ UNCHANGED <<orig, trash, blobs, cursor, written, latest, touched, vouched, stops>>
    BY <1>10 DEF Recover
  <2>2. CASE Exit(p) /\ UNCHANGED tomb /\ review' = review \cup
              {x \in Object : InTransition(tomb[x]) /\ Settled(tomb[x], orig[x], trash[x]) = "review"}
    BY <2>1, <2>2, <1>1, <1>2, <1>8, TypePartsNext DEF StoreType, HistoryOK
  <2>3. CASE /\ \A x \in Object : InTransition(tomb[x]) =>
                     Settled(tomb[x], orig[x], trash[x]) # "review"
             /\ Goto(p, "check") /\ UNCHANGED review
             /\ tomb' = [x \in Object |->
                          IF ~InTransition(tomb[x]) THEN tomb[x]
                          ELSE IF Settled(tomb[x], orig[x], trash[x]) = "deleted" THEN None
                          ELSE [tomb[x] EXCEPT !.state = Settled(tomb[x], orig[x], trash[x])]]
    <3>1. WorkType' /\ CallOK'
      BY <2>3, <1>9 DEF RetentionPc
    <3>2. ASSUME NEW x \in Object PROVE tomb'[x] \in Row \cup {None}
      <4>1. CASE ~InTransition(tomb[x])
        BY <4>1, <2>3, <1>1 DEF StoreType
      <4>2. CASE InTransition(tomb[x])
        <5>1. tomb[x] # None /\ tomb[x] \in Row
          BY <4>2, <1>1 DEF InTransition, StoreType
        <5>2. Settled(tomb[x], orig[x], trash[x]) \in {"deleted", "trashed", "restored"}
          BY <5>1, <4>2, <2>3, SettledIs
        <5> QED
          BY <5>1, <5>2, <4>2, <2>3, <1>1, RowUpdate
      <4> QED
        BY <4>1, <4>2
    <3>3. StoreType'
      BY <3>2, <2>1, <2>3, <1>1 DEF StoreType
    <3> QED
      BY <3>1, <3>3, <2>1, <2>3, <1>1, <1>2, TypePartsNext DEF HistoryOK
  <2> QED
    BY <1>10, <2>2, <2>3 DEF Recover
<1>11. CASE CheckTrash(p)
  <2>1. WorkType' /\ CallOK'
    <3>1. CASE ~TrashBlocked(o) /\ op' = [op EXCEPT ![p].pc = "prepare", ![p].sha = orig[o]]
               /\ UNCHANGED lease
      <4>1. orig[o] \in Version
        BY <3>1, <1>6, <1>1 DEF TrashBlocked, StoreType
      <4>2. /\ op' = [op EXCEPT ![p] = [op[p] EXCEPT !.pc = "prepare", !.sha = orig[o]]]
            /\ [op[p] EXCEPT !.pc = "prepare", !.sha = orig[o]] \in Work
        <5>1. op' = [op EXCEPT ![p] = [op[p] EXCEPT !.pc = "prepare", !.sha = orig[o]]]
          BY <3>1
        <5>2. [op[p] EXCEPT !.pc = "prepare", !.sha = orig[o]] \in Work
          BY <4>1, <1>3 DEF Work, Pc
        <5> QED
          BY <5>1, <5>2
      <4>3. /\ op'[p].pc = "prepare" /\ op'[p].sha = orig[o] /\ op'[p].obj = o
            /\ op'[p].verb = op[p].verb /\ \A q \in Admin \ {p} : op'[q] = op[q]
        BY <4>2, <1>1, <1>3 DEF WorkType, Work
      <4>4. WorkType'
        BY <4>2, <4>3, <3>1, <1>1, <1>7 DEF WorkType
      <4>5. CallGood(op[p])'
        BY <4>1, <4>3, <1>6 DEF CallGood
      <4> QED
        BY <4>3, <4>4, <4>5, <1>7, CallOfOne
    <3> QED
      BY <3>1, <1>8, <1>11 DEF CheckTrash
  <2>2. vouched' \in [Note -> SUBSET Consumer]
    BY <1>1, <1>11 DEF CheckTrash, StoreType
  <2> QED
    BY <2>1, <2>2, <1>11, <1>1, <1>2, TypePartsNext DEF CheckTrash, StoreType, HistoryOK, store
<1>12. CASE PrepareTombstone(p)
  <2>1. op[p].sha \in Version
    BY <1>12, <1>1 DEF PrepareTombstone, CallGood
  <2>2. [state |-> "preparing", sha |-> op[p].sha] \in Row
    BY <2>1 DEF Row
  <2>3. tomb' \in [Object -> Row \cup {None}] /\ tomb'[o] # None
    BY <2>2, <1>12, <1>1, <1>6 DEF PrepareTombstone, StoreType
  <2>4. WorkType' /\ CallOK'
    BY <2>3, <1>9, <1>12 DEF PrepareTombstone, RetentionPc
  <2> QED
    BY <2>3, <2>4, <1>12, <1>1, <1>2, TypePartsNext
    DEF PrepareTombstone, StoreType, HistoryOK, history
<1>13. CASE MoveToTrash(p)
  <2>1. tomb'[o] # None
    BY <1>13, <1>1 DEF MoveToTrash, CallGood
  <2>2. WorkType' /\ CallOK'
    BY <2>1, <1>9, <1>13 DEF MoveToTrash, RetentionPc
  <2>3. StoreType'
    BY <1>13, <1>1, <1>6 DEF MoveToTrash, StoreType, history
  <2> QED
    BY <2>2, <2>3, <1>13, <1>1, <1>2, TypePartsNext DEF MoveToTrash, HistoryOK, history
<1>14. CASE SetTombstoneState(p)
  <2>1. op[p].pc \in {"trashed", "restored"} /\ tomb[o] # None
    BY <1>14, <1>1 DEF SetTombstoneState, CallGood
  <2>2. tomb' = [tomb EXCEPT ![o] = [tomb[o] EXCEPT !.state = op[p].pc]]
    BY <1>14 DEF SetTombstoneState
  <2>3. [tomb[o] EXCEPT !.state = op[p].pc] \in Row
    BY <2>1, <1>1, <1>6, RowUpdate
  <2>4. StoreType'
    BY <2>2, <2>3, <1>14, <1>1, <1>6 DEF SetTombstoneState, StoreType, history
  <2>5. WorkType' /\ CallOK'
    BY <1>8, <1>9, <1>14 DEF SetTombstoneState, RetentionPc
  <2> QED
    BY <2>4, <2>5, <1>14, <1>1, <1>2, TypePartsNext DEF SetTombstoneState, HistoryOK, history
<1>15. CASE SyncFilesystem(p)
  <2>1. WorkType' /\ CallOK'
    BY <1>8, <1>15 DEF SyncFilesystem
  <2> QED
    BY <2>1, <1>15, <1>1, <1>2, TypePartsNext
    DEF SyncFilesystem, StoreType, HistoryOK, store, history
<1>16. CASE CheckRestore(p)
  <2>1. RestoreBlocked(o) \/ tomb'[o] # None
    BY <1>16 DEF CheckRestore, RestoreBlocked, State, store
  <2>2. WorkType' /\ CallOK'
    BY <2>1, <1>8, <1>9, <1>16 DEF CheckRestore, RetentionPc
  <2> QED
    BY <2>2, <1>16, <1>1, <1>2, TypePartsNext DEF CheckRestore, StoreType, HistoryOK, history, store
<1>17. CASE MarkRestoring(p)
  <2>1. tomb[o] # None
    BY <1>17, <1>1 DEF MarkRestoring, CallGood
  <2>2. tomb' = [tomb EXCEPT ![o] = [tomb[o] EXCEPT !.state = "restoring"]]
    BY <1>17 DEF MarkRestoring
  <2>3. [tomb[o] EXCEPT !.state = "restoring"] \in Row
    BY <2>1, <1>1, <1>6, RowUpdate
  <2>4. StoreType' /\ tomb'[o] # None
    BY <2>2, <2>3, <1>17, <1>1, <1>6 DEF MarkRestoring, StoreType, history
  <2>5. WorkType' /\ CallOK'
    BY <2>4, <1>9, <1>17 DEF MarkRestoring, RetentionPc
  <2> QED
    BY <2>4, <2>5, <1>17, <1>1, <1>2, TypePartsNext DEF MarkRestoring, HistoryOK, history
<1>18. CASE MoveBack(p)
  <2>1. tomb'[o] # None
    BY <1>18, <1>1 DEF MoveBack, CallGood
  <2>2. WorkType' /\ CallOK'
    BY <2>1, <1>9, <1>18 DEF MoveBack, RetentionPc
  <2>3. StoreType'
    BY <1>18, <1>1, <1>6 DEF MoveBack, StoreType, history
  <2> QED
    BY <2>2, <2>3, <1>18, <1>1, <1>2, TypePartsNext DEF MoveBack, HistoryOK, history
<1> QED
  BY <1>10, <1>11, <1>12, <1>13, <1>14, <1>15, <1>16, <1>17, <1>18 DEF Retain

\* The steps around the operations keep the types.
LEMMA AroundType ==
    ASSUME TypeInv, UNCHANGED backupVars,
           \/ \E p \in Admin : \/ \E verb \in {"trash", "restore"}, o \in Object : Begin(p, verb, o)
                               \/ CutShort(p)
           \/ HubStart \/ HubStop
           \/ \E o \in Object : WriteFile(o)
           \/ \E a \in Artifact : PutBlob(a)
           \/ \E c \in Consumer, s \in 0..MaxSequence : Acknowledge(c, s)
    PROVE  TypeInv'
<1> USE RetentionAssumption
<1>1. TypeOK /\ StoreType /\ WorkType /\ BackupType /\ HistoryOK /\ CallOK
  BY TypeParts DEF TypeInv
<1>2. BackupType'
  BY <1>1 DEF BackupType, backupVars
<1>4. ASSUME NEW p \in Admin, NEW verb \in {"trash", "restore"}, NEW o \in Object, Begin(p, verb, o)
      PROVE  TypeInv'
  <2>1. /\ WorkType'
        /\ op'[p].pc = "recover" /\ op'[p].verb = verb /\ op'[p].obj = o /\ lease' = p
    BY <1>1, <1>4, EnterType DEF Begin, WorkType, Pc
  <2>2. CallGood(op[p])' /\ \A q \in Admin \ {p} : op'[q].pc = "idle"
    BY <2>1 DEF CallGood, RetentionPc, WorkType
  <2> QED
    BY <2>1, <2>2, <1>1, <1>2, <1>4, CallOfOne, TypePartsNext
    DEF Begin, StoreType, HistoryOK, store, history
<1>5. ASSUME NEW p \in Admin, CutShort(p)
      PROVE  TypeInv'
  <2>1. WorkType' /\ CallOK'
    BY <1>1, <1>5, ExitType DEF CutShort, WorkType, CallOK, CallGood, RetentionPc
  <2> QED
    BY <2>1, <1>1, <1>2, <1>5, TypePartsNext DEF CutShort, StoreType, HistoryOK, store
<1>6. CASE HubStart
  <2>1. WorkType' /\ CallOK'
    BY <1>1, <1>6 DEF HubStart, LeaseFree, WorkType, CallOK, CallGood, store
  <2> QED
    BY <2>1, <1>1, <1>2, <1>6, TypePartsNext DEF HubStart, StoreType, HistoryOK, history, store
<1>7. CASE HubStop
  <2>1. WorkType' /\ CallOK'
    BY <1>1, <1>7 DEF HubStop, WorkType, CallOK, CallGood, store
  <2> QED
    BY <2>1, <1>1, <1>2, <1>7, TypePartsNext DEF HubStop, StoreType, HistoryOK, history, store
<1>8. ASSUME NEW o \in Object, WriteFile(o)
      PROVE  TypeInv'
  <2>1. WorkType' /\ CallOK'
    BY <1>1, <1>8 DEF WriteFile, WorkType, CallOK, CallGood
  <2>2. written + 1 \in Version
    BY <1>1, <1>8 DEF WriteFile, HistoryOK, Version
  <2>3. StoreType'
    BY <2>2, <1>1, <1>8 DEF WriteFile, StoreType
  <2>4. HistoryOK'
    <3>1. ASSUME NEW x \in Object, latest'[x] # None PROVE latest'[x] <= written'
      BY <2>2, <3>1, <1>1, <1>8 DEF WriteFile, HistoryOK, Version
    <3> QED
      BY <3>1, <2>2, <1>1, <1>8 DEF WriteFile, HistoryOK
  <2> QED
    BY <2>1, <2>3, <2>4, <1>2, TypePartsNext
<1>9. ASSUME NEW a \in Artifact, PutBlob(a)
      PROVE  TypeInv'
  <2>1. WorkType' /\ CallOK'
    BY <1>1, <1>9 DEF PutBlob, WorkType, CallOK, CallGood
  <2> QED
    BY <2>1, <1>1, <1>2, <1>9, TypePartsNext DEF PutBlob, StoreType, HistoryOK, history
<1>10. ASSUME NEW c \in Consumer, NEW s \in 0..MaxSequence, Acknowledge(c, s)
       PROVE  TypeInv'
  <2>1. WorkType' /\ CallOK'
    BY <1>1, <1>10 DEF Acknowledge, WorkType, CallOK, CallGood, store
  <2>2. Advanced(cursor[c], s) \in (0..MaxSequence) \cup {None}
    BY <1>1 DEF Advanced, StoreType
  <2> QED
    BY <2>1, <2>2, <1>1, <1>2, <1>10, TypePartsNext
    DEF Acknowledge, StoreType, HistoryOK, history, store
<1> QED
  BY <1>4, <1>5, <1>6, <1>7, <1>8, <1>9, <1>10

\* A part of the copy replaced by a value of its type is a copy.
LEMMA CopyType ==
    ASSUME NEW c \in Copies
    PROVE  /\ \A f \in [Object -> Row \cup {None}] : [c EXCEPT !.tomb = f] \in Copies
           /\ \A f \in [Object -> Version \cup {None}] :
                 /\ [c EXCEPT !.orig = f] \in Copies
                 /\ [c EXCEPT !.trash = f] \in Copies
                 /\ [c EXCEPT !.latest = f] \in Copies
           /\ \A S \in SUBSET Artifact : [c EXCEPT !.blobs = S] \in Copies
BY DEF Copies

\* The steps of BackupManager keep the types.
LEMMA BackupStepType ==
    ASSUME TypeInv,
           \/ \E p \in Admin : BeginBackup(p) \/ BackUp(p)
           \/ RestoreArchive
    PROVE  TypeInv'
<1> USE RetentionAssumption
<1>1. TypeOK /\ StoreType /\ WorkType /\ BackupType /\ HistoryOK /\ CallOK
  BY TypeParts DEF TypeInv
<1>2. NoCopy \in Copies
  BY DEF NoCopy, Copies
<1>3. ASSUME NEW p \in Admin, BeginBackup(p)
      PROVE  TypeInv'
  <2>1. WorkType' /\ op'[p].pc = "databases" /\ lease' = p
    BY <1>1, <1>3, EnterType DEF BeginBackup, WorkType, Pc
  <2>2. CallGood(op[p])' /\ \A q \in Admin \ {p} : op'[q].pc = "idle"
    BY <2>1 DEF CallGood, RetentionPc, WorkType
  <2>3. BackupType'
    BY <1>1, <1>2, <1>3, CopyType DEF BeginBackup, BackupType, HistoryOK
  <2> QED
    BY <2>1, <2>2, <2>3, <1>1, <1>3, CallOfOne, TypePartsNext
    DEF BeginBackup, StoreType, HistoryOK, store, history
<1>4. ASSUME NEW p \in Admin, NEW part \in BackupPc \ {"archive"}, NEW copy \in Copies,
             Copy(p, part, copy)
      PROVE  TypeInv'
  <2>1. After[part] \in Pc \ {"idle"} /\ After[part] \notin RetentionPc
    BY DEF After, Pc, BackupPc, RetentionPc
  <2>2. op[p].pc # "idle"
    BY <1>4 DEF Copy, BackupPc
  <2>3. /\ WorkType' /\ op'[p] = [op[p] EXCEPT !.pc = After[part]]
        /\ \A q \in Admin \ {p} : op'[q] = op[q]
    BY <2>1, <2>2, <1>1, <1>4, GotoType DEF Copy, WorkType
  <2>4. op'[p].pc = After[part]
    BY <2>3, <1>1 DEF WorkType, Work
  <2>5. CallGood(op[p])'
    BY <2>1, <2>4 DEF CallGood, RetentionPc
  <2>6. \A q \in Admin \ {p} : op'[q].pc = "idle"
    BY <2>2, <2>3, <1>1, Alone
  <2>7. BackupType'
    BY <1>1, <1>4 DEF Copy, BackupType
  <2> QED
    BY <2>3, <2>5, <2>6, <2>7, <1>1, <1>4, CallOfOne, TypePartsNext
    DEF Copy, StoreType, HistoryOK, store, history
<1>5. \A S : Copied(S) \in [Object -> Version \cup {None}]
  BY <1>1 DEF Copied, StoreType, BackupType, Copies
<1>6. ASSUME NEW p \in Admin, WriteArchive(p)
      PROVE  TypeInv'
  <2>1. WorkType' /\ CallOK'
    BY <1>1, <1>6, ExitType DEF WriteArchive, WorkType, CallOK, CallGood, RetentionPc
  <2>2. BackupType'
    BY <1>1, <1>2, <1>6 DEF WriteArchive, BackupType
  <2> QED
    BY <2>1, <2>2, <1>1, <1>6, TypePartsNext DEF WriteArchive, StoreType, HistoryOK, store, history
<1>7. ASSUME NEW p \in Admin, BackUp(p)
      PROVE  TypeInv'
  <2>1. /\ stage \in Copies /\ tomb \in [Object -> Row \cup {None}]
        /\ trash \in [Object -> Version \cup {None}] /\ blobs \in SUBSET Artifact
    BY <1>1 DEF StoreType, BackupType
  <2>2. /\ [stage EXCEPT !.tomb = tomb] \in Copies
        /\ [stage EXCEPT !.orig = Copied(Note)] \in Copies
        /\ [stage EXCEPT !.orig = Copied(Artifact)] \in Copies
        /\ [stage EXCEPT !.blobs = blobs] \in Copies
        /\ [stage EXCEPT !.trash = trash] \in Copies
    BY <2>1, <1>5, CopyType
  <2>3. {"databases", "notes", "manifests", "blobs", "trash"} = BackupPc \ {"archive"}
    BY DEF BackupPc
  <2>4. CASE CopyDatabases(p) \/ CopyNotes(p)
    BY <2>2, <2>3, <2>4, <1>4 DEF CopyDatabases, CopyNotes
  <2>5. CASE CopyManifests(p) \/ CopyBlobs(p) \/ CopyTrash(p)
    BY <2>2, <2>3, <2>5, <1>4 DEF CopyManifests, CopyBlobs, CopyTrash
  <2> QED
    BY <2>4, <2>5, <1>6, <1>7 DEF BackUp
<1>8. CASE RestoreArchive
  BY <1>1, <1>8, TypePartsNext
  DEF RestoreArchive, StoreType, WorkType, BackupType, HistoryOK, CallOK, CallGood,
      retentionVars, store, history
<1> QED
  BY <1>3, <1>7, <1>8

LEMMA TypeStep == TypeInv /\ [Next]_vars => TypeInv'
<1> SUFFICES ASSUME TypeInv, [Next]_vars PROVE TypeInv'
  OBVIOUS
<1>1. CASE UNCHANGED vars
  BY <1>1, TypeParts, TypePartsNext
  DEF StoreType, WorkType, BackupType, HistoryOK, CallOK, CallGood,
      vars, retentionVars, backupVars, store, history
<1>2. CASE RetentionNext /\ UNCHANGED backupVars
  BY <1>2, RetainType, AroundType DEF RetentionNext
<1> QED
  BY <1>1, <1>2, BackupStepType DEF Next

\* The types hold, and at most the administrator with the lease is at work.
THEOREM OperationsTypeCorrect == Spec => []TypeInv
BY InitTypeInv, TypeStep, PTL DEF Spec

-----------------------------------------------------------------------------
(***************************************************************************)
(* Acknowledgements.                                                       *)
(***************************************************************************)
\* A step that moves no note to the trash and lets none through the check.
LEMMA AckStays ==
    ASSUME AckInv, UNCHANGED <<cursor, vouched>>,
           \A n \in Note : trash'[n] # None => trash[n] # None,
           \A p \in Admin : op'[p].pc \in {"prepare", "moveOut"} =>
               op[p].pc \in {"prepare", "moveOut"} /\ op'[p].obj = op[p].obj
    PROVE  AckInv'
BY DEF AckInv, AckGood, LeavingGood

\* The steps of the operations that move a note, or lead to its move.
LEMMA RetainAck ==
    ASSUME TypeInv, AckInv, NEW p \in Admin, Retain(p)
    PROVE  AckInv'
<1> USE RetentionAssumption
<1> DEFINE o == op[p].obj
<1>1. TypeOK /\ StoreType /\ WorkType /\ CallGood(op[p])
  BY TypeParts DEF TypeInv, CallOK
<1>2. op[p].pc \in RetentionPc
  BY DEF Retain, Recover, CheckTrash, PrepareTombstone, MoveToTrash, SetTombstoneState,
         SyncFilesystem, CheckRestore, MarkRestoring, MoveBack, RetentionPc
<1>3. op[p] \in Work /\ o \in Object /\ op[p].pc # "idle" /\ Note \subseteq Object
  BY <1>1, <1>2 DEF CallGood, WorkType, RetentionPc, Object
<1>4. ASSUME Exit(p), UNCHANGED <<cursor, vouched, trash>> PROVE AckInv'
  <2>1. \A q \in Admin : op'[q].pc = "idle"
    BY <1>1, <1>3, <1>4, ExitType
  <2> QED
    BY <2>1, <1>4, AckStays
<1>5. ASSUME NEW pc, Goto(p, pc)
      PROVE  /\ op'[p].pc = pc /\ op'[p].obj = o
             /\ \A q \in Admin \ {p} : op'[q] = op[q]
  BY <1>1, <1>3, <1>5 DEF Goto, WorkType, Work
<1>6. ASSUME NEW pc, Goto(p, pc), pc \in {"prepare", "moveOut"} => op[p].pc = "prepare",
             UNCHANGED <<cursor, vouched>>,
             \A n \in Note : trash'[n] # None => trash[n] # None
      PROVE  AckInv'
  BY <1>5, <1>6, AckStays
<1>7. CASE Recover(p)
  BY <1>4, <1>6, <1>7 DEF Recover
<1>8. CASE CheckTrash(p)
  <2>1. CASE Exit(p) /\ UNCHANGED vouched
    BY <2>1, <1>4, <1>8 DEF CheckTrash, store
  <2>2. CASE /\ ~TrashBlocked(o)
             /\ op' = [op EXCEPT ![p].pc = "prepare", ![p].sha = orig[o]]
             /\ vouched' = [n \in Note |-> IF n = o THEN {c \in Consumer : cursor[c] # None}
                                           ELSE vouched[n]]
    <3>1. op'[p].obj = o /\ \A q \in Admin \ {p} : op'[q] = op[q]
      BY <2>2, <1>1, <1>3 DEF WorkType, Work
    <3>2. cursor' = cursor /\ trash' = trash
      BY <1>8 DEF CheckTrash, store
    <3>3. ASSUME o \in Note
          PROVE  /\ \E c \in Consumer : cursor[c] # None
                 /\ \A c \in Consumer : cursor[c] # None => cursor[c] >= Sequence[o]
      <4>1. ~Unacknowledged(o)
        BY <2>2, <3>3 DEF TrashBlocked
      <4>2. Sequence[o] \in Nat /\ \A c \in Consumer : cursor[c] # None => cursor[c] \in Nat
        BY <3>3, <1>1 DEF StoreType
      <4> QED
        BY <4>1, <4>2 DEF Unacknowledged
    <3>4. ASSUME NEW n \in Note
          PROVE  AckGood(n)' /\ (trash'[n] # None => vouched'[n] # {})
      BY <2>2, <3>2, <3>3 DEF AckInv, AckGood
    <3>5. ASSUME NEW q \in Admin PROVE LeavingGood(op[q])'
      <4>1. \A n \in Note : vouched[n] # {} => vouched'[n] # {}
        BY <2>2, <3>3
      <4>2. o \in Note => vouched'[o] # {}
        BY <2>2, <3>3
      <4> QED
        BY <4>1, <4>2, <3>1 DEF AckInv, LeavingGood
    <3> QED
      BY <3>4, <3>5 DEF AckInv
  <2> QED
    BY <2>1, <2>2, <1>8 DEF CheckTrash
<1>9. CASE PrepareTombstone(p)
  BY <1>6, <1>9 DEF PrepareTombstone, history
<1>10. CASE MoveToTrash(p)
  <2>1. op[p].pc = "moveOut" /\ Goto(p, "trashed") /\ UNCHANGED <<cursor, vouched>>
    BY <1>10 DEF MoveToTrash, history
  <2>2. \A n \in Note \ {o} : trash'[n] = trash[n]
    BY <1>3, <1>10, <1>1 DEF MoveToTrash, StoreType
  <2>3. o \in Note => vouched[o] # {}
    BY <2>1 DEF AckInv, LeavingGood
  <2>4. \A q \in Admin : LeavingGood(op[q])'
    BY <2>1, <1>5 DEF AckInv, LeavingGood
  <2> QED
    BY <2>1, <2>2, <2>3, <2>4 DEF AckInv, AckGood
<1>11. CASE SetTombstoneState(p)
  BY <1>4, <1>6, <1>11 DEF SetTombstoneState, history
<1>12. CASE SyncFilesystem(p)
  BY <1>4, <1>12 DEF SyncFilesystem, history, store
<1>13. CASE CheckRestore(p)
  BY <1>4, <1>6, <1>13 DEF CheckRestore, history, store
<1>14. CASE MarkRestoring(p)
  BY <1>6, <1>14 DEF MarkRestoring, history
<1>15. CASE MoveBack(p)
  <2>1. \A n \in Note : trash'[n] # None => trash[n] # None
    BY <1>3, <1>15, <1>1 DEF MoveBack, StoreType
  <2> QED
    BY <2>1, <1>6, <1>15 DEF MoveBack, history
<1> QED
  BY <1>7, <1>8, <1>9, <1>10, <1>11, <1>12, <1>13, <1>14, <1>15 DEF Retain

LEMMA AckStep == TypeInv /\ AckInv /\ [Next]_vars => AckInv'
<1> SUFFICES ASSUME TypeInv, AckInv, [Next]_vars PROVE AckInv'
  OBVIOUS
<1> USE RetentionAssumption
<1>1. TypeOK /\ StoreType /\ WorkType
  BY TypeParts DEF TypeInv
<1>2. ASSUME NEW p \in Admin, NEW verb \in {"trash", "restore", "backup"},
             NEW o \in Object \cup {None}, NEW pc \in {"recover", "databases"},
             Enter(p, verb, o, pc), UNCHANGED <<cursor, vouched, trash>>
      PROVE  AckInv'
  <2>1. lease' = p /\ op'[p].pc = pc /\ \A q \in Admin : op'[q].pc # "idle" <=> lease' = q
    BY <1>1, <1>2, EnterType DEF Pc
  <2> QED
    BY <2>1, <1>2, AckStays
<1>3. CASE \/ \E p \in Admin, verb \in {"trash", "restore"}, o \in Object : Begin(p, verb, o)
           \/ \E p \in Admin : BeginBackup(p)
  BY <1>2, <1>3 DEF Begin, BeginBackup, store, history
<1>4. ASSUME NEW p \in Admin, op[p].pc # "idle", Exit(p), UNCHANGED <<cursor, vouched, trash>>
      PROVE  AckInv'
  <2>1. \A q \in Admin : op'[q].pc = "idle"
    BY <1>1, <1>4, ExitType
  <2> QED
    BY <2>1, <1>4, AckStays
<1>5. CASE \E p \in Admin : CutShort(p) \/ WriteArchive(p)
  BY <1>4, <1>5 DEF CutShort, WriteArchive, store, history
<1>6. ASSUME NEW p \in Admin, NEW part \in BackupPc \ {"archive"}, NEW copy, Copy(p, part, copy)
      PROVE  AckInv'
  <2>1. After[part] \notin {"prepare", "moveOut"}
    BY DEF After, BackupPc
  <2>2. op'[p].pc = After[part] /\ \A q \in Admin \ {p} : op'[q] = op[q]
    BY <1>1, <1>6 DEF Copy, Goto, WorkType, Work
  <2> QED
    BY <2>1, <2>2, <1>6, AckStays DEF Copy, store, history
<1>7. ASSUME NEW p \in Admin, \/ CopyDatabases(p) \/ CopyNotes(p) \/ CopyManifests(p)
                              \/ CopyBlobs(p) \/ CopyTrash(p)
      PROVE  AckInv'
  BY <1>6, <1>7 DEF CopyDatabases, CopyNotes, CopyManifests, CopyBlobs, CopyTrash, BackupPc
<1>8. CASE \/ HubStart \/ HubStop \/ RestoreArchive \/ UNCHANGED vars
           \/ \E o \in Object : WriteFile(o)
           \/ \E a \in Artifact : PutBlob(a)
  <2>1. UNCHANGED <<op, trash, cursor, vouched>>
    BY <1>8 DEF HubStart, HubStop, RestoreArchive, WriteFile, PutBlob, vars, retentionVars,
                store, history
  <2> QED
    BY <2>1, AckStays
\* watermarks do not go back
<1>9. ASSUME NEW c \in Consumer, NEW s \in 0..MaxSequence, Acknowledge(c, s)
      PROVE  AckInv'
  <2>1. UNCHANGED <<op, trash, vouched>>
    BY <1>9 DEF Acknowledge, store, history
  <2>2. cursor' = [cursor EXCEPT ![c] = Advanced(cursor[c], s)]
    BY <1>9 DEF Acknowledge
  <2>3. ASSUME NEW n \in Note, NEW d \in Consumer, cursor[d] # None, cursor[d] >= Sequence[n]
        PROVE  cursor'[d] # None /\ cursor'[d] >= Sequence[n]
    <3>1. Sequence[n] \in Nat /\ cursor[d] \in Nat /\ cursor[d] # None
      BY <2>3, <1>1 DEF StoreType
    <3>2. CASE d # c
      BY <3>1, <3>2, <2>2, <2>3, <1>1 DEF StoreType
    <3>3. CASE d = c
      <4>1. cursor'[d] = Advanced(cursor[d], s)
        BY <3>3, <2>2, <1>1 DEF StoreType
      <4> QED
        BY <4>1, <3>1, <2>3 DEF Advanced
    <3> QED
      BY <3>2, <3>3
  <2>4. \A n \in Note : AckGood(n)'
    BY <2>1, <2>3, <1>1 DEF AckInv, AckGood, StoreType
  <2> QED
    BY <2>1, <2>4 DEF AckInv, LeavingGood
<1> QED
  BY <1>3, <1>5, <1>7, <1>8, <1>9, RetainAck DEF Next, RetentionNext, BackUp

\* A note in the trash was acknowledged by somebody, and every consumer with a
\* row in consumer_cursors when _assert_deliveries_acknowledged let the note
\* through is past its delivery, whatever pages were acknowledged between that
\* check and the move or later, and also where files are written beside an
\* operation: acknowledge_inbox never sets a watermark back.
THEOREM AcknowledgedFirst == Spec => []AcknowledgedBeforeTrash
<1>1. Init => AckInv
  BY DEF Init, RetentionInit, AckInv, AckGood, LeavingGood, Idle, Object
<1>2. AckInv => AcknowledgedBeforeTrash
  BY DEF AckInv, AckGood, AcknowledgedBeforeTrash
<1> QED
  BY <1>1, <1>2, AckStep, OperationsTypeCorrect, PTL DEF Spec

-----------------------------------------------------------------------------
(***************************************************************************)
(* Where the files are.                                                    *)
(***************************************************************************)
LEMMA WorkOfOne ==
    ASSUME NEW p \in Admin, \A q \in Admin \ {p} : op'[q].pc = "idle", WorkGood(op[p])'
    PROVE  WorkOK'
BY DEF WorkOK, WorkGood

\* The rows and files of the objects that a step does not touch stay good.
LEMMA RowStays ==
    ASSUME NEW o \in Object, RowGood(o), touched \subseteq touched',
           orig'[o] = orig[o], trash'[o] = trash[o], tomb'[o] = tomb[o]
    PROVE  RowGood(o)'
BY DEF RowGood, State, InTransition, Fits

\* What _recover_transitions decides agrees with the files; and it can
\* decide when the file is in one place.
LEMMA SettledSound ==
    ASSUME NEW t \in Row, t.state \in {"preparing", "restoring"}, NEW here, NEW there
    PROVE  LET r == Settled(t, here, there) IN
           /\ r \in {"deleted", "restored"} => there = None
           /\ r = "trashed" => there = t.sha
           /\ r = "review" => ~Fits(t, here, there)
           /\ r \in {"deleted", "trashed", "restored", "review"}
BY DEF Settled, Fits

\* One step of an operation of RetentionManager keeps the files where the
\* invariant says they are.
LEMMA RetainFile ==
    ASSUME TypeInv, TypeInv', FileInv, NEW p \in Admin, Retain(p)
    PROVE  FileInv'
<1> USE RetentionAssumption
<1>1. /\ TypeOK /\ StoreType /\ WorkType /\ HistoryOK /\ CallGood(op[p])
      /\ StoreType' /\ WorkType' /\ HistoryOK'
  BY TypeParts, TypePartsNext DEF TypeInv, CallOK
<1>2. op[p].pc \in RetentionPc
  BY DEF Retain, Recover, CheckTrash, PrepareTombstone, MoveToTrash, SetTombstoneState,
         SyncFilesystem, CheckRestore, MarkRestoring, MoveBack, RetentionPc
<1>3. PICK o \in Object : o = op[p].obj /\ op[p] \in Work
  BY <1>1, <1>2 DEF CallGood, WorkType
<1>4. op[p].pc # "idle" /\ \A q \in Admin \ {p} : op[q].pc = "idle"
  BY <1>1, <1>2, Alone DEF RetentionPc
<1>5. /\ WorkGood(op[p]) /\ RowOK /\ BlobOK /\ LatestKept
      /\ review \subseteq touched
  BY DEF FileInv, WorkOK
<1>6. ASSUME Exit(p) PROVE WorkOK'
  BY <1>1, <1>4, <1>6, ExitType DEF WorkOK, WorkGood
<1>7. ASSUME NEW pc \in RetentionPc, Goto(p, pc),
             NEW w \in Work, w.pc = pc, w.obj = o, w.sha = op[p].sha, WorkGood(w)'
      PROVE  WorkOK'
  <2>1. /\ op'[p] = [op[p] EXCEPT !.pc = pc]
        /\ \A q \in Admin \ {p} : op'[q] = op[q]
    BY <1>1, <1>4, <1>7, GotoType DEF RetentionPc, Pc
  <2>2. op'[p].pc = w.pc /\ op'[p].obj = w.obj /\ op'[p].sha = w.sha
    BY <2>1, <1>3, <1>7 DEF Work
  <2>3. WorkGood(op[p])'
    BY <2>2, <1>7 DEF WorkGood
  <2> QED
    BY <2>1, <2>3, <1>4, WorkOfOne
<1>8. ASSUME NEW pc \in RetentionPc
      PROVE  \E w \in Work : w.pc = pc /\ w.obj = o /\ w.sha = op[p].sha
  <2>1. [op[p] EXCEPT !.pc = pc] \in Work
    BY <1>3, <1>8 DEF Work, Pc, RetentionPc
  <2> QED
    BY <2>1, <1>3 DEF Work
<1>9. CASE Recover(p)
  <2>1. UNCHANGED <<orig, trash, blobs, latest, touched>>
    BY <1>9 DEF Recover
  <2>2. CASE Exit(p) /\ UNCHANGED tomb /\ review' = review \cup
              {x \in Object : InTransition(tomb[x]) /\ Settled(tomb[x], orig[x], trash[x]) = "review"}
    <3>1. ASSUME NEW x \in Object, InTransition(tomb[x]),
                 Settled(tomb[x], orig[x], trash[x]) = "review"
          PROVE  x \in touched
      <4>1. tomb[x] \in Row /\ tomb[x].state \in {"preparing", "restoring"}
        BY <3>1, <1>1 DEF StoreType, InTransition
      <4>2. ~Fits(tomb[x], orig[x], trash[x])
        BY <4>1, <3>1, SettledSound
      <4> QED
        BY <4>2, <3>1, <1>5 DEF RowOK, RowGood
    <3>2. RowOK'
      BY <2>1, <2>2, <1>5, RowStays DEF RowOK
    <3> QED
      BY <3>1, <3>2, <2>1, <2>2, <1>5, <1>6
      DEF FileInv, BlobOK, LatestKept
  <2>3. CASE /\ \A x \in Object : InTransition(tomb[x]) =>
                     Settled(tomb[x], orig[x], trash[x]) # "review"
             /\ Goto(p, "check") /\ UNCHANGED review
             /\ tomb' = [x \in Object |->
                          IF ~InTransition(tomb[x]) THEN tomb[x]
                          ELSE IF Settled(tomb[x], orig[x], trash[x]) = "deleted" THEN None
                          ELSE [tomb[x] EXCEPT !.state = Settled(tomb[x], orig[x], trash[x])]]
    <3>1. WorkOK'
      <4>1. "check" \in RetentionPc
        BY DEF RetentionPc
      <4>2. ASSUME NEW w \in Work, w.pc = "check"
            PROVE  WorkGood(w)'
        BY <4>2 DEF WorkGood
      <4> QED
        BY <4>1, <4>2, <2>3, <1>7, <1>8
    <3>2. ASSUME NEW x \in Object PROVE RowGood(x)'
      <4>1. CASE ~InTransition(tomb[x])
        BY <4>1, <2>1, <2>3, <1>5, RowStays DEF RowOK
      <4>2. CASE InTransition(tomb[x])
        <5> DEFINE r == Settled(tomb[x], orig[x], trash[x])
        <5>1. tomb[x] # None /\ tomb[x] \in Row /\ tomb[x].state \in {"preparing", "restoring"}
          BY <4>2, <1>1 DEF InTransition, StoreType
        <5>2. /\ r \in {"deleted", "trashed", "restored"}
              /\ r \in {"deleted", "restored"} => trash[x] = None
              /\ r = "trashed" => trash[x] = tomb[x].sha
          BY <5>1, <4>2, <2>3, SettledSound
        <5>3. tomb'[x] = IF r = "deleted" THEN None ELSE [tomb[x] EXCEPT !.state = r]
          BY <4>2, <2>3
        <5> HIDE DEF r
        <5>4. CASE r = "deleted"
          BY <5>2, <5>3, <5>4, <2>1 DEF RowGood, State, InTransition
        <5>5. CASE r \in {"trashed", "restored"}
          <6>1. tomb'[x] = [tomb[x] EXCEPT !.state = r]
            BY <5>3, <5>5
          <6>2. tomb'[x] \in Row /\ tomb'[x].state = r /\ tomb'[x].sha = tomb[x].sha
            BY <6>1, <5>1, <5>5 DEF Row
          <6> QED
            BY <6>2, <5>2, <5>5, <2>1 DEF RowGood, State, InTransition
        <5> QED
          BY <5>2, <5>4, <5>5
      <4> QED
        BY <4>1, <4>2
    <3> QED
      BY <3>1, <3>2, <2>1, <2>3, <1>5
      DEF FileInv, RowOK, BlobOK, LatestKept
  <2> QED
    BY <1>9, <2>2, <2>3 DEF Recover
<1>10. CASE CheckTrash(p)
  <2>1. UNCHANGED <<orig, trash, tomb, blobs, latest, touched, review>>
    BY <1>10 DEF CheckTrash, store
  <2>2. RowOK'
    BY <2>1, <1>5, RowStays DEF RowOK
  <2>3. WorkOK'
    <3>1. CASE ~TrashBlocked(o) /\ op' = [op EXCEPT ![p].pc = "prepare", ![p].sha = orig[o]]
      <4>1. orig[o] \in Version /\ trash[o] = None
        BY <3>1, <1>1 DEF TrashBlocked, StoreType
      <4>3. /\ op'[p].pc = "prepare" /\ op'[p].sha = orig[o] /\ op'[p].obj = o
            /\ \A q \in Admin \ {p} : op'[q] = op[q]
        BY <3>1, <1>1, <1>3 DEF WorkType, Work
      <4>4. WorkGood(op[p])'
        BY <4>1, <4>3, <2>1 DEF WorkGood
      <4> QED
        BY <4>3, <4>4, <1>4, WorkOfOne
    <3> QED
      BY <3>1, <1>3, <1>6, <1>10 DEF CheckTrash
  <2> QED
    BY <2>1, <2>2, <2>3, <1>5 DEF FileInv, BlobOK, LatestKept
<1>11. CASE PrepareTombstone(p)
  <2>1. /\ UNCHANGED <<orig, trash, blobs, latest, touched, review>>
        /\ op[p].pc = "prepare" /\ Goto(p, "moveOut")
    BY <1>11 DEF PrepareTombstone, history
  <2>2. /\ tomb'[o] = [state |-> "preparing", sha |-> op[p].sha]
        /\ \A x \in Object \ {o} : tomb'[x] = tomb[x]
    BY <1>11, <1>1, <1>3 DEF PrepareTombstone, StoreType
  <2>3. /\ op[p].sha \in Version /\ orig[o] = op[p].sha /\ trash[o] = None
    BY <2>1, <1>3, <1>5 DEF WorkGood
  <2>4. RowGood(o)'
    BY <2>1, <2>2, <2>3, <1>1, <1>3 DEF RowGood, State, InTransition, Fits, StoreType
  <2>5. RowOK'
    BY <2>1, <2>2, <2>4, <1>5, RowStays DEF RowOK
  <2>6. "moveOut" \in RetentionPc
    BY DEF RetentionPc
  <2>7. ASSUME NEW w \in Work, w.pc = "moveOut", w.obj = o, w.sha = op[p].sha
        PROVE  WorkGood(w)'
    BY <2>1, <2>2, <2>3, <2>7 DEF WorkGood
  <2>8. WorkOK'
    BY <2>1, <2>6, <2>7, <1>7, <1>8
  <2> QED
    BY <2>1, <2>5, <2>8, <1>5 DEF FileInv, BlobOK, LatestKept
<1>12. CASE MoveToTrash(p)
  <2>1. /\ UNCHANGED <<tomb, blobs, latest, touched, review>>
        /\ op[p].pc = "moveOut" /\ Goto(p, "trashed")
    BY <1>12 DEF MoveToTrash, history
  <2>2. /\ trash'[o] = orig[o] /\ orig'[o] = None
        /\ \A x \in Object \ {o} : trash'[x] = trash[x] /\ orig'[x] = orig[x]
    BY <1>12, <1>1, <1>3 DEF MoveToTrash, StoreType
  <2>3. /\ op[p].sha \in Version /\ orig[o] = op[p].sha /\ trash[o] = None
        /\ tomb[o] = [state |-> "preparing", sha |-> op[p].sha]
    BY <2>1, <1>3, <1>5 DEF WorkGood
  <2>4. RowGood(o)'
    <3>1. tomb'[o] # None /\ tomb'[o].state = "preparing" /\ tomb'[o].sha = op[p].sha
      BY <2>1, <2>3 DEF Row
    <3> QED
      BY <3>1, <2>2, <2>3 DEF RowGood, State, InTransition, Fits
  <2>5. RowOK'
    BY <2>1, <2>2, <2>4, <1>5, RowStays DEF RowOK
  <2>6. "trashed" \in RetentionPc
    BY DEF RetentionPc
  <2>7. ASSUME NEW w \in Work, w.pc = "trashed", w.obj = o, w.sha = op[p].sha
        PROVE  WorkGood(w)'
    BY <2>1, <2>2, <2>3, <2>7 DEF WorkGood
  <2>8. WorkOK'
    BY <2>1, <2>6, <2>7, <1>7, <1>8
  <2>9. BlobOK' /\ LatestKept'
    BY <2>1, <2>2, <2>3, <1>5 DEF BlobOK, LatestKept, Object
  <2> QED
    BY <2>1, <2>5, <2>8, <2>9, <1>5 DEF FileInv
<1>13. CASE SetTombstoneState(p)
  <2>1. /\ UNCHANGED <<orig, trash, blobs, latest, touched, review>>
        /\ op[p].pc \in {"trashed", "restored"}
        /\ IF o \in Note THEN Goto(p, "sync") ELSE Exit(p)
    BY <1>3, <1>13 DEF SetTombstoneState, history
  <2>2. tomb[o] # None /\ tomb[o] \in Row
    BY <2>1, <1>1, <1>3 DEF CallGood, StoreType
  <2>3. /\ tomb'[o] = [tomb[o] EXCEPT !.state = op[p].pc]
        /\ \A x \in Object \ {o} : tomb'[x] = tomb[x]
    BY <1>13, <1>1, <1>3 DEF SetTombstoneState, StoreType
  <2>4. tomb'[o] \in Row /\ tomb'[o].state = op[p].pc /\ tomb'[o].sha = tomb[o].sha
    BY <2>1, <2>2, <2>3 DEF Row
  <2>5. /\ op[p].pc = "trashed" => trash[o] = tomb[o].sha
        /\ op[p].pc = "restored" => trash[o] = None
    BY <1>3, <1>5 DEF WorkGood
  <2>6. RowGood(o)'
    BY <2>1, <2>4, <2>5 DEF RowGood, State, InTransition
  <2>7. RowOK'
    BY <2>1, <2>3, <2>6, <1>5, RowStays DEF RowOK
  <2>8. WorkOK'
    <3>1. "sync" \in RetentionPc
      BY DEF RetentionPc
    <3>2. ASSUME NEW w \in Work, w.pc = "sync"
          PROVE  WorkGood(w)'
      BY <3>2 DEF WorkGood
    <3> QED
      BY <3>1, <3>2, <2>1, <1>6, <1>7, <1>8
  <2> QED
    BY <2>1, <2>7, <2>8, <1>5 DEF FileInv, BlobOK, LatestKept
<1>14. CASE SyncFilesystem(p)
  <2>1. UNCHANGED <<orig, trash, tomb, blobs, latest, touched, review>> /\ Exit(p)
    BY <1>14 DEF SyncFilesystem, history, store
  <2>2. RowOK'
    BY <2>1, <1>5, RowStays DEF RowOK
  <2> QED
    BY <2>1, <2>2, <1>5, <1>6 DEF FileInv, BlobOK, LatestKept
<1>15. CASE CheckRestore(p)
  <2>1. /\ UNCHANGED <<orig, trash, tomb, blobs, latest, touched, review>>
        /\ IF RestoreBlocked(o) THEN Exit(p) ELSE Goto(p, "mark")
    BY <1>3, <1>15 DEF CheckRestore, history, store
  <2>2. RowOK'
    BY <2>1, <1>5, RowStays DEF RowOK
  <2>3. "mark" \in RetentionPc
    BY DEF RetentionPc
  <2>4. ASSUME ~RestoreBlocked(o), NEW w \in Work, w.pc = "mark", w.obj = o
        PROVE  WorkGood(w)'
    BY <2>1, <2>4 DEF WorkGood, RestoreBlocked, State
  <2>5. WorkOK'
    BY <2>1, <2>3, <2>4, <1>6, <1>7, <1>8
  <2> QED
    BY <2>1, <2>2, <2>5, <1>5 DEF FileInv, BlobOK, LatestKept
<1>16. CASE MarkRestoring(p)
  <2>1. /\ UNCHANGED <<orig, trash, blobs, latest, touched, review>>
        /\ op[p].pc = "mark" /\ Goto(p, "moveBack")
    BY <1>16 DEF MarkRestoring, history
  <2>2. tomb[o] # None /\ tomb[o] \in Row
    BY <2>1, <1>1, <1>3 DEF CallGood, StoreType
  <2>3. /\ tomb'[o] = [tomb[o] EXCEPT !.state = "restoring"]
        /\ \A x \in Object \ {o} : tomb'[x] = tomb[x]
    BY <1>16, <1>1, <1>3 DEF MarkRestoring, StoreType
  <2>4. tomb'[o] \in Row /\ tomb'[o].state = "restoring" /\ tomb'[o].sha = tomb[o].sha
    BY <2>2, <2>3 DEF Row
  <2>5. orig[o] = None /\ trash[o] = tomb[o].sha
    BY <2>1, <1>3, <1>5 DEF WorkGood, RowOK, RowGood
  <2>6. RowGood(o)'
    BY <2>1, <2>4, <2>5 DEF RowGood, State, InTransition, Fits
  <2>7. RowOK'
    BY <2>1, <2>3, <2>6, <1>5, RowStays DEF RowOK
  <2>8. "moveBack" \in RetentionPc
    BY DEF RetentionPc
  <2>9. ASSUME NEW w \in Work, w.pc = "moveBack", w.obj = o
        PROVE  WorkGood(w)'
    BY <2>1, <2>4, <2>5, <2>9 DEF WorkGood, State
  <2>10. WorkOK'
    BY <2>1, <2>8, <2>9, <1>7, <1>8
  <2> QED
    BY <2>1, <2>7, <2>10, <1>5 DEF FileInv, BlobOK, LatestKept
<1>17. CASE MoveBack(p)
  <2>1. /\ UNCHANGED <<tomb, blobs, latest, touched, review>>
        /\ op[p].pc = "moveBack" /\ Goto(p, "restored")
    BY <1>17 DEF MoveBack, history
  <2>2. /\ orig'[o] = trash[o] /\ trash'[o] = None
        /\ \A x \in Object \ {o} : trash'[x] = trash[x] /\ orig'[x] = orig[x]
    BY <1>17, <1>1, <1>3 DEF MoveBack, StoreType
  <2>3. orig[o] = None /\ trash[o] = tomb[o].sha /\ State(o) = "restoring"
    BY <2>1, <1>3, <1>5 DEF WorkGood
  <2>4. RowGood(o)'
    BY <2>1, <2>2, <2>3 DEF RowGood, State, InTransition, Fits
  <2>5. RowOK'
    BY <2>1, <2>2, <2>4, <1>5, RowStays DEF RowOK
  <2>6. "restored" \in RetentionPc
    BY DEF RetentionPc
  <2>7. ASSUME NEW w \in Work, w.pc = "restored", w.obj = o
        PROVE  WorkGood(w)'
    BY <2>1, <2>2, <2>3, <2>7 DEF WorkGood, State
  <2>8. WorkOK'
    BY <2>1, <2>6, <2>7, <1>7, <1>8
  <2>9. BlobOK' /\ LatestKept'
    BY <2>1, <2>2, <2>3, <1>5 DEF BlobOK, LatestKept, Object
  <2> QED
    BY <2>1, <2>5, <2>8, <2>9, <1>5 DEF FileInv
<1> QED
  BY <1>9, <1>10, <1>11, <1>12, <1>13, <1>14, <1>15, <1>16, <1>17 DEF Retain

\* Nobody writes while an operation of RetentionManager is under way: then
\* MayWrite says that no program counter is one of its own.
LEMMA NobodyWrites ==
    ASSUME TypeInv, ~Beside, MayWrite, NEW p \in Admin
    PROVE  op[p].pc \notin RetentionPc
<1> SUFFICES ASSUME op[p].pc \in RetentionPc PROVE FALSE
  OBVIOUS
<1>1. lease = p
  BY Alone DEF TypeInv, RetentionPc
<1> QED
  BY <1>1 DEF TypeInv, CallOK, CallGood, MayWrite, InRetention

\* A step that leaves the files, the rows and the records alone, or ends an
\* operation, keeps FileInv.
LEMMA FileStays ==
    ASSUME FileInv,
           UNCHANGED <<orig, trash, tomb, latest, touched, review>>,
           blobs \subseteq blobs', WorkOK'
    PROVE  FileInv'
<1>1. RowOK'
  BY RowStays DEF FileInv, RowOK
<1> QED
  BY <1>1 DEF FileInv, BlobOK, LatestKept

\* The steps that are not an operation's own keep FileInv, where nobody writes
\* beside an operation.
LEMMA OtherFile ==
    ASSUME TypeInv, TypeInv', FileInv, ~Beside, [Next]_vars,
           ~\E p \in Admin : Retain(p)
    PROVE  FileInv'
<1> USE RetentionAssumption
<1>1. /\ TypeOK /\ StoreType /\ WorkType /\ HistoryOK
      /\ StoreType' /\ WorkType' /\ HistoryOK'
  BY TypeParts, TypePartsNext DEF TypeInv
<1>2. ASSUME \A p \in Admin : op'[p].pc \notin RetentionPc \ {"recover"}
      PROVE  WorkOK'
  BY <1>2 DEF WorkOK, WorkGood, RetentionPc
<1>3. ASSUME NEW p \in Admin, NEW verb \in {"trash", "restore", "backup"},
             NEW o \in Object \cup {None}, NEW pc \in Pc \ {"idle"}, Enter(p, verb, o, pc),
             pc \in BackupPc \cup {"recover"}
      PROVE  WorkOK'
  <2>1. lease' = p /\ op'[p].pc = pc
    BY <1>1, <1>3, EnterType
  <2>2. \A q \in Admin \ {p} : op'[q].pc = "idle"
    BY <2>1, <1>1 DEF WorkType
  <2> QED
    BY <2>1, <2>2, <1>2, <1>3 DEF RetentionPc, BackupPc
<1>4. ASSUME NEW p \in Admin, op[p].pc # "idle", Exit(p)
      PROVE  WorkOK'
  <2>1. \A q \in Admin : op'[q].pc = "idle"
    BY <1>1, <1>4, ExitType
  <2> QED
    BY <2>1, <1>2 DEF RetentionPc
<1>5. CASE \E p \in Admin, verb \in {"trash", "restore"}, o \in Object : Begin(p, verb, o)
  <2>1. WorkOK'
    BY <1>3, <1>5 DEF Begin, Pc
  <2> QED
    BY <2>1, <1>5, FileStays DEF Begin, store, history
<1>6. CASE \E p \in Admin : CutShort(p)
  BY <1>4, <1>6, FileStays DEF CutShort, store
<1>7. CASE \E p \in Admin : BeginBackup(p)
  <2>1. WorkOK'
    BY <1>3, <1>7 DEF BeginBackup, Pc, BackupPc
  <2> QED
    BY <2>1, <1>7, FileStays DEF BeginBackup, store, history
<1>8. CASE \/ HubStart \/ HubStop \/ RestoreArchive \/ UNCHANGED vars
           \/ \E a \in Artifact : PutBlob(a)
           \/ \E c \in Consumer, s \in 0..MaxSequence : Acknowledge(c, s)
  <2>1. UNCHANGED <<op, orig, trash, tomb, latest, touched, review>>
        /\ blobs \subseteq blobs'
    BY <1>8 DEF HubStart, HubStop, RestoreArchive, PutBlob, Acknowledge, vars, retentionVars,
                store, history
  <2>2. WorkOK'
    BY <2>1 DEF FileInv, WorkOK, WorkGood, State
  <2> QED
    BY <2>1, <2>2, FileStays
<1>9. ASSUME NEW o \in Object, WriteFile(o)
      PROVE  FileInv'
  <2>1. \A p \in Admin : op'[p].pc \notin RetentionPc
    BY <1>9, NobodyWrites DEF WriteFile
  <2>2. WorkOK'
    BY <2>1, <1>2
  <2>3. /\ orig'[o] = written + 1 /\ latest'[o] = written + 1
        /\ \A x \in Object \ {o} : orig'[x] = orig[x] /\ latest'[x] = latest[x]
        /\ UNCHANGED <<trash, tomb, blobs, review>>
        /\ touched \subseteq touched'
        /\ InTransition(tomb[o]) => o \in touched'
        /\ o \in Artifact => o \in blobs
    BY <1>1, <1>9 DEF WriteFile, StoreType, HistoryOK
  <2>4. RowGood(o)'
    BY <2>3 DEF FileInv, RowOK, RowGood, State, InTransition
  <2>5. RowOK'
    BY <2>3, <2>4, RowStays DEF FileInv, RowOK
  <2>6. BlobOK' /\ LatestKept'
    BY <2>3 DEF FileInv, BlobOK, LatestKept, Object
  <2> QED
    BY <2>2, <2>3, <2>5, <2>6 DEF FileInv
<1>10. ASSUME NEW p \in Admin, BackUp(p)
       PROVE  FileInv'
  <2>1. op[p].pc # "idle"
    BY <1>10 DEF BackUp, Copy, CopyDatabases, CopyNotes, CopyManifests, CopyBlobs, CopyTrash,
                 WriteArchive
  <2>2. ASSUME NEW part \in BackupPc \ {"archive"}, Goto(p, After[part])
        PROVE  WorkOK'
    <3>1. After[part] \in Pc \ {"idle"} /\ After[part] \notin RetentionPc
      BY DEF After, Pc, BackupPc, RetentionPc
    <3>2. /\ op'[p] = [op[p] EXCEPT !.pc = After[part]]
          /\ \A q \in Admin \ {p} : op'[q] = op[q] /\ op[q].pc = "idle"
      BY <3>1, <2>1, <2>2, <1>1, GotoType, Alone
    <3>3. op'[p].pc = After[part]
      BY <3>2, <1>1 DEF WorkType, Work
    <3>4. \A q \in Admin : op'[q].pc \notin RetentionPc
      BY <3>1, <3>2, <3>3 DEF RetentionPc
    <3> QED
      BY <3>4, <1>2
  <2>3. WorkOK'
    <3>1. {"databases", "notes", "manifests", "blobs", "trash"} = BackupPc \ {"archive"}
      BY DEF BackupPc
    <3>2. (\E part \in BackupPc \ {"archive"} : Goto(p, After[part])) \/ Exit(p)
      BY <3>1, <1>10 DEF BackUp, Copy, CopyDatabases, CopyNotes, CopyManifests, CopyBlobs,
                         CopyTrash, WriteArchive
    <3> QED
      BY <3>2, <2>1, <2>2, <1>4
  <2>4. UNCHANGED <<store, cursor, history>>
    BY <1>10 DEF BackUp, Copy, CopyDatabases, CopyNotes, CopyManifests, CopyBlobs, CopyTrash,
                 WriteArchive
  <2> QED
    BY <2>3, <2>4, FileStays DEF store, history
<1> QED
  BY <1>5, <1>6, <1>7, <1>8, <1>9, <1>10 DEF Next, RetentionNext

LEMMA FileStep == ~Beside /\ TypeInv /\ TypeInv' /\ FileInv /\ [Next]_vars => FileInv'
BY RetainFile, OtherFile

LEMMA InitFileInv == Init => FileInv
<1> SUFFICES ASSUME Init PROVE FileInv
  OBVIOUS
<1>1. \A p \in Admin : op[p].pc = "idle"
  BY DEF Init, RetentionInit, Idle
<1>2. WorkOK
  BY <1>1 DEF WorkOK, WorkGood
<1>3. RowOK
  BY DEF Init, RetentionInit, RowOK, RowGood, State, InTransition
<1>4. BlobOK /\ LatestKept
  BY DEF Init, RetentionInit, BlobOK, LatestKept, Object
<1> QED
  BY <1>2, <1>3, <1>4 DEF Init, RetentionInit, FileInv

LEMMA FilesCorrect ==
    ASSUME ~Beside
    PROVE  Spec => [](TypeInv /\ FileInv)
<1>1. TypeInv /\ TypeInv' /\ FileInv /\ [Next]_vars => FileInv'
  BY FileStep
<1> QED
  BY <1>1, InitFileInv, OperationsTypeCorrect, PTL DEF Spec

\* Where nobody writes a file beside an operation, the last version of every
\* object is in its place or in the trash, wherever an operation is cut short.
\* A file that an editor saves between the hash and the move is the exception
\* that MCOperationsBeside.cfg reproduces.
THEOREM LatestIsKept ==
    ASSUME ~Beside
    PROVE  Spec => []LatestKept
<1>1. FileInv => LatestKept
  BY DEF FileInv
<1> QED
  BY <1>1, FilesCorrect, PTL

\* A row that says trashed has its file in the trash and one that says restored
\* has nothing there, after _recover_transitions too; and recovery leaves to
\* manual review only what somebody wrote while its row was in transition.
THEOREM TombstonesTrue ==
    ASSUME ~Beside
    PROVE  Spec => []TombstonesAreTrue
<1>1. FileInv => TombstonesAreTrue
  BY DEF FileInv, RowOK, RowGood, TombstonesAreTrue
<1> QED
  BY <1>1, FilesCorrect, PTL

-----------------------------------------------------------------------------
(***************************************************************************)
(* Backup.                                                                 *)
(***************************************************************************)
\* What a copy guarantees is not disturbed by writes beside the backup: they
\* add contents, later versions and touched objects.
LEMMA StageStays ==
    ASSUME TypeInv, TypeInv', NEW pc, StageGood(pc),
           UNCHANGED <<stage, archive, tomb, trash>>,
           touched \subseteq touched', blobs \subseteq blobs',
           \A o \in Object : latest[o] # None => latest'[o] # None /\ latest'[o] >= latest[o]
    PROVE  StageGood(pc)'
<1>1. \A o \in Object : PlaceGood(o) => PlaceGood(o)'
  BY DEF PlaceGood, InTransition, Fits
<1>2. ASSUME NEW o \in Object, stage'.latest[o] # None
      PROVE  latest'[o] # None /\ latest'[o] >= stage'.latest[o]
  <2>1. /\ stage.latest[o] \in Version /\ latest[o] # None
        /\ latest[o] \in Version /\ latest'[o] \in Version \cup {None}
    BY <1>2 DEF StageGood, TypeInv, TypeOK, HistoryOK, Copies
  <2> QED
    BY <2>1, <1>2 DEF StageGood, Version
<1> QED
  BY <1>1, <1>2 DEF StageGood, Object

LEMMA ArchiveStays ==
    ASSUME ArchiveOK, UNCHANGED <<archive, target>>, touched \subseteq touched'
    PROVE  ArchiveOK'
BY DEF ArchiveOK, Whole, InTransition, Fits

\* An operation of RetentionManager is not a backup.
LEMMA RetainNotBackup ==
    ASSUME TypeInv, TypeInv', NEW p \in Admin, Retain(p)
    PROVE  /\ \A q \in Admin : op'[q].pc \notin BackupPc
           /\ touched' = touched
<1>1. /\ op[p].pc \in RetentionPc
      /\ op[p].pc # "idle"
      /\ touched' = touched
      /\ \/ Exit(p)
         \/ \E pc \in RetentionPc : Goto(p, pc)
         \/ op' = [op EXCEPT ![p].pc = "prepare", ![p].sha = orig[op[p].obj]]
  BY DEF Retain, Recover, CheckTrash, PrepareTombstone, MoveToTrash, SetTombstoneState,
         SyncFilesystem, CheckRestore, MarkRestoring, MoveBack, RetentionPc, history
<1>2. TypeOK /\ WorkType
  BY TypeParts DEF TypeInv
<1>3. \A q \in Admin \ {p} : op[q].pc = "idle"
  BY <1>1, <1>2, Alone
<1>4. CASE Exit(p)
  BY <1>1, <1>2, <1>4, ExitType DEF BackupPc
<1>5. ASSUME NEW pc \in RetentionPc, Goto(p, pc)
      PROVE  \A q \in Admin : op'[q].pc \notin BackupPc
  <2>1. op' = [op EXCEPT ![p] = [op[p] EXCEPT !.pc = pc]]
    BY <1>5 DEF Goto
  <2>2. op'[p].pc = pc /\ \A q \in Admin \ {p} : op'[q].pc = "idle"
    BY <2>1, <1>2, <1>3 DEF WorkType, Work
  <2> QED
    BY <2>2, <1>5 DEF RetentionPc, BackupPc
<1>6. CASE op' = [op EXCEPT ![p].pc = "prepare", ![p].sha = orig[op[p].obj]]
  <2>1. op'[p].pc = "prepare" /\ \A q \in Admin \ {p} : op'[q].pc = "idle"
    BY <1>2, <1>3, <1>6 DEF WorkType, Work
  <2> QED
    BY <2>1, <1>1 DEF BackupPc
<1> QED
  BY <1>1, <1>4, <1>5, <1>6

\* Each step of a backup establishes what the next relies on.
LEMMA BackupStepCopy ==
    ASSUME TypeInv, TypeInv', FileInv, CopyInv, NEW p \in Admin, BeginBackup(p) \/ BackUp(p)
    PROVE  CopyInv'
<1> USE RetentionAssumption
<1>1. /\ TypeOK /\ StoreType /\ WorkType /\ HistoryOK /\ BackupType
      /\ StoreType' /\ WorkType' /\ HistoryOK' /\ BackupType'
  BY TypeParts, TypePartsNext DEF TypeInv
<1>2. UNCHANGED <<orig, trash, tomb, blobs, latest, touched>>
  BY DEF BeginBackup, BackUp, Copy, CopyDatabases, CopyNotes, CopyManifests, CopyBlobs, CopyTrash,
         WriteArchive, store, history
<1>3. CASE BeginBackup(p)
  <2>1. lease' = p /\ op'[p].pc = "databases"
    BY <1>1, <1>3, EnterType DEF BeginBackup, Pc
  <2>2. \A q \in Admin \ {p} : op'[q].pc = "idle"
    BY <2>1, <1>1 DEF WorkType
  <2>3. stage'.latest = latest
    BY <1>3 DEF BeginBackup, NoCopy
  <2>4. \A o \in Object : latest[o] # None => latest[o] >= latest[o]
    BY <1>1 DEF HistoryOK, Version
  <2>5. StageGood("databases")'
    BY <2>3, <2>4, <1>2, <1>3 DEF StageGood, BeginBackup
  <2>6. StageOK'
    BY <2>1, <2>2, <2>5 DEF StageOK, BackupPc
  <2> QED
    BY <2>6, <1>2, <1>3, ArchiveStays DEF CopyInv, BeginBackup
<1>4. ASSUME NEW part \in BackupPc \ {"archive"}, NEW copy, Copy(p, part, copy)
      PROVE  /\ StageGood(part) /\ stage' = copy /\ archive' = archive
             /\ StageGood(After[part])' => CopyInv'
  <2>1. op[p].pc = part /\ op[p].pc # "idle"
    BY <1>4 DEF Copy, BackupPc
  <2>2. After[part] \in Pc \ {"idle"}
    BY DEF After, BackupPc, Pc
  <2>3. /\ op'[p] = [op[p] EXCEPT !.pc = After[part]]
        /\ \A q \in Admin \ {p} : op'[q] = op[q] /\ op[q].pc = "idle"
    BY <2>1, <2>2, <1>1, <1>4, GotoType, Alone DEF Copy
  <2>4. op'[p].pc = After[part] /\ \A q \in Admin \ {p} : op'[q].pc = "idle"
    BY <2>3, <1>1 DEF WorkType, Work
  <2>5. StageGood(part)
    BY <2>1 DEF CopyInv, StageOK
  <2>6. StageGood(After[part])' => StageOK'
    BY <2>4 DEF StageOK, BackupPc
  <2>7. ArchiveOK'
    BY <1>2, <1>4, ArchiveStays DEF Copy, CopyInv
  <2> QED
    BY <2>5, <2>6, <2>7, <1>4 DEF Copy, CopyInv
<1>5. \A part \in {"databases", "notes", "manifests", "blobs", "trash"} : part \in BackupPc \ {"archive"}
  BY DEF BackupPc
<1>6. /\ stage \in Copies /\ stage.orig \in [Object -> Version \cup {None}]
      /\ stage.latest \in [Object -> Version \cup {None}]
  BY <1>1 DEF BackupType, Copies
<1>7. ASSUME NEW o \in Object, stage'.latest = stage.latest, stage'.orig[o] = orig[o],
             StageGood(op[p].pc)
      PROVE  PlaceGood(o)'
  <2>1. stage.latest[o] # None => \E v \in {orig[o], trash[o]} \ {None} : v >= stage.latest[o]
    BY <1>7 DEF FileInv, LatestKept, StageGood
  <2>2. InTransition(tomb[o]) /\ o \notin touched => Fits(tomb[o], orig[o], trash[o])
    BY DEF FileInv, RowOK, RowGood
  <2>3. o \in Artifact /\ orig[o] # None => o \in blobs
    BY DEF FileInv, BlobOK
  <2> QED
    BY <2>1, <2>2, <2>3, <1>2, <1>7 DEF PlaceGood, InTransition, Fits
<1>8. ASSUME NEW o \in Object, stage'.latest = stage.latest, stage'.orig[o] = stage.orig[o],
             PlaceGood(o)
      PROVE  PlaceGood(o)'
  BY <1>2, <1>8 DEF PlaceGood, InTransition, Fits
<1>9. CASE CopyDatabases(p)
  <2>1. /\ stage' = [stage EXCEPT !.tomb = tomb] /\ StageGood("databases")
        /\ archive' = archive
        /\ StageGood("notes")' => CopyInv'
    BY <1>4, <1>5, <1>9 DEF CopyDatabases, After
  <2>2. stage'.latest = stage.latest /\ stage'.tomb = tomb
    BY <2>1, <1>6 DEF Copies
  <2> QED
    BY <2>1, <2>2, <1>2 DEF StageGood
<1>10. CASE CopyNotes(p)
  <2>1. /\ stage' = [stage EXCEPT !.orig = Copied(Note)] /\ StageGood("notes")
        /\ archive' = archive
        /\ StageGood("manifests")' => CopyInv'
    BY <1>4, <1>5, <1>10 DEF CopyNotes, After
  <2>2. stage'.latest = stage.latest /\ stage'.tomb = stage.tomb /\ stage'.orig = Copied(Note)
    BY <2>1, <1>6 DEF Copies
  <2>3. \A o \in Note : PlaceGood(o)'
    BY <2>1, <2>2, <1>7, <1>10 DEF Copied, Object, CopyNotes, Copy
  <2> QED
    BY <2>1, <2>2, <2>3, <1>2 DEF StageGood
<1>11. CASE CopyManifests(p)
  <2>1. /\ stage' = [stage EXCEPT !.orig = Copied(Artifact)] /\ StageGood("manifests")
        /\ archive' = archive
        /\ StageGood("blobs")' => CopyInv'
    BY <1>4, <1>5, <1>11 DEF CopyManifests, After
  <2>2. stage'.latest = stage.latest /\ stage'.tomb = stage.tomb /\ stage'.orig = Copied(Artifact)
    BY <2>1, <1>6 DEF Copies
  <2>3. \A o \in Artifact : PlaceGood(o)'
    BY <2>1, <2>2, <1>7, <1>11 DEF Copied, Object, CopyManifests, Copy
  <2>4. \A o \in Note : PlaceGood(o)'
    <3>1. \A o \in Note : o \in Object /\ stage'.orig[o] = stage.orig[o]
      BY <2>2, RetentionAssumption DEF Copied, Object
    <3>2. \A o \in Note : PlaceGood(o)
      BY <2>1 DEF StageGood
    <3> QED
      BY <3>1, <3>2, <2>2, <1>8
  <2> QED
    BY <2>1, <2>2, <2>3, <2>4, <1>2 DEF StageGood
<1>12. CASE CopyBlobs(p)
  <2>1. /\ stage' = [stage EXCEPT !.blobs = blobs] /\ StageGood("blobs")
        /\ archive' = archive
        /\ StageGood("trash")' => CopyInv'
    BY <1>4, <1>5, <1>12 DEF CopyBlobs, After
  <2>2. /\ stage'.latest = stage.latest /\ stage'.tomb = stage.tomb /\ stage'.orig = stage.orig
        /\ stage'.blobs = blobs
    BY <2>1, <1>6 DEF Copies
  <2>3. \A o \in Object : PlaceGood(o) /\ PlaceGood(o)'
    BY <2>1, <2>2, <1>8 DEF Object, StageGood
  <2>4. \A a \in Artifact : stage'.orig[a] # None \/ trash'[a] # None => a \in stage'.blobs
    BY <2>2, <2>3, <1>2 DEF PlaceGood, FileInv, BlobOK, Object
  <2> QED
    BY <2>1, <2>2, <2>3, <2>4, <1>2 DEF StageGood, Object
<1>13. CASE CopyTrash(p)
  <2>1. /\ stage' = [stage EXCEPT !.trash = trash] /\ StageGood("trash")
        /\ archive' = archive
        /\ StageGood("archive")' => CopyInv'
    BY <1>4, <1>5, <1>13 DEF CopyTrash, After
  <2>2. /\ stage'.latest = stage.latest /\ stage'.tomb = stage.tomb /\ stage'.orig = stage.orig
        /\ stage'.blobs = stage.blobs /\ stage'.trash = trash
    BY <2>1, <1>6 DEF Copies
  <2>3. \A o \in Object : PlaceGood(o)'
    BY <2>1, <2>2, <1>8 DEF Object, StageGood
  <2> QED
    BY <2>1, <2>2, <2>3, <1>2 DEF StageGood, Object
<1>14. CASE WriteArchive(p)
  <2>1. op[p].pc = "archive" /\ Exit(p) /\ archive' = stage /\ target' = target
    BY <1>14 DEF WriteArchive
  <2>2. \A q \in Admin : op'[q].pc = "idle"
    BY <2>1, <1>1, ExitType
  <2>3. StageGood("archive")
    BY <2>1 DEF CopyInv, StageOK, BackupPc
  <2>4. \A o \in Object : PlaceGood(o)
    BY <2>3 DEF StageGood, Object
  <2>5. Whole'
    BY <2>1, <2>3, <2>4 DEF Whole, StageGood, PlaceGood
  <2>6. \A a \in Artifact : archive'.orig[a] # None \/ archive'.trash[a] # None => a \in archive'.blobs
    BY <2>1, <2>3 DEF StageGood
  <2>7. ASSUME NEW o \in Object, archive'.tomb[o] # None
        PROVE  /\ archive'.tomb[o].state = "trashed" => archive'.trash[o] = archive'.tomb[o].sha
               /\ InTransition(archive.tomb[o])' /\ o \notin touched' =>
                      Fits(archive.tomb[o], archive.orig[o], archive.trash[o])'
    <3>1. archive'.tomb[o] = tomb[o] /\ archive'.trash[o] = trash[o] /\ archive'.orig[o] = stage.orig[o]
      BY <2>1, <2>3 DEF StageGood
    <3>2. State(o) = "trashed" => trash[o] = tomb[o].sha
      BY DEF FileInv, RowOK, RowGood
    <3>3. InTransition(tomb[o]) /\ o \notin touched => Fits(tomb[o], stage.orig[o], trash[o])
      BY <2>4 DEF PlaceGood
    <3> QED
      BY <3>1, <3>2, <3>3, <2>7, <1>2 DEF State, InTransition, Fits
  <2>8. target # "refused" /\ (target # "absent" => archive # None)
    BY DEF CopyInv, ArchiveOK
  <2>9. target' = "absent"
    BY <2>1, <2>3, <2>8 DEF StageGood
  <2>10. ArchiveOK'
    BY <2>1, <2>5, <2>6, <2>7, <2>8, <2>9 DEF ArchiveOK
  <2> QED
    BY <2>2, <2>10 DEF CopyInv, StageOK, BackupPc
<1> QED
  BY <1>3, <1>9, <1>10, <1>11, <1>12, <1>13, <1>14 DEF BackUp

LEMMA CopyStep == TypeInv /\ TypeInv' /\ FileInv /\ CopyInv /\ [Next]_vars => CopyInv'
<1> SUFFICES ASSUME TypeInv, TypeInv', FileInv, CopyInv, [Next]_vars
             PROVE  CopyInv'
  OBVIOUS
<1> USE RetentionAssumption
<1>1. /\ TypeOK /\ StoreType /\ WorkType /\ HistoryOK
      /\ StoreType' /\ WorkType' /\ HistoryOK'
  BY TypeParts, TypePartsNext DEF TypeInv
<1>2. ASSUME NEW p \in Admin, Retain(p), UNCHANGED backupVars
      PROVE  CopyInv'
  BY <1>2, RetainNotBackup, ArchiveStays DEF CopyInv, StageOK, backupVars
<1>3. ASSUME NEW p \in Admin, NEW verb \in {"trash", "restore"}, NEW o \in Object,
             Begin(p, verb, o), UNCHANGED backupVars
      PROVE  CopyInv'
  <2>1. lease' = p /\ op'[p].pc = "recover"
    BY <1>1, <1>3, EnterType DEF Begin, Pc
  <2>2. \A q \in Admin : op'[q].pc \notin BackupPc
    BY <2>1, <1>1 DEF WorkType, BackupPc
  <2> QED
    BY <2>2, <1>3, ArchiveStays DEF CopyInv, StageOK, Begin, backupVars, history
<1>4. ASSUME NEW p \in Admin, CutShort(p), UNCHANGED backupVars
      PROVE  CopyInv'
  <2>1. \A q \in Admin : op'[q].pc = "idle"
    BY <1>1, <1>4, ExitType DEF CutShort
  <2> QED
    BY <2>1, <1>4, ArchiveStays DEF CopyInv, StageOK, CutShort, BackupPc, backupVars
<1>5. ASSUME UNCHANGED <<op, stage, archive, tomb, trash>>,
             touched \subseteq touched', blobs \subseteq blobs',
             \A o \in Object : latest[o] # None => latest'[o] # None /\ latest'[o] >= latest[o]
      PROVE  StageOK'
  BY <1>5, StageStays DEF CopyInv, StageOK
<1>6. \A o \in Object : latest[o] # None => latest[o] >= latest[o]
  BY <1>1 DEF HistoryOK, Version
<1>7. ASSUME \/ HubStart \/ HubStop
             \/ \E a \in Artifact : PutBlob(a)
             \/ \E c \in Consumer, s \in 0..MaxSequence : Acknowledge(c, s),
             UNCHANGED backupVars
      PROVE  CopyInv'
  <2>1. UNCHANGED <<op, tomb, trash, latest, touched>> /\ blobs \subseteq blobs'
    BY <1>7 DEF HubStart, HubStop, PutBlob, Acknowledge, store, history
  <2> QED
    BY <2>1, <1>5, <1>6, <1>7, ArchiveStays DEF CopyInv, backupVars
<1>8. ASSUME NEW o \in Object, WriteFile(o), UNCHANGED backupVars
      PROVE  CopyInv'
  <2>1. \A x \in Object : latest[x] # None => latest'[x] # None /\ latest'[x] >= latest[x]
    <3>1. written \in Version /\ written + 1 \in Version
      BY <1>1, <1>8 DEF WriteFile, HistoryOK, Version
    <3> QED
      BY <3>1, <1>1, <1>8 DEF WriteFile, HistoryOK, Version
  <2>2. UNCHANGED <<op, tomb, trash, blobs>> /\ touched \subseteq touched'
    BY <1>8 DEF WriteFile
  <2> QED
    BY <2>1, <2>2, <1>5, <1>8, ArchiveStays DEF CopyInv, backupVars
<1>9. CASE RestoreArchive
  <2>1. UNCHANGED <<op, stage, archive, tomb, trash, blobs, latest, touched>>
    BY <1>9 DEF RestoreArchive, retentionVars, store, history
  <2>2. Sound(archive)
    BY <1>9 DEF RestoreArchive, CopyInv, ArchiveOK, Sound
  <2>3. target' = "restored" /\ archive # None
    BY <2>2, <1>9 DEF RestoreArchive
  <2>4. ArchiveOK'
    BY <2>1, <2>3 DEF CopyInv, ArchiveOK, Whole, InTransition, Fits
  <2> QED
    BY <2>1, <2>4, <1>5, <1>6 DEF CopyInv
<1>10. CASE UNCHANGED vars
  BY <1>5, <1>6, <1>10, ArchiveStays DEF CopyInv, vars, retentionVars, backupVars, store, history
<1> QED
  BY <1>2, <1>3, <1>4, <1>7, <1>8, <1>9, <1>10, BackupStepCopy DEF Next, RetentionNext

\* A backup loses nothing and can be restored: what existed when it began is in
\* the archive, every manifest with its content, and its rows agree with its
\* files, although files are written between one copied directory and the next
\* and although operations were cut short before it.
THEOREM BackupUsable ==
    ASSUME ~Beside
    PROVE  Spec => []BackupIsUsable
<1>1. Init => CopyInv
  <2> SUFFICES ASSUME Init PROVE CopyInv
    OBVIOUS
  <2>1. \A p \in Admin : op[p].pc = "idle"
    BY DEF Init, RetentionInit, Idle
  <2> QED
    BY <2>1 DEF Init, CopyInv, StageOK, ArchiveOK, Whole, BackupPc
<1>2. TypeInv /\ CopyInv => BackupIsUsable
  <2> SUFFICES ASSUME TypeInv, CopyInv PROVE BackupIsUsable
    OBVIOUS
  <2>1. ASSUME NEW o \in Object, archive \in Copies, InTransition(archive.tomb[o]),
               Fits(archive.tomb[o], archive.orig[o], archive.trash[o])
        PROVE  Settled(archive.tomb[o], archive.orig[o], archive.trash[o]) # "review"
    <3>1. /\ archive.tomb[o] \in Row
          /\ archive.tomb[o].state \in {"preparing", "restoring"}
      BY <2>1 DEF Copies, InTransition
    <3> QED
      BY <3>1, <2>1, SettledSound
  <2>2. target = "restored" => archive \in Copies
    BY DEF TypeInv, TypeOK, CopyInv, ArchiveOK
  <2> QED
    BY <2>1, <2>2 DEF CopyInv, ArchiveOK, BackupIsUsable
<1>3. TypeInv /\ TypeInv' /\ FileInv /\ CopyInv /\ [Next]_vars => CopyInv'
  BY CopyStep
<1>4. Spec => []CopyInv
  BY <1>1, <1>3, FilesCorrect, PTL DEF Spec
<1> QED
  BY <1>2, <1>4, OperationsTypeCorrect, PTL
=============================================================================

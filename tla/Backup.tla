------------------------------- MODULE Backup -------------------------------
(***************************************************************************)
(* Backup and restore (operations.py, BackupManager) of the state that     *)
(* Retention changes.  A backup holds the lease and copies one part after  *)
(* the other: the databases, then the notes, the manifests, the blobs and  *)
(* the trash.  Notes and artifacts may be written beside it by processes   *)
(* that do not take the lease.  The archive appears by one rename, and so  *)
(* does the state directory that is restored from it.                      *)
(*                                                                         *)
(* A copy is hashed after it was taken and the restore checks it by that   *)
(* hash; an archive is taken to be read as it was written.                 *)
(***************************************************************************)
EXTENDS Retention

VARIABLES
    stage,     \* what the backup in progress has copied so far
    archive,   \* the archive, or None
    target     \* the state directory that is restored: "absent", what the
               \* archive holds ("restored"), or "refused" for its content

backupVars == <<stage, archive, target>>
vars == <<retentionVars, backupVars>>

NoCopy == [tomb |-> [o \in Object |-> None], orig |-> [o \in Object |-> None],
           trash |-> [o \in Object |-> None], blobs |-> {},
           latest |-> [o \in Object |-> None]]   \* history: when the backup began

Init ==
    /\ RetentionInit
    /\ stage = NoCopy
    /\ archive = None
    /\ target = "absent"

\* The destination does not exist, and the lease is free.
BeginBackup(p) ==
    /\ archive = None
    /\ Enter(p, "backup", None, "databases")
    /\ stage' = [NoCopy EXCEPT !.latest = latest]
    /\ UNCHANGED <<store, cursor, history, archive, target>>

\* Faulty: the blobs are copied before the manifests.
AfterSwapped == [databases |-> "notes", notes |-> "blobs", blobs |-> "manifests",
                 manifests |-> "trash", trash |-> "archive"]

\* The databases, and then the order of the tuple of roots.
After == [databases |-> "notes", notes |-> "manifests", manifests |-> "blobs",
          blobs |-> "trash", trash |-> "archive"]

Copy(p, part, copy) ==
    /\ op[p].pc = part
    /\ stage' = copy
    /\ Goto(p, After[part])
    /\ UNCHANGED <<store, cursor, history, archive, target>>

\* The files of the notes, or of the manifests.
Copied(S) == [o \in Object |-> IF o \in S THEN orig[o] ELSE stage.orig[o]]

CopyDatabases(p) == Copy(p, "databases", [stage EXCEPT !.tomb = tomb])
CopyNotes(p) == Copy(p, "notes", [stage EXCEPT !.orig = Copied(Note)])
CopyManifests(p) == Copy(p, "manifests", [stage EXCEPT !.orig = Copied(Artifact)])
CopyBlobs(p) == Copy(p, "blobs", [stage EXCEPT !.blobs = blobs])

CopyTrash(p) == Copy(p, "trash", [stage EXCEPT !.trash = trash])

\* os.replace puts the archive in its place.
WriteArchive(p) ==
    /\ op[p].pc = "archive"
    /\ archive' = stage
    /\ stage' = NoCopy
    /\ Exit(p)
    /\ UNCHANGED <<store, cursor, history, target>>

\* Every restored manifest has its content.
Sound(a) == \A x \in Artifact : a.orig[x] # None => x \in a.blobs

\* The archive is unpacked and checked beside the target, which then appears.
RestoreArchive ==
    /\ archive # None /\ target = "absent"
    /\ target' = IF Sound(archive) THEN "restored" ELSE "refused"
    /\ UNCHANGED <<retentionVars, stage, archive>>

BackUp(p) ==
    \/ CopyDatabases(p) \/ CopyNotes(p) \/ CopyManifests(p) \/ CopyBlobs(p) \/ CopyTrash(p)
    \/ WriteArchive(p)

Next ==
    \/ (RetentionNext /\ UNCHANGED backupVars)
    \/ \E p \in Admin : BeginBackup(p) \/ BackUp(p)
    \/ RestoreArchive

Spec == Init /\ [][Next]_vars

-----------------------------------------------------------------------------
Copies == [tomb : [Object -> Row \cup {None}],
           orig : [Object -> Version \cup {None}], trash : [Object -> Version \cup {None}],
           blobs : SUBSET Artifact, latest : [Object -> Version \cup {None}]]

TypeOK ==
    /\ RetentionTypeOK
    /\ stage \in Copies
    /\ archive \in Copies \cup {None}
    /\ target \in {"absent", "restored", "refused"}

\* Every object that existed when the backup began is in the archive, in its
\* place or in the trash, in the version it had then or a later one.
Whole ==
    archive # None => \A o \in Object : archive.latest[o] # None =>
        \E v \in {archive.orig[o], archive.trash[o]} \ {None} : v >= archive.latest[o]

(***************************************************************************)
(* A backup loses nothing and can be restored: nothing wanders between two *)
(* directories while they are copied one after the other, also when        *)
(* artifacts were put beside it, and also when it was taken after an       *)
(* operation had been cut short: every manifest, in its place or in the    *)
(* trash, has its content, a trashed row has its file, and the rows in     *)
(* transition can be settled unless somebody wrote the file meanwhile.     *)
(***************************************************************************)
BackupIsUsable ==
    /\ Whole
    /\ target # "refused"
    /\ target = "restored" =>
        /\ \A a \in Artifact : archive.orig[a] # None \/ archive.trash[a] # None => a \in archive.blobs
        /\ \A o \in Object : archive.tomb[o] # None =>
              /\ archive.tomb[o].state = "trashed" => archive.trash[o] = archive.tomb[o].sha
              /\ InTransition(archive.tomb[o]) /\ o \notin touched =>
                    Settled(archive.tomb[o], archive.orig[o], archive.trash[o]) # "review"
=============================================================================

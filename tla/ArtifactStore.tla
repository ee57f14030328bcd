--------------------------- MODULE ArtifactStore ---------------------------
(***************************************************************************)
(* The content-addressed artifact store (artifacts.py): complete uploads,  *)
(* resumable uploads and policy changes, with the server's threads, with   *)
(* command-line processes that put artifacts beside a running server, and  *)
(* with failures and kills between any two file operations.                *)
(*                                                                         *)
(* The RLock of ArtifactStore orders the threads of one process only.      *)
(* Each file is replaced atomically.  SHA-256 is taken to be injective, so *)
(* a content stands for its digest and for its artifact id.  Every         *)
(* principal has artifact.write; temporary names are never reused, so that *)
(* files which a kill leaves behind are not kept in the model.             *)
(***************************************************************************)
EXTENDS Integers, SequencesExt

CONSTANTS
    Principal,
    Admin,             \* principals with hub.admin or artifact.admin
    Sharer,            \* principals for whom has("artifact.share")
    Thread,            \* request-handler threads of the server
    Cli,               \* command-line processes
    Upload,            \* upload ids
    Content,           \* byte sequences that clients send or claim to send
    Data,              \* bodies of chunk requests
    Claim,             \* what initiate_upload is told: size, chunk size, sha256
    MaxArtifactBytes,
    None

Visibility == {"private", "shared"}
Index == 0..(MaxArtifactBytes - 1)
Proc == Thread \cup Cli
Manifest == [owner : Principal, visibility : Visibility]
Session == [status : {"pending", "completed", "canceled"}, size : Nat, chunkSize : Nat \ {0},
            sha : Content, owner : Principal, visibility : Visibility]
PutCall == [pc : {"stream", "blob", "manifest"}, body : Seq(Nat), owner : Principal,
            visibility : Visibility, expected : Content \cup {None},
            upload : Upload \cup {None}, existing : Manifest \cup {None}]
UploadCall == [pc : {"touch", "complete", "rmtree"}, upload : Upload,
               index : Index \cup {None}]
PolicyCall == [pc : {"policy"}, artifact : Content, manifest : Manifest]

ASSUME ArtifactAssumption ==
    /\ Admin \subseteq Principal /\ Sharer \subseteq Principal
    /\ Thread \cap Cli = {}
    /\ None \notin Proc \cup Upload /\ None \notin Content \cup Data /\ None \notin Index
    /\ None \notin Manifest /\ None \notin Session
    /\ Content \subseteq Seq(Nat) /\ Data \subseteq Seq(Nat)
    /\ Claim \subseteq [size : Nat, chunkSize : Int, sha : Content]
    /\ MaxArtifactBytes \in Nat \ {0}

VARIABLES
    blobs,      \* blob files, by content
    manifests,  \* manifest files, by artifact
    sessions,   \* upload session files
    chunks,     \* chunks[u]: the chunk files of an upload, by index
    temp,       \* processes whose *.tmp file of put_stream exists
    lock,       \* the thread that holds the server's RLock
    call,       \* call[p]: the operation a process is in
    stored,     \* history: artifact and owner of the puts and commits the server answered
    kept        \* history: the chunks whose put_chunk was answered

vars == <<blobs, manifests, sessions, chunks, temp, lock, call, stored, kept>>

NoCall == [pc |-> "idle"]
NoChunks == [i \in Index |-> None]

Init ==
    /\ blobs = {}
    /\ manifests = [c \in Content |-> None]
    /\ sessions = [u \in Upload |-> None]
    /\ chunks = [u \in Upload |-> NoChunks]
    /\ temp = {}
    /\ lock = None
    /\ call = [p \in Proc |-> NoCall]
    /\ stored = {}
    /\ kept = {}

-----------------------------------------------------------------------------
(***************************************************************************)
(* The lock                                                                *)
(***************************************************************************)
\* Faulty: the lock is not taken.
AvailableAlways(p) == TRUE

\* Faulty: a Lock in the place of the RLock.
AvailableOnce(p) == p \in Cli \/ lock = None

\* "with self._lock" may be entered: it is a reentrant lock, and each
\* command-line process has one of its own.
Available(p) == p \in Cli \/ lock \in {None, p}

Acquire(p) == lock' = IF p \in Thread THEN p ELSE lock
Release(p) == lock' = IF lock = p THEN None ELSE lock

\* The call returns or raises: every "with" and "finally" block is left.
Finish(p) ==
    /\ Release(p)
    /\ temp' = temp \ {p}
    /\ call' = [call EXCEPT ![p] = NoCall]

Become(p, next) == call' = [call EXCEPT ![p] = next]

-----------------------------------------------------------------------------
(***************************************************************************)
(* put_stream, put_bytes and put_base64                                    *)
(***************************************************************************)
StreamCall(body, q, v, expected, u) ==
    [pc |-> "stream", body |-> body, owner |-> q, visibility |-> v,
     expected |-> expected, upload |-> u, existing |-> None]

\* The route's scope check; the command line has none.
MayCreate(p, q, v) == v = "private" \/ q \in Sharer \/ p \in Cli

\* The body is streamed into a temporary file, without the lock.
PutStream(p, q, body, v, expected) ==
    /\ call[p].pc = "idle"
    /\ MayCreate(p, q, v)
    /\ p \in Cli => expected = None
    /\ Become(p, StreamCall(body, q, v, expected, None))
    /\ temp' = temp \cup {p}
    /\ UNCHANGED <<blobs, manifests, sessions, chunks, lock, stored, kept>>

\* Faulty: the checksum is not compared.
AcceptableSizeOnly(c) == Len(c.body) <= MaxArtifactBytes

\* Size and checksum of what was streamed.
Acceptable(c) ==
    /\ Len(c.body) <= MaxArtifactBytes
    /\ c.expected \in {None, c.body}

\* ArtifactTooLargeError or ArtifactConflictError before the store is touched.
Refuse(p) ==
    /\ call[p].pc = "stream" /\ ~Acceptable(call[p])
    /\ Finish(p)
    /\ UNCHANGED <<blobs, manifests, sessions, chunks, stored, kept>>

\* "artifact checksum is already owned by another principal"
OwnedByOther(m, q) == m # None /\ m.owner # q

\* Under the lock, the manifest as it is now; another owner's is a conflict.
ReadManifest(p) ==
    LET c == call[p]
        existing == manifests[c.body] IN
    /\ c.pc = "stream" /\ Acceptable(c)
    /\ Available(p)
    /\ \/ /\ OwnedByOther(existing, c.owner)
          /\ Finish(p)
       \/ /\ ~OwnedByOther(existing, c.owner)
          /\ Acquire(p)
          /\ Become(p, [c EXCEPT !.pc = "blob", !.existing = existing])
          /\ UNCHANGED temp
    /\ UNCHANGED <<blobs, manifests, sessions, chunks, stored, kept>>

\* Faulty: the blob is placed only for an artifact that is known.
PlaceBlobIfKnown(p) ==
    LET c == call[p] IN
    /\ c.pc = "blob"
    /\ blobs' = IF c.existing = None THEN blobs ELSE blobs \cup {c.body}
    /\ temp' = temp \ {p}
    /\ Become(p, [c EXCEPT !.pc = "manifest"])
    /\ UNCHANGED <<manifests, sessions, chunks, lock, stored, kept>>

\* The temporary file becomes the blob unless there is one.
PlaceBlob(p) ==
    LET c == call[p] IN
    /\ c.pc = "blob"
    /\ blobs' = blobs \cup {c.body}
    /\ temp' = IF c.body \in blobs THEN temp ELSE temp \ {p}
    /\ Become(p, [c EXCEPT !.pc = "manifest"])
    /\ UNCHANGED <<manifests, sessions, chunks, lock, stored, kept>>

\* A new manifest is written, an existing one is returned as it was read.  A
\* complete upload is answered; a commit goes on with its session.
WriteManifest(p) ==
    LET c == call[p] IN
    /\ c.pc = "manifest"
    /\ manifests' = IF c.existing = None
                    THEN [manifests EXCEPT ![c.body] = [owner |-> c.owner,
                                                        visibility |-> c.visibility]]
                    ELSE manifests
    /\ \/ /\ c.upload = None
          /\ stored' = IF p \in Thread
                       THEN stored \cup {[artifact |-> c.body, owner |-> c.owner]} ELSE stored
          /\ Finish(p)
       \/ /\ c.upload # None
          /\ Become(p, [pc |-> "complete", upload |-> c.upload, index |-> None])
          /\ temp' = temp \ {p}
          /\ UNCHANGED <<lock, stored>>
    /\ UNCHANGED <<blobs, sessions, chunks, kept>>

-----------------------------------------------------------------------------
(***************************************************************************)
(* Resumable uploads.  Only the server opens sessions, and after           *)
(* initiate_upload only under its lock, so that the session a call has     *)
(* read is the one on disk until the call ends.                            *)
(***************************************************************************)
InitiateUpload(p, u, q, v, claim) ==
    /\ call[p].pc = "idle"
    /\ sessions[u] = None
    /\ MayCreate(p, q, v)
    /\ claim.size <= MaxArtifactBytes
    /\ claim.chunkSize \in 1..MaxArtifactBytes
    /\ sessions' = [sessions EXCEPT ![u] =
          [status |-> "pending", size |-> claim.size, chunkSize |-> claim.chunkSize,
           sha |-> claim.sha, owner |-> q, visibility |-> v]]
    /\ UNCHANGED <<blobs, manifests, chunks, temp, lock, call, stored, kept>>

\* Faulty: rounded down.
ChunkCountFloor(s) == s.size \div s.chunkSize

\* math.ceil(size_bytes / chunk_size), 0 for an empty upload
ChunkCount(s) == (s.size + s.chunkSize - 1) \div s.chunkSize

\* The length of chunk i: the last one takes what is left.
ExpectedSize(s, i) ==
    IF i = ChunkCount(s) - 1 THEN s.size - i * s.chunkSize ELSE s.chunkSize

Answer(u, i, data) == kept' = kept \cup {[upload |-> u, index |-> i, data |-> data]}

ChunkFree(u, i) == chunks[u][i] = None

\* A repeated chunk is answered as a duplicate, or refused when it differs.
PutChunk(p, u, i, data) ==
    /\ call[p].pc = "idle" /\ Available(p)
    /\ sessions[u] # None /\ sessions[u].status = "pending"
    /\ i < ChunkCount(sessions[u])
    /\ Len(data) = ExpectedSize(sessions[u], i)
    /\ \/ /\ ChunkFree(u, i)
          /\ chunks' = [chunks EXCEPT ![u][i] = data]
          /\ Acquire(p)
          /\ Become(p, [pc |-> "touch", upload |-> u, index |-> i])
          /\ UNCHANGED kept
       \/ /\ ~ChunkFree(u, i) /\ chunks[u][i] = data
          /\ Answer(u, i, data)
          /\ UNCHANGED <<chunks, lock, call>>
    /\ UNCHANGED <<blobs, manifests, sessions, temp, stored>>

\* The session is written again with its new updatedAt, and the answer sent.
TouchSession(p) ==
    LET c == call[p] IN
    /\ c.pc = "touch"
    /\ Answer(c.upload, c.index, chunks[c.upload][c.index])
    /\ Finish(p)
    /\ UNCHANGED <<blobs, manifests, sessions, chunks, stored>>

\* The chunk files in the order of their index.
Assembled(u) == FlattenSeq([k \in 1..ChunkCount(sessions[u]) |-> chunks[u][k - 1]])

\* commit_upload up to its put_stream, which streams the chunks under the
\* lock.  A completed upload is answered again.
CommitUpload(p, u) ==
    LET s == sessions[u] IN
    /\ call[p].pc = "idle" /\ Available(p)
    /\ s # None
    /\ \/ /\ s.status = "completed" /\ manifests[s.sha] # None
          /\ stored' = stored \cup {[artifact |-> s.sha, owner |-> manifests[s.sha].owner]}
          /\ UNCHANGED <<temp, lock, call>>
       \/ /\ s.status = "pending"
          /\ \A i \in Index : i < ChunkCount(s) => chunks[u][i] # None
          /\ Acquire(p)
          /\ Become(p, StreamCall(Assembled(u), s.owner, s.visibility, s.sha, u))
          /\ temp' = temp \cup {p}
          /\ UNCHANGED stored
    /\ UNCHANGED <<blobs, manifests, sessions, chunks, kept>>

CompleteSession(p) ==
    LET u == call[p].upload IN
    /\ call[p].pc = "complete"
    /\ sessions' = [sessions EXCEPT ![u].status = "completed"]
    /\ Become(p, [call[p] EXCEPT !.pc = "rmtree"])
    /\ UNCHANGED <<blobs, manifests, chunks, temp, lock, stored, kept>>

\* Faulty: the status is not looked at.
CancelableAlways(s) == TRUE

Cancelable(s) == s.status # "completed"

CancelUpload(p, u) ==
    /\ call[p].pc = "idle" /\ Available(p)
    /\ sessions[u] # None /\ Cancelable(sessions[u])
    /\ sessions' = [sessions EXCEPT ![u].status = "canceled"]
    /\ Acquire(p)
    /\ Become(p, [pc |-> "rmtree", upload |-> u, index |-> None])
    /\ UNCHANGED <<blobs, manifests, chunks, temp, stored, kept>>

\* shutil.rmtree(ignore_errors=True) may leave files; a commit is answered.
RemoveChunks(p) ==
    LET u == call[p].upload IN
    /\ call[p].pc = "rmtree"
    /\ \E left \in SUBSET Index :
         chunks' = [chunks EXCEPT ![u] = [i \in Index |-> IF i \in left THEN @[i] ELSE None]]
    /\ stored' = IF sessions[u].status = "completed"
                 THEN stored \cup {[artifact |-> sessions[u].sha, owner |-> sessions[u].owner]}
                 ELSE stored
    /\ Finish(p)
    /\ UNCHANGED <<blobs, manifests, sessions, kept>>

-----------------------------------------------------------------------------
(***************************************************************************)
(* set_visibility: owner or administrator; sharing needs authority too.    *)
(***************************************************************************)
MayChangePolicy(q, m, v) ==
    /\ q \in Admin \/ m.owner = q
    /\ v = "private" \/ q \in Sharer \cup Admin

SetVisibility(p, q, artifact, v) ==
    LET m == manifests[artifact] IN
    /\ call[p].pc = "idle" /\ Available(p)
    /\ m # None /\ MayChangePolicy(q, m, v)
    /\ Acquire(p)
    /\ Become(p, [pc |-> "policy", artifact |-> artifact,
                  manifest |-> [m EXCEPT !.visibility = v]])
    /\ UNCHANGED <<blobs, manifests, sessions, chunks, temp, stored, kept>>

WritePolicy(p) ==
    /\ call[p].pc = "policy"
    /\ manifests' = [manifests EXCEPT ![call[p].artifact] = call[p].manifest]
    /\ Finish(p)
    /\ UNCHANGED <<blobs, sessions, chunks, stored, kept>>

-----------------------------------------------------------------------------
\* The next file operation of a call raises; rmtree ignores errors.
Fail(p) ==
    /\ call[p].pc \notin {"idle", "rmtree"}
    /\ Finish(p)
    /\ UNCHANGED <<blobs, manifests, sessions, chunks, stored, kept>>

\* The server, or a command-line process, is killed.
Kill(procs) ==
    /\ \E p \in procs : call[p].pc # "idle"
    /\ call' = [p \in Proc |-> IF p \in procs THEN NoCall ELSE call[p]]
    /\ temp' = temp \ procs
    /\ lock' = IF lock \in procs THEN None ELSE lock
    /\ UNCHANGED <<blobs, manifests, sessions, chunks, stored, kept>>

\* A request arrives.
Request(p) ==
    \/ \E q \in Principal, body \in Content, v \in Visibility, e \in Content \cup {None} :
         PutStream(p, q, body, v, e)
    \/ /\ p \in Thread
       /\ \/ \E u \in Upload :
               \/ \E q \in Principal, v \in Visibility, claim \in Claim :
                    InitiateUpload(p, u, q, v, claim)
               \/ \E i \in Index, data \in Data : PutChunk(p, u, i, data)
               \/ CommitUpload(p, u) \/ CancelUpload(p, u)
          \/ \E q \in Principal, artifact \in Content, v \in Visibility :
               SetVisibility(p, q, artifact, v)

\* A call in progress goes on.
Step(p) ==
    \/ Refuse(p) \/ ReadManifest(p) \/ PlaceBlob(p) \/ WriteManifest(p)
    \/ TouchSession(p) \/ CompleteSession(p) \/ RemoveChunks(p) \/ WritePolicy(p)

Next ==
    \/ \E p \in Proc : Request(p) \/ Step(p) \/ Fail(p)
    \/ Kill(Thread) \/ \E p \in Cli : Kill({p})

Spec == Init /\ [][Next]_vars

\* A thread that may run runs; nothing is assumed of clients.
FairSpec == Spec /\ \A p \in Thread : WF_vars(Step(p))

-----------------------------------------------------------------------------
(***************************************************************************)
(* Properties                                                              *)
(***************************************************************************)

\* get_bytes: the content of an artifact, None when a file is missing.
GetBytes(c) == IF manifests[c] # None /\ c \in blobs THEN c ELSE None

\* Types of the files and of the processes' local state.
TypeOK ==
    /\ blobs \subseteq Content
    /\ manifests \in [Content -> Manifest \cup {None}]
    /\ sessions \in [Upload -> Session \cup {None}]
    /\ chunks \in [Upload -> [Index -> Data \cup {None}]]
    /\ temp \subseteq Proc
    /\ lock \in Thread \cup {None}
    /\ call \in [Proc -> PutCall \cup UploadCall \cup PolicyCall \cup {NoCall}]
    /\ stored \subseteq [artifact : Content, owner : Principal]
    /\ kept \subseteq [upload : Upload, index : Index, data : Data]

\* A manifest is never visible without its blob, and a completed upload has
\* its artifact, whatever failure or kill cut a put or a commit short; "Size or
\* checksum failure removes the partial file": a temporary file belongs to a put
\* in progress.
StoredIsWhole ==
    /\ \A p \in temp : call[p].pc \in {"stream", "blob", "manifest"}
    /\ \A c \in Content : manifests[c] # None => GetBytes(c) = c
    /\ \A u \in Upload : sessions[u] # None /\ sessions[u].status = "completed" =>
         GetBytes(sessions[u].sha) = sessions[u].sha

\* docs/API.md, "The authenticated principal is the artifact owner": once a
\* put or a commit has been answered, the artifact stays that principal's,
\* though others put the same bytes at the same time.
OwnerIsUploader ==
    \A s \in stored : manifests[s.artifact] # None /\ manifests[s.artifact].owner = s.owner

\* docs/ARTIFACTS_AND_DERIVATION.md, restart-safe uploads: an acknowledged
\* chunk stays until its upload ends, and a completed upload has the
\* acknowledged bytes at the acknowledged place.
AcknowledgedBytes ==
    \A k \in kept : LET s == sessions[k.upload] IN
        /\ s.status = "pending" => chunks[k.upload][k.index] = k.data
        /\ s.status = "completed" =>
             SubSeq(s.sha, k.index * s.chunkSize + 1, k.index * s.chunkSize + Len(k.data)) = k.data

\* The layout of an upload covers its claimed size: no chunk is empty or
\* longer than chunkSize, and the lengths add up.
LayoutFits ==
    \A u \in Upload : sessions[u] # None =>
        LET s == sessions[u]
            n == ChunkCount(s) IN
        /\ n \in 0..MaxArtifactBytes
        /\ \A i \in 0..(n - 1) : ExpectedSize(s, i) \in 1..s.chunkSize
        /\ s.size = IF n = 0 THEN 0 ELSE (n - 1) * s.chunkSize + ExpectedSize(s, n - 1)

\* What an upload came to is final, and what was claimed for it is fixed.
UploadOutcomeFinal ==
    [][\A u \in Upload : sessions[u] # None =>
         \/ sessions'[u] = sessions[u]
         \/ /\ sessions[u].status = "pending"
            /\ sessions'[u] # None /\ sessions'[u].status \in {"completed", "canceled"}
            /\ [sessions'[u] EXCEPT !.status = "pending"] = sessions[u]]_vars

\* No thread keeps the lock for ever: a commit enters it again in put_stream.
LockReleased == \A p \in Thread : lock = p ~> lock # p
=============================================================================

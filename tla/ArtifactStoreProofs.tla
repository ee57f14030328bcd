------------------------ MODULE ArtifactStoreProofs ------------------------
(***************************************************************************)
(* The proofs about ArtifactStore, for any principals, threads, command-   *)
(* line processes, uploads, contents and size limits, with failures and    *)
(* kills between any two file operations.                                  *)
(***************************************************************************)
EXTENDS ArtifactStore, SequenceTheorems, WellFoundedInduction, TLAPS

Putting == {"stream", "blob", "manifest"}

\* A put or a commit in progress.  Nothing is said of the bytes of a commit
\* before their checksum has been compared.
PutShape(c) ==
    /\ c.pc \in Putting
    /\ c \in [pc : Putting, body : {c.body}, owner : Principal, visibility : Visibility,
              expected : Content \cup {None}, upload : Upload \cup {None},
              existing : Manifest \cup {None}]

\* The claim of a session fits the limits.
SessionOK(s) == s.size <= MaxArtifactBytes /\ s.chunkSize <= MaxArtifactBytes

\* The files: no manifest without its blob, no completed upload without both.
FilesOK ==
    /\ blobs \subseteq Content
    /\ manifests \in [Content -> Manifest \cup {None}]
    /\ sessions \in [Upload -> Session \cup {None}]
    /\ \A c \in Content : manifests[c] # None => c \in blobs
    /\ \A u \in Upload : sessions[u] # None =>
          /\ SessionOK(sessions[u])
          /\ (sessions[u].status = "completed" => manifests[sessions[u].sha] # None)

(***************************************************************************)
(* What a call in progress relies on.  Every part of it, once true, stays  *)
(* so: blobs and manifests are only added, and a session keeps its claim.  *)
(***************************************************************************)
PutOK(c) ==
    /\ PutShape(c)
    /\ (c.upload = None => c.body \in Content)
    /\ (c.upload # None => /\ sessions[c.upload] # None
                           /\ c.expected = sessions[c.upload].sha
                           /\ c.owner = sessions[c.upload].owner)
    /\ (c.pc # "stream" => /\ c.body \in Content /\ c.expected \in {None, c.body}
                           /\ (c.existing # None => manifests[c.body] # None))
    /\ (c.pc = "manifest" => c.body \in blobs)

UploadOK(c) ==
    /\ c \in UploadCall
    /\ sessions[c.upload] # None
    /\ (c.pc = "touch" => c.index \in Index)
    /\ (c.pc = "complete" => manifests[sessions[c.upload].sha] # None)

PolicyOK(c) == c \in PolicyCall /\ manifests[c.artifact] # None

CallOK(c) == c = NoCall \/ PutOK(c) \/ UploadOK(c) \/ PolicyOK(c)

\* The processes: temporary files belong to puts in progress.
ProcsOK ==
    /\ call = [p \in Proc |-> call[p]]
    /\ lock \in Thread \cup {None}
    /\ temp \subseteq Proc
    /\ \A p \in Proc : CallOK(call[p])
    /\ \A p \in temp : call[p].pc \in Putting

WholeInv == FilesOK /\ ProcsOK

(***************************************************************************)
(* The lock: a thread holds it at every step but the streaming of a put,   *)
(* and only threads work on uploads.                                       *)
(***************************************************************************)
Committing(c) == c.pc \in Putting /\ c.upload # None
Held(c) == c.pc \in {"blob", "manifest", "touch", "complete", "rmtree", "policy"}
           \/ Committing(c)

LockInv ==
    /\ \A p \in Thread : Held(call[p]) => lock = p
    /\ \A p \in Cli : call[p].pc \in Putting \cup {"idle"} /\ ~Committing(call[p])
    /\ \A p \in Proc : Committing(call[p]) \/ call[p].pc \in {"touch", "complete"} =>
          sessions[call[p].upload].status = "pending"
    /\ \A p \in Proc : call[p].pc = "rmtree" => sessions[call[p].upload].status # "pending"

(***************************************************************************)
(* Without command-line processes nobody changes a manifest between its    *)
(* read and its write, and so every answer names the owner on disk.        *)
(***************************************************************************)
OwnerOK(c) ==
    /\ (c.pc \in {"blob", "manifest"} =>
            /\ c.existing = manifests[c.body]
            /\ (c.existing # None => c.existing.owner = c.owner))
    /\ (c.pc = "complete" =>
            manifests[sessions[c.upload].sha].owner = sessions[c.upload].owner)
    /\ (c.pc = "rmtree" /\ sessions[c.upload].status = "completed" =>
            manifests[sessions[c.upload].sha].owner = sessions[c.upload].owner)
    /\ (c.pc = "policy" => c.manifest.owner = manifests[c.artifact].owner)

OwnerInv ==
    /\ \A p \in Proc : OwnerOK(call[p])
    /\ OwnerIsUploader
    /\ stored \subseteq [artifact : Content, owner : Principal]

\* An acknowledged chunk is on disk as long as its upload is pending.
ChunksStay ==
    \A k \in kept : /\ sessions[k.upload] # None
                    /\ (sessions[k.upload].status = "pending" =>
                            chunks[k.upload][k.index] = k.data)

ChunkInv ==
    /\ chunks \in [Upload -> [Index -> Data \cup {None}]]
    /\ kept \subseteq [upload : Upload, index : Index, data : Data]
    /\ \A p \in Proc : call[p].pc = "touch" => chunks[call[p].upload][call[p].index] # None
    /\ ChunksStay

-----------------------------------------------------------------------------
(***************************************************************************)
(* The files and what the calls rely on.                                   *)
(***************************************************************************)

\* Files are added; a session keeps its claim.
Grow ==
    /\ blobs \subseteq blobs'
    /\ \A c \in Content : manifests[c] # None => manifests'[c] # None
    /\ \A u \in Upload : sessions[u] # None => /\ sessions'[u] # None
                                               /\ sessions'[u].sha = sessions[u].sha
                                               /\ sessions'[u].owner = sessions[u].owner

\* The fields of a session, and that a session is not None.
LEMMA SessionFields ==
  ASSUME FilesOK, NEW u \in Upload, sessions[u] # None
  PROVE  /\ sessions[u] \in Session
         /\ sessions[u].sha \in Content /\ sessions[u].owner \in Principal
         /\ sessions[u].visibility \in Visibility
  BY DEF FilesOK, Session

\* What a call relies on stays true while files grow.
LEMMA CallKept ==
  ASSUME FilesOK, Grow, NEW c, CallOK(c) PROVE CallOK(c)'
  <1>1. CASE c = NoCall
    BY <1>1 DEF CallOK
  <1>2. CASE PutOK(c)
    <2>1. c.upload # None => c.upload \in Upload
      BY <1>2 DEF PutOK, PutShape
    <2>2. PutOK(c)'
      BY <1>2, <2>1 DEF PutOK, PutShape, Grow
    <2> QED BY <2>2 DEF CallOK
  <1>3. CASE UploadOK(c)
    <2>1. c.upload \in Upload
      BY <1>3 DEF UploadOK, UploadCall
    <2>2. sessions[c.upload].sha \in Content
      BY <1>3, <2>1, SessionFields DEF UploadOK
    <2>3. UploadOK(c)'
      BY <1>3, <2>1, <2>2 DEF UploadOK, Grow
    <2> QED BY <2>3 DEF CallOK
  <1>4. CASE PolicyOK(c)
    <2>1. c.artifact \in Content
      BY <1>4 DEF PolicyOK, PolicyCall
    <2>2. PolicyOK(c)'
      BY <1>4, <2>1 DEF PolicyOK, Grow
    <2> QED BY <2>2 DEF CallOK
  <1> QED BY <1>1, <1>2, <1>3, <1>4 DEF CallOK

\* The step of a process from its call to the call d.
LEMMA ProcStep ==
  ASSUME WholeInv, Grow, NEW p \in Proc, NEW d, call' = [call EXCEPT ![p] = d], CallOK(d)',
         temp' \subseteq temp \cup {p}, p \in temp' => d.pc \in Putting,
         lock' \in Thread \cup {None}
  PROVE  ProcsOK'
  <1>1. /\ call' = [q \in Proc |-> call'[q]] /\ call'[p] = d
        /\ \A q \in Proc : q # p => call'[q] = call[q]
    BY DEF WholeInv, ProcsOK
  <1>2. ASSUME NEW q \in Proc PROVE CallOK(call[q])'
    <2>1. CASE q = p
      BY <1>1, <2>1
    <2>2. CASE q # p
      <3>1. PICK c : c = call[q]
        OBVIOUS
      <3>2. CallOK(c)'
        BY <3>1, CallKept DEF WholeInv, ProcsOK
      <3> QED BY <1>1, <2>2, <3>1, <3>2
    <2> QED BY <2>1, <2>2
  <1>3. \A q \in temp' : call'[q].pc \in Putting
    BY <1>1 DEF WholeInv, ProcsOK
  <1> QED BY <1>1, <1>2, <1>3 DEF WholeInv, ProcsOK

\* The lock is a thread or free after Acquire and Release.
LEMMA LockType ==
  ASSUME lock \in Thread \cup {None}, NEW p \in Proc, Acquire(p) \/ Release(p) \/ lock' = lock
  PROVE  lock' \in Thread \cup {None}
  BY DEF Acquire, Release

LEMMA NoCallOK == CallOK(NoCall)' /\ NoCall.pc = "idle"
  BY DEF CallOK, NoCall

\* A call that ends.
LEMMA FinishStep ==
  ASSUME WholeInv, Grow, NEW p \in Proc, Finish(p) PROVE ProcsOK'
  <1>1. lock' \in Thread \cup {None}
    BY LockType DEF Finish, WholeInv, ProcsOK
  <1>2. /\ call' = [call EXCEPT ![p] = NoCall] /\ temp' \subseteq temp \cup {p} /\ p \notin temp'
    BY DEF Finish
  <1> QED BY <1>1, <1>2, NoCallOK, ProcStep

\* Steps that leave the files alone.
LEMMA SameFiles ==
  ASSUME FilesOK, UNCHANGED <<blobs, manifests, sessions>> PROVE FilesOK' /\ Grow
  BY DEF FilesOK, Grow

\* Steps that leave the processes alone.
LEMMA SameProcs ==
  ASSUME WholeInv, Grow, UNCHANGED <<call, temp, lock>> PROVE ProcsOK'
  <1>1. ASSUME NEW q \in Proc PROVE CallOK(call[q])'
    <2>1. PICK c : c = call[q]
      OBVIOUS
    <2>2. CallOK(c)'
      BY <2>1, CallKept DEF WholeInv, ProcsOK
    <2> QED BY <2>1, <2>2
  <1> QED BY <1>1 DEF WholeInv, ProcsOK

\* A process in a call of some kind.
LEMMA CallKinds ==
  ASSUME WholeInv, NEW p \in Proc
  PROVE  /\ (call[p].pc \in Putting => PutOK(call[p]))
         /\ (call[p].pc \in {"touch", "complete", "rmtree"} => UploadOK(call[p]))
         /\ (call[p].pc = "policy" => PolicyOK(call[p]))
  <1>1. CallOK(call[p])
    BY DEF WholeInv, ProcsOK
  <1> QED BY <1>1 DEF CallOK, NoCall, PutOK, PutShape, UploadOK, UploadCall, PolicyOK,
                      PolicyCall, Putting

LEMMA WholeInit == Init => WholeInv
  BY NoCallOK DEF Init, WholeInv, FilesOK, ProcsOK, CallOK

-----------------------------------------------------------------------------
\* A put starts streaming.
LEMMA PutStreamWhole ==
  ASSUME WholeInv, NEW p \in Proc, NEW q \in Principal, NEW body \in Content,
         NEW v \in Visibility, NEW e \in Content \cup {None}, PutStream(p, q, body, v, e)
  PROVE  WholeInv'
  <1>1. FilesOK' /\ Grow
    BY SameFiles DEF PutStream, WholeInv
  <1> DEFINE d == StreamCall(body, q, v, e, None)
  <1>2. CallOK(d)' /\ d.pc \in Putting
    BY DEF StreamCall, CallOK, PutOK, PutShape, Putting
  <1>3. call' = [call EXCEPT ![p] = d] /\ temp' = temp \cup {p} /\ lock' \in Thread \cup {None}
    BY DEF PutStream, Become, WholeInv, ProcsOK
  <1> QED BY <1>1, <1>2, <1>3, ProcStep DEF WholeInv

\* The manifest is read, or the put is refused.
LEMMA ReadManifestWhole ==
  ASSUME WholeInv, NEW p \in Proc, ReadManifest(p) PROVE WholeInv'
  <1>1. FilesOK' /\ Grow
    BY SameFiles DEF ReadManifest, WholeInv
  <1>2. PutOK(call[p]) /\ call[p].pc = "stream" /\ Acceptable(call[p])
    BY CallKinds DEF ReadManifest, Putting
  <1>3. call[p].body \in Content /\ call[p].expected \in {None, call[p].body}
    <2>1. CASE call[p].upload = None
      BY <1>2, <2>1 DEF PutOK, Acceptable
    <2>2. CASE call[p].upload # None
      <3>1. call[p].upload \in Upload /\ sessions[call[p].upload] # None
            /\ call[p].expected = sessions[call[p].upload].sha
        BY <1>2, <2>2 DEF PutOK, PutShape
      <3>2. call[p].expected \in Content
        BY <3>1, SessionFields DEF WholeInv
      <3> QED BY <1>2, <3>2, ArtifactAssumption DEF Acceptable
    <2> QED BY <2>1, <2>2
  <1>4. CASE Finish(p)
    BY <1>1, <1>4, FinishStep DEF WholeInv
  <1>5. CASE ~Finish(p)
    <2>1. PICK d : d = [call[p] EXCEPT !.pc = "blob", !.existing = manifests[call[p].body]]
      OBVIOUS
    <2>2. call' = [call EXCEPT ![p] = d] /\ temp' = temp /\ Acquire(p)
      BY <1>5, <2>1 DEF ReadManifest, Become
    <2>3. manifests[call[p].body] \in Manifest \cup {None}
      BY <1>3 DEF WholeInv, FilesOK
    <2>4. /\ PutShape(d) /\ d.pc = "blob" /\ d.body = call[p].body
          /\ d.expected = call[p].expected /\ d.owner = call[p].owner
          /\ d.upload = call[p].upload /\ d.existing = manifests[d.body]
      BY <1>2, <2>1, <2>3 DEF PutOK, PutShape, Putting
    <2>5. CallOK(d)'
      <3>1. UNCHANGED <<blobs, manifests, sessions>>
        BY DEF ReadManifest
      <3>2. PutOK(d)
        BY <1>2, <1>3, <2>4 DEF PutOK
      <3>3. PutOK(d)'
        BY <3>1, <3>2 DEF PutOK, PutShape
      <3> QED BY <3>3 DEF CallOK
    <2>6. lock' \in Thread \cup {None}
      BY <2>2, LockType DEF WholeInv, ProcsOK
    <2>7. d.pc \in Putting
      BY <2>4 DEF Putting
    <2> QED BY <1>1, <2>2, <2>5, <2>6, <2>7, ProcStep DEF WholeInv
  <1> QED BY <1>4, <1>5

\* The blob is there from now on.
LEMMA PlaceBlobWhole ==
  ASSUME WholeInv, NEW p \in Proc, PlaceBlob(p) PROVE WholeInv'
  <1>1. PutOK(call[p]) /\ call[p].pc = "blob" /\ call[p].body \in Content
    BY CallKinds DEF PlaceBlob, Putting, PutOK
  <1>2. blobs' = blobs \cup {call[p].body} /\ UNCHANGED <<manifests, sessions, lock>>
        /\ temp' \subseteq temp
    BY DEF PlaceBlob
  <1>3. FilesOK' /\ Grow
    BY <1>1, <1>2 DEF WholeInv, FilesOK, Grow
  <1>4. PICK d : d = [call[p] EXCEPT !.pc = "manifest"]
    OBVIOUS
  <1>5. call' = [call EXCEPT ![p] = d]
    BY <1>4 DEF PlaceBlob, Become
  <1>6. /\ PutShape(d) /\ d.pc = "manifest" /\ d.body = call[p].body
        /\ d.expected = call[p].expected /\ d.owner = call[p].owner
        /\ d.upload = call[p].upload /\ d.existing = call[p].existing
    BY <1>1, <1>4 DEF PutOK, PutShape, Putting
  <1>7. PutOK(d)'
    BY <1>1, <1>2, <1>6 DEF PutOK, PutShape
  <1>8. lock' \in Thread \cup {None} /\ d.pc \in Putting
    BY <1>2, <1>6 DEF WholeInv, ProcsOK, Putting
  <1> QED BY <1>2, <1>3, <1>5, <1>7, <1>8, ProcStep DEF WholeInv, CallOK

\* The manifest is there from now on; a commit has the artifact it claimed.
LEMMA WriteManifestWhole ==
  ASSUME WholeInv, NEW p \in Proc, WriteManifest(p) PROVE WholeInv'
  <1>1. /\ PutOK(call[p]) /\ call[p].pc = "manifest"
        /\ call[p].body \in Content /\ call[p].body \in blobs
    BY CallKinds DEF WriteManifest, Putting, PutOK
  <1>2. PICK m : m = [owner |-> call[p].owner, visibility |-> call[p].visibility]
    OBVIOUS
  <1>3. m \in Manifest /\ m # None
    BY <1>1, <1>2, ArtifactAssumption DEF PutOK, PutShape, Manifest
  <1>4. /\ manifests' = IF call[p].existing = None
                        THEN [manifests EXCEPT ![call[p].body] = m] ELSE manifests
        /\ UNCHANGED <<blobs, sessions>>
    BY <1>2 DEF WriteManifest
  <1>5. /\ manifests' \in [Content -> Manifest \cup {None}]
        /\ manifests'[call[p].body] # None
        /\ \A c \in Content : manifests[c] # None => manifests'[c] # None
        /\ \A c \in Content : manifests'[c] # None => c \in blobs
    BY <1>1, <1>3, <1>4 DEF WholeInv, FilesOK, PutOK
  <1>6. FilesOK' /\ Grow
    <2>1. \A u \in Upload : sessions[u] # None => sessions[u].sha \in Content
      BY SessionFields DEF WholeInv
    <2> QED BY <1>4, <1>5, <2>1 DEF WholeInv, FilesOK, Grow
  <1>7. CASE call[p].upload = None
    BY <1>6, <1>7, FinishStep DEF WriteManifest, WholeInv
  <1>8. CASE call[p].upload # None
    <2>1. PICK d : d = [pc |-> "complete", upload |-> call[p].upload, index |-> None]
      OBVIOUS
    <2>2. call' = [call EXCEPT ![p] = d] /\ temp' = temp \ {p} /\ lock' = lock
      BY <1>8, <2>1 DEF WriteManifest, Become
    <2>3. d \in UploadCall /\ d.pc = "complete" /\ d.upload = call[p].upload
          /\ d.upload \in Upload
      BY <1>1, <1>8, <2>1 DEF UploadCall, PutOK, PutShape
    <2>4. /\ sessions[d.upload] # None /\ sessions[d.upload].sha = call[p].body
      <3>1. sessions[d.upload].sha \in Content
        BY <1>1, <1>8, <2>3, SessionFields DEF PutOK, WholeInv
      <3> QED BY <1>1, <1>8, <2>3, <3>1, ArtifactAssumption DEF PutOK
    <2>5. UploadOK(d)'
      BY <1>4, <1>5, <2>3, <2>4 DEF UploadOK
    <2>6. lock' \in Thread \cup {None}
      BY <2>2 DEF WholeInv, ProcsOK
    <2> QED BY <1>6, <2>2, <2>5, <2>6, ProcStep DEF WholeInv, CallOK
  <1> QED BY <1>7, <1>8

\* A session is opened.
LEMMA InitiateWhole ==
  ASSUME WholeInv, NEW p \in Proc, NEW u \in Upload, NEW q \in Principal, NEW v \in Visibility,
         NEW claim \in Claim, InitiateUpload(p, u, q, v, claim)
  PROVE  WholeInv'
  <1>1. PICK s : s = [status |-> "pending", size |-> claim.size, chunkSize |-> claim.chunkSize,
                      sha |-> claim.sha, owner |-> q, visibility |-> v]
    OBVIOUS
  <1>2. sessions' = [sessions EXCEPT ![u] = s] /\ sessions[u] = None
        /\ UNCHANGED <<blobs, manifests, call, temp, lock>>
    BY <1>1 DEF InitiateUpload
  <1>3. s \in Session /\ SessionOK(s) /\ s.status = "pending"
    <2>1. /\ claim.size \in Nat /\ claim.sha \in Content
          /\ claim.size <= MaxArtifactBytes /\ claim.chunkSize \in 1..MaxArtifactBytes
          /\ MaxArtifactBytes \in Nat
      BY ArtifactAssumption DEF InitiateUpload
    <2> QED BY <1>1, <2>1 DEF Session, SessionOK
  <1>4. s # None
    BY <1>3, ArtifactAssumption
  <1>5. FilesOK' /\ Grow
    BY <1>2, <1>3, <1>4 DEF WholeInv, FilesOK, Grow
  <1> QED BY <1>2, <1>5, SameProcs DEF WholeInv

\* A session changes its status, to "completed" only when its artifact is there.
LEMMA StatusWhole ==
  ASSUME FilesOK, NEW u \in Upload, sessions[u] # None, NEW st \in {"completed", "canceled"},
         sessions' = [sessions EXCEPT ![u].status = st],
         st = "completed" => manifests[sessions[u].sha] # None,
         UNCHANGED <<blobs, manifests>>
  PROVE  FilesOK' /\ Grow
  <1>1. PICK s : s = [sessions[u] EXCEPT !.status = st]
    OBVIOUS
  <1>2. sessions[u] \in Session
    BY SessionFields
  <1>3. /\ s \in Session /\ s.status = st /\ s.sha = sessions[u].sha
        /\ s.owner = sessions[u].owner /\ s.size = sessions[u].size
        /\ s.chunkSize = sessions[u].chunkSize
    BY <1>1, <1>2 DEF Session
  <1>4. s # None
    BY <1>3, ArtifactAssumption
  <1>5. /\ sessions' \in [Upload -> Session \cup {None}] /\ sessions'[u] = s
        /\ \A w \in Upload : w # u => sessions'[w] = sessions[w]
    BY <1>1, <1>3 DEF FilesOK
  <1> QED BY <1>3, <1>4, <1>5 DEF FilesOK, Grow, SessionOK

LEMMA CompleteWhole ==
  ASSUME WholeInv, NEW p \in Proc, CompleteSession(p) PROVE WholeInv'
  <1>1. UploadOK(call[p]) /\ call[p].pc = "complete"
    BY CallKinds DEF CompleteSession
  <1>2. PICK u \in Upload : u = call[p].upload /\ sessions[u] # None
                            /\ manifests[sessions[u].sha] # None
    BY <1>1 DEF UploadOK, UploadCall
  <1>3. FilesOK' /\ Grow
    BY <1>2, StatusWhole DEF CompleteSession, WholeInv
  <1>4. PICK d : d = [call[p] EXCEPT !.pc = "rmtree"]
    OBVIOUS
  <1>5. d \in UploadCall /\ d.pc = "rmtree" /\ d.upload = u
    BY <1>1, <1>2, <1>4 DEF UploadOK, UploadCall
  <1>6. CallOK(d)'
    BY <1>2, <1>3, <1>5 DEF UploadOK, Grow, CallOK
  <1>7. call' = [call EXCEPT ![p] = d] /\ UNCHANGED <<temp, lock>>
    BY <1>4 DEF CompleteSession, Become
  <1>8. p \notin temp
    BY <1>1 DEF WholeInv, ProcsOK, Putting
  <1> QED BY <1>3, <1>6, <1>7, <1>8, ProcStep DEF WholeInv, ProcsOK

\* The calls that begin at the lock, and work on an upload or a manifest.
LEMMA BeginWhole ==
  ASSUME WholeInv, NEW p \in Proc, call[p].pc = "idle", Grow, FilesOK',
         NEW d, call' = [call EXCEPT ![p] = d], CallOK(d)',
         Acquire(p), temp' = temp
  PROVE  WholeInv'
  <1>1. lock' \in Thread \cup {None}
    BY LockType DEF WholeInv, ProcsOK
  <1>2. p \notin temp
    BY DEF WholeInv, ProcsOK, Putting
  <1> QED BY <1>1, <1>2, ProcStep DEF WholeInv

LEMMA CancelWhole ==
  ASSUME WholeInv, NEW p \in Proc, NEW u \in Upload, CancelUpload(p, u) PROVE WholeInv'
  <1>1. FilesOK' /\ Grow
    BY StatusWhole DEF CancelUpload, WholeInv
  <1>2. PICK d : d = [pc |-> "rmtree", upload |-> u, index |-> None]
    OBVIOUS
  <1>3. d \in UploadCall /\ d.pc = "rmtree" /\ d.upload = u
    BY <1>2 DEF UploadCall
  <1>4. CallOK(d)'
    BY <1>1, <1>3 DEF CancelUpload, UploadOK, Grow, CallOK
  <1> QED BY <1>1, <1>2, <1>4, BeginWhole DEF CancelUpload, Become

LEMMA PutChunkWhole ==
  ASSUME WholeInv, NEW p \in Proc, NEW u \in Upload, NEW i \in Index, NEW data,
         PutChunk(p, u, i, data)
  PROVE  WholeInv'
  <1>1. FilesOK' /\ Grow
    BY SameFiles DEF PutChunk, WholeInv
  <1>2. CASE UNCHANGED call
    BY <1>1, <1>2, SameProcs DEF PutChunk, WholeInv, Acquire, Become, ProcsOK
  <1>3. CASE ~UNCHANGED call
    <2>1. PICK d : d = [pc |-> "touch", upload |-> u, index |-> i]
      OBVIOUS
    <2>2. d \in UploadCall /\ d.pc = "touch" /\ d.upload = u /\ d.index = i
      BY <2>1 DEF UploadCall
    <2>3. CallOK(d)'
      BY <1>1, <2>2 DEF PutChunk, UploadOK, Grow, CallOK
    <2> QED BY <1>1, <1>3, <2>1, <2>3, BeginWhole DEF PutChunk, Become
  <1> QED BY <1>2, <1>3

LEMMA CommitWhole ==
  ASSUME WholeInv, NEW p \in Proc, NEW u \in Upload, CommitUpload(p, u) PROVE WholeInv'
  <1>1. FilesOK' /\ Grow
    BY SameFiles DEF CommitUpload, WholeInv
  <1>2. CASE UNCHANGED <<temp, lock, call>>
    BY <1>1, <1>2, SameProcs DEF WholeInv
  <1>3. CASE /\ Acquire(p)
             /\ Become(p, StreamCall(Assembled(u), sessions[u].owner, sessions[u].visibility,
                                     sessions[u].sha, u))
             /\ temp' = temp \cup {p}
    <2>1. PICK b : b = Assembled(u)
      OBVIOUS
    <2>2. PICK d : d = StreamCall(b, sessions[u].owner, sessions[u].visibility,
                                  sessions[u].sha, u)
      OBVIOUS
    <2>3. /\ sessions[u] # None
          /\ sessions[u].sha \in Content /\ sessions[u].owner \in Principal
          /\ sessions[u].visibility \in Visibility
      BY SessionFields DEF CommitUpload, WholeInv
    <2>4. /\ PutShape(d) /\ d.pc = "stream" /\ d.upload = u
          /\ d.expected = sessions[u].sha /\ d.owner = sessions[u].owner
      BY <2>2, <2>3 DEF StreamCall, PutShape, Putting
    <2>5. u # None
      BY ArtifactAssumption
    <2>6. PutOK(d)'
      BY <1>1, <2>3, <2>4, <2>5 DEF PutOK, PutShape, Grow
    <2>7. call' = [call EXCEPT ![p] = d]
      BY <1>3, <2>1, <2>2 DEF Become
    <2>8. lock' \in Thread \cup {None} /\ d.pc \in Putting
      BY <1>3, <2>4, LockType DEF WholeInv, ProcsOK, Putting
    <2> QED BY <1>1, <1>3, <2>6, <2>7, <2>8, ProcStep DEF WholeInv, CallOK
  <1> QED BY <1>2, <1>3 DEF CommitUpload

LEMMA SetVisibilityWhole ==
  ASSUME WholeInv, NEW p \in Proc, NEW q, NEW artifact \in Content, NEW v \in Visibility,
         SetVisibility(p, q, artifact, v)
  PROVE  WholeInv'
  <1>1. FilesOK' /\ Grow
    BY SameFiles DEF SetVisibility, WholeInv
  <1>2. manifests[artifact] \in Manifest
    BY DEF SetVisibility, WholeInv, FilesOK
  <1>3. PICK d : d = [pc |-> "policy", artifact |-> artifact,
                      manifest |-> [manifests[artifact] EXCEPT !.visibility = v]]
    OBVIOUS
  <1>4. d \in PolicyCall /\ d.artifact = artifact
    <2>1. [manifests[artifact] EXCEPT !.visibility = v] \in Manifest
      BY <1>2 DEF Manifest
    <2> QED BY <1>3, <2>1 DEF PolicyCall
  <1>5. CallOK(d)'
    BY <1>1, <1>4 DEF SetVisibility, PolicyOK, Grow, CallOK
  <1> QED BY <1>1, <1>3, <1>5, BeginWhole DEF SetVisibility, Become

\* The manifest that was read is written back with its visibility changed.
LEMMA WritePolicyWhole ==
  ASSUME WholeInv, NEW p \in Proc, WritePolicy(p) PROVE WholeInv'
  <1>1. PolicyOK(call[p])
    BY CallKinds DEF WritePolicy
  <1>2. /\ call[p].artifact \in Content /\ call[p].manifest \in Manifest
        /\ manifests[call[p].artifact] # None /\ call[p].manifest # None
    BY <1>1, ArtifactAssumption DEF PolicyOK, PolicyCall
  <1>3. /\ manifests' \in [Content -> Manifest \cup {None}]
        /\ \A c \in Content : manifests'[c] # None <=> manifests[c] # None
        /\ UNCHANGED <<blobs, sessions>>
    BY <1>2 DEF WritePolicy, WholeInv, FilesOK
  <1>4. FilesOK' /\ Grow
    <2>1. \A u \in Upload : sessions[u] # None => sessions[u].sha \in Content
      BY SessionFields DEF WholeInv
    <2> QED BY <1>3, <2>1 DEF WholeInv, FilesOK, Grow
  <1> QED BY <1>4, FinishStep DEF WritePolicy, WholeInv

\* Calls that end without a change of these files, and killed processes.
LEMMA EndWhole ==
  ASSUME WholeInv, NEW p \in Proc, Refuse(p) \/ TouchSession(p) \/ RemoveChunks(p) \/ Fail(p)
  PROVE  WholeInv'
  <1>1. UNCHANGED <<blobs, manifests, sessions>> /\ Finish(p)
    BY DEF Refuse, TouchSession, RemoveChunks, Fail
  <1> QED BY <1>1, SameFiles, FinishStep DEF WholeInv

LEMMA KillWhole ==
  ASSUME WholeInv, NEW procs \in SUBSET Proc, Kill(procs) PROVE WholeInv'
  <1>1. FilesOK' /\ Grow
    BY SameFiles DEF Kill, WholeInv
  <1>2. call' = [p \in Proc |-> IF p \in procs THEN NoCall ELSE call[p]]
        /\ temp' = temp \ procs /\ lock' \in Thread \cup {None}
    BY DEF Kill, WholeInv, ProcsOK
  <1>3. ASSUME NEW q \in Proc PROVE CallOK(call[q])'
    <2>1. CASE q \in procs
      BY <1>2, <2>1, NoCallOK
    <2>2. CASE q \notin procs
      <3>1. PICK c : c = call[q]
        OBVIOUS
      <3>2. CallOK(c)'
        BY <1>1, <3>1, CallKept DEF WholeInv, ProcsOK
      <3>3. call'[q] = c
        BY <1>2, <2>2, <3>1
      <3> QED BY <3>2, <3>3
    <2> QED BY <2>1, <2>2
  <1> QED BY <1>1, <1>2, <1>3 DEF WholeInv, ProcsOK

LEMMA WholeNext == WholeInv /\ [Next]_vars => WholeInv'
  <1> SUFFICES ASSUME WholeInv, [Next]_vars PROVE WholeInv'
    OBVIOUS
  <1>1. CASE UNCHANGED vars
    BY <1>1, SameFiles, SameProcs DEF vars, WholeInv
  <1>2. ASSUME NEW p \in Proc, Request(p) PROVE WholeInv'
    BY <1>2, PutStreamWhole, InitiateWhole, PutChunkWhole, CommitWhole, CancelWhole,
       SetVisibilityWhole DEF Request
  <1>3. ASSUME NEW p \in Proc, Step(p) \/ Fail(p) PROVE WholeInv'
    BY <1>3, ReadManifestWhole, PlaceBlobWhole, WriteManifestWhole, CompleteWhole,
       WritePolicyWhole, EndWhole DEF Step
  <1>4. ASSUME Kill(Thread) \/ \E p \in Cli : Kill({p}) PROVE WholeInv'
    BY <1>4, KillWhole DEF Proc
  <1> QED BY <1>1, <1>2, <1>3, <1>4 DEF Next

-----------------------------------------------------------------------------
(***************************************************************************)
(* The lock and the sessions.                                              *)
(***************************************************************************)

\* Calls that work on the session of an upload.
OnUpload(c) == Committing(c) \/ c.pc \in {"touch", "complete", "rmtree"}

\* What LockInv says of the session of one call.
StatusOK(c) ==
    /\ (Committing(c) \/ c.pc \in {"touch", "complete"} => sessions[c.upload].status = "pending")
    /\ (c.pc = "rmtree" => sessions[c.upload].status # "pending")

LEMMA StatusParts ==
  /\ LockInv <=> /\ \A p \in Thread : Held(call[p]) => lock = p
                 /\ \A p \in Cli : call[p].pc \in Putting \cup {"idle"} /\ ~Committing(call[p])
                 /\ \A p \in Proc : StatusOK(call[p])
  /\ LockInv' <=> /\ \A p \in Thread : Held(call'[p]) => lock' = p
                  /\ \A p \in Cli : call'[p].pc \in Putting \cup {"idle"} /\ ~Committing(call'[p])
                  /\ \A p \in Proc : StatusOK(call[p])'
  BY DEF LockInv, StatusOK, Held, Committing

\* Who may enter the lock knows that no other thread is in it.
LEMMA Alone ==
  ASSUME LockInv, NEW p \in Thread, Available(p)
  PROVE  /\ lock \in {None, p}
         /\ \A q \in Proc : q # p => ~OnUpload(call[q])
         /\ \A q \in Thread : q # p => ~Held(call[q])
  <1>1. lock \in {None, p}
    BY ArtifactAssumption DEF Available
  <1>2. \A q \in Thread : q # p => ~Held(call[q])
    BY <1>1, ArtifactAssumption DEF LockInv, Proc
  <1>3. \A q \in Proc : q # p => ~OnUpload(call[q])
    BY <1>2 DEF LockInv, Proc, OnUpload, Held, Putting
  <1> QED BY <1>1, <1>2, <1>3

\* The same of a thread at a step that holds the lock.
LEMMA AloneHeld ==
  ASSUME LockInv, NEW p \in Thread, Held(call[p]) PROVE Available(p)
  BY DEF LockInv, Available

\* The step of a process from its call to the call d.
LEMMA LockStep ==
  ASSUME WholeInv, LockInv, NEW p \in Proc, NEW d, call' = [call EXCEPT ![p] = d],
         p \in Thread => (Held(d) => lock' = p),
         p \in Cli => d.pc \in Putting \cup {"idle"} /\ ~Committing(d),
         \A q \in Thread : q # p /\ lock = q => lock' = q,
         StatusOK(d)',
         \A q \in Proc : q # p /\ OnUpload(call[q]) =>
             sessions'[call[q].upload].status = sessions[call[q].upload].status
  PROVE  LockInv'
  <1>1. call'[p] = d /\ \A q \in Proc : q # p => call'[q] = call[q]
    BY DEF WholeInv, ProcsOK
  <1>2. \A q \in Thread : Held(call'[q]) => lock' = q
    BY <1>1 DEF LockInv, Proc
  <1>3. \A q \in Cli : call'[q].pc \in Putting \cup {"idle"} /\ ~Committing(call'[q])
    BY <1>1 DEF LockInv, Proc
  <1>4. ASSUME NEW q \in Proc PROVE StatusOK(call[q])'
    <2>1. CASE q = p
      BY <1>1, <2>1
    <2>2. CASE q # p
      <3>1. PICK c : c = call[q]
        OBVIOUS
      <3>2. StatusOK(c) /\ call'[q] = c
        BY <1>1, <2>2, <3>1, StatusParts
      <3>3. OnUpload(c) => sessions'[c.upload].status = sessions[c.upload].status
        BY <2>2, <3>1
      <3>4. StatusOK(c)'
        BY <3>2, <3>3 DEF StatusOK, OnUpload
      <3> QED BY <3>2, <3>4
    <2> QED BY <2>1, <2>2
  <1> QED BY <1>2, <1>3, <1>4, StatusParts

\* What Acquire, Release and Finish do to the others.
LEMMA LockMoves ==
  ASSUME WholeInv, NEW p \in Proc,
         (Acquire(p) /\ Available(p)) \/ Release(p) \/ lock' = lock
  PROVE  \A q \in Thread : q # p /\ lock = q => lock' = q
  BY ArtifactAssumption DEF Acquire, Available, Release, Proc

LEMMA NoCallLock == ~Held(NoCall) /\ ~Committing(NoCall) /\ NoCall.pc = "idle" /\ StatusOK(NoCall)'
  BY DEF Held, Committing, NoCall, StatusOK, Putting

LEMMA FinishLock ==
  ASSUME WholeInv, LockInv, NEW p \in Proc, Finish(p), UNCHANGED sessions PROVE LockInv'
  <1>1. call' = [call EXCEPT ![p] = NoCall] /\ Release(p)
    BY DEF Finish
  <1> QED BY <1>1, NoCallLock, LockMoves, LockStep

LEMMA LockInit == Init => LockInv
  BY NoCallLock DEF Init, LockInv, Proc

LEMMA LockNext == WholeInv /\ LockInv /\ [Next]_vars => LockInv'
  <1> SUFFICES ASSUME WholeInv, LockInv, [Next]_vars PROVE LockInv'
    OBVIOUS
  <1>0. Thread \subseteq Proc /\ Thread \cap Cli = {} /\ Proc = Thread \cup Cli
    BY ArtifactAssumption DEF Proc
  <1>1. ASSUME UNCHANGED <<sessions, lock, call>> PROVE LockInv'
    BY <1>1 DEF LockInv
  <1>2. ASSUME NEW p \in Proc, Refuse(p) \/ TouchSession(p) \/ RemoveChunks(p) \/ WritePolicy(p)
                               \/ Fail(p)
        PROVE  LockInv'
    BY <1>2, FinishLock DEF Refuse, TouchSession, RemoveChunks, WritePolicy, Fail
  <1>3. ASSUME NEW p \in Proc, NEW q, NEW body, NEW v, NEW e, PutStream(p, q, body, v, e)
        PROVE  LockInv'
    <2>1. PICK d : d = StreamCall(body, q, v, e, None)
      OBVIOUS
    <2>2. d.pc = "stream" /\ ~Committing(d) /\ ~Held(d)
      BY <2>1 DEF StreamCall, Committing, Held
    <2>3. StatusOK(d)'
      BY <2>1, <2>2 DEF StatusOK, Committing
    <2>4. call' = [call EXCEPT ![p] = d] /\ UNCHANGED <<lock, sessions>>
      BY <1>3, <2>1 DEF PutStream, Become
    <2> QED BY <2>2, <2>3, <2>4, LockStep DEF Putting
  <1>4. ASSUME NEW p \in Thread, NEW u \in Upload, NEW q, NEW v, NEW claim,
               InitiateUpload(p, u, q, v, claim)
        PROVE  LockInv'
    <2>1. UNCHANGED <<lock, call>> /\ sessions[u] = None
          /\ \A w \in Upload : w # u => sessions'[w] = sessions[w]
      BY <1>4 DEF InitiateUpload, WholeInv, FilesOK
    <2>2. ASSUME NEW r \in Proc, OnUpload(call[r])
          PROVE  call[r].upload \in Upload /\ sessions[call[r].upload] # None
      BY <2>2, CallKinds DEF OnUpload, Committing, PutOK, PutShape, UploadOK, UploadCall
    <2>3. ASSUME NEW r \in Proc PROVE StatusOK(call[r])'
      <3>1. PICK c : c = call[r]
        OBVIOUS
      <3>2. StatusOK(c) /\ call'[r] = c
        BY <2>1, <3>1, StatusParts
      <3>3. OnUpload(c) => sessions'[c.upload] = sessions[c.upload]
        BY <2>1, <2>2, <3>1
      <3>4. StatusOK(c)'
        BY <3>2, <3>3 DEF StatusOK, OnUpload
      <3> QED BY <3>2, <3>4
    <2> QED BY <2>1, <2>3, StatusParts DEF LockInv
  <1>5. ASSUME NEW p \in Thread, NEW u, NEW i, NEW data, PutChunk(p, u, i, data) PROVE LockInv'
    <2>1. CASE UNCHANGED <<chunks, lock, call>>
      BY <1>1, <1>5, <2>1 DEF PutChunk
    <2>2. CASE /\ Acquire(p) /\ Available(p)
               /\ Become(p, [pc |-> "touch", upload |-> u, index |-> i])
      <3>1. PICK d : d = [pc |-> "touch", upload |-> u, index |-> i]
        OBVIOUS
      <3>2. /\ call' = [call EXCEPT ![p] = d] /\ UNCHANGED sessions
            /\ lock' = p /\ d.pc = "touch" /\ d.upload = u
        BY <1>5, <2>2, <3>1 DEF PutChunk, Become, Acquire
      <3>3. StatusOK(d)'
        BY <1>5, <3>2 DEF PutChunk, StatusOK, Committing, Putting
      <3> QED BY <1>0, <2>2, <3>2, <3>3, LockMoves, LockStep
    <2> QED BY <1>5, <2>1, <2>2 DEF PutChunk
  <1>6. ASSUME NEW p \in Thread, NEW u, CommitUpload(p, u) PROVE LockInv'
    <2>1. CASE UNCHANGED <<temp, lock, call>>
      BY <1>1, <1>6, <2>1 DEF CommitUpload
    <2>2. CASE /\ sessions[u].status = "pending" /\ Acquire(p) /\ Available(p)
               /\ Become(p, StreamCall(Assembled(u), sessions[u].owner, sessions[u].visibility,
                                       sessions[u].sha, u))
      <3>1. PICK d : d = StreamCall(Assembled(u), sessions[u].owner, sessions[u].visibility,
                                    sessions[u].sha, u)
        OBVIOUS
      <3>2. d.pc = "stream" /\ d.upload = u
        BY <3>1 DEF StreamCall
      <3>3. call' = [call EXCEPT ![p] = d] /\ UNCHANGED sessions /\ lock' = p
        BY <1>6, <2>2, <3>1 DEF CommitUpload, Become, Acquire
      <3>4. StatusOK(d)'
        BY <2>2, <3>2, <3>3 DEF StatusOK
      <3> QED BY <1>0, <2>2, <3>3, <3>4, LockMoves, LockStep
    <2> QED BY <1>6, <2>1, <2>2 DEF CommitUpload
  <1>7. ASSUME NEW p \in Thread, NEW u \in Upload, CancelUpload(p, u) PROVE LockInv'
    <2>1. PICK d : d = [pc |-> "rmtree", upload |-> u, index |-> None]
      OBVIOUS
    <2>2. /\ call' = [call EXCEPT ![p] = d] /\ lock' = p /\ Available(p) /\ Acquire(p)
          /\ d.pc = "rmtree" /\ d.upload = u
      BY <1>7, <2>1 DEF CancelUpload, Become, Acquire
    <2>3. sessions'[u].status = "canceled"
      BY <1>7, SessionFields DEF CancelUpload, WholeInv, FilesOK, Session
    <2>4. StatusOK(d)'
      BY <2>2, <2>3 DEF StatusOK, Committing, Putting
    <2> QED BY <1>0, <2>2, <2>4, Alone, LockMoves, LockStep
  <1>8. ASSUME NEW p \in Thread, NEW q, NEW artifact, NEW v, SetVisibility(p, q, artifact, v)
        PROVE  LockInv'
    <2>1. PICK d : d = [pc |-> "policy", artifact |-> artifact,
                        manifest |-> [manifests[artifact] EXCEPT !.visibility = v]]
      OBVIOUS
    <2>2. /\ call' = [call EXCEPT ![p] = d] /\ lock' = p /\ Available(p) /\ Acquire(p)
          /\ UNCHANGED sessions /\ d.pc = "policy"
      BY <1>8, <2>1 DEF SetVisibility, Become, Acquire
    <2>3. StatusOK(d)'
      BY <2>2 DEF StatusOK, Committing, Putting
    <2> QED BY <1>0, <2>2, <2>3, LockMoves, LockStep
  <1>9. ASSUME NEW p \in Proc, ReadManifest(p) PROVE LockInv'
    <2>1. CASE Finish(p)
      BY <1>9, <2>1, FinishLock DEF ReadManifest
    <2>2. CASE ~Finish(p)
      <3>1. PICK d : d = [call[p] EXCEPT !.pc = "blob", !.existing = manifests[call[p].body]]
        OBVIOUS
      <3>2. PutOK(call[p]) /\ call[p].pc = "stream"
        BY <1>9, CallKinds DEF ReadManifest, Putting
      <3>3. d.pc = "blob" /\ d.upload = call[p].upload
        BY <3>1, <3>2 DEF PutOK, PutShape
      <3>4. /\ call' = [call EXCEPT ![p] = d] /\ Available(p) /\ Acquire(p)
            /\ UNCHANGED sessions
        BY <1>9, <2>2, <3>1 DEF ReadManifest, Become
      <3>5. StatusOK(d)'
        BY <3>2, <3>3, <3>4, StatusParts DEF StatusOK, Committing, Putting
      <3>6. p \in Thread => lock' = p
        BY <3>4 DEF Acquire
      <3>7. p \in Cli => d.pc \in Putting /\ ~Committing(d)
        BY <3>2, <3>3 DEF LockInv, Committing, Putting
      <3> QED BY <3>4, <3>5, <3>6, <3>7, LockMoves, LockStep
    <2> QED BY <2>1, <2>2
  <1>10. ASSUME NEW p \in Proc, PlaceBlob(p) PROVE LockInv'
    <2>1. PICK d : d = [call[p] EXCEPT !.pc = "manifest"]
      OBVIOUS
    <2>2. PutOK(call[p]) /\ call[p].pc = "blob"
      BY <1>10, CallKinds DEF PlaceBlob, Putting
    <2>3. d.pc = "manifest" /\ d.upload = call[p].upload
      BY <2>1, <2>2 DEF PutOK, PutShape
    <2>4. call' = [call EXCEPT ![p] = d] /\ UNCHANGED <<sessions, lock>>
      BY <1>10, <2>1 DEF PlaceBlob, Become
    <2>5. StatusOK(d)'
      BY <2>2, <2>3, <2>4, StatusParts DEF StatusOK, Committing, Putting
    <2>6. p \in Thread => lock' = p
      BY <2>2, <2>4 DEF LockInv, Held
    <2>7. p \in Cli => d.pc \in Putting /\ ~Committing(d)
      BY <2>2, <2>3 DEF LockInv, Committing, Putting
    <2> QED BY <2>4, <2>5, <2>6, <2>7, LockStep
  <1>11. ASSUME NEW p \in Proc, WriteManifest(p) PROVE LockInv'
    <2>1. CASE Finish(p)
      BY <1>11, <2>1, FinishLock DEF WriteManifest
    <2>2. CASE ~Finish(p)
      <3>1. PICK d : d = [pc |-> "complete", upload |-> call[p].upload, index |-> None]
        OBVIOUS
      <3>2. /\ call' = [call EXCEPT ![p] = d] /\ UNCHANGED <<sessions, lock>>
            /\ d.pc = "complete" /\ d.upload = call[p].upload
            /\ call[p].pc = "manifest" /\ call[p].upload # None
        BY <1>11, <2>2, <3>1 DEF WriteManifest, Become
      <3>3. StatusOK(d)'
        BY <3>2, StatusParts DEF StatusOK, Committing, Putting
      <3>4. p \in Thread => lock' = p
        BY <3>2 DEF LockInv, Held
      <3>5. p \notin Cli
        BY <3>2 DEF LockInv, Committing, Putting
      <3> QED BY <3>2, <3>3, <3>4, <3>5, LockStep
    <2> QED BY <2>1, <2>2
  <1>12. ASSUME NEW p \in Proc, CompleteSession(p) PROVE LockInv'
    <2>1. PICK d : d = [call[p] EXCEPT !.pc = "rmtree"]
      OBVIOUS
    <2>2. UploadOK(call[p]) /\ call[p].pc = "complete"
      BY <1>12, CallKinds DEF CompleteSession
    <2>3. PICK u \in Upload : u = call[p].upload /\ sessions[u] # None
      BY <2>2 DEF UploadOK, UploadCall
    <2>4. d.pc = "rmtree" /\ d.upload = u
      BY <2>1, <2>2, <2>3 DEF UploadOK, UploadCall
    <2>5. p \in Thread /\ p \notin Cli
      BY <1>0, <2>2 DEF LockInv, Putting
    <2>6. Held(call[p]) /\ Available(p)
      BY <2>2, <2>5, AloneHeld DEF Held
    <2>7. lock = p
      BY <2>5, <2>6 DEF LockInv
    <2>8. call' = [call EXCEPT ![p] = d] /\ UNCHANGED lock
          /\ sessions' = [sessions EXCEPT ![u].status = "completed"]
      BY <1>12, <2>1, <2>3 DEF CompleteSession, Become
    <2>9. sessions'[u].status = "completed"
      BY <2>3, <2>8, SessionFields DEF WholeInv, FilesOK, Session
    <2>10. StatusOK(d)'
      BY <2>4, <2>9 DEF StatusOK, Committing, Putting
    <2> QED BY <2>5, <2>6, <2>7, <2>8, <2>10, Alone, LockStep
  <1>13. ASSUME Kill(Thread) \/ \E p \in Cli : Kill({p}) PROVE LockInv'
    <2>1. PICK procs \in SUBSET Proc : Kill(procs)
      BY <1>0, <1>13
    <2>2. call' = [p \in Proc |-> IF p \in procs THEN NoCall ELSE call[p]]
          /\ lock' = (IF lock \in procs THEN None ELSE lock) /\ UNCHANGED sessions
      BY <2>1 DEF Kill
    <2>3. ASSUME NEW q \in Proc PROVE StatusOK(call[q])'
      <3>1. PICK c : c = call[q]
        OBVIOUS
      <3>2. StatusOK(c)'
        BY <2>2, <3>1, StatusParts DEF StatusOK
      <3>3. call'[q] = c \/ call'[q] = NoCall
        BY <2>2, <3>1
      <3> QED BY <3>2, <3>3, NoCallLock
    <2>4. \A q \in Thread : Held(call'[q]) => lock' = q
      BY <1>0, <2>2, NoCallLock DEF LockInv
    <2>5. \A q \in Cli : call'[q].pc \in Putting \cup {"idle"} /\ ~Committing(call'[q])
      BY <1>0, <2>2, NoCallLock DEF LockInv
    <2> QED BY <2>3, <2>4, <2>5, StatusParts
  <1>14. CASE UNCHANGED vars
    BY <1>1, <1>14 DEF vars
  <1> QED BY <1>0, <1>2, <1>3, <1>4, <1>5, <1>6, <1>7, <1>8, <1>9, <1>10, <1>11, <1>12, <1>13,
             <1>14 DEF Next, Request, Step

-----------------------------------------------------------------------------
(***************************************************************************)
(* The layout of an upload.                                                *)
(***************************************************************************)

\* Integer division by a positive number.
LEMMA Division ==
  ASSUME NEW a \in Nat, NEW b \in Nat \ {0}
  PROVE  /\ a \div b \in Nat
         /\ (a \div b) * b <= a
         /\ a < (a \div b) * b + b
  OBVIOUS

\* The rounded-up quotient covers the size, with less than one chunk to spare.
LEMMA Rounding ==
  ASSUME NEW size \in Nat, NEW chunk \in Nat \ {0}, NEW n,
         n = (size + chunk - 1) \div chunk
  PROVE  /\ n \in Nat /\ n * chunk >= size /\ n * chunk < size + chunk
         /\ n <= size
         /\ (n = 0 <=> size = 0)
  <1>1. size + chunk - 1 \in Nat
    OBVIOUS
  <1>2. n \in Nat /\ n * chunk <= size + chunk - 1 /\ size + chunk - 1 < n * chunk + chunk
    BY <1>1, Division
  <1>3. n * chunk \in Nat
    BY <1>2
  <1>4. n * chunk >= size /\ n * chunk < size + chunk
    BY <1>2, <1>3
  <1>5. n = 0 => size = 0
    BY <1>3, <1>4
  <1>6. n <= size
    <2>1. CASE n = 0
      BY <2>1
    <2>2. CASE n # 0
      <3>1. (n - 1) * chunk = n * chunk - chunk /\ n - 1 \in Nat
        BY <1>2, <2>2
      <3>2. (n - 1) * chunk >= n - 1
        BY <1>2, <2>2
      <3> QED BY <1>2, <1>3, <1>4, <3>1, <3>2
    <2> QED BY <2>1, <2>2
  <1>7. size = 0 => n = 0
    BY <1>2, <1>6
  <1> QED BY <1>2, <1>4, <1>5, <1>6, <1>7

\* The layout of a session that initiate_upload accepted.
LEMMA LayoutOfSession ==
  ASSUME NEW s \in Session, SessionOK(s)
  PROVE  /\ ChunkCount(s) \in 0..MaxArtifactBytes
         /\ \A i \in 0..(ChunkCount(s) - 1) : ExpectedSize(s, i) \in 1..s.chunkSize
         /\ s.size = IF ChunkCount(s) = 0 THEN 0
                     ELSE (ChunkCount(s) - 1) * s.chunkSize + ExpectedSize(s, ChunkCount(s) - 1)
  <1>1. /\ s.size \in Nat /\ s.chunkSize \in Nat \ {0} /\ MaxArtifactBytes \in Nat
        /\ s.size <= MaxArtifactBytes
    BY ArtifactAssumption DEF Session, SessionOK
  <1>2. PICK n : n = ChunkCount(s)
    OBVIOUS
  <1>3. n = (s.size + s.chunkSize - 1) \div s.chunkSize
    BY <1>2 DEF ChunkCount
  <1>4. /\ n \in Nat /\ n * s.chunkSize >= s.size /\ n * s.chunkSize < s.size + s.chunkSize
        /\ n <= s.size /\ (n = 0 <=> s.size = 0)
    <2>1. PICK size \in Nat, chunk \in Nat \ {0} : size = s.size /\ chunk = s.chunkSize
      BY <1>1
    <2>2. n = (size + chunk - 1) \div chunk
      BY <1>3, <2>1
    <2>3. /\ n \in Nat /\ n * chunk >= size /\ n * chunk < size + chunk
          /\ n <= size /\ (n = 0 <=> size = 0)
      BY <2>2, Rounding, ZenonT(60)
    <2> QED BY <2>1, <2>3
  <1>5. n \in 0..MaxArtifactBytes
    BY <1>1, <1>4
  <1>6. /\ (n - 1) * s.chunkSize = n * s.chunkSize - s.chunkSize
        /\ n * s.chunkSize \in Int
    BY <1>1, <1>4
  <1>7. ASSUME NEW i \in 0..(n - 1) PROVE ExpectedSize(s, i) \in 1..s.chunkSize
    <2>1. CASE i = n - 1
      <3>1. ExpectedSize(s, i) = s.size - (n - 1) * s.chunkSize
        BY <1>2, <2>1 DEF ExpectedSize
      <3> QED BY <1>1, <1>4, <1>6, <3>1
    <2>2. CASE i # n - 1
      BY <1>1, <1>2, <2>2 DEF ExpectedSize
    <2> QED BY <2>1, <2>2
  <1>8. s.size = IF n = 0 THEN 0 ELSE (n - 1) * s.chunkSize + ExpectedSize(s, n - 1)
    <2>1. ExpectedSize(s, n - 1) = s.size - (n - 1) * s.chunkSize
      BY <1>2 DEF ExpectedSize
    <2> QED BY <1>1, <1>4, <1>6, <2>1
  <1> QED BY <1>2, <1>5, <1>7, <1>8

-----------------------------------------------------------------------------
(***************************************************************************)
(* Acknowledged chunks.                                                    *)
(***************************************************************************)
LEMMA ChunkInit == Init => ChunkInv
  BY NoCallLock DEF Init, ChunkInv, ChunksStay, NoChunks

LEMMA ChunkNext == WholeInv /\ LockInv /\ ChunkInv /\ [Next]_vars => ChunkInv'
  <1> SUFFICES ASSUME WholeInv, LockInv, ChunkInv, [Next]_vars PROVE ChunkInv'
    OBVIOUS
  <1>0. Thread \subseteq Proc /\ Thread \cap Cli = {} /\ Proc = Thread \cup Cli
    BY ArtifactAssumption DEF Proc
  <1>1. ASSUME UNCHANGED <<chunks, kept>>,
               \A q \in Proc : call'[q].pc = "touch" => call'[q] = call[q],
               \A u \in Upload : sessions[u] # None =>
                   /\ sessions'[u] # None
                   /\ (sessions'[u].status = "pending" => sessions[u].status = "pending")
        PROVE  ChunkInv'
    BY <1>1 DEF ChunkInv, ChunksStay
  <1>2. ASSUME NEW p \in Proc, NEW d, call' = [call EXCEPT ![p] = d], d.pc # "touch",
               UNCHANGED <<chunks, kept, sessions>>
        PROVE  ChunkInv'
    BY <1>1, <1>2 DEF WholeInv, ProcsOK
  <1>3. ASSUME NEW p \in Proc, Finish(p), UNCHANGED <<chunks, kept, sessions>> PROVE ChunkInv'
    BY <1>2, <1>3, NoCallLock DEF Finish
  <1>4. ASSUME UNCHANGED <<chunks, kept, sessions, call>> PROVE ChunkInv'
    BY <1>4 DEF ChunkInv, ChunksStay
  <1>5. ASSUME NEW p \in Proc, NEW q, NEW body, NEW v, NEW e, PutStream(p, q, body, v, e)
        PROVE  ChunkInv'
    <2>1. StreamCall(body, q, v, e, None).pc # "touch"
      BY DEF StreamCall
    <2> QED BY <1>2, <1>5, <2>1 DEF PutStream, Become
  <1>6. ASSUME NEW p \in Proc, Refuse(p) \/ WritePolicy(p) \/ Fail(p) PROVE ChunkInv'
    BY <1>3, <1>6 DEF Refuse, WritePolicy, Fail
  <1>7. ASSUME NEW p \in Proc, ReadManifest(p) \/ PlaceBlob(p) PROVE ChunkInv'
    <2>1. CASE Finish(p)
      BY <1>3, <1>7, <2>1 DEF ReadManifest, PlaceBlob
    <2>2. CASE ~Finish(p)
      <3>1. PutOK(call[p])
        BY <1>7, CallKinds DEF ReadManifest, PlaceBlob, Putting
      <3>2. PICK d : call' = [call EXCEPT ![p] = d] /\ d.pc \in {"blob", "manifest"}
        <4>1. [call[p] EXCEPT !.pc = "blob", !.existing = manifests[call[p].body]].pc = "blob"
          BY <3>1 DEF PutOK, PutShape
        <4>2. [call[p] EXCEPT !.pc = "manifest"].pc = "manifest"
          BY <3>1 DEF PutOK, PutShape
        <4> QED BY <1>7, <2>2, <4>1, <4>2 DEF ReadManifest, PlaceBlob, Become
      <3> QED BY <1>2, <1>7, <3>2 DEF ReadManifest, PlaceBlob
    <2> QED BY <2>1, <2>2
  <1>8. ASSUME NEW p \in Proc, WriteManifest(p) PROVE ChunkInv'
    <2>1. CASE Finish(p)
      BY <1>3, <1>8, <2>1 DEF WriteManifest
    <2>2. CASE ~Finish(p)
      BY <1>2, <1>8, <2>2 DEF WriteManifest, Become
    <2> QED BY <2>1, <2>2
  <1>9. ASSUME NEW p \in Thread, NEW q, NEW artifact, NEW v, SetVisibility(p, q, artifact, v)
        PROVE  ChunkInv'
    <2>1. PICK m : m = [manifests[artifact] EXCEPT !.visibility = v]
      OBVIOUS
    <2>2. call' = [call EXCEPT ![p] = [pc |-> "policy", artifact |-> artifact, manifest |-> m]]
      BY <1>9, <2>1 DEF SetVisibility, Become
    <2>3. [pc |-> "policy", artifact |-> artifact, manifest |-> m].pc # "touch"
      OBVIOUS
    <2>4. UNCHANGED <<chunks, kept, sessions>>
      BY <1>9 DEF SetVisibility
    <2> QED BY <1>0, <1>2, <2>2, <2>3, <2>4
  <1>10. ASSUME NEW p \in Thread, NEW u \in Upload, NEW q, NEW v, NEW claim,
                InitiateUpload(p, u, q, v, claim)
         PROVE  ChunkInv'
    <2>1. sessions[u] = None /\ UNCHANGED <<chunks, kept, call>>
          /\ \A w \in Upload : w # u => sessions'[w] = sessions[w]
      BY <1>10 DEF InitiateUpload, WholeInv, FilesOK
    <2>2. \A w \in Upload : sessions[w] # None => sessions'[w] = sessions[w]
      BY <2>1
    <2>3. \A w \in Upload : sessions[w] # None =>
             /\ sessions'[w] # None
             /\ (sessions'[w].status = "pending" => sessions[w].status = "pending")
      BY <2>2
    <2>4. \A r \in Proc : call'[r].pc = "touch" => call'[r] = call[r]
      BY <2>1
    <2> QED BY <1>1, <2>1, <2>3, <2>4
  <1>11. ASSUME NEW p \in Thread, NEW u \in Upload, CommitUpload(p, u) PROVE ChunkInv'
    <2>1. CASE UNCHANGED <<temp, lock, call>>
      BY <1>4, <1>11, <2>1 DEF CommitUpload
    <2>2. CASE Become(p, StreamCall(Assembled(u), sessions[u].owner, sessions[u].visibility,
                                    sessions[u].sha, u))
      <3>1. PICK b : b = Assembled(u)
        OBVIOUS
      <3>2. StreamCall(b, sessions[u].owner, sessions[u].visibility, sessions[u].sha, u).pc
              # "touch"
        BY DEF StreamCall
      <3> QED BY <1>0, <1>2, <1>11, <2>2, <3>1, <3>2 DEF CommitUpload, Become
    <2> QED BY <1>11, <2>1, <2>2 DEF CommitUpload
  <1>12. ASSUME NEW p \in Proc, NEW u \in Upload, NEW d, call' = [call EXCEPT ![p] = d],
                d.pc = "rmtree", sessions[u] # None, NEW st \in {"completed", "canceled"},
                sessions' = [sessions EXCEPT ![u].status = st], UNCHANGED <<chunks, kept>>
         PROVE  ChunkInv'
    <2>1. [sessions[u] EXCEPT !.status = st] \in Session
          /\ [sessions[u] EXCEPT !.status = st].status = st
      BY <1>12, SessionFields DEF WholeInv, Session
    <2>2. [sessions[u] EXCEPT !.status = st] # None
      BY <2>1, ArtifactAssumption
    <2> QED BY <1>1, <1>12, <2>1, <2>2 DEF WholeInv, FilesOK, ProcsOK
  <1>13. ASSUME NEW p \in Thread, NEW u \in Upload, CancelUpload(p, u) PROVE ChunkInv'
    BY <1>0, <1>12, <1>13 DEF CancelUpload, Become
  <1>14. ASSUME NEW p \in Proc, CompleteSession(p) PROVE ChunkInv'
    <2>1. UploadOK(call[p])
      BY <1>14, CallKinds DEF CompleteSession
    <2>2. PICK u \in Upload : u = call[p].upload /\ sessions[u] # None
      BY <2>1 DEF UploadOK, UploadCall
    <2>3. [call[p] EXCEPT !.pc = "rmtree"].pc = "rmtree"
      BY <2>1 DEF UploadOK, UploadCall
    <2> QED BY <1>12, <1>14, <2>2, <2>3 DEF CompleteSession, Become
  <1>15. ASSUME NEW p \in Thread, NEW u \in Upload, NEW i \in Index, NEW data \in Data,
                PutChunk(p, u, i, data)
         PROVE  ChunkInv'
    <2>1. CASE chunks[u][i] = None
      <3>1. /\ chunks' = [chunks EXCEPT ![u] = [chunks[u] EXCEPT ![i] = data]]
            /\ call' = [call EXCEPT ![p] = [pc |-> "touch", upload |-> u, index |-> i]]
            /\ UNCHANGED <<kept, sessions>>
        BY <1>15, <2>1, ArtifactAssumption DEF PutChunk, ChunkFree, Become
      <3>2. /\ chunks' \in [Upload -> [Index -> Data \cup {None}]] /\ chunks'[u][i] = data
            /\ \A w \in Upload, j \in Index : chunks'[w][j] = chunks[w][j] \/ (w = u /\ j = i)
        BY <3>1 DEF ChunkInv
      <3>3. ASSUME NEW q \in Proc, call'[q].pc = "touch"
            PROVE  chunks'[call'[q].upload][call'[q].index] # None
        <4>1. CASE q = p
          BY <1>0, <3>1, <3>2, <4>1, ArtifactAssumption DEF WholeInv, ProcsOK
        <4>2. CASE q # p
          <5>1. call'[q] = call[q]
            BY <3>1, <4>2 DEF WholeInv, ProcsOK
          <5>2. call[q].upload \in Upload /\ call[q].index \in Index
            BY <3>3, <5>1, CallKinds DEF UploadOK, UploadCall
          <5>3. chunks[call[q].upload][call[q].index] # None
            BY <3>3, <5>1 DEF ChunkInv
          <5>4. call[q].upload # u \/ call[q].index # i
            BY <2>1, <5>3
          <5>5. chunks'[call[q].upload][call[q].index] = chunks[call[q].upload][call[q].index]
            BY <3>2, <5>2, <5>4
          <5> QED BY <5>1, <5>3, <5>5
        <4> QED BY <4>1, <4>2
      <3>4. ChunksStay'
        <4> SUFFICES ASSUME NEW k \in kept'
                     PROVE  /\ sessions'[k.upload] # None
                            /\ (sessions'[k.upload].status = "pending" =>
                                   chunks'[k.upload][k.index] = k.data)
          BY DEF ChunksStay
        <4>1. k \in kept /\ k.upload \in Upload /\ k.index \in Index
          BY <3>1 DEF ChunkInv
        <4>2. sessions[k.upload] # None
          BY <4>1 DEF ChunkInv, ChunksStay
        <4>3. ASSUME sessions[k.upload].status = "pending"
              PROVE  chunks'[k.upload][k.index] = k.data
          <5>1. chunks[k.upload][k.index] = k.data
            BY <4>1, <4>3 DEF ChunkInv, ChunksStay
          <5>2. CASE k.upload = u /\ k.index = i
            <6>1. k.data \in Data
              BY <4>1 DEF ChunkInv
            <6> QED BY <2>1, <5>1, <5>2, <6>1, ArtifactAssumption
          <5>3. CASE ~(k.upload = u /\ k.index = i)
            BY <3>2, <4>1, <5>1, <5>3
          <5> QED BY <5>2, <5>3
        <4> QED BY <3>1, <4>2, <4>3
      <3> QED BY <3>1, <3>2, <3>3, <3>4 DEF ChunkInv
    <2>2. CASE chunks[u][i] # None
      <3>1. /\ kept' = kept \cup {[upload |-> u, index |-> i, data |-> data]}
            /\ chunks[u][i] = data /\ UNCHANGED <<chunks, call, sessions>>
            /\ sessions[u] # None
        BY <1>15, <2>2 DEF PutChunk, ChunkFree, Answer
      <3> QED BY <3>1 DEF ChunkInv, ChunksStay
    <2> QED BY <2>1, <2>2
  <1>16. ASSUME NEW p \in Proc, TouchSession(p) PROVE ChunkInv'
    <2>1. UploadOK(call[p]) /\ call[p].pc = "touch"
      BY <1>16, CallKinds DEF TouchSession
    <2>2. PICK u \in Upload, i \in Index : u = call[p].upload /\ i = call[p].index
                                           /\ sessions[u] # None
      BY <2>1 DEF UploadOK, UploadCall
    <2>3. /\ kept' = kept \cup {[upload |-> u, index |-> i, data |-> chunks[u][i]]}
          /\ UNCHANGED <<chunks, sessions>>
          /\ call' = [call EXCEPT ![p] = NoCall]
      BY <1>16, <2>2 DEF TouchSession, Answer, Finish
    <2>4. chunks[u][i] \in Data
      BY <2>1, <2>2 DEF ChunkInv
    <2>5. \A q \in Proc : call'[q].pc = "touch" => call'[q] = call[q]
      BY <2>3, NoCallLock DEF WholeInv, ProcsOK
    <2> QED BY <2>2, <2>3, <2>4, <2>5 DEF ChunkInv, ChunksStay
  <1>17. ASSUME NEW p \in Proc, RemoveChunks(p) PROVE ChunkInv'
    <2>1. UploadOK(call[p]) /\ call[p].pc = "rmtree"
      BY <1>17, CallKinds DEF RemoveChunks
    <2>2. PICK u \in Upload : u = call[p].upload
      BY <2>1 DEF UploadOK, UploadCall
    <2>3. p \in Thread /\ Held(call[p]) /\ sessions[u].status # "pending"
      BY <1>0, <2>1, <2>2 DEF LockInv, Held, Putting
    <2>4. \A q \in Proc : q # p => ~OnUpload(call[q])
      BY <2>3, Alone, AloneHeld
    <2>5. PICK left \in SUBSET Index :
            chunks' = [chunks EXCEPT ![u] = [i \in Index |-> IF i \in left THEN @[i] ELSE None]]
      BY <1>17, <2>2 DEF RemoveChunks
    <2>6. /\ chunks' \in [Upload -> [Index -> Data \cup {None}]]
          /\ \A w \in Upload : w # u => chunks'[w] = chunks[w]
      <3>1. chunks[u] \in [Index -> Data \cup {None}]
        BY DEF ChunkInv
      <3>2. [i \in Index |-> IF i \in left THEN chunks[u][i] ELSE None]
              \in [Index -> Data \cup {None}]
        BY <3>1
      <3>3. chunks' = [chunks EXCEPT ![u] =
                          [i \in Index |-> IF i \in left THEN chunks[u][i] ELSE None]]
        BY <2>5
      <3> QED BY <3>2, <3>3 DEF ChunkInv
    <2>7. UNCHANGED <<kept, sessions>> /\ call' = [call EXCEPT ![p] = NoCall]
      BY <1>17 DEF RemoveChunks, Finish
    <2>8. \A q \in Proc : call'[q].pc # "touch"
      BY <2>4, <2>7, NoCallLock DEF WholeInv, ProcsOK, OnUpload
    <2>9. ChunksStay'
      BY <2>3, <2>6, <2>7 DEF ChunkInv, ChunksStay
    <2> QED BY <2>6, <2>7, <2>8, <2>9 DEF ChunkInv
  <1>18. ASSUME Kill(Thread) \/ \E p \in Cli : Kill({p}) PROVE ChunkInv'
    <2>1. UNCHANGED <<chunks, kept, sessions>>
      BY <1>18 DEF Kill
    <2>2. \A q \in Proc : call'[q] = call[q] \/ call'[q] = NoCall
      BY <1>18 DEF Kill
    <2> QED BY <1>1, <2>1, <2>2, NoCallLock
  <1>19. CASE UNCHANGED vars
    BY <1>4, <1>19 DEF vars
  <1> QED BY <1>0, <1>5, <1>6, <1>7, <1>8, <1>9, <1>10, <1>11, <1>13, <1>14, <1>15, <1>16, <1>17,
             <1>18, <1>19 DEF Next, Request, Step

-----------------------------------------------------------------------------
(***************************************************************************)
(* Owners, when the server is the only process.                            *)
(***************************************************************************)

\* A manifest keeps its owner.
OwnersStay ==
    \A c \in Content : manifests[c] # None =>
        manifests'[c] # None /\ manifests'[c].owner = manifests[c].owner

LEMMA OwnerInit == Init => OwnerInv
  BY DEF Init, OwnerInv, OwnerOK, OwnerIsUploader, NoCall

\* What was answered stays true while manifests keep their owners.
LEMMA StoredStays ==
  ASSUME OwnerInv, OwnersStay, NEW new, new \subseteq [artifact : Content, owner : Principal],
         \A s \in new : manifests'[s.artifact] # None /\ manifests'[s.artifact].owner = s.owner,
         stored' = stored \cup new
  PROVE  OwnerIsUploader' /\ stored' \subseteq [artifact : Content, owner : Principal]
  <1>1. \A s \in stored : s.artifact \in Content
    BY DEF OwnerInv
  <1>2. stored' \subseteq [artifact : Content, owner : Principal]
    BY DEF OwnerInv
  <1>3. OwnerIsUploader'
    BY <1>1 DEF OwnerInv, OwnerIsUploader, OwnersStay
  <1> QED BY <1>2, <1>3

LEMMA StoredSame ==
  ASSUME OwnerInv, OwnersStay, UNCHANGED stored
  PROVE  OwnerIsUploader' /\ stored' \subseteq [artifact : Content, owner : Principal]
  <1>1. \A s \in stored : s.artifact \in Content
    BY DEF OwnerInv
  <1> QED BY <1>1 DEF OwnerInv, OwnerIsUploader, OwnersStay

\* A call that does not hold the lock relies on no manifest.
LEMMA NotHeldOwner == ASSUME NEW c, ~Held(c) PROVE OwnerOK(c)'
  BY DEF OwnerOK, Held

LEMMA OwnerKept ==
  ASSUME NEW c, OwnerOK(c), UNCHANGED <<manifests, sessions>> PROVE OwnerOK(c)'
  BY DEF OwnerOK

\* The step of a process from its call to the call d.
LEMMA OwnerStep ==
  ASSUME WholeInv, OwnerInv, NEW p \in Proc, NEW d, call' = [call EXCEPT ![p] = d],
         OwnerOK(d)',
         \A q \in Proc : q # p /\ Held(call[q]) => UNCHANGED <<manifests, sessions>>,
         OwnerIsUploader', stored' \subseteq [artifact : Content, owner : Principal]
  PROVE  OwnerInv'
  <1>1. call'[p] = d /\ \A q \in Proc : q # p => call'[q] = call[q]
    BY DEF WholeInv, ProcsOK
  <1>2. ASSUME NEW q \in Proc PROVE OwnerOK(call[q])'
    <2>1. CASE q = p
      BY <1>1, <2>1
    <2>2. CASE q # p
      <3>1. PICK c : c = call[q]
        OBVIOUS
      <3>2. OwnerOK(c)'
        BY <2>2, <3>1, OwnerKept, NotHeldOwner DEF OwnerInv
      <3> QED BY <1>1, <2>2, <3>1, <3>2
    <2> QED BY <2>1, <2>2
  <1> QED BY <1>2 DEF OwnerInv

\* The same for a step that answers nothing and leaves the files alone.
LEMMA OwnerQuiet ==
  ASSUME WholeInv, OwnerInv, NEW p \in Proc, NEW d, call' = [call EXCEPT ![p] = d],
         OwnerOK(d)', UNCHANGED <<manifests, sessions, stored>>
  PROVE  OwnerInv'
  <1>1. OwnersStay
    BY DEF OwnersStay
  <1>2. OwnerIsUploader' /\ stored' \subseteq [artifact : Content, owner : Principal]
    BY <1>1, StoredSame
  <1> QED BY <1>2, OwnerStep

LEMMA WriteManifestOwner ==
  ASSUME Cli = {}, WholeInv, LockInv, OwnerInv, NEW p \in Proc, WriteManifest(p)
  PROVE  OwnerInv'
  <1>0. Proc = Thread /\ p \in Thread
    BY DEF Proc
  <1>1. PICK c : c = call[p]
    OBVIOUS
  <1>2. PutOK(c) /\ c.pc = "manifest" /\ OwnerOK(c)
    BY <1>1, CallKinds DEF WriteManifest, Putting, OwnerInv
  <1>3. /\ c.body \in Content /\ c.owner \in Principal /\ c.visibility \in Visibility
        /\ c.existing = manifests[c.body]
        /\ (c.existing # None => c.existing.owner = c.owner)
    BY <1>2 DEF PutOK, PutShape, OwnerOK
  <1>4. \A q \in Proc : q # p => ~Held(call[q])
    <2>1. Held(call[p])
      BY <1>1, <1>2 DEF Held
    <2> QED BY <1>0, <2>1, Alone, AloneHeld
  <1>5. /\ manifests' = IF c.existing = None
                        THEN [manifests EXCEPT ![c.body] = [owner |-> c.owner,
                                                            visibility |-> c.visibility]]
                        ELSE manifests
        /\ UNCHANGED sessions
    BY <1>1 DEF WriteManifest
  <1>6. [owner |-> c.owner, visibility |-> c.visibility] # None
    BY <1>3, ArtifactAssumption DEF Manifest
  <1>7. manifests'[c.body] # None /\ manifests'[c.body].owner = c.owner
    BY <1>3, <1>5, <1>6 DEF WholeInv, FilesOK
  <1>8. OwnersStay
    <2>1. \A b \in Content : b # c.body => manifests'[b] = manifests[b]
      BY <1>5 DEF WholeInv, FilesOK
    <2> QED BY <1>3, <1>7, <2>1 DEF OwnersStay
  <1>9. CASE c.upload = None
    <2>1. stored' = stored \cup {[artifact |-> c.body, owner |-> c.owner]}
          /\ call' = [call EXCEPT ![p] = NoCall]
      BY <1>0, <1>1, <1>9 DEF WriteManifest, Finish
    <2>2. OwnerOK(NoCall)'
      BY NoCallLock, NotHeldOwner
    <2>3. \A s \in {[artifact |-> c.body, owner |-> c.owner]} :
             manifests'[s.artifact] # None /\ manifests'[s.artifact].owner = s.owner
      BY <1>7
    <2>4. {[artifact |-> c.body, owner |-> c.owner]} \subseteq [artifact : Content, owner : Principal]
      BY <1>3
    <2>5. OwnerIsUploader' /\ stored' \subseteq [artifact : Content, owner : Principal]
      BY <1>8, <2>1, <2>3, <2>4, StoredStays
    <2> QED BY <1>4, <2>1, <2>2, <2>5, OwnerStep
  <1>10. CASE c.upload # None
    <2>1. PICK d : d = [pc |-> "complete", upload |-> c.upload, index |-> None]
      OBVIOUS
    <2>2. call' = [call EXCEPT ![p] = d] /\ UNCHANGED stored
      BY <1>1, <1>10, <2>1 DEF WriteManifest, Become
    <2>3. /\ c.upload \in Upload /\ sessions[c.upload] # None
          /\ c.expected = sessions[c.upload].sha /\ c.owner = sessions[c.upload].owner
          /\ c.expected \in {None, c.body}
      BY <1>2, <1>10 DEF PutOK, PutShape
    <2>4. sessions[c.upload].sha \in Content
      BY <2>3, SessionFields DEF WholeInv
    <2>5. sessions[c.upload].sha = c.body
      BY <2>3, <2>4, ArtifactAssumption
    <2>6. OwnerOK(d)'
      <3>1. d.pc = "complete" /\ d.upload = c.upload
        BY <2>1
      <3> QED BY <1>5, <1>7, <2>3, <2>5, <3>1 DEF OwnerOK
    <2>7. OwnerIsUploader' /\ stored' \subseteq [artifact : Content, owner : Principal]
      BY <1>8, <2>2, StoredSame
    <2> QED BY <1>4, <2>2, <2>6, <2>7, OwnerStep
  <1> QED BY <1>9, <1>10

LEMMA WritePolicyOwner ==
  ASSUME Cli = {}, WholeInv, LockInv, OwnerInv, NEW p \in Proc, WritePolicy(p)
  PROVE  OwnerInv'
  <1>0. Proc = Thread /\ p \in Thread
    BY DEF Proc
  <1>1. PICK c : c = call[p]
    OBVIOUS
  <1>2. PolicyOK(c) /\ c.pc = "policy" /\ OwnerOK(c)
    BY <1>1, CallKinds DEF WritePolicy, OwnerInv
  <1>3. /\ c.artifact \in Content /\ c.manifest \in Manifest
        /\ c.manifest.owner = manifests[c.artifact].owner
    BY <1>2 DEF PolicyOK, PolicyCall, OwnerOK
  <1>4. \A q \in Proc : q # p => ~Held(call[q])
    <2>1. Held(call[p])
      BY <1>1, <1>2 DEF Held
    <2> QED BY <1>0, <2>1, Alone, AloneHeld
  <1>5. /\ manifests' = [manifests EXCEPT ![c.artifact] = c.manifest]
        /\ UNCHANGED stored /\ call' = [call EXCEPT ![p] = NoCall]
    BY <1>1 DEF WritePolicy, Finish
  <1>6. OwnersStay
    BY <1>3, <1>5, ArtifactAssumption DEF WholeInv, FilesOK, OwnersStay
  <1>7. OwnerOK(NoCall)'
    BY NoCallLock, NotHeldOwner
  <1>8. OwnerIsUploader' /\ stored' \subseteq [artifact : Content, owner : Principal]
    BY <1>5, <1>6, StoredSame
  <1> QED BY <1>4, <1>5, <1>7, <1>8, OwnerStep

\* An answer about a manifest that is there, by a step that changes no file.
LEMMA AnswerStays ==
  ASSUME OwnerInv, UNCHANGED manifests, NEW a \in Content, NEW o \in Principal,
         manifests[a] # None, manifests[a].owner = o,
         stored' = stored \cup {[artifact |-> a, owner |-> o]}
  PROVE  OwnerIsUploader' /\ stored' \subseteq [artifact : Content, owner : Principal]
  <1>1. OwnersStay
    BY DEF OwnersStay
  <1>2. {[artifact |-> a, owner |-> o]} \subseteq [artifact : Content, owner : Principal]
    OBVIOUS
  <1>3. ASSUME NEW s \in {[artifact |-> a, owner |-> o]}
        PROVE  manifests'[s.artifact] # None /\ manifests'[s.artifact].owner = s.owner
    <2>1. s.artifact = a /\ s.owner = o
      OBVIOUS
    <2>2. manifests'[a] # None /\ manifests'[a].owner = o
      OBVIOUS
    <2> QED BY <2>1, <2>2
  <1> QED BY <1>1, <1>2, <1>3, StoredStays, ZenonT(60)

\* An upload's step to a final status: the thread is alone in the lock.
LEMMA StatusOwner ==
  ASSUME WholeInv, OwnerInv, NEW p \in Proc, \A q \in Proc : q # p => ~Held(call[q]),
         NEW d, call' = [call EXCEPT ![p] = d], OwnerOK(d)', UNCHANGED <<manifests, stored>>
  PROVE  OwnerInv'
  <1>1. OwnersStay
    BY DEF OwnersStay
  <1>2. OwnerIsUploader' /\ stored' \subseteq [artifact : Content, owner : Principal]
    BY <1>1, StoredSame
  <1> QED BY <1>2, OwnerStep

LEMMA OwnerNext ==
  ASSUME Cli = {} PROVE WholeInv /\ LockInv /\ OwnerInv /\ [Next]_vars => OwnerInv'
  <1> SUFFICES ASSUME WholeInv, LockInv, OwnerInv, [Next]_vars PROVE OwnerInv'
    OBVIOUS
  <1>0. Proc = Thread
    BY DEF Proc
  <1>1. ASSUME NEW p \in Proc, NEW d, call' = [call EXCEPT ![p] = d], ~Held(d),
               UNCHANGED <<manifests, sessions, stored>>
        PROVE  OwnerInv'
    BY <1>1, NotHeldOwner, OwnerQuiet
  <1>2. ASSUME NEW p \in Proc, Finish(p), UNCHANGED <<manifests, sessions, stored>>
        PROVE  OwnerInv'
    BY <1>1, <1>2, NoCallLock DEF Finish
  <1>3. ASSUME UNCHANGED <<manifests, sessions, call>>, OwnerIsUploader',
               stored' \subseteq [artifact : Content, owner : Principal]
        PROVE  OwnerInv'
    BY <1>3 DEF OwnerInv, OwnerOK
  <1>4. ASSUME NEW p \in Proc, NEW q, NEW body, NEW v, NEW e, PutStream(p, q, body, v, e)
        PROVE  OwnerInv'
    <2>1. PICK d : d = StreamCall(body, q, v, e, None)
      OBVIOUS
    <2>2. ~Held(d)
      BY <2>1 DEF StreamCall, Held, Committing
    <2>3. call' = [call EXCEPT ![p] = d] /\ UNCHANGED <<manifests, sessions, stored>>
      BY <1>4, <2>1 DEF PutStream, Become
    <2> QED BY <1>1, <2>2, <2>3
  <1>5. ASSUME NEW p \in Proc, Refuse(p) \/ Fail(p) \/ TouchSession(p) PROVE OwnerInv'
    BY <1>2, <1>5 DEF Refuse, Fail, TouchSession
  <1>6. ASSUME NEW p \in Proc, ReadManifest(p) PROVE OwnerInv'
    <2>1. CASE OwnedByOther(manifests[call[p].body], call[p].owner)
      BY <1>2, <1>6, <2>1 DEF ReadManifest
    <2>2. CASE ~OwnedByOther(manifests[call[p].body], call[p].owner)
      <3>1. PICK c : c = call[p]
        OBVIOUS
      <3>2. PutOK(c)
        BY <1>6, <3>1, CallKinds DEF ReadManifest, Putting
      <3>3. PICK m : m = manifests[c.body]
        OBVIOUS
      <3>4. PICK d : d = [c EXCEPT !.pc = "blob", !.existing = m]
        OBVIOUS
      <3>5. d.pc = "blob" /\ d.existing = m /\ d.body = c.body /\ d.owner = c.owner
        BY <3>2, <3>4 DEF PutOK, PutShape
      <3>6. call' = [call EXCEPT ![p] = d] /\ UNCHANGED <<manifests, sessions, stored>>
        BY <1>6, <2>2, <3>1, <3>3, <3>4 DEF ReadManifest, Become
      <3>7. OwnerOK(d)'
        BY <2>2, <3>1, <3>3, <3>5, <3>6 DEF OwnerOK, OwnedByOther
      <3> QED BY <3>6, <3>7, OwnerQuiet
    <2> QED BY <2>1, <2>2
  <1>7. ASSUME NEW p \in Proc, PlaceBlob(p) PROVE OwnerInv'
    <2>1. PICK c : c = call[p]
      OBVIOUS
    <2>2. PutOK(c) /\ c.pc = "blob" /\ OwnerOK(c)
      BY <1>7, <2>1, CallKinds DEF PlaceBlob, Putting, OwnerInv
    <2>3. PICK d : d = [c EXCEPT !.pc = "manifest"]
      OBVIOUS
    <2>4. d.pc = "manifest" /\ d.existing = c.existing /\ d.body = c.body /\ d.owner = c.owner
      BY <2>2, <2>3 DEF PutOK, PutShape
    <2>5. call' = [call EXCEPT ![p] = d] /\ UNCHANGED <<manifests, sessions, stored>>
      BY <1>7, <2>1, <2>3 DEF PlaceBlob, Become
    <2>6. OwnerOK(d)'
      BY <2>2, <2>4, <2>5 DEF OwnerOK
    <2> QED BY <2>5, <2>6, OwnerQuiet
  <1>8. ASSUME NEW p \in Proc, NEW u \in Upload, NEW q, NEW v, NEW claim,
               InitiateUpload(p, u, q, v, claim)
        PROVE  OwnerInv'
    <2>1. /\ sessions[u] = None /\ UNCHANGED <<manifests, call, stored>>
          /\ \A w \in Upload : w # u => sessions'[w] = sessions[w]
      BY <1>8 DEF InitiateUpload, WholeInv, FilesOK
    <2>2. ASSUME NEW r \in Proc PROVE OwnerOK(call[r])'
      <3>1. PICK c : c = call[r]
        OBVIOUS
      <3>2. OwnerOK(c)
        BY <3>1 DEF OwnerInv
      <3>3. c.pc \in {"complete", "rmtree"} => sessions'[c.upload] = sessions[c.upload]
        <4>1. ASSUME c.pc \in {"complete", "rmtree"} PROVE UploadOK(c)
          BY <3>1, <4>1, CallKinds
        <4> QED BY <2>1, <4>1 DEF UploadOK, UploadCall
      <3>4. OwnerOK(c)'
        BY <2>1, <3>2, <3>3 DEF OwnerOK
      <3> QED BY <2>1, <3>1, <3>4
    <2>3. OwnerIsUploader' /\ stored' \subseteq [artifact : Content, owner : Principal]
      BY <2>1 DEF OwnerInv, OwnerIsUploader
    <2> QED BY <2>2, <2>3 DEF OwnerInv
  <1>9. ASSUME NEW p \in Proc, NEW u, NEW i, NEW data, PutChunk(p, u, i, data) PROVE OwnerInv'
    <2>0. UNCHANGED <<manifests, sessions, stored>>
      BY <1>9 DEF PutChunk
    <2>1. CASE UNCHANGED call
      BY <1>3, <2>0, <2>1 DEF OwnerInv, OwnerIsUploader
    <2>2. CASE call' = [call EXCEPT ![p] = [pc |-> "touch", upload |-> u, index |-> i]]
      <3>1. PICK d : d = [pc |-> "touch", upload |-> u, index |-> i]
        OBVIOUS
      <3>2. OwnerOK(d)'
        BY <3>1 DEF OwnerOK
      <3> QED BY <2>0, <2>2, <3>1, <3>2, OwnerQuiet
    <2> QED BY <1>9, <2>1, <2>2 DEF PutChunk, Become
  <1>10. ASSUME NEW p \in Proc, NEW u \in Upload, CommitUpload(p, u) PROVE OwnerInv'
    <2>0. UNCHANGED <<manifests, sessions>> /\ sessions[u] # None
      BY <1>10 DEF CommitUpload
    <2>1. CASE sessions[u].status = "completed"
      <3>1. /\ manifests[sessions[u].sha] # None /\ UNCHANGED call
            /\ stored' = stored \cup {[artifact |-> sessions[u].sha,
                                       owner |-> manifests[sessions[u].sha].owner]}
        BY <1>10, <2>1 DEF CommitUpload
      <3>2. sessions[u].sha \in Content
        BY <2>0, SessionFields DEF WholeInv
      <3>3. manifests[sessions[u].sha].owner \in Principal
        BY <3>1, <3>2 DEF WholeInv, FilesOK, Manifest
      <3>4. OwnerIsUploader' /\ stored' \subseteq [artifact : Content, owner : Principal]
        BY <2>0, <3>1, <3>2, <3>3, AnswerStays
      <3> QED BY <1>3, <2>0, <3>1, <3>4
    <2>2. CASE sessions[u].status # "completed"
      <3>1. PICK b : b = Assembled(u)
        OBVIOUS
      <3>2. PICK d : d = StreamCall(b, sessions[u].owner, sessions[u].visibility,
                                    sessions[u].sha, u)
        OBVIOUS
      <3>3. call' = [call EXCEPT ![p] = d] /\ UNCHANGED stored
        BY <1>10, <2>2, <3>1, <3>2 DEF CommitUpload, Become
      <3>4. OwnerOK(d)'
        BY <3>2 DEF OwnerOK, StreamCall
      <3> QED BY <2>0, <3>3, <3>4, OwnerQuiet
    <2> QED BY <2>1, <2>2
  <1>11. ASSUME NEW p \in Proc, CompleteSession(p) PROVE OwnerInv'
    <2>1. PICK c : c = call[p]
      OBVIOUS
    <2>2. UploadOK(c) /\ c.pc = "complete" /\ OwnerOK(c)
      BY <1>11, <2>1, CallKinds DEF CompleteSession, OwnerInv
    <2>3. PICK u \in Upload : u = c.upload /\ sessions[u] # None
      BY <2>2 DEF UploadOK, UploadCall
    <2>4. \A q \in Proc : q # p => ~Held(call[q])
      <3>1. Held(call[p])
        BY <2>1, <2>2 DEF Held
      <3> QED BY <1>0, <3>1, Alone, AloneHeld
    <2>5. /\ sessions' = [sessions EXCEPT ![u].status = "completed"]
          /\ UNCHANGED <<manifests, stored>>
      BY <1>11, <2>1, <2>3 DEF CompleteSession
    <2>6. sessions'[u].sha = sessions[u].sha /\ sessions'[u].owner = sessions[u].owner
      BY <2>3, <2>5, SessionFields DEF WholeInv, FilesOK, Session
    <2>7. PICK d : d = [c EXCEPT !.pc = "rmtree"]
      OBVIOUS
    <2>8. d.pc = "rmtree" /\ d.upload = u
      BY <2>2, <2>3, <2>7 DEF UploadOK, UploadCall
    <2>9. call' = [call EXCEPT ![p] = d]
      BY <1>11, <2>1, <2>7 DEF CompleteSession, Become
    <2>10. OwnerOK(d)'
      BY <2>2, <2>3, <2>5, <2>6, <2>8 DEF OwnerOK
    <2> QED BY <2>4, <2>5, <2>9, <2>10, StatusOwner
  <1>12. ASSUME NEW p \in Proc, NEW u \in Upload, CancelUpload(p, u) PROVE OwnerInv'
    <2>1. \A q \in Proc : q # p => ~Held(call[q])
      BY <1>0, <1>12, Alone DEF CancelUpload
    <2>2. PICK d : d = [pc |-> "rmtree", upload |-> u, index |-> None]
      OBVIOUS
    <2>3. call' = [call EXCEPT ![p] = d] /\ UNCHANGED <<manifests, stored>>
      BY <1>12, <2>2 DEF CancelUpload, Become
    <2>4. sessions'[u].status = "canceled"
      <3>1. sessions[u] \in Session
        BY <1>12, SessionFields DEF CancelUpload, WholeInv
      <3>2. sessions' = [sessions EXCEPT ![u].status = "canceled"]
        BY <1>12 DEF CancelUpload
      <3> QED BY <3>1, <3>2 DEF WholeInv, FilesOK, Session
    <2>5. d.pc = "rmtree" /\ d.upload = u
      BY <2>2
    <2>6. OwnerOK(d)'
      BY <2>4, <2>5 DEF OwnerOK
    <2> QED BY <2>1, <2>3, <2>6, StatusOwner
  <1>13. ASSUME NEW p \in Proc, RemoveChunks(p) PROVE OwnerInv'
    <2>1. PICK c : c = call[p]
      OBVIOUS
    <2>2. UploadOK(c) /\ c.pc = "rmtree" /\ OwnerOK(c)
      BY <1>13, <2>1, CallKinds DEF RemoveChunks, OwnerInv
    <2>3. PICK u \in Upload : u = c.upload /\ sessions[u] # None
      BY <2>2 DEF UploadOK, UploadCall
    <2>4. UNCHANGED <<manifests, sessions>> /\ Finish(p)
      BY <1>13 DEF RemoveChunks
    <2>5. CASE sessions[u].status = "completed"
      <3>1. stored' = stored \cup {[artifact |-> sessions[u].sha, owner |-> sessions[u].owner]}
        BY <1>13, <2>1, <2>3, <2>5 DEF RemoveChunks
      <3>2. sessions[u].sha \in Content /\ sessions[u].owner \in Principal
        BY <2>3, SessionFields DEF WholeInv
      <3>3. manifests[sessions[u].sha] # None
            /\ manifests[sessions[u].sha].owner = sessions[u].owner
        BY <2>2, <2>3, <2>5 DEF WholeInv, FilesOK, OwnerOK
      <3>4. OwnerIsUploader' /\ stored' \subseteq [artifact : Content, owner : Principal]
        BY <2>4, <3>1, <3>2, <3>3, AnswerStays
      <3>5. OwnerOK(NoCall)' /\ call' = [call EXCEPT ![p] = NoCall]
        BY <2>4, NoCallLock, NotHeldOwner DEF Finish
      <3> QED BY <2>4, <3>4, <3>5, OwnerStep
    <2>6. CASE sessions[u].status # "completed"
      BY <1>2, <1>13, <2>1, <2>3, <2>4, <2>6 DEF RemoveChunks
    <2> QED BY <2>5, <2>6
  <1>14. ASSUME NEW p \in Proc, NEW q, NEW artifact \in Content, NEW v \in Visibility,
                SetVisibility(p, q, artifact, v)
         PROVE  OwnerInv'
    <2>1. PICK m : m = [manifests[artifact] EXCEPT !.visibility = v]
      OBVIOUS
    <2>2. m.owner = manifests[artifact].owner
      BY <1>14, <2>1 DEF SetVisibility, WholeInv, FilesOK, Manifest
    <2>3. PICK d : d = [pc |-> "policy", artifact |-> artifact, manifest |-> m]
      OBVIOUS
    <2>4. call' = [call EXCEPT ![p] = d] /\ UNCHANGED <<manifests, sessions, stored>>
      BY <1>14, <2>1, <2>3 DEF SetVisibility, Become
    <2>5. d.pc = "policy" /\ d.artifact = artifact /\ d.manifest = m
      BY <2>3
    <2>6. OwnerOK(d)'
      BY <2>2, <2>4, <2>5 DEF OwnerOK
    <2> QED BY <2>4, <2>6, OwnerQuiet
  <1>15. ASSUME Kill(Thread) \/ \E p \in Cli : Kill({p}) PROVE OwnerInv'
    <2>1. UNCHANGED <<manifests, sessions, stored>>
      BY <1>15 DEF Kill
    <2>2. \A q \in Proc : call'[q] = call[q] \/ call'[q] = NoCall
      BY <1>15 DEF Kill
    <2>3. ASSUME NEW q \in Proc PROVE OwnerOK(call[q])'
      <3>1. PICK c : c = call[q]
        OBVIOUS
      <3>2. OwnerOK(c)' /\ OwnerOK(NoCall)'
        BY <2>1, <3>1, OwnerKept, NotHeldOwner, NoCallLock DEF OwnerInv
      <3>3. CASE call'[q] = c
        BY <3>2, <3>3
      <3>4. CASE call'[q] = NoCall
        BY <3>2, <3>4
      <3> QED BY <2>2, <3>1, <3>3, <3>4
    <2> QED BY <2>1, <2>3 DEF OwnerInv, OwnerIsUploader
  <1>16. CASE UNCHANGED vars
    BY <1>3, <1>16 DEF vars, OwnerInv, OwnerIsUploader
  <1> QED BY <1>0, <1>4, <1>5, <1>6, <1>7, <1>8, <1>9, <1>10, <1>11, <1>12, <1>13, <1>14, <1>15,
             <1>16, WriteManifestOwner, WritePolicyOwner DEF Next, Request, Step

-----------------------------------------------------------------------------
(***************************************************************************)
(* The theorems                                                            *)
(***************************************************************************)

\* The files keep their types, and every call in progress has what it read.
THEOREM ArtifactTypeCorrect == Spec => [](WholeInv /\ LockInv)
  <1>1. Init => WholeInv /\ LockInv
    BY WholeInit, LockInit
  <1>2. WholeInv /\ LockInv /\ [Next]_vars => (WholeInv /\ LockInv)'
    BY WholeNext, LockNext
  <1> QED BY <1>1, <1>2, PTL DEF Spec

\* put_stream and commit_upload: no manifest without its blob, no completed
\* upload without its artifact, no temporary file outside a put, whatever
\* failure or kill cut a call short.
THEOREM ArtifactsWhole == Spec => []StoredIsWhole
  <1>1. WholeInv => StoredIsWhole
    <2> SUFFICES ASSUME WholeInv PROVE StoredIsWhole
      OBVIOUS
    <2>1. \A c \in Content : manifests[c] # None => GetBytes(c) = c
      BY DEF WholeInv, FilesOK, GetBytes
    <2>2. ASSUME NEW u \in Upload, sessions[u] # None, sessions[u].status = "completed"
          PROVE  GetBytes(sessions[u].sha) = sessions[u].sha
      BY <2>1, <2>2, SessionFields DEF WholeInv, FilesOK
    <2> QED BY <2>1, <2>2 DEF StoredIsWhole, WholeInv, ProcsOK, Putting
  <1> QED BY <1>1, ArtifactTypeCorrect, PTL

\* initiate_upload: the chunks of every accepted upload cover its size.
THEOREM UploadLayoutFits == Spec => []LayoutFits
  <1>1. WholeInv => LayoutFits
    <2> SUFFICES ASSUME WholeInv, NEW u \in Upload, sessions[u] # None
                 PROVE  LET s == sessions[u]
                            n == ChunkCount(s) IN
                        /\ n \in 0..MaxArtifactBytes
                        /\ \A i \in 0..(n - 1) : ExpectedSize(s, i) \in 1..s.chunkSize
                        /\ s.size = IF n = 0 THEN 0
                                    ELSE (n - 1) * s.chunkSize + ExpectedSize(s, n - 1)
      BY DEF LayoutFits
    <2>1. sessions[u] \in Session /\ SessionOK(sessions[u])
      BY SessionFields DEF WholeInv, FilesOK
    <2> QED BY <2>1, LayoutOfSession
  <1> QED BY <1>1, ArtifactTypeCorrect, PTL

\* put_chunk: an acknowledged chunk is on disk as acknowledged as long as its
\* upload is pending.
THEOREM AcknowledgedChunksStay == Spec => []ChunksStay
  <1>1. Init => WholeInv /\ LockInv /\ ChunkInv
    BY WholeInit, LockInit, ChunkInit
  <1>2. WholeInv /\ LockInv /\ ChunkInv /\ [Next]_vars => (WholeInv /\ LockInv /\ ChunkInv)'
    BY WholeNext, LockNext, ChunkNext
  <1>3. ChunkInv => ChunksStay
    BY DEF ChunkInv
  <1> QED BY <1>1, <1>2, <1>3, PTL DEF Spec

\* put_stream and commit_upload, when no command-line process puts beside the
\* server: the artifact stays the property of the principal that was answered.
THEOREM UploaderOwns == ASSUME Cli = {} PROVE Spec => []OwnerIsUploader
  <1>1. Init => WholeInv /\ LockInv /\ OwnerInv
    BY WholeInit, LockInit, OwnerInit
  <1>2. WholeInv /\ LockInv /\ OwnerInv /\ [Next]_vars => (WholeInv /\ LockInv /\ OwnerInv)'
    BY WholeNext, LockNext, OwnerNext
  <1>3. OwnerInv => OwnerIsUploader
    BY DEF OwnerInv
  <1> QED BY <1>1, <1>2, <1>3, PTL DEF Spec

\* A session that a step gives a final status keeps the rest of itself.
LEMMA StatusOnly ==
  ASSUME NEW s \in Session, NEW st \in {"completed", "canceled"}
  PROVE  LET t == [s EXCEPT !.status = st] IN
         /\ t \in Session /\ t.status = st
         /\ (s.status = st => t = s)
         /\ (s.status = "pending" => [t EXCEPT !.status = "pending"] = s)
  BY DEF Session

\* commit_upload and cancel_upload: what an upload came to is final, and what
\* was claimed for it is fixed.
THEOREM UploadsFinal == Spec => UploadOutcomeFinal
  <1> DEFINE Final(u) ==
         \/ sessions'[u] = sessions[u]
         \/ /\ sessions[u].status = "pending"
            /\ sessions'[u] # None /\ sessions'[u].status \in {"completed", "canceled"}
            /\ [sessions'[u] EXCEPT !.status = "pending"] = sessions[u]
  <1>1. ASSUME WholeInv, LockInv, [Next]_vars, NEW u \in Upload, sessions[u] # None
        PROVE  Final(u)
    <2>0. sessions[u] \in Session
      BY <1>1, SessionFields DEF WholeInv
    <2>1. ASSUME NEW w \in Upload, NEW st \in {"completed", "canceled"},
                 sessions[w].status \in {"pending", st},
                 sessions' = [sessions EXCEPT ![w].status = st]
          PROVE  Final(u)
      <3>1. CASE w # u
        BY <1>1, <2>1, <3>1 DEF WholeInv, FilesOK
      <3>2. CASE w = u
        <4>1. PICK s : s = sessions[u]
          OBVIOUS
        <4>2. PICK t : t = [s EXCEPT !.status = st]
          OBVIOUS
        <4>3. sessions'[u] = t
          BY <1>1, <2>1, <3>2, <4>1, <4>2 DEF WholeInv, FilesOK
        <4>4. /\ t \in Session /\ t.status = st
              /\ (s.status = st => t = s)
              /\ (s.status = "pending" => [t EXCEPT !.status = "pending"] = s)
          BY <2>0, <4>1, <4>2, StatusOnly, ZenonT(60)
        <4>5. t # None
          BY <4>4, ArtifactAssumption
        <4> QED BY <2>1, <3>2, <4>1, <4>3, <4>4, <4>5
      <3> QED BY <3>1, <3>2
    <2>2. ASSUME NEW p \in Proc, CompleteSession(p) PROVE Final(u)
      <3>1. UploadOK(call[p]) /\ call[p].pc = "complete"
        BY <1>1, <2>2, CallKinds DEF CompleteSession
      <3>2. PICK w \in Upload : w = call[p].upload
        BY <3>1 DEF UploadOK, UploadCall
      <3>3. sessions[w].status = "pending"
        BY <1>1, <3>1, <3>2 DEF LockInv
      <3>4. sessions' = [sessions EXCEPT ![w].status = "completed"]
        BY <2>2, <3>2 DEF CompleteSession
      <3> QED BY <2>1, <3>3, <3>4
    <2>3. ASSUME NEW p \in Proc, NEW w \in Upload, CancelUpload(p, w) PROVE Final(u)
      <3>1. sessions[w] \in Session /\ sessions[w].status # "completed"
        BY <1>1, <2>3, SessionFields DEF CancelUpload, Cancelable, WholeInv
      <3>2. sessions[w].status \in {"pending", "canceled"}
        BY <3>1 DEF Session
      <3> QED BY <2>1, <2>3, <3>2 DEF CancelUpload
    <2>4. ASSUME NEW p \in Proc, NEW w \in Upload, NEW q, NEW v, NEW claim,
                 InitiateUpload(p, w, q, v, claim)
          PROVE  Final(u)
      BY <1>1, <2>4 DEF InitiateUpload, WholeInv, FilesOK
    <2>5. ASSUME UNCHANGED sessions PROVE Final(u)
      BY <2>5
    <2>6. ASSUME NEW p \in Proc, Request(p) PROVE Final(u)
      BY <2>3, <2>4, <2>5, <2>6
         DEF Request, PutStream, PutChunk, CommitUpload, SetVisibility
    <2>7. ASSUME NEW p \in Proc, Step(p) \/ Fail(p) PROVE Final(u)
      BY <2>2, <2>5, <2>7 DEF Step, Fail, Refuse, ReadManifest, PlaceBlob, WriteManifest,
         TouchSession, RemoveChunks, WritePolicy
    <2>8. ASSUME Kill(Thread) \/ \E p \in Cli : Kill({p}) PROVE Final(u)
      BY <2>5, <2>8 DEF Kill
    <2>9. CASE UNCHANGED vars
      BY <2>5, <2>9 DEF vars
    <2> QED BY <1>1, <2>6, <2>7, <2>8, <2>9 DEF Next
  <1>2. WholeInv /\ LockInv /\ [Next]_vars =>
          [\A u \in Upload : sessions[u] # None => Final(u)]_vars
    BY <1>1
  <1> QED BY <1>2, ArtifactTypeCorrect, PTL DEF Spec, UploadOutcomeFinal

-----------------------------------------------------------------------------
(***************************************************************************)
(* The chunks of an upload joined by FlattenSeq.  The library's induction  *)
(* takes a predicate; a least counterexample of a set of numbers does the  *)
(* same work.                                                              *)
(***************************************************************************)

\* The least-number principle, for a set in the place of a predicate.
LEMMA LeastNat ==
  ASSUME NEW T, T \subseteq Nat, T # {}
  PROVE  \E m \in T : \A k \in T : m <= k
  <1>1. PICK m \in T : \A k \in T : ~(<<k, m>> \in OpToRel(<, Nat))
    BY NatLessThanWellFounded, WFMin
  <1>2. ASSUME NEW k \in T PROVE m <= k
    <2>1. ~(k < m)
      BY <1>1 DEF OpToRel
    <2> QED BY <2>1
  <1> QED BY <1>2

\* What the recursive function inside FlattenSeq is.
Joins(f, s, n) == f = [i \in 1..n |-> IF i = 1 THEN s[i] ELSE f[i - 1] \o s[i]]

\* There is such a function.
LEMMA JoinsExists ==
  ASSUME NEW s, NEW n \in Nat
  PROVE  \E f : Joins(f, s, n)
  <1> DEFINE T == {k \in Nat : ~\E f : Joins(f, s, k)}
  <1> SUFFICES ASSUME T # {} PROVE FALSE
    OBVIOUS
  <1>1. PICK m \in T : \A k \in T : m <= k
    <2>1. T \subseteq Nat
      OBVIOUS
    <2> HIDE DEF T
    <2> QED BY <2>1, LeastNat
  <1>2. m \in Nat /\ ~\E f : Joins(f, s, m)
    OBVIOUS
  <1>3. m # 0
    <2> DEFINE e == [i \in 1..0 |-> IF i = 1 THEN s[i] ELSE <<>>[i - 1] \o s[i]]
    <2>1. Joins(e, s, 0)
      BY DEF Joins
    <2> QED BY <1>2, <2>1
  <1>4. PICK f : Joins(f, s, m - 1)
    <2>1. m - 1 \in Nat /\ ~(m <= m - 1)
      BY <1>2, <1>3
    <2>2. m - 1 \notin T
      BY <1>1, <2>1
    <2> QED BY <2>1, <2>2
  <1> DEFINE g == [i \in 1..m |-> IF i < m THEN f[i]
                                  ELSE IF i = 1 THEN s[i] ELSE f[i - 1] \o s[i]]
  <1>5. ASSUME NEW i \in 1..m
        PROVE  g[i] = IF i = 1 THEN s[i] ELSE g[i - 1] \o s[i]
    <2>1. CASE i = m
      BY <1>2, <2>1
    <2>2. CASE i # m
      <3>1. i \in 1..(m - 1) /\ i < m
        BY <1>2, <2>2
      <3>2. f[i] = IF i = 1 THEN s[i] ELSE f[i - 1] \o s[i]
        BY <1>4, <3>1 DEF Joins
      <3> QED BY <1>2, <3>1, <3>2
    <2> QED BY <2>1, <2>2
  <1>6. g = [i \in 1..m |-> g[i]]
    OBVIOUS
  <1> HIDE DEF g
  <1>7. Joins(g, s, m)
    BY <1>5, <1>6 DEF Joins
  <1> QED BY <1>2, <1>7

\* FlattenSeq is its last value.
LEMMA FlattenIs ==
  ASSUME NEW s \in Seq(Seq(Nat)), Len(s) # 0
  PROVE  \E f : Joins(f, s, Len(s)) /\ FlattenSeq(s) = f[Len(s)]
  <1>0. Len(s) \in Nat
    OBVIOUS
  <1>1. \E f : Joins(f, s, Len(s))
    BY <1>0, JoinsExists
  <1> DEFINE g == CHOOSE f : Joins(f, s, Len(s))
  <1>2. Joins(g, s, Len(s))
    BY <1>1
  <1>3. FlattenSeq(s) = g[Len(s)]
    BY DEF FlattenSeq, Joins
  <1> QED BY <1>2, <1>3

\* Where the pieces of a joined sequence are when all but the last have length c.
Placed(b, s, c, i) ==
    /\ b \in Seq(Nat) /\ Len(b) = (i - 1) * c + Len(s[i])
    /\ \A k \in 1..i : \A j \in 1..Len(s[k]) : b[(k - 1) * c + j] = s[k][j]

\* One more piece.
LEMMA PlacedNext ==
  ASSUME NEW c \in Nat, NEW n \in Nat, NEW s \in [1..n -> Seq(Nat)],
         \A k \in 1..(n - 1) : Len(s[k]) = c,
         NEW i \in 1..n, i # 1, NEW b, Placed(b, s, c, i - 1)
  PROVE  Placed(b \o s[i], s, c, i)
  <1>1. /\ i - 1 \in 1..(n - 1) /\ i \in Nat /\ s[i] \in Seq(Nat) /\ b \in Seq(Nat)
        /\ Len(s[i]) \in Nat /\ Len(s[i - 1]) = c
    BY DEF Placed
  <1>2. Len(b) = (i - 1) * c
    <2>1. Len(b) = (i - 1 - 1) * c + c
      BY <1>1 DEF Placed
    <2>2. (i - 1 - 1) * c + c = (i - 1) * c
      BY <1>1
    <2> QED BY <2>1, <2>2
  <1>3. /\ b \o s[i] \in Seq(Nat) /\ Len(b \o s[i]) = Len(b) + Len(s[i])
        /\ \A j \in 1..Len(b) : (b \o s[i])[j] = b[j]
        /\ \A j \in 1..Len(s[i]) : (b \o s[i])[Len(b) + j] = s[i][j]
    BY <1>1
  <1>4. ASSUME NEW k \in 1..i, NEW j \in 1..Len(s[k])
        PROVE  (b \o s[i])[(k - 1) * c + j] = s[k][j]
    <2>1. CASE k = i
      BY <1>2, <1>3, <2>1
    <2>2. CASE k # i
      <3>1. k \in 1..(i - 1) /\ k \in 1..(n - 1) /\ Len(s[k]) = c /\ j \in 1..c
        BY <1>1, <2>2
      <3>2. b[(k - 1) * c + j] = s[k][j]
        BY <3>1 DEF Placed
      <3>3. (k - 1) * c \in Nat /\ (k - 1) * c + c = k * c
        BY <3>1
      <3>4. k * c <= (i - 1) * c
        <4>1. PICK d \in Nat : i - 1 = k + d
          <5>1. i - 1 - k \in Nat
            BY <1>1, <3>1
          <5> QED BY <1>1, <3>1, <5>1
        <4>2. (k + d) * c = k * c + d * c
          BY <3>1
        <4>3. d * c \in Nat /\ k * c \in Nat
          BY <3>1
        <4> QED BY <4>1, <4>2, <4>3
      <3>5. (k - 1) * c + j \in 1..Len(b)
        <4>1. PICK x \in Nat : x = (k - 1) * c
          BY <3>3
        <4>2. x + c <= Len(b) /\ Len(b) \in Nat
          BY <1>1, <1>2, <3>3, <3>4, <4>1
        <4>3. x + j \in 1..Len(b)
          BY <3>1, <4>2
        <4> QED BY <4>1, <4>3
      <3> QED BY <1>3, <3>2, <3>5
    <2> QED BY <2>1, <2>2
  <1> QED BY <1>2, <1>3, <1>4 DEF Placed

\* Every prefix has its pieces in their places.
LEMMA JoinsPlaced ==
  ASSUME NEW c \in Nat, NEW n \in Nat, NEW s \in [1..n -> Seq(Nat)],
         \A k \in 1..(n - 1) : Len(s[k]) = c,
         NEW f, Joins(f, s, n)
  PROVE  \A i \in 1..n : Placed(f[i], s, c, i)
  <1> DEFINE T == {k \in 1..n : ~Placed(f[k], s, c, k)}
  <1> SUFFICES ASSUME T # {} PROVE FALSE
    OBVIOUS
  <1>1. PICK m \in T : \A k \in T : m <= k
    <2>1. T \subseteq Nat
      OBVIOUS
    <2> HIDE DEF T
    <2> QED BY <2>1, LeastNat
  <1>2. m \in 1..n /\ ~Placed(f[m], s, c, m)
    OBVIOUS
  <1>3. f[m] = IF m = 1 THEN s[m] ELSE f[m - 1] \o s[m]
    BY <1>2 DEF Joins
  <1>4. CASE m = 1
    <2>1. f[1] = s[1] /\ s[1] \in Seq(Nat) /\ (1 - 1) * c = 0
      BY <1>2, <1>3, <1>4
    <2>2. Len(f[1]) = (1 - 1) * c + Len(s[1])
      <3>1. Len(s[1]) \in Nat
        BY <2>1
      <3>2. 0 + Len(s[1]) = Len(s[1])
        BY <3>1
      <3> QED BY <2>1, <3>2
    <2>3. ASSUME NEW k \in 1..1, NEW j \in 1..Len(s[k]) PROVE f[1][(k - 1) * c + j] = s[k][j]
      <3>1. k = 1 /\ j \in Int
        BY <2>1
      <3>2. (k - 1) * c + j = j
        BY <2>1, <3>1
      <3> QED BY <2>1, <3>1, <3>2
    <2>4. Placed(f[1], s, c, 1)
      BY <2>1, <2>2, <2>3 DEF Placed
    <2> QED BY <1>2, <1>4, <2>4
  <1>5. CASE m # 1
    <2>1. m - 1 \in 1..n /\ ~(m <= m - 1)
      BY <1>2, <1>5
    <2>2. Placed(f[m - 1], s, c, m - 1)
      BY <1>1, <2>1
    <2>3. Placed(f[m - 1] \o s[m], s, c, m)
      BY <1>2, <1>5, <2>2, PlacedNext
    <2> QED BY <1>2, <1>3, <1>5, <2>3
  <1> QED BY <1>4, <1>5

\* The joined sequence has every piece in its place.
LEMMA FlattenPlaced ==
  ASSUME NEW c \in Nat, NEW n \in Nat \ {0}, NEW s \in [1..n -> Seq(Nat)],
         \A k \in 1..(n - 1) : Len(s[k]) = c
  PROVE  Placed(FlattenSeq(s), s, c, n)
  <1>1. s \in Seq(Seq(Nat)) /\ Len(s) = n
    OBVIOUS
  <1>2. PICK f : Joins(f, s, n) /\ FlattenSeq(s) = f[n]
    BY <1>1, FlattenIs
  <1>3. n \in Nat /\ n \in 1..n
    OBVIOUS
  <1> QED BY <1>2, <1>3, JoinsPlaced

-----------------------------------------------------------------------------
(***************************************************************************)
(* A commit streams the chunks that were acknowledged: they fit the layout *)
(* of the session, and they stay as they are until the commit is over.     *)
(***************************************************************************)

\* The bytes d stand in b after the first n.
Stands(b, n, d) == SubSeq(b, n + 1, n + Len(d)) = d

\* Every chunk file of an upload stands in b at its place.
Holds(b, u) ==
    \A i \in Index : chunks[u][i] # None => Stands(b, i * sessions[u].chunkSize, chunks[u][i])

\* A commit has what is on disk: first as the bytes it puts, then as the
\* artifact that was claimed.
BytesOK(c) ==
    /\ (Committing(c) => Holds(c.body, c.upload))
    /\ (c.pc = "complete" => Holds(sessions[c.upload].sha, c.upload))

\* Chunk files belong to a session and have the length of their place in it.
ChunksFit ==
    \A u \in Upload, i \in Index : chunks[u][i] # None =>
        /\ sessions[u] # None /\ i < ChunkCount(sessions[u])
        /\ Len(chunks[u][i]) = ExpectedSize(sessions[u], i)

\* A completed upload has what was acknowledged.
KeptPlaced ==
    \A k \in kept : sessions[k.upload].status = "completed" =>
        Stands(sessions[k.upload].sha, k.index * sessions[k.upload].chunkSize, k.data)

BytesInv == ChunksFit /\ (\A p \in Proc : BytesOK(call[p])) /\ KeptPlaced

\* A sequence that has d after its first n elements.
LEMMA StandsIf ==
  ASSUME NEW b \in Seq(Nat), NEW n \in Nat, NEW d \in Seq(Nat), n + Len(d) <= Len(b),
         \A j \in 1..Len(d) : b[n + j] = d[j]
  PROVE  Stands(b, n, d)
  <1>1. Len(d) \in Nat /\ Len(b) \in Nat
    OBVIOUS
  <1>2. PICK t : t = SubSeq(b, n + 1, n + Len(d))
    OBVIOUS
  <1>3. \A i \in (n + 1)..(n + Len(d)) : b[i] \in Nat
    BY <1>1
  <1>4. PICK l \in Nat : l = Len(d)
    BY <1>1
  <1>5. /\ t \in Seq(Nat)
        /\ Len(t) = IF n + 1 <= n + l THEN (n + l) - (n + 1) + 1 ELSE 0
        /\ \A i \in 1..((n + l) - (n + 1) + 1) : t[i] = b[(n + 1) + i - 1]
    BY <1>2, <1>3, <1>4, SubSeqProperties
  <1>6. Len(t) = Len(d) /\ (n + l) - (n + 1) + 1 = l
    BY <1>4, <1>5
  <1>7. ASSUME NEW j \in 1..Len(t) PROVE t[j] = d[j]
    <2>1. t[j] = b[(n + 1) + j - 1] /\ j \in 1..Len(d)
      BY <1>4, <1>5, <1>6
    <2>2. (n + 1) + j - 1 = n + j
      BY <1>1
    <2> QED BY <2>1, <2>2
  <1>8. t = d
    BY <1>5, <1>6, <1>7, SeqEqual
  <1> QED BY <1>2, <1>8 DEF Stands

\* The bytes that a commit streams hold every chunk file at its place.
LEMMA AssembledHolds ==
  ASSUME WholeInv, ChunkInv, ChunksFit, NEW u \in Upload, sessions[u] # None,
         \A i \in Index : i < ChunkCount(sessions[u]) => chunks[u][i] # None
  PROVE  Holds(Assembled(u), u)
  <1> SUFFICES ASSUME NEW i \in Index, chunks[u][i] # None
               PROVE  Stands(Assembled(u), i * sessions[u].chunkSize, chunks[u][i])
    BY DEF Holds
  <1>1. PICK s : s = sessions[u]
    OBVIOUS
  <1>2. s \in Session /\ SessionOK(s)
    BY <1>1, SessionFields DEF WholeInv, FilesOK
  <1>3. PICK n : n = ChunkCount(s)
    OBVIOUS
  <1>4. PICK c : c = s.chunkSize
    OBVIOUS
  <1>5. n \in 0..MaxArtifactBytes /\ MaxArtifactBytes \in Nat /\ c \in Nat
    BY <1>2, <1>3, <1>4, LayoutOfSession, ArtifactAssumption DEF Session
  <1>6. i \in Nat /\ i < n /\ n \in Nat \ {0}
    BY <1>1, <1>3, <1>5 DEF ChunksFit, Index
  <1>7. PICK t : t = [k \in 1..n |-> chunks[u][k - 1]]
    OBVIOUS
  <1>8. ASSUME NEW k \in 1..n
        PROVE  /\ t[k] = chunks[u][k - 1] /\ t[k] \in Seq(Nat)
               /\ (k # n => Len(t[k]) = c)
    <2>1. k - 1 \in Index /\ k - 1 < n
      BY <1>5, <1>6 DEF Index
    <2>2. chunks[u][k - 1] # None
      BY <1>1, <1>3, <2>1
    <2>3. chunks[u][k - 1] \in Data
      BY <2>1, <2>2 DEF ChunkInv
    <2>4. Len(chunks[u][k - 1]) = ExpectedSize(s, k - 1)
      BY <1>1, <2>1, <2>2 DEF ChunksFit
    <2>5. k # n => ExpectedSize(s, k - 1) = c
      <3>1. k # n => k - 1 # n - 1
        BY <1>6
      <3> QED BY <1>3, <1>4, <3>1 DEF ExpectedSize
    <2> QED BY <1>7, <2>3, <2>4, <2>5, ArtifactAssumption
  <1>9. t \in [1..n -> Seq(Nat)]
    BY <1>7, <1>8
  <1>10. \A k \in 1..(n - 1) : Len(t[k]) = c
    BY <1>6, <1>8
  <1>11. PICK b : b = Assembled(u)
    OBVIOUS
  <1>12. Placed(b, t, c, n)
    <2>1. b = FlattenSeq(t)
      BY <1>1, <1>3, <1>7, <1>11 DEF Assembled
    <2> QED BY <1>5, <1>6, <1>9, <1>10, <2>1, FlattenPlaced
  <1>13. i + 1 \in 1..n /\ (i + 1) - 1 = i
    BY <1>6
  <1>14. PICK d : d = t[i + 1]
    OBVIOUS
  <1>15. d = chunks[u][i] /\ d \in Seq(Nat)
    BY <1>8, <1>13, <1>14
  <1>16. b \in Seq(Nat) /\ i * c \in Nat
    BY <1>5, <1>6, <1>12 DEF Placed
  <1>17. \A j \in 1..Len(d) : b[i * c + j] = d[j]
    BY <1>12, <1>13, <1>14 DEF Placed
  <1>18. i * c + Len(d) <= Len(b)
    <2>1. Len(b) = (n - 1) * c + Len(t[n]) /\ Len(t[n]) \in Nat
      BY <1>6, <1>8, <1>12 DEF Placed
    <2>2. CASE i = n - 1
      <3>1. t[n] = d
        BY <1>6, <1>14, <2>2
      <3>2. Len(b) = i * c + Len(d)
        BY <2>1, <2>2, <3>1
      <3> QED BY <1>15, <1>16, <3>2
    <2>3. CASE i # n - 1
      <3>1. Len(d) = c
        BY <1>6, <1>8, <1>13, <1>14, <2>3
      <3>2. i * c + c = (i + 1) * c
        BY <1>5, <1>6
      <3>3. (i + 1) * c <= (n - 1) * c
        <4>1. PICK e \in Nat : n - 1 = i + 1 + e
          <5>1. n - 1 - (i + 1) \in Nat
            BY <1>6, <2>3
          <5> QED BY <1>6, <5>1
        <4>2. (i + 1 + e) * c = (i + 1) * c + e * c
          BY <1>5, <1>6
        <4>3. e * c \in Nat /\ (i + 1) * c \in Nat
          BY <1>5, <1>6
        <4> QED BY <4>1, <4>2, <4>3
      <3>4. (n - 1) * c \in Nat
        BY <1>5, <1>6
      <3>5. PICK x \in Nat : x = (n - 1) * c
        BY <3>4
      <3>6. i * c + c <= x /\ x <= Len(b)
        BY <2>1, <3>2, <3>3, <3>5
      <3>7. Len(b) \in Nat /\ i * c + c \in Nat
        BY <1>5, <1>16
      <3>8. i * c + c <= Len(b)
        BY <3>5, <3>6, <3>7
      <3> QED BY <3>1, <3>8
    <2> QED BY <2>2, <2>3
  <1>19. Stands(b, i * c, d)
    BY <1>15, <1>16, <1>17, <1>18, StandsIf
  <1> QED BY <1>1, <1>4, <1>11, <1>15, <1>19

\* Chunk files go, and a session keeps its claim.
Shrink ==
    /\ \A u \in Upload : sessions[u] # None =>
          /\ sessions'[u] # None /\ sessions'[u].sha = sessions[u].sha
          /\ sessions'[u].size = sessions[u].size
          /\ sessions'[u].chunkSize = sessions[u].chunkSize
    /\ \A u \in Upload, i \in Index : chunks'[u][i] \in {chunks[u][i], None}

LEMMA ShrinkFits == ASSUME ChunksFit, Shrink PROVE ChunksFit'
  <1> SUFFICES ASSUME NEW u \in Upload, NEW i \in Index, chunks'[u][i] # None
               PROVE  /\ sessions'[u] # None /\ i < ChunkCount(sessions'[u])
                      /\ Len(chunks'[u][i]) = ExpectedSize(sessions'[u], i)
    BY DEF ChunksFit
  <1>1. chunks'[u][i] = chunks[u][i]
    BY DEF Shrink
  <1>2. /\ sessions[u] # None /\ i < ChunkCount(sessions[u])
        /\ Len(chunks[u][i]) = ExpectedSize(sessions[u], i)
    BY <1>1 DEF ChunksFit
  <1>3. /\ sessions'[u] # None /\ ChunkCount(sessions'[u]) = ChunkCount(sessions[u])
        /\ ExpectedSize(sessions'[u], i) = ExpectedSize(sessions[u], i)
    BY <1>2 DEF Shrink, ChunkCount, ExpectedSize
  <1> QED BY <1>1, <1>2, <1>3

\* What a sequence holds of an upload it goes on holding.
LEMMA ShrinkHolds ==
  ASSUME Shrink, NEW u \in Upload, sessions[u] # None, NEW b, Holds(b, u)
  PROVE  Holds(b, u)'
  BY DEF Shrink, Holds

\* The upload that a commit is about.
LEMMA CommitUploadOf ==
  ASSUME NEW c, CallOK(c), Committing(c) \/ c.pc = "complete"
  PROVE  c.upload \in Upload /\ sessions[c.upload] # None
  BY DEF CallOK, PutOK, PutShape, UploadOK, UploadCall, PolicyOK, PolicyCall, NoCall, Committing,
         Putting

LEMMA ShrinkBytes ==
  ASSUME Shrink, NEW c, CallOK(c), BytesOK(c) PROVE BytesOK(c)'
  <1>1. CASE Committing(c) \/ c.pc = "complete"
    <2>1. PICK u \in Upload : u = c.upload /\ sessions[u] # None
      BY <1>1, CommitUploadOf
    <2>2. Committing(c) => Holds(c.body, u)'
      BY <2>1, ShrinkHolds DEF BytesOK
    <2>3. PICK sha : sha = sessions[u].sha
      OBVIOUS
    <2>4. c.pc = "complete" => Holds(sha, u)'
      BY <2>1, <2>3, ShrinkHolds DEF BytesOK
    <2>5. sessions'[u].sha = sha
      BY <2>1, <2>3 DEF Shrink
    <2> QED BY <2>1, <2>2, <2>4, <2>5 DEF BytesOK
  <1>2. CASE ~(Committing(c) \/ c.pc = "complete")
    BY <1>2 DEF BytesOK
  <1> QED BY <1>1, <1>2

\* No upload becomes completed and nothing is acknowledged.
LEMMA ShrinkKept ==
  ASSUME ChunkInv, KeptPlaced, Shrink, UNCHANGED kept,
         \A u \in Upload : sessions[u] # None /\ sessions'[u].status = "completed" =>
             sessions[u].status = "completed"
  PROVE  KeptPlaced'
  <1> SUFFICES ASSUME NEW k \in kept, sessions'[k.upload].status = "completed"
               PROVE  Stands(sessions'[k.upload].sha,
                             k.index * sessions'[k.upload].chunkSize, k.data)
    BY DEF KeptPlaced
  <1>1. PICK u \in Upload : u = k.upload /\ sessions[u] # None
    BY DEF ChunkInv, ChunksStay
  <1>2. Stands(sessions[u].sha, k.index * sessions[u].chunkSize, k.data)
    BY <1>1 DEF KeptPlaced
  <1>3. sessions'[u].sha = sessions[u].sha /\ sessions'[u].chunkSize = sessions[u].chunkSize
    BY <1>1 DEF Shrink
  <1> QED BY <1>1, <1>2, <1>3

\* The step of a process from its call to the call d.
LEMMA BytesStep ==
  ASSUME WholeInv, ChunkInv, BytesInv, Shrink, UNCHANGED kept,
         \A u \in Upload : sessions[u] # None /\ sessions'[u].status = "completed" =>
             sessions[u].status = "completed",
         NEW p \in Proc, NEW d, call' = [call EXCEPT ![p] = d], BytesOK(d)'
  PROVE  BytesInv'
  <1>1. call'[p] = d /\ \A q \in Proc : q # p => call'[q] = call[q]
    BY DEF WholeInv, ProcsOK
  <1>2. ASSUME NEW q \in Proc PROVE BytesOK(call[q])'
    <2>1. CASE q = p
      BY <1>1, <2>1
    <2>2. CASE q # p
      <3>1. PICK c : c = call[q]
        OBVIOUS
      <3>2. BytesOK(c)'
        BY <3>1, ShrinkBytes DEF WholeInv, ProcsOK, BytesInv
      <3> QED BY <1>1, <2>2, <3>1, <3>2
    <2> QED BY <2>1, <2>2
  <1> QED BY <1>2, ShrinkFits, ShrinkKept DEF BytesInv

\* Calls that are not part of a commit.
LEMMA OtherBytes ==
  ASSUME NEW d, ~Committing(d), d.pc # "complete" PROVE BytesOK(d)'
  BY DEF BytesOK, Committing

LEMMA SameShrink ==
  ASSUME UNCHANGED <<sessions, chunks>>
  PROVE  /\ Shrink
         /\ \A u \in Upload : sessions[u] # None /\ sessions'[u].status = "completed" =>
               sessions[u].status = "completed"
  BY DEF Shrink

LEMMA FinishBytes ==
  ASSUME WholeInv, ChunkInv, BytesInv, NEW p \in Proc, Finish(p),
         UNCHANGED <<sessions, chunks, kept>>
  PROVE  BytesInv'
  <1>1. BytesOK(NoCall)' /\ call' = [call EXCEPT ![p] = NoCall]
    BY OtherBytes, NoCallLock DEF Finish
  <1> QED BY <1>1, SameShrink, BytesStep

LEMMA BytesInit == Init => BytesInv
  <1> SUFFICES ASSUME Init PROVE BytesInv
    OBVIOUS
  <1>1. ChunksFit /\ KeptPlaced
    BY DEF Init, ChunksFit, KeptPlaced, NoChunks
  <1>2. ASSUME NEW p \in Proc PROVE BytesOK(call[p])
    BY NoCallLock DEF Init, BytesOK
  <1> QED BY <1>1, <1>2 DEF BytesInv

\* A put or a commit goes from one of its steps to the next.
LEMMA PuttingBytes ==
  ASSUME WholeInv, ChunkInv, BytesInv, NEW p \in Proc, call[p].pc \in Putting,
         NEW d, call' = [call EXCEPT ![p] = d],
         d.pc \in Putting, d.upload = call[p].upload, d.body = call[p].body,
         UNCHANGED <<sessions, chunks, kept>>
  PROVE  BytesInv'
  <1>1. PICK c : c = call[p]
    OBVIOUS
  <1>2. BytesOK(c)'
    BY <1>1, SameShrink, ShrinkBytes DEF WholeInv, ProcsOK, BytesInv
  <1>3. BytesOK(d)'
    BY <1>1, <1>2 DEF BytesOK, Committing, Putting
  <1> QED BY <1>3, SameShrink, BytesStep

\* The manifest is written: what the commit streamed is what was claimed.
LEMMA WriteManifestBytes ==
  ASSUME WholeInv, ChunkInv, BytesInv, NEW p \in Proc, WriteManifest(p) PROVE BytesInv'
  <1>1. UNCHANGED <<sessions, chunks, kept>> /\ call[p].pc = "manifest"
    BY DEF WriteManifest
  <1>2. CASE call[p].upload = None
    BY <1>1, <1>2, FinishBytes DEF WriteManifest
  <1>3. CASE call[p].upload # None
    <2>1. PICK c : c = call[p]
      OBVIOUS
    <2>2. PutOK(c) /\ Committing(c) /\ BytesOK(c)
      BY <1>1, <1>3, <2>1, CallKinds DEF Putting, Committing, BytesInv
    <2>3. PICK u \in Upload : u = c.upload /\ sessions[u] # None
      BY <2>2 DEF PutOK, PutShape, Committing
    <2>4. sessions[u].sha = c.body
      <3>1. sessions[u].sha \in Content /\ None \notin Content
        BY <2>3, SessionFields, ArtifactAssumption DEF WholeInv
      <3> QED BY <1>1, <1>3, <2>1, <2>2, <2>3, <3>1 DEF PutOK
    <2>5. Holds(c.body, u)'
      BY <1>1, <2>2, <2>3 DEF BytesOK, Holds
    <2>6. PICK d : d = [pc |-> "complete", upload |-> u, index |-> None]
      OBVIOUS
    <2>7. d.pc = "complete" /\ d.upload = u
      BY <2>6
    <2>8. call' = [call EXCEPT ![p] = d]
      BY <1>3, <2>1, <2>3, <2>6 DEF WriteManifest, Become
    <2>9. BytesOK(d)'
      BY <1>1, <2>4, <2>5, <2>7 DEF BytesOK, Committing, Putting
    <2> QED BY <1>1, <2>8, <2>9, SameShrink, BytesStep
  <1> QED BY <1>2, <1>3

\* The upload is completed: each acknowledged chunk is on disk, and so in the
\* artifact.
LEMMA CompleteBytes ==
  ASSUME WholeInv, LockInv, ChunkInv, BytesInv, NEW p \in Proc, CompleteSession(p)
  PROVE  BytesInv'
  <1>1. PICK c : c = call[p]
    OBVIOUS
  <1>2. UploadOK(c) /\ c.pc = "complete" /\ BytesOK(c)
    BY <1>1, CallKinds DEF CompleteSession, BytesInv
  <1>3. PICK u \in Upload : u = c.upload /\ sessions[u] # None
    BY <1>2 DEF UploadOK, UploadCall
  <1>4. sessions[u].status = "pending"
    BY <1>1, <1>2, <1>3 DEF LockInv
  <1>5. UNCHANGED <<chunks, kept>> /\ sessions' = [sessions EXCEPT ![u].status = "completed"]
    BY <1>1, <1>3 DEF CompleteSession
  <1>6. /\ sessions'[u] # None /\ sessions'[u].sha = sessions[u].sha
        /\ sessions'[u].size = sessions[u].size
        /\ sessions'[u].chunkSize = sessions[u].chunkSize
        /\ \A w \in Upload : w # u => sessions'[w] = sessions[w]
    <2>1. PICK s : s = [sessions[u] EXCEPT !.status = "completed"]
      OBVIOUS
    <2>2. /\ s \in Session /\ s.sha = sessions[u].sha /\ s.size = sessions[u].size
          /\ s.chunkSize = sessions[u].chunkSize
      BY <1>3, <2>1, SessionFields DEF WholeInv, Session
    <2>3. s # None
      BY <2>2, ArtifactAssumption
    <2>4. sessions'[u] = s /\ \A w \in Upload : w # u => sessions'[w] = sessions[w]
      BY <1>5, <2>1 DEF WholeInv, FilesOK
    <2> QED BY <2>2, <2>3, <2>4
  <1>7. Shrink
    BY <1>5, <1>6 DEF Shrink
  <1>8. PICK d : d = [c EXCEPT !.pc = "rmtree"]
    OBVIOUS
  <1>9. BytesOK(d)'
    <2>1. d.pc = "rmtree"
      BY <1>2, <1>8 DEF UploadOK, UploadCall
    <2> QED BY <2>1, OtherBytes DEF Committing, Putting
  <1>10. call'[p] = d /\ \A q \in Proc : q # p => call'[q] = call[q]
    BY <1>1, <1>8 DEF CompleteSession, Become, WholeInv, ProcsOK
  <1>11. ASSUME NEW q \in Proc PROVE BytesOK(call[q])'
    <2>1. CASE q = p
      BY <1>9, <1>10, <2>1
    <2>2. CASE q # p
      <3>1. PICK e : e = call[q]
        OBVIOUS
      <3>2. BytesOK(e)'
        BY <1>7, <3>1, ShrinkBytes DEF WholeInv, ProcsOK, BytesInv
      <3> QED BY <1>10, <2>2, <3>1, <3>2
    <2> QED BY <2>1, <2>2
  <1>12. KeptPlaced'
    <2> SUFFICES ASSUME NEW k \in kept, sessions'[k.upload].status = "completed"
                 PROVE  Stands(sessions'[k.upload].sha,
                               k.index * sessions'[k.upload].chunkSize, k.data)
      BY <1>5 DEF KeptPlaced
    <2>1. k.upload \in Upload /\ k.index \in Index /\ k.data \in Data
      BY DEF ChunkInv
    <2>2. CASE k.upload # u
      BY <1>6, <2>1, <2>2 DEF BytesInv, KeptPlaced
    <2>3. CASE k.upload = u
      <3>1. chunks[u][k.index] = k.data /\ k.data # None
        BY <1>4, <2>1, <2>3, ArtifactAssumption DEF ChunkInv, ChunksStay
      <3>2. Stands(sessions[u].sha, k.index * sessions[u].chunkSize, k.data)
        BY <1>2, <1>3, <2>1, <3>1 DEF BytesOK, Holds
      <3> QED BY <1>6, <2>3, <3>2
    <2> QED BY <2>2, <2>3
  <1> QED BY <1>7, <1>11, <1>12, ShrinkFits DEF BytesInv

\* An upload that is pending has nothing to show yet: one more acknowledgement.
LEMMA AnswerPlaced ==
  ASSUME KeptPlaced, NEW u, NEW i, NEW data, Answer(u, i, data), sessions[u].status # "completed",
         UNCHANGED sessions
  PROVE  KeptPlaced'
  <1> SUFFICES ASSUME NEW k \in kept', sessions[k.upload].status = "completed"
               PROVE  Stands(sessions[k.upload].sha,
                             k.index * sessions[k.upload].chunkSize, k.data)
    BY DEF KeptPlaced
  <1>1. PICK e : e = [upload |-> u, index |-> i, data |-> data]
    OBVIOUS
  <1>2. e.upload = u /\ (k \in kept \/ k = e)
    BY <1>1 DEF Answer
  <1>3. k \in kept
    BY <1>2
  <1> QED BY <1>3 DEF KeptPlaced

\* A chunk is stored or found, while no commit is in progress.
LEMMA PutChunkBytes ==
  ASSUME WholeInv, LockInv, ChunkInv, BytesInv, NEW p \in Thread, NEW u \in Upload,
         NEW i \in Index, NEW data \in Data, PutChunk(p, u, i, data)
  PROVE  BytesInv'
  <1>0. p \in Proc /\ sessions[u] # None /\ sessions[u].status = "pending" /\ UNCHANGED sessions
        /\ i < ChunkCount(sessions[u]) /\ Len(data) = ExpectedSize(sessions[u], i)
        /\ Available(p)
    BY DEF PutChunk, Proc
  <1>1. CASE ChunkFree(u, i)
    <2>1. /\ chunks' = [chunks EXCEPT ![u] = [chunks[u] EXCEPT ![i] = data]] /\ UNCHANGED kept
          /\ call' = [call EXCEPT ![p] = [pc |-> "touch", upload |-> u, index |-> i]]
      BY <1>1 DEF PutChunk, Become
    <2>2. /\ chunks'[u][i] = data
          /\ \A w \in Upload, j \in Index : (w # u \/ j # i) => chunks'[w][j] = chunks[w][j]
      BY <2>1 DEF ChunkInv
    <2>3. ChunksFit'
      <3> SUFFICES ASSUME NEW w \in Upload, NEW j \in Index, chunks'[w][j] # None
                   PROVE  /\ sessions[w] # None /\ j < ChunkCount(sessions[w])
                          /\ Len(chunks'[w][j]) = ExpectedSize(sessions[w], j)
        BY <1>0 DEF ChunksFit
      <3>1. CASE w = u /\ j = i
        BY <1>0, <2>2, <3>1
      <3>2. CASE w # u \/ j # i
        BY <2>2, <3>2 DEF BytesInv, ChunksFit
      <3> QED BY <3>1, <3>2
    <2>4. ASSUME NEW q \in Proc PROVE BytesOK(call[q])'
      <3>1. PICK d : d = call'[q]
        OBVIOUS
      <3>2. ~Committing(d) /\ d.pc # "complete"
        <4>1. CASE q = p
          <5>1. d = [pc |-> "touch", upload |-> u, index |-> i]
            BY <1>0, <2>1, <3>1, <4>1 DEF WholeInv, ProcsOK
          <5>2. d.pc = "touch"
            BY <5>1
          <5> QED BY <5>2 DEF Committing, Putting
        <4>2. CASE q # p
          <5>1. d = call[q]
            BY <2>1, <3>1, <4>2 DEF WholeInv, ProcsOK
          <5> QED BY <1>0, <4>2, <5>1, Alone DEF OnUpload
        <4> QED BY <4>1, <4>2
      <3>3. BytesOK(d)'
        BY <3>2, OtherBytes
      <3> QED BY <3>1, <3>3
    <2>5. KeptPlaced'
      BY <1>0, <2>1 DEF BytesInv, KeptPlaced
    <2> QED BY <2>3, <2>4, <2>5 DEF BytesInv
  <1>2. CASE ~ChunkFree(u, i)
    <2>1. Answer(u, i, data) /\ UNCHANGED <<chunks, call>>
      BY <1>2 DEF PutChunk
    <2>2. KeptPlaced'
      BY <1>0, <2>1, AnswerPlaced DEF BytesInv
    <2>3. ChunksFit' /\ \A q \in Proc : BytesOK(call[q])'
      BY <1>0, <2>1 DEF BytesInv, ChunksFit, BytesOK, Holds
    <2> QED BY <2>2, <2>3 DEF BytesInv
  <1> QED BY <1>1, <1>2

LEMMA BytesNext == WholeInv /\ LockInv /\ ChunkInv /\ BytesInv /\ [Next]_vars => BytesInv'
  <1> SUFFICES ASSUME WholeInv, LockInv, ChunkInv, BytesInv, [Next]_vars PROVE BytesInv'
    OBVIOUS
  <1>0. Thread \subseteq Proc /\ Proc = Thread \cup Cli
    BY DEF Proc
  <1>1. ASSUME UNCHANGED <<sessions, chunks, kept, call>> PROVE BytesInv'
    <2>1. ASSUME NEW q \in Proc PROVE BytesOK(call[q])'
      BY <1>1 DEF BytesInv, BytesOK, Holds
    <2> QED BY <1>1, <2>1 DEF BytesInv, ChunksFit, KeptPlaced
  <1>2. ASSUME NEW p \in Proc, Refuse(p) \/ WritePolicy(p) \/ Fail(p) PROVE BytesInv'
    BY <1>2, FinishBytes DEF Refuse, WritePolicy, Fail
  <1>3. ASSUME NEW p \in Proc, NEW q, NEW body, NEW v, NEW e, PutStream(p, q, body, v, e)
        PROVE  BytesInv'
    <2>1. PICK d : d = StreamCall(body, q, v, e, None)
      OBVIOUS
    <2>2. BytesOK(d)'
      <3>1. ~Committing(d) /\ d.pc # "complete"
        BY <2>1 DEF StreamCall, Committing
      <3> QED BY <3>1, OtherBytes
    <2>3. call' = [call EXCEPT ![p] = d] /\ UNCHANGED <<sessions, chunks, kept>>
      BY <1>3, <2>1 DEF PutStream, Become
    <2> QED BY <2>2, <2>3, SameShrink, BytesStep
  <1>4. ASSUME NEW p \in Proc, ReadManifest(p) PROVE BytesInv'
    <2>1. CASE Finish(p)
      BY <1>4, <2>1, FinishBytes DEF ReadManifest
    <2>2. CASE ~Finish(p)
      <3>1. PICK d : d = [call[p] EXCEPT !.pc = "blob", !.existing = manifests[call[p].body]]
        OBVIOUS
      <3>2. PutOK(call[p]) /\ call[p].pc \in Putting
        BY <1>4, CallKinds DEF ReadManifest, Putting
      <3>3. d.pc \in Putting /\ d.upload = call[p].upload /\ d.body = call[p].body
        BY <3>1, <3>2 DEF PutOK, PutShape, Putting
      <3>4. call' = [call EXCEPT ![p] = d] /\ UNCHANGED <<sessions, chunks, kept>>
        BY <1>4, <2>2, <3>1 DEF ReadManifest, Become
      <3> QED BY <3>2, <3>3, <3>4, PuttingBytes
    <2> QED BY <2>1, <2>2
  <1>5. ASSUME NEW p \in Proc, PlaceBlob(p) PROVE BytesInv'
    <2>1. PICK d : d = [call[p] EXCEPT !.pc = "manifest"]
      OBVIOUS
    <2>2. PutOK(call[p]) /\ call[p].pc \in Putting
      BY <1>5, CallKinds DEF PlaceBlob, Putting
    <2>3. d.pc \in Putting /\ d.upload = call[p].upload /\ d.body = call[p].body
      BY <2>1, <2>2 DEF PutOK, PutShape, Putting
    <2>4. call' = [call EXCEPT ![p] = d] /\ UNCHANGED <<sessions, chunks, kept>>
      BY <1>5, <2>1 DEF PlaceBlob, Become
    <2> QED BY <2>2, <2>3, <2>4, PuttingBytes
  <1>6. ASSUME NEW p \in Proc, NEW u \in Upload, NEW q, NEW v, NEW claim,
               InitiateUpload(p, u, q, v, claim)
        PROVE  BytesInv'
    <2>1. /\ sessions[u] = None /\ UNCHANGED <<chunks, kept, call>>
          /\ \A w \in Upload : sessions[w] # None => sessions'[w] = sessions[w]
      BY <1>6 DEF InitiateUpload, WholeInv, FilesOK
    <2>2. Shrink
      BY <2>1 DEF Shrink
    <2>3. KeptPlaced'
      BY <2>1, <2>2, ShrinkKept DEF BytesInv
    <2>4. ASSUME NEW r \in Proc PROVE BytesOK(call[r])'
      <3>1. PICK c : c = call[r]
        OBVIOUS
      <3>2. BytesOK(c)'
        BY <2>2, <3>1, ShrinkBytes DEF WholeInv, ProcsOK, BytesInv
      <3> QED BY <2>1, <3>1, <3>2
    <2> QED BY <2>2, <2>3, <2>4, ShrinkFits DEF BytesInv
  <1>7. ASSUME NEW p \in Proc, NEW u \in Upload, CommitUpload(p, u) PROVE BytesInv'
    <2>0. UNCHANGED <<sessions, chunks, kept>> /\ sessions[u] # None
      BY <1>7 DEF CommitUpload
    <2>1. CASE UNCHANGED call
      BY <1>1, <2>0, <2>1
    <2>2. CASE ~UNCHANGED call
      <3>1. PICK b : b = Assembled(u)
        OBVIOUS
      <3>2. PICK d : d = StreamCall(b, sessions[u].owner, sessions[u].visibility,
                                    sessions[u].sha, u)
        OBVIOUS
      <3>3. call' = [call EXCEPT ![p] = d]
            /\ \A i \in Index : i < ChunkCount(sessions[u]) => chunks[u][i] # None
        BY <1>7, <2>2, <3>1, <3>2 DEF CommitUpload, Become
      <3>4. d.pc = "stream" /\ d.body = b /\ d.upload = u
        BY <3>2 DEF StreamCall
      <3>5. Holds(b, u)'
        <4>1. Holds(b, u)
          BY <2>0, <3>1, <3>3, AssembledHolds DEF BytesInv
        <4> QED BY <2>0, <4>1 DEF Holds
      <3>6. BytesOK(d)'
        BY <3>4, <3>5 DEF BytesOK
      <3> QED BY <2>0, <3>3, <3>6, SameShrink, BytesStep
    <2> QED BY <2>1, <2>2
  <1>8. ASSUME NEW p \in Proc, NEW u \in Upload, CancelUpload(p, u) PROVE BytesInv'
    <2>1. PICK d : d = [pc |-> "rmtree", upload |-> u, index |-> None]
      OBVIOUS
    <2>2. BytesOK(d)'
      <3>1. d.pc = "rmtree"
        BY <2>1
      <3> QED BY <3>1, OtherBytes DEF Committing, Putting
    <2>3. /\ call' = [call EXCEPT ![p] = d] /\ UNCHANGED <<chunks, kept>> /\ sessions[u] # None
          /\ sessions' = [sessions EXCEPT ![u].status = "canceled"]
      BY <1>8, <2>1 DEF CancelUpload, Become
    <2>4. PICK s : s = [sessions[u] EXCEPT !.status = "canceled"]
      OBVIOUS
    <2>5. /\ s \in Session /\ s.sha = sessions[u].sha /\ s.size = sessions[u].size
          /\ s.chunkSize = sessions[u].chunkSize /\ s.status = "canceled"
      BY <2>3, <2>4, SessionFields DEF WholeInv, Session
    <2>6. s # None
      BY <2>5, ArtifactAssumption
    <2>7. sessions'[u] = s /\ \A w \in Upload : w # u => sessions'[w] = sessions[w]
      BY <2>3, <2>4 DEF WholeInv, FilesOK
    <2>8. Shrink
      BY <2>3, <2>5, <2>6, <2>7 DEF Shrink
    <2>9. \A w \in Upload : sessions[w] # None /\ sessions'[w].status = "completed" =>
             sessions[w].status = "completed"
      BY <2>5, <2>7
    <2> QED BY <2>2, <2>3, <2>8, <2>9, BytesStep
  <1>9. ASSUME NEW p \in Proc, RemoveChunks(p) PROVE BytesInv'
    <2>1. UploadOK(call[p])
      BY <1>9, CallKinds DEF RemoveChunks
    <2>2. PICK u \in Upload : u = call[p].upload
      BY <2>1 DEF UploadOK, UploadCall
    <2>3. PICK left \in SUBSET Index :
             chunks' = [chunks EXCEPT ![u] = [i \in Index |-> IF i \in left THEN @[i] ELSE None]]
      BY <1>9, <2>2 DEF RemoveChunks
    <2>4. UNCHANGED <<sessions, kept>> /\ Finish(p)
      BY <1>9 DEF RemoveChunks
    <2>5. \A w \in Upload, i \in Index : chunks'[w][i] \in {chunks[w][i], None}
      BY <2>3 DEF ChunkInv
    <2>6. Shrink
      BY <2>4, <2>5 DEF Shrink
    <2>7. BytesOK(NoCall)' /\ call' = [call EXCEPT ![p] = NoCall]
      BY <2>4, OtherBytes, NoCallLock DEF Finish
    <2>8. \A w \in Upload : sessions[w] # None /\ sessions'[w].status = "completed" =>
             sessions[w].status = "completed"
      BY <2>4
    <2> QED BY <2>4, <2>6, <2>7, <2>8, BytesStep
  <1>10. ASSUME NEW p \in Proc, TouchSession(p) PROVE BytesInv'
    <2>1. PICK c : c = call[p]
      OBVIOUS
    <2>2. c.pc = "touch" /\ sessions[c.upload].status = "pending"
      BY <1>10, <2>1 DEF TouchSession, LockInv
    <2>3. /\ Answer(c.upload, c.index, chunks[c.upload][c.index])
          /\ UNCHANGED <<sessions, chunks>> /\ Finish(p)
      BY <1>10, <2>1 DEF TouchSession
    <2>4. KeptPlaced'
      BY <2>2, <2>3, AnswerPlaced DEF BytesInv
    <2>5. ASSUME NEW q \in Proc PROVE BytesOK(call[q])'
      <3>1. PICK d : d = call'[q]
        OBVIOUS
      <3>2. CASE d = call[q]
        <4>1. BytesOK(d)'
          BY <2>3, <3>2, SameShrink, ShrinkBytes DEF WholeInv, ProcsOK, BytesInv
        <4> QED BY <3>1, <4>1
      <3>3. CASE d = NoCall
        <4>1. BytesOK(d)'
          BY <3>3, OtherBytes, NoCallLock
        <4> QED BY <3>1, <4>1
      <3>4. d = call[q] \/ d = NoCall
        BY <2>3, <3>1 DEF Finish, WholeInv, ProcsOK
      <3> QED BY <3>2, <3>3, <3>4
    <2> QED BY <2>3, <2>4, <2>5, SameShrink, ShrinkFits DEF BytesInv
  <1>11. ASSUME NEW p \in Proc, NEW q, NEW artifact, NEW v, SetVisibility(p, q, artifact, v)
         PROVE  BytesInv'
    <2>1. PICK d : d = [pc |-> "policy", artifact |-> artifact,
                        manifest |-> [manifests[artifact] EXCEPT !.visibility = v]]
      OBVIOUS
    <2>2. BytesOK(d)'
      <3>1. d.pc = "policy"
        BY <2>1
      <3> QED BY <3>1, OtherBytes DEF Committing, Putting
    <2>3. call' = [call EXCEPT ![p] = d] /\ UNCHANGED <<sessions, chunks, kept>>
      BY <1>11, <2>1 DEF SetVisibility, Become
    <2> QED BY <2>2, <2>3, SameShrink, BytesStep
  <1>12. ASSUME Kill(Thread) \/ \E p \in Cli : Kill({p}) PROVE BytesInv'
    <2>1. UNCHANGED <<sessions, chunks, kept>>
      BY <1>12 DEF Kill
    <2>2. \A q \in Proc : call'[q] = call[q] \/ call'[q] = NoCall
      BY <1>12 DEF Kill
    <2>3. ASSUME NEW q \in Proc PROVE BytesOK(call[q])'
      <3>1. PICK d : d = call'[q]
        OBVIOUS
      <3>2. CASE d = call[q]
        <4>1. BytesOK(d)'
          BY <2>1, <3>2, SameShrink, ShrinkBytes DEF WholeInv, ProcsOK, BytesInv
        <4> QED BY <3>1, <4>1
      <3>3. CASE d = NoCall
        <4>1. BytesOK(d)'
          BY <3>3, OtherBytes, NoCallLock
        <4> QED BY <3>1, <4>1
      <3> QED BY <2>2, <3>1, <3>2, <3>3
    <2> QED BY <2>1, <2>3, SameShrink, ShrinkFits, ShrinkKept DEF BytesInv
  <1>13. CASE UNCHANGED vars
    BY <1>1, <1>13 DEF vars
  <1>14. ASSUME NEW p \in Proc, Request(p) PROVE BytesInv'
    BY <1>0, <1>3, <1>6, <1>7, <1>8, <1>11, <1>14, PutChunkBytes DEF Request
  <1>15. ASSUME NEW p \in Proc, Step(p) PROVE BytesInv'
    BY <1>2, <1>4, <1>5, <1>9, <1>10, <1>15, WriteManifestBytes, CompleteBytes DEF Step
  <1> QED BY <1>2, <1>12, <1>13, <1>14, <1>15 DEF Next

\* put_chunk and commit_upload: an acknowledged chunk is on disk as long as its
\* upload is pending, and a completed upload has the acknowledged bytes at the
\* acknowledged place of its artifact, for every size and chunk size and
\* whatever failure or kill cut a chunk or a commit short.
THEOREM AcknowledgedBytesKept == Spec => []AcknowledgedBytes
  <1>1. Init => WholeInv /\ LockInv /\ ChunkInv /\ BytesInv
    BY WholeInit, LockInit, ChunkInit, BytesInit
  <1>2. WholeInv /\ LockInv /\ ChunkInv /\ BytesInv /\ [Next]_vars =>
          (WholeInv /\ LockInv /\ ChunkInv /\ BytesInv)'
    BY WholeNext, LockNext, ChunkNext, BytesNext
  <1>3. ChunkInv /\ BytesInv => AcknowledgedBytes
    BY DEF ChunkInv, ChunksStay, BytesInv, KeptPlaced, Stands, AcknowledgedBytes
  <1> QED BY <1>1, <1>2, <1>3, PTL DEF Spec
=============================================================================

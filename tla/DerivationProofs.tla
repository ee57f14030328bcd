-------------------------- MODULE DerivationProofs --------------------------
(***************************************************************************)
(* The proofs about Derivation and the NoteCreate below it, for any        *)
(* processes, actors, keys and requests, and any number of operations,     *)
(* failing steps and kills: a key has one note, a completed derivation has *)
(* its note, every run settles its derivation, and the two locks never     *)
(* close a circle of waiting operations.                                   *)
(***************************************************************************)
EXTENDS Derivation, TLAPS

\* Program counters of a create_note that holds the lock of its process.
Active == {"lookup", "insert", "wait", "write", "finish"}

\* Program counters of a create_note that has a note id.
Named == {"insert", "wait", "write", "finish", "done"}

CallOK(a) ==
    /\ (call[a].pc # "idle" => call[a].key \in Key /\ call[a].req \in Request)
    /\ (call[a].pc \in Named => call[a].note \in NoteId)
    /\ (call[a].pc \in Active <=> lock[ProcessOf[a]] = a)

NoteType ==
    /\ row \in [Key -> Reservation \cup {None}]
    /\ file \in [NoteId -> File \cup {None}]
    /\ drawn \in 0..MaxNotes
    /\ clock \in Nat
    /\ lock \in [Process -> Actor \cup {None}]
    /\ call \in [Actor -> Call]
    /\ \A a \in Actor : CallOK(a)
    /\ answers \subseteq [key : Key, req : Request, note : NoteId, stamp : Nat \cup {None}]
    /\ removed \subseteq NoteId

\* Program counters of a derive that holds the service lock of its process.
Served == {"decide", "start", "deriver", "enter", "create", "fail"}

OpSteps == Served \cup {"idle", "select", "status", "post", "cancel", "cancel-row", "purge",
                        "purge-file", "purge-keys", "purge-row"}

Op == [pc : OpSteps, retry : BOOLEAN, req : Request \cup {None}, row : Job \cup {None},
       id : JobId \cup {None}]

OpOK(a) ==
    /\ (op[a].pc \in Served => service[ProcessOf[a]] = a)
    /\ (op[a].pc \notin {"idle", "post"} => op[a].req \in Request)
    /\ (op[a].pc \in {"purge-file", "purge-keys"} =>
            op[a].row \in Job /\ op[a].row.note \in NoteId)
    /\ (op[a].pc = "purge-keys" => op[a].row.note \in removed)

OpType ==
    /\ visibility \in Request
    /\ job \in Job \cup {None}
    /\ jobs \in 0..MaxJobs
    /\ service \in [Process -> Actor \cup {None}]
    /\ events \subseteq Actor
    /\ op \in [Actor -> Op]
    /\ \A a \in Actor : OpOK(a)

TypeInv == NoteType /\ OpType

(***************************************************************************)
(* What the derivation does to the notes, seen from NoteCreate: the steps  *)
(* of create_note, the removal of a file, and the deletion of reservations *)
(* of a note that was removed.                                             *)
(***************************************************************************)
RemoveFile(n) ==
    /\ file' = [file EXCEPT ![n] = None]
    /\ removed' = removed \cup {n}
    /\ UNCHANGED <<row, drawn, clock, lock, call, answers, faults, kills>>

Forget(n) ==
    /\ row' = [k \in Key |-> IF row[k] # None /\ row[k].note = n THEN None ELSE row[k]]
    /\ UNCHANGED <<file, drawn, clock, lock, call, answers, removed, faults, kills>>

NoteNext ==
    \/ \E a \in Actor, k \in Key, r \in Request : CreateNote(a, k, r)
    \/ \E a \in Actor : Lookup(a) \/ Insert(a) \/ Wait(a) \/ Write(a) \/ Finish(a)
                        \/ Leave(a) \/ Fault(a)
    \/ \E p \in Process : Killed(p)
    \/ \E n \in NoteId : RemoveFile(n)
    \/ \E n \in removed : Forget(n)
    \/ UNCHANGED noteVars

(***************************************************************************)
(* A note id is of one key and one request, whoever mentions it: the       *)
(* reservation, the file, a call or an answer.                             *)
(***************************************************************************)
Claim(n, k, r) ==
    \/ row[k] # None /\ row[k].note = n /\ row[k].req = r
    \/ file[n] # None /\ file[n].key = k /\ file[n].req = r
    \/ \E a \in Actor : /\ call[a].pc \in Named
                        /\ call[a].note = n /\ call[a].key = k /\ call[a].req = r
    \/ \E x \in answers : x.note = n /\ x.key = k /\ x.req = r

ClaimInv ==
    /\ \A n \in NoteId, k \in Key, r \in Request : Claim(n, k, r) => n <= drawn
    /\ \A n \in NoteId, k, l \in Key, r, s \in Request :
          Claim(n, k, r) /\ Claim(n, l, s) => k = l /\ r = s

\* The key keeps its note, and the note its file, until the note is removed.
Reserved(k, n) == n \in removed \/ (row[k] # None /\ row[k].note = n)
Kept(n) == n \in removed \/ file[n] # None

CallInv(a) ==
    /\ (call[a].pc \in {"wait", "write", "finish"} => Reserved(call[a].key, call[a].note))
    /\ (call[a].pc \in {"finish", "done"} => Kept(call[a].note))

NoteInv ==
    /\ ClaimInv
    /\ \A a \in Actor : CallInv(a)
    /\ \A x \in answers : Reserved(x.key, x.note) /\ Kept(x.note)

\* Notes that completed a derivation, and the row that names one.
JobInv ==
    job # None /\ job.status = "completed" =>
        job.note \in NoteId /\ job.note \in written /\ Kept(job.note)

(***************************************************************************)
(* The owner of a lock is an operation of its process that is under way    *)
(* where the lock is held, and create_note is called by derive or a post.  *)
(***************************************************************************)
LockOwned == \A p \in Process : lock[p] # None => ProcessOf[lock[p]] = p

WaitInv ==
    /\ LockOwned
    /\ \A p \in Process : service[p] # None =>
          ProcessOf[service[p]] = p /\ op[service[p]].pc \in Served
    /\ \A a \in Actor : call[a].pc # "idle" => op[a].pc \in {"create", "post"}

\* A row that a run has still to settle.
Open(j) == j # None /\ j.status \in {"pending", "running"}

-----------------------------------------------------------------------------
(***************************************************************************)
(* The steps of create_note.                                               *)
(***************************************************************************)

Pcs == {"idle", "lookup", "insert", "wait", "write", "finish", "done", "failed"}

LEMMA CallFields ==
  ASSUME NEW c \in Call
  PROVE  /\ c.pc \in Pcs /\ c.key \in Key \cup {None} /\ c.req \in Request \cup {None}
         /\ c.note \in NoteId \cup {None} /\ c.stamp \in Nat \cup {None}
  BY DEF Call, Pcs

LEMMA NoCallType == NoCall \in Call /\ NoCall.pc = "idle"
  BY DEF NoCall, Call

\* What Goto does to the call of its actor and to the others.
LEMMA GotoCall ==
  ASSUME call \in [Actor -> Call], NEW a \in Actor, NEW pc \in Pcs,
         NEW n \in NoteId \cup {None}, Goto(a, pc, n)
  PROVE  /\ call' \in [Actor -> Call]
         /\ call'[a].pc = pc /\ call'[a].note = n
         /\ call'[a].key = call[a].key /\ call'[a].req = call[a].req
         /\ \A b \in Actor : b # a => call'[b] = call[b]
  <1>1. call' = [call EXCEPT ![a] = [call[a] EXCEPT !.pc = pc, !.note = n]]
    BY DEF Goto
  <1>2. [call[a] EXCEPT !.pc = pc, !.note = n] \in Call
    BY DEF Call, Pcs
  <1> QED BY <1>1, <1>2 DEF Call

\* The draw of a note id.
Draws(a) ==
    /\ call[a].pc = "lookup"
    /\ row[call[a].key] = None
    /\ drawn < MaxNotes
    /\ drawn' = drawn + 1
    /\ Goto(a, "insert", drawn + 1)
    /\ UNCHANGED <<row, file, clock, lock, answers, removed, kills>>

\* The reservation of the drawn id.
Reserves(a) ==
    /\ call[a].pc = "insert"
    /\ row[call[a].key] = None
    /\ row' = [row EXCEPT ![call[a].key] = [req |-> call[a].req, note |-> call[a].note]]
    /\ Goto(a, "write", call[a].note)
    /\ UNCHANGED <<file, drawn, clock, lock, answers, removed, kills>>

\* The note that is reserved for the key is to be written, or waited for.
Adopts(a) ==
    /\ row[call[a].key] # None /\ SameRequest(a)
    /\ \E pc \in {"wait", "write"} : Goto(a, pc, row[call[a].key].note)
    /\ call[a].pc \in {"lookup", "insert"}
    /\ UNCHANGED <<row, file, drawn, clock, lock, answers, removed, kills>>

\* A file that is there is answered.
Replays(a) ==
    \E n \in NoteId :
        /\ \/ call[a].pc = "lookup" /\ row[call[a].key] # None /\ SameRequest(a)
              /\ n = row[call[a].key].note
           \/ call[a].pc = "wait" /\ n = call[a].note
        /\ file[n] # None
        /\ Reconcile(a, n)
        /\ UNCHANGED <<file, clock, removed, kills>>

\* The call ends with an error.
Breaks(a) ==
    /\ call[a].pc \in Active
    /\ End(a, "failed", None)
    /\ UNCHANGED <<row, file, drawn, clock, answers, removed, kills>>

\* Lookup, Insert, Wait and Fault in these terms.
LEMMA StepForms ==
  ASSUME NoteType, NEW a \in Actor, Lookup(a) \/ Insert(a) \/ Wait(a) \/ Fault(a)
  PROVE  Draws(a) \/ Reserves(a) \/ Adopts(a) \/ Replays(a) \/ Breaks(a)
  <1>0. call[a].key \in Key /\ (call[a].pc \in Named => call[a].note \in NoteId)
    BY DEF NoteType, CallOK, Lookup, Insert, Wait, Fault, Active
  <1>1. row[call[a].key] # None => row[call[a].key].note \in NoteId
    BY <1>0 DEF NoteType, Reservation
  <1>2. CASE Lookup(a)
    <2>1. CASE row[call[a].key] = None
      BY <1>2, <2>1 DEF Lookup, Draws
    <2>2. CASE row[call[a].key] # None /\ ~SameRequest(a)
      BY <1>2, <2>2 DEF Lookup, Conflict, Breaks, Active
    <2>3. CASE row[call[a].key] # None /\ SameRequest(a) /\ file[row[call[a].key].note] # None
      BY <1>1, <1>2, <2>3 DEF Lookup, Replays
    <2>4. CASE row[call[a].key] # None /\ SameRequest(a) /\ file[row[call[a].key].note] = None
      BY <1>2, <2>4 DEF Lookup, Adopts
    <2> QED BY <2>1, <2>2, <2>3, <2>4
  <1>3. CASE Insert(a)
    BY <1>3 DEF Insert, KeyFree, Reserves, Adopts, Conflict, Breaks, Active
  <1>4. CASE Wait(a)
    BY <1>0, <1>4 DEF Wait, Replays, Conflict, Breaks, Active, Named
  <1>5. CASE Fault(a)
    BY <1>5 DEF Fault, Breaks, Active
  <1> QED BY <1>2, <1>3, <1>4, <1>5

\* The step of an actor at the lock of its process leaves the others' alone.
LEMMA OthersOK ==
  ASSUME NoteType, NEW a \in Actor, NEW x \in {a, None},
         lock[ProcessOf[a]] \in {a, None},
         lock' = [lock EXCEPT ![ProcessOf[a]] = x] \/ lock' = lock,
         \A b \in Actor : b # a => call'[b] = call[b]
  PROVE  \A b \in Actor : b # a => CallOK(b)'
  <1> SUFFICES ASSUME NEW b \in Actor, b # a PROVE CallOK(b)'
    OBVIOUS
  <1>1. ProcessOf[a] \in Process /\ ProcessOf[b] \in Process
    BY NoteCreateAssumption
  <1>2. lock[ProcessOf[b]] = b <=> lock'[ProcessOf[b]] = b
    BY <1>1, NoteCreateNone DEF NoteType
  <1> QED BY <1>2 DEF NoteType, CallOK

LEMMA NoteTypeInit == NoteInit => NoteType
  BY NoCallType, NoteCreateAssumption, NoteCreateNone
  DEF NoteInit, NoteType, CallOK, NoCall, Active, Named

LEMMA NoteTypeNext == ASSUME NoteType, NoteNext PROVE NoteType'
  <1> DEFINE Answers == [key : Key, req : Request, note : NoteId, stamp : Nat \cup {None}]
  <1>0. ASSUME NEW a \in Actor
        PROVE  /\ call[a] \in Call /\ CallOK(a) /\ ProcessOf[a] \in Process
               /\ (call[a].pc \in Active => call[a].key \in Key /\ call[a].req \in Request)
               /\ (call[a].pc \in Active => lock[ProcessOf[a]] = a)
    BY NoteCreateAssumption DEF NoteType, CallOK, Active
  <1>1. ASSUME NEW a \in Actor, NEW k \in Key, NEW r \in Request, CreateNote(a, k, r)
        PROVE  NoteType'
    <2> DEFINE c == [NoCall EXCEPT !.pc = "lookup", !.key = k, !.req = r]
    <2>1. c \in Call /\ c.pc = "lookup" /\ c.key = k /\ c.req = r
      BY DEF NoCall, Call
    <2>2. call' = [call EXCEPT ![a] = c] /\ lock' = [lock EXCEPT ![ProcessOf[a]] = a]
      BY <1>1 DEF CreateNote
    <2> HIDE DEF c
    <2>3. CallOK(a)'
      BY <1>0, <2>1, <2>2 DEF CallOK, NoteType, Named, Active
    <2>4. \A b \in Actor : b # a => CallOK(b)'
      BY <1>1, <2>2, OthersOK DEF CreateNote, NoteType
    <2>5. call' \in [Actor -> Call] /\ lock' \in [Process -> Actor \cup {None}]
      BY <1>0, <2>1, <2>2 DEF NoteType
    <2>6. \A b \in Actor : CallOK(b)'
      BY <2>3, <2>4
    <2>7. UNCHANGED <<row, file, drawn, clock, answers, removed>>
      BY <1>1 DEF CreateNote
    <2> QED BY <2>5, <2>6, <2>7 DEF NoteType
  <1>2. ASSUME NEW a \in Actor, Draws(a) PROVE NoteType'
    <2>1. drawn + 1 \in NoteId /\ drawn' \in 0..MaxNotes
      BY <1>2, NoteCreateAssumption DEF Draws, NoteType, NoteId
    <2>2. /\ call' \in [Actor -> Call]
          /\ call'[a].pc = "insert" /\ call'[a].note = drawn + 1
          /\ call'[a].key = call[a].key /\ call'[a].req = call[a].req
          /\ \A b \in Actor : b # a => call'[b] = call[b]
      BY <1>2, <2>1, GotoCall DEF Draws, NoteType, Pcs
    <2>3. CallOK(a)'
      BY <1>0, <1>2, <2>1, <2>2 DEF CallOK, Draws, Active
    <2>4. \A b \in Actor : b # a => CallOK(b)'
      BY <1>0, <1>2, <2>2, OthersOK DEF Draws, Active
    <2> QED BY <1>2, <2>1, <2>2, <2>3, <2>4 DEF Draws, NoteType
  <1>3. ASSUME NEW a \in Actor, Reserves(a) PROVE NoteType'
    <2>1. call[a].key \in Key /\ call[a].req \in Request /\ call[a].note \in NoteId
      BY <1>0, <1>3 DEF Reserves, CallOK, Active, Named
    <2>2. /\ call' \in [Actor -> Call]
          /\ call'[a].pc = "write" /\ call'[a].note = call[a].note
          /\ call'[a].key = call[a].key /\ call'[a].req = call[a].req
          /\ \A b \in Actor : b # a => call'[b] = call[b]
      BY <1>3, <2>1, GotoCall DEF Reserves, NoteType, Pcs
    <2>3. CallOK(a)'
      BY <1>0, <1>3, <2>1, <2>2 DEF CallOK, Reserves, Active
    <2>4. \A b \in Actor : b # a => CallOK(b)'
      BY <1>0, <1>3, <2>2, OthersOK DEF Reserves, Active
    <2>5. row' \in [Key -> Reservation \cup {None}]
      BY <1>3, <2>1 DEF Reserves, Reservation, NoteType
    <2> QED BY <1>3, <2>2, <2>3, <2>4, <2>5 DEF Reserves, NoteType
  <1>4. ASSUME NEW a \in Actor, Adopts(a) PROVE NoteType'
    <2>1. PICK pc \in {"wait", "write"} : Goto(a, pc, row[call[a].key].note)
      BY <1>4 DEF Adopts
    <2>2. row[call[a].key].note \in NoteId
      BY <1>0, <1>4 DEF Adopts, Active, NoteType, Reservation
    <2>3. /\ call' \in [Actor -> Call]
          /\ call'[a].pc = pc /\ call'[a].note = row[call[a].key].note
          /\ call'[a].key = call[a].key /\ call'[a].req = call[a].req
          /\ \A b \in Actor : b # a => call'[b] = call[b]
      BY <2>1, <2>2, GotoCall DEF NoteType, Pcs
    <2>4. CallOK(a)'
      BY <1>0, <1>4, <2>2, <2>3 DEF CallOK, Adopts, Active
    <2>5. \A b \in Actor : b # a => CallOK(b)'
      BY <1>0, <1>4, <2>3, OthersOK DEF Adopts, Active
    <2> QED BY <1>4, <2>3, <2>4, <2>5 DEF Adopts, NoteType
  <1>5. ASSUME NEW a \in Actor, NEW n \in NoteId \cup {None}, NEW pc \in {"done", "failed"},
               pc = "done" => n \in NoteId,
               call[a].pc \in Active, End(a, pc, n), answers' \subseteq Answers,
               UNCHANGED <<row, file, drawn, clock, removed>>
        PROVE  NoteType'
    <2>1. /\ call' \in [Actor -> Call]
          /\ call'[a].pc = pc /\ call'[a].note = n
          /\ call'[a].key = call[a].key /\ call'[a].req = call[a].req
          /\ \A b \in Actor : b # a => call'[b] = call[b]
      BY <1>5, GotoCall DEF End, NoteType, Pcs
    <2>2. lock' = [lock EXCEPT ![ProcessOf[a]] = None]
      BY <1>5 DEF End
    <2>3. CallOK(a)'
      BY <1>0, <1>5, <2>1, <2>2, NoteCreateNone DEF CallOK, NoteType, Active, Named
    <2>4. \A b \in Actor : b # a => CallOK(b)'
      BY <1>0, <1>5, <2>1, <2>2, OthersOK
    <2> QED BY <1>5, <2>1, <2>2, <2>3, <2>4 DEF NoteType
  <1>6. ASSUME NEW a \in Actor, Replays(a) PROVE NoteType'
    <2>1. PICK n \in NoteId : Reconcile(a, n) /\ file[n] # None
      BY <1>6 DEF Replays
    <2>2. call[a].pc \in Active
      BY <1>6 DEF Replays, Active
    <2>3. file[n].stamp \in Nat
      BY <2>1 DEF NoteType, File
    <2>4. answers' \subseteq Answers
      BY <1>0, <2>1, <2>2, <2>3 DEF Reconcile, Answer, NoteType
    <2> QED BY <1>5, <1>6, <2>1, <2>2, <2>4 DEF Reconcile, Replays
  <1>7. ASSUME NEW a \in Actor, Breaks(a) PROVE NoteType'
    BY <1>5, <1>7 DEF Breaks, NoteType
  <1>8. ASSUME NEW a \in Actor, Write(a) PROVE NoteType'
    <2>1. call[a].key \in Key /\ call[a].req \in Request /\ call[a].note \in NoteId
      BY <1>0, <1>8 DEF Write, CallOK, Active, Named
    <2>2. call' = [call EXCEPT ![a] = [call[a] EXCEPT !.pc = "finish", !.stamp = clock + 1]]
      BY <1>8 DEF Write
    <2>3. [call[a] EXCEPT !.pc = "finish", !.stamp = clock + 1] \in Call
      <3>1. clock + 1 \in Nat
        BY DEF NoteType
      <3> QED BY <1>0, <3>1 DEF Call
    <2>4. /\ call' \in [Actor -> Call]
          /\ call'[a].pc = "finish" /\ call'[a].note = call[a].note
          /\ call'[a].key = call[a].key /\ call'[a].req = call[a].req
          /\ \A b \in Actor : b # a => call'[b] = call[b]
      BY <2>2, <2>3 DEF Call, NoteType
    <2>5. CallOK(a)'
      BY <1>0, <1>8, <2>1, <2>4 DEF CallOK, Write, Active
    <2>6. \A b \in Actor : b # a => CallOK(b)'
      BY <1>0, <1>8, <2>4, OthersOK DEF Write, Active
    <2>7. file' \in [NoteId -> File \cup {None}] /\ clock' \in Nat
      BY <1>8, <2>1 DEF Write, File, NoteType
    <2> QED BY <1>8, <2>4, <2>5, <2>6, <2>7 DEF Write, NoteType
  <1>9. ASSUME NEW a \in Actor, Finish(a) PROVE NoteType'
    <2>1. call[a].pc \in Active /\ call[a].note \in NoteId
      BY <1>0, <1>9 DEF Finish, CallOK, Active, Named
    <2>2. call[a].stamp \in Nat \cup {None}
      BY <1>0, CallFields
    <2>3. answers' \subseteq Answers
      BY <1>0, <1>9, <2>1, <2>2 DEF Finish, Answer, NoteType
    <2> QED BY <1>5, <1>9, <2>1, <2>3 DEF Finish
  <1>10. ASSUME NEW a \in Actor, Leave(a) PROVE NoteType'
    <2>1. call' = [call EXCEPT ![a] = NoCall]
      BY <1>10 DEF Leave
    <2>2. \A b \in Actor : CallOK(b)'
      BY <1>0, <1>10, <2>1, NoCallType DEF Leave, CallOK, NoteType, Active, Named
    <2> QED BY <1>10, <2>1, <2>2, NoCallType DEF Leave, NoteType
  <1>11. ASSUME NEW p \in Process, Killed(p) PROVE NoteType'
    <2>1. /\ call' = [a \in Actor |-> IF ProcessOf[a] = p THEN NoCall ELSE call[a]]
          /\ lock' = [lock EXCEPT ![p] = None]
      BY <1>11 DEF Killed
    <2>2. \A b \in Actor : CallOK(b)'
      BY <1>0, <2>1, NoCallType, NoteCreateNone DEF CallOK, NoteType, Active, Named
    <2> QED BY <1>11, <2>1, <2>2, NoCallType DEF Killed, NoteType
  <1>12. ASSUME NEW n \in NoteId, RemoveFile(n) PROVE NoteType'
    BY <1>12 DEF RemoveFile, NoteType, CallOK
  <1>13. ASSUME NEW n, Forget(n) PROVE NoteType'
    BY <1>13 DEF Forget, NoteType, CallOK
  <1>14. CASE UNCHANGED noteVars
    BY <1>14 DEF noteVars, NoteType, CallOK
  <1> QED BY <1>1, <1>2, <1>3, <1>4, <1>6, <1>7, <1>8, <1>9, <1>10, <1>11, <1>12, <1>13, <1>14,
             StepForms DEF NoteNext

-----------------------------------------------------------------------------
(***************************************************************************)
(* One note per key.                                                       *)
(***************************************************************************)

\* What was reserved or kept stays so, or the note is removed.
LEMMA Persistent ==
  ASSUME NoteType, NoteNext
  PROVE  /\ removed \subseteq removed'
         /\ \A n \in NoteId : Kept(n) => Kept(n)'
         /\ \A k \in Key, n \in NoteId : Reserved(k, n) => Reserved(k, n)'
  <1> DEFINE Goal == /\ removed \subseteq removed'
                     /\ \A n \in NoteId : Kept(n) => Kept(n)'
                     /\ \A k \in Key, n \in NoteId : Reserved(k, n) => Reserved(k, n)'
  <1>1. ASSUME UNCHANGED <<row, file, removed>> PROVE Goal
    BY <1>1 DEF Kept, Reserved
  <1>2. ASSUME NEW a \in Actor, Reserves(a) PROVE Goal
    <2>1. /\ call[a].key \in Key /\ row[call[a].key] = None
          /\ UNCHANGED <<file, removed>>
          /\ \A k \in Key : k # call[a].key => row'[k] = row[k]
      BY <1>2 DEF Reserves, NoteType, CallOK
    <2> QED BY <2>1 DEF Kept, Reserved
  <1>3. ASSUME NEW a \in Actor, Write(a) PROVE Goal
    <2>1. /\ UNCHANGED <<row, removed>>
          /\ call[a].note \in NoteId /\ call[a].key \in Key /\ call[a].req \in Request
          /\ file' = [file EXCEPT ![call[a].note] =
                         [key |-> call[a].key, req |-> call[a].req, stamp |-> clock + 1]]
      BY <1>3 DEF Write, NoteType, CallOK, Named
    <2>2. [key |-> call[a].key, req |-> call[a].req, stamp |-> clock + 1] # None
      <3>1. clock + 1 \in Nat
        BY DEF NoteType
      <3> QED BY <2>1, <3>1, NoteCreateNone DEF File
    <2> QED BY <2>1, <2>2 DEF Kept, Reserved, NoteType
  <1>4. ASSUME NEW n \in NoteId, RemoveFile(n) PROVE Goal
    BY <1>4 DEF RemoveFile, Kept, Reserved, NoteType
  <1>5. ASSUME NEW n \in removed, Forget(n) PROVE Goal
    BY <1>5 DEF Forget, Kept, Reserved, NoteType
  <1> QED BY <1>1, <1>2, <1>3, <1>4, <1>5, StepForms, ZenonT(60)
          DEF NoteNext, CreateNote, Draws, Adopts, Replays, Reconcile, Breaks, Finish, Leave,
              Killed, noteVars

\* Calls that stay as they are keep what they rely on.
LEMMA CallInvKept ==
  ASSUME NoteType, NoteNext, NEW b \in Actor, CallInv(b), call'[b] = call[b] PROVE CallInv(b)'
  <1>1. /\ (call[b].pc \in Named => call[b].note \in NoteId)
        /\ (call[b].pc # "idle" => call[b].key \in Key)
    BY DEF NoteType, CallOK
  <1> QED BY <1>1, Persistent DEF CallInv, Named

\* The actor of a step and its new answer, if any, are all that is to be shown.
LEMMA CallsAndAnswers ==
  ASSUME NoteType, NoteInv, NoteNext, NEW a \in Actor, CallInv(a)',
         \A b \in Actor : b # a => call'[b] = call[b],
         \A x \in answers' \ answers : Reserved(x.key, x.note)' /\ Kept(x.note)'
  PROVE  /\ \A b \in Actor : CallInv(b)'
         /\ (\A x \in answers : Reserved(x.key, x.note) /\ Kept(x.note))'
  <1>1. \A b \in Actor : CallInv(b)'
    BY CallInvKept DEF NoteInv
  <1>2. ASSUME NEW x \in answers PROVE Reserved(x.key, x.note)' /\ Kept(x.note)'
    <2>1. x.key \in Key /\ x.note \in NoteId
      BY DEF NoteType
    <2> QED BY <2>1, Persistent DEF NoteInv
  <1> QED BY <1>1, <1>2

\* A step with no new claim and no fewer ids drawn keeps the claims apart.
LEMMA ClaimsKept ==
  ASSUME NoteType, ClaimInv, drawn' = drawn,
         \A n \in NoteId, k \in Key, r \in Request : Claim(n, k, r)' => Claim(n, k, r)
  PROVE  ClaimInv'
  BY DEF ClaimInv

\* What the call of an actor, or a reservation, claims.
LEMMA Claimed ==
  ASSUME NoteType
  PROVE  /\ \A a \in Actor : call[a].pc \in Named =>
                Claim(call[a].note, call[a].key, call[a].req)
         /\ \A k \in Key : row[k] # None => Claim(row[k].note, k, row[k].req)
  BY DEF Claim

LEMMA NoteInvInit == NoteInit => NoteInv
  BY NoCallType DEF NoteInit, NoteInv, ClaimInv, Claim, CallInv, Named

LEMMA NoteInvNext == ASSUME NoteType, NoteInv, NoteNext PROVE NoteInv'
  <1> DEFINE NoClaim ==
          \A n \in NoteId, k \in Key, r \in Request : Claim(n, k, r)' => Claim(n, k, r)
  <1> ClaimInv
    BY DEF NoteInv
  <1>0. ASSUME NEW a \in Actor
        PROVE  /\ (call[a].pc # "idle" => call[a].key \in Key /\ call[a].req \in Request)
               /\ (call[a].pc \in Named => call[a].note \in NoteId)
               /\ CallInv(a)
    BY DEF NoteType, CallOK, NoteInv
  <1>1. ASSUME NEW a \in Actor, (\E k \in Key, r \in Request : CreateNote(a, k, r)) \/ Leave(a)
        PROVE  NoteInv'
    <2>1. /\ call'[a].pc \in {"lookup", "idle"}
          /\ \A b \in Actor : b # a => call'[b] = call[b]
      <3>1. ASSUME NEW k \in Key, NEW r \in Request, CreateNote(a, k, r)
            PROVE  /\ call'[a].pc = "lookup"
                   /\ \A b \in Actor : b # a => call'[b] = call[b]
        BY <3>1 DEF CreateNote, NoCall, NoteType
      <3>2. ASSUME Leave(a)
            PROVE  /\ call'[a].pc = "idle"
                   /\ \A b \in Actor : b # a => call'[b] = call[b]
        BY <3>2 DEF Leave, NoCall, NoteType
      <3> QED BY <1>1, <3>1, <3>2
    <2>2. UNCHANGED <<row, file, drawn, answers>>
      BY <1>1 DEF CreateNote, Leave
    <2>3. NoClaim
      BY <2>1, <2>2 DEF Claim, Named
    <2>4. CallInv(a)'
      BY <2>1 DEF CallInv
    <2> QED BY <2>1, <2>2, <2>3, <2>4, ClaimsKept, CallsAndAnswers DEF NoteInv
  <1>2. ASSUME NEW a \in Actor, Draws(a) PROVE NoteInv'
    <2>1. drawn + 1 \in NoteId /\ drawn \in Nat /\ drawn' = drawn + 1
      BY <1>2, NoteCreateAssumption DEF Draws, NoteType, NoteId
    <2>2. /\ call'[a].pc = "insert" /\ call'[a].note = drawn + 1
          /\ call'[a].key = call[a].key /\ call'[a].req = call[a].req
          /\ \A b \in Actor : b # a => call'[b] = call[b]
      BY <1>2, <2>1, GotoCall DEF Draws, NoteType, Pcs
    <2>3. UNCHANGED <<row, file, answers>>
      BY <1>2 DEF Draws
    <2>4. ASSUME NEW n \in NoteId, NEW k \in Key, NEW r \in Request, Claim(n, k, r)'
          PROVE  \/ Claim(n, k, r)
                 \/ n = drawn + 1 /\ k = call[a].key /\ r = call[a].req
      BY <2>2, <2>3, <2>4 DEF Claim
    <2>5. ClaimInv'
      <3>1. \A n \in NoteId, k \in Key, r \in Request : (Claim(n, k, r) => n <= drawn)'
        BY <2>1, <2>4 DEF ClaimInv, NoteId
      <3>2. \A n \in NoteId, k, l \in Key, r, s \in Request :
                (Claim(n, k, r) /\ Claim(n, l, s) => k = l /\ r = s)'
        <4> SUFFICES ASSUME NEW n \in NoteId, NEW k \in Key, NEW l \in Key,
                            NEW r \in Request, NEW s \in Request,
                            Claim(n, k, r)', Claim(n, l, s)'
                     PROVE  k = l /\ r = s
          OBVIOUS
        <4>1. CASE n = drawn + 1
          <5>1. ~Claim(n, k, r) /\ ~Claim(n, l, s)
            BY <2>1, <4>1 DEF ClaimInv
          <5> QED BY <2>4, <5>1
        <4>2. CASE n # drawn + 1
          BY <2>4, <4>2 DEF ClaimInv
        <4> QED BY <4>1, <4>2
      <3> QED BY <3>1, <3>2 DEF ClaimInv
    <2>6. CallInv(a)'
      BY <2>2 DEF CallInv
    <2> QED BY <2>2, <2>3, <2>5, <2>6, CallsAndAnswers DEF NoteInv
  <1>3. ASSUME NEW a \in Actor, Reserves(a) PROVE NoteInv'
    <2>1. call[a].key \in Key /\ call[a].req \in Request /\ call[a].note \in NoteId
      BY <1>0, <1>3 DEF Reserves, Named
    <2>2. /\ call'[a].pc = "write" /\ call'[a].note = call[a].note
          /\ call'[a].key = call[a].key /\ call'[a].req = call[a].req
          /\ \A b \in Actor : b # a => call'[b] = call[b]
      BY <1>3, <2>1, GotoCall DEF Reserves, NoteType, Pcs
    <2>3. UNCHANGED <<file, drawn, answers>> /\ call[a].pc \in Named
      BY <1>3 DEF Reserves, Named
    <2>4. /\ row'[call[a].key] = [req |-> call[a].req, note |-> call[a].note]
          /\ row'[call[a].key] # None
          /\ \A k \in Key : k # call[a].key => row'[k] = row[k]
      BY <1>3, <2>1, NoteCreateNone DEF Reserves, NoteType, Reservation
    <2>5. NoClaim
      <3> SUFFICES ASSUME NEW n \in NoteId, NEW k \in Key, NEW r \in Request, Claim(n, k, r)'
                   PROVE  Claim(n, k, r)
        OBVIOUS
      <3>1. CASE row'[k] # None /\ row'[k].note = n /\ row'[k].req = r
        BY <2>3, <2>4, <3>1 DEF Claim
      <3>2. CASE file'[n] # None /\ file'[n].key = k /\ file'[n].req = r
        BY <2>3, <3>2 DEF Claim
      <3>3. ASSUME NEW b \in Actor, call'[b].pc \in Named, call'[b].note = n,
                   call'[b].key = k, call'[b].req = r
            PROVE  Claim(n, k, r)
        BY <2>2, <2>3, <3>3 DEF Claim
      <3>4. CASE \E x \in answers' : x.note = n /\ x.key = k /\ x.req = r
        BY <2>3, <3>4 DEF Claim
      <3> QED BY <3>1, <3>2, <3>3, <3>4 DEF Claim
    <2>6. CallInv(a)'
      BY <2>1, <2>2, <2>4 DEF CallInv, Reserved
    <2> QED BY <2>2, <2>3, <2>5, <2>6, ClaimsKept, CallsAndAnswers DEF NoteInv
  <1>4. ASSUME NEW a \in Actor, Adopts(a) PROVE NoteInv'
    <2>1. PICK pc \in {"wait", "write"} : Goto(a, pc, row[call[a].key].note)
      BY <1>4 DEF Adopts
    <2>2. /\ call[a].key \in Key /\ row[call[a].key] # None
          /\ row[call[a].key].note \in NoteId /\ row[call[a].key].req = call[a].req
      BY <1>0, <1>4 DEF Adopts, NoteType, Reservation, SameRequest
    <2>3. /\ call'[a].pc = pc /\ call'[a].note = row[call[a].key].note
          /\ call'[a].key = call[a].key /\ call'[a].req = call[a].req
          /\ \A b \in Actor : b # a => call'[b] = call[b]
      BY <2>1, <2>2, GotoCall DEF NoteType, Pcs
    <2>4. UNCHANGED <<row, file, drawn, answers>>
      BY <1>4 DEF Adopts
    <2>5. NoClaim
      BY <2>2, <2>3, <2>4 DEF Claim
    <2>6. CallInv(a)'
      BY <2>2, <2>3, <2>4 DEF CallInv, Reserved
    <2> QED BY <2>3, <2>4, <2>5, <2>6, ClaimsKept, CallsAndAnswers DEF NoteInv
  <1>5. ASSUME NEW a \in Actor, Breaks(a) PROVE NoteInv'
    <2>1. /\ call'[a].pc = "failed"
          /\ \A b \in Actor : b # a => call'[b] = call[b]
      BY <1>5, GotoCall DEF Breaks, End, NoteType, Pcs
    <2>2. UNCHANGED <<row, file, drawn, answers>>
      BY <1>5 DEF Breaks
    <2>3. NoClaim
      BY <2>1, <2>2 DEF Claim, Named
    <2>4. CallInv(a)'
      BY <2>1 DEF CallInv
    <2> QED BY <2>1, <2>2, <2>3, <2>4, ClaimsKept, CallsAndAnswers DEF NoteInv
  <1>6. ASSUME NEW a \in Actor, NEW n \in NoteId, NEW stamp,
               call[a].key \in Key, call[a].req \in Request,
               Claim(n, call[a].key, call[a].req), Reserved(call[a].key, n), Kept(n),
               Answer(a, n, stamp), End(a, "done", n), UNCHANGED <<row, file, drawn>>
        PROVE  NoteInv'
    <2>1. /\ call'[a].pc = "done" /\ call'[a].note = n
          /\ call'[a].key = call[a].key /\ call'[a].req = call[a].req
          /\ \A b \in Actor : b # a => call'[b] = call[b]
      BY <1>6, GotoCall DEF End, NoteType, Pcs
    <2>2. answers' = answers \cup {[key |-> call[a].key, req |-> call[a].req, note |-> n,
                                    stamp |-> stamp]}
      BY <1>6 DEF Answer
    <2>3. NoClaim
      <3> SUFFICES ASSUME NEW m \in NoteId, NEW k \in Key, NEW r \in Request, Claim(m, k, r)'
                   PROVE  Claim(m, k, r)
        OBVIOUS
      <3>1. CASE row'[k] # None /\ row'[k].note = m /\ row'[k].req = r
        BY <1>6, <3>1 DEF Claim
      <3>2. CASE file'[m] # None /\ file'[m].key = k /\ file'[m].req = r
        BY <1>6, <3>2 DEF Claim
      <3>3. ASSUME NEW b \in Actor, call'[b].pc \in Named, call'[b].note = m,
                   call'[b].key = k, call'[b].req = r
            PROVE  Claim(m, k, r)
        <4>1. CASE b = a
          BY <1>6, <2>1, <3>3, <4>1
        <4>2. CASE b # a
          BY <2>1, <3>3, <4>2 DEF Claim
        <4> QED BY <4>1, <4>2
      <3>4. ASSUME NEW x \in answers', x.note = m, x.key = k, x.req = r PROVE Claim(m, k, r)
        <4>1. CASE x \in answers
          BY <3>4, <4>1 DEF Claim
        <4>2. CASE x \notin answers
          BY <1>6, <2>2, <3>4, <4>2
        <4> QED BY <4>1, <4>2
      <3> QED BY <3>1, <3>2, <3>3, <3>4 DEF Claim
    <2>4. Reserved(call[a].key, n)' /\ Kept(n)'
      <3>1. PICK k \in Key : k = call[a].key
        BY <1>6
      <3>2. Reserved(k, n)' /\ Kept(n)'
        BY <1>6, <3>1, Persistent
      <3> QED BY <2>1, <3>1, <3>2
    <2>5. CallInv(a)'
      BY <2>1, <2>4 DEF CallInv
    <2>6. \A x \in answers' \ answers : Reserved(x.key, x.note)' /\ Kept(x.note)'
      BY <2>1, <2>2, <2>4
    <2> QED BY <1>6, <2>1, <2>3, <2>5, <2>6, ClaimsKept, CallsAndAnswers DEF NoteInv
  <1>7. ASSUME NEW a \in Actor, Replays(a) PROVE NoteInv'
    <2>1. PICK n \in NoteId :
            /\ \/ call[a].pc = "lookup" /\ row[call[a].key] # None /\ SameRequest(a)
                  /\ n = row[call[a].key].note
               \/ call[a].pc = "wait" /\ n = call[a].note
            /\ file[n] # None
            /\ Reconcile(a, n)
            /\ UNCHANGED file
      BY <1>7 DEF Replays
    <2>2. call[a].key \in Key /\ call[a].req \in Request
      BY <1>0, <2>1
    <2>3. Claim(n, call[a].key, call[a].req) /\ Reserved(call[a].key, n)
      BY <1>0, <2>1, <2>2, Claimed DEF SameRequest, CallInv, Reserved, Named
    <2>4. Kept(n)
      BY <2>1 DEF Kept
    <2> QED BY <1>6, <2>1, <2>2, <2>3, <2>4 DEF Reconcile
  <1>8. ASSUME NEW a \in Actor, Finish(a) PROVE NoteInv'
    <2>1. /\ call[a].key \in Key /\ call[a].req \in Request /\ call[a].note \in NoteId
          /\ Reserved(call[a].key, call[a].note) /\ Kept(call[a].note)
          /\ Claim(call[a].note, call[a].key, call[a].req)
      BY <1>0, <1>8, Claimed DEF Finish, CallInv, Named
    <2> QED BY <1>6, <1>8, <2>1 DEF Finish
  <1>9. ASSUME NEW a \in Actor, Write(a) PROVE NoteInv'
    <2>1. call[a].key \in Key /\ call[a].req \in Request /\ call[a].note \in NoteId
      BY <1>0, <1>9 DEF Write, Named
    <2>2. /\ call'[a].pc = "finish" /\ call'[a].note = call[a].note
          /\ call'[a].key = call[a].key /\ call'[a].req = call[a].req
          /\ \A b \in Actor : b # a => call'[b] = call[b]
      <3>1. call' = [call EXCEPT ![a] = [call[a] EXCEPT !.pc = "finish", !.stamp = clock + 1]]
        BY <1>9 DEF Write
      <3> QED BY <3>1 DEF NoteType, Call
    <2>3. UNCHANGED <<row, drawn, answers>> /\ call[a].pc \in Named
      BY <1>9 DEF Write, Named
    <2>4. /\ file'[call[a].note] = [key |-> call[a].key, req |-> call[a].req, stamp |-> clock + 1]
          /\ \A n \in NoteId : n # call[a].note => file'[n] = file[n]
      BY <1>9, <2>1 DEF Write, NoteType
    <2>5. file'[call[a].note] # None
      <3>1. clock + 1 \in Nat
        BY DEF NoteType
      <3> QED BY <2>1, <2>4, <3>1, NoteCreateNone DEF File
    <2>6. NoClaim
      <3> SUFFICES ASSUME NEW n \in NoteId, NEW k \in Key, NEW r \in Request, Claim(n, k, r)'
                   PROVE  Claim(n, k, r)
        OBVIOUS
      <3>1. CASE row'[k] # None /\ row'[k].note = n /\ row'[k].req = r
        BY <2>3, <3>1 DEF Claim
      <3>2. CASE file'[n] # None /\ file'[n].key = k /\ file'[n].req = r
        BY <2>3, <2>4, <3>2 DEF Claim
      <3>3. ASSUME NEW b \in Actor, call'[b].pc \in Named, call'[b].note = n,
                   call'[b].key = k, call'[b].req = r
            PROVE  Claim(n, k, r)
        BY <2>2, <2>3, <3>3 DEF Claim
      <3>4. CASE \E x \in answers' : x.note = n /\ x.key = k /\ x.req = r
        BY <2>3, <3>4 DEF Claim
      <3> QED BY <3>1, <3>2, <3>3, <3>4 DEF Claim
    <2>7. CallInv(a)'
      <3>1. PICK k \in Key, n \in NoteId : k = call[a].key /\ n = call[a].note
        BY <2>1
      <3>2. Reserved(k, n) /\ file'[n] # None
        BY <1>0, <1>9, <2>5, <3>1 DEF Write, CallInv
      <3>3. Reserved(k, n)' /\ Kept(n)'
        BY <3>2, Persistent DEF Kept
      <3> QED BY <2>2, <3>1, <3>3 DEF CallInv
    <2> QED BY <2>2, <2>3, <2>6, <2>7, ClaimsKept, CallsAndAnswers DEF NoteInv
  <1>10. ASSUME \/ \E p \in Process : Killed(p)
                \/ \E n \in NoteId : RemoveFile(n)
                \/ \E n \in removed : Forget(n)
                \/ UNCHANGED noteVars
         PROVE  NoteInv'
    <2>1. UNCHANGED <<answers, drawn>>
      BY <1>10 DEF Killed, RemoveFile, Forget, noteVars
    <2>2. \A b \in Actor : call'[b] = call[b] \/ call'[b] = NoCall
      BY <1>10 DEF Killed, RemoveFile, Forget, noteVars
    <2>3. \A n \in NoteId : file'[n] = file[n] \/ file'[n] = None
      BY <1>10 DEF Killed, RemoveFile, Forget, noteVars, NoteType
    <2>4. \A k \in Key : row'[k] = row[k] \/ row'[k] = None
      BY <1>10 DEF Killed, RemoveFile, Forget, noteVars, NoteType
    <2>5. NoClaim
      BY <2>1, <2>2, <2>3, <2>4, NoCallType DEF Claim, Named
    <2>6. ASSUME NEW b \in Actor PROVE CallInv(b)'
      <3>1. CASE call'[b] = call[b]
        BY <1>0, <3>1, CallInvKept
      <3>2. CASE call'[b] = NoCall
        BY <3>2, NoCallType DEF CallInv
      <3> QED BY <2>2, <3>1, <3>2
    <2>7. ASSUME NEW x \in answers PROVE Reserved(x.key, x.note)' /\ Kept(x.note)'
      <3>1. x.key \in Key /\ x.note \in NoteId
        BY DEF NoteType
      <3> QED BY <3>1, Persistent DEF NoteInv
    <2> QED BY <2>1, <2>5, <2>6, <2>7, ClaimsKept DEF NoteInv
  <1> QED BY <1>1, <1>2, <1>3, <1>4, <1>5, <1>7, <1>8, <1>9, <1>10, StepForms DEF NoteNext

-----------------------------------------------------------------------------
(***************************************************************************)
(* The derivation: types, locks, and what its steps do to the notes.       *)
(***************************************************************************)

LEMMA NoOpType == NoOp \in Op /\ NoOp.pc = "idle"
  BY DEF NoOp, Op, OpSteps, Served

\* The request of a derivation and the key it is made under.
LEMMA EnterCreateNotes ==
  ASSUME OpType, NEW a \in Actor, EnterCreate(a) PROVE NoteNext
  <1>1. op[a].req \in Request /\ DeriveKey[a] \in Key
    BY DerivationAssumption DEF EnterCreate, OpType, OpOK
  <1> QED BY <1>1 DEF EnterCreate, NoteNext

\* Every step of the derivation is a step of the notes.
LEMMA NextNotes == ASSUME TypeInv, [Next]_vars PROVE NoteNext
  <1> OpType
    BY DEF TypeInv
  <1>1. ASSUME UNCHANGED noteVars PROVE NoteNext
    BY <1>1 DEF NoteNext
  <1>2. ASSUME NEW a \in Actor, NEW k \in PostKey, NEW r \in Request, Post(a, k, r)
        PROVE  NoteNext
    BY <1>2, DerivationAssumption DEF Post, NoteNext
  <1>3. ASSUME NEW a \in Actor, Posting(a) \/ Creates(a) PROVE NoteNext
    BY <1>3 DEF Posting, Creates, Creating, NoteNext
  <1>4. ASSUME NEW a \in Actor, Complete(a) \/ Fail(a) PROVE NoteNext
    BY <1>4 DEF Complete, Fail, NoteNext
  <1>5. ASSUME NEW a \in Actor, Unlink(a) PROVE NoteNext
    <2>1. op[a].row.note \in NoteId
      BY <1>5 DEF Unlink, OpType, OpOK
    <2> QED BY <1>5, <2>1 DEF Unlink, RemoveFile, NoteNext
  <1>6. ASSUME NEW a \in Actor, DeleteReservations(a) PROVE NoteNext
    <2>1. op[a].row.note \in removed
      BY <1>6 DEF DeleteReservations, OpType, OpOK
    <2> QED BY <1>6, <2>1 DEF DeleteReservations, Forget, NoteNext
  <1>7. ASSUME NEW p \in Process, Kill(p) PROVE NoteNext
    BY <1>7 DEF Kill, NoteNext
  <1>8. ASSUME NEW a \in Actor, \/ Select(a) \/ ReplayJob(a) \/ RefuseRetry(a) \/ InsertJob(a)
                                \/ ReuseJob(a) \/ Start(a) \/ RunDeriver(a) \/ Answered(a)
        PROVE  UNCHANGED noteVars
    BY <1>8 DEF Select, ReplayJob, RefuseRetry, InsertJob, ReuseJob, Start, RunDeriver,
                DeriverRaises, Answered
  <1>9. ASSUME NEW a \in Actor, \/ CancelRead(a) \/ CancelWrite(a) \/ PurgeRead(a) \/ DeleteJob(a)
        PROVE  UNCHANGED noteVars
    BY <1>9 DEF CancelRead, CancelWrite, PurgeRead, DeleteJob
  <1>10. ASSUME NEW a \in Actor,
                \/ \E retry \in BOOLEAN : Derive(a, retry)
                \/ Status(a) \/ Cancel(a) \/ Purge(a)
         PROVE  UNCHANGED noteVars
    BY <1>10 DEF Derive, Status, Cancel, Purge, Begin
  <1>11. ASSUME UNCHANGED vars \/ \E v \in Request : ChangeVisibility(v)
         PROVE  UNCHANGED noteVars
    BY <1>11 DEF vars, ChangeVisibility
  <1> QED BY <1>1, <1>2, <1>3, <1>4, <1>5, <1>6, <1>7, <1>8, <1>9, <1>10, <1>11,
             EnterCreateNotes DEF Next, Deriving, Managing

\* The rows that init and the updates leave.
LEMMA JobTypes ==
  ASSUME OpType
  PROVE  /\ Reset(job) \in Job \cup {None}
         /\ \A id, s : s \in JobStates => Updated(id, s) \in Job \cup {None}
         /\ \A n \in NoteId : job # None => CompletedRow(n) \in Job
  BY DEF OpType, Reset, Updated, CompletedRow, Job, JobStates

\* The step of an actor that takes or gives up only its own service lock.
LEMMA OwnServiceKeeps ==
  ASSUME OpType, NEW a \in Actor,
         op' \in [Actor -> Op], \A b \in Actor : b # a => op'[b] = op[b],
         \/ service' = service
         \/ service' = [p \in Process |-> IF service[p] = a THEN None ELSE service[p]]
         \/ service[ProcessOf[a]] = None /\ service' = [service EXCEPT ![ProcessOf[a]] = a],
         removed \subseteq removed'
  PROVE  /\ \A b \in Actor : b # a => OpOK(b)'
         /\ service' \in [Process -> Actor \cup {None}]
  <1>1. \A b \in Actor : ProcessOf[b] \in Process
    BY NoteCreateAssumption
  <1>2. service' \in [Process -> Actor \cup {None}]
    BY <1>1 DEF OpType
  <1>3. ASSUME NEW b \in Actor, b # a PROVE OpOK(b)'
    <2>1. OpOK(b) /\ op'[b] = op[b]
      BY <1>3 DEF OpType
    <2>2. service[ProcessOf[b]] = b => service'[ProcessOf[b]] = b
      BY <1>1, <1>3, NoteCreateNone DEF OpType
    <2> QED BY <2>1, <2>2 DEF OpOK
  <1> QED BY <1>2, <1>3

LEMMA OpTypeInit == Init => OpType
  <1> SUFFICES ASSUME Init PROVE OpType
    OBVIOUS
  <1>1. ASSUME NEW a \in Actor PROVE OpOK(a)
    BY NoOpType DEF Init, OpOK, Served
  <1>2. op \in [Actor -> Op] /\ jobs \in 0..MaxJobs
    BY NoOpType, DerivationAssumption DEF Init
  <1> QED BY <1>1, <1>2 DEF Init, OpType

\* What a step may do to the operation of its actor.
LEMMA OpStep ==
  ASSUME OpType, NEW a \in Actor, NEW o \in Op, op' = [op EXCEPT ![a] = o],
         o.pc \in Served => service'[ProcessOf[a]] = a,
         o.pc \notin {"idle", "post"} => o.req \in Request,
         o.pc \in {"purge-file", "purge-keys"} => o.row \in Job /\ o.row.note \in NoteId,
         o.pc = "purge-keys" => o.row.note \in removed',
         \/ service' = service
         \/ service' = [p \in Process |-> IF service[p] = a THEN None ELSE service[p]]
         \/ service[ProcessOf[a]] = None /\ service' = [service EXCEPT ![ProcessOf[a]] = a],
         removed \subseteq removed',
         visibility' \in Request, job' \in Job \cup {None}, jobs' \in 0..MaxJobs,
         events' \subseteq Actor
  PROVE  OpType'
  <1>1. op' \in [Actor -> Op] /\ op'[a] = o /\ \A b \in Actor : b # a => op'[b] = op[b]
    BY DEF OpType
  <1>2. OpOK(a)'
    BY <1>1 DEF OpOK
  <1> QED BY <1>1, <1>2, OwnServiceKeeps DEF OpType

\* Goes changes the program counter of its actor and nothing else.
LEMMA GoesOp ==
  ASSUME OpType, NEW a \in Actor, NEW pc \in OpSteps, Goes(a, pc)
  PROVE  \E o \in Op : /\ op' = [op EXCEPT ![a] = o] /\ o.pc = pc
                       /\ o.req = op[a].req /\ o.row = op[a].row /\ o.id = op[a].id
  <1>1. [op[a] EXCEPT !.pc = pc] \in Op
    BY DEF OpType, Op
  <1>2. op' = [op EXCEPT ![a] = [op[a] EXCEPT !.pc = pc]]
    BY DEF Goes
  <1> QED BY <1>1, <1>2 DEF OpType, Op

\* An operation that ends.
LEMMA EndsKeeps ==
  ASSUME OpType, NEW a \in Actor, Ends(a), removed \subseteq removed',
         visibility' = visibility, job' \in Job \cup {None}, jobs' = jobs
  PROVE  OpType'
  <1>1. NoOp \in Op /\ NoOp.pc = "idle" /\ op' = [op EXCEPT ![a] = NoOp]
    BY NoOpType DEF Ends
  <1>2. /\ service' = [p \in Process |-> IF service[p] = a THEN None ELSE service[p]]
        /\ events' \subseteq Actor
    BY DEF Ends, Release, OpType
  <1>3. visibility' \in Request /\ jobs' \in 0..MaxJobs
    BY DEF OpType
  <1>4. NoOp.pc \notin Served
    BY <1>1 DEF Served
  <1> QED BY <1>1, <1>2, <1>3, <1>4, OpStep

\* An operation that begins.
LEMMA BeginKeeps ==
  ASSUME OpType, NEW a \in Actor, NEW pc \in {"select", "cancel", "purge"},
         NEW retry \in BOOLEAN, Begin(a, pc, retry)
  PROVE  OpType'
  <1> DEFINE o == [NoOp EXCEPT !.pc = pc, !.retry = retry, !.req = visibility]
  <1>1. o \in Op /\ o.pc = pc /\ o.req \in Request
    BY DEF NoOp, Op, OpSteps, OpType
  <1>2. op' = [op EXCEPT ![a] = o]
    BY DEF Begin
  <1> HIDE DEF o
  <1>3. pc \notin Served
    BY DEF Served
  <1>4. /\ service' = service /\ removed' = removed
        /\ visibility' \in Request /\ job' \in Job \cup {None}
        /\ jobs' \in 0..MaxJobs /\ events' \subseteq Actor
    BY JobTypes DEF Begin, noteVars, OpType
  <1> QED BY <1>1, <1>2, <1>3, <1>4, OpStep

\* A step that moves the program counter within what OpOK allows.
LEMMA GoesKeeps ==
  ASSUME OpType, NEW a \in Actor, NEW pc \in OpSteps, Goes(a, pc),
         op[a].pc # "idle", op[a].pc # "post",
         pc \in Served => op[a].pc \in Served /\ service' = service,
         pc # "purge-file",
         pc = "purge-keys" => op[a].pc = "purge-file" /\ op[a].row.note \in removed',
         \/ service' = service
         \/ service' = [p \in Process |-> IF service[p] = a THEN None ELSE service[p]],
         removed \subseteq removed', visibility' = visibility, jobs' = jobs,
         job' \in Job \cup {None}, events' \subseteq Actor
  PROVE  OpType'
  <1>1. PICK o \in Op : /\ op' = [op EXCEPT ![a] = o] /\ o.pc = pc
                        /\ o.req = op[a].req /\ o.row = op[a].row
    BY GoesOp
  <1>2. OpOK(a) /\ visibility' \in Request /\ jobs' \in 0..MaxJobs
    BY DEF OpType
  <1>3. o.pc \in Served => service'[ProcessOf[a]] = a
    BY <1>1, <1>2 DEF OpOK
  <1>4. o.req \in Request
    BY <1>1, <1>2 DEF OpOK
  <1>5. /\ (o.pc \in {"purge-file", "purge-keys"} => o.row \in Job /\ o.row.note \in NoteId)
        /\ (o.pc = "purge-keys" => o.row.note \in removed')
    BY <1>1, <1>2 DEF OpOK
  <1> QED BY <1>1, <1>2, <1>3, <1>4, <1>5, OpStep

LEMMA OpTypeNext == ASSUME TypeInv, [Next]_vars PROVE OpType'
  <1> NoteType /\ OpType
    BY DEF TypeInv
  <1>0. removed \subseteq removed'
    BY NextNotes, Persistent
  <1>00. ASSUME NEW a \in Actor PROVE OpOK(a) /\ op[a] \in Op /\ ProcessOf[a] \in Process
    BY NoteCreateAssumption DEF OpType
  <1>1. ASSUME UNCHANGED <<service, op>>, visibility' \in Request, job' \in Job \cup {None},
               jobs' = jobs, events' \subseteq Actor
        PROVE  OpType'
    BY <1>0, <1>1 DEF OpType, OpOK
  <1>2. ASSUME \/ UNCHANGED vars
               \/ \E v \in Request : ChangeVisibility(v)
               \/ \E a \in Actor : Status(a) \/ Creates(a)
        PROVE  OpType'
    <2>1. /\ UNCHANGED <<service, op, jobs, events>> /\ visibility' \in Request
          /\ job' \in Job \cup {None}
      BY <1>2, JobTypes DEF vars, ChangeVisibility, Status, Creates, derivationVars, OpType
    <2> QED BY <1>1, <2>1 DEF OpType
  <1>3. ASSUME NEW a \in Actor, (\E retry \in BOOLEAN : Derive(a, retry)) \/ Cancel(a) \/ Purge(a)
        PROVE  OpType'
    BY <1>3, BeginKeeps DEF Derive, Cancel, Purge
  <1>4. ASSUME NEW a \in Actor, Select(a) PROVE OpType'
    <2>1. op' = [op EXCEPT ![a] = [op[a] EXCEPT !.pc = "decide", !.row = job]]
      BY <1>4 DEF Select
    <2>2. PICK o : o = [op[a] EXCEPT !.pc = "decide", !.row = job]
      OBVIOUS
    <2>3. o \in Op /\ o.pc = "decide" /\ o.req = op[a].req
      BY <1>00, <2>2 DEF OpType, Op, OpSteps, Served
    <2>4. o.req \in Request
      BY <1>00, <1>4, <2>3 DEF Select, OpOK
    <2>5. /\ service[ProcessOf[a]] = None /\ service' = [service EXCEPT ![ProcessOf[a]] = a]
          /\ service'[ProcessOf[a]] = a
      BY <1>00, <1>4 DEF Select, OpType
    <2>6. /\ visibility' \in Request /\ job' \in Job \cup {None}
          /\ jobs' \in 0..MaxJobs /\ events' \subseteq Actor
      BY <1>4 DEF Select, OpType
    <2> QED BY <1>0, <2>1, <2>2, <2>3, <2>4, <2>5, <2>6, OpStep
  <1>5. ASSUME NEW a \in Actor, \/ ReplayJob(a) \/ RefuseRetry(a) \/ Fail(a) \/ Answered(a)
                                \/ DeleteJob(a)
        PROVE  OpType'
    <2>1. /\ Ends(a) /\ visibility' = visibility /\ jobs' = jobs
          /\ job' \in Job \cup {None}
      BY <1>5, JobTypes
      DEF ReplayJob, RefuseRetry, Fail, Answered, DeleteJob, OpType, JobStates
    <2> QED BY <1>0, <2>1, EndsKeeps
  <1>6. ASSUME NEW a \in Actor, InsertJob(a) PROVE OpType'
    <2>1. CASE Ends(a) /\ UNCHANGED <<job, jobs>>
      BY <1>0, <1>6, <2>1, EndsKeeps DEF InsertJob, OpType
    <2>2. CASE /\ jobs' = jobs + 1
               /\ job' = [id |-> jobs + 1, status |-> "pending", note |-> None]
               /\ op' = [op EXCEPT ![a].pc = "start", ![a].id = jobs + 1]
               /\ UNCHANGED <<service, events>>
      <3>1. jobs + 1 \in JobId /\ jobs' \in 0..MaxJobs
        BY <1>6, <2>2, DerivationAssumption DEF InsertJob, OpType, JobId
      <3>2. op' = [op EXCEPT ![a] = [op[a] EXCEPT !.pc = "start", !.id = jobs + 1]]
        BY <2>2
      <3>3. PICK o : o = [op[a] EXCEPT !.pc = "start", !.id = jobs + 1]
        OBVIOUS
      <3>4. o \in Op /\ o.pc = "start" /\ o.req = op[a].req
        BY <1>00, <3>1, <3>3 DEF Op, OpSteps, Served
      <3>5. o.req \in Request /\ service'[ProcessOf[a]] = a
        BY <1>00, <1>6, <2>2, <3>4 DEF InsertJob, OpOK, Served
      <3>6. /\ visibility' \in Request /\ job' \in Job \cup {None} /\ events' \subseteq Actor
        BY <1>6, <2>2, <3>1 DEF InsertJob, OpType, Job, JobStates
      <3> QED BY <1>0, <2>2, <3>1, <3>2, <3>3, <3>4, <3>5, <3>6, OpStep
    <2> QED BY <1>6, <2>1, <2>2 DEF InsertJob
  <1>7. ASSUME NEW a \in Actor, ReuseJob(a) PROVE OpType'
    <2>1. op[a].row.id \in JobId
      BY <1>00, <1>7 DEF ReuseJob, Op, Job
    <2>2. op' = [op EXCEPT ![a] = [op[a] EXCEPT !.pc = "start", !.id = op[a].row.id]]
      BY <1>7 DEF ReuseJob
    <2>3. PICK o : o = [op[a] EXCEPT !.pc = "start", !.id = op[a].row.id]
      OBVIOUS
    <2>4. o \in Op /\ o.pc = "start" /\ o.req = op[a].req
      BY <1>00, <2>1, <2>3 DEF Op, OpSteps, Served
    <2>5. o.req \in Request /\ service' = service /\ service'[ProcessOf[a]] = a
      BY <1>00, <1>7, <2>4 DEF ReuseJob, OpOK, Served
    <2>6. /\ visibility' \in Request /\ job' \in Job \cup {None}
          /\ jobs' \in 0..MaxJobs /\ events' \subseteq Actor
      BY <1>7, JobTypes DEF ReuseJob, OpType, JobStates
    <2> QED BY <1>0, <2>2, <2>3, <2>4, <2>5, <2>6, OpStep
  <1>8. ASSUME NEW a \in Actor, Start(a) PROVE OpType'
    <2>1. job' \in Job \cup {None} /\ events' \subseteq Actor
      BY <1>8, JobTypes DEF Start, OpType, JobStates
    <2> QED BY <1>0, <1>8, <2>1, GoesKeeps DEF Start, OpSteps, Served
  <1>9. ASSUME NEW a \in Actor, RunDeriver(a) \/ EnterCreate(a) PROVE OpType'
    <2>1. PICK pc \in {"enter", "create", "fail"} : Goes(a, pc)
      BY <1>9 DEF RunDeriver, DeriverRaises, EnterCreate
    <2> QED BY <1>0, <1>9, <2>1, GoesKeeps DEF RunDeriver, EnterCreate, OpType, OpSteps, Served
  <1>10. ASSUME NEW a \in Actor, Complete(a) PROVE OpType'
    <2>1. call[a].note \in NoteId
      BY <1>10 DEF Complete, NoteType, CallOK, Named
    <2>2. job' \in Job \cup {None}
      BY <1>10, <2>1, JobTypes DEF Complete, OpType
    <2>3. /\ service' = [p \in Process |-> IF service[p] = a THEN None ELSE service[p]]
          /\ events' \subseteq Actor
      BY <1>10 DEF Complete, Release, OpType
    <2> QED BY <1>0, <1>10, <2>2, <2>3, GoesKeeps DEF Complete, OpSteps, Served
  <1>11. ASSUME NEW a \in Actor, NEW k, NEW r, Post(a, k, r) PROVE OpType'
    <2>1. PICK o \in Op : op' = [op EXCEPT ![a] = o] /\ o.pc = "post"
      BY <1>11, GoesOp DEF Post, OpSteps
    <2> QED BY <1>0, <1>11, <2>1, OpStep DEF Post, OpType, Served
  <1>12. ASSUME NEW a \in Actor, Posting(a) PROVE OpType'
    <2>1. CASE UNCHANGED op
      BY <1>1, <1>12, <2>1 DEF Posting, OpType
    <2>2. CASE op' = [op EXCEPT ![a] = NoOp]
      BY <1>0, <1>12, <2>2, NoOpType, OpStep DEF Posting, OpType, Served
    <2> QED BY <1>12, <2>1, <2>2 DEF Posting
  <1>13. ASSUME NEW a \in Actor, CancelRead(a) PROVE OpType'
    <2>1. CASE Ends(a)
      BY <1>0, <1>13, <2>1, EndsKeeps DEF CancelRead, OpType
    <2>2. CASE ~Ends(a)
      <3>1. op' = [op EXCEPT ![a] = [op[a] EXCEPT !.pc = "cancel-row", !.row = job]]
        BY <1>13, <2>2 DEF CancelRead
      <3>2. PICK o : o = [op[a] EXCEPT !.pc = "cancel-row", !.row = job]
        OBVIOUS
      <3>3. o \in Op /\ o.pc = "cancel-row" /\ o.req = op[a].req
        BY <1>00, <3>2 DEF OpType, Op, OpSteps
      <3>4. o.req \in Request
        BY <1>00, <1>13, <3>3 DEF CancelRead, OpOK
      <3>5. service' = service /\ events' \subseteq Actor
        BY <1>13, <2>2 DEF CancelRead, RunningHere, OpType
      <3> QED BY <1>0, <1>13, <3>1, <3>2, <3>3, <3>4, <3>5, OpStep
              DEF CancelRead, OpType, Served
    <2> QED BY <2>1, <2>2
  <1>14. ASSUME NEW a \in Actor, CancelWrite(a) PROVE OpType'
    <2>1. job' \in Job \cup {None} /\ events' \subseteq Actor
      BY <1>14, JobTypes DEF CancelWrite, OpType, JobStates
    <2> QED BY <1>0, <1>14, <2>1, GoesKeeps DEF CancelWrite, OpSteps, Served
  <1>15. ASSUME NEW a \in Actor, PurgeRead(a) PROVE OpType'
    <2>1. CASE Ends(a)
      BY <1>0, <1>15, <2>1, EndsKeeps DEF PurgeRead, OpType
    <2>2. CASE ~Ends(a)
      <3> DEFINE pc == IF job.note = None THEN "purge-row" ELSE "purge-file"
      <3>1. op' = [op EXCEPT ![a] = [op[a] EXCEPT !.row = job, !.pc = pc]]
        BY <1>15, <2>2 DEF PurgeRead
      <3>2. PICK o : o = [op[a] EXCEPT !.row = job, !.pc = pc]
        OBVIOUS
      <3>3. o \in Op /\ o.pc = pc /\ o.req = op[a].req /\ o.row = job
        BY <1>00, <3>2 DEF OpType, Op, OpSteps
      <3>4. o.req \in Request
        BY <1>00, <1>15, <3>3 DEF PurgeRead, OpOK
      <3>5. service' = service /\ events' = events
        BY <1>15, <2>2 DEF PurgeRead
      <3>6. o.pc = "purge-file" => o.row \in Job /\ o.row.note \in NoteId
        <4>1. job \in Job
          BY <1>15, <2>2 DEF PurgeRead, OpType
        <4> QED BY <3>3, <4>1 DEF Job
      <3>7. o.pc \in {"purge-row", "purge-file"}
        BY <3>3
      <3> QED BY <1>0, <1>15, <3>1, <3>2, <3>3, <3>4, <3>5, <3>6, <3>7, OpStep
              DEF PurgeRead, OpType, Served
    <2> QED BY <2>1, <2>2
  <1>16. ASSUME NEW a \in Actor, Unlink(a) PROVE OpType'
    <2>1. CASE Ends(a)
      BY <1>0, <1>16, <2>1, EndsKeeps DEF Unlink, OpType
    <2>2. CASE ~Ends(a)
      <3>1. /\ Goes(a, "purge-keys") /\ UNCHANGED <<service, events, visibility, job, jobs>>
            /\ op[a].pc = "purge-file" /\ op[a].row.note \in removed'
        BY <1>16, <2>2 DEF Unlink
      <3> QED BY <1>0, <3>1, GoesKeeps DEF OpType, OpSteps, Served
    <2> QED BY <2>1, <2>2
  <1>17. ASSUME NEW a \in Actor, DeleteReservations(a) PROVE OpType'
    BY <1>0, <1>17, GoesKeeps DEF DeleteReservations, OpType, OpSteps, Served
  <1>18. ASSUME NEW p \in Process, Kill(p) PROVE OpType'
    <2>1. /\ op' = [a \in Actor |-> IF ProcessOf[a] = p THEN NoOp ELSE op[a]]
          /\ service' = [service EXCEPT ![p] = None]
          /\ events' \subseteq Actor /\ UNCHANGED <<visibility, job, jobs>>
      BY <1>18 DEF Kill, OpType
    <2>2. ASSUME NEW b \in Actor PROVE OpOK(b)'
      <3>1. CASE ProcessOf[b] = p
        BY <2>1, <3>1, NoOpType DEF OpOK, Served
      <3>2. CASE ProcessOf[b] # p
        BY <1>0, <1>00, <2>1, <3>2 DEF OpOK, OpType
      <3> QED BY <3>1, <3>2
    <2> QED BY <2>1, <2>2, NoOpType DEF OpType
  <1> QED BY <1>2, <1>3, <1>4, <1>5, <1>6, <1>7, <1>8, <1>9, <1>10, <1>11, <1>12, <1>13, <1>14,
             <1>15, <1>16, <1>17, <1>18 DEF Next, Deriving, Managing

-----------------------------------------------------------------------------
(***************************************************************************)
(* The note of a completed derivation.                                     *)
(***************************************************************************)

\* A row becomes completed in Complete only.
LEMMA JobSteps ==
  ASSUME TypeInv, [Next]_vars
  PROVE  /\ \/ job' = job \/ job' = None \/ job'.status # "completed"
            \/ \E a \in Actor : Complete(a) /\ job # None /\ job' = CompletedRow(call[a].note)
         /\ written \subseteq written'
  <1> DEFINE Goal ==
        /\ \/ job' = job \/ job' = None \/ job'.status # "completed"
           \/ \E a \in Actor : Complete(a) /\ job # None /\ job' = CompletedRow(call[a].note)
        /\ written \subseteq written'
  <1> OpType
    BY DEF TypeInv
  <1>1. Reset(job) = job \/ Reset(job).status # "completed"
    BY DEF Reset, OpType, Job
  <1>2. \A id, s : s # "completed" => Updated(id, s) = job \/ Updated(id, s).status # "completed"
    BY DEF Updated, OpType, Job
  <1>3. ASSUME NEW a \in Actor, Complete(a) PROVE Goal
    BY <1>3 DEF Complete
  <1>4. ASSUME NEW a \in Actor, Deriving(a), ~Complete(a) PROVE Goal
    <2>1. CASE \/ Select(a) \/ ReplayJob(a) \/ RefuseRetry(a) \/ RunDeriver(a)
               \/ EnterCreate(a) \/ Creates(a)
      BY <2>1 DEF Select, ReplayJob, RefuseRetry, RunDeriver, EnterCreate, Creates, derivationVars
    <2>2. CASE InsertJob(a)
      BY <2>2 DEF InsertJob
    <2>3. CASE ReuseJob(a)
      BY <1>2, <2>3 DEF ReuseJob
    <2>4. CASE Start(a)
      BY <1>2, <2>4 DEF Start
    <2>5. CASE Fail(a)
      BY <1>2, <2>5 DEF Fail
    <2>6. CASE Answered(a)
      BY <1>1, <2>6 DEF Answered
    <2> QED BY <1>4, <2>1, <2>2, <2>3, <2>4, <2>5, <2>6 DEF Deriving
  <1>5. ASSUME NEW a \in Actor, Managing(a) PROVE Goal
    <2>1. CASE CancelWrite(a)
      BY <1>2, <2>1 DEF CancelWrite
    <2>2. CASE \/ CancelRead(a) \/ PurgeRead(a) \/ Unlink(a) \/ DeleteReservations(a)
               \/ DeleteJob(a)
      BY <2>2 DEF CancelRead, PurgeRead, Unlink, DeleteReservations, DeleteJob
    <2> QED BY <1>5, <2>1, <2>2 DEF Managing
  <1>6. ASSUME NEW a \in Actor, \/ \E retry \in BOOLEAN : Derive(a, retry)
                                \/ Status(a) \/ Cancel(a) \/ Purge(a)
        PROVE  Goal
    BY <1>1, <1>6 DEF Derive, Status, Cancel, Purge, Begin
  <1>7. ASSUME \/ \E v \in Request : ChangeVisibility(v)
               \/ \E a \in Actor, k \in PostKey, r \in Request : Post(a, k, r)
               \/ \E a \in Actor : Posting(a)
               \/ \E p \in Process : Kill(p)
               \/ UNCHANGED vars
        PROVE  Goal
    BY <1>7 DEF ChangeVisibility, Post, Posting, Kill, vars, derivationVars
  <1> QED BY <1>3, <1>4, <1>5, <1>6, <1>7 DEF Next

LEMMA JobInvNext == ASSUME TypeInv, NoteInv, JobInv, [Next]_vars PROVE JobInv'
  <1>0. NoteType /\ NoteNext
    BY NextNotes DEF TypeInv
  <1>1. ASSUME NEW n \in NoteId, Kept(n) PROVE Kept(n)'
    BY <1>0, <1>1, Persistent
  <1>2. CASE job' = None \/ job'.status # "completed"
    BY <1>2 DEF JobInv
  <1>3. CASE job' = job
    <2> SUFFICES ASSUME job # None, job.status = "completed"
                 PROVE  job'.note \in NoteId /\ job'.note \in written' /\ Kept(job.note)'
      BY <1>3 DEF JobInv
    <2>1. PICK n \in NoteId : n = job.note /\ n \in written /\ Kept(n)
      BY DEF JobInv
    <2>2. Kept(n)' /\ n \in written' /\ n = job'.note
      BY <1>1, <1>3, <2>1, JobSteps
    <2> QED BY <2>2
  <1>4. ASSUME NEW a \in Actor, Complete(a), job # None, job' = CompletedRow(call[a].note)
        PROVE  JobInv'
    <2>1. PICK n \in NoteId : n = call[a].note /\ Kept(n)
      BY <1>0, <1>4 DEF Complete, NoteType, CallOK, Named, NoteInv, CallInv
    <2>2. job'.note = n /\ n \in written' /\ Kept(n)'
      BY <1>1, <1>4, <2>1 DEF Complete, CompletedRow, TypeInv, OpType, Job
    <2> QED BY <2>2 DEF JobInv
  <1> QED BY <1>2, <1>3, <1>4, JobSteps

-----------------------------------------------------------------------------
(***************************************************************************)
(* Runs and the rows they leave.                                           *)
(***************************************************************************)

\* What init and an update do to a row that is open or to be settled.
LEMMA OpenRows ==
  ASSUME OpType
  PROVE  /\ Open(Reset(job)) => Open(job) /\ Reset(job).id = job.id
         /\ \A id, st : Open(Updated(id, st)) =>
               /\ Updated(id, st).id = job.id
               /\ job.id # id => Open(job)
               /\ st \notin {"pending", "running"} => job.id # id
         /\ \A n : job # None => ~Open(CompletedRow(n))
  BY DEF OpType, Open, Reset, Updated, CompletedRow, Job

\* The step of one actor: an open row is the actor's own afterwards, or was
\* open before and not the actor's.
LEMMA SettleStep ==
  ASSUME OpType, EveryRunSettles, NEW a \in Actor,
         \A b \in Actor : b # a => op'[b] = op[b],
         \A id \in abandoned : id \in abandoned' \/ (a \in Running' /\ op'[a].id = id),
         Open(job') => \/ a \in Running' /\ op'[a].id = job'.id
                       \/ /\ Open(job) /\ job'.id = job.id
                          /\ a \in Running => op[a].id # job.id
  PROVE  EveryRunSettles'
  <1> SUFFICES ASSUME Open(job')
               PROVE  job'.id \in abandoned' \/ \E b \in Running' : op'[b].id = job'.id
    BY DEF EveryRunSettles, Open
  <1>1. CASE a \in Running' /\ op'[a].id = job'.id
    BY <1>1
  <1>2. CASE Open(job) /\ job'.id = job.id /\ (a \in Running => op[a].id # job.id)
    <2>1. CASE job.id \in abandoned
      BY <1>2, <2>1
    <2>2. ASSUME NEW b \in Running, op[b].id = job.id
          PROVE  \E c \in Running' : op'[c].id = job'.id
      <3>1. b \in Actor /\ b # a
        BY <1>2, <2>2 DEF Running
      <3>2. op'[b] = op[b]
        BY <3>1
      <3>3. b \in Running'
        BY <2>2, <3>1, <3>2 DEF Running
      <3> QED BY <1>2, <2>2, <3>2, <3>3
    <2> QED BY <1>2, <2>1, <2>2 DEF EveryRunSettles, Open
  <1> QED BY <1>1, <1>2

LEMMA SettleNext == ASSUME TypeInv, EveryRunSettles, [Next]_vars PROVE EveryRunSettles'
  <1> OpType
    BY DEF TypeInv
  \* a step of an actor that runs no derivation, before and after
  <1>1. ASSUME NEW a \in Actor, a \notin Running, \A b \in Actor : b # a => op'[b] = op[b],
               abandoned' = abandoned, Open(job') => Open(job) /\ job'.id = job.id
        PROVE  EveryRunSettles'
    BY <1>1, SettleStep
  <1>2. ASSUME op' = op, abandoned' = abandoned, Open(job') => Open(job) /\ job'.id = job.id
        PROVE  EveryRunSettles'
    BY <1>2 DEF EveryRunSettles, Open, Running
  <1>3. ASSUME \/ \E v \in Request : ChangeVisibility(v)
               \/ \E a \in Actor : Status(a) \/ Creates(a)
               \/ UNCHANGED vars
        PROVE  EveryRunSettles'
    <2>1. op' = op /\ abandoned' = abandoned /\ job' \in {job, Reset(job)}
      BY <1>3 DEF ChangeVisibility, Status, Creates, vars, derivationVars
    <2> QED BY <1>2, <2>1, OpenRows
  <1>4. ASSUME NEW a \in Actor, \/ \E retry \in BOOLEAN : Derive(a, retry)
                                \/ Cancel(a) \/ Purge(a)
                                \/ \E k \in PostKey, r \in Request : Post(a, k, r)
        PROVE  EveryRunSettles'
    <2>1. op[a] = NoOp /\ abandoned' = abandoned /\ job' \in {job, Reset(job)}
      BY <1>4 DEF Derive, Cancel, Purge, Begin, Post
    <2>2. \A b \in Actor : b # a => op'[b] = op[b]
      BY <1>4 DEF Derive, Cancel, Purge, Begin, Post, Goes, OpType
    <2>3. a \notin Running
      BY <2>1, NoOpType DEF Running
    <2> QED BY <1>1, <2>1, <2>2, <2>3, OpenRows
  <1>5. ASSUME NEW a \in Actor, \/ Select(a) \/ ReplayJob(a) \/ RefuseRetry(a) \/ Posting(a)
                                \/ CancelRead(a) \/ PurgeRead(a) \/ Unlink(a)
                                \/ DeleteReservations(a)
        PROVE  EveryRunSettles'
    <2>1. /\ op[a].pc \in {"select", "decide", "post", "cancel", "purge", "purge-file", "purge-keys"}
          /\ job' = job /\ abandoned' = abandoned
      BY <1>5 DEF Select, ReplayJob, RefuseRetry, Posting, CancelRead, PurgeRead, Unlink,
                  DeleteReservations
    <2>2. \A b \in Actor : b # a => op'[b] = op[b]
      BY <1>5 DEF Select, ReplayJob, RefuseRetry, Posting, CancelRead, PurgeRead, Unlink,
                  DeleteReservations, Goes, Ends, OpType
    <2>3. a \notin Running
      BY <2>1 DEF Running
    <2> QED BY <1>1, <2>1, <2>2, <2>3
  <1>6. ASSUME NEW a \in Actor, Answered(a) \/ CancelWrite(a) \/ DeleteJob(a)
        PROVE  EveryRunSettles'
    <2>1. op[a].pc \in {"status", "cancel-row", "purge-row"} /\ abandoned' = abandoned
      BY <1>6 DEF Answered, CancelWrite, DeleteJob
    <2>2. job' \in {job, None, Reset(job), Updated(op[a].row.id, "canceled")}
      BY <1>6 DEF Answered, CancelWrite, DeleteJob
    <2>3. \A b \in Actor : b # a => op'[b] = op[b]
      BY <1>6 DEF Answered, CancelWrite, DeleteJob, Goes, Ends, OpType
    <2>4. a \notin Running
      BY <2>1 DEF Running
    <2>5. Open(job') => Open(job) /\ job'.id = job.id
      BY <2>2, OpenRows DEF Open
    <2> QED BY <1>1, <2>1, <2>3, <2>4, <2>5
  <1>7. ASSUME NEW a \in Actor, InsertJob(a) PROVE EveryRunSettles'
    <2>1. a \notin Running /\ abandoned' = abandoned /\ \A b \in Actor : b # a => op'[b] = op[b]
      BY <1>7 DEF InsertJob, Ends, Running, OpType
    <2>2. CASE job' = job
      BY <1>1, <2>1, <2>2
    <2>3. CASE job' # job
      <3>1. /\ job' = [id |-> jobs + 1, status |-> "pending", note |-> None]
            /\ op' = [op EXCEPT ![a].pc = "start", ![a].id = jobs + 1]
        BY <1>7, <2>3 DEF InsertJob
      <3>2. op'[a].pc = "start" /\ op'[a].id = job'.id
        BY <3>1 DEF OpType, Op
      <3>3. a \in Running'
        BY <3>2 DEF Running
      <3> QED BY <2>1, <3>2, <3>3, SettleStep
    <2> QED BY <2>2, <2>3
  <1>8. ASSUME NEW a \in Actor, ReuseJob(a) PROVE EveryRunSettles'
    <2>1. /\ a \notin Running /\ abandoned' = abandoned \ {op[a].row.id}
          /\ job' = Updated(op[a].row.id, "pending")
          /\ \A b \in Actor : b # a => op'[b] = op[b]
      BY <1>8 DEF ReuseJob, Running, OpType
    <2>2. op'[a].pc = "start" /\ op'[a].id = op[a].row.id
      BY <1>8 DEF ReuseJob, OpType, Op
    <2>3. a \in Running'
      BY <2>2 DEF Running
    <2>4. Open(job') => job'.id = op[a].row.id \/ (Open(job) /\ job'.id = job.id)
      BY <2>1, OpenRows
    <2> QED BY <2>1, <2>2, <2>3, <2>4, SettleStep
  \* a step of a run that goes on
  <1>9. ASSUME NEW a \in Actor, Start(a) \/ RunDeriver(a) \/ EnterCreate(a)
        PROVE  EveryRunSettles'
    <2>1. /\ job' \in {job, Updated(op[a].id, "running")} /\ abandoned' = abandoned
          /\ \A b \in Actor : b # a => op'[b] = op[b]
      BY <1>9 DEF Start, RunDeriver, EnterCreate, DeriverRaises, Goes, OpType
    <2>2. op'[a].pc \in {"deriver", "enter", "create", "fail"} /\ op'[a].id = op[a].id
      BY <1>9 DEF Start, RunDeriver, EnterCreate, DeriverRaises, Goes, OpType, Op
    <2>3. a \in Running'
      BY <2>2 DEF Running
    <2>4. Open(job') => job'.id = op[a].id
                        \/ (Open(job) /\ job'.id = job.id /\ op[a].id # job.id)
      BY <2>1, OpenRows
    <2> QED BY <2>1, <2>2, <2>3, <2>4, SettleStep
  \* the last update of a run
  <1>10. ASSUME NEW a \in Actor, Complete(a) \/ Fail(a) PROVE EveryRunSettles'
    <2>1. abandoned' = abandoned /\ \A b \in Actor : b # a => op'[b] = op[b]
      BY <1>10 DEF Complete, Fail, Goes, Ends, OpType
    <2>2. Open(job') => Open(job) /\ job'.id = job.id /\ op[a].id # job.id
      <3>1. CASE Complete(a)
        BY <3>1, OpenRows DEF Complete, Open
      <3>2. CASE Fail(a)
        <4>1. PICK st \in {"canceled", "failed"} : job' = Updated(op[a].id, st)
          BY <3>2 DEF Fail
        <4> QED BY <4>1, OpenRows
      <3> QED BY <1>10, <3>1, <3>2
    <2> QED BY <2>1, <2>2, SettleStep
  <1>11. ASSUME NEW p \in Process, Kill(p) PROVE EveryRunSettles'
    <2>1. /\ op' = [a \in Actor |-> IF ProcessOf[a] = p THEN NoOp ELSE op[a]] /\ job' = job
          /\ abandoned' = abandoned \cup {op[a].id : a \in {b \in Running : ProcessOf[b] = p}}
      BY <1>11 DEF Kill
    <2> SUFFICES ASSUME NEW b \in Running, op[b].id = job.id
                 PROVE  job.id \in abandoned' \/ \E c \in Running' : op'[c].id = job.id
      BY <2>1 DEF EveryRunSettles
    <2>2. b \in Actor
      BY DEF Running
    <2>3. CASE ProcessOf[b] = p
      BY <2>1, <2>3
    <2>4. CASE ProcessOf[b] # p
      <3>1. op'[b] = op[b]
        BY <2>1, <2>2, <2>4
      <3>2. b \in Running'
        BY <2>2, <3>1 DEF Running
      <3> QED BY <3>1, <3>2
    <2> QED BY <2>3, <2>4
  <1> QED BY <1>3, <1>4, <1>5, <1>6, <1>7, <1>8, <1>9, <1>10, <1>11 DEF Next, Deriving, Managing

-----------------------------------------------------------------------------
(***************************************************************************)
(* Who waits for whom.                                                     *)
(***************************************************************************)

LEMMA LockOwnedNext == ASSUME NoteType, LockOwned, NoteNext PROVE LockOwned'
  <1>0. lock \in [Process -> Actor \cup {None}] /\ \A a \in Actor : ProcessOf[a] \in Process
    BY NoteCreateAssumption DEF NoteType
  <1>1. ASSUME NEW p \in Process, lock' = [lock EXCEPT ![p] = None] \/ lock' = lock
        PROVE  LockOwned'
    BY <1>0, <1>1 DEF LockOwned
  <1>2. ASSUME NEW a \in Actor, lock' = [lock EXCEPT ![ProcessOf[a]] = a] PROVE LockOwned'
    BY <1>0, <1>2 DEF LockOwned
  <1>3. ASSUME NEW a \in Actor, \/ \E k \in Key, r \in Request : CreateNote(a, k, r)
        PROVE  LockOwned'
    BY <1>2, <1>3 DEF CreateNote
  <1>4. ASSUME NEW a \in Actor, \/ Lookup(a) \/ Insert(a) \/ Wait(a) \/ Write(a) \/ Finish(a)
                                \/ Leave(a) \/ Fault(a)
        PROVE  LockOwned'
    <2>1. lock' = [lock EXCEPT ![ProcessOf[a]] = None] \/ lock' = lock
      <3>1. CASE Lookup(a) \/ Insert(a) \/ Wait(a) \/ Fault(a)
        BY <3>1, StepForms
        DEF Draws, Reserves, Adopts, Replays, Reconcile, Breaks, End
      <3>2. CASE Write(a) \/ Finish(a) \/ Leave(a)
        BY <3>2 DEF Write, Finish, End, Leave
      <3> QED BY <1>4, <3>1, <3>2
    <2> QED BY <1>0, <1>1, <2>1
  <1>5. ASSUME NEW p \in Process, Killed(p) PROVE LockOwned'
    BY <1>1, <1>5 DEF Killed
  <1>6. ASSUME \/ \E n \in NoteId : RemoveFile(n)
               \/ \E n \in removed : Forget(n)
               \/ UNCHANGED noteVars
        PROVE  LockOwned'
    <2>1. lock' = lock
      BY <1>6 DEF RemoveFile, Forget, noteVars
    <2> QED BY <2>1 DEF LockOwned
  <1> QED BY <1>3, <1>4, <1>5, <1>6 DEF NoteNext

\* A step of create_note is of one call.
LEMMA OneCall ==
  ASSUME NoteType, NEW a \in Actor,
         \/ \E k, r : CreateNote(a, k, r)
         \/ Creating(a) \/ Fault(a) \/ Leave(a)
  PROVE  \A b \in Actor : b # a => call'[b] = call[b]
  <1>0. call \in [Actor -> Call]
    BY DEF NoteType
  <1> DEFINE Others == \A b \in Actor : b # a => call'[b] = call[b]
  <1>1. ASSUME NEW pc, NEW n, Goto(a, pc, n) PROVE Others
    BY <1>0, <1>1 DEF Goto
  <1>2. CASE Lookup(a) \/ Insert(a) \/ Wait(a) \/ Fault(a)
    <2>1. CASE Draws(a)
      BY <1>1, <2>1 DEF Draws
    <2>2. CASE Reserves(a)
      BY <1>1, <2>2 DEF Reserves
    <2>3. CASE Adopts(a)
      BY <1>1, <2>3 DEF Adopts
    <2>4. CASE Replays(a)
      BY <1>1, <2>4 DEF Replays, Reconcile, End
    <2>5. CASE Breaks(a)
      BY <1>1, <2>5 DEF Breaks, End
    <2> HIDE DEF Others
    <2> QED BY <1>2, <2>1, <2>2, <2>3, <2>4, <2>5, StepForms
  <1>3. CASE Finish(a)
    BY <1>1, <1>3 DEF Finish, End
  <1>4. CASE Write(a)
    BY <1>0, <1>4 DEF Write
  <1>5. CASE (\E k, r : CreateNote(a, k, r)) \/ Leave(a)
    BY <1>0, <1>5 DEF CreateNote, Leave
  <1> QED BY <1>2, <1>3, <1>4, <1>5 DEF Creating

\* The step of one actor keeps WaitInv.
LEMMA WaitStep ==
  ASSUME TypeInv, WaitInv, LockOwned', NEW a \in Actor,
         \A b \in Actor : b # a => op'[b] = op[b] /\ call'[b] = call[b],
         call'[a].pc # "idle" => op'[a].pc \in {"create", "post"},
         \/ service' = [p \in Process |-> IF service[p] = a THEN None ELSE service[p]]
         \/ service' = service /\ (op[a].pc \in Served => op'[a].pc \in Served)
         \/ service' = [service EXCEPT ![ProcessOf[a]] = a] /\ op'[a].pc \in Served
  PROVE  WaitInv'
  <1>0. service \in [Process -> Actor \cup {None}] /\ ProcessOf[a] \in Process
    BY NoteCreateAssumption DEF TypeInv, OpType
  <1>1. ASSUME NEW p \in Process, service'[p] # None
        PROVE  ProcessOf[service'[p]] = p /\ op'[service'[p]].pc \in Served
    <2>1. CASE service'[p] = a
      BY <1>0, <2>1, NoteCreateNone DEF WaitInv
    <2>2. CASE service'[p] # a
      <3>1. service'[p] = service[p] /\ service[p] \in Actor
        BY <1>0, <1>1, <2>2
      <3> QED BY <1>1, <2>2, <3>1 DEF WaitInv
    <2> QED BY <2>1, <2>2
  <1>2. ASSUME NEW b \in Actor, call'[b].pc # "idle" PROVE op'[b].pc \in {"create", "post"}
    BY <1>2 DEF WaitInv
  <1> QED BY <1>1, <1>2 DEF WaitInv, LockOwned

LEMMA WaitInvNext == ASSUME TypeInv, WaitInv, [Next]_vars PROVE WaitInv'
  <1> NoteType /\ OpType
    BY DEF TypeInv
  <1>0. LockOwned'
    BY NextNotes, LockOwnedNext DEF WaitInv
  <1>00. ASSUME NEW a \in Actor PROVE op[a] \in Op /\ op[a].pc \in OpSteps
    BY DEF OpType, Op
  \* a step that leaves the notes alone, of an actor without a call
  <1>1. ASSUME NEW a \in Actor, op[a].pc \notin {"create", "post"}, UNCHANGED call,
               \A b \in Actor : b # a => op'[b] = op[b],
               \/ service' = [p \in Process |-> IF service[p] = a THEN None ELSE service[p]]
               \/ service' = service /\ (op[a].pc \in Served => op'[a].pc \in Served)
               \/ service' = [service EXCEPT ![ProcessOf[a]] = a] /\ op'[a].pc \in Served
        PROVE  WaitInv'
    <2>1. call'[a].pc = "idle"
      BY <1>1 DEF WaitInv
    <2> QED BY <1>0, <1>1, <2>1, WaitStep
  <1>2. ASSUME NEW a \in Actor, op[a].pc \notin {"create", "post"}, UNCHANGED call, Ends(a)
        PROVE  WaitInv'
    BY <1>1, <1>2 DEF Ends, Release, OpType
  <1>3. ASSUME UNCHANGED <<op, service, call, lock>> PROVE WaitInv'
    BY <1>3 DEF WaitInv, LockOwned
  <1>4. ASSUME \/ \E v \in Request : ChangeVisibility(v)
               \/ \E a \in Actor : Status(a)
               \/ UNCHANGED vars
        PROVE  WaitInv'
    BY <1>3, <1>4 DEF ChangeVisibility, Status, vars, noteVars, derivationVars
  <1>5. ASSUME NEW a \in Actor, \/ \E retry \in BOOLEAN : Derive(a, retry)
                                \/ Cancel(a) \/ Purge(a)
        PROVE  WaitInv'
    <2>1. op[a] = NoOp /\ UNCHANGED <<service, call>>
      BY <1>5 DEF Derive, Cancel, Purge, Begin, noteVars
    <2>2. \A b \in Actor : b # a => op'[b] = op[b]
      BY <1>5 DEF Derive, Cancel, Purge, Begin, OpType
    <2> QED BY <1>1, <2>1, <2>2, NoOpType DEF Served
  <1>6. ASSUME NEW a \in Actor, Select(a) PROVE WaitInv'
    <2>1. /\ op[a].pc = "select" /\ UNCHANGED call
          /\ service' = [service EXCEPT ![ProcessOf[a]] = a]
          /\ \A b \in Actor : b # a => op'[b] = op[b]
      BY <1>6 DEF Select, noteVars, OpType
    <2>2. op'[a].pc = "decide"
      BY <1>6 DEF Select, OpType, Op
    <2> QED BY <1>1, <2>1, <2>2 DEF Served
  <1>7. ASSUME NEW a \in Actor, \/ ReplayJob(a) \/ RefuseRetry(a) \/ Answered(a) \/ DeleteJob(a)
        PROVE  WaitInv'
    BY <1>2, <1>7 DEF ReplayJob, RefuseRetry, Answered, DeleteJob, noteVars
  <1>8. ASSUME NEW a \in Actor, ReuseJob(a) \/ Start(a) PROVE WaitInv'
    <2>1. /\ op[a].pc \in {"decide", "start"} /\ UNCHANGED <<call, service>>
          /\ \A b \in Actor : b # a => op'[b] = op[b]
      BY <1>8 DEF ReuseJob, Start, Goes, noteVars, OpType
    <2>2. op'[a].pc \in {"start", "deriver"}
      BY <1>8 DEF ReuseJob, Start, Goes, OpType, Op
    <2> QED BY <1>1, <2>1, <2>2 DEF Served
  <1>9. ASSUME NEW a \in Actor, InsertJob(a) PROVE WaitInv'
    <2>1. CASE Ends(a)
      BY <1>2, <1>9, <2>1 DEF InsertJob, noteVars
    <2>2. CASE ~Ends(a)
      <3>1. /\ op[a].pc = "decide" /\ UNCHANGED <<call, service>>
            /\ \A b \in Actor : b # a => op'[b] = op[b]
        BY <1>9, <2>2 DEF InsertJob, noteVars, OpType
      <3>2. op'[a].pc = "start"
        BY <1>9, <2>2 DEF InsertJob, OpType, Op
      <3> QED BY <1>1, <3>1, <3>2 DEF Served
    <2> QED BY <2>1, <2>2
  <1>10. ASSUME NEW a \in Actor, CancelRead(a) \/ PurgeRead(a) PROVE WaitInv'
    <2>1. op[a].pc \in {"cancel", "purge"} /\ UNCHANGED call
      BY <1>10 DEF CancelRead, PurgeRead, noteVars
    <2>2. CASE Ends(a)
      BY <1>2, <2>1, <2>2
    <2>3. CASE ~Ends(a)
      <3>1. service' = service /\ \A b \in Actor : b # a => op'[b] = op[b]
        BY <1>10, <2>3 DEF CancelRead, PurgeRead, OpType
      <3> QED BY <1>1, <2>1, <3>1 DEF Served
    <2> QED BY <2>2, <2>3
  <1>11. ASSUME NEW a \in Actor, CancelWrite(a) \/ DeleteReservations(a) PROVE WaitInv'
    <2>1. /\ op[a].pc \in {"cancel-row", "purge-keys"} /\ UNCHANGED <<call, service>>
          /\ \A b \in Actor : b # a => op'[b] = op[b]
      BY <1>11 DEF CancelWrite, DeleteReservations, Goes, noteVars, OpType
    <2> QED BY <1>1, <2>1 DEF Served
  <1>12. ASSUME NEW a \in Actor, Unlink(a) PROVE WaitInv'
    <2>1. op[a].pc = "purge-file" /\ UNCHANGED call
      BY <1>12 DEF Unlink, noteVars
    <2>2. CASE Ends(a)
      BY <1>2, <2>1, <2>2
    <2>3. CASE ~Ends(a)
      <3>1. service' = service /\ \A b \in Actor : b # a => op'[b] = op[b]
        BY <1>12, <2>3 DEF Unlink, Goes, OpType
      <3> QED BY <1>1, <2>1, <3>1 DEF Served
    <2> QED BY <2>2, <2>3
  <1>13. ASSUME NEW a \in Actor, RunDeriver(a) \/ EnterCreate(a) PROVE WaitInv'
    <2>1. /\ op[a].pc \in {"deriver", "enter"} /\ UNCHANGED service
          /\ \A b \in Actor : b # a => op'[b] = op[b]
          /\ op'[a].pc \in {"enter", "create", "fail"}
      BY <1>13 DEF RunDeriver, EnterCreate, DeriverRaises, Goes, OpType, Op
    <2>2. CASE RunDeriver(a)
      BY <1>1, <2>1, <2>2 DEF RunDeriver, DeriverRaises, noteVars, Served
    <2>3. CASE EnterCreate(a)
      <3>1. op'[a].pc = "create"
        BY <2>3 DEF EnterCreate, Goes, OpType, Op
      <3>2. \A b \in Actor : b # a => call'[b] = call[b]
        BY <2>3, OneCall DEF EnterCreate
      <3> QED BY <1>0, <2>1, <3>1, <3>2, WaitStep DEF Served
    <2> QED BY <1>13, <2>2, <2>3
  <1>14. ASSUME NEW a \in Actor, NEW k \in PostKey, NEW r \in Request, Post(a, k, r)
         PROVE  WaitInv'
    <2>1. /\ op[a] = NoOp /\ UNCHANGED service /\ op'[a].pc = "post"
          /\ \A b \in Actor : b # a => op'[b] = op[b]
      BY <1>14 DEF Post, Goes, OpType, Op
    <2>2. \A b \in Actor : b # a => call'[b] = call[b]
      BY <1>14, OneCall DEF Post
    <2> QED BY <1>0, <2>1, <2>2, NoOpType, WaitStep DEF Served
  <1>15. ASSUME NEW a \in Actor, op[a].pc \in {"create", "post"}, Creating(a) \/ Fault(a),
                UNCHANGED <<op, service>>
         PROVE  WaitInv'
    <2>1. \A b \in Actor : b # a => call'[b] = call[b] /\ op'[b] = op[b]
      BY <1>15, OneCall
    <2> QED BY <1>0, <1>15, <2>1, WaitStep
  <1>16. ASSUME NEW a \in Actor, Leave(a), \A b \in Actor : b # a => op'[b] = op[b],
                \/ service' = [p \in Process |-> IF service[p] = a THEN None ELSE service[p]]
                \/ service' = service /\ op[a].pc \notin Served
         PROVE  WaitInv'
    <2>1. \A b \in Actor : b # a => call'[b] = call[b]
      BY <1>16, OneCall
    <2>2. call'[a].pc = "idle"
      BY <1>16, NoCallType DEF Leave, NoteType
    <2> QED BY <1>0, <1>16, <2>1, <2>2, WaitStep
  <1>17. ASSUME NEW a \in Actor, Creates(a) PROVE WaitInv'
    BY <1>15, <1>17 DEF Creates, derivationVars
  <1>18. ASSUME NEW a \in Actor, Complete(a) PROVE WaitInv'
    <2>1. /\ Leave(a) /\ \A b \in Actor : b # a => op'[b] = op[b]
          /\ service' = [p \in Process |-> IF service[p] = a THEN None ELSE service[p]]
      BY <1>18 DEF Complete, Goes, Release, OpType
    <2> QED BY <1>16, <2>1
  <1>19. ASSUME NEW a \in Actor, Fail(a) PROVE WaitInv'
    <2>1. Ends(a)
      BY <1>19 DEF Fail
    <2>2. CASE op[a].pc = "fail" /\ UNCHANGED noteVars
      BY <1>2, <2>1, <2>2 DEF noteVars
    <2>3. CASE Leave(a)
      <3>1. /\ \A b \in Actor : b # a => op'[b] = op[b]
            /\ service' = [p \in Process |-> IF service[p] = a THEN None ELSE service[p]]
        BY <2>1 DEF Ends, Release, OpType
      <3> QED BY <1>16, <2>3, <3>1
    <2> QED BY <1>19, <2>2, <2>3 DEF Fail
  <1>20. ASSUME NEW a \in Actor, Posting(a) PROVE WaitInv'
    <2>1. op[a].pc = "post" /\ UNCHANGED service
      BY <1>20 DEF Posting
    <2>2. CASE (Creating(a) \/ Fault(a)) /\ UNCHANGED op
      BY <1>15, <2>1, <2>2
    <2>3. CASE Leave(a) /\ op' = [op EXCEPT ![a] = NoOp]
      <3>1. \A b \in Actor : b # a => op'[b] = op[b]
        BY <2>3 DEF OpType
      <3> QED BY <1>16, <2>1, <2>3, <3>1 DEF Served
    <2> QED BY <1>20, <2>2, <2>3 DEF Posting
  <1>21. ASSUME NEW p \in Process, Kill(p) PROVE WaitInv'
    <2>1. /\ op' = [a \in Actor |-> IF ProcessOf[a] = p THEN NoOp ELSE op[a]]
          /\ service' = [service EXCEPT ![p] = None]
          /\ call' = [a \in Actor |-> IF ProcessOf[a] = p THEN NoCall ELSE call[a]]
      BY <1>21 DEF Kill, Killed
    <2>2. ASSUME NEW q \in Process, service'[q] # None
          PROVE  ProcessOf[service'[q]] = q /\ op'[service'[q]].pc \in Served
      <3>1. q # p /\ service'[q] = service[q] /\ service[q] \in Actor
        BY <2>1, <2>2 DEF OpType
      <3>2. ProcessOf[service[q]] = q /\ op[service[q]].pc \in Served
        BY <2>2, <3>1 DEF WaitInv
      <3> QED BY <2>1, <3>1, <3>2
    <2>3. ASSUME NEW b \in Actor, call'[b].pc # "idle" PROVE op'[b].pc \in {"create", "post"}
      <3>1. ProcessOf[b] # p /\ call'[b] = call[b] /\ op'[b] = op[b]
        BY <2>1, <2>3, NoCallType
      <3> QED BY <2>3, <3>1 DEF WaitInv
    <2> QED BY <1>0, <2>2, <2>3 DEF WaitInv
  <1> QED BY <1>4, <1>5, <1>6, <1>7, <1>8, <1>9, <1>10, <1>11, <1>12, <1>13, <1>14, <1>17,
             <1>18, <1>19, <1>20, <1>21 DEF Next, Deriving, Managing

-----------------------------------------------------------------------------
LEMMA TypeInvariant == Spec => []TypeInv
  <1>1. Init => TypeInv
    BY NoteTypeInit, OpTypeInit DEF Init, TypeInv
  <1>2. TypeInv /\ [Next]_vars => TypeInv'
    BY NextNotes, NoteTypeNext, OpTypeNext DEF TypeInv
  <1> QED BY <1>1, <1>2, PTL DEF Spec

LEMMA NoteInvariant == Spec => []NoteInv
  <1>1. Init => NoteInv
    BY NoteInvInit DEF Init
  <1>2. TypeInv /\ NoteInv /\ [Next]_vars => NoteInv'
    BY NextNotes, NoteInvNext DEF TypeInv
  <1> QED BY <1>1, <1>2, TypeInvariant, PTL DEF Spec

(***************************************************************************)
(* Every variable of create_note and of the derivation keeps its type; a   *)
(* create_note holds the convergence lock of its process exactly while it  *)
(* is under way, and a derive holds the service lock from its SELECT to    *)
(* its end, kills and failures included.                                   *)
(***************************************************************************)
THEOREM DerivationTypeCorrect == Spec => []TypeOK
  <1>1. TypeInv => TypeOK
    BY DEF TypeInv, TypeOK, NoteTypeOK, NoteType, CallOK, OpType, OpOK, Active, Served
  <1> QED BY <1>1, TypeInvariant, PTL

(***************************************************************************)
(* create_note: all answers under an idempotency key are of one request    *)
(* and name one note, which is on disk, until that note is removed.        *)
(***************************************************************************)
THEOREM NoteOncePerKey == Spec => []OneNotePerKey
  <1>1. TypeInv /\ NoteInv => OneNotePerKey
    <2> SUFFICES ASSUME NoteType, NoteInv PROVE OneNotePerKey
      BY DEF TypeInv
    <2>1. ASSUME NEW x \in answers
          PROVE  /\ x.key \in Key /\ x.req \in Request /\ x.note \in NoteId
                 /\ Claim(x.note, x.key, x.req)
                 /\ Reserved(x.key, x.note) /\ Kept(x.note)
      BY DEF NoteType, NoteInv, Claim
    <2>2. ASSUME NEW x \in answers, NEW y \in answers, x.key = y.key,
                 x.note \notin removed, y.note \notin removed
          PROVE  x.note = y.note /\ x.req = y.req
      <3>1. x.note = y.note
        BY <2>1, <2>2 DEF Reserved
      <3>2. Claim(x.note, x.key, x.req) /\ Claim(x.note, x.key, y.req)
        BY <2>1, <2>2, <3>1
      <3> QED BY <2>1, <3>1, <3>2 DEF NoteInv, ClaimInv
    <2>3. ASSUME NEW x \in answers, x.note \notin removed
          PROVE  file[x.note] # None /\ file[x.note].req = x.req /\ file[x.note].key = x.key
      <3>1. file[x.note] # None
        BY <2>1, <2>3 DEF Kept
      <3>2. file[x.note].key \in Key /\ file[x.note].req \in Request
        BY <2>1, <3>1 DEF NoteType, File
      <3>3. Claim(x.note, file[x.note].key, file[x.note].req)
        BY <3>1 DEF Claim
      <3> QED BY <2>1, <3>1, <3>2, <3>3 DEF NoteInv, ClaimInv
    <2> QED BY <2>2, <2>3 DEF OneNotePerKey
  <1> QED BY <1>1, TypeInvariant, NoteInvariant, PTL

(***************************************************************************)
(* DerivationService: a completed derivation names a note that was made    *)
(* for it, and the file is there unless a purge removed it.                *)
(***************************************************************************)
THEOREM CompletedDerivationHasNote == Spec => []CompletedHasNote
  <1>1. Init => JobInv
    BY DEF Init, JobInv
  <1>2. TypeInv /\ NoteInv /\ JobInv /\ [Next]_vars => JobInv'
    BY JobInvNext
  <1>3. JobInv => CompletedHasNote
    BY DEF JobInv, CompletedHasNote, Kept
  <1> QED BY <1>1, <1>2, <1>3, TypeInvariant, NoteInvariant, PTL DEF Spec

(***************************************************************************)
(* DerivationService: a row that says pending or running has a run at work *)
(* on it, or its run was killed and nobody has begun it again, whatever    *)
(* init, cancel, purge and other processes did to the row meanwhile.       *)
(***************************************************************************)
THEOREM RunsSettle == Spec => []EveryRunSettles
  <1>1. Init => EveryRunSettles
    BY DEF Init, EveryRunSettles
  <1>2. TypeInv /\ EveryRunSettles /\ [Next]_vars => EveryRunSettles'
    BY SettleNext
  <1> QED BY <1>1, <1>2, TypeInvariant, PTL DEF Spec

(***************************************************************************)
(* The locks of derive and create_note: while any operation is under way,  *)
(* some operation waits for neither, whatever failed or was killed.  The   *)
(* owner of a service lock waits at most for the lock of create_note, and  *)
(* the owner of that one waits for nobody.                                 *)
(***************************************************************************)
THEOREM NobodyWaitsInACircle == Spec => []SomebodyProceeds
  <1>1. Init => WaitInv
    BY NoCallType DEF Init, NoteInit, WaitInv, LockOwned
  <1>2. TypeInv /\ WaitInv /\ [Next]_vars => WaitInv'
    BY WaitInvNext
  <1>3. ASSUME TypeInv, WaitInv PROVE SomebodyProceeds
    <2> SUFFICES ASSUME NEW a \in Actor, op[a] # NoOp PROVE \E b \in Actor : Proceeds(b)
      BY DEF SomebodyProceeds
    <2>0. /\ \A b \in Actor : ProcessOf[b] \in Process
          /\ service \in [Process -> Actor \cup {None}] /\ lock \in [Process -> Actor \cup {None}]
          /\ \A b \in Actor : CallOK(b)
      BY <1>3, NoteCreateAssumption DEF TypeInv, OpType, NoteType
    <2>1. ASSUME NEW b \in Actor, op[b].pc \in {"create", "post"} PROVE Proceeds(b)
      BY <2>1, NoOpType DEF Proceeds
    <2>2. ASSUME NEW p \in Process, lock[p] # None PROVE \E b \in Actor : Proceeds(b)
      <3>1. PICK b \in Actor : b = lock[p]
        BY <2>0, <2>2
      <3>2. ProcessOf[b] = p
        BY <1>3, <2>2, <3>1 DEF WaitInv, LockOwned
      <3>3. call[b].pc \in Active
        BY <2>0, <3>1, <3>2 DEF CallOK
      <3>4. op[b].pc \in {"create", "post"}
        BY <1>3, <3>3 DEF WaitInv, Active
      <3> QED BY <2>1, <3>4
    <2>3. ASSUME NEW b \in Actor, op[b].pc = "enter" PROVE \E d \in Actor : Proceeds(d)
      <3>1. CASE lock[ProcessOf[b]] = None
        BY <2>3, <3>1, NoOpType DEF Proceeds
      <3>2. CASE lock[ProcessOf[b]] # None
        BY <2>0, <2>2, <3>2
      <3> QED BY <3>1, <3>2
    <2>4. CASE op[a].pc = "select" /\ service[ProcessOf[a]] # None
      <3>1. PICK b \in Actor : b = service[ProcessOf[a]]
        BY <2>0, <2>4
      <3>2. op[b].pc \in Served
        BY <1>3, <2>0, <2>4, <3>1 DEF WaitInv
      <3>3. CASE op[b].pc = "enter"
        BY <2>3, <3>3
      <3>4. CASE op[b].pc # "enter"
        BY <3>2, <3>4, NoOpType DEF Proceeds, Served
      <3> QED BY <3>3, <3>4
    <2>5. CASE op[a].pc = "enter"
      BY <2>3, <2>5
    <2>6. CASE ~(op[a].pc = "select" /\ service[ProcessOf[a]] # None) /\ op[a].pc # "enter"
      BY <2>6 DEF Proceeds
    <2> QED BY <2>4, <2>5, <2>6
  <1> QED BY <1>1, <1>2, <1>3, TypeInvariant, PTL DEF Spec
=============================================================================

----------------------------- MODULE NoteCreate -----------------------------
(***************************************************************************)
(* create_note with an idempotency key (memory.py): the reservation row of *)
(* the key in memory-ops.sqlite, the note file, and the answer.  Calls in  *)
(* one process follow one another under its convergence lock; processes    *)
(* (the server and command-line processes) share only the database and the *)
(* files.  The index job and the deliveries of a written note belong to    *)
(* Convergence and Inbox.                                                  *)
(*                                                                         *)
(* A request is what its hash tells apart; a note id comes from a random   *)
(* generator and is never drawn twice.                                     *)
(***************************************************************************)
EXTENDS Integers, FiniteSets

CONSTANTS
    Actor,       \* threads of the server, and command-line processes
    Process,     \* operating-system processes
    ProcessOf,   \* ProcessOf[a]: the process of an actor
    Key,         \* (principal, operation, idempotency key) triples
    Request,     \* requests, as far as their hashes differ
    None,        \* no row, no file, nobody: none of the other values
    MaxNotes,    \* bound on the note ids drawn
    MaxFaults,   \* bound on failing steps
    MaxKills     \* bound on killed processes

ASSUME NoteCreateAssumption ==
    /\ ProcessOf \in [Actor -> Process]
    /\ MaxNotes \in Nat
    /\ MaxFaults \in Nat
    /\ MaxKills \in Nat

NoteId == 1..MaxNotes
Reservation == [req : Request, note : NoteId]
File == [key : Key, req : Request, stamp : Nat]

\* None is none of the values it stands beside.
ASSUME NoteCreateNone ==
    /\ None \notin Actor
    /\ None \notin NoteId
    /\ None \notin Reservation
    /\ None \notin File

VARIABLES
    row,       \* row[k]: the idempotency row, [req, note], or None
    file,      \* file[n]: the note file, [key, req, stamp], or None
    drawn,     \* note ids drawn so far
    clock,     \* files written so far, for recordedAt
    lock,      \* lock[p]: the actor in p's _convergence_lock, or None
    call,      \* call[a]: the create_note an actor executes
    answers,   \* history: [key, req, note, stamp] of every CreateResult
    removed,   \* history: notes whose file somebody removed
    faults,    \* history: failing steps so far
    kills      \* history: killed processes so far

noteVars == <<row, file, drawn, clock, lock, call, answers, removed, faults, kills>>

NoCall == [pc |-> "idle", key |-> None, req |-> None, note |-> None, stamp |-> None]
Call == [pc : {"idle", "lookup", "insert", "wait", "write", "finish", "done", "failed"},
         key : Key \cup {None}, req : Request \cup {None}, note : NoteId \cup {None},
         stamp : Nat \cup {None}]

-----------------------------------------------------------------------------
NoteInit ==
    /\ row = [k \in Key |-> None]
    /\ file = [n \in NoteId |-> None]
    /\ drawn = 0
    /\ clock = 0
    /\ lock = [p \in Process |-> None]
    /\ call = [a \in Actor |-> NoCall]
    /\ answers = {}
    /\ removed = {}
    /\ faults = 0
    /\ kills = 0

\* The call is entered; it waits for the lock of its process.
CreateNote(a, k, r) ==
    /\ call[a].pc = "idle"
    /\ lock[ProcessOf[a]] = None
    /\ lock' = [lock EXCEPT ![ProcessOf[a]] = a]
    /\ call' = [call EXCEPT ![a] = [NoCall EXCEPT !.pc = "lookup", !.key = k, !.req = r]]
    /\ UNCHANGED <<row, file, drawn, clock, answers, removed, faults, kills>>

Goto(a, pc, n) == call' = [call EXCEPT ![a].pc = pc, ![a].note = n]

\* The call ends with its result or with an error, and the lock is free.
End(a, pc, n) ==
    /\ Goto(a, pc, n)
    /\ lock' = [lock EXCEPT ![ProcessOf[a]] = None]

Answer(a, n, stamp) ==
    answers' = answers \cup {[key |-> call[a].key, req |-> call[a].req, note |-> n,
                              stamp |-> stamp]}

\* The note of the key is answered, with what is missing behind it done again.
Reconcile(a, n) ==
    /\ Answer(a, n, file[n].stamp)
    /\ End(a, "done", n)
    /\ UNCHANGED <<row, drawn>>

Conflict(a) ==
    /\ End(a, "failed", None)
    /\ UNCHANGED <<row, drawn, answers>>

SameRequest(a) == row[call[a].key].req = call[a].req

\* The row of the key decides: its note is answered, or written under the id
\* that was reserved, whoever reserved it; without a row an id is drawn.
Lookup(a) ==
    LET k == call[a].key IN
    /\ call[a].pc = "lookup"
    /\ \/ /\ row[k] = None
          /\ drawn < MaxNotes
          /\ drawn' = drawn + 1
          /\ Goto(a, "insert", drawn + 1)
          /\ UNCHANGED <<row, lock, answers>>
       \/ row[k] # None /\ ~SameRequest(a) /\ Conflict(a)
       \/ row[k] # None /\ SameRequest(a) /\ file[row[k].note] # None /\ Reconcile(a, row[k].note)
       \/ /\ row[k] # None /\ SameRequest(a) /\ file[row[k].note] = None
          /\ Goto(a, "write", row[k].note)
          /\ UNCHANGED <<row, drawn, lock, answers>>
    /\ UNCHANGED <<file, clock, removed, faults, kills>>

\* Faulty: INSERT OR REPLACE takes the key over.
KeyFreeAlways(k) == TRUE

\* The primary key of idempotency.
KeyFree(k) == row[k] = None

Insert(a) ==
    LET k == call[a].key IN
    /\ call[a].pc = "insert"
    /\ \/ /\ KeyFree(k)
          /\ row' = [row EXCEPT ![k] = [req |-> call[a].req, note |-> call[a].note]]
          /\ Goto(a, "write", call[a].note)
          /\ UNCHANGED <<drawn, lock, answers>>
       \/ /\ ~KeyFree(k) /\ SameRequest(a)
          /\ Goto(a, "wait", row[k].note)
          /\ UNCHANGED <<row, drawn, lock, answers>>
       \/ ~KeyFree(k) /\ ~SameRequest(a) /\ Conflict(a)
    /\ UNCHANGED <<file, clock, removed, faults, kills>>

\* The loser of the reservation waits five seconds for the winner's file.
Wait(a) ==
    /\ call[a].pc = "wait"
    /\ \/ file[call[a].note] # None /\ Reconcile(a, call[a].note)
       \/ file[call[a].note] = None /\ Conflict(a)
    /\ UNCHANGED <<file, clock, removed, faults, kills>>

\* atomic_write replaces whatever is there.
Write(a) ==
    /\ call[a].pc = "write"
    /\ file' = [file EXCEPT ![call[a].note] =
                   [key |-> call[a].key, req |-> call[a].req, stamp |-> clock + 1]]
    /\ clock' = clock + 1
    /\ call' = [call EXCEPT ![a].pc = "finish", ![a].stamp = clock + 1]
    /\ UNCHANGED <<row, drawn, lock, answers, removed, faults, kills>>

\* Job, index and deliveries are done and the note is answered as new.
Finish(a) ==
    /\ call[a].pc = "finish"
    /\ Answer(a, call[a].note, call[a].stamp)
    /\ End(a, "done", call[a].note)
    /\ UNCHANGED <<row, file, drawn, clock, removed, faults, kills>>

\* The caller has the result or the error.
Leave(a) ==
    /\ call[a].pc \in {"done", "failed"}
    /\ call' = [call EXCEPT ![a] = NoCall]
    /\ UNCHANGED <<row, file, drawn, clock, lock, answers, removed, faults, kills>>

\* A step raises: the reservation and the file stay as they are.
Fault(a) ==
    /\ call[a].pc \in {"lookup", "insert", "wait", "write", "finish"}
    /\ faults < MaxFaults
    /\ faults' = faults + 1
    /\ End(a, "failed", None)
    /\ UNCHANGED <<row, file, drawn, clock, answers, removed, kills>>

Killed(p) ==
    /\ kills < MaxKills
    /\ kills' = kills + 1
    /\ call' = [a \in Actor |-> IF ProcessOf[a] = p THEN NoCall ELSE call[a]]
    /\ lock' = [lock EXCEPT ![p] = None]
    /\ UNCHANGED <<row, file, drawn, clock, answers, removed, faults>>

Creating(a) == Lookup(a) \/ Insert(a) \/ Wait(a) \/ Write(a) \/ Finish(a)

-----------------------------------------------------------------------------
NoteTypeOK ==
    /\ row \in [Key -> Reservation \cup {None}]
    /\ file \in [NoteId -> File \cup {None}]
    /\ drawn \in 0..MaxNotes
    /\ lock \in [Process -> Actor \cup {None}]
    /\ call \in [Actor -> Call]
    /\ \A a \in Actor : call[a].pc \in {"lookup", "insert", "wait", "write", "finish"}
                       <=> lock[ProcessOf[a]] = a

(***************************************************************************)
(* "Replaying an identical canonical request returns the original result;  *)
(* a different hash returns 409" (docs/MEMORY_API.md:30): every answer     *)
(* under a key is of one request and names one note, from whatever process *)
(* and after failures and kills anywhere, until that note is removed; and  *)
(* that note is on disk with the request that was answered.                *)
(***************************************************************************)
OneNotePerKey ==
    /\ \A x, y \in answers :
        x.key = y.key /\ x.note \notin removed /\ y.note \notin removed =>
            x.note = y.note /\ x.req = y.req
    /\ \A x \in answers : x.note \notin removed =>
        file[x.note] # None /\ file[x.note].req = x.req /\ file[x.note].key = x.key

(***************************************************************************)
(* The same, to the letter: the original result also has the original      *)
(* recordedAt, and so the original revision.                               *)
(***************************************************************************)
OriginalResult == \A x, y \in answers : x.note = y.note => x.stamp = y.stamp
=============================================================================

----------------------------- MODULE Derivation -----------------------------
(***************************************************************************)
(* Derivation of searchable text from an artifact (derivation.py,          *)
(* DerivationService) on top of NoteCreate, beside clients that post notes *)
(* of their own: the row of the derivation in derivation.sqlite, the       *)
(* derived note, and the operations derive, cancel, purge and status.      *)
(* derive holds the service lock of its process from the SELECT to the     *)
(* end; cancel, purge and status hold nothing, and a command-line process  *)
(* has locks of its own.  A SELECT opens no transaction: the row may have  *)
(* changed when it is updated.                                             *)
(*                                                                         *)
(* One artifact stands for all, since a derivation key is of one artifact. *)
(* What a deriver makes of the bytes (PDF text, OCR; their size, page,     *)
(* pixel, time and output limits) is its outcome: text, or an error.       *)
(***************************************************************************)
EXTENDS NoteCreate

CONSTANTS
    DeriveKey,   \* DeriveKey[a]: idempotency key "derive:..." of a's principal
    PostKey,     \* keys that clients post notes under
    Server,      \* the server's process: cancel is a route, not a command
    MaxJobs,     \* bound on the job ids drawn
    MaxCalls     \* bound on the operations called

ASSUME DerivationAssumption ==
    /\ DeriveKey \in [Actor -> Key]
    /\ PostKey \subseteq Key
    /\ Server \in Process
    /\ MaxJobs \in Nat
    /\ MaxCalls \in Nat

JobStates == {"pending", "running", "completed", "failed", "canceled"}
JobId == 1..MaxJobs
Job == [id : JobId, status : JobStates, note : NoteId \cup {None}]

\* None is neither a job nor the id of one.
ASSUME DerivationNone == None \notin Job /\ None \notin JobId

VARIABLES
    visibility,  \* the source manifest's visibility, as the request it leads to
    job,         \* the derivations row: [id, status, note], or None
    jobs,        \* job ids drawn so far
    service,     \* service[p]: the actor in p's service lock, or None
    events,      \* actors whose cancellation event is set
    op,          \* op[a]: the operation of an actor
    written,     \* history: notes that completed a derivation
    abandoned,   \* history: job ids whose run was killed, and not begun again
    calls        \* history: operations called so far

derivationVars == <<visibility, job, jobs, service, events, op, written, abandoned, calls>>
vars == <<noteVars, derivationVars>>

NoOp == [pc |-> "idle", retry |-> FALSE, req |-> None, row |-> None, id |-> None]

-----------------------------------------------------------------------------
Init ==
    /\ NoteInit
    /\ visibility \in Request
    /\ job = None
    /\ jobs = 0
    /\ service = [p \in Process |-> None]
    /\ events = {}
    /\ op = [a \in Actor |-> NoOp]
    /\ written = {}
    /\ abandoned = {}
    /\ calls = 0

\* init() of every operation: running rows become pending, whoever runs them.
Reset(j) == IF j # None /\ j.status = "running" THEN [j EXCEPT !.status = "pending"] ELSE j

\* Faulty: a run fails only a row that still says running.
UpdatedIfRunning(id, s) ==
    IF job # None /\ job.id = id /\ (s = "failed" => job.status = "running")
      THEN [job EXCEPT !.status = s] ELSE job

\* UPDATE ... WHERE job_id=id: nothing when the row is gone or another one.
Updated(id, s) == IF job # None /\ job.id = id THEN [job EXCEPT !.status = s] ELSE job

Goes(a, pc) == op' = [op EXCEPT ![a].pc = pc]

\* Faulty: the lock is kept by a run that ends.
ReleaseNot(a) ==
    /\ events' = events \ {a}
    /\ UNCHANGED service

\* The service lock and the event of a derive are given up.
Release(a) ==
    /\ service' = [p \in Process |-> IF service[p] = a THEN None ELSE service[p]]
    /\ events' = events \ {a}

\* The operation ends.
Ends(a) == op' = [op EXCEPT ![a] = NoOp] /\ Release(a)

\* set_visibility of the source; the next derivation asks for another note.
ChangeVisibility(v) ==
    /\ v # visibility
    /\ calls < MaxCalls
    /\ calls' = calls + 1
    /\ visibility' = v
    /\ UNCHANGED <<noteVars, job, jobs, service, events, op, written, abandoned>>

Begin(a, pc, retry) ==
    /\ op[a] = NoOp
    /\ call[a] = NoCall
    /\ calls < MaxCalls
    /\ calls' = calls + 1
    /\ job' = Reset(job)
    /\ op' = [op EXCEPT ![a] = [NoOp EXCEPT !.pc = pc, !.retry = retry, !.req = visibility]]
    /\ UNCHANGED <<noteVars, visibility, jobs, service, events, written, abandoned>>

\* derive, up to the lock: init, and the manifest is read.
Derive(a, retry) == Begin(a, "select", retry)

\* status, of GET and of the command line, is not only a read.
Status(a) ==
    /\ op[a] = NoOp
    /\ calls < MaxCalls
    /\ calls' = calls + 1
    /\ job' = Reset(job)
    /\ UNCHANGED <<noteVars, visibility, jobs, service, events, op, written, abandoned>>

Select(a) ==
    /\ op[a].pc = "select"
    /\ service[ProcessOf[a]] = None
    /\ service' = [service EXCEPT ![ProcessOf[a]] = a]
    /\ op' = [op EXCEPT ![a].pc = "decide", ![a].row = job]
    /\ UNCHANGED <<noteVars, visibility, job, jobs, events, written, abandoned, calls>>

\* A completed derivation whose note can be read is replayed.
ReplayJob(a) ==
    /\ op[a].pc = "decide"
    /\ op[a].row # None /\ op[a].row.status = "completed"
    /\ file[op[a].row.note] # None
    /\ Ends(a)
    /\ UNCHANGED <<noteVars, visibility, job, jobs, written, abandoned, calls>>

NeedsRetry(r) == r # None /\ r.status \in {"failed", "canceled"}

RefuseRetry(a) ==
    /\ op[a].pc = "decide"
    /\ NeedsRetry(op[a].row) /\ ~op[a].retry
    /\ Ends(a)
    /\ UNCHANGED <<noteVars, visibility, job, jobs, written, abandoned, calls>>

Lost(r) == r # None /\ r.status = "completed" /\ file[r.note] = None

\* A new row; another process may have inserted one: UNIQUE(derivation_key).
InsertJob(a) ==
    LET left == IF Lost(op[a].row) /\ job # None /\ job.id = op[a].row.id THEN None ELSE job IN
    /\ op[a].pc = "decide"
    /\ op[a].row = None \/ Lost(op[a].row)
    /\ jobs < MaxJobs
    /\ IF left = None
         THEN /\ jobs' = jobs + 1
              /\ job' = [id |-> jobs + 1, status |-> "pending", note |-> None]
              /\ op' = [op EXCEPT ![a].pc = "start", ![a].id = jobs + 1]
              /\ UNCHANGED <<service, events>>
         ELSE Ends(a) /\ UNCHANGED <<job, jobs>>
    /\ UNCHANGED <<noteVars, visibility, written, abandoned, calls>>

\* An unfinished row, or one to be retried, is made pending.
ReuseJob(a) ==
    /\ op[a].pc = "decide"
    /\ op[a].row # None /\ op[a].row.status # "completed"
    /\ NeedsRetry(op[a].row) => op[a].retry
    /\ job' = Updated(op[a].row.id, "pending")
    /\ op' = [op EXCEPT ![a].pc = "start", ![a].id = op[a].row.id]
    /\ abandoned' = abandoned \ {op[a].row.id}
    /\ UNCHANGED <<noteVars, visibility, jobs, service, events, written, calls>>

\* The event is registered and the row says running.
Start(a) ==
    /\ op[a].pc = "start"
    /\ job' = Updated(op[a].id, "running")
    /\ Goes(a, "deriver")
    /\ UNCHANGED <<noteVars, visibility, jobs, service, events, written, abandoned, calls>>

CancelSeen(a) == a \in events

\* A deriver's limits, a malformed or encrypted source, a missing provider, a
\* timeout and a cancellation seen between two pages are all errors.
DeriverRaises(a) == Goes(a, "fail") /\ UNCHANGED noteVars

\* The deriver's outcome: text for create_note, or an error.  This is the last
\* look at the event before the note is made.
RunDeriver(a) ==
    /\ op[a].pc = "deriver"
    /\ \/ ~CancelSeen(a) /\ Goes(a, "enter") /\ UNCHANGED noteVars
       \/ DeriverRaises(a)
    /\ UNCHANGED <<visibility, job, jobs, service, events, written, abandoned, calls>>

\* create_note has its lock, for which it may have waited.
EnterCreate(a) ==
    /\ op[a].pc = "enter"
    /\ CreateNote(a, DeriveKey[a], op[a].req)
    /\ Goes(a, "create")
    /\ UNCHANGED <<visibility, job, jobs, service, events, written, abandoned, calls>>

Creates(a) ==
    /\ op[a].pc = "create"
    /\ Creating(a) \/ Fault(a)
    /\ UNCHANGED derivationVars

\* Faulty: the note id is not stored.
CompletedRowBare(n) == [job EXCEPT !.status = "completed"]

CompletedRow(n) == [job EXCEPT !.status = "completed", !.note = n]

Complete(a) ==
    /\ op[a].pc = "create" /\ call[a].pc = "done"
    /\ job' = IF job # None /\ job.id = op[a].id
                THEN CompletedRow(call[a].note) ELSE job
    /\ written' = written \cup {call[a].note}
    /\ Goes(a, "status")
    /\ Release(a)
    /\ Leave(a)
    /\ UNCHANGED <<visibility, jobs, abandoned, calls>>

\* The except branch; an error of create_note is one of the derivation.
Fail(a) ==
    /\ \/ op[a].pc = "fail" /\ UNCHANGED noteVars
       \/ op[a].pc = "create" /\ call[a].pc = "failed" /\ Leave(a)
    /\ job' = Updated(op[a].id, IF a \in events THEN "canceled" ELSE "failed")
    /\ Ends(a)
    /\ UNCHANGED <<visibility, jobs, written, abandoned, calls>>

\* The answer's own init, after the lock; a purged row is a KeyError.
Answered(a) ==
    /\ op[a].pc = "status"
    /\ job' = Reset(job)
    /\ Ends(a)
    /\ UNCHANGED <<noteVars, visibility, jobs, written, abandoned, calls>>

\* POST /v1/memory/notes, or the command line: create_note for a client.
Post(a, k, r) ==
    /\ op[a] = NoOp
    /\ calls < MaxCalls
    /\ calls' = calls + 1
    /\ CreateNote(a, k, r)
    /\ Goes(a, "post")
    /\ UNCHANGED <<visibility, job, jobs, service, events, written, abandoned>>

Posting(a) ==
    /\ op[a].pc = "post"
    /\ \/ (Creating(a) \/ Fault(a)) /\ UNCHANGED op
       \/ Leave(a) /\ op' = [op EXCEPT ![a] = NoOp]
    /\ UNCHANGED <<visibility, job, jobs, service, events, written, abandoned, calls>>

-----------------------------------------------------------------------------
(***************************************************************************)
(* cancel: the row is read; a completed derivation is refused; the event   *)
(* of a run in this process is set, and the row is updated.                *)
(***************************************************************************)
Cancel(a) == ProcessOf[a] = Server /\ job # None /\ Begin(a, "cancel", FALSE)

RunningHere(a, id) ==
    {b \in Actor : /\ ProcessOf[b] = ProcessOf[a]
                   /\ op[b].id = id
                   /\ op[b].pc \in {"deriver", "enter", "create", "fail"}}

CancelRead(a) ==
    /\ op[a].pc = "cancel"
    /\ IF job = None \/ job.status = "completed"
         THEN Ends(a)
         ELSE LET hit == RunningHere(a, job.id) IN
              /\ events' = events \cup hit
              /\ op' = [op EXCEPT ![a].pc = "cancel-row", ![a].row = job]
              /\ UNCHANGED service
    /\ UNCHANGED <<noteVars, visibility, job, jobs, written, abandoned, calls>>

CancelWrite(a) ==
    /\ op[a].pc = "cancel-row"
    /\ job' = Updated(op[a].row.id, "canceled")
    /\ Goes(a, "status")
    /\ UNCHANGED <<noteVars, visibility, jobs, service, events, written, abandoned, calls>>

(***************************************************************************)
(* purge: the row is read, the derived note is unlinked, its reservations  *)
(* are deleted, and then the row.  A row that is running when it is read   *)
(* is refused, but init has made it pending just before.                   *)
(***************************************************************************)
Purge(a) == job # None /\ Begin(a, "purge", FALSE)

PurgeRead(a) ==
    /\ op[a].pc = "purge"
    /\ IF job = None \/ job.status = "running"
         THEN Ends(a)
         ELSE /\ op' = [op EXCEPT ![a].row = job,
                                  ![a].pc = IF job.note = None THEN "purge-row" ELSE "purge-file"]
              /\ UNCHANGED <<service, events>>
    /\ UNCHANGED <<noteVars, visibility, job, jobs, written, abandoned, calls>>

\* remove_derived_note; without the file it is a KeyError, and the row stays.
Unlink(a) ==
    LET n == op[a].row.note IN
    /\ op[a].pc = "purge-file"
    /\ IF file[n] = None
         THEN Ends(a) /\ UNCHANGED noteVars
         ELSE /\ file' = [file EXCEPT ![n] = None]
              /\ removed' = removed \cup {n}
              /\ Goes(a, "purge-keys")
              /\ UNCHANGED <<row, drawn, clock, lock, call, answers, faults, kills,
                             service, events>>
    /\ UNCHANGED <<visibility, job, jobs, written, abandoned, calls>>

DeleteReservations(a) ==
    /\ op[a].pc = "purge-keys"
    /\ row' = [k \in Key |-> IF row[k] # None /\ row[k].note = op[a].row.note THEN None ELSE row[k]]
    /\ Goes(a, "purge-row")
    /\ UNCHANGED <<file, drawn, clock, lock, call, answers, removed, faults, kills,
                   visibility, job, jobs, service, events, written, abandoned, calls>>

DeleteJob(a) ==
    /\ op[a].pc = "purge-row"
    /\ job' = IF job # None /\ job.id = op[a].row.id THEN None ELSE job
    /\ Ends(a)
    /\ UNCHANGED <<noteVars, visibility, jobs, written, abandoned, calls>>

\* Derivations under way: from the row's being pending to its last update.
Running == {a \in Actor : op[a].pc \in {"start", "deriver", "enter", "create", "fail"}}

\* A killed process takes its locks and events with it; rows and files stay.
Kill(p) ==
    /\ Killed(p)
    /\ op' = [a \in Actor |-> IF ProcessOf[a] = p THEN NoOp ELSE op[a]]
    /\ service' = [service EXCEPT ![p] = None]
    /\ events' = {a \in events : ProcessOf[a] # p}
    /\ abandoned' = abandoned \cup {op[a].id : a \in {b \in Running : ProcessOf[b] = p}}
    /\ UNCHANGED <<visibility, job, jobs, written, calls>>

Deriving(a) ==
    \/ Select(a) \/ ReplayJob(a) \/ RefuseRetry(a) \/ InsertJob(a) \/ ReuseJob(a) \/ Start(a)
    \/ RunDeriver(a) \/ EnterCreate(a) \/ Creates(a) \/ Complete(a) \/ Fail(a) \/ Answered(a)

Managing(a) ==
    \/ CancelRead(a) \/ CancelWrite(a) \/ PurgeRead(a) \/ Unlink(a)
    \/ DeleteReservations(a) \/ DeleteJob(a)

Next ==
    \/ \E v \in Request : ChangeVisibility(v)
    \/ \E a \in Actor, retry \in BOOLEAN : Derive(a, retry)
    \/ \E a \in Actor, k \in PostKey, r \in Request : Post(a, k, r)
    \/ \E a \in Actor : Status(a) \/ Cancel(a) \/ Purge(a) \/ Deriving(a) \/ Posting(a) \/ Managing(a)
    \/ \E p \in Process : Kill(p)

Spec == Init /\ [][Next]_vars

-----------------------------------------------------------------------------
TypeOK ==
    /\ NoteTypeOK
    /\ visibility \in Request
    /\ job \in Job \cup {None}
    /\ jobs \in 0..MaxJobs
    /\ service \in [Process -> Actor \cup {None}]
    /\ events \subseteq Actor
    /\ \A a \in Actor : op[a].pc \in {"decide", "start", "deriver", "enter", "create", "fail"}
                        => service[ProcessOf[a]] = a

(***************************************************************************)
(* A completed derivation names a note that was made for it and that is    *)
(* there unless a purge took it away, whatever cancels, purges, retries    *)
(* and other processes did to the row and to the reservation meanwhile.    *)
(***************************************************************************)
CompletedHasNote ==
    job # None /\ job.status = "completed" =>
        /\ job.note \in written
        /\ job.note \notin removed => file[job.note] # None

(***************************************************************************)
(* Every run settles its derivation: a row that says pending or running is *)
(* one that somebody is at work on, or whose run was killed and nobody has *)
(* begun again.  It holds although init of every operation, in whatever    *)
(* process, makes a running row pending, a late cancel and a second        *)
(* process write the row of a run, and a run may wait for create_note's    *)
(* lock: its last update finds its row in any status.                      *)
(***************************************************************************)
EveryRunSettles ==
    job # None /\ job.status \in {"pending", "running"} =>
        job.id \in abandoned \/ \E a \in Running : op[a].id = job.id

\* An operation under way that is not waiting for one of the two locks.
Proceeds(a) ==
    /\ op[a] # NoOp
    /\ op[a].pc = "select" => service[ProcessOf[a]] = None
    /\ op[a].pc = "enter" => lock[ProcessOf[a]] = None

SomebodyProceeds == (\E a \in Actor : op[a] # NoOp) => \E a \in Actor : Proceeds(a)

(***************************************************************************)
(* Operations never wait for each other in a circle, nor for a lock whose  *)
(* owner has ended, failed or been killed, nor for the reservation of a    *)
(* killed process: while any is under way, some operation waits for no     *)
(* lock, and one that waits for no lock has a next step.  None repeats a   *)
(* step, so that each comes to its end.                                    *)
(***************************************************************************)
NobodyStuck ==
    /\ SomebodyProceeds
    /\ \A a \in Actor : Proceeds(a) => ENABLED (Deriving(a) \/ Posting(a) \/ Managing(a))

(***************************************************************************)
(* "A failed or canceled job requires {"retry": true} to retry"            *)
(* (docs/ARTIFACTS_AND_DERIVATION.md:70): a canceled derivation is started *)
(* again, or completed, only by a derive that asks for it.                 *)
(***************************************************************************)
CanceledStays ==
    [][job # None /\ job.status = "canceled" /\ job' # None /\ job'.status # "canceled" =>
        \E a \in Actor : op[a].pc \in {"decide", "start", "create"} /\ op[a].retry]_vars
=============================================================================

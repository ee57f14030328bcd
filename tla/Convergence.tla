---------------------------- MODULE Convergence ----------------------------
(***************************************************************************)
(* How a Markdown note becomes indexed and delivered (memory.py, and the   *)
(* watcher threads of server.py).  Files are authoritative; the ops        *)
(* database holds the index jobs and the deliveries, the index database    *)
(* the manifest.  Three actors write:                                      *)
(*                                                                         *)
(*   "watcher"  the server's start-up (make_server, MemoryService.init)    *)
(*              and then its convergence thread, which flushes the         *)
(*              MemoryWatcher into sync_filesystem;                        *)
(*   "http"     a create_note request of the server;                       *)
(*   "cli"      create_note of the command line, another process, with     *)
(*              deliveries disabled and its own init.                      *)
(*                                                                         *)
(* Within the server _convergence_lock makes sync_filesystem and           *)
(* create_note exclude each other; the command line is not bound by it.    *)
(* Every step below is one transaction, one read of a table, one file      *)
(* write or one scan.  What an operation keeps in its local variables is   *)
(* forgotten when the operation is over.                                   *)
(*                                                                         *)
(* A note has one file; its content is a number, 0 when there is no file   *)
(* and Broken when it does not parse (the scan quarantines it).  A job's   *)
(* operation id is the pair of note and content.  Every note is addressed  *)
(* to somebody, so that it has a delivery once it has been routed.         *)
(***************************************************************************)
EXTENDS Integers, FiniteSets

CONSTANTS
    Note,        \* note ids
    ApiNotes,    \* the notes that requests create (their ids are reserved)
    CliNotes,    \* the notes that the command line creates
    EditNotes,   \* the notes whose files people write, change and delete
    MaxContent,  \* contents are 1..MaxContent
    Faults,      \* the stages whose transaction may fail
    MaxFaults,   \* bound on the failures
    MaxCrashes   \* bound on the kills of the server

Actor == {"watcher", "http", "cli"}
Broken == -1
NoContent == 0
Content == 1..MaxContent

ASSUME ConvergenceAssumption ==
    /\ ApiNotes \subseteq Note /\ CliNotes \subseteq Note /\ EditNotes \subseteq Note
    /\ MaxContent \in Nat \ {0}
    /\ MaxFaults \in Nat /\ MaxCrashes \in Nat

VARIABLES
    file,        \* file[n]: the content of the note's file
    manifest,    \* manifest[n]: the content the index holds, NoContent if none
    jobs,        \* jobs[n][c]: the state of the job for note n at content c
    delivered,   \* the notes that have their deliveries
    backfill,    \* delivery_backfill_version: the corpus routed by the last init
    events,      \* file-system events the observer has not yet reported
    pending,     \* MemoryWatcher._pending
    renewed,     \* the pending keys that got a new generation since "ready"
    ready,       \* the pending keys that flush works for
    changed,     \* the threading.Event "changed"
    pc,          \* pc[a]: what actor a does next
    note,        \* note[a]: the note that create_note of actor a is about
    claim,       \* claim[a]: the job that process_jobs of actor a has picked
    seen,        \* seen[a]: the content that actor a has read for its job
    valid,       \* valid[a]: the notes of the last scan and their contents
    before,      \* before[a]: the manifest that actor a has read
    plan,        \* plan[a]: the jobs that actor a is about to write
    todo,        \* the notes that sync_filesystem has still to route
    faults,      \* failures so far
    crashes      \* kills so far

dbVars == <<manifest, jobs, delivered, backfill>>
watchVars == <<events, pending, renewed, ready, changed>>
localVars == <<note, claim, seen, valid, before, plan, todo>>
vars == <<file, manifest, jobs, delivered, backfill, events, pending, renewed, ready,
          changed, pc, note, claim, seen, valid, before, plan, todo, faults, crashes>>

JobStates == {"none", "pending", "running", "done", "quarantined"}
JobStages == {"jobs", "mark", "read", "upsert", "done", "quarantine"}
StartStages == {"down", "init", "init_scan", "init_manifest", "init_recover", "init_plan",
                "init_deliver", "init_record", "observe"}
SyncStages == {"scan", "manifest", "recover", "plan", "rescan", "prune", "deliver", "consume"} \cup JobStages
Stages == StartStages \cup SyncStages \cup {"idle", "armed", "captured", "write", "enqueue"}

Empty == [n \in Note |-> NoContent]
\* What the scan returns: the files that parse.
Parsed(f) == [n \in Note |-> IF f[n] \in Content THEN f[n] ELSE NoContent]
Up == pc["watcher"] \notin StartStages
LockFree == pc["http"] = "idle" /\ pc["watcher"] \notin SyncStages
Goto(a, stage) == pc' = [pc EXCEPT ![a] = stage]
Set(f, a, value) == [f EXCEPT ![a] = value]

Init ==
    /\ file = Empty /\ manifest = Empty /\ delivered = {} /\ backfill = Empty
    /\ jobs = [n \in Note |-> [c \in Content |-> "none"]]
    /\ events = {} /\ pending = {} /\ renewed = {} /\ ready = {} /\ changed = FALSE
    /\ pc = [a \in Actor |-> "idle"]
    /\ note = [a \in Actor |-> {}] /\ claim = [a \in Actor |-> {}]
    /\ seen = [a \in Actor |-> NoContent]
    /\ valid = [a \in Actor |-> Empty] /\ before = [a \in Actor |-> Empty]
    /\ plan = [a \in Actor |-> {}] /\ todo = {}
    /\ faults = 0 /\ crashes = 0

-----------------------------------------------------------------------------
(***************************************************************************)
(* The notes directory and the observer                                    *)
(***************************************************************************)
\* The observer reports changes only while it runs.
Touch(n) == events' = IF Up THEN events \cup {n} ELSE events

EditFile(n, c) ==
    /\ c # file[n]
    /\ file' = [file EXCEPT ![n] = c]
    /\ Touch(n)
    /\ UNCHANGED <<dbVars, pending, renewed, ready, changed, pc, localVars, faults, crashes>>

\* NotesHandler.on_any_event: MemoryWatcher.notify gives the key a new
\* generation, then changed.set().
Notify(n) ==
    /\ n \in events
    /\ events' = events \ {n}
    /\ pending' = pending \cup {n}
    /\ renewed' = renewed \cup {n}
    /\ changed' = TRUE
    /\ UNCHANGED <<file, dbVars, ready, pc, localVars, faults, crashes>>

-----------------------------------------------------------------------------
(***************************************************************************)
(* Scan, read of the manifest and _recover_jobs_from_scan, which init and  *)
(* sync_filesystem share.                                                  *)
(***************************************************************************)
Scan(a, stage, next) ==
    /\ pc[a] = stage
    /\ valid' = Set(valid, a, Parsed(file))
    /\ Goto(a, next)
    /\ UNCHANGED <<file, dbVars, watchVars, note, claim, seen, before, plan, todo, faults, crashes>>

ReadManifest(a, stage, next) ==
    /\ pc[a] = stage
    /\ before' = Set(before, a, manifest)
    /\ Goto(a, next)
    /\ UNCHANGED <<file, dbVars, watchVars, note, claim, seen, valid, plan, todo, faults, crashes>>

\* An indexed note's job is recorded as done if it is unknown; the job of a
\* note that is not indexed as it stands goes back to pending unless it is
\* pending or running.
Planned(scan, indexed) ==
    {<<n, scan[n], "done">> : n \in {m \in Note :
        scan[m] # NoContent /\ indexed[m] = scan[m] /\ jobs[m][scan[m]] = "none"}}
    \cup
    {<<n, scan[n], "pending">> : n \in {m \in Note :
        scan[m] # NoContent /\ indexed[m] # scan[m]
        /\ jobs[m][scan[m]] \notin {"pending", "running"}}}

PlanJobs(a, stage, next) ==
    /\ pc[a] = stage
    /\ plan' = Set(plan, a, Planned(valid[a], before[a]))
    /\ Goto(a, next)
    /\ UNCHANGED <<file, dbVars, watchVars, note, claim, seen, valid, before, todo, faults, crashes>>

\* INSERT ... ON CONFLICT DO UPDATE SET state=excluded.state
WithPlan(p) ==
    [n \in Note |-> [c \in Content |->
        IF <<n, c, "done">> \in p THEN "done"
        ELSE IF <<n, c, "pending">> \in p THEN "pending" ELSE jobs[n][c]]]

WriteJobs(a, stage, next) ==
    /\ pc[a] = stage
    /\ jobs' = WithPlan(plan[a])
    /\ plan' = Set(plan, a, {})
    /\ Goto(a, next)
    /\ UNCHANGED <<file, manifest, delivered, backfill, watchVars, note, claim, seen, valid, before,
                   todo, faults, crashes>>

-----------------------------------------------------------------------------
(***************************************************************************)
(* process_jobs                                                            *)
(***************************************************************************)
\* INSERT OR IGNORE of create_note.
Enqueued(n, c) ==
    IF jobs[n][c] = "none" THEN [jobs EXCEPT ![n][c] = "pending"] ELSE jobs

PendingJobs == {j \in Note \X Content : jobs[j[1]][j[2]] = "pending"}

\* Where an actor goes on when no job is pending.
AfterJobs(a) == CASE a = "watcher" -> "rescan" [] a = "http" -> "deliver" [] OTHER -> "idle"

SelectJob(a) ==
    /\ pc[a] = "jobs"
    /\ \/ /\ PendingJobs = {}
          /\ Goto(a, AfterJobs(a))
          /\ UNCHANGED claim
       \/ \E j \in PendingJobs :
          /\ claim' = [claim EXCEPT ![a] = {j}]
          /\ Goto(a, "mark")
    /\ UNCHANGED <<file, dbVars, watchVars, note, seen, valid, before, plan, todo, faults, crashes>>

SetJob(a, state) ==
    jobs' = [n \in Note |-> [c \in Content |->
               IF <<n, c>> \in claim[a] THEN state ELSE jobs[n][c]]]

MarkRunning(a) ==
    /\ pc[a] = "mark"
    /\ SetJob(a, "running")
    /\ Goto(a, "read")
    /\ UNCHANGED <<file, manifest, delivered, backfill, watchVars, localVars, faults, crashes>>

\* _read_authoritative_with_path
ReadForIndex(a) ==
    /\ pc[a] = "read"
    /\ \E j \in claim[a] :
         /\ seen' = [seen EXCEPT ![a] = file[j[1]]]
         /\ Goto(a, IF file[j[1]] \in Content THEN "upsert" ELSE "quarantine")
    /\ UNCHANGED <<file, dbVars, watchVars, note, claim, valid, before, plan, todo, faults, crashes>>

UpsertIndex(a) ==
    /\ pc[a] = "upsert"
    /\ \E j \in claim[a] : manifest' = [manifest EXCEPT ![j[1]] = seen[a]]
    /\ Goto(a, "done")
    /\ UNCHANGED <<file, jobs, delivered, backfill, watchVars, localVars, faults, crashes>>

FinishJob(a) ==
    /\ pc[a] \in {"done", "quarantine"}
    /\ SetJob(a, IF pc[a] = "done" THEN "done" ELSE "quarantined")
    /\ claim' = Set(claim, a, {}) /\ seen' = Set(seen, a, NoContent)
    /\ Goto(a, "jobs")
    /\ UNCHANGED <<file, manifest, delivered, backfill, watchVars, note, valid, before, plan, todo,
                   faults, crashes>>

ProcessJobs(a) ==
    SelectJob(a) \/ MarkRunning(a) \/ ReadForIndex(a) \/ UpsertIndex(a) \/ FinishJob(a)

-----------------------------------------------------------------------------
(***************************************************************************)
(* MemoryService.init, by the starting server and by the command line.     *)
(* The server routes the whole corpus if it differs from the one that was  *)
(* routed before; then it starts the observer.  Nothing processes the jobs *)
(* that init has planned.                                                  *)
(***************************************************************************)
Restart ==
    /\ pc["watcher"] = "down"
    /\ Goto("watcher", "init")
    /\ UNCHANGED <<file, dbVars, watchVars, localVars, faults, crashes>>

\* _ensure_ops_schema_v4: UPDATE jobs SET state='pending' WHERE state='running'
Requeued ==
    [n \in Note |-> [c \in Content |->
        IF jobs[n][c] = "running" THEN "pending" ELSE jobs[n][c]]]

InitSchema(a) ==
    /\ pc[a] = "init"
    /\ jobs' = Requeued
    /\ Goto(a, "init_scan")
    /\ UNCHANGED <<file, manifest, delivered, backfill, watchVars, localVars, faults, crashes>>

InitScan(a) == Scan(a, "init_scan", "init_manifest")
InitManifest(a) == ReadManifest(a, "init_manifest", "init_recover")
InitRecover(a) == PlanJobs(a, "init_recover", "init_plan")
InitPlan(a) ==
    WriteJobs(a, "init_plan",
        CASE a = "cli" -> "write"
          [] a = "watcher" /\ backfill = valid[a] -> "observe"
          [] OTHER -> "init_deliver")

\* Faulty: only the notes that are already in the index are routed.
CorpusIndexed == {n \in Note : valid["watcher"][n] # NoContent /\ manifest[n] # NoContent}

\* _generate_all_deliveries
Corpus == {n \in Note : valid["watcher"][n] # NoContent}

InitDeliver ==
    /\ pc["watcher"] = "init_deliver"
    /\ delivered' = delivered \cup Corpus
    /\ Goto("watcher", "init_record")
    /\ UNCHANGED <<file, manifest, jobs, backfill, watchVars, localVars, faults, crashes>>

InitRecord ==
    /\ pc["watcher"] = "init_record"
    /\ backfill' = valid["watcher"]
    /\ Goto("watcher", "observe")
    /\ UNCHANGED <<file, manifest, jobs, delivered, watchVars, localVars, faults, crashes>>

\* observer.start() and the convergence thread.
StartObserver ==
    /\ pc["watcher"] = "observe"
    /\ before' = Set(before, "watcher", Empty)
    /\ Goto("watcher", "idle")
    /\ UNCHANGED <<file, dbVars, watchVars, note, claim, seen, valid, plan, todo, faults, crashes>>

InitService(a) ==
    InitSchema(a) \/ InitScan(a) \/ InitManifest(a) \/ InitRecover(a) \/ InitPlan(a)

StartUp ==
    Restart \/ InitService("watcher") \/ InitDeliver \/ InitRecord \/ StartObserver

-----------------------------------------------------------------------------
(***************************************************************************)
(* The convergence thread: converge() of server.py around                  *)
(* MemoryWatcher.flush(force=True) and sync_filesystem.                    *)
(***************************************************************************)
\* changed.wait() returned: changed.clear(), then the debounce delay.
Arm ==
    /\ pc["watcher"] = "idle" /\ changed
    /\ changed' = FALSE
    /\ Goto("watcher", "armed")
    /\ UNCHANGED <<file, dbVars, events, pending, renewed, ready, localVars, faults, crashes>>

\* flush takes the pending keys; with none of them it returns at once.
Capture ==
    /\ pc["watcher"] = "armed"
    /\ ready' = pending
    /\ renewed' = {}
    /\ Goto("watcher", IF pending = {} THEN "idle" ELSE "captured")
    /\ UNCHANGED <<file, dbVars, events, pending, changed, localVars, faults, crashes>>

\* sync_filesystem gets the lock.
SyncLock ==
    /\ pc["watcher"] = "captured" /\ LockFree
    /\ Goto("watcher", "scan")
    /\ UNCHANGED <<file, dbVars, watchVars, localVars, faults, crashes>>

SyncScan == Scan("watcher", "scan", "manifest")
SyncManifest == ReadManifest("watcher", "manifest", "recover")
SyncRecover == PlanJobs("watcher", "recover", "plan")
SyncPlan == WriteJobs("watcher", "plan", "jobs")
SyncRescan == Scan("watcher", "rescan", "prune")

\* Faulty: compared with the index as process_jobs has left it.
ChangedNotesAfterJobs(scan) == {n \in Note : scan[n] # NoContent /\ scan[n] # manifest[n]}

\* Notes that are gone or no longer parse leave the index; the notes whose
\* content differs from indexed_before are the ones to route.
ChangedNotes(scan) == {n \in Note : scan[n] # NoContent /\ scan[n] # before["watcher"][n]}

SyncPrune ==
    /\ pc["watcher"] = "prune"
    /\ manifest' = [n \in Note |->
                      IF valid["watcher"][n] = NoContent THEN NoContent ELSE manifest[n]]
    /\ todo' = ChangedNotes(valid["watcher"])
    /\ valid' = Set(valid, "watcher", Empty) /\ before' = Set(before, "watcher", Empty)
    /\ Goto("watcher", "deliver")
    /\ UNCHANGED <<file, jobs, delivered, backfill, watchVars, note, claim, seen, plan, faults, crashes>>

SyncDeliver ==
    /\ pc["watcher"] = "deliver"
    /\ \/ /\ todo = {}
          /\ Goto("watcher", "consume")
          /\ UNCHANGED <<delivered, todo>>
       \/ \E n \in todo :
          /\ delivered' = delivered \cup {n}
          /\ todo' = todo \ {n}
          /\ UNCHANGED pc
    /\ UNCHANGED <<file, manifest, jobs, backfill, watchVars, note, claim, seen, valid, before, plan,
                   faults, crashes>>

\* Faulty: the generation is not compared.
ConsumedAll == ready

\* The generations that were not renewed meanwhile are consumed.
Consumed == ready \ renewed

Consume ==
    /\ pc["watcher"] = "consume"
    /\ pending' = pending \ Consumed
    /\ ready' = {} /\ renewed' = {}
    /\ Goto("watcher", "idle")
    /\ UNCHANGED <<file, dbVars, events, changed, localVars, faults, crashes>>

Watcher ==
    \/ Arm \/ Capture \/ SyncLock \/ SyncScan \/ SyncManifest \/ SyncRecover \/ SyncPlan
    \/ ProcessJobs("watcher") \/ SyncRescan \/ SyncPrune \/ SyncDeliver \/ Consume

-----------------------------------------------------------------------------
(***************************************************************************)
(* create_note.  The note id is reserved in the idempotency table; a retry *)
(* finds the file and reconciles, or writes it if it is not there.         *)
(***************************************************************************)
HttpCreate(n) ==
    /\ Up /\ LockFree
    /\ file[n] # Broken
    /\ note' = [note EXCEPT !["http"] = {n}]
    /\ seen' = [seen EXCEPT !["http"] = file[n]]
    /\ Goto("http", IF file[n] = NoContent THEN "write" ELSE "enqueue")
    /\ UNCHANGED <<file, dbVars, watchVars, claim, valid, before, plan, todo, faults, crashes>>

CliCreate(n) ==
    /\ pc["cli"] = "idle"
    /\ file[n] = NoContent
    /\ note' = [note EXCEPT !["cli"] = {n}]
    /\ Goto("cli", "init")
    /\ UNCHANGED <<file, dbVars, watchVars, claim, seen, valid, before, plan, todo, faults, crashes>>

\* atomic_write
WriteFile(a, c) ==
    /\ pc[a] = "write"
    /\ \E n \in note[a] : file' = [file EXCEPT ![n] = c] /\ Touch(n)
    /\ seen' = [seen EXCEPT ![a] = c]
    /\ Goto(a, "enqueue")
    /\ UNCHANGED <<dbVars, pending, renewed, ready, changed, note, claim, valid, before,
                   plan, todo, faults, crashes>>

\* The job is for the content that was written or read back, whatever has
\* happened to the file since.
EnqueueJob(a) ==
    /\ pc[a] = "enqueue"
    /\ \E n \in note[a] : jobs' = Enqueued(n, seen[a])
    /\ seen' = Set(seen, a, NoContent)
    /\ Goto(a, "jobs")
    /\ UNCHANGED <<file, manifest, delivered, backfill, watchVars, note, claim, valid, before, plan,
                   todo, faults, crashes>>

\* generate_deliveries reads the note again and raises if it is gone.
HttpDeliver ==
    /\ pc["http"] = "deliver"
    /\ delivered' = delivered \cup {n \in note["http"] : file[n] \in Content}
    /\ note' = Set(note, "http", {})
    /\ Goto("http", "idle")
    /\ UNCHANGED <<file, manifest, jobs, backfill, watchVars, claim, seen, valid, before, plan, todo,
                   faults, crashes>>

CreateNote(a) == (\E c \in Content : WriteFile(a, c)) \/ EnqueueJob(a) \/ ProcessJobs(a)
Request == CreateNote("http") \/ HttpDeliver

-----------------------------------------------------------------------------
(***************************************************************************)
(* Failures                                                                *)
(***************************************************************************)
\* The local variables of the actors that stop are gone.
Forget(stopped) ==
    /\ note' = [a \in Actor |-> IF a \in stopped THEN {} ELSE note[a]]
    /\ claim' = [a \in Actor |-> IF a \in stopped THEN {} ELSE claim[a]]
    /\ seen' = [a \in Actor |-> IF a \in stopped THEN NoContent ELSE seen[a]]
    /\ valid' = [a \in Actor |-> IF a \in stopped THEN Empty ELSE valid[a]]
    /\ before' = [a \in Actor |-> IF a \in stopped THEN Empty ELSE before[a]]
    /\ plan' = [a \in Actor |-> IF a \in stopped THEN {} ELSE plan[a]]
    /\ todo' = IF "watcher" \in stopped THEN {} ELSE todo

\* Faulty: the exception is dropped.
ChangedAfterFailureDropped(a) == changed

\* except Exception: changed.set()
ChangedAfterFailure(a) == changed \/ a = "watcher"

\* An exception in a transaction or scan of the server ends the operation.
\* The convergence thread keeps its pending generations and sets changed.
Fail(a) ==
    /\ a # "cli" /\ pc[a] \in Faults /\ pc[a] # "upsert" /\ faults < MaxFaults
    /\ faults' = faults + 1
    /\ changed' = ChangedAfterFailure(a)
    /\ ready' = IF a = "watcher" THEN {} ELSE ready
    /\ Goto(a, "idle")
    /\ Forget({a})
    /\ UNCHANGED <<file, dbVars, events, pending, renewed, crashes>>

\* An exception of _upsert_index is caught in process_jobs.
FailUpsert(a) ==
    /\ a # "cli" /\ pc[a] = "upsert" /\ "upsert" \in Faults /\ faults < MaxFaults
    /\ faults' = faults + 1
    /\ Goto(a, "quarantine")
    /\ UNCHANGED <<file, dbVars, watchVars, localVars, crashes>>

\* The server is killed: its threads and everything in memory are gone.
Crash ==
    /\ pc["watcher"] # "down" /\ crashes < MaxCrashes
    /\ crashes' = crashes + 1
    /\ events' = {} /\ pending' = {} /\ renewed' = {} /\ ready' = {} /\ changed' = FALSE
    /\ pc' = [pc EXCEPT !["watcher"] = "down", !["http"] = "idle"]
    /\ Forget({"watcher", "http"})
    /\ UNCHANGED <<file, dbVars, faults>>

Next ==
    \/ \E n \in EditNotes, c \in Content \cup {NoContent, Broken} : EditFile(n, c)
    \/ \E n \in Note : Notify(n)
    \/ StartUp
    \/ InitService("cli")
    \/ Watcher
    \/ \E n \in ApiNotes : HttpCreate(n)
    \/ \E n \in CliNotes : CliCreate(n)
    \/ Request
    \/ CreateNote("cli")
    \/ \E a \in Actor : Fail(a) \/ FailUpsert(a)
    \/ Crash

Spec == Init /\ [][Next]_vars

(***************************************************************************)
(* Fairness: the observer thread, the convergence thread, a request's      *)
(* handler thread and the start-up keep running while they have something  *)
(* to do.  People and clients owe nothing.                                 *)
(***************************************************************************)
FairSpec ==
    /\ Spec
    /\ WF_vars(\E n \in Note : Notify(n))
    /\ WF_vars(Watcher)
    /\ WF_vars(Request)
    /\ WF_vars(StartUp)

-----------------------------------------------------------------------------
(***************************************************************************)
(* Properties                                                              *)
(***************************************************************************)

\* Types of the tables, the watcher's memory and the actors' local state.
TypeOK ==
    /\ file \in [Note -> Content \cup {NoContent, Broken}]
    /\ manifest \in [Note -> Content \cup {NoContent}]
    /\ jobs \in [Note -> [Content -> JobStates]]
    /\ delivered \subseteq Note /\ backfill \in [Note -> Content \cup {NoContent}]
    /\ events \subseteq Note /\ pending \subseteq Note
    /\ renewed \subseteq pending /\ ready \subseteq pending
    /\ changed \in BOOLEAN
    /\ pc \in [Actor -> Stages]
    /\ note \in [Actor -> SUBSET Note] /\ claim \in [Actor -> SUBSET (Note \X Content)]
    /\ seen \in [Actor -> Content \cup {NoContent, Broken}]
    /\ valid \in [Actor -> [Note -> Content \cup {NoContent}]]
    /\ before \in [Actor -> [Note -> Content \cup {NoContent}]]
    /\ plan \in [Actor -> SUBSET (Note \X Content \X {"done", "pending"})]
    /\ todo \subseteq Note
    /\ faults \in 0..MaxFaults /\ crashes \in 0..MaxCrashes

Quiet ==
    /\ Up /\ \A a \in Actor : pc[a] = "idle"
    /\ ~changed /\ pending = {} /\ events = {}

Indexed(n) == manifest[n] = Parsed(file)[n]
Routed(n) == Parsed(file)[n] = NoContent \/ n \in delivered

\* When the running server has nothing left to do, the index is the notes
\* directory and every note in it has been routed, in whatever order edits,
\* events, flushes, creates and failures before the first index write came.
QuietMeansConverged == Quiet => \A n \in Note : Indexed(n) /\ Routed(n)

\* docs/OPERATIONS.md: "The watcher consumes a pending filesystem generation
\* only after its complete parse, index, and delivery convergence succeeds."
\* (A change after the scan has an event of its own.)
ConsumedMeansConverged ==
    [][\A n \in pending \ pending' :
          ~Up' \/ n \in events' \/ (Indexed(n)' /\ Routed(n)')]_vars

\* The same of the index alone, which also holds when requests and people write
\* the same notes and when process_jobs or any later stage of a flush fails.
QuietMeansIndexed == Quiet => \A n \in Note : Indexed(n)

\* A generation is consumed only after its note was indexed as it stands, or
\* with another event on its way.
ConsumedMeansIndexed ==
    [][\A n \in pending \ pending' : ~Up' \/ n \in events' \/ Indexed(n)']_vars

\* The recorded corpus revision never claims a note that was not routed, and
\* a server that has started has routed every note its scan found, whatever
\* was lost or left half done by the process before it.
RestartHeals ==
    /\ \A n \in Note : backfill[n] # NoContent => n \in delivered
    /\ pc["watcher"] = "observe" => Corpus \subseteq delivered

\* docs/DURABLE_MEMORY_EVIDENCE.md: "Kill after replace/before job: startup
\* scan creates the missing deterministic job and the note becomes
\* indexed/readable exactly once."  A started server at rest has indexed the
\* notes that its own start-up scan found.
RestartIndexes ==
    Quiet => \A n \in Note : valid["watcher"][n] = file[n] => Indexed(n)

\* Once nobody changes the files any more and requests stop taking the
\* convergence lock, the index catches up with the files for good, transient
\* failures of a flush or of a request notwithstanding.
EventuallyIndexed ==
    <>[][file' = file /\ pc'["http"] = "idle"]_vars => <>[](\A n \in Note : Indexed(n))
=============================================================================

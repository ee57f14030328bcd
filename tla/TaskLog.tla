------------------------------ MODULE TaskLog ------------------------------
(***************************************************************************)
(* Task-log sedimentation (memory.py, replay_terminal_outbox) beside the   *)
(* coordination plane: the terminal outbox of hub-tasks.sqlite, the note   *)
(* files, and the jobs and receipts of memory-ops.sqlite are changed one   *)
(* after the other, and the server may be killed or a step may fail in     *)
(* between.  Tasks and their terminal notices are those of TaskLifecycle,  *)
(* which TaskStore implements; an outbox row is the notice of its task.    *)
(*                                                                         *)
(* The note of a row has an id computed from the row, so that every replay *)
(* looks at the same file.  People may edit, break or delete that file.    *)
(* What happens to the index job of the note is in Convergence: no outcome *)
(* of process_jobs but an error of its own keeps the replay from going on. *)
(***************************************************************************)
EXTENDS TaskLifecycle, Integers, FiniteSets

CONSTANTS
    Replayer,    \* request threads that may be asked for a replay
    Plain,       \* tasks whose payload is small and has no secret marker
    MaxKills,    \* bound on kills and restarts of the server
    MaxFaults,   \* bound on failing steps
    MaxEdits     \* bound on what people do to the files

ASSUME TaskLogAssumption ==
    /\ Plain \subseteq Task
    /\ "free" \notin Replayer
    /\ MaxKills \in Nat
    /\ MaxFaults \in Nat
    /\ MaxEdits \in Nat

FileStates == {"absent", "hub", "edited", "broken"}
Steps == {"idle", "row", "file", "index", "receipt", "ack", "suppress", "noted"}

VARIABLES
    enabled,    \* enable_task_log of the running server
    intents,    \* tasks whose intent is in its task_log_intents
    file,       \* file[t]: the note file of t's row
    receipts,   \* <<t, outcome>>: rows of the receipts table for the task log
    lock,       \* _convergence_lock: the thread that replays, or "free"
    replay,     \* the replay under the lock: [pc, todo, task]
    writes,     \* history: writes[t], files the hub wrote for t
    removals,   \* history: removals[t], files people deleted
    barred,     \* history: rows that some replay found ineligible
    settled,    \* history: every returned replay had acknowledged what it listed
    budget      \* history: [kills, faults, edits] so far

taskVars == <<status, notice>>
logVars == <<status, notice, enabled, intents, file, receipts, lock, replay,
             writes, removals, barred, settled, budget>>

NoReplay == [pc |-> "idle", todo |-> {}, listed |-> {}, task |-> "none"]

-----------------------------------------------------------------------------
LogInit ==
    /\ LifecycleInit
    /\ enabled = TRUE
    /\ intents = Task
    /\ file = [t \in Task |-> "absent"]
    /\ receipts = {}
    /\ lock = "free"
    /\ replay = NoReplay
    /\ writes = [t \in Task |-> 0]
    /\ removals = [t \in Task |-> 0]
    /\ barred = {}
    /\ settled = TRUE
    /\ budget = [kills |-> 0, faults |-> 0, edits |-> 0]

\* The coordination plane goes on while a replay runs.
Coordinate ==
    /\ \E t \in Task, s \in TaskStates : Create(t, s) \/ Advance(t, s)
    /\ UNCHANGED <<enabled, intents, file, receipts, lock, replay, writes,
                   removals, barred, settled, budget>>

\* Faulty: acknowledged rows are listed again.
OutboxAll == {t \in Task : notice[t] # "none"}

\* Faulty: the rows of canceled tasks are not listed.
OutboxNotCanceled == {t \in Task : notice[t] = "pending" /\ status[t] # "canceled"}

\* list_terminal_outbox: the rows not acknowledged yet.
Outbox == {t \in Task : notice[t] = "pending"}

\* The policy: terminal state, allow-listed intent, size and secret markers.
Eligible(t) ==
    /\ status[t] \in {"completed", "failed", "canceled"}
    /\ t \in intents
    /\ t \in Plain

\* With the task log disabled a replay only counts the rows.
CountOnly(th) ==
    /\ lock = "free"
    /\ ~enabled
    /\ UNCHANGED logVars

\* replay_terminal_outbox takes the lock and lists the rows.
BeginReplay(th) ==
    /\ lock = "free"
    /\ enabled
    /\ lock' = th
    /\ replay' = [NoReplay EXCEPT !.pc = "row", !.todo = Outbox, !.listed = Outbox]
    /\ UNCHANGED <<taskVars, enabled, intents, file, receipts, writes,
                   removals, barred, settled, budget>>

At(th, pc) == lock = th /\ replay.pc = pc

Goto(pc) == replay' = [replay EXCEPT !.pc = pc]

\* Faulty: the row is acknowledged before its note is written.
FirstStepAck(t) == IF Eligible(t) THEN "ack" ELSE "suppress"

FirstStep(t) == IF Eligible(t) THEN "file" ELSE "suppress"

NextRow(th) ==
    /\ At(th, "row")
    /\ \E t \in replay.todo :
        /\ replay' = [replay EXCEPT !.pc = FirstStep(t), !.todo = @ \ {t}, !.task = t]
        /\ barred' = IF Eligible(t) THEN barred ELSE barred \cup {t}
    /\ UNCHANGED <<taskVars, enabled, intents, file, receipts, lock, writes,
                   removals, settled, budget>>

\* acknowledge_terminal_outbox: COALESCE keeps an earlier acknowledgement.
Acked(t) == notice' = [notice EXCEPT ![t] = "acked"] /\ UNCHANGED status

\* An ineligible row is acknowledged first; its receipt is a step of its own.
Suppress(th) ==
    /\ At(th, "suppress")
    /\ Acked(replay.task)
    /\ Goto("noted")
    /\ UNCHANGED <<enabled, intents, file, receipts, lock, writes, removals, barred,
                   settled, budget>>

NoteSuppressed(th) ==
    /\ At(th, "noted")
    /\ receipts' = receipts \cup {<<replay.task, "suppressed">>}
    /\ Goto("row")
    /\ UNCHANGED <<taskVars, enabled, intents, file, lock, writes, removals, barred,
                   settled, budget>>

AbsentFile(t) == file[t] = "absent"

\* An existing file is taken as it is if it parses; otherwise it is written.
PutFile(th) ==
    /\ At(th, "file")
    /\ file[replay.task] # "broken"
    /\ IF AbsentFile(replay.task)
         THEN /\ file' = [file EXCEPT ![replay.task] = "hub"]
              /\ writes' = [writes EXCEPT ![replay.task] = @ + 1]
         ELSE UNCHANGED <<file, writes>>
    /\ Goto("index")
    /\ UNCHANGED <<taskVars, enabled, intents, receipts, lock, removals, barred,
                   settled, budget>>

\* The job of the note is made pending and process_jobs works off all jobs.
IndexNote(th) ==
    /\ At(th, "index")
    /\ Goto("receipt")
    /\ UNCHANGED <<taskVars, enabled, intents, file, receipts, lock, writes,
                   removals, barred, settled, budget>>

PutReceipt(th) ==
    /\ At(th, "receipt")
    /\ receipts' = receipts \cup {<<replay.task, "committed">>}
    /\ Goto("ack")
    /\ UNCHANGED <<taskVars, enabled, intents, file, lock, writes, removals,
                   barred, settled, budget>>

AckRow(th) ==
    /\ At(th, "ack")
    /\ Acked(replay.task)
    /\ Goto("row")
    /\ UNCHANGED <<enabled, intents, file, receipts, lock, writes, removals,
                   barred, settled, budget>>

Return(th) ==
    /\ At(th, "row")
    /\ replay.todo = {}
    /\ lock' = "free"
    /\ replay' = NoReplay
    /\ settled' = (settled /\ \A t \in replay.listed : notice[t] = "acked")
    /\ UNCHANGED <<taskVars, enabled, intents, file, receipts, writes, removals,
                   barred, budget>>

-----------------------------------------------------------------------------
\* An exception leaves the replay and with it the lock.
Abort ==
    /\ lock' = "free"
    /\ replay' = NoReplay
    /\ UNCHANGED <<taskVars, enabled, intents, file, receipts, writes, removals,
                   barred, settled>>

\* parse_note raises: the row stays, and so do the rows after it.
Unparsable(th) ==
    /\ At(th, "file")
    /\ file[replay.task] = "broken"
    /\ Abort
    /\ UNCHANGED budget

Fault(th) ==
    /\ lock = th
    /\ budget.faults < MaxFaults
    /\ budget' = [budget EXCEPT !.faults = @ + 1]
    /\ Abort

\* The server is killed, and started again with other options.
Restart ==
    /\ budget.kills < MaxKills
    /\ budget' = [budget EXCEPT !.kills = @ + 1]
    /\ enabled' \in BOOLEAN
    /\ intents' \in SUBSET Task
    /\ lock' = "free"
    /\ replay' = NoReplay
    /\ UNCHANGED <<taskVars, file, receipts, writes, removals, barred, settled>>

\* People: a file is edited, broken or repaired, or deleted.
Edit(t, f) ==
    /\ budget.edits < MaxEdits
    /\ file[t] # "absent"
    /\ f \in {"absent", "edited", "broken"} \ {file[t]}
    /\ budget' = [budget EXCEPT !.edits = @ + 1]
    /\ file' = [file EXCEPT ![t] = f]
    /\ removals' = IF f = "absent" THEN [removals EXCEPT ![t] = @ + 1] ELSE removals
    /\ UNCHANGED <<taskVars, enabled, intents, receipts, lock, replay, writes,
                   barred, settled>>

Replaying(th) ==
    \/ NextRow(th) \/ Suppress(th) \/ NoteSuppressed(th) \/ PutFile(th) \/ IndexNote(th)
    \/ PutReceipt(th) \/ AckRow(th) \/ Return(th) \/ Unparsable(th)

LogNext ==
    \/ Coordinate
    \/ \E th \in Replayer : CountOnly(th) \/ BeginReplay(th) \/ Replaying(th) \/ Fault(th)
    \/ Restart
    \/ \E t \in Task, f \in FileStates : Edit(t, f)

(***************************************************************************)
(* A request that was begun goes on, and the operator asks again for a     *)
(* replay: nothing in the server does it by itself.                        *)
(***************************************************************************)
LogFairness ==
    /\ WF_logVars(\E th \in Replayer : Replaying(th))
    /\ WF_logVars(\E th \in Replayer : Outbox # {} /\ BeginReplay(th))

LogSpec == LogInit /\ [][LogNext]_logVars /\ LogFairness

-----------------------------------------------------------------------------
LogTypeOK ==
    /\ status \in [Task -> TaskStates \cup {Absent}]
    /\ notice \in [Task -> {"none", "pending", "acked"}]
    /\ enabled \in BOOLEAN
    /\ intents \subseteq Task
    /\ file \in [Task -> FileStates]
    /\ receipts \subseteq Task \X {"committed", "suppressed"}
    /\ lock \in Replayer \cup {"free"}
    /\ replay.pc \in Steps
    /\ lock = "free" <=> replay.pc = "idle"
    /\ replay.todo \subseteq replay.listed /\ replay.listed \subseteq Task
    /\ replay.task \in Task \cup {"none"}
    /\ writes \in [Task -> Nat] /\ removals \in [Task -> Nat]
    /\ barred \subseteq Task
    /\ settled \in BOOLEAN

(***************************************************************************)
(* "task-log exactly-once" (docs/ADAPTER_AND_SKILL_EVIDENCE.md:57).  At    *)
(* least once: a terminal notice is acknowledged only when it can be       *)
(* forgotten, its note written and its receipt recorded, or found          *)
(* ineligible by a replay; and a replay that returns has acknowledged      *)
(* every row it listed.  At most once: the hub writes a note again only    *)
(* when people deleted the file before the row was acknowledged, and a     *)
(* task that was never terminal has none.  Kills, failures, other options  *)
(* after a restart and replays of the same row do not change that.         *)
(***************************************************************************)
ExactlyOnce ==
    /\ settled
    /\ \A t \in Task :
        /\ notice[t] = "acked" /\ t \notin barred =>
              writes[t] > 0 /\ <<t, "committed">> \in receipts
        /\ writes[t] <= 1 + removals[t]
        /\ writes[t] > 0 => status[t] \in TerminalStates

(***************************************************************************)
(* What people wrote into a task-log note stays: no replay of its row      *)
(* overwrites the file, and an acknowledged note is not written again.     *)
(***************************************************************************)
EditsSurvive ==
    [][\A t \in Task :
        /\ file[t] \in {"edited", "broken"} => file'[t] # "hub"
        /\ notice[t] = "acked" => writes'[t] = writes[t]]_logVars

(***************************************************************************)
(* With an operator who asks again, every terminal notice is settled       *)
(* after kills and failures, unless the task log is disabled or a note     *)
(* file that cannot be parsed stays in the way.                            *)
(***************************************************************************)
EventuallySettled ==
    \A t \in Task : notice[t] = "pending" ~>
        \/ notice[t] = "acked"
        \/ ~enabled
        \/ \E w \in Task : file[w] = "broken"
=============================================================================

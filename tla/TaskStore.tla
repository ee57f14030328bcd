----------------------------- MODULE TaskStore -----------------------------
(***************************************************************************)
(* HubStore (store.py): the tasks, events and terminal_outbox tables of    *)
(* hub-tasks.sqlite, used by the request threads of ThreadingHTTPServer.   *)
(*                                                                         *)
(* Every "with self.connect()" block is one SQLite transaction and so one  *)
(* step.  create_task is two of them: a lookup by idempotency key on its   *)
(* own connection, then an insert; other threads run in between.           *)
(* append_event is one: BEGIN IMMEDIATE takes the write lock before the    *)
(* current state is read.  A cancel (REST or JSON-RPC) is an append_event  *)
(* with state "canceled".                                                  *)
(***************************************************************************)
EXTENDS TaskModels, Naturals, FiniteSets

CONSTANTS
    Key,         \* idempotency keys
    NoKey,       \* a create request without a key
    NoTask,      \* a reply that names no task
    Thread,      \* request-handler threads
    Requested,   \* the states that requests ask for
    MaxEvents    \* bound on the events of one task

ASSUME TaskStoreAssumption ==
    /\ NoKey \notin Key
    /\ NoTask \notin Task
    /\ Requested \subseteq TaskStates
    /\ MaxEvents \in Nat \ {0}

VARIABLES
    state,       \* tasks.state by task_id, Absent when there is no row
    keyOf,       \* tasks.idempotency_key by task_id
    events,      \* rows of the events table
    outbox,      \* rows of terminal_outbox
    acked,       \* outbox rows whose acknowledged_at is set
    call,        \* call[th]: the create_task a thread is executing
    reply        \* reply[th]: what the thread's last request returned

dbVars == <<state, keyOf, events, outbox, acked>>
vars == <<state, keyOf, events, outbox, acked, call, reply>>

EventRow == [task : Task, seq : Nat, state : TaskStates \cup {NoState}]
OutboxRow == [task : Task, seq : Nat, state : TerminalStates]
Call == [pc : {"idle", "lookup", "insert"}, task : Task \cup {NoTask},
         key : Key \cup {NoKey}, state : TaskStates \cup {NoState}]
Reply == [kind : {"none", "inserted", "existing", "duplicate-key", "duplicate-id",
                  "event", "not-found", "invalid"},
          task : Task \cup {NoTask}, key : Key \cup {NoKey}]

Idle == [pc |-> "idle", task |-> NoTask, key |-> NoKey, state |-> NoState]
NoReply == [kind |-> "none", task |-> NoTask, key |-> NoKey]

Exists(t) == state[t] # Absent
SeqsOf(t) == {e.seq : e \in {r \in events : r.task = t}}

\* Faulty: the next number counts only the events that carry a state.
NextSequenceOfStates(t) ==
    1 + Cardinality({e \in events : e.task = t /\ e.state # NoState})

\* SELECT COALESCE(MAX(sequence), 0) + 1 FROM events WHERE task_id = ?
NextSequence(t) ==
    1 + (CHOOSE m \in SeqsOf(t) \cup {0} : \A n \in SeqsOf(t) : n <= m)

\* The task get_task_by_idempotency finds; NoTask when there is none.
TaskByKey(k) ==
    IF k # NoKey /\ \E t \in Task : Exists(t) /\ keyOf[t] = k
    THEN CHOOSE t \in Task : Exists(t) /\ keyOf[t] = k
    ELSE NoTask

\* Faulty: idempotency_key has no UNIQUE constraint.
KeyNeverTaken(k) == FALSE

\* The UNIQUE constraint on idempotency_key would fail (NULLs never do).
KeyTaken(k) == k # NoKey /\ \E t \in Task : Exists(t) /\ keyOf[t] = k

Init ==
    /\ state = [t \in Task |-> Absent]
    /\ keyOf = [t \in Task |-> NoKey]
    /\ events = {}
    /\ outbox = {}
    /\ acked = {}
    /\ call = [th \in Thread |-> Idle]
    /\ reply = [th \in Thread |-> NoReply]

\* Faulty: only a completed task gets an outbox row.
AppendEventConnCompletedOnly(t, s) ==
    LET n == NextSequence(t)
        e == [task |-> t, seq |-> n, state |-> s] IN
    /\ events' = events \cup {e}
    /\ outbox' = IF s = "completed" THEN outbox \cup {e} ELSE outbox

(***************************************************************************)
(* _append_event_conn: one event row and, for a terminal state, one outbox *)
(* row with the same sequence (ON CONFLICT DO NOTHING on the operation id, *)
(* which is the pair of task and sequence).                                *)
(***************************************************************************)
AppendEventConn(t, s) ==
    LET n == NextSequence(t) IN
    /\ events' = events \cup {[task |-> t, seq |-> n, state |-> s]}
    /\ outbox' = IF /\ s \in TerminalStates
                    /\ \A o \in outbox : ~(o.task = t /\ o.seq = n)
                 THEN outbox \cup {[task |-> t, seq |-> n, state |-> s]}
                 ELSE outbox

(***************************************************************************)
(* create_task                                                             *)
(***************************************************************************)
CreateTask(th, t, k, s) ==
    /\ call[th].pc = "idle"
    /\ call' = [call EXCEPT ![th] =
                  [pc |-> IF k = NoKey THEN "insert" ELSE "lookup",
                   task |-> t, key |-> k, state |-> s]]
    /\ reply' = [reply EXCEPT ![th] = NoReply]
    /\ UNCHANGED dbVars

\* get_task_by_idempotency: an existing task is returned as it is.
LookupKey(th) ==
    /\ call[th].pc = "lookup"
    /\ LET found == TaskByKey(call[th].key) IN
       IF found # NoTask
       THEN /\ reply' = [reply EXCEPT ![th] =
                           [kind |-> "existing", task |-> found, key |-> call[th].key]]
            /\ call' = [call EXCEPT ![th] = Idle]
       ELSE /\ call' = [call EXCEPT ![th].pc = "insert"]
            /\ UNCHANGED reply
    /\ UNCHANGED dbVars

\* INSERT INTO tasks and the task.submitted event, in one transaction.  A
\* constraint failure raises sqlite3.IntegrityError and rolls both back.
InsertTask(th) ==
    /\ call[th].pc = "insert"
    /\ LET t == call[th].task
           k == call[th].key IN
       \/ /\ Exists(t) \/ KeyTaken(k)
          /\ reply' = [reply EXCEPT ![th] =
                         [kind |-> IF KeyTaken(k) THEN "duplicate-key" ELSE "duplicate-id",
                          task |-> NoTask, key |-> k]]
          /\ UNCHANGED dbVars
       \/ /\ ~Exists(t) /\ ~KeyTaken(k)
          /\ state' = [state EXCEPT ![t] = call[th].state]
          /\ keyOf' = [keyOf EXCEPT ![t] = k]
          /\ AppendEventConn(t, call[th].state)
          /\ reply' = [reply EXCEPT ![th] =
                         [kind |-> "inserted", task |-> t, key |-> k]]
          /\ UNCHANGED acked
    /\ call' = [call EXCEPT ![th] = Idle]

\* Faulty: the UPDATE runs for an event without a state too.
StateAfterAlways(t, s) == [state EXCEPT ![t] = s]

\* The tasks.state column after append_event: written if the event has a state.
StateAfter(t, s) == IF s = NoState THEN state ELSE [state EXCEPT ![t] = s]

(***************************************************************************)
(* append_event, the events and cancel endpoints and tasks/cancel          *)
(***************************************************************************)
AppendEvent(th, t, s) ==
    /\ call[th].pc = "idle"
    /\ \/ /\ ~Exists(t)
          /\ reply' = [reply EXCEPT ![th] = [kind |-> "not-found", task |-> t, key |-> NoKey]]
          /\ UNCHANGED dbVars
       \/ /\ Exists(t)
          /\ ~EnsureTransition(state[t], s)
          /\ reply' = [reply EXCEPT ![th] = [kind |-> "invalid", task |-> t, key |-> NoKey]]
          /\ UNCHANGED dbVars
       \/ /\ Exists(t)
          /\ EnsureTransition(state[t], s)
          /\ NextSequence(t) <= MaxEvents
          /\ AppendEventConn(t, s)
          /\ state' = StateAfter(t, s)
          /\ reply' = [reply EXCEPT ![th] = [kind |-> "event", task |-> t, key |-> NoKey]]
          /\ UNCHANGED <<keyOf, acked>>
    /\ UNCHANGED call

\* acknowledge_terminal_outbox(operation_id); a second call keeps the first time.
AcknowledgeTerminalOutbox(o) ==
    /\ o \in outbox
    /\ acked' = acked \cup {o}
    /\ UNCHANGED <<state, keyOf, events, outbox, call, reply>>

\* The process is killed: open transactions roll back, requests get no reply.
Crash ==
    /\ call' = [th \in Thread |-> Idle]
    /\ reply' = [th \in Thread |-> NoReply]
    /\ UNCHANGED dbVars

Next ==
    \/ \E th \in Thread :
         \/ \E t \in Task, k \in Key \cup {NoKey}, s \in Requested : CreateTask(th, t, k, s)
         \/ LookupKey(th)
         \/ InsertTask(th)
         \/ \E t \in Task, s \in Requested \cup {NoState} : AppendEvent(th, t, s)
    \/ \E o \in outbox : AcknowledgeTerminalOutbox(o)
    \/ Crash

Spec == Init /\ [][Next]_vars

-----------------------------------------------------------------------------
(***************************************************************************)
(* Properties                                                              *)
(***************************************************************************)

\* Types of the tables and of the threads' local state.
TypeOK ==
    /\ state \in [Task -> TaskStates \cup {Absent}]
    /\ keyOf \in [Task -> Key \cup {NoKey}]
    /\ events \subseteq EventRow
    /\ outbox \subseteq OutboxRow
    /\ acked \subseteq outbox
    /\ call \in [Thread -> Call]
    /\ reply \in [Thread -> Reply]

\* The event ledger of a task is numbered 1..n without gap or repetition
\* whatever threads append concurrently, a task without a row has no events,
\* and the state column is the state of the last event that carries one.
EventLedger ==
    /\ \A e, f \in events : e.task = f.task /\ e.seq = f.seq => e = f
    /\ \A t \in Task :
         /\ SeqsOf(t) = {} <=> ~Exists(t)
         /\ \A n \in SeqsOf(t) : n >= 1 /\ 1..n \subseteq SeqsOf(t)
         /\ \A e \in events :
              (/\ e.task = t
               /\ e.state # NoState
               /\ \A f \in events : f.task = t /\ f.seq > e.seq => f.state = NoState)
              => state[t] = e.state

\* Terminal event and outbox row stand or fall together: the outbox holds
\* exactly the terminal events, there is at most one for a task, it is the
\* task's last event, and it exists exactly when the task is terminal.
TerminalOutbox ==
    /\ outbox = {e \in events : e.state \in TerminalStates}
    /\ \A o \in outbox : SeqsOf(o.task) = 1..o.seq /\ state[o.task] = o.state
    /\ \A t \in Task : state[t] \in TerminalStates => \E o \in outbox : o.task = t

\* One task per idempotency key, and every create that was answered for a key
\* was answered with the task stored under that key, whichever thread won.
IdempotentCreate ==
    /\ \A t1, t2 \in Task :
         Exists(t1) /\ Exists(t2) /\ keyOf[t1] = keyOf[t2] /\ keyOf[t1] # NoKey => t1 = t2
    /\ \A th \in Thread :
         reply[th].kind \in {"inserted", "existing"} =>
             /\ reply[th].task \in Task
             /\ Exists(reply[th].task)
             /\ keyOf[reply[th].task] = reply[th].key

\* Once a task is terminal no request changes its state or adds an event.
TerminalIsFinal ==
    [][\A t \in Task : state[t] \in TerminalStates =>
          /\ state'[t] = state[t]
          /\ SeqsOf(t)' = SeqsOf(t)]_vars

\* docs/API.md: "Duplicate `idempotencyKey` values return the existing task
\* instead of inserting a new one."  A create whose key is already stored is
\* never answered with an integrity error.
DuplicateKeyReturnsTask ==
    \A th \in Thread : reply[th].kind # "duplicate-key"

-----------------------------------------------------------------------------
(***************************************************************************)
(* The detailed store implements the lifecycle: the notice of a task is    *)
(* its outbox row.                                                         *)
(***************************************************************************)
NoticeOf(t) ==
    CASE \A o \in outbox : o.task # t            -> "none"
      [] \E o \in outbox \ acked : o.task = t    -> "pending"
      [] OTHER                                   -> "acked"

Lifecycle == INSTANCE TaskLifecycle
                 WITH status <- state, notice <- [t \in Task |-> NoticeOf(t)]

\* Every behaviour of the store is a behaviour of TaskLifecycle.
ImplementsLifecycle == Lifecycle!LifecycleSpec
=============================================================================

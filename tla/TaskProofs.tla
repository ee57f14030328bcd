----------------------------- MODULE TaskProofs -----------------------------
(***************************************************************************)
(* TLAPS proofs about the tasks: the coordination store (TaskStore) and    *)
(* the task log that empties its terminal outbox (TaskLog).                *)
(***************************************************************************)
EXTENDS TaskStore, TaskLog, TLAPS

(***************************************************************************)
(* TaskStore, for any sets of tasks, keys and threads and any bound on     *)
(* events.                                                                 *)
(*                                                                         *)
(* The invariants are inductive together: the ledger is gap-free because   *)
(* NextSequence is computed from a gap-free ledger, and at most one        *)
(* terminal event exists because a task with one is in a terminal state,   *)
(* where EnsureTransition refuses.  CallOK and Numbered are what has to be *)
(* added to the properties that TLC checks.                                *)
(***************************************************************************)

\* The arguments of a create in progress are those of a request.
CallOK ==
    \A th \in Thread : call[th].pc # "idle" =>
        call[th].task \in Task /\ call[th].state \in TaskStates

\* The sequence numbers of a task, in the form NextSequence needs.
Numbered ==
    \A t \in Task : \E n \in Nat : SeqsOf(t) = 1..n /\ (n = 0 <=> ~Exists(t))

Inv == TypeOK /\ CallOK /\ Numbered /\ EventLedger /\ TerminalOutbox /\ IdempotentCreate

-----------------------------------------------------------------------------
\* NextSequence is one more than the length of a gap-free ledger.
LEMMA NextSequenceValue ==
    ASSUME NEW t \in Task, NEW n \in Nat, SeqsOf(t) = 1..n
    PROVE  NextSequence(t) = n + 1
<1> DEFINE Top(m) == \A k \in SeqsOf(t) : k <= m
           max == CHOOSE m \in SeqsOf(t) \cup {0} : Top(m)
<1>1. n \in SeqsOf(t) \cup {0} /\ Top(n)
  OBVIOUS
<1>2. max \in SeqsOf(t) \cup {0} /\ Top(max)
  BY <1>1
<1>3. max = n
  BY <1>1, <1>2
<1>4. NextSequence(t) = 1 + max
  BY DEF NextSequence
<1> HIDE DEF max
<1> QED
  BY <1>3, <1>4

\* The parts of the state that AppendEventConn extends by one row for a task
\* whose ledger is 1..n and that has no outbox row.
LEMMA AppendRows ==
    ASSUME TypeOK, NEW t \in Task, NEW s \in TaskStates \cup {NoState},
           NEW n \in Nat, SeqsOf(t) = 1..n,
           \A o \in outbox : o.task # t,
           AppendEventConn(t, s)
    PROVE  LET e == [task |-> t, seq |-> n + 1, state |-> s] IN
           /\ e \in EventRow
           /\ events' = events \cup {e}
           /\ outbox' = IF s \in TerminalStates THEN outbox \cup {e} ELSE outbox
           /\ SeqsOf(t)' = 1..(n + 1)
           /\ \A u \in Task \ {t} : SeqsOf(u)' = SeqsOf(u)
<1> DEFINE e == [task |-> t, seq |-> n + 1, state |-> s]
<1>1. NextSequence(t) = n + 1
  BY NextSequenceValue
<1>2. e \in EventRow
  BY DEF EventRow
<1>3. events' = events \cup {e}
  BY <1>1 DEF AppendEventConn
<1>4. outbox' = IF s \in TerminalStates THEN outbox \cup {e} ELSE outbox
  BY <1>1 DEF AppendEventConn
<1>5. SeqsOf(t)' = SeqsOf(t) \cup {n + 1}
  <2>1. \A k \in SeqsOf(t)' : k \in SeqsOf(t) \cup {n + 1}
    BY <1>3 DEF SeqsOf
  <2>2. e \in events' /\ e.task = t /\ e.seq = n + 1
    BY <1>3
  <2>3. n + 1 \in SeqsOf(t)'
    BY <2>2 DEF SeqsOf
  <2>4. \A k \in SeqsOf(t) : k \in SeqsOf(t)'
    BY <1>3 DEF SeqsOf
  <2> QED
    BY <2>1, <2>3, <2>4
<1>6. \A u \in Task \ {t} : SeqsOf(u)' = SeqsOf(u)
  BY <1>3 DEF SeqsOf
<1> QED
  BY <1>2, <1>3, <1>4, <1>5, <1>6

\* A task that is absent or live has no outbox row.
LEMMA LiveHasNoOutbox ==
    ASSUME TypeOK, TerminalOutbox, NEW t \in Task, state[t] \notin TerminalStates
    PROVE  \A o \in outbox : o.task # t
BY DEF TypeOK, TerminalOutbox, OutboxRow

\* Appending a row to a task's ledger keeps the ledger and outbox invariants:
\* the common part of create_task's insert and of append_event.
LEMMA AppendKeepsLedger ==
    ASSUME Inv, NEW t \in Task, NEW s \in TaskStates \cup {NoState},
           state[t] \notin TerminalStates,
           s = NoState => Exists(t),
           AppendEventConn(t, s),
           state' = StateAfter(t, s)
    PROVE  /\ events' \subseteq EventRow
           /\ outbox' \subseteq OutboxRow
           /\ outbox \subseteq outbox'
           /\ Numbered'
           /\ EventLedger'
           /\ TerminalOutbox'
<1>1. PICK n \in Nat : SeqsOf(t) = 1..n /\ (n = 0 <=> ~Exists(t))
  BY DEF Inv, Numbered
<1> DEFINE e == [task |-> t, seq |-> n + 1, state |-> s]
<1>2. \A o \in outbox : o.task # t
  BY LiveHasNoOutbox DEF Inv
<1>3. /\ e \in EventRow
      /\ events' = events \cup {e}
      /\ outbox' = IF s \in TerminalStates THEN outbox \cup {e} ELSE outbox
      /\ SeqsOf(t)' = 1..(n + 1)
      /\ \A u \in Task \ {t} : SeqsOf(u)' = SeqsOf(u)
  BY <1>1, <1>2, AppendRows DEF Inv
<1>4. /\ state \in [Task -> TaskStates \cup {Absent}]
      /\ events \subseteq EventRow /\ outbox \subseteq OutboxRow
  BY DEF Inv, TypeOK
<1>5. Exists(t)' /\ \A u \in Task \ {t} : state'[u] = state[u]
  BY <1>4 DEF Exists, TaskStates, Absent, StateAfter
<1>6. \A f \in events : f.task = t => f.seq \in 1..n
  BY <1>1, <1>4 DEF SeqsOf
<1>7. events' \subseteq EventRow /\ outbox' \subseteq OutboxRow /\ outbox \subseteq outbox'
  BY <1>3, <1>4 DEF EventRow, OutboxRow
<1>8. Numbered'
  <2> SUFFICES ASSUME NEW u \in Task
               PROVE  \E m \in Nat : SeqsOf(u)' = 1..m /\ (m = 0 <=> ~Exists(u)')
    BY DEF Numbered
  <2>1. CASE u = t
    BY <2>1, <1>3, <1>5
  <2>2. CASE u # t
    BY <2>2, <1>3, <1>5 DEF Inv, Numbered, Exists
  <2> QED
    BY <2>1, <2>2
<1>9. EventLedger'
  <2>1. \A f, g \in events' : f.task = g.task /\ f.seq = g.seq => f = g
    <3>1. \A f \in events : ~(f.task = t /\ f.seq = n + 1)
      BY <1>6
    <3> QED
      BY <3>1, <1>3 DEF Inv, EventLedger
  <2>2. ASSUME NEW u \in Task
        PROVE  /\ SeqsOf(u)' = {} <=> ~Exists(u)'
               /\ \A k \in SeqsOf(u)' : k >= 1 /\ 1..k \subseteq SeqsOf(u)'
    <3>1. PICK m \in Nat : SeqsOf(u)' = 1..m /\ (m = 0 <=> ~Exists(u)')
      BY <1>8 DEF Numbered
    <3> QED
      BY <3>1
  <2>3. ASSUME NEW u \in Task, NEW f \in events',
               f.task = u, f.state # NoState,
               \A g \in events' : g.task = u /\ g.seq > f.seq => g.state = NoState
        PROVE  state'[u] = f.state
    <3>1. CASE f = e
      BY <3>1, <2>3, <1>4 DEF StateAfter
    <3>2. CASE f # e /\ u # t
      BY <3>2, <2>3, <1>3, <1>5 DEF Inv, EventLedger
    <3>3. CASE f # e /\ u = t
      <4>1. f \in events /\ f.seq \in 1..n
        BY <3>3, <2>3, <1>3, <1>6
      <4>2. s = NoState
        BY <3>3, <4>1, <2>3, <1>3
      <4>3. state[t] = f.state
        BY <3>3, <4>1, <2>3, <1>3 DEF Inv, EventLedger
      <4> QED
        BY <4>2, <4>3, <3>3 DEF StateAfter
    <3> QED
      BY <3>1, <3>2, <3>3
  <2> QED
    BY <2>1, <2>2, <2>3 DEF EventLedger
<1>10. TerminalOutbox'
  <2>1. outbox' = {f \in events' : f.state \in TerminalStates}
    BY <1>3 DEF Inv, TerminalOutbox
  <2>2. ASSUME NEW o \in outbox'
        PROVE  SeqsOf(o.task)' = 1..o.seq /\ state'[o.task] = o.state
    <3>1. CASE o \in outbox
      <4>1. o.task \in Task \ {t}
        BY <3>1, <1>2, <1>4 DEF OutboxRow
      <4> QED
        BY <3>1, <4>1, <1>3, <1>5 DEF Inv, TerminalOutbox
    <3>2. CASE o \notin outbox
      <4>1. o = e /\ s \in TerminalStates
        BY <3>2, <1>3
      <4> QED
        BY <4>1, <1>3, <1>4 DEF TerminalStates, NoState, StateAfter
    <3> QED
      BY <3>1, <3>2
  <2>3. ASSUME NEW u \in Task, state'[u] \in TerminalStates
        PROVE  \E o \in outbox' : o.task = u
    <3>1. CASE u = t
      <4>1. s \in TerminalStates
        BY <3>1, <2>3, <1>4 DEF StateAfter
      <4> QED
        BY <3>1, <4>1, <1>3
    <3>2. CASE u # t
      BY <3>2, <2>3, <1>5, <1>7 DEF Inv, TerminalOutbox
    <3> QED
      BY <3>1, <3>2
  <2>4. (\A o \in outbox : SeqsOf(o.task) = 1..o.seq /\ state[o.task] = o.state)'
    BY <2>2
  <2> QED
    BY <2>1, <2>3, <2>4 DEF TerminalOutbox
<1> QED
  BY <1>7, <1>8, <1>9, <1>10

-----------------------------------------------------------------------------
LEMMA InitInv == ASSUME Init PROVE Inv
<1>1. \A t \in Task : SeqsOf(t) = {} /\ ~Exists(t)
  BY DEF Init, SeqsOf, Exists
<1>2. TypeOK
  BY DEF Init, TypeOK, Idle, NoReply, Call, Reply
<1>3. CallOK
  BY DEF Init, CallOK, Idle
<1>4. Numbered
  <2>1. 1..0 = {} /\ 0 \in Nat
    OBVIOUS
  <2> QED
    BY <1>1, <2>1 DEF Numbered
<1>5. EventLedger
  BY <1>1 DEF Init, EventLedger
<1>6. TerminalOutbox
  BY DEF Init, TerminalOutbox, TerminalStates, Absent
<1>7. IdempotentCreate
  BY <1>1 DEF Init, IdempotentCreate, NoReply
<1> QED
  BY <1>2, <1>3, <1>4, <1>5, <1>6, <1>7 DEF Inv

\* The task found for a key is stored under that key.
LEMMA TaskByKeyFound ==
    ASSUME TypeOK, NEW k, TaskByKey(k) # NoTask
    PROVE  TaskByKey(k) \in Task /\ Exists(TaskByKey(k)) /\ keyOf[TaskByKey(k)] = k
BY DEF TaskByKey

\* A step that writes no table keeps what is said of the tables.
LEMMA TablesUnchanged ==
    ASSUME Inv, UNCHANGED dbVars
    PROVE  Numbered' /\ EventLedger' /\ TerminalOutbox'
<1>1. state' = state /\ events' = events /\ outbox' = outbox
  BY DEF dbVars
<1>2. \A t \in Task : Exists(t)' = Exists(t) /\ SeqsOf(t)' = SeqsOf(t)
  BY <1>1 DEF Exists, SeqsOf
<1>3. Numbered'
  BY <1>2 DEF Inv, Numbered
<1>4. EventLedger'
  BY <1>1, <1>2 DEF Inv, EventLedger
<1>5. TerminalOutbox'
  BY <1>1, <1>2 DEF Inv, TypeOK, TerminalOutbox, OutboxRow
<1> QED
  BY <1>3, <1>4, <1>5

LEMMA CreateTaskInv ==
    ASSUME Inv, NEW th \in Thread, NEW t \in Task, NEW k \in Key \cup {NoKey},
           NEW s \in Requested, CreateTask(th, t, k, s)
    PROVE  Inv'
<1> USE TaskStoreAssumption
<1>1. UNCHANGED dbVars
  BY DEF CreateTask
<1>2. TypeOK'
  BY DEF Inv, TypeOK, CreateTask, dbVars, Call, Reply, NoReply
<1>3. CallOK'
  BY DEF Inv, TypeOK, CallOK, CreateTask, Call
<1>4. IdempotentCreate'
  BY <1>1 DEF Inv, TypeOK, IdempotentCreate, CreateTask, dbVars, NoReply, Exists
<1> QED
  BY <1>1, <1>2, <1>3, <1>4, TablesUnchanged DEF Inv

LEMMA LookupKeyInv ==
    ASSUME Inv, NEW th \in Thread, LookupKey(th)
    PROVE  Inv'
<1> DEFINE found == TaskByKey(call[th].key)
<1>1. UNCHANGED dbVars
  BY DEF LookupKey
<1>2. call[th] \in Call /\ call[th].pc = "lookup"
  BY DEF Inv, TypeOK, LookupKey
<1>3. CASE found # NoTask
  <2>1. /\ reply' = [reply EXCEPT ![th] =
                       [kind |-> "existing", task |-> found, key |-> call[th].key]]
        /\ call' = [call EXCEPT ![th] = Idle]
    BY <1>3 DEF LookupKey
  <2>2. found \in Task /\ Exists(found) /\ keyOf[found] = call[th].key
    BY <1>3, TaskByKeyFound DEF Inv
  <2> HIDE DEF found
  <2>3. TypeOK'
    BY <1>1, <1>2, <2>1, <2>2 DEF Inv, TypeOK, dbVars, Call, Reply, Idle
  <2>4. CallOK'
    BY <2>1 DEF Inv, TypeOK, CallOK, Idle
  <2>5. IdempotentCreate'
    BY <1>1, <2>1, <2>2 DEF Inv, TypeOK, IdempotentCreate, dbVars, Exists
  <2> QED
    BY <1>1, <2>3, <2>4, <2>5, TablesUnchanged DEF Inv
<1>4. CASE found = NoTask
  <2>1. call' = [call EXCEPT ![th].pc = "insert"] /\ reply' = reply
    BY <1>4 DEF LookupKey
  <2> HIDE DEF found
  <2>2. TypeOK'
    BY <1>1, <1>2, <2>1 DEF Inv, TypeOK, dbVars, Call
  <2>3. CallOK'
    BY <1>2, <2>1 DEF Inv, TypeOK, CallOK, Call
  <2>4. IdempotentCreate'
    BY <1>1, <2>1 DEF Inv, IdempotentCreate, dbVars, Exists
  <2> QED
    BY <1>1, <2>2, <2>3, <2>4, TablesUnchanged DEF Inv
<1> QED
  BY <1>3, <1>4

LEMMA InsertTaskInv ==
    ASSUME Inv, NEW th \in Thread, InsertTask(th)
    PROVE  Inv'
<1> DEFINE t == call[th].task
           k == call[th].key
           s == call[th].state
<1>1. call[th] \in Call /\ t \in Task /\ s \in TaskStates /\ k \in Key \cup {NoKey}
  BY DEF Inv, TypeOK, CallOK, InsertTask, Call
<1>2. call' = [call EXCEPT ![th] = Idle]
  BY DEF InsertTask
<1>3. CallOK' /\ call' \in [Thread -> Call]
  BY <1>2 DEF Inv, TypeOK, CallOK, Idle, Call
<1>4. CASE Exists(t) \/ KeyTaken(k)
  <2>1. UNCHANGED dbVars
    BY <1>4 DEF InsertTask
  <2>2. \E r \in Reply : r.kind \in {"duplicate-key", "duplicate-id"}
                         /\ reply' = [reply EXCEPT ![th] = r]
    BY <1>1, <1>4 DEF InsertTask, Reply
  <2>3. TypeOK'
    BY <1>3, <2>1, <2>2 DEF Inv, TypeOK, dbVars
  <2>4. IdempotentCreate'
    BY <2>1, <2>2 DEF Inv, TypeOK, IdempotentCreate, dbVars, Exists
  <2> QED
    BY <1>3, <2>1, <2>3, <2>4, TablesUnchanged DEF Inv
<1>5. CASE ~Exists(t) /\ ~KeyTaken(k)
  <2>1. /\ state' = [state EXCEPT ![t] = s]
        /\ keyOf' = [keyOf EXCEPT ![t] = k]
        /\ AppendEventConn(t, s)
        /\ reply' = [reply EXCEPT ![th] = [kind |-> "inserted", task |-> t, key |-> k]]
        /\ acked' = acked
    BY <1>5 DEF InsertTask
  <2>2. s # NoState /\ s # Absent /\ state[t] \notin TerminalStates
    BY <1>1, <1>5 DEF TaskStates, NoState, Absent, Exists, TerminalStates
  <2> HIDE DEF t, k, s
  <2>3. /\ events' \subseteq EventRow /\ outbox' \subseteq OutboxRow
        /\ outbox \subseteq outbox'
        /\ Numbered' /\ EventLedger' /\ TerminalOutbox'
    BY <1>1, <2>1, <2>2, AppendKeepsLedger DEF StateAfter
  <2>4. TypeOK'
    BY <1>1, <1>3, <2>1, <2>3 DEF Inv, TypeOK, Reply
  <2>5. IdempotentCreate'
    <3>1. \A u \in Task : state'[u] # Absent <=> (Exists(u) \/ u = t)
      BY <1>1, <2>1, <2>2 DEF Inv, TypeOK, Exists
    <3>2. keyOf'[t] = k /\ \A u \in Task \ {t} : keyOf'[u] = keyOf[u]
      BY <1>1, <2>1 DEF Inv, TypeOK
    <3>3. \A t1, t2 \in Task :
            state'[t1] # Absent /\ state'[t2] # Absent /\ keyOf'[t1] = keyOf'[t2] /\ keyOf'[t1] # NoKey
            => t1 = t2
      BY <1>1, <1>5, <3>1, <3>2 DEF Inv, IdempotentCreate, KeyTaken
    <3>4. ASSUME NEW x \in Thread, reply'[x].kind \in {"inserted", "existing"}
          PROVE  /\ reply'[x].task \in Task
                 /\ state'[reply'[x].task] # Absent
                 /\ keyOf'[reply'[x].task] = reply'[x].key
      <4>1. CASE x = th
        <5>1. reply'[x].task = t /\ reply'[x].key = k
          BY <4>1, <2>1 DEF Inv, TypeOK
        <5>2. state'[t] # Absent
          BY <1>1, <3>1
        <5> QED
          BY <5>1, <5>2, <1>1, <3>2
      <4>2. CASE x # th
        <5>1. reply'[x] = reply[x]
          BY <4>2, <2>1 DEF Inv, TypeOK
        <5>2. reply[x].task \in Task /\ Exists(reply[x].task) /\ keyOf[reply[x].task] = reply[x].key
          BY <5>1, <3>4 DEF Inv, IdempotentCreate
        <5>3. state'[reply[x].task] # Absent /\ reply[x].task # t
          BY <5>2, <3>1, <1>5
        <5> QED
          BY <5>1, <5>2, <5>3, <3>2
      <4> QED
        BY <4>1, <4>2
    <3> QED
      BY <3>3, <3>4 DEF IdempotentCreate, Exists
  <2> QED
    BY <1>3, <2>3, <2>4, <2>5 DEF Inv
<1> QED
  BY <1>4, <1>5

LEMMA AppendEventInv ==
    ASSUME Inv, NEW th \in Thread, NEW t \in Task, NEW s \in TaskStates \cup {NoState},
           AppendEvent(th, t, s)
    PROVE  Inv'
<1>1. call' = call
  BY DEF AppendEvent
<1>2. CallOK'
  BY <1>1 DEF Inv, CallOK
<1>3. PICK kind \in {"not-found", "invalid", "event"} :
        reply' = [reply EXCEPT ![th] = [kind |-> kind, task |-> t, key |-> NoKey]]
  BY DEF AppendEvent
<1>4. reply' \in [Thread -> Reply]
  BY <1>3 DEF Inv, TypeOK, Reply
<1>5. CASE UNCHANGED dbVars
  <2>1. TypeOK'
    BY <1>1, <1>4, <1>5 DEF Inv, TypeOK, dbVars
  <2>2. IdempotentCreate'
    BY <1>3, <1>5 DEF Inv, TypeOK, IdempotentCreate, dbVars, Exists
  <2> QED
    BY <1>2, <1>5, <2>1, <2>2, TablesUnchanged DEF Inv
<1>6. CASE /\ Exists(t)
           /\ EnsureTransition(state[t], s)
           /\ AppendEventConn(t, s)
           /\ state' = StateAfter(t, s)
           /\ UNCHANGED <<keyOf, acked>>
  <2>1. state[t] \notin TerminalStates
    BY <1>6 DEF EnsureTransition
  <2>2. /\ events' \subseteq EventRow /\ outbox' \subseteq OutboxRow
        /\ outbox \subseteq outbox'
        /\ Numbered' /\ EventLedger' /\ TerminalOutbox'
    BY <1>6, <2>1, AppendKeepsLedger
  <2>3. TypeOK'
    BY <1>1, <1>4, <1>6, <2>2 DEF Inv, TypeOK, StateAfter
  <2>4. \A u \in Task : state'[u] # Absent <=> state[u] # Absent
    BY <1>6 DEF Inv, TypeOK, Exists, TaskStates, Absent, StateAfter
  <2>5. IdempotentCreate'
    BY <1>3, <1>6, <2>4 DEF Inv, TypeOK, IdempotentCreate, Exists
  <2> QED
    BY <1>2, <2>2, <2>3, <2>5 DEF Inv
<1> QED
  BY <1>5, <1>6 DEF AppendEvent

LEMMA AcknowledgeInv ==
    ASSUME Inv, NEW o \in outbox, AcknowledgeTerminalOutbox(o)
    PROVE  Inv'
<1>1. /\ state' = state /\ keyOf' = keyOf /\ events' = events /\ outbox' = outbox
      /\ call' = call /\ reply' = reply /\ acked' = acked \cup {o}
  BY DEF AcknowledgeTerminalOutbox
<1>2. TypeOK'
  BY <1>1 DEF Inv, TypeOK
<1>3. \A t \in Task : SeqsOf(t)' = SeqsOf(t) /\ Exists(t)' = Exists(t)
  BY <1>1 DEF SeqsOf, Exists
<1>4. Numbered'
  BY <1>3 DEF Inv, Numbered
<1>5. EventLedger'
  BY <1>1, <1>3 DEF Inv, EventLedger
<1>6. TerminalOutbox'
  BY <1>1, <1>3 DEF Inv, TypeOK, TerminalOutbox, OutboxRow
<1>7. CallOK' /\ IdempotentCreate'
  BY <1>1 DEF Inv, CallOK, IdempotentCreate, Exists
<1> QED
  BY <1>2, <1>4, <1>5, <1>6, <1>7 DEF Inv

LEMMA CrashInv ==
    ASSUME Inv, Crash
    PROVE  Inv'
<1>1. TypeOK' /\ CallOK'
  BY DEF Inv, TypeOK, CallOK, Crash, dbVars, Idle, NoReply, Call, Reply
<1>2. IdempotentCreate'
  BY DEF Inv, IdempotentCreate, Crash, dbVars, NoReply, Exists
<1> QED
  BY <1>1, <1>2, TablesUnchanged DEF Inv, Crash

LEMMA StutterInv ==
    ASSUME Inv, UNCHANGED vars
    PROVE  Inv'
<1>1. TypeOK' /\ CallOK' /\ IdempotentCreate'
  BY DEF Inv, TypeOK, CallOK, IdempotentCreate, vars, Exists
<1> QED
  BY <1>1, TablesUnchanged DEF Inv, vars, dbVars

LEMMA NextInv ==
    ASSUME Inv, [Next]_vars
    PROVE  Inv'
<1>1. ASSUME NEW th \in Thread, NEW t \in Task, NEW k \in Key \cup {NoKey},
             NEW s \in Requested, CreateTask(th, t, k, s)
      PROVE  Inv'
  BY <1>1, CreateTaskInv
<1>2. ASSUME NEW th \in Thread, LookupKey(th) PROVE Inv'
  BY <1>2, LookupKeyInv
<1>3. ASSUME NEW th \in Thread, InsertTask(th) PROVE Inv'
  BY <1>3, InsertTaskInv
<1>4. ASSUME NEW th \in Thread, NEW t \in Task, NEW s \in Requested \cup {NoState},
             AppendEvent(th, t, s)
      PROVE  Inv'
  BY <1>4, AppendEventInv, TaskStoreAssumption
<1>5. ASSUME NEW o \in outbox, AcknowledgeTerminalOutbox(o) PROVE Inv'
  BY <1>5, AcknowledgeInv
<1>6. CASE Crash
  BY <1>6, CrashInv
<1>7. CASE UNCHANGED vars
  BY <1>7, StutterInv
<1> QED
  BY <1>1, <1>2, <1>3, <1>4, <1>5, <1>6, <1>7 DEF Next

-----------------------------------------------------------------------------
\* The strengthened invariant holds of every behaviour of HubStore.
THEOREM Invariance == Spec => []Inv
BY InitInv, NextInv, PTL DEF Spec

\* Every table and every thread's local state keeps its type.
THEOREM TypeCorrect == Spec => []TypeOK
<1>1. Inv => TypeOK
  BY DEF Inv
<1> QED
  BY <1>1, Invariance, PTL

\* The event ledger is gap-free and agrees with the state column.
THEOREM LedgerCorrect == Spec => []EventLedger
<1>1. Inv => EventLedger
  BY DEF Inv
<1> QED
  BY <1>1, Invariance, PTL

\* The outbox holds exactly the terminal events, one for each terminal task.
THEOREM OutboxCorrect == Spec => []TerminalOutbox
<1>1. Inv => TerminalOutbox
  BY DEF Inv
<1> QED
  BY <1>1, Invariance, PTL

\* A key names one task, and every answered create returned that task.
THEOREM CreateIsIdempotent == Spec => []IdempotentCreate
<1>1. Inv => IdempotentCreate
  BY DEF Inv
<1> QED
  BY <1>1, Invariance, PTL

-----------------------------------------------------------------------------
\* What the two appending steps do, as both proofs below use it: one task,
\* not terminal before, gets one event; the other tasks keep theirs.
Appends(t, s) ==
    /\ state[t] \notin TerminalStates
    /\ AppendEventConn(t, s)
    /\ state' = StateAfter(t, s)
    /\ acked' = acked
    /\ \/ state[t] = Absent /\ s \in TaskStates
       \/ state[t] # Absent /\ s \in AllowedNext(state[t]) \cup {NoState}

\* Every step of the store appends to one task, acknowledges one outbox row,
\* or leaves the tables that the properties speak of as they are.
LEMMA StepKinds ==
    ASSUME Inv, [Next]_vars
    PROVE  \/ \E t \in Task, s \in TaskStates \cup {NoState} : Appends(t, s)
           \/ \E o \in outbox : AcknowledgeTerminalOutbox(o)
           \/ UNCHANGED <<state, events, outbox, acked>>
<1>1. ASSUME NEW th \in Thread, InsertTask(th)
      PROVE  \/ \E t \in Task, s \in TaskStates \cup {NoState} : Appends(t, s)
             \/ UNCHANGED dbVars
  <2> DEFINE t == call[th].task
             s == call[th].state
  <2>1. t \in Task /\ s \in TaskStates
    BY <1>1 DEF Inv, TypeOK, CallOK, InsertTask, Call
  <2>2. CASE Exists(t) \/ KeyTaken(call[th].key)
    BY <1>1, <2>2 DEF InsertTask
  <2>3. CASE ~Exists(t) /\ ~KeyTaken(call[th].key)
    <3>1. /\ state' = [state EXCEPT ![t] = s]
          /\ AppendEventConn(t, s)
          /\ acked' = acked
      BY <1>1, <2>3 DEF InsertTask
    <3>2. s # NoState /\ state[t] = Absent /\ Absent \notin TerminalStates
      BY <2>1, <2>3 DEF TaskStates, NoState, Exists, Absent, TerminalStates
    <3> HIDE DEF t, s
    <3>3. Appends(t, s)
      BY <2>1, <3>1, <3>2 DEF Appends, StateAfter
    <3> QED
      BY <2>1, <3>3
  <2> QED
    BY <2>2, <2>3
<1>2. ASSUME NEW th \in Thread, NEW t \in Task, NEW s \in Requested \cup {NoState},
             AppendEvent(th, t, s)
      PROVE  Appends(t, s) \/ UNCHANGED dbVars
  BY <1>2 DEF AppendEvent, Appends, EnsureTransition, Exists
<1>3. Requested \subseteq TaskStates
  BY TaskStoreAssumption
<1> QED
  BY <1>1, <1>2, <1>3 DEF Next, CreateTask, LookupKey, Crash, vars, dbVars

\* A terminal task keeps its state and its events, whatever a request asks.
THEOREM TerminalImmutable == Spec => TerminalIsFinal
<1> DEFINE Final == \A t \in Task : state[t] \in TerminalStates =>
                      state'[t] = state[t] /\ SeqsOf(t)' = SeqsOf(t)
<1>1. ASSUME Inv, [Next]_vars PROVE Final
  <2>1. ASSUME NEW u \in Task, NEW s \in TaskStates \cup {NoState}, Appends(u, s)
        PROVE  Final
    <3>1. PICK n \in Nat : SeqsOf(u) = 1..n
      BY <1>1 DEF Inv, Numbered
    <3>2. \A o \in outbox : o.task # u
      BY <1>1, <2>1, LiveHasNoOutbox DEF Inv, Appends
    <3>3. \A t \in Task \ {u} : SeqsOf(t)' = SeqsOf(t)
      BY <1>1, <2>1, <3>1, <3>2, AppendRows DEF Inv, Appends
    <3>4. state[u] \notin TerminalStates
      BY <2>1 DEF Appends
    <3>5. \A t \in Task \ {u} : state'[t] = state[t]
      BY <1>1, <2>1 DEF Inv, TypeOK, Appends, StateAfter
    <3> QED
      BY <3>3, <3>4, <3>5
  <2>2. ASSUME NEW o \in outbox, AcknowledgeTerminalOutbox(o) PROVE Final
    BY <2>2 DEF AcknowledgeTerminalOutbox, SeqsOf
  <2>3. CASE UNCHANGED <<state, events, outbox, acked>>
    BY <2>3 DEF SeqsOf
  <2> QED
    BY <1>1, <2>1, <2>2, <2>3, StepKinds
<1>2. Inv /\ [Next]_vars =>
        [\A t \in Task : state[t] \in TerminalStates =>
            /\ state'[t] = state[t]
            /\ SeqsOf(t)' = SeqsOf(t)]_vars
  BY <1>1
<1> QED
  BY <1>2, Invariance, PTL DEF Spec, TerminalIsFinal

-----------------------------------------------------------------------------
(***************************************************************************)
(* Refinement.  A task has at most one outbox row, so the notice of a task *)
(* is decided by that row alone.                                           *)
(***************************************************************************)
LEMMA OneOutboxRow ==
    ASSUME Inv, NEW o \in outbox, NEW p \in outbox, o.task = p.task
    PROVE  o = p
<1>1. o \in events /\ p \in events
  BY DEF Inv, TerminalOutbox
<1>2. 1..o.seq = 1..p.seq /\ o.seq \in Nat /\ p.seq \in Nat
  BY DEF Inv, TypeOK, TerminalOutbox, OutboxRow
<1>3. o.seq \in SeqsOf(o.task) /\ p.seq \in SeqsOf(o.task) /\ o.task \in Task
  BY <1>1 DEF SeqsOf, Inv, TypeOK, EventRow
<1>4. o.seq >= 1 /\ p.seq >= 1
  BY <1>3 DEF Inv, EventLedger
<1>5. o.seq = p.seq
  <2>1. o.seq \in 1..p.seq /\ p.seq \in 1..o.seq
    BY <1>2, <1>4
  <2> QED
    BY <1>2, <2>1
<1> QED
  BY <1>1, <1>5 DEF Inv, EventLedger

\* The instance reads the same state tables as the store.
LEMMA SameTables ==
    /\ Lifecycle!TaskStates = TaskStates
    /\ Lifecycle!TerminalStates = TerminalStates
    /\ Lifecycle!Absent = Absent
    /\ \A s : Lifecycle!AllowedNext(s) = AllowedNext(s)
BY DEF TaskStates, TerminalStates, Absent, AllowedNext, Lifecycle!TaskStates,
       Lifecycle!TerminalStates, Lifecycle!Absent, Lifecycle!AllowedNext

\* An append is a Create or an Advance of the lifecycle, or no step of it.
LEMMA AppendRefines ==
    ASSUME Inv, NEW t \in Task, NEW s \in TaskStates \cup {NoState}, Appends(t, s)
    PROVE  \/ Lifecycle!Create(t, s) /\ s \in TaskStates
           \/ Lifecycle!Advance(t, s) /\ s \in TaskStates
           \/ UNCHANGED Lifecycle!lifecycleVars
<1>1. PICK n \in Nat : SeqsOf(t) = 1..n
  BY DEF Inv, Numbered
<1>2. \A o \in outbox : o.task # t
  BY LiveHasNoOutbox DEF Inv, Appends
<1> DEFINE e == [task |-> t, seq |-> n + 1, state |-> s]
<1>3. outbox' = IF s \in TerminalStates THEN outbox \cup {e} ELSE outbox
  BY <1>1, <1>2, AppendRows DEF Inv, Appends
<1>4. acked' = acked /\ acked \subseteq outbox /\ e \notin acked /\ e.task = t
  BY <1>2 DEF Inv, TypeOK, Appends
<1>5. ASSUME NEW u \in Task \ {t} PROVE NoticeOf(u)' = NoticeOf(u)
  <2>1. \A o \in outbox' \ outbox : o.task # u
    BY <1>3, <1>4
  <2>2. outbox \subseteq outbox'
    BY <1>3
  <2>3. (\A o \in outbox' : o.task # u) <=> (\A o \in outbox : o.task # u)
    BY <2>1, <2>2
  <2>4. (\E o \in outbox' \ acked' : o.task = u) <=> (\E o \in outbox \ acked : o.task = u)
    BY <2>1, <2>2, <1>4
  <2> QED
    BY <2>3, <2>4 DEF NoticeOf
<1>6. NoticeOf(t) = "none"
  BY <1>2 DEF NoticeOf
<1>7. CASE s = NoState
  <2>1. outbox' = outbox /\ state' = state
    BY <1>3, <1>7 DEF Appends, NoState, TerminalStates, StateAfter
  <2>2. \A u \in Task : NoticeOf(u)' = NoticeOf(u)
    BY <2>1, <1>4 DEF NoticeOf
  <2> QED
    BY <2>1, <2>2 DEF Lifecycle!lifecycleVars
<1>8. CASE s # NoState
  <2>1. s \in TaskStates /\ state' = [state EXCEPT ![t] = s]
    BY <1>8 DEF Appends, StateAfter
  <2>2. NoticeOf(t)' = Lifecycle!NoticeFor(s)
    <3>1. CASE s \in TerminalStates
      BY <3>1, <1>3, <1>4, SameTables DEF NoticeOf, Lifecycle!NoticeFor
    <3>2. CASE s \notin TerminalStates
      BY <3>2, <1>2, <1>3, SameTables DEF NoticeOf, Lifecycle!NoticeFor
    <3> QED
      BY <3>1, <3>2
  <2>3. [u \in Task |-> NoticeOf(u)]' =
          [[u \in Task |-> NoticeOf(u)] EXCEPT ![t] = Lifecycle!NoticeFor(s)]
    BY <1>5, <2>2
  <2>4. CASE state[t] = Absent
    BY <2>1, <2>3, <2>4, SameTables DEF Lifecycle!Create
  <2>5. CASE state[t] # Absent
    BY <1>8, <2>1, <2>3, <2>5, SameTables DEF Lifecycle!Advance, Appends
  <2> QED
    BY <2>1, <2>4, <2>5
<1> QED
  BY <1>7, <1>8

\* Acknowledging is the lifecycle's Acknowledge the first time, no step later.
LEMMA AcknowledgeRefines ==
    ASSUME Inv, NEW o \in outbox, AcknowledgeTerminalOutbox(o)
    PROVE  Lifecycle!Acknowledge(o.task) \/ UNCHANGED Lifecycle!lifecycleVars
<1>1. /\ state' = state /\ outbox' = outbox /\ acked' = acked \cup {o}
  BY DEF AcknowledgeTerminalOutbox
<1>2. o.task \in Task
  BY DEF Inv, TypeOK, OutboxRow
<1>3. CASE o \in acked
  <2>1. acked' = acked
    BY <1>1, <1>3
  <2>2. \A u \in Task : NoticeOf(u)' = NoticeOf(u)
    BY <1>1, <2>1 DEF NoticeOf
  <2> QED
    BY <1>1, <2>2 DEF Lifecycle!lifecycleVars
<1>4. CASE o \notin acked
  <2>1. NoticeOf(o.task) = "pending"
    BY <1>4 DEF NoticeOf
  <2>2. \A p \in outbox : p.task = o.task => p = o
    BY OneOutboxRow
  <2>3. NoticeOf(o.task)' = "acked"
    <3>1. ~(\A p \in outbox' : p.task # o.task)
      BY <1>1
    <3>2. ~(\E p \in outbox' \ acked' : p.task = o.task)
      BY <1>1, <2>2
    <3> QED
      BY <3>1, <3>2 DEF NoticeOf
  <2>4. \A u \in Task \ {o.task} : NoticeOf(u)' = NoticeOf(u)
    BY <1>1 DEF NoticeOf
  <2> QED
    BY <1>1, <1>2, <2>1, <2>3, <2>4 DEF Lifecycle!Acknowledge
<1> QED
  BY <1>3, <1>4

\* HubStore implements TaskLifecycle: tasks are created once, move only along
\* the transition graph, and becoming terminal queues exactly one notice.
THEOREM StoreImplementsLifecycle == Spec => ImplementsLifecycle
<1>1. Init => Lifecycle!LifecycleInit
  BY SameTables DEF Init, Lifecycle!LifecycleInit, NoticeOf
<1>2. ASSUME Inv, [Next]_vars
      PROVE  [Lifecycle!LifecycleNext]_Lifecycle!lifecycleVars
  <2>1. ASSUME NEW t \in Task, NEW s \in TaskStates \cup {NoState}, Appends(t, s)
        PROVE  [Lifecycle!LifecycleNext]_Lifecycle!lifecycleVars
    BY <1>2, <2>1, AppendRefines, SameTables DEF Lifecycle!LifecycleNext
  <2>2. ASSUME NEW o \in outbox, AcknowledgeTerminalOutbox(o)
        PROVE  [Lifecycle!LifecycleNext]_Lifecycle!lifecycleVars
    <3>1. o.task \in Task
      BY <1>2 DEF Inv, TypeOK, OutboxRow
    <3> QED
      BY <1>2, <2>2, <3>1, AcknowledgeRefines DEF Lifecycle!LifecycleNext
  <2>3. CASE UNCHANGED <<state, events, outbox, acked>>
    BY <2>3 DEF Lifecycle!lifecycleVars, NoticeOf
  <2> QED
    BY <1>2, <2>1, <2>2, <2>3, StepKinds
<1> QED
  BY <1>1, <1>2, Invariance, PTL DEF Spec, ImplementsLifecycle, Lifecycle!LifecycleSpec

-----------------------------------------------------------------------------
(***************************************************************************)
(* TaskLog, for any tasks, threads and policy, and for any number of       *)
(* kills, failing steps and edits: the task log writes and acknowledges    *)
(* every terminal notice exactly once, it keeps what people wrote, and it  *)
(* leaves the promise of the coordination plane intact.                    *)
(***************************************************************************)

\* Program counters of a replay that has a row in hand and not acknowledged.
InHand == {"file", "index", "receipt", "ack", "suppress"}

Busy == InHand \cup {"noted"}

\* The variables of the coordination plane and of the disk.
StoreType ==
    /\ status \in [Task -> TaskStates \cup {Absent}]
    /\ notice \in [Task -> {"none", "pending", "acked"}]
    /\ file \in [Task -> FileStates]
    /\ receipts \subseteq Task \X {"committed", "suppressed"}
    /\ writes \in [Task -> Nat] /\ removals \in [Task -> Nat]
    /\ barred \subseteq Task

\* The variables of the running server.
ServerType ==
    /\ enabled \in BOOLEAN
    /\ intents \subseteq Task
    /\ lock \in Replayer \cup {"free"}
    /\ replay \in [pc : Steps, todo : SUBSET Task, listed : SUBSET Task,
                   task : Task \cup {"none"}]
    /\ (lock = "free" <=> replay.pc = "idle")
    /\ (replay.pc \in Busy => replay.task \in Task)
    /\ replay.todo \subseteq replay.listed
    /\ settled \in BOOLEAN

TypeInv == StoreType /\ ServerType

(***************************************************************************)
(* What holds of a row at any time: a notice is of a terminal task; a file *)
(* that is there was written and not removed since; only a task with a     *)
(* notice has one; and an acknowledged row was barred or is done.          *)
(***************************************************************************)
RowOK(t) ==
    /\ (notice[t] # "none" <=> status[t] \in TerminalStates)
    /\ writes[t] <= removals[t] + (IF file[t] = "absent" THEN 0 ELSE 1)
    /\ (file[t] # "absent" => writes[t] > 0)
    /\ (writes[t] > 0 => notice[t] # "none")
    /\ (notice[t] = "acked" /\ t \notin barred =>
            writes[t] > 0 /\ <<t, "committed">> \in receipts)

(***************************************************************************)
(* What holds of the replay under the lock: the row in hand is pending and *)
(* its earlier steps have left their traces, and the rows it listed are    *)
(* still to do, in hand or acknowledged.                                   *)
(***************************************************************************)
HandOK ==
    /\ (replay.pc \in Busy => replay.task \notin replay.todo)
    /\ (replay.pc \in InHand => notice[replay.task] = "pending")
    /\ (replay.pc = "noted" => notice[replay.task] = "acked")
    /\ (replay.pc \in {"index", "receipt", "ack"} => writes[replay.task] > 0)
    /\ (replay.pc = "ack" => <<replay.task, "committed">> \in receipts)
    /\ (replay.pc \in {"suppress", "noted"} => replay.task \in barred)

ListOK ==
    /\ \A t \in replay.todo : notice[t] = "pending"
    /\ \A t \in replay.listed :
          \/ t \in replay.todo
          \/ t = replay.task /\ replay.pc \in InHand
          \/ notice[t] = "acked"

LogInv ==
    /\ settled
    /\ \A t \in Task : RowOK(t)
    /\ HandOK
    /\ ListOK

-----------------------------------------------------------------------------
(***************************************************************************)
(* Types.                                                                  *)
(***************************************************************************)

\* The notice that Create and Advance queue is one.
LEMMA NoticeType == ASSUME NEW s PROVE NoticeFor(s) \in {"none", "pending", "acked"}
  BY DEF NoticeFor

\* A record with one more step taken is a replay.
LEMMA GotoType ==
  ASSUME ServerType, NEW pc \in Steps, Goto(pc)
  PROVE  /\ replay' \in [pc : Steps, todo : SUBSET Task, listed : SUBSET Task,
                         task : Task \cup {"none"}]
         /\ replay'.pc = pc /\ replay'.todo = replay.todo
         /\ replay'.listed = replay.listed /\ replay'.task = replay.task
  BY DEF ServerType, Goto

\* The replay of a server without one.
LEMMA IdleType ==
  /\ NoReplay \in [pc : Steps, todo : SUBSET Task, listed : SUBSET Task, task : Task \cup {"none"}]
  /\ NoReplay.pc = "idle" /\ NoReplay.todo = {} /\ NoReplay.listed = {}
  BY DEF NoReplay, Steps

LEMMA TypeInit == LogInit => TypeInv
  BY IdleType DEF LogInit, LifecycleInit, TypeInv, StoreType, ServerType, FileStates, Busy, InHand

LEMMA TypeNext == TypeInv /\ [LogNext]_logVars => TypeInv'
  <1> SUFFICES ASSUME TypeInv, [LogNext]_logVars PROVE TypeInv'
    OBVIOUS
  <1> StoreType /\ ServerType
    BY DEF TypeInv
  <1>1. CASE Coordinate
    <2>1. PICK t \in Task, s \in TaskStates : Create(t, s) \/ Advance(t, s)
      BY <1>1 DEF Coordinate
    <2>2. /\ status' = [status EXCEPT ![t] = s]
          /\ notice' = [notice EXCEPT ![t] = NoticeFor(s)]
      BY <2>1 DEF Create, Advance
    <2> QED BY <1>1, <2>2, NoticeType DEF Coordinate, TypeInv, StoreType, ServerType
  <1>2. ASSUME NEW th \in Replayer, CountOnly(th) PROVE TypeInv'
    BY <1>2 DEF CountOnly, logVars, TypeInv, StoreType, ServerType
  <1>3. ASSUME NEW th \in Replayer, BeginReplay(th) PROVE TypeInv'
    <2>1. Outbox \subseteq Task
      BY DEF Outbox
    <2>2. /\ replay' \in [pc : Steps, todo : SUBSET Task, listed : SUBSET Task,
                          task : Task \cup {"none"}]
          /\ replay'.pc = "row" /\ replay'.todo = Outbox /\ replay'.listed = Outbox
      BY <1>3, <2>1, IdleType DEF BeginReplay, NoReplay, Steps
    <2> QED BY <1>3, <2>2, TaskLogAssumption
            DEF BeginReplay, taskVars, TypeInv, StoreType, ServerType, Busy, InHand
  <1>4. ASSUME NEW th \in Replayer, NextRow(th) PROVE TypeInv'
    <2>1. PICK t \in replay.todo :
            /\ replay' = [replay EXCEPT !.pc = FirstStep(t), !.todo = @ \ {t}, !.task = t]
            /\ barred' = IF Eligible(t) THEN barred ELSE barred \cup {t}
      BY <1>4 DEF NextRow
    <2>2. t \in Task /\ FirstStep(t) \in Steps /\ FirstStep(t) # "idle"
      BY DEF ServerType, FirstStep, Steps
    <2>3. /\ replay' \in [pc : Steps, todo : SUBSET Task, listed : SUBSET Task,
                          task : Task \cup {"none"}]
          /\ replay'.pc = FirstStep(t) /\ replay'.todo = replay.todo \ {t}
          /\ replay'.listed = replay.listed /\ replay'.task = t
      BY <2>1, <2>2 DEF ServerType
    <2> QED BY <1>4, <2>1, <2>2, <2>3, TaskLogAssumption
            DEF NextRow, At, taskVars, TypeInv, StoreType, ServerType
  <1>5. ASSUME NEW th \in Replayer,
               \/ Suppress(th) \/ NoteSuppressed(th) \/ PutFile(th) \/ IndexNote(th)
               \/ PutReceipt(th) \/ AckRow(th)
        PROVE  TypeInv'
    <2>1. PICK pc \in Steps \ {"idle"} : Goto(pc)
      <3> DEFINE Target == {"noted", "row", "index", "receipt", "ack"}
      <3>1. Target \subseteq Steps \ {"idle"}
        BY DEF Steps
      <3>2. \E pc \in Target : Goto(pc)
        BY <1>5 DEF Suppress, NoteSuppressed, PutFile, IndexNote, PutReceipt, AckRow
      <3> QED BY <3>1, <3>2
    <2>2. lock' = lock /\ lock # "free" /\ replay.pc \in Busy
      BY <1>5, TaskLogAssumption
      DEF Suppress, NoteSuppressed, PutFile, IndexNote, PutReceipt, AckRow, At, Busy, InHand
    <2>3. ServerType'
      <3>1. UNCHANGED <<enabled, intents, settled>>
        BY <1>5 DEF Suppress, NoteSuppressed, PutFile, IndexNote, PutReceipt, AckRow
      <3> QED BY <2>1, <2>2, <3>1, GotoType DEF ServerType
    <2>4. StoreType'
      <3>1. CASE Suppress(th) \/ AckRow(th)
        BY <3>1 DEF Suppress, AckRow, Acked, StoreType
      <3>2. CASE NoteSuppressed(th) \/ PutReceipt(th)
        <4>1. replay.task \in Task
          BY <2>2 DEF ServerType
        <4> QED BY <3>2, <4>1 DEF NoteSuppressed, PutReceipt, StoreType, taskVars, ServerType
      <3>3. CASE PutFile(th) \/ IndexNote(th)
        BY <3>3 DEF PutFile, IndexNote, StoreType, taskVars, FileStates
      <3> QED BY <1>5, <3>1, <3>2, <3>3
    <2> QED BY <2>3, <2>4 DEF TypeInv
  <1>6. ASSUME NEW th \in Replayer, Return(th) \/ Unparsable(th) \/ Fault(th) PROVE TypeInv'
    <2>1. settled' \in BOOLEAN
      BY <1>6 DEF Return, Unparsable, Fault, Abort, ServerType
    <2> QED BY <1>6, <2>1, IdleType
            DEF Return, Unparsable, Fault, Abort, taskVars, TypeInv, StoreType, ServerType,
                Busy, InHand
  <1>7. CASE Restart
    BY <1>7, IdleType DEF Restart, taskVars, TypeInv, StoreType, ServerType, Busy, InHand
  <1>8. ASSUME NEW t \in Task, NEW f \in FileStates, Edit(t, f) PROVE TypeInv'
    <2>1. /\ file' \in [Task -> FileStates]
          /\ removals' \in [Task -> Nat]
      BY <1>8 DEF Edit, StoreType
    <2> QED BY <1>8, <2>1 DEF Edit, taskVars, TypeInv, StoreType, ServerType
  <1>9. CASE UNCHANGED logVars
    BY <1>9 DEF logVars, TypeInv, StoreType, ServerType
  <1> QED BY <1>1, <1>2, <1>3, <1>4, <1>5, <1>6, <1>7, <1>8, <1>9 DEF LogNext, Replaying

-----------------------------------------------------------------------------
(***************************************************************************)
(* The rows and the replay.                                                *)
(***************************************************************************)

\* No transition leaves a terminal state, and no task goes back to Absent.
LEMMA AllowedNextType ==
  ASSUME NEW s
  PROVE  /\ AllowedNext(s) \subseteq TaskStates
         /\ (s \in TerminalStates => AllowedNext(s) = {})
         /\ Absent \notin TerminalStates
  BY DEF AllowedNext, TaskStates, TerminalStates, Absent

\* Rows that no variable of theirs changes for stay as they are.
LEMMA SameRows ==
  ASSUME UNCHANGED <<status, notice, file, receipts, writes, removals, barred>>,
         \A t \in Task : RowOK(t)
  PROVE  \A t \in Task : RowOK(t)'
  BY DEF RowOK

\* A server without a replay has nothing in hand and nothing listed.
LEMMA IdleOK == ASSUME replay' = NoReplay PROVE HandOK' /\ ListOK'
  BY IdleType DEF HandOK, ListOK, InHand, Busy

LEMMA LogInvInit == LogInit => LogInv
  <1> SUFFICES ASSUME LogInit PROVE LogInv
    OBVIOUS
  <1>1. ASSUME NEW t \in Task PROVE RowOK(t)
    <2>1. /\ status[t] = Absent /\ notice[t] = "none" /\ file[t] = "absent"
          /\ writes[t] = 0 /\ removals[t] = 0
      BY DEF LogInit, LifecycleInit
    <2>2. Absent \notin TerminalStates
      BY DEF Absent, TerminalStates
    <2> QED BY <2>1, <2>2 DEF RowOK
  <1>2. HandOK /\ ListOK
    BY IdleType DEF LogInit, HandOK, ListOK, InHand, Busy
  <1> QED BY <1>1, <1>2 DEF LogInit, LogInv

\* A task that is created or moves had no notice, and so nothing of its log.
LEMMA CoordinateKeeps ==
  ASSUME TypeInv, LogInv, Coordinate PROVE LogInv'
  <1> StoreType /\ ServerType
    BY DEF TypeInv
  <1>1. PICK t \in Task, s \in TaskStates : Create(t, s) \/ Advance(t, s)
    BY DEF Coordinate
  <1>2. /\ status' = [status EXCEPT ![t] = s]
        /\ notice' = [notice EXCEPT ![t] = NoticeFor(s)]
    BY <1>1 DEF Create, Advance
  <1>3. status[t] \notin TerminalStates
    BY <1>1, AllowedNextType DEF Create, Advance
  <1>4. notice[t] = "none" /\ writes[t] = 0 /\ file[t] = "absent"
    <2>1. RowOK(t) /\ writes[t] \in Nat
      BY DEF LogInv, StoreType
    <2> QED BY <1>3, <2>1 DEF RowOK
  <1>5. UNCHANGED <<file, receipts, replay, writes, removals, barred, settled>>
    BY DEF Coordinate
  <1>6. \A u \in Task : RowOK(u)'
    <2> SUFFICES ASSUME NEW u \in Task PROVE RowOK(u)'
      OBVIOUS
    <2>1. CASE u = t
      <3>1. status'[t] = s /\ notice'[t] = NoticeFor(s)
        BY <1>2 DEF StoreType
      <3> QED BY <2>1, <3>1, <1>4, <1>5 DEF LogInv, RowOK, NoticeFor, StoreType
    <2>2. CASE u # t
      <3>1. status'[u] = status[u] /\ notice'[u] = notice[u]
        BY <1>2, <2>2 DEF StoreType
      <3> QED BY <3>1, <1>5 DEF LogInv, RowOK
    <2> QED BY <2>1, <2>2
  <1>7. \A u \in Task : notice[u] # "none" => notice'[u] = notice[u]
    BY <1>2, <1>4 DEF StoreType
  <1>8. HandOK'
    BY <1>5, <1>7 DEF LogInv, HandOK, ServerType, InHand, Busy
  <1>9. ListOK'
    BY <1>5, <1>7 DEF LogInv, ListOK, ServerType
  <1> QED BY <1>5, <1>6, <1>8, <1>9 DEF LogInv

\* The rows listed are the pending ones.
LEMMA BeginKeeps ==
  ASSUME LogInv, NEW th \in Replayer, BeginReplay(th) PROVE LogInv'
  <1>1. replay'.pc = "row" /\ replay'.todo = Outbox /\ replay'.listed = Outbox
    BY DEF BeginReplay, NoReplay
  <1>2. HandOK' /\ ListOK'
    BY <1>1 DEF BeginReplay, taskVars, HandOK, ListOK, Outbox, InHand, Busy
  <1> QED BY <1>2, SameRows DEF LogInv, BeginReplay, taskVars

\* A row taken in hand is pending; an ineligible one is on record as barred.
LEMMA NextRowKeeps ==
  ASSUME TypeInv, LogInv, NEW th \in Replayer, NextRow(th) PROVE LogInv'
  <1> StoreType /\ ServerType
    BY DEF TypeInv
  <1>1. PICK t \in replay.todo :
          /\ replay' = [replay EXCEPT !.pc = FirstStep(t), !.todo = @ \ {t}, !.task = t]
          /\ barred' = IF Eligible(t) THEN barred ELSE barred \cup {t}
    BY DEF NextRow
  <1>2. /\ replay'.pc = FirstStep(t) /\ replay'.todo = replay.todo \ {t}
        /\ replay'.listed = replay.listed /\ replay'.task = t
    BY <1>1 DEF ServerType
  <1>3. UNCHANGED <<status, notice, file, receipts, writes, removals, settled>>
    BY DEF NextRow, taskVars
  <1>4. \A u \in Task : RowOK(u)'
    <2>1. barred \subseteq barred'
      BY <1>1
    <2> QED BY <1>3, <2>1 DEF LogInv, RowOK
  <1>5. HandOK'
    BY <1>1, <1>2, <1>3 DEF LogInv, HandOK, ListOK, FirstStep, InHand, Busy
  <1>6. ListOK'
    <2>1. replay.pc = "row"
      BY DEF NextRow, At
    <2> QED BY <1>2, <1>3, <2>1 DEF LogInv, ListOK, FirstStep, InHand
  <1> QED BY <1>3, <1>4, <1>5, <1>6 DEF LogInv

\* The row in hand is acknowledged, which is allowed: it is barred or done.
LEMMA AckKeeps ==
  ASSUME TypeInv, LogInv, NEW th \in Replayer, Suppress(th) \/ AckRow(th) PROVE LogInv'
  <1> StoreType /\ ServerType
    BY DEF TypeInv
  <1>1. replay.pc \in {"suppress", "ack"} /\ Acked(replay.task)
    BY DEF Suppress, AckRow, At
  <1>2. PICK pc \in {"noted", "row"} : Goto(pc) /\ (pc = "noted" => replay.pc = "suppress")
    BY DEF Suppress, AckRow, At
  <1>3. /\ replay'.pc = pc /\ replay'.todo = replay.todo
        /\ replay'.listed = replay.listed /\ replay'.task = replay.task
    BY <1>2, GotoType DEF Steps
  <1>4. PICK t \in Task : t = replay.task
    BY <1>1 DEF ServerType, Busy, InHand
  <1>5. notice' = [notice EXCEPT ![t] = "acked"] /\ status' = status
    BY <1>1, <1>4 DEF Acked
  <1>6. UNCHANGED <<file, receipts, writes, removals, barred, settled>>
    BY DEF Suppress, AckRow
  <1>7. notice[t] = "pending" /\ t \notin replay.todo
    BY <1>1, <1>4 DEF LogInv, HandOK, InHand, Busy
  <1>8. t \in barred \/ (writes[t] > 0 /\ <<t, "committed">> \in receipts)
    BY <1>1, <1>4 DEF LogInv, HandOK
  <1>9. /\ notice'[t] = "acked"
        /\ \A u \in Task : u # t => notice'[u] = notice[u]
    BY <1>5 DEF StoreType
  <1>10. \A u \in Task : RowOK(u)'
    BY <1>5, <1>6, <1>7, <1>8, <1>9 DEF LogInv, RowOK
  <1>11. HandOK'
    BY <1>2, <1>3, <1>4, <1>6, <1>7, <1>9 DEF LogInv, HandOK, InHand, Busy
  <1>12. ListOK'
    BY <1>3, <1>4, <1>7, <1>9 DEF LogInv, ListOK, ServerType
  <1> QED BY <1>6, <1>10, <1>11, <1>12 DEF LogInv

\* The note is written when it is missing, or taken as it is.
LEMMA PutFileKeeps ==
  ASSUME TypeInv, LogInv, NEW th \in Replayer, PutFile(th) PROVE LogInv'
  <1> StoreType /\ ServerType
    BY DEF TypeInv
  <1>1. replay.pc = "file"
    BY DEF PutFile, At
  <1>2. /\ replay'.pc = "index" /\ replay'.todo = replay.todo
        /\ replay'.listed = replay.listed /\ replay'.task = replay.task
    BY GotoType DEF PutFile, Steps
  <1>3. PICK t \in Task : t = replay.task
    BY <1>1 DEF ServerType, Busy, InHand
  <1>4. notice[t] = "pending" /\ t \notin replay.todo
    BY <1>1, <1>3 DEF LogInv, HandOK, InHand, Busy
  <1>5. UNCHANGED <<status, notice, receipts, removals, barred, settled>>
    BY DEF PutFile, taskVars
  <1>6. writes'[t] > 0 /\ \A u \in Task : RowOK(u)'
    <2>1. CASE file[t] = "absent"
      <3>1. /\ file' = [file EXCEPT ![t] = "hub"]
            /\ writes' = [writes EXCEPT ![t] = @ + 1]
        BY <1>3, <2>1 DEF PutFile, AbsentFile
      <3>2. /\ file'[t] = "hub" /\ writes'[t] = writes[t] + 1
            /\ writes[t] \in Nat /\ removals[t] \in Nat
            /\ \A u \in Task : u # t => file'[u] = file[u] /\ writes'[u] = writes[u]
        BY <3>1 DEF StoreType
      <3>3. RowOK(t)'
        BY <1>4, <1>5, <2>1, <3>2 DEF LogInv, RowOK
      <3>4. \A u \in Task : u # t => RowOK(u)'
        BY <1>5, <3>2 DEF LogInv, RowOK
      <3> QED BY <3>2, <3>3, <3>4
    <2>2. CASE file[t] # "absent"
      <3>1. UNCHANGED <<file, writes>>
        BY <1>3, <2>2 DEF PutFile, AbsentFile
      <3> QED BY <1>5, <2>2, <3>1, SameRows DEF LogInv, RowOK
    <2> QED BY <2>1, <2>2
  <1>7. HandOK'
    BY <1>2, <1>3, <1>4, <1>5, <1>6 DEF HandOK, InHand, Busy
  <1>8. ListOK'
    BY <1>1, <1>2, <1>5 DEF LogInv, ListOK, InHand
  <1> QED BY <1>5, <1>6, <1>7, <1>8 DEF LogInv

\* The steps that only add a receipt, or nothing.
LEMMA ReceiptKeeps ==
  ASSUME TypeInv, LogInv, NEW th \in Replayer,
         IndexNote(th) \/ PutReceipt(th) \/ NoteSuppressed(th)
  PROVE  LogInv'
  <1> StoreType /\ ServerType
    BY DEF TypeInv
  <1>1. UNCHANGED <<status, notice, file, writes, removals, barred, settled>>
        /\ receipts \subseteq receipts'
    BY DEF IndexNote, PutReceipt, NoteSuppressed, taskVars
  <1>2. PICK pc \in {"receipt", "ack", "row"} :
          /\ Goto(pc)
          /\ (pc = "receipt" => replay.pc = "index")
          /\ (pc = "ack" => replay.pc = "receipt" /\ <<replay.task, "committed">> \in receipts')
          /\ (pc = "row" => replay.pc = "noted")
    BY DEF IndexNote, PutReceipt, NoteSuppressed, At
  <1>3. /\ replay'.pc = pc /\ replay'.todo = replay.todo
        /\ replay'.listed = replay.listed /\ replay'.task = replay.task
    BY <1>2, GotoType DEF Steps
  <1>4. \A u \in Task : RowOK(u)'
    BY <1>1 DEF LogInv, RowOK
  <1>5. HandOK'
    BY <1>1, <1>2, <1>3 DEF LogInv, HandOK, InHand, Busy
  <1>6. ListOK'
    BY <1>1, <1>2, <1>3 DEF LogInv, ListOK, HandOK, InHand, Busy
  <1> QED BY <1>1, <1>4, <1>5, <1>6 DEF LogInv

\* A replay that returns has nothing left of what it listed.
LEMMA ReturnKeeps ==
  ASSUME TypeInv, LogInv, NEW th \in Replayer, Return(th) PROVE LogInv'
  <1>1. \A t \in replay.listed : notice[t] = "acked"
    BY DEF LogInv, ListOK, Return, At, InHand
  <1> QED BY <1>1, IdleOK, SameRows DEF LogInv, Return, taskVars

\* Exceptions and kills forget the replay and nothing else.
LEMMA LeaveKeeps ==
  ASSUME LogInv, (\E th \in Replayer : Unparsable(th) \/ Fault(th)) \/ Restart PROVE LogInv'
  <1>1. UNCHANGED <<status, notice, file, receipts, writes, removals, barred, settled>>
        /\ replay' = NoReplay
    BY DEF Unparsable, Fault, Abort, Restart, taskVars
  <1> QED BY <1>1, IdleOK, SameRows DEF LogInv

\* People change or remove a file that is there.
LEMMA EditKeeps ==
  ASSUME TypeInv, LogInv, NEW t \in Task, NEW f \in FileStates, Edit(t, f) PROVE LogInv'
  <1> StoreType /\ ServerType
    BY DEF TypeInv
  <1>1. UNCHANGED <<status, notice, receipts, replay, writes, barred, settled>>
    BY DEF Edit, taskVars
  <1>2. /\ file[t] # "absent" /\ file'[t] = f
        /\ writes[t] \in Nat /\ removals[t] \in Nat
        /\ removals'[t] = IF f = "absent" THEN removals[t] + 1 ELSE removals[t]
        /\ \A u \in Task : u # t => file'[u] = file[u] /\ removals'[u] = removals[u]
    BY DEF Edit, StoreType
  <1>3. RowOK(t)'
    BY <1>1, <1>2 DEF LogInv, RowOK
  <1>4. \A u \in Task : u # t => RowOK(u)'
    BY <1>1, <1>2 DEF LogInv, RowOK
  <1>5. HandOK' /\ ListOK'
    BY <1>1 DEF LogInv, HandOK, ListOK
  <1> QED BY <1>1, <1>3, <1>4, <1>5 DEF LogInv

LEMMA LogInvNext == TypeInv /\ LogInv /\ [LogNext]_logVars => LogInv'
  <1> SUFFICES ASSUME TypeInv, LogInv, [LogNext]_logVars PROVE LogInv'
    OBVIOUS
  <1>1. ASSUME UNCHANGED logVars \/ \E th \in Replayer : CountOnly(th) PROVE LogInv'
    <2>1. UNCHANGED logVars
      BY <1>1 DEF CountOnly
    <2> QED BY <2>1, SameRows DEF logVars, LogInv, HandOK, ListOK
  <1> QED BY <1>1, CoordinateKeeps, BeginKeeps, NextRowKeeps, AckKeeps, PutFileKeeps,
             ReceiptKeeps, ReturnKeeps, LeaveKeeps, EditKeeps DEF LogNext, Replaying

-----------------------------------------------------------------------------
(***************************************************************************)
(* Every variable keeps its type, and the lock of a replay is held from    *)
(* its start to its end.                                                   *)
(***************************************************************************)
THEOREM TaskLogTypeCorrect == LogSpec => []TypeInv
  BY TypeInit, TypeNext, PTL DEF LogSpec

\* The two invariants together.
LEMMA LogInvariant == LogSpec => [](TypeInv /\ LogInv)
  BY TypeInit, TypeNext, LogInvInit, LogInvNext, PTL DEF LogSpec

(***************************************************************************)
(* replay_terminal_outbox: every terminal notice is acknowledged only when *)
(* its note and receipt are there or a replay found it ineligible, every   *)
(* replay that returns has acknowledged what it listed, and the hub writes *)
(* a note again only after people deleted it.                              *)
(***************************************************************************)
THEOREM TaskLogExactlyOnce == LogSpec => []ExactlyOnce
  <1>1. TypeInv /\ LogInv => ExactlyOnce
    <2> SUFFICES ASSUME TypeInv, LogInv PROVE ExactlyOnce
      OBVIOUS
    <2>1. ASSUME NEW t \in Task
          PROVE  /\ (notice[t] = "acked" /\ t \notin barred =>
                        writes[t] > 0 /\ <<t, "committed">> \in receipts)
                 /\ writes[t] <= 1 + removals[t]
                 /\ (writes[t] > 0 => status[t] \in TerminalStates)
      <3>1. RowOK(t) /\ writes[t] \in Nat /\ removals[t] \in Nat
        BY DEF LogInv, TypeInv, StoreType
      <3> QED BY <3>1 DEF RowOK
    <2> QED BY <2>1 DEF LogInv, ExactlyOnce
  <1> QED BY <1>1, LogInvariant, PTL

(***************************************************************************)
(* What people wrote into a note stays, and an acknowledged note is not    *)
(* written again: only PutFile writes, for a pending row whose file is     *)
(* missing.                                                                *)
(***************************************************************************)
THEOREM TaskLogKeepsEdits == LogSpec => EditsSurvive
  <1> DEFINE Kept == \A t \in Task :
               /\ (file[t] \in {"edited", "broken"} => file'[t] # "hub")
               /\ (notice[t] = "acked" => writes'[t] = writes[t])
  <1>1. TypeInv /\ LogInv /\ [LogNext]_logVars => [Kept]_logVars
    <2> SUFFICES ASSUME TypeInv, LogInv, LogNext PROVE Kept
      BY DEF logVars
    <2>1. ASSUME NEW th \in Replayer, PutFile(th) PROVE Kept
      <3>1. replay.task \in Task /\ notice[replay.task] = "pending"
        BY <2>1 DEF PutFile, At, TypeInv, ServerType, LogInv, HandOK, InHand, Busy
      <3> QED BY <2>1, <3>1 DEF PutFile, AbsentFile, TypeInv, StoreType
    <2>2. ASSUME NEW t \in Task, NEW f \in FileStates, Edit(t, f) PROVE Kept
      BY <2>2 DEF Edit, TypeInv, StoreType
    <2>3. ASSUME UNCHANGED <<file, writes>> PROVE Kept
      BY <2>3
    <2> QED BY <2>1, <2>2, <2>3
            DEF LogNext, Replaying, Coordinate, CountOnly, BeginReplay, NextRow, Suppress,
                NoteSuppressed, IndexNote, PutReceipt, AckRow, Return, Unparsable, Fault,
                Abort, Restart, logVars
  <1> QED BY <1>1, LogInvariant, PTL DEF LogSpec, EditsSurvive

(***************************************************************************)
(* The task log implements TaskLifecycle: whatever the replays, kills and  *)
(* edits, the states and notices of the tasks move as the coordination     *)
(* plane promises.  A replay acknowledges pending notices only, each once. *)
(***************************************************************************)
THEOREM TaskLogKeepsLifecycle == LogSpec => LifecycleSpec
  <1>1. LogInit => LifecycleInit
    BY DEF LogInit
  <1>2. TypeInv /\ LogInv /\ [LogNext]_logVars => [LifecycleNext]_lifecycleVars
    <2> SUFFICES ASSUME TypeInv, LogInv, [LogNext]_logVars PROVE [LifecycleNext]_lifecycleVars
      OBVIOUS
    <2>1. CASE Coordinate
      BY <2>1 DEF Coordinate, LifecycleNext
    <2>2. ASSUME NEW th \in Replayer, Suppress(th) \/ AckRow(th) PROVE LifecycleNext
      <3>1. /\ replay.task \in Task /\ notice[replay.task] = "pending"
            /\ Acked(replay.task)
        BY <2>2 DEF Suppress, AckRow, At, TypeInv, ServerType, LogInv, HandOK, InHand, Busy
      <3>2. Acknowledge(replay.task)
        BY <3>1 DEF Acked, Acknowledge
      <3> QED BY <3>1, <3>2 DEF LifecycleNext
    <2>3. ASSUME UNCHANGED taskVars PROVE UNCHANGED lifecycleVars
      BY <2>3 DEF taskVars, lifecycleVars
    <2>4. ASSUME UNCHANGED logVars PROVE UNCHANGED taskVars
      BY <2>4 DEF logVars, taskVars
    <2> QED BY <2>1, <2>2, <2>3, <2>4
            DEF LogNext, Replaying, CountOnly, BeginReplay, NextRow, NoteSuppressed, PutFile,
                IndexNote, PutReceipt, Return, Unparsable, Fault, Abort, Restart, Edit
  <1> QED BY <1>1, <1>2, LogInvariant, PTL DEF LogSpec, LifecycleSpec
=============================================================================

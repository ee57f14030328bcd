--------------------------- MODULE TaskLifecycle ---------------------------
(***************************************************************************)
(* What the coordination plane promises about a task, seen from outside:   *)
(* a task is created once, moves along the transition graph of models.py,  *)
(* and the moment it becomes terminal exactly one terminal notice is       *)
(* queued for the memory plane, which acknowledges it at most once.        *)
(* TaskStore is the detailed specification that implements this one.       *)
(***************************************************************************)
EXTENDS TaskModels

VARIABLES
    status,     \* status[t]: the task's state, or Absent
    notice      \* notice[t]: the terminal notice, "none", "pending" or "acked"

lifecycleVars == <<status, notice>>

NoticeFor(s) == IF s \in TerminalStates THEN "pending" ELSE "none"

LifecycleInit ==
    /\ status = [t \in Task |-> Absent]
    /\ notice = [t \in Task |-> "none"]

Create(t, s) ==
    /\ status[t] = Absent
    /\ status' = [status EXCEPT ![t] = s]
    /\ notice' = [notice EXCEPT ![t] = NoticeFor(s)]

Advance(t, s) ==
    /\ s \in AllowedNext(status[t])
    /\ status' = [status EXCEPT ![t] = s]
    /\ notice' = [notice EXCEPT ![t] = NoticeFor(s)]

Acknowledge(t) ==
    /\ notice[t] = "pending"
    /\ notice' = [notice EXCEPT ![t] = "acked"]
    /\ UNCHANGED status

LifecycleNext ==
    \E t \in Task :
        \/ \E s \in TaskStates : Create(t, s) \/ Advance(t, s)
        \/ Acknowledge(t)

LifecycleSpec == LifecycleInit /\ [][LifecycleNext]_lifecycleVars
=============================================================================

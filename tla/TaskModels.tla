----------------------------- MODULE TaskModels -----------------------------
(***************************************************************************)
(* The tables of models.py that every part of the coordination plane       *)
(* shares: the task states and the transition graph.                       *)
(***************************************************************************)
CONSTANT Task   \* task ids, client-supplied or new_id("task")

TaskStates == {"submitted", "accepted", "working", "input-required",
               "completed", "failed", "canceled", "rejected", "dead-lettered"}

TerminalStates == {"completed", "failed", "canceled", "rejected", "dead-lettered"}

\* A task id that has no row.
Absent == "absent"

\* An event that carries no state (append_event's state=None).
NoState == "no-state"

(***************************************************************************)
(* ALLOWED_TASK_TRANSITIONS: every live state may reach every terminal     *)
(* state; "working" and "input-required" may repeat; "accepted" may only   *)
(* follow "submitted"; nothing returns to "submitted".                     *)
(***************************************************************************)
AllowedNext(s) ==
    CASE s = "submitted"      -> {"accepted", "working", "input-required"} \cup TerminalStates
      [] s = "accepted"       -> {"working", "input-required"} \cup TerminalStates
      [] s = "working"        -> {"working", "input-required"} \cup TerminalStates
      [] s = "input-required" -> {"working", "input-required"} \cup TerminalStates
      [] OTHER                -> {}

\* Faulty: the test for a terminal state is missing.
EnsureTransitionNoTerminalTest(current, requested) ==
    requested = NoState \/ requested \in AllowedNext(current)

\* Faulty: every live state may become every state.
EnsureTransitionNoGraph(current, requested) == current \notin TerminalStates

\* ensure_transition(current, requested) returns instead of raising.
EnsureTransition(current, requested) ==
    /\ current \notin TerminalStates
    /\ requested = NoState \/ requested \in AllowedNext(current)
=============================================================================

---------------------------- MODULE TaskLifecycle ----------------------------
(***************************************************************************)
(* What the task store promises (the TaskStore contract and the docstring  *)
(* of retry()), with each operation one indivisible step: a task is        *)
(* created QUEUED at attempt 1, moves along the legal table only, and      *)
(* leaves FAILED only by a retry, which spends one attempt of its budget.  *)
(***************************************************************************)
EXTENDS TaskStates, Naturals

CONSTANTS Task, MaxAttempts

VARIABLE rows         \* the tasks table: one record per task

NoRow == [state |-> "ABSENT", attempt |-> 0]

Init == rows = [t \in Task |-> NoRow]

Create(t) ==
  /\ rows[t].state = "ABSENT"
  /\ rows' = [rows EXCEPT ![t] = [state |-> "QUEUED", attempt |-> 1]]

Move(t, target) ==
  /\ Legal(rows[t].state, target)
  /\ target # "QUEUED"
  /\ rows' = [rows EXCEPT ![t] = [state |-> target, attempt |-> rows[t].attempt]]

Retry(t) ==
  /\ rows[t].state = "FAILED"
  /\ rows[t].attempt < MaxAttempts
  /\ rows' = [rows EXCEPT ![t] = [state |-> "QUEUED", attempt |-> rows[t].attempt + 1]]

Next == \E t \in Task : Create(t) \/ Retry(t) \/ \E x \in TaskState : Move(t, x)

Spec == Init /\ [][Next]_rows
===============================================================================

------------------------------ MODULE TaskStates ------------------------------
(***************************************************************************)
(* The vocabulary of the durable task store (persistence/tasks.py): the    *)
(* task states, the legal-transition table and the journal event each      *)
(* state change writes.  A task that has no row yet is in state "ABSENT".  *)
(***************************************************************************)

TaskState == {"QUEUED", "RUNNING", "WAITING", "PAUSED", "RESUMABLE",
              "COMPLETED", "FAILED", "CANCELLED"}

\* LEGAL_TASK_TRANSITIONS, one set of targets per state.  "ABSENT" has none:
\* transition() raises TaskError for an unknown id before it reads the table.
LegalTargets ==
  [ QUEUED    |-> {"RUNNING", "CANCELLED", "FAILED"},
    RUNNING   |-> {"PAUSED", "WAITING", "COMPLETED", "FAILED", "CANCELLED", "RESUMABLE"},
    WAITING   |-> {"RUNNING", "PAUSED", "CANCELLED", "RESUMABLE"},
    PAUSED    |-> {"RUNNING", "RESUMABLE", "CANCELLED"},
    RESUMABLE |-> {"RUNNING", "CANCELLED", "FAILED"},
    COMPLETED |-> {},
    FAILED    |-> {"QUEUED"},
    CANCELLED |-> {},
    ABSENT    |-> {} ]

Legal(from, to) == to \in LegalTargets[from]

\* The two states with no way out.
Terminal == {"COMPLETED", "CANCELLED"}

\* cancel_all()'s `live` tuple.
LiveStates == {"QUEUED", "RUNNING", "WAITING", "PAUSED", "RESUMABLE"}

\* What mark_interrupted() takes for in flight.
InFlight == {"RUNNING", "WAITING"}

\* _state_event().
StateEvent ==
  [ QUEUED    |-> "TASK_CREATED",
    RUNNING   |-> "TASK_STARTED",
    WAITING   |-> "TASK_WAITING",
    PAUSED    |-> "TASK_PAUSED",
    RESUMABLE |-> "TASK_RESUMED",
    COMPLETED |-> "TASK_COMPLETED",
    FAILED    |-> "TASK_FAILED",
    CANCELLED |-> "TASK_CANCELLED" ]

TaskEvent == {StateEvent[x] : x \in TaskState} \cup {"TASK_INTERRUPTED"}
===============================================================================

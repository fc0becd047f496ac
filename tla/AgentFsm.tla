------------------------------- MODULE AgentFsm -------------------------------
(* The agent's state machine (runtime/fsm.py): the table of legal transitions,   *)
(* and transition(), which evaluates its guard before the move and once more     *)
(* after it, for the record it returns.                                          *)
EXTENDS Naturals

AgentState ==
  {"IDLE", "UNDERSTANDING", "GOAL_FORMING", "PLANNING", "READY", "EXECUTING", "OBSERVING",
   "VERIFYING", "REFLECTING", "COMPLETED", "RECOVERING", "RETRYING", "REPLANNING", "FAILED",
   "WAITING_APPROVAL", "PAUSED", "WAITING", "RESUMABLE", "CANCELLING", "CANCELLED"}

\* States from which CANCELLING is legal.
Cancellable ==
  {"UNDERSTANDING", "GOAL_FORMING", "PLANNING", "READY", "EXECUTING", "REPLANNING",
   "WAITING_APPROVAL", "PAUSED", "WAITING", "RESUMABLE"}

Terminal == {"COMPLETED", "FAILED", "CANCELLED"}

LEGAL_TRANSITIONS ==
  [s \in AgentState |->
    (IF s \in Cancellable THEN {"CANCELLING"} ELSE {}) \cup
    CASE s = "IDLE" -> {"UNDERSTANDING"}
      [] s = "UNDERSTANDING" -> {"GOAL_FORMING"}
      [] s = "GOAL_FORMING" -> {"PLANNING", "WAITING_APPROVAL"}
      [] s = "PLANNING" -> {"READY", "REPLANNING", "WAITING_APPROVAL", "FAILED"}
      [] s = "READY" -> {"EXECUTING", "WAITING_APPROVAL"}
      [] s = "EXECUTING" -> {"OBSERVING", "PAUSED", "WAITING_APPROVAL", "RECOVERING"}
      [] s = "OBSERVING" -> {"VERIFYING", "EXECUTING", "RECOVERING"}
      [] s = "VERIFYING" -> {"REFLECTING", "RETRYING", "REPLANNING"}
      [] s = "REFLECTING" -> {"COMPLETED", "REPLANNING"}
      [] s = "RECOVERING" -> {"RETRYING", "REPLANNING", "FAILED"}
      [] s = "RETRYING" -> {"EXECUTING", "REPLANNING", "FAILED"}
      [] s = "REPLANNING" -> {"PLANNING", "FAILED"}
      [] s \in {"WAITING_APPROVAL", "WAITING"} -> {"READY"}
      [] s = "PAUSED" -> {"RESUMABLE"}
      [] s = "RESUMABLE" -> {"EXECUTING"}
      [] s = "CANCELLING" -> {"CANCELLED"}
      [] OTHER -> {}]

VARIABLES state,    \* _state
          recorded, \* where the records returned so far leave the agent
          verified, \* it has been VERIFYING since it last was EXECUTING
          inHand,   \* it works on something, and no result or failure of it is being judged
          ended,    \* the last state it reached without a way out, or "none"
          spoilt    \* a guard raised when it was asked again

fsmVars == <<state, recorded, verified, inHand, ended, spoilt>>

FsmInit ==
  /\ state = "IDLE" /\ recorded = "IDLE"
  /\ verified = FALSE /\ inHand = FALSE /\ ended = "none" /\ spoilt = FALSE

\* Mutant of can_transition: verification can be passed over.
MaySkipVerifying(target) ==
  target \in LEGAL_TRANSITIONS[state] \/ (state = "OBSERVING" /\ target = "REFLECTING")

can_transition(target) == target \in LEGAL_TRANSITIONS[state]

MoveTo(target) ==
  /\ state' = target
  /\ verified' = (target = "VERIFYING" \/ (verified /\ target # "EXECUTING"))
  /\ inHand' = (\/ target \in {"UNDERSTANDING", "EXECUTING", "REPLANNING"}
                \/ inHand /\ target \notin {"OBSERVING", "RECOVERING"})
  /\ ended' = IF target \in Terminal THEN target ELSE ended

\* No guard, or one that is asked twice and answers; what it answers the second time
\* only goes into the record.
transition(target) ==
  /\ can_transition(target)
  /\ MoveTo(target)
  /\ recorded' = target
  /\ UNCHANGED spoilt

\* A guard that raises when asked again: the move is made, and no record returned.
GuardRaisesLate(target) ==
  /\ can_transition(target)
  /\ MoveTo(target)
  /\ spoilt' = TRUE
  /\ UNCHANGED recorded

FsmNext == \E target \in AgentState : transition(target) \/ GuardRaisesLate(target)

FsmSpec == FsmInit /\ [][FsmNext]_fsmVars

-----------------------------------------------------------------------------
\* Along every path through the table: an agent completes, and reflects on, only what has
\* been verified since it last executed anything.  A cancellation takes it only while it
\* works on something: not before it has begun, nor while a result is observed, verified
\* or reflected on, nor while a failure is recovered from and not yet executed or planned
\* anew.  It leaves no terminal state ("terminal -> anything", fsm.py:138), and is never
\* WAITING, which nothing leads to.  And what the records say of it is where it is, unless
\* a guard raised after a move.
CompletedVerified ==
  /\ state \in {"REFLECTING", "COMPLETED"} => verified
  /\ state \in {"CANCELLING", "CANCELLED"} => inHand
  /\ ended \in {"none", state}
  /\ state # "WAITING"
  /\ state # recorded => spoilt
=============================================================================

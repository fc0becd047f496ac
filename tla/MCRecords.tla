------------------------------ MODULE MCRecords ------------------------------
(***************************************************************************)
(* What is kept and what is computed from it, one component in each        *)
(* behaviour: the session store, the recycle bin, the claims and           *)
(* observations a verdict is made from, goals and plans, the context of a  *)
(* conversation, and the agent's state machine.                            *)
(***************************************************************************)
EXTENDS Sessions, Recycle, Evidence, Plans, Context, AgentFsm

VARIABLE focus

MCInit ==
  /\ SessionsInit /\ RecycleInit /\ EvidenceInit /\ PlansInit /\ ContextInit /\ FsmInit
  /\ focus \in {"sessions", "recycle", "claims", "attempts", "plans", "context", "fsm"}

\* One plan is asked for in a behaviour; nothing of an earlier one is kept.
Ask(g) == outcome.kind = "none" /\ PlanFor(g)

MCNext ==
  /\ UNCHANGED focus
  /\ \/ /\ focus = "sessions" /\ SessionsNext
        /\ UNCHANGED <<recycleVars, evidenceVars, planVars, segments, fsmVars>>
     \/ /\ focus = "recycle" /\ RecycleNext
        /\ UNCHANGED <<sessionVars, evidenceVars, planVars, segments, fsmVars>>
     \/ /\ focus = "claims" /\ \E claim \in Claim : Claims(claim)
        /\ UNCHANGED <<sessionVars, recycleVars, planVars, segments, fsmVars>>
     \/ /\ focus = "attempts" /\ \E tool \in Tool, ok \in BOOLEAN : Attempts(tool, ok)
        /\ UNCHANGED <<sessionVars, recycleVars, planVars, segments, fsmVars>>
     \/ /\ focus = "plans"
        /\ (\E g \in GoalId : CreateGoal(g) \/ activate(g) \/ achieve(g) \/ abandon(g) \/ Ask(g)) \/ _find_cycle
        /\ UNCHANGED <<sessionVars, recycleVars, evidenceVars, segments, fsmVars>>
     \/ /\ focus = "context" /\ ContextNext
        /\ UNCHANGED <<sessionVars, recycleVars, evidenceVars, planVars, fsmVars>>
     \/ /\ focus = "fsm" /\ FsmNext
        /\ UNCHANGED <<sessionVars, recycleVars, evidenceVars, planVars, segments>>

MCSpec ==
  MCInit /\ [][MCNext]_<<sessionVars, recycleVars, evidenceVars, planVars, segments, fsmVars, focus>>

\* Clients are alike.
Alike == Permutations(Client)

MCHome == [f \in File |-> IF f = "top" THEN Top ELSE "dir"]
MCDeletedFrom == [d \in Dir |-> "deleted-from"]

Piece(t, c, p) == [text |-> t, cost |-> c, protected |-> p]
MCSegment ==
  {Piece("goal", 1, TRUE), Piece("rule", 2, TRUE), Piece("ok", 1, FALSE),
   Piece("answer", 2, FALSE), Piece("page", 3, FALSE)}
===============================================================================

-------------------------------- MODULE Skills --------------------------------
(***************************************************************************)
(* The skill registry (skills/registry.py) and its lifecycle gate          *)
(* (skills/types.py): one SQLite row per skill with its stage, the list of *)
(* its evaluations and the moment it was last trusted.                     *)
(*                                                                         *)
(* record_evaluation(), advance_stage() and supersede() fetch the row,     *)
(* judge or extend what they have fetched, and then UPDATE by id in        *)
(* another transaction, so the calls of two processes interleave between   *)
(* the two.  This module has the calls; Reflection says who makes them.    *)
(*                                                                         *)
(* The clock only decides which evaluations ran since the skill was        *)
(* trusted, so it advances only when a trust moment is taken.              *)
(*                                                                         *)
(* behind is a history variable: no code reads it.                         *)
(***************************************************************************)
EXTENDS Callers, Naturals, Sequences, SequencesExt

CONSTANTS
  Skill,           \* registered names; a smaller number is earlier in name order
  TrustMin,        \* TRUST_MIN_EVALUATIONS
  DegradeMin,      \* DEGRADE_MIN_EVALUATIONS
  MaxEvaluations,  \* bound: evaluations of one skill
  MaxTrusts        \* bound: trust moments

ASSUME SkillsAssumption ==
  /\ Skill \subseteq Nat /\ Skill # {}
  /\ TrustMin \in Nat \ {0}
  /\ DegradeMin \in Nat \ {0}
  /\ MaxEvaluations \in Nat
  /\ MaxTrusts \in Nat

Stage == {"CANDIDATE", "STAGED", "EVALUATED", "EXPERIMENTAL", "TRUSTED", "DEGRADED", "SUPERSEDED"}

\* LEGAL_SKILL_TRANSITIONS, less SUPERSEDED, which every other stage may move to.
Onward == [s \in Stage |->
  CASE s = "CANDIDATE"    -> {"STAGED"}
    [] s = "STAGED"       -> {"EVALUATED", "CANDIDATE"}
    [] s = "EVALUATED"    -> {"EXPERIMENTAL"}
    [] s = "EXPERIMENTAL" -> {"TRUSTED", "DEGRADED"}
    [] s = "TRUSTED"      -> {"DEGRADED"}
    [] s = "DEGRADED"     -> {"EVALUATED"}
    [] s = "SUPERSEDED"   -> {}]

Never == 0   \* trusted_at is NULL
Moment == Nat
Evaluation == [good : Nat, bad : Nat, ran : Moment]

\* What a running call has still to write: nothing, one column, or two.
Job == {"none", "append", "advance", "retire"}
Call == [job : Job, skill : Skill, stage : Stage, trusted : Moment, evaluations : Seq(Evaluation)]
Pending(j, k, t, m, es) == [job |-> j, skill |-> k, stage |-> t, trusted |-> m, evaluations |-> es]
Rest(k) == Pending("none", k, "CANDIDATE", Never, <<>>)

VARIABLES
  stage,        \* stage[k]: the stage column; ABSENT: no row
  evaluations,  \* evaluations[k]: the JSON list, oldest first
  trusted,      \* trusted[k]: trusted_at
  moment,       \* the latest trust moment
  call,         \* call[c]: the running registry call of c
  behind        \* callers that judged or extend a row which has changed since

skillVars == <<stage, evaluations, trusted, moment, call, behind>>

SkillTypeOK ==
  /\ stage \in [Skill -> Stage \cup {"ABSENT"}]
  /\ evaluations \in [Skill -> Seq(Evaluation)]
  /\ trusted \in [Skill -> Moment]
  /\ moment \in Moment
  /\ call \in [Caller -> Call]
  /\ behind \in SUBSET Caller

SkillInit ==
  /\ stage = [k \in Skill |-> "ABSENT"]
  /\ evaluations = [k \in Skill |-> <<>>]
  /\ trusted = [k \in Skill |-> Never]
  /\ moment = 0
  /\ call = [c \in Caller |-> Rest(CHOOSE k \in Skill : TRUE)]
  /\ behind = {}

-------------------------------------------------------------------------------
(* The gate.                                                               *)

Good(es) == FoldLeft(LAMBDA n, e : n + e.good, 0, es)
Bad(es) == FoldLeft(LAMBDA n, e : n + e.bad, 0, es)

\* success_rate >= num / den, with a rate of 0 when nothing was run.
RateAtLeast(es, num, den) ==
  Good(es) + Bad(es) > 0 /\ den * Good(es) >= num * (Good(es) + Bad(es))

\* post_trust_evaluations
SinceTrust(k) ==
  IF trusted[k] = Never THEN <<>>
  ELSE SelectSeq(evaluations[k], LAMBDA e : e.ran >= trusted[k])

\* post_trust_success_rate <= 0.40
Regressed(es) == 10 * Good(es) <= 4 * (Good(es) + Bad(es))

\* Mutant: trust on the number of evaluations alone.
AllowsByCount(k, t) ==
  /\ stage[k] # "ABSENT"
  /\ t \in Onward[stage[k]]
  /\ t = "EVALUATED" => evaluations[k] # <<>>
  /\ t = "EXPERIMENTAL" => RateAtLeast(evaluations[k], 1, 2)
  /\ t = "TRUSTED" => Len(evaluations[k]) >= TrustMin
  /\ t = "DEGRADED" => Len(SinceTrust(k)) >= DegradeMin /\ Regressed(SinceTrust(k))

\* SkillLifecycleGate.check() on the row of k, for every target but SUPERSEDED.
Allows(k, t) ==
  /\ stage[k] # "ABSENT"
  /\ t \in Onward[stage[k]]
  /\ t = "EVALUATED" => evaluations[k] # <<>>
  /\ t = "EXPERIMENTAL" => RateAtLeast(evaluations[k], 1, 2)
  /\ t = "TRUSTED" => Len(evaluations[k]) >= TrustMin /\ RateAtLeast(evaluations[k], 3, 4)
  /\ t = "DEGRADED" => Len(SinceTrust(k)) >= DegradeMin /\ Regressed(SinceTrust(k))

-------------------------------------------------------------------------------
(* The calls: up to the write, and the write.                              *)

Resting(c) == call[c].job = "none"

\* register(), for a name that has no row.
Register(k) ==
  /\ stage[k] = "ABSENT"
  /\ stage' = [stage EXCEPT ![k] = "CANDIDATE"]
  /\ UNCHANGED <<evaluations, trusted, moment, call, behind>>

\* record_evaluation(): get(), and the list with the evaluation at its end.
Fetch(c, k, good, bad) ==
  /\ Resting(c)
  /\ stage[k] # "ABSENT"
  /\ Len(evaluations[k]) < MaxEvaluations
  /\ call' = [call EXCEPT ![c] =
       Pending("append", k, "CANDIDATE", Never,
               Append(evaluations[k], [good |-> good, bad |-> bad, ran |-> moment]))]
  /\ UNCHANGED <<stage, evaluations, trusted, moment, behind>>

\* trusted_at_raw: now for TRUSTED, what was fetched for any other target.
TrustedAt(k, t) == IF t = "TRUSTED" THEN moment + 1 ELSE trusted[k]

\* advance_stage() up to the write; a refusal changes nothing.
Judge(c, k, t) ==
  /\ Resting(c)
  /\ Allows(k, t)
  /\ t = "TRUSTED" => moment < MaxTrusts
  /\ call' = [call EXCEPT ![c] =
       Pending("advance", k, t, TrustedAt(k, t), <<>>)]
  /\ moment' = IF t = "TRUSTED" THEN moment + 1 ELSE moment
  /\ UNCHANGED <<stage, evaluations, trusted, behind>>

\* supersede() up to the write.
JudgeRetired(c, k) ==
  /\ Resting(c)
  /\ stage[k] \notin {"ABSENT", "SUPERSEDED"}
  /\ call' = [call EXCEPT ![c] = Pending("retire", k, "SUPERSEDED", Never, <<>>)]
  /\ UNCHANGED <<stage, evaluations, trusted, moment, behind>>

\* The call of c is over; calls that judged or extend the columns it wrote are behind.
Return(c, jobs) ==
  /\ call' = [call EXCEPT ![c] = Rest(call[c].skill)]
  /\ behind' = (behind \cup {p \in Caller : call[p].job \in jobs /\ call[p].skill = call[c].skill})
                \ {c}

\* UPDATE skills SET evaluations = ? WHERE skill_id = ?
WriteEvaluations(c) ==
  /\ call[c].job = "append"
  /\ evaluations' = [evaluations EXCEPT ![call[c].skill] = call[c].evaluations]
  /\ Return(c, {"append", "advance"})
  /\ UNCHANGED <<stage, trusted, moment>>

\* UPDATE skills SET stage = ?, trusted_at = ? WHERE skill_id = ?
WriteStage(c) ==
  /\ call[c].job = "advance"
  /\ stage' = [stage EXCEPT ![call[c].skill] = call[c].stage]
  /\ trusted' = [trusted EXCEPT ![call[c].skill] = call[c].trusted]
  /\ Return(c, {"advance", "retire"})
  /\ UNCHANGED <<evaluations, moment>>

\* UPDATE skills SET stage = 'SUPERSEDED' WHERE skill_id = ?
WriteRetired(c) ==
  /\ call[c].job = "retire"
  /\ stage' = [stage EXCEPT ![call[c].skill] = "SUPERSEDED"]
  /\ Return(c, {"advance", "retire"})
  /\ UNCHANGED <<evaluations, trusted, moment>>

\* The process of c dies, or its call raises: what it had to write is not written.
Drop(c) ==
  /\ call' = [call EXCEPT ![c] = Rest(call[c].skill)]
  /\ behind' = behind \ {c}
  /\ UNCHANGED <<stage, evaluations, trusted, moment>>

-------------------------------------------------------------------------------
(* Properties.                                                             *)

\* The call of c writes skill k in this step, on a row that has changed since its get().
LateWrite(c, k) ==
  /\ c \in behind
  /\ call[c].skill = k
  /\ call'[c].job = "none"

\* "Append one evaluation (history is immutable)" (registry.py:100): in no step is an
\* evaluation lost or changed, except by a call that holds an older list than the row.
Appends(k) ==
  /\ Len(evaluations'[k]) >= Len(evaluations[k])
  /\ \A i \in 1..Len(evaluations[k]) : evaluations'[k][i] = evaluations[k][i]

\* A stage follows from the row as it is when it is written, not only as it was
\* when it was judged: the transition is legal, and a skill that becomes TRUSTED
\* then has its evaluations, three of four runs of them successful.
Climbs(k) ==
  \/ stage'[k] = stage[k]
  \/ stage[k] = "ABSENT" /\ stage'[k] = "CANDIDATE"
  \/ /\ stage[k] # "SUPERSEDED"
     /\ stage'[k] \in Onward[stage[k]] \cup {"SUPERSEDED"}
     /\ stage'[k] = "TRUSTED" =>
          /\ Len(evaluations[k]) >= TrustMin
          /\ RateAtLeast(evaluations[k], 3, 4)

\* A skill that is trusted, or was and is degraded, says since when, whoever wrote
\* over whom: a regression is judged by what ran after a real trust moment, and no
\* skill is DEGRADED that was never TRUSTED.
TrustDated == \A k \in Skill : stage[k] \in {"TRUSTED", "DEGRADED"} => trusted[k] # Never
===============================================================================

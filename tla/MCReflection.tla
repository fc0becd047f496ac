----------------------------- MODULE MCReflection -----------------------------
(***************************************************************************)
(* Reflection with its inputs cut to one question at a time.  In each      *)
(* behaviour                                                               *)
(*   memory:  a tool has outcomes, and a user works on memory while the    *)
(*            resident runs the loop;                                      *)
(*   overlap: two tools have outcomes, and `xenopus reflect` runs the loop *)
(*            as well as the resident;                                     *)
(*   skills:  a skill has outcomes, and a user works on the registry while *)
(*            the resident runs the loop.                                  *)
(***************************************************************************)
EXTENDS Reflection

CONSTANTS resident, reflect, user

VARIABLE focus

MCInit == Init /\ focus \in {"memory", "overlap", "skills"}

Recorded == CASE focus = "memory" -> {1} [] focus = "overlap" -> Subject [] focus = "skills" -> Skill
Running == IF focus = "overlap" THEN Runner ELSE {Resident}

MCNext ==
  /\ UNCHANGED focus
  /\ \/ \E x \in Recorded : Record(x)
     \/ \E r \in Running : RunStep(r) \/ PromoteRaises(r) \/ Abort(r)
     \/ focus = "memory" /\ \E c \in Curator : CurateMemory(c) \/ StoreCurated(c) \/ Die(c)
     \/ focus = "skills" /\ \E c \in Curator : CurateSkills(c) \/ StoreSkill(c) \/ Die(c)
     \/ focus = "memory" /\ Pace

MCSpec == MCInit /\ [][MCNext]_<<vars, focus>> /\ Fairness

\* A remark about the first tool, and one with nothing to show for it.
RemarkOnFirst == [subject |-> 1, evidence |-> TRUE, confident |-> TRUE, lasts |-> TRUE]
Rumour == [subject |-> Other, evidence |-> FALSE, confident |-> TRUE, lasts |-> FALSE]
MCDrafts == {RemarkOnFirst, Rumour}
MCReports == {<<1, 0>>, <<0, 1>>}
===============================================================================

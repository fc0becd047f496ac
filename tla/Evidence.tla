------------------------------ MODULE Evidence ------------------------------
(* What a team run makes of its agents' results: claims ranked and deduplicated  *)
(* (runtime/aggregator.py), a synthesis with a verdict (runtime/synthesizer.py,  *)
(* runtime/team.py); and the checks that turn the observations of tool calls     *)
(* into a verdict (runtime/verifier.py).  All of it is computed from what there  *)
(* is: the state is the results that have come in.                               *)
EXTENDS Integers, Sequences, FiniteSets, SequencesExt, FiniteSetsExt

CONSTANTS Topic,         \* what is claimed: a claim's key
          Text,          \* what is said of it: its content
          Evidences,     \* how many references back a claim
          Confidences,   \* in quarters, 0 to 4
          MaxClaims,     \* (bound)
          Tool,
          MaxAttempts    \* (bound)

Claim == [key : Topic, content : Text, evidence : Evidences, confidence : Confidences]

ASSUME EvidenceAssumption ==
  /\ Evidences \subseteq Nat /\ Confidences \subseteq 0 .. 4
  /\ MaxClaims \in Nat /\ MaxAttempts \in Nat

VARIABLES claims,    \* of the completed results, in the order of their claim ids
          attempts   \* the observed tool results, in order: [tool, ok]

evidenceVars == <<claims, attempts>>

EvidenceInit == claims = <<>> /\ attempts = <<>>

\* A result of status COMPLETED brings a claim.  Its id is random, so that it comes
\* anywhere in the order of ids.
Claims(claim) ==
  /\ Len(claims) < MaxClaims
  /\ \E i \in 1 .. Len(claims) + 1 : claims' = InsertAt(claims, i, claim)
  /\ UNCHANGED attempts

Attempts(tool, ok) ==
  /\ Len(attempts) < MaxAttempts
  /\ attempts' = Append(attempts, [tool |-> tool, ok |-> ok])
  /\ UNCHANGED claims

EvidenceNext ==
  \/ \E claim \in Claim : Claims(claim)
  \/ \E tool \in Tool, ok \in BOOLEAN : Attempts(tool, ok)

EvidenceSpec == EvidenceInit /\ [][EvidenceNext]_evidenceVars

-----------------------------------------------------------------------------
(* The aggregator.                                                               *)

\* Mutant of Above: confidence counts before evidence.
AboveByConfidence(c, d) ==
  \/ c.confidence > d.confidence
  \/ c.confidence = d.confidence /\ c.evidence > d.evidence

Above(c, d) ==
  \/ c.evidence > d.evidence
  \/ c.evidence = d.evidence /\ c.confidence > d.confidence

\* rank_claims(): the id is the last key, and the claims come in the order of their ids.
Precedes(i, j) ==
  Above(claims[i], claims[j]) \/ (~Above(claims[j], claims[i]) /\ i < j)

\* Mutant of _dedupe_by_content: every claim stands for itself.
KeepAll(group) == group

\* Of each content the first in rank.
_dedupe_by_content(group) ==
  {i \in group : \A j \in group : claims[j].content = claims[i].content => ~Precedes(j, i)}

Group(key) == {i \in DOMAIN claims : claims[i].key = key}
Keys == {claims[i].key : i \in DOMAIN claims}

\* The claims of a key, one for each content; the first of them; and by how many
\* references it leads.
Distinct(key) == _dedupe_by_content(Group(key))
Winner(key) == CHOOSE i \in Distinct(key) : \A j \in Distinct(key) : ~Precedes(j, i)
TopClaim(key) == claims[Winner(key)]
Gap(key) == Min({TopClaim(key).evidence - claims[i].evidence : i \in Distinct(key) \ {Winner(key)}})

Dominance == 1  \* EVIDENCE_DOMINANCE_THRESHOLD
Penalty == 1    \* CONFLICT_PENALTY, in quarters

resolution(key) ==
  IF Cardinality(Distinct(key)) = 1 THEN "AGREED"
  ELSE IF Gap(key) >= Dominance THEN "SUPERSEDED"
  ELSE "CONFLICT"

Conflicted == {key \in Keys : resolution(key) = "CONFLICT"}

\* The mean of the top claims less the penalties, times the number of top claims.
confidence ==
  Max({0, SumFunction([key \in Keys |-> TopClaim(key).confidence])
          - Penalty * Cardinality(Conflicted) * Cardinality(Keys)})

-----------------------------------------------------------------------------
(* The synthesizer: three checks, none of which can fail.                        *)

_evidence_backed_check ==
  IF \E key \in Keys : TopClaim(key).evidence = 0 THEN "UNCERTAIN"
  ELSE IF Keys = {} THEN "UNCERTAIN" ELSE "PASS"
_conflict_free_check == IF Conflicted # {} THEN "UNCERTAIN" ELSE "PASS"
_aggregation_present_check == "PASS"

synthesize ==
  LET results == {_aggregation_present_check, _evidence_backed_check, _conflict_free_check}
      doubts == Conflicted \cup {key \in Keys : TopClaim(key).evidence = 0} IN
  IF "FAIL" \in results THEN "REJECTED"
  ELSE IF "UNCERTAIN" \in results \/ doubts # {} THEN "UNCERTAIN"
  ELSE "TRUSTED"

-----------------------------------------------------------------------------
(* The verifier.                                                                 *)

Of(tool) == {i \in DOMAIN attempts : attempts[i].tool = tool}

require_observation == IF attempts # <<>> THEN "PASS" ELSE "UNCERTAIN"

\* The predicate returns at the first result of the tool.
require_success_result(tool) ==
  IF Of(tool) = {} THEN "UNCERTAIN" ELSE IF attempts[Min(Of(tool))].ok THEN "PASS" ELSE "FAIL"

\* Mutant of adversarial_recheck: a later success hides a failure.
RecheckLast(tool) ==
  IF Of(tool) = {} THEN "UNCERTAIN"
  ELSE IF ~attempts[Max(Of(tool))].ok THEN "FAIL" ELSE "PASS"

adversarial_recheck(tool) ==
  IF Of(tool) = {} THEN "UNCERTAIN"
  ELSE IF \E i \in Of(tool) : ~attempts[i].ok THEN "FAIL" ELSE "PASS"

overall(results) ==
  IF "FAIL" \in results THEN "FAIL" ELSE IF "UNCERTAIN" \in results THEN "UNCERTAIN" ELSE "PASS"

Verified(tool) ==
  overall({require_observation, require_success_result(tool), adversarial_recheck(tool)})

-----------------------------------------------------------------------------
\* "claims with no evidence can never outrank evidenced ones" and "conflicts are
\* surfaced explicitly" (aggregator.py:5-6): the top claim of a key has the most
\* evidence of all that was claimed, one alternative that nobody's evidence rules out
\* makes a conflict, and a verdict of TRUSTED has neither a conflict nor a bare claim.
EvidenceWins ==
  /\ \A i \in DOMAIN claims :
       LET c == claims[i]
           top == TopClaim(c.key) IN
       /\ c.evidence <= top.evidence
       /\ c.content # top.content /\ c.evidence = top.evidence => resolution(c.key) = "CONFLICT"
  /\ \A key \in Conflicted : \E i, j \in DOMAIN claims :
       /\ claims[i].key = key /\ claims[j].key = key
       /\ claims[i].content # claims[j].content /\ claims[i].evidence = claims[j].evidence
  /\ synthesize = "TRUSTED" <=>
       /\ claims # <<>>
       /\ \A key \in Keys : \E j \in DOMAIN claims :
            /\ claims[j].key = key /\ claims[j].evidence > 0
            /\ \A i \in DOMAIN claims :
                 claims[i].key = key /\ claims[i].content # claims[j].content
                   => claims[i].evidence < claims[j].evidence

\* "resolves them by EVIDENCE, not votes" (aggregator.py:4): a claim that repeats what
\* another has said with no less evidence and confidence changes neither what is said
\* of any key, nor how it was resolved, nor the verdict, however many there are.
VotesDoNotCount ==
  [][\A i \in DOMAIN claims' :
       LET c == claims'[i] IN
       /\ Len(claims') = Len(claims) + 1 /\ claims = RemoveAt(claims', i)
       /\ \E j \in DOMAIN claims :
            /\ claims[j].key = c.key /\ claims[j].content = c.content
            /\ claims[j].evidence >= c.evidence /\ claims[j].confidence >= c.confidence
       => /\ synthesize' = synthesize /\ confidence' = confidence
          /\ \A key \in Keys : resolution(key)' = resolution(key)]_evidenceVars

\* What the two checks of a tool say of its attempts in whatever order they came: the
\* adversarial one passes no tool that ever failed and no tool that never ran, what it
\* passes the other passes, and what the first attempt failed stays failed, although
\* the check asks for "at least one ok result" (verifier.py:121).
VerifiedMeansClean ==
  \A tool \in Tool :
    /\ Verified(tool) = "PASS" <=>
         /\ [tool |-> tool, ok |-> TRUE] \in ToSet(attempts)
         /\ [tool |-> tool, ok |-> FALSE] \notin ToSet(attempts)
    /\ require_success_result(tool) = "FAIL" <=>
         \E i \in DOMAIN attempts :
           /\ attempts[i] = [tool |-> tool, ok |-> FALSE]
           /\ \A j \in 1 .. i - 1 : attempts[j].tool # tool
=============================================================================

------------------------------ MODULE Reflection ------------------------------
(***************************************************************************)
(* The self-improvement loop (runtime/learning.py) on the memory store and *)
(* the skill registry, over the recorded outcomes of tools, agents and     *)
(* skills (persistence/reliability.py).  A run reads which insights memory *)
(* has, derives insights from the outcomes, writes the new ones through    *)
(* the promotion gate, and appends an evaluation to staged skills.         *)
(*                                                                         *)
(* The resident host runs it at its cadence and `xenopus reflect` on       *)
(* demand, in another process; every statement of a run interleaves with   *)
(* the other run and with the users of the two stores.  A run may end at   *)
(* any statement, by an error or by the death of its process.              *)
(*                                                                         *)
(* shared and meddled are history variables: no code reads them.           *)
(***************************************************************************)
EXTENDS Memory, Skills, FiniteSets

CONSTANTS
  Runner,               \* callers that run the loop
  Resident,             \* the one among them that keeps running it
  Curator,              \* callers that use the stores directly
  Drafts,               \* what curators write
  Reports,              \* evaluations curators record: pairs of successes and failures
  MinFailures,          \* MIN_FAILURES_FOR_INSIGHT
  MaxProposals,         \* MAX_MEMORY_CANDIDATES_PER_RUN
  MaxSkillEvaluations,  \* MAX_SKILL_EVALUATIONS_PER_RUN
  MaxOutcomes,          \* bound: outcomes of one subject or skill
  MaxActs,              \* bound: calls of the memory store by curators
  MaxAborts             \* bound: runs that end before their time

ASSUME ReflectionAssumption ==
  /\ Runner \cup Curator = Caller
  /\ Runner \cap Curator = {}
  /\ Resident \in Runner
  /\ Subject \cap Skill = {}
  /\ Drafts \subseteq Draft
  /\ Reports \subseteq Nat \X Nat
  /\ MinFailures \in Nat \ {0}
  /\ MaxProposals \in Nat \ {0}
  /\ MaxSkillEvaluations \in Nat \ {0}
  /\ MaxOutcomes \in Nat
  /\ MaxActs \in Nat
  /\ MaxAborts \in Nat

VARIABLES
  outcomes,  \* outcomes[x]: recorded successes and failures of x
  pc,        \* pc[r]: where the run of r is
  known,     \* known[r]: subjects the run found in memory
  todo,      \* todo[r]: insights, then staged skills, it has still to treat
  written,   \* written[r]: proposals, then evaluations, it has written
  mine,      \* mine[r]: the item it has just created
  acts,      \* calls of curators so far, for their bound
  aborts,    \* runs cut short so far, for their bound
  shared,    \* runs that were not alone all along
  meddled    \* subjects somebody else than a lone run has written about

loopVars == <<outcomes, pc, known, todo, written, mine, acts, aborts, shared, meddled>>
vars == <<memoryVars, skillVars, loopVars>>

Pc == {"idle", "derive", "propose", "promote", "store", "evaluate", "append"}
Outcome == [good : Nat, bad : Nat]

TypeOK ==
  /\ MemoryTypeOK
  /\ SkillTypeOK
  /\ outcomes \in [Subject \cup Skill -> Outcome]
  /\ pc \in [Runner -> Pc]
  /\ known \in [Runner -> SUBSET (Subject \cup {Other})]
  /\ todo \in [Runner -> SUBSET (Subject \cup Skill)]
  /\ written \in [Runner -> Nat]
  /\ mine \in [Runner -> Nat]
  /\ \A r \in Runner : pc[r] \in {"promote", "store"} => mine[r] \in DOMAIN items
  /\ acts \in Nat
  /\ aborts \in Nat
  /\ shared \in SUBSET Runner
  /\ meddled \in SUBSET Subject

Init ==
  /\ MemoryInit
  /\ SkillInit
  /\ outcomes = [x \in Subject \cup Skill |-> [good |-> 0, bad |-> 0]]
  /\ pc = [r \in Runner |-> "idle"]
  /\ known = [r \in Runner |-> {}]
  /\ todo = [r \in Runner |-> {}]
  /\ written = [r \in Runner |-> 0]
  /\ mine = [r \in Runner |-> 0]
  /\ acts = 0
  /\ aborts = 0
  /\ shared = {}
  /\ meddled = {}

-------------------------------------------------------------------------------
(* The recorded outcomes.                                                  *)

Runs(x) == outcomes[x].good + outcomes[x].bad

\* ReliabilityStore.record()
Record(x) ==
  /\ Runs(x) < MaxOutcomes
  /\ \/ outcomes' = [outcomes EXCEPT ![x].good = @ + 1]
     \/ outcomes' = [outcomes EXCEPT ![x].bad = @ + 1]
  /\ UNCHANGED <<memoryVars, skillVars, pc, known, todo, written, mine, acts, aborts, shared, meddled>>

\* _derive_insights(): at least MIN_FAILURES_FOR_INSIGHT, and a rate below 0.9.
Failing(s) == outcomes[s].bad >= MinFailures /\ 10 * outcomes[s].good < 9 * Runs(s)

-------------------------------------------------------------------------------
(* One run of the loop.                                                    *)

\* Mutant: memory is searched without include_stale.
ActiveSubjects == {items[i].subject : i \in {j \in DOMAIN items : items[j].status = "ACTIVE"}}

\* _known_fingerprints()
KnownSubjects == {items[i].subject : i \in {j \in DOMAIN items : Lookable(items[j])}}

Start(r) ==
  /\ pc[r] = "idle"
  /\ pc' = [pc EXCEPT ![r] = "derive"]
  /\ known' = [known EXCEPT ![r] = KnownSubjects]
  /\ shared' = LET others == {p \in Runner \ {r} : pc[p] # "idle"}
               IN  IF others = {} THEN shared ELSE shared \cup others \cup {r}
  /\ UNCHANGED <<memoryVars, skillVars, outcomes, todo, written, mine, acts, aborts, meddled>>

\* _derive_insights(): its SELECTs, one per subject, as one step; outcomes recorded
\* between them might as well have been recorded before or after all of them.
Derive(r) ==
  /\ pc[r] = "derive"
  /\ pc' = [pc EXCEPT ![r] = "propose"]
  /\ todo' = [todo EXCEPT ![r] = {s \in Subject : Failing(s)}]
  /\ written' = [written EXCEPT ![r] = 0]
  /\ UNCHANGED <<memoryVars, skillVars, outcomes, known, mine, acts, aborts, shared, meddled>>

\* Insights, and staged skills, are treated in the order of their names.
First(r, x) == x \in todo[r] /\ \A y \in todo[r] : x <= y

Proposing(r) == pc[r] = "propose" /\ todo[r] # {} /\ written[r] < MaxProposals

\* Mutant: a duplicate uses up the budget too.
SkipCounted(r, s) ==
  /\ Proposing(r) /\ First(r, s)
  /\ s \in known[r]
  /\ todo' = [todo EXCEPT ![r] = @ \ {s}]
  /\ written' = [written EXCEPT ![r] = @ + 1]
  /\ UNCHANGED <<memoryVars, skillVars, outcomes, pc, known, mine, acts, aborts, shared, meddled>>

\* An insight memory has already is counted as a duplicate.
Skip(r, s) ==
  /\ Proposing(r) /\ First(r, s)
  /\ s \in known[r]
  /\ todo' = [todo EXCEPT ![r] = @ \ {s}]
  /\ UNCHANGED <<memoryVars, skillVars, outcomes, pc, known, written, mine, acts, aborts, shared, meddled>>

\* Insight.draft(): evidence is the run's correlation id, and the confidence,
\* 0.5 and more, always reaches the default threshold of the gate.
Insight(s) == [subject |-> s, evidence |-> TRUE, confident |-> TRUE, lasts |-> FALSE]

\* A new one is created.
Propose(r, s) ==
  /\ Proposing(r) /\ First(r, s)
  /\ s \notin known[r]
  /\ Create(Insight(s))
  /\ mine' = [mine EXCEPT ![r] = Len(items) + 1]
  /\ todo' = [todo EXCEPT ![r] = @ \ {s}]
  /\ written' = [written EXCEPT ![r] = @ + 1]
  /\ pc' = [pc EXCEPT ![r] = "promote"]
  /\ meddled' = IF r \in shared THEN meddled \cup {s} ELSE meddled
  /\ UNCHANGED <<skillVars, outcomes, known, acts, aborts, shared>>

\* promote(), or a refusal of the gate, which is recorded.
PromoteMine(r) ==
  /\ pc[r] = "promote"
  /\ IF Passes(items[mine[r]])
     THEN /\ Promote(r, mine[r])
          /\ pc' = [pc EXCEPT ![r] = "store"]
     ELSE /\ pc' = [pc EXCEPT ![r] = "propose"]
          /\ UNCHANGED memoryVars
  /\ UNCHANGED <<skillVars, outcomes, known, todo, written, mine, acts, aborts, shared, meddled>>

StoreMine(r) ==
  /\ pc[r] = "store"
  /\ Store(r)
  /\ pc' = [pc EXCEPT ![r] = "propose"]
  /\ UNCHANGED <<skillVars, outcomes, known, todo, written, mine, acts, aborts, shared, meddled>>

\* promote() raises a store error: recorded like a refusal, and the run goes on.
PromoteRaises(r) ==
  /\ pc[r] \in {"promote", "store"}
  /\ aborts < MaxAborts
  /\ aborts' = aborts + 1
  /\ Abandon(r)
  /\ pc' = [pc EXCEPT ![r] = "propose"]
  /\ UNCHANGED <<skillVars, outcomes, known, todo, written, mine, acts, shared, meddled>>

\* The insights are treated, or the budget is used up: the staged skills are listed.
ListStaged(r) ==
  /\ pc[r] = "propose"
  /\ ~Proposing(r)
  /\ pc' = [pc EXCEPT ![r] = "evaluate"]
  /\ todo' = [todo EXCEPT ![r] = {k \in Skill : stage[k] = "STAGED"}]
  /\ written' = [written EXCEPT ![r] = 0]
  /\ UNCHANGED <<memoryVars, skillVars, outcomes, known, mine, acts, aborts, shared, meddled>>

Evaluating(r) == pc[r] = "evaluate" /\ todo[r] # {} /\ written[r] < MaxSkillEvaluations

\* A staged skill without outcomes is left alone (and one whose list is at its bound).
Pass(r, k) ==
  /\ Evaluating(r) /\ First(r, k)
  /\ Runs(k) = 0 \/ Len(evaluations[k]) = MaxEvaluations
  /\ todo' = [todo EXCEPT ![r] = @ \ {k}]
  /\ UNCHANGED <<memoryVars, skillVars, outcomes, pc, known, written, mine, acts, aborts, shared, meddled>>

\* record_evaluation() with all the outcomes so far; the stage is not looked at again.
Evaluate(r, k) ==
  /\ Evaluating(r) /\ First(r, k)
  /\ Runs(k) > 0
  /\ Fetch(r, k, outcomes[k].good, outcomes[k].bad)
  /\ todo' = [todo EXCEPT ![r] = @ \ {k}]
  /\ pc' = [pc EXCEPT ![r] = "append"]
  /\ UNCHANGED <<memoryVars, outcomes, known, written, mine, acts, aborts, shared, meddled>>

StoreEvaluation(r) ==
  /\ pc[r] = "append"
  /\ WriteEvaluations(r)
  /\ written' = [written EXCEPT ![r] = @ + 1]
  /\ pc' = [pc EXCEPT ![r] = "evaluate"]
  /\ UNCHANGED <<memoryVars, outcomes, known, todo, mine, acts, aborts, shared, meddled>>

End(r) ==
  /\ pc' = [pc EXCEPT ![r] = "idle"]
  /\ known' = [known EXCEPT ![r] = {}]
  /\ todo' = [todo EXCEPT ![r] = {}]
  /\ written' = [written EXCEPT ![r] = 0]
  /\ mine' = [mine EXCEPT ![r] = 0]
  /\ shared' = shared \ {r}

\* The report is journaled and returned.
Finish(r) ==
  /\ pc[r] = "evaluate"
  /\ ~Evaluating(r)
  /\ End(r)
  /\ UNCHANGED <<memoryVars, skillVars, outcomes, acts, aborts, meddled>>

\* A store error elsewhere, or the death of the process.
Abort(r) ==
  /\ pc[r] # "idle"
  /\ aborts < MaxAborts
  /\ aborts' = aborts + 1
  /\ End(r)
  /\ Abandon(r)
  /\ Drop(r)
  /\ UNCHANGED <<outcomes, acts, meddled>>

RunStep(r) ==
  \/ Start(r) \/ Derive(r) \/ PromoteMine(r) \/ StoreMine(r)
  \/ \E s \in Subject : Skip(r, s) \/ Propose(r, s)
  \/ ListStaged(r) \/ StoreEvaluation(r) \/ Finish(r)
  \/ \E k \in Skill : Pass(r, k) \/ Evaluate(r, k)

-------------------------------------------------------------------------------
(* The users of the two stores.                                            *)

About(ids) == {items[i].subject : i \in ids} \cap Subject

\* A call of the memory store, up to its write.
Begin(c) ==
  \/ \E d \in Drafts : Unheld(c) /\ Create(d) /\ meddled' = meddled \cup ({d.subject} \cap Subject)
  \/ \E i \in DOMAIN items :
       \/ Promote(c, i) /\ meddled' = meddled \cup About({i})
       \/ (Reject(c, i) \/ MarkStale(c, i)) /\ UNCHANGED meddled
       \/ \E d \in Drafts : Supersede(c, i, d) /\ meddled' = meddled \cup ({d.subject} \cap Subject)
  \/ Expire(c) /\ UNCHANGED meddled

CurateMemory(c) ==
  /\ Resting(c)
  /\ acts < MaxActs
  /\ acts' = acts + 1
  /\ Begin(c)
  /\ UNCHANGED <<skillVars, outcomes, pc, known, todo, written, mine, aborts, shared>>

StoreCurated(c) ==
  /\ Store(c)
  /\ meddled' = IF c \in stale THEN meddled \cup About(hold[c].ids) ELSE meddled
  /\ UNCHANGED <<skillVars, outcomes, pc, known, todo, written, mine, acts, aborts, shared>>

\* A call of the registry, up to its write and the write.
CurateSkills(c) ==
  /\ Unheld(c) /\ Resting(c)
  /\ \E k \in Skill :
       \/ Register(k)
       \/ \E e \in Reports : Fetch(c, k, e[1], e[2])
       \/ \E t \in Stage : Judge(c, k, t)
       \/ JudgeRetired(c, k)
  /\ UNCHANGED <<memoryVars, loopVars>>

StoreSkill(c) ==
  /\ WriteEvaluations(c) \/ WriteStage(c) \/ WriteRetired(c)
  /\ UNCHANGED <<memoryVars, loopVars>>

\* The process of a user dies between the two statements of a call.
Die(c) ==
  /\ ~Unheld(c) \/ ~Resting(c)
  /\ Abandon(c)
  /\ Drop(c)
  /\ UNCHANGED loopVars

Pace == Tick /\ UNCHANGED <<skillVars, loopVars>>

Next ==
  \/ \E x \in Subject \cup Skill : Record(x)
  \/ \E r \in Runner : RunStep(r) \/ PromoteRaises(r) \/ Abort(r)
  \/ \E c \in Curator : CurateMemory(c) \/ StoreCurated(c) \/ CurateSkills(c) \/ StoreSkill(c) \/ Die(c)
  \/ Pace

Spec == Init /\ [][Next]_vars

\* The resident host keeps running the loop, and a run of it that is not cut short goes
\* on; nothing is asked of `xenopus reflect`, of users, or of failures.
Fairness == WF_vars(RunStep(Resident))

FairSpec == Spec /\ Fairness

-------------------------------------------------------------------------------
(* Properties.                                                             *)

(* However often the loop runs, is cut short, or finds its memories stale, a      *)
(* subject has one memory that can be looked up: unless two runs overlap, or a    *)
(* user writes about the subject ("Idempotent: unchanged data -> no new           *)
(* proposals", learning.py:136).                                                  *)
OneInsight ==
  \A s \in Subject \ meddled :
    \A i, j \in DOMAIN items :
      /\ items[i].subject = s /\ Lookable(items[i])
      /\ items[j].subject = s /\ Lookable(items[j])
      => i = j

Noted(s) == \E i \in DOMAIN items : items[i].subject = s /\ Lookable(items[i])

(* The budget of a run delays an insight but never withholds it: a subject that   *)
(* goes on failing is in memory at some time, through aborted runs and refusals.  *)
InsightNoted == \A s \in Subject : Failing(s) ~> (Noted(s) \/ ~Failing(s))

(* The life of a memory goes on as its status table says.                         *)
MemoryMoves == \A i \in DOMAIN items :
  Onwards(i) \/ \E c \in stale : i \in hold[c].ids /\ hold'[c].ids = {}

MemoryLife == [][MemoryMoves]_vars

(* "Append one evaluation (history is immutable)" (registry.py:100): no evaluation *)
(* is lost or changed, except by a call that holds an older list than the row.    *)
HistoryKept == [][\A k \in Skill : Appends(k) \/ \E c \in behind : LateWrite(c, k)]_vars

(* The stage column follows the transition table, and a skill becomes TRUSTED on   *)
(* evaluations its row then has, whatever the loop and users do to the row while  *)
(* the gate judges it: except by a call that judged what the row no longer says.  *)
LadderClimbed == [][\A k \in Skill : Climbs(k) \/ \E c \in behind : LateWrite(c, k)]_vars

(* No process, whatever it overtakes, brings about trust that no gate has given.  *)
TrustEarned == TrustedByGate /\ TrustDated

(* A skill's record loses nothing and climbs by what it says, but for late writes. *)
SkillsKept == HistoryKept /\ LadderClimbed
===============================================================================

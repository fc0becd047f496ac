--------------------------- MODULE ReflectionProofs ---------------------------
(***************************************************************************)
(* What the two stores guarantee for any number of loop runs and users.    *)
(* Every step of the system is a step of a memory call and of a registry   *)
(* call, or leaves the store alone (Split); each store is then on its own. *)
(* For memory, Weighed says what a call knows of the rows it holds: a call *)
(* that is to make a row ACTIVE, STALE or EXPIRED holds one that has       *)
(* passed the gate, and unless it is stale the row is as it was judged.    *)
(* For the registry, Ahead says the same of a call that is not behind, and *)
(* Dating that a call on its way to TRUSTED or DEGRADED carries a date.    *)
(* For the loop, OneInv says that of a subject nobody else writes about    *)
(* one row can be looked up or is about to be, and that a run that is      *)
(* alone has no such subject left on its list.                             *)
(***************************************************************************)
EXTENDS Reflection, TLAPS

-------------------------------------------------------------------------------
(* The memory store by itself.                                             *)

Vetted(i) == items[i].evidence /\ items[i].confident

Weighed ==
  \A c \in Caller : \A i \in hold[c].ids :
    /\ hold[c].status # "CANDIDATE"
    /\ hold[c].status \in {"ACTIVE", "STALE", "EXPIRED"} => Vetted(i)
    /\ c \notin stale =>
         /\ hold[c].status \in {"ACTIVE", "REJECTED"} => items[i].status = "CANDIDATE"
         /\ hold[c].status \in {"STALE", "EXPIRED"} => items[i].status = "ACTIVE"

MemoryInv == MemoryTypeOK /\ TrustedByGate /\ Weighed

MemoryStep ==
  \/ \E d \in Draft : Create(d)
  \/ \E c \in Caller :
       \/ \E i \in DOMAIN items :
            \/ Promote(c, i) \/ Reject(c, i) \/ MarkStale(c, i)
            \/ \E d \in Draft : Supersede(c, i, d)
       \/ Expire(c) \/ Store(c) \/ Abandon(c)
  \/ Tick
  \/ UNCHANGED memoryVars

(* A new row is appended, and the others stay where and what they are.            *)
LEMMA Inserted ==
  ASSUME MemoryTypeOK, NEW d \in Draft, Insert(d)
  PROVE  /\ items' \in Seq(Item)
         /\ DOMAIN items \subseteq DOMAIN items'
         /\ \A i \in DOMAIN items : items'[i] = items[i]
         /\ \A i \in DOMAIN items' : i \in DOMAIN items \/ items'[i] = ItemOf(d)
<1> USE MemoryAssumption
<1>1. ItemOf(d) \in Item
  BY DEF ItemOf, Item, Draft, Status, Forever, MemoryTypeOK
<1>2. items \in Seq(Item) /\ items' = Append(items, ItemOf(d))
  BY DEF MemoryTypeOK, Insert
<1> QED BY <1>1, <1>2

(* UPDATE keeps the rows, and their columns but for the status.                   *)
LEMMA Written ==
  ASSUME MemoryTypeOK, NEW c \in Caller, Store(c)
  PROVE  /\ items' \in Seq(Item)
         /\ DOMAIN items' = DOMAIN items
         /\ \A i \in DOMAIN items :
              /\ items'[i].evidence = items[i].evidence
              /\ items'[i].confident = items[i].confident
              /\ items'[i].subject = items[i].subject
              /\ items'[i].status = IF i \in hold[c].ids THEN hold[c].status ELSE items[i].status
<1>1. items \in Seq(Item) /\ items' = [i \in DOMAIN items |-> Updated(c, i)]
  BY DEF MemoryTypeOK, Store
<1>2. DOMAIN items = 1..Len(items) /\ Len(items) \in Nat
  BY <1>1
<1>3. \A i \in DOMAIN items : items[i] \in Item
  BY <1>1
<1>4. hold[c].status \in Status
  BY DEF MemoryTypeOK, Hold
<1>5. \A i \in DOMAIN items : Updated(c, i) \in Item
  BY <1>3, <1>4 DEF Updated, Item
<1>6. items' \in Seq(Item)
  BY <1>1, <1>2, <1>5
<1>7. \A i \in DOMAIN items : items'[i] = Updated(c, i)
  BY <1>1
<1> QED BY <1>1, <1>3, <1>6, <1>7 DEF Updated, Item

LEMMA MemoryInit1 == MemoryInit => MemoryInv
BY DEF MemoryInit, MemoryInv, MemoryTypeOK, TrustedByGate, Weighed, Free, Hold, Status

(* A call that has judged its rows and holds them knows what it judged.           *)
LEMMA Taken ==
  ASSUME MemoryInv, NEW c \in Caller, NEW ids \in SUBSET (DOMAIN items),
         NEW t \in Status \ {"CANDIDATE"}, Take(c, ids, t),
         t \in {"ACTIVE", "REJECTED"} => \A i \in ids : items[i].status = "CANDIDATE",
         t \in {"STALE", "EXPIRED"} => \A i \in ids : items[i].status = "ACTIVE",
         t = "ACTIVE" => \A i \in ids : Vetted(i)
  PROVE  MemoryInv'
<1> USE DEF MemoryInv
<1>1. UNCHANGED <<items, now, stale>>
  BY DEF Take
<1>2. [ids |-> ids, status |-> t] \in Hold
  <2>1. DOMAIN items \subseteq Nat
    BY DEF MemoryTypeOK
  <2> QED BY <2>1 DEF Hold
<1>3. \A p \in Caller : hold'[p] = IF p = c THEN [ids |-> ids, status |-> t] ELSE hold[p]
  BY DEF Take, MemoryTypeOK
<1>4. hold' \in [Caller -> Hold]
  BY <1>2 DEF Take, MemoryTypeOK
<1>5. MemoryTypeOK'
  BY <1>1, <1>3, <1>4 DEF MemoryTypeOK
<1>6. TrustedByGate'
  BY <1>1 DEF TrustedByGate
<1>7. t \in {"STALE", "EXPIRED"} => \A i \in ids : Vetted(i)
  BY DEF TrustedByGate, Vetted
<1>8. Weighed'
  BY <1>1, <1>3, <1>7 DEF Weighed, Vetted
<1> QED BY <1>5, <1>6, <1>8

(* A new candidate is no news for what is trusted or held.                        *)
LEMMA Grown ==
  ASSUME MemoryInv, NEW d \in Draft, Insert(d), UNCHANGED <<now, stale>>,
         hold' \in [Caller -> Hold],
         \A p \in Caller : \/ hold'[p] = hold[p]
                           \/ hold'[p].ids \subseteq DOMAIN items /\ hold'[p].status = "SUPERSEDED"
  PROVE  MemoryInv'
<1> USE DEF MemoryInv
<1>1. /\ items' \in Seq(Item)
      /\ DOMAIN items \subseteq DOMAIN items'
      /\ \A i \in DOMAIN items : items'[i] = items[i]
      /\ \A i \in DOMAIN items' : i \in DOMAIN items \/ items'[i] = ItemOf(d)
  BY Inserted
<1>2. MemoryTypeOK'
  BY <1>1 DEF MemoryTypeOK
<1>3. TrustedByGate'
  BY <1>1 DEF TrustedByGate, ItemOf
<1>4. Weighed'
  BY <1>1 DEF Weighed, Vetted, MemoryTypeOK
<1> QED BY <1>2, <1>3, <1>4

(* An UPDATE writes what was judged, and leaves behind who holds the same row.    *)
LEMMA Kept == ASSUME MemoryInv, NEW c \in Caller, Store(c) PROVE MemoryInv'
<1> USE DEF MemoryInv
<1>1. /\ items' \in Seq(Item)
      /\ DOMAIN items' = DOMAIN items
      /\ \A i \in DOMAIN items :
           /\ items'[i].evidence = items[i].evidence
           /\ items'[i].confident = items[i].confident
           /\ items'[i].status = IF i \in hold[c].ids THEN hold[c].status ELSE items[i].status
  BY Written
<1>2. Free \in Hold
  BY DEF Free, Hold, Status
<1>3. \A p \in Caller : hold'[p] = IF p = c THEN Free ELSE hold[p]
  BY DEF Store, MemoryTypeOK
<1>4. MemoryTypeOK'
  <2>1. hold' \in [Caller -> Hold]
    BY <1>2 DEF Store, MemoryTypeOK
  <2>2. now' = now /\ stale' \in SUBSET Caller
    BY DEF Store, MemoryTypeOK
  <2> QED BY <1>1, <1>3, <2>1, <2>2 DEF MemoryTypeOK, Free
<1>5. TrustedByGate'
  BY <1>1 DEF TrustedByGate, Weighed, Vetted
<1>6. \A p \in Caller : p \notin stale' /\ p # c => p \notin stale /\ hold[p].ids \cap hold[c].ids = {}
  BY DEF Store
<1>7. Weighed'
  <2> SUFFICES ASSUME NEW p \in Caller, p # c, NEW i \in hold[p].ids
               PROVE  /\ hold[p].status # "CANDIDATE"
                      /\ hold[p].status \in {"ACTIVE", "STALE", "EXPIRED"} => Vetted(i)'
                      /\ p \notin stale' =>
                           /\ hold[p].status \in {"ACTIVE", "REJECTED"} => items'[i].status = "CANDIDATE"
                           /\ hold[p].status \in {"STALE", "EXPIRED"} => items'[i].status = "ACTIVE"
    BY <1>3 DEF Weighed, Free
  <2>1. i \in DOMAIN items
    BY DEF MemoryTypeOK
  <2>2. p \notin stale' => i \notin hold[c].ids
    BY <1>6
  <2> QED BY <1>1, <1>6, <2>1, <2>2 DEF Weighed, Vetted
<1> QED BY <1>4, <1>5, <1>7

(* Every call of the memory store keeps the invariant.                            *)
LEMMA MemoryKept == ASSUME MemoryInv, MemoryStep PROVE MemoryInv'
<1> USE MemoryAssumption DEF MemoryInv
<1>1. ASSUME NEW d \in Draft, Create(d) PROVE MemoryInv'
  BY <1>1, Grown DEF Create, MemoryTypeOK
<1>2. ASSUME NEW c \in Caller, NEW i \in DOMAIN items, Promote(c, i) PROVE MemoryInv'
  BY <1>2, Taken DEF Promote, Passes, Vetted, Status
<1>3. ASSUME NEW c \in Caller, NEW i \in DOMAIN items, Reject(c, i) PROVE MemoryInv'
  BY <1>3, Taken DEF Reject, Status
<1>4. ASSUME NEW c \in Caller, NEW i \in DOMAIN items, MarkStale(c, i) PROVE MemoryInv'
  BY <1>4, Taken DEF MarkStale, Status
<1>5. ASSUME NEW c \in Caller, NEW i \in DOMAIN items, NEW d \in Draft, Supersede(c, i, d)
      PROVE  MemoryInv'
  <2>1. [ids |-> {i}, status |-> "SUPERSEDED"] \in Hold
    <3>1. DOMAIN items \subseteq Nat
      BY DEF MemoryTypeOK
    <3> QED BY <3>1 DEF Hold, Status
  <2>2. hold' \in [Caller -> Hold]
    BY <1>5, <2>1 DEF Supersede, MemoryTypeOK
  <2>3. \A p \in Caller : hold'[p] = IF p = c THEN [ids |-> {i}, status |-> "SUPERSEDED"] ELSE hold[p]
    BY <1>5 DEF Supersede, MemoryTypeOK
  <2> QED BY <1>5, <2>2, <2>3, Grown DEF Supersede
<1>6. ASSUME NEW c \in Caller, Expire(c) PROVE MemoryInv'
  BY <1>6, Taken DEF Expire, Expired, Status
<1>7. ASSUME NEW c \in Caller, Store(c) PROVE MemoryInv'
  BY <1>7, Kept
<1>8. ASSUME NEW c \in Caller, Abandon(c) PROVE MemoryInv'
  <2>1. Free \in Hold /\ Free.ids = {}
    BY DEF Free, Hold, Status
  <2>2. \A p \in Caller : hold'[p] = IF p = c THEN Free ELSE hold[p]
    BY <1>8 DEF Abandon, MemoryTypeOK
  <2>3. hold' \in [Caller -> Hold]
    BY <1>8, <2>1 DEF Abandon, MemoryTypeOK
  <2>4. UNCHANGED <<items, now>> /\ stale' = stale \ {c}
    BY <1>8 DEF Abandon
  <2>5. MemoryTypeOK'
    BY <2>1, <2>2, <2>3, <2>4 DEF MemoryTypeOK
  <2>6. Weighed'
    BY <2>1, <2>2, <2>4 DEF Weighed, Vetted
  <2> QED BY <2>4, <2>5, <2>6 DEF TrustedByGate
<1>9. CASE Tick
  BY <1>9 DEF Tick, MemoryTypeOK, TrustedByGate, Weighed, Vetted
<1>10. CASE UNCHANGED memoryVars
  BY <1>10 DEF memoryVars, MemoryTypeOK, TrustedByGate, Weighed, Vetted
<1> QED BY <1>1, <1>2, <1>3, <1>4, <1>5, <1>6, <1>7, <1>8, <1>9, <1>10 DEF MemoryStep

(* A call that is not stale moves its rows as the status table says.              *)
LEMMA MemoryLived == ASSUME MemoryInv, MemoryStep PROVE MemoryMoves
<1> USE DEF MemoryInv
<1>1. CASE \E c \in Caller : Store(c)
  <2>1. PICK c \in Caller : Store(c)
    BY <1>1
  <2> SUFFICES ASSUME NEW i \in DOMAIN items
               PROVE  Onwards(i) \/ \E p \in stale : i \in hold[p].ids /\ hold'[p].ids = {}
    BY DEF MemoryMoves
  <2>2. items'[i].status = IF i \in hold[c].ids THEN hold[c].status ELSE items[i].status
    BY <2>1, Written
  <2>3. hold'[c].ids = {}
    BY <2>1 DEF Store, Free, MemoryTypeOK
  <2>4. hold[c].status \in Status
    BY DEF MemoryTypeOK, Hold
  <2> QED BY <2>2, <2>3, <2>4 DEF Onwards, Weighed, Status
<1>2. ASSUME NEW d \in Draft, Insert(d) PROVE MemoryMoves
  BY <1>2, Inserted DEF MemoryMoves, Onwards
<1>3. CASE items' = items
  BY <1>3 DEF MemoryMoves, Onwards
<1> QED BY <1>1, <1>2, <1>3
        DEF MemoryStep, Create, Promote, Reject, MarkStale, Supersede, Expire, Take, Abandon, Tick, memoryVars

-------------------------------------------------------------------------------
(* The registry by itself.                                                 *)

Dating ==
  \A c \in Caller :
    call[c].job = "advance" /\ call[c].stage \in {"TRUSTED", "DEGRADED"} => call[c].trusted # Never

Earned(k, t) ==
  /\ t \in Onward[stage[k]]
  /\ t = "TRUSTED" => Len(evaluations[k]) >= TrustMin /\ RateAtLeast(evaluations[k], 3, 4)

Extends(es, k) ==
  /\ Len(es) >= Len(evaluations[k])
  /\ \A i \in 1..Len(evaluations[k]) : es[i] = evaluations[k][i]

Ahead ==
  \A c \in Caller :
    /\ call[c].job # "none" => stage[call[c].skill] # "ABSENT"
    /\ c \notin behind =>
         /\ call[c].job = "append" => Extends(call[c].evaluations, call[c].skill)
         /\ call[c].job = "advance" =>
              stage[call[c].skill] # "SUPERSEDED" /\ Earned(call[c].skill, call[c].stage)
         /\ call[c].job = "retire" => stage[call[c].skill] # "SUPERSEDED"

SkillInv == SkillTypeOK /\ TrustDated /\ Dating /\ Ahead

SkillStep ==
  \/ \E k \in Skill : Register(k)
  \/ \E c \in Caller :
       \/ \E k \in Skill :
            \/ \E g, b \in Nat : Fetch(c, k, g, b)
            \/ \E t \in Stage : Judge(c, k, t)
            \/ JudgeRetired(c, k)
       \/ WriteEvaluations(c) \/ WriteStage(c) \/ WriteRetired(c) \/ Drop(c)
  \/ UNCHANGED skillVars

LEMMA RestTyped == ASSUME NEW k \in Skill PROVE Rest(k) \in Call
BY DEF Rest, Pending, Call, Job, Stage, Never, Moment

LEMMA SkillInit1 == SkillInit => SkillInv
<1>1. (CHOOSE k \in Skill : TRUE) \in Skill
  BY SkillsAssumption
<1> DEFINE idle == Rest(CHOOSE k \in Skill : TRUE)
<1>2. idle \in Call /\ idle.job = "none"
  BY <1>1, RestTyped DEF Rest, Pending
<1> HIDE DEF idle
<1> SUFFICES ASSUME SkillInit PROVE SkillInv
  OBVIOUS
<1>3. call = [c \in Caller |-> idle]
  BY DEF SkillInit, idle
<1>4. SkillTypeOK
  BY <1>2, <1>3 DEF SkillInit, SkillTypeOK, Moment, Never
<1>5. TrustDated
  BY DEF SkillInit, TrustDated
<1>6. \A c \in Caller : call[c].job = "none"
  BY <1>2, <1>3
<1>7. Dating /\ Ahead
  BY <1>6 DEF Dating, Ahead
<1> QED BY <1>4, <1>5, <1>7 DEF SkillInv

LEMMA NothingOnward == Onward["SUPERSEDED"] = {}
BY DEF Onward, Stage

(* A call that has fetched its skill and goes on to write.                        *)
LEMMA Begun ==
  ASSUME SkillInv, NEW c \in Caller, NEW x \in Call,
         call' = [call EXCEPT ![c] = x],
         UNCHANGED <<stage, evaluations, trusted, behind>>, moment' \in Moment,
         x.job # "none", stage[x.skill] # "ABSENT",
         x.job = "append" => Extends(x.evaluations, x.skill),
         x.job = "advance" => stage[x.skill] # "SUPERSEDED" /\ Earned(x.skill, x.stage),
         x.job = "advance" /\ x.stage \in {"TRUSTED", "DEGRADED"} => x.trusted # Never,
         x.job = "retire" => stage[x.skill] # "SUPERSEDED"
  PROVE  SkillInv'
<1> USE DEF SkillInv
<1>1. \A p \in Caller : call'[p] = IF p = c THEN x ELSE call[p]
  BY DEF SkillTypeOK
<1>2. SkillTypeOK'
  BY DEF SkillTypeOK
<1>3. TrustDated'
  BY DEF TrustDated
<1>4. Dating'
  BY <1>1 DEF Dating
<1>5. Ahead'
  BY <1>1 DEF Ahead, Extends, Earned
<1> QED BY <1>2, <1>3, <1>4, <1>5

(* What a call that has returned leaves of the others: who is still ahead does no *)
(* job on the columns it wrote.                                                   *)
LEMMA Returned ==
  ASSUME SkillInv, NEW c \in Caller, NEW jobs, Return(c, jobs)
  PROVE  /\ call' \in [Caller -> Call]
         /\ behind' \in SUBSET Caller
         /\ call'[c].job = "none"
         /\ \A p \in Caller \ {c} :
              /\ call'[p] = call[p]
              /\ p \notin behind' =>
                   p \notin behind /\ (call[p].job \notin jobs \/ call[p].skill # call[c].skill)
<1>1. call \in [Caller -> Call] /\ call[c].skill \in Skill
  BY DEF SkillInv, SkillTypeOK, Call
<1>2. Rest(call[c].skill) \in Call /\ Rest(call[c].skill).job = "none"
  BY <1>1, RestTyped DEF Rest, Pending
<1> QED BY <1>1, <1>2 DEF Return, SkillInv, SkillTypeOK

LEMMA EvaluationsKept == ASSUME SkillInv, NEW c \in Caller, WriteEvaluations(c) PROVE SkillInv'
<1> USE DEF SkillInv
<1> DEFINE k == call[c].skill
<1>1. k \in Skill /\ call[c].evaluations \in Seq(Evaluation)
  BY DEF SkillTypeOK, Call
<1>2. /\ call' \in [Caller -> Call]
      /\ behind' \in SUBSET Caller
      /\ call'[c].job = "none"
      /\ \A p \in Caller \ {c} :
           /\ call'[p] = call[p]
           /\ p \notin behind' =>
                p \notin behind /\ (call[p].job \notin {"append", "advance"} \/ call[p].skill # k)
  BY Returned DEF WriteEvaluations
<1>3. UNCHANGED <<stage, trusted, moment>>
  BY DEF WriteEvaluations
<1>4. evaluations' = [evaluations EXCEPT ![k] = call[c].evaluations]
  BY DEF WriteEvaluations
<1>5. \A j \in Skill : j # k => evaluations'[j] = evaluations[j]
  BY <1>4 DEF SkillTypeOK
<1>6. SkillTypeOK'
  BY <1>1, <1>2, <1>3, <1>4 DEF SkillTypeOK
<1>7. TrustDated' /\ Dating'
  BY <1>2, <1>3 DEF TrustDated, Dating
<1>8. \A p \in Caller : call[p].skill \in Skill
  BY DEF SkillTypeOK, Call
<1>9. Ahead'
  <2> SUFFICES ASSUME NEW p \in Caller, p # c
               PROVE  /\ call[p].job # "none" => stage[call[p].skill] # "ABSENT"
                      /\ p \notin behind' =>
                           /\ call[p].job = "append" => Extends(call[p].evaluations, call[p].skill)'
                           /\ call[p].job = "advance" =>
                                stage[call[p].skill] # "SUPERSEDED"
                                /\ Earned(call[p].skill, call[p].stage)'
                           /\ call[p].job = "retire" => stage[call[p].skill] # "SUPERSEDED"
    BY <1>2, <1>3 DEF Ahead, Extends, Earned
  <2>1. call[p].job # "none" => stage[call[p].skill] # "ABSENT"
    BY DEF Ahead
  <2> SUFFICES ASSUME p \notin behind'
               PROVE  /\ call[p].job = "append" => Extends(call[p].evaluations, call[p].skill)'
                      /\ call[p].job = "advance" =>
                           stage[call[p].skill] # "SUPERSEDED"
                           /\ Earned(call[p].skill, call[p].stage)'
                      /\ call[p].job = "retire" => stage[call[p].skill] # "SUPERSEDED"
    BY <2>1
  <2>2. p \notin behind /\ call'[p] = call[p]
    BY <1>2
  <2>3. call[p].job \in {"append", "advance"} => evaluations'[call[p].skill] = evaluations[call[p].skill]
    BY <1>2, <1>5, <1>8
  <2> QED BY <1>3, <2>2, <2>3 DEF Ahead, Extends, Earned
<1> QED BY <1>6, <1>7, <1>9

(* The two writes of the stage column.                                            *)
LEMMA StageKept ==
  ASSUME SkillInv, NEW c \in Caller, Return(c, {"advance", "retire"}),
         UNCHANGED <<evaluations, moment>>, NEW t \in Stage, NEW m \in Moment,
         stage' = [stage EXCEPT ![call[c].skill] = t],
         trusted' = [trusted EXCEPT ![call[c].skill] = m],
         t \in {"TRUSTED", "DEGRADED"} => m # Never
  PROVE  SkillInv'
<1> USE DEF SkillInv
<1> DEFINE k == call[c].skill
<1>1. \A p \in Caller : call[p].skill \in Skill
  BY DEF SkillTypeOK, Call
<1>2. /\ call' \in [Caller -> Call]
      /\ behind' \in SUBSET Caller
      /\ call'[c].job = "none"
      /\ \A p \in Caller \ {c} :
           /\ call'[p] = call[p]
           /\ p \notin behind' =>
                p \notin behind /\ (call[p].job \notin {"advance", "retire"} \/ call[p].skill # k)
  BY Returned
<1>3. \A j \in Skill : stage'[j] = (IF j = k THEN t ELSE stage[j])
                       /\ trusted'[j] = (IF j = k THEN m ELSE trusted[j])
  BY <1>1 DEF SkillTypeOK
<1>4. SkillTypeOK'
  BY <1>1, <1>2 DEF SkillTypeOK
<1>5. TrustDated'
  BY <1>3 DEF TrustDated
<1>6. Dating'
  BY <1>2 DEF Dating
<1>7. t # "ABSENT"
  BY DEF Stage
<1>8. Ahead'
  <2> SUFFICES ASSUME NEW p \in Caller, p # c
               PROVE  /\ call[p].job # "none" => stage'[call[p].skill] # "ABSENT"
                      /\ p \notin behind' =>
                           /\ call[p].job = "append" => Extends(call[p].evaluations, call[p].skill)'
                           /\ call[p].job = "advance" =>
                                stage'[call[p].skill] # "SUPERSEDED"
                                /\ Earned(call[p].skill, call[p].stage)'
                           /\ call[p].job = "retire" => stage'[call[p].skill] # "SUPERSEDED"
    BY <1>2 DEF Ahead, Extends, Earned
  <2>1. call[p].job # "none" => stage'[call[p].skill] # "ABSENT"
    BY <1>1, <1>3, <1>7 DEF Ahead
  <2>2. p \notin behind' /\ call[p].job \in {"advance", "retire"} =>
          p \notin behind /\ stage'[call[p].skill] = stage[call[p].skill]
    BY <1>1, <1>2, <1>3
  <2>3. call'[p] = call[p] /\ (p \notin behind' => p \notin behind)
    BY <1>2
  <2> QED BY <2>1, <2>2, <2>3 DEF Ahead, Extends, Earned
<1> QED BY <1>4, <1>5, <1>6, <1>8

(* Every call of the registry keeps the invariant.                                *)
LEMMA SkillKept == ASSUME SkillInv, SkillStep PROVE SkillInv'
<1> USE DEF SkillInv
<1>1. ASSUME NEW k \in Skill, Register(k) PROVE SkillInv'
  <2>1. /\ stage[k] = "ABSENT"
        /\ \A j \in Skill : stage'[j] = IF j = k THEN "CANDIDATE" ELSE stage[j]
        /\ UNCHANGED <<evaluations, trusted, moment, call, behind>>
    BY <1>1 DEF Register, SkillTypeOK
  <2>2. \A c \in Caller : call[c].skill \in Skill
    BY DEF SkillTypeOK, Call
  <2>3. SkillTypeOK'
    BY <1>1 DEF Register, SkillTypeOK, Stage
  <2>4. TrustDated' /\ Dating'
    BY <2>1 DEF TrustDated, Dating
  <2>5. \A c \in Caller : call[c].job # "none" => stage'[call[c].skill] = stage[call[c].skill]
    BY <2>1, <2>2 DEF Ahead
  <2>6. \A c \in Caller : call[c].job \in {"append", "advance", "retire"} => call[c].job # "none"
    OBVIOUS
  <2>7. Ahead'
    BY <2>1, <2>5, <2>6 DEF Ahead, Extends, Earned
  <2> QED BY <2>3, <2>4, <2>7
<1>2. ASSUME NEW c \in Caller, NEW k \in Skill, NEW g \in Nat, NEW b \in Nat, Fetch(c, k, g, b)
      PROVE  SkillInv'
  <2> DEFINE es == Append(evaluations[k], [good |-> g, bad |-> b, ran |-> moment])
             x == Pending("append", k, "CANDIDATE", Never, es)
  <2>1. evaluations[k] \in Seq(Evaluation) /\ [good |-> g, bad |-> b, ran |-> moment] \in Evaluation
    BY DEF SkillTypeOK, Evaluation, Moment
  <2>2. es \in Seq(Evaluation) /\ Extends(es, k)
    BY <2>1 DEF Extends
  <2> HIDE DEF es
  <2>3. x \in Call /\ x.job = "append" /\ x.skill = k /\ x.evaluations = es
    BY <2>2 DEF Pending, Call, Job, Stage, Never, Moment
  <2>4. /\ call' = [call EXCEPT ![c] = x]
        /\ UNCHANGED <<stage, evaluations, trusted, behind>>
        /\ moment' \in Moment
        /\ stage[k] # "ABSENT"
    BY <1>2 DEF Fetch, SkillTypeOK, es
  <2> HIDE DEF x
  <2> QED BY <2>2, <2>3, <2>4, Begun
<1>3. ASSUME NEW c \in Caller, NEW k \in Skill, NEW t \in Stage, Judge(c, k, t) PROVE SkillInv'
  <2> DEFINE x == Pending("advance", k, t, TrustedAt(k, t), <<>>)
  <2>1. moment \in Nat /\ trusted[k] \in Nat
    BY DEF SkillTypeOK, Moment
  <2>2. TrustedAt(k, t) \in Moment
    BY <2>1 DEF TrustedAt, Moment
  <2>3. x \in Call /\ x.job = "advance" /\ x.skill = k /\ x.stage = t /\ x.trusted = TrustedAt(k, t)
    <3>1. <<>> \in Seq(Evaluation)
      OBVIOUS
    <3> QED BY <2>2, <3>1 DEF Pending, Call, Job
  <2>4. /\ call' = [call EXCEPT ![c] = x]
        /\ UNCHANGED <<stage, evaluations, trusted, behind>>
        /\ moment' \in Moment
    BY <1>3, <2>1 DEF Judge, Moment
  <2>5. stage[k] # "ABSENT" /\ stage[k] # "SUPERSEDED" /\ Earned(k, t)
    BY <1>3, NothingOnward DEF Judge, Allows, Earned
  <2>6. t = "TRUSTED" => TrustedAt(k, t) # Never
    BY <2>1 DEF TrustedAt, Never
  <2>7. t = "DEGRADED" => TrustedAt(k, t) # Never
    <3>1. t = "DEGRADED" => Len(SinceTrust(k)) >= DegradeMin
      BY <1>3 DEF Judge, Allows
    <3>2. trusted[k] = Never => Len(SinceTrust(k)) = 0
      BY DEF SinceTrust
    <3>3. ~(0 >= DegradeMin)
      BY SkillsAssumption
    <3> QED BY <3>1, <3>2, <3>3 DEF TrustedAt
  <2> HIDE DEF x
  <2> QED BY <2>3, <2>4, <2>5, <2>6, <2>7, Begun
<1>4. ASSUME NEW c \in Caller, NEW k \in Skill, JudgeRetired(c, k) PROVE SkillInv'
  <2> DEFINE x == Pending("retire", k, "SUPERSEDED", Never, <<>>)
  <2>1. x \in Call /\ x.job = "retire" /\ x.skill = k
    <3>1. <<>> \in Seq(Evaluation)
      OBVIOUS
    <3> QED BY <3>1 DEF Pending, Call, Job, Stage, Never, Moment
  <2>2. /\ call' = [call EXCEPT ![c] = x]
        /\ UNCHANGED <<stage, evaluations, trusted, behind>>
        /\ moment' \in Moment
        /\ stage[k] # "ABSENT" /\ stage[k] # "SUPERSEDED"
    BY <1>4 DEF JudgeRetired, SkillTypeOK
  <2> HIDE DEF x
  <2> QED BY <2>1, <2>2, Begun
<1>5. ASSUME NEW c \in Caller, WriteEvaluations(c) PROVE SkillInv'
  BY <1>5, EvaluationsKept
<1>6. ASSUME NEW c \in Caller, WriteStage(c) PROVE SkillInv'
  <2>1. call[c].stage \in Stage /\ call[c].trusted \in Moment
    BY DEF SkillTypeOK, Call
  <2>2. call[c].stage \in {"TRUSTED", "DEGRADED"} => call[c].trusted # Never
    BY <1>6 DEF WriteStage, Dating
  <2> QED BY <1>6, <2>1, <2>2, StageKept DEF WriteStage
<1>7. ASSUME NEW c \in Caller, WriteRetired(c) PROVE SkillInv'
  <2> DEFINE k == call[c].skill
  <2>1. k \in Skill /\ trusted[k] \in Moment
    BY DEF SkillTypeOK, Call
  <2>2. trusted' = [trusted EXCEPT ![k] = trusted[k]]
    BY <1>7, <2>1 DEF WriteRetired, SkillTypeOK
  <2>3. "SUPERSEDED" \in Stage /\ "SUPERSEDED" \notin {"TRUSTED", "DEGRADED"}
    BY DEF Stage
  <2> QED BY <1>7, <2>1, <2>2, <2>3, StageKept DEF WriteRetired
<1>8. ASSUME NEW c \in Caller, Drop(c) PROVE SkillInv'
  <2>1. Rest(call[c].skill) \in Call /\ Rest(call[c].skill).job = "none"
    BY RestTyped DEF SkillTypeOK, Call, Rest, Pending
  <2>2. \A p \in Caller : call'[p] = IF p = c THEN Rest(call[c].skill) ELSE call[p]
    BY <1>8 DEF Drop, SkillTypeOK
  <2>3. call' \in [Caller -> Call]
    BY <1>8, <2>1 DEF Drop, SkillTypeOK
  <2>4. UNCHANGED <<stage, evaluations, trusted, moment>> /\ behind' = behind \ {c}
    BY <1>8 DEF Drop
  <2>5. SkillTypeOK'
    BY <2>3, <2>4 DEF SkillTypeOK
  <2>6. TrustDated' /\ Dating'
    BY <2>1, <2>2, <2>4 DEF TrustDated, Dating
  <2>7. Ahead'
    BY <2>1, <2>2, <2>4 DEF Ahead, Extends, Earned
  <2> QED BY <2>5, <2>6, <2>7
<1>9. CASE UNCHANGED skillVars
  BY <1>9 DEF skillVars, SkillTypeOK, TrustDated, Dating, Ahead, Extends, Earned
<1> QED BY <1>1, <1>2, <1>3, <1>4, <1>5, <1>6, <1>7, <1>8, <1>9 DEF SkillStep

Late(k) == \E c \in behind : LateWrite(c, k)

(* A write by a call that is not behind extends the list, and follows the ladder. *)
LEMMA SkillMoved ==
  ASSUME SkillInv, SkillStep, NEW k \in Skill
  PROVE  (Appends(k) \/ Late(k)) /\ (Climbs(k) \/ Late(k))
<1> USE DEF SkillInv
<1>0. \A c \in Caller : call[c].skill \in Skill
  BY DEF SkillTypeOK, Call
<1>1. ASSUME UNCHANGED evaluations PROVE Appends(k)
  <2>1. Len(evaluations[k]) \in Nat
    BY DEF SkillTypeOK
  <2> QED BY <1>1, <2>1 DEF Appends
<1>2. ASSUME UNCHANGED stage PROVE Climbs(k)
  BY <1>2 DEF Climbs
<1>3. ASSUME NEW j \in Skill, Register(j) PROVE Climbs(k)
  BY <1>3 DEF Register, Climbs, SkillTypeOK
<1>4. ASSUME NEW c \in Caller, WriteEvaluations(c) PROVE Appends(k) \/ Late(k)
  <2>1. call'[c].job = "none"
    BY <1>4, Returned DEF WriteEvaluations
  <2>2. CASE k = call[c].skill
    <3>1. evaluations'[k] = call[c].evaluations /\ call[c].job = "append"
      BY <1>4, <2>2 DEF WriteEvaluations, SkillTypeOK
    <3> QED BY <2>1, <2>2, <3>1 DEF Ahead, Extends, Appends, Late, LateWrite
  <2>3. CASE k # call[c].skill
    <3>1. evaluations'[k] = evaluations[k] /\ Len(evaluations[k]) \in Nat
      BY <1>0, <1>4, <2>3 DEF WriteEvaluations, SkillTypeOK
    <3> QED BY <3>1 DEF Appends
  <2> QED BY <2>2, <2>3
<1>5. ASSUME NEW c \in Caller, WriteStage(c) PROVE Climbs(k) \/ Late(k)
  <2>1. call'[c].job = "none"
    BY <1>5, Returned DEF WriteStage
  <2>2. CASE k = call[c].skill
    <3>1. stage'[k] = call[c].stage /\ call[c].job = "advance"
      BY <1>5, <2>2 DEF WriteStage, SkillTypeOK
    <3> QED BY <2>1, <2>2, <3>1 DEF Ahead, Earned, Climbs, Late, LateWrite
  <2>3. CASE k # call[c].skill
    BY <1>0, <1>5, <2>3 DEF WriteStage, SkillTypeOK, Climbs
  <2> QED BY <2>2, <2>3
<1>6. ASSUME NEW c \in Caller, WriteRetired(c) PROVE Climbs(k) \/ Late(k)
  <2>1. call'[c].job = "none"
    BY <1>6, Returned DEF WriteRetired
  <2>2. CASE k = call[c].skill
    <3>1. stage'[k] = "SUPERSEDED" /\ call[c].job = "retire"
      BY <1>6, <2>2 DEF WriteRetired, SkillTypeOK
    <3> QED BY <2>1, <2>2, <3>1 DEF Ahead, Climbs, Late, LateWrite
  <2>3. CASE k # call[c].skill
    BY <1>0, <1>6, <2>3 DEF WriteRetired, SkillTypeOK, Climbs
  <2> QED BY <2>2, <2>3
<1> QED BY <1>1, <1>2, <1>3, <1>4, <1>5, <1>6
        DEF SkillStep, Register, Fetch, Judge, JudgeRetired, WriteEvaluations, WriteStage,
            WriteRetired, Drop, skillVars

-------------------------------------------------------------------------------
(* The system.                                                             *)

LoopOK ==
  /\ outcomes \in [Subject \cup Skill -> Outcome]
  /\ pc \in [Runner -> Pc]
  /\ known \in [Runner -> SUBSET (Subject \cup {Other})]
  /\ todo \in [Runner -> SUBSET (Subject \cup Skill)]
  /\ written \in [Runner -> Nat]
  /\ mine \in [Runner -> Nat]
  /\ \A r \in Runner : pc[r] \in {"promote", "store"} => mine[r] \in DOMAIN items
  /\ acts \in Nat
  /\ aborts \in Nat
  /\ shared \in SUBSET Runner
  /\ meddled \in SUBSET Subject

IInv == MemoryInv /\ SkillInv /\ LoopOK

(* Every step is one of each store, or leaves that store alone.                   *)
LEMMA Split == ASSUME IInv, [Next]_vars PROVE MemoryStep /\ SkillStep
<1> USE ReflectionAssumption DEF IInv
<1>0. Runner \subseteq Caller /\ Curator \subseteq Caller
  OBVIOUS
<1>1. CASE UNCHANGED vars
  BY <1>1 DEF vars, MemoryStep, SkillStep
<1>2. ASSUME NEW x \in Subject \cup Skill, Record(x) PROVE MemoryStep /\ SkillStep
  BY <1>2 DEF Record, MemoryStep, SkillStep
<1>3. ASSUME NEW r \in Runner, RunStep(r) PROVE MemoryStep /\ SkillStep
  <2>1. CASE Start(r) \/ Derive(r) \/ ListStaged(r) \/ Finish(r)
    BY <2>1 DEF Start, Derive, ListStaged, Finish, MemoryStep, SkillStep
  <2>2. CASE PromoteMine(r)
    <3>1. mine[r] \in DOMAIN items
      BY <2>2 DEF PromoteMine, LoopOK
    <3> QED BY <1>0, <2>2, <3>1 DEF PromoteMine, MemoryStep, SkillStep
  <2>3. CASE StoreMine(r)
    BY <1>0, <2>3 DEF StoreMine, MemoryStep, SkillStep
  <2>4. ASSUME NEW s \in Subject, Skip(r, s) PROVE MemoryStep /\ SkillStep
    BY <2>4 DEF Skip, MemoryStep, SkillStep
  <2>5. ASSUME NEW s \in Subject, Propose(r, s) PROVE MemoryStep /\ SkillStep
    <3>1. Insight(s) \in Draft
      BY DEF Insight, Draft
    <3> QED BY <2>5, <3>1 DEF Propose, MemoryStep, SkillStep
  <2>6. CASE StoreEvaluation(r)
    BY <1>0, <2>6 DEF StoreEvaluation, MemoryStep, SkillStep
  <2>7. ASSUME NEW k \in Skill, Pass(r, k) PROVE MemoryStep /\ SkillStep
    BY <2>7 DEF Pass, MemoryStep, SkillStep
  <2>8. ASSUME NEW k \in Skill, Evaluate(r, k) PROVE MemoryStep /\ SkillStep
    <3>1. outcomes[k].good \in Nat /\ outcomes[k].bad \in Nat
      BY DEF LoopOK, Outcome
    <3> QED BY <1>0, <2>8, <3>1 DEF Evaluate, MemoryStep, SkillStep
  <2> QED BY <1>3, <2>1, <2>2, <2>3, <2>4, <2>5, <2>6, <2>7, <2>8 DEF RunStep
<1>4. ASSUME NEW r \in Runner, PromoteRaises(r) \/ Abort(r) PROVE MemoryStep /\ SkillStep
  BY <1>0, <1>4 DEF PromoteRaises, Abort, MemoryStep, SkillStep
<1>5. ASSUME NEW c \in Curator, CurateMemory(c) PROVE MemoryStep /\ SkillStep
  BY <1>0, <1>5 DEF CurateMemory, Begin, MemoryStep, SkillStep
<1>6. ASSUME NEW c \in Curator, StoreCurated(c) \/ StoreSkill(c) \/ Die(c) PROVE MemoryStep /\ SkillStep
  BY <1>0, <1>6 DEF StoreCurated, StoreSkill, Die, MemoryStep, SkillStep
<1>7. ASSUME NEW c \in Curator, CurateSkills(c) PROVE MemoryStep /\ SkillStep
  <2>1. \A e \in Reports : e[1] \in Nat /\ e[2] \in Nat
    OBVIOUS
  <2> QED BY <1>0, <1>7, <2>1 DEF CurateSkills, MemoryStep, SkillStep
<1>8. CASE Pace
  BY <1>8 DEF Pace, MemoryStep, SkillStep
<1> QED BY <1>1, <1>2, <1>3, <1>4, <1>5, <1>6, <1>7, <1>8 DEF Next

(* Rows are never removed.                                                        *)
LEMMA RowsStay == ASSUME MemoryInv, MemoryStep PROVE DOMAIN items \subseteq DOMAIN items'
<1> USE DEF MemoryInv
<1>1. ASSUME NEW c \in Caller, Store(c) PROVE DOMAIN items \subseteq DOMAIN items'
  BY <1>1, Written
<1>2. ASSUME NEW d \in Draft, Insert(d) PROVE DOMAIN items \subseteq DOMAIN items'
  BY <1>2, Inserted
<1> QED BY <1>1, <1>2
        DEF MemoryStep, Create, Promote, Reject, MarkStale, Supersede, Expire, Take, Abandon, Tick, memoryVars

(* What a run remembers keeps its types, whoever steps.                           *)
LEMMA LoopKept == ASSUME IInv, [Next]_vars PROVE LoopOK'
<1> USE ReflectionAssumption DEF IInv, LoopOK
<1>0. DOMAIN items \subseteq DOMAIN items' /\ items \in Seq(Item)
  BY Split, RowsStay DEF MemoryInv, MemoryTypeOK
<1>1. CASE UNCHANGED vars
  BY <1>0, <1>1 DEF vars, loopVars
<1>2. ASSUME NEW x \in Subject \cup Skill, Record(x) PROVE LoopOK'
  <2>1. outcomes[x].good + 1 \in Nat /\ outcomes[x].bad + 1 \in Nat /\ outcomes[x] \in Outcome
    BY DEF Outcome
  <2>2. outcomes' \in [Subject \cup Skill -> Outcome]
    BY <1>2, <2>1 DEF Record, Outcome
  <2> QED BY <1>0, <1>2, <2>2 DEF Record
<1>3. ASSUME NEW r \in Runner, Start(r) PROVE LoopOK'
  <2>1. \A i \in DOMAIN items : items[i].subject \in Subject \cup {Other}
    <3>1. \A i \in DOMAIN items : items[i] \in Item
      BY <1>0
    <3> QED BY <3>1 DEF Item
  <2>2. KnownSubjects \subseteq Subject \cup {Other}
    BY <2>1 DEF KnownSubjects
  <2>3. pc' \in [Runner -> Pc]
    BY <1>3 DEF Start, Pc
  <2>4. known' \in [Runner -> SUBSET (Subject \cup {Other})]
    BY <1>3, <2>2 DEF Start
  <2>5. shared' \in SUBSET Runner
    BY <1>3 DEF Start
  <2> QED BY <1>0, <1>3, <2>3, <2>4, <2>5 DEF Start
<1>4. ASSUME NEW r \in Runner, Derive(r) \/ ListStaged(r) PROVE LoopOK'
  <2>1. {s \in Subject : Failing(s)} \in SUBSET (Subject \cup Skill)
        /\ {k \in Skill : stage[k] = "STAGED"} \in SUBSET (Subject \cup Skill)
    OBVIOUS
  <2>2. todo' \in [Runner -> SUBSET (Subject \cup Skill)]
    BY <1>4, <2>1 DEF Derive, ListStaged
  <2>3. pc' \in [Runner -> Pc] /\ written' \in [Runner -> Nat]
    BY <1>4 DEF Derive, ListStaged, Pc
  <2> QED BY <1>0, <1>4, <2>2, <2>3 DEF Derive, ListStaged
<1>5. ASSUME NEW r \in Runner, NEW s \in Subject, Skip(r, s) PROVE LoopOK'
  BY <1>0, <1>5 DEF Skip
<1>6. ASSUME NEW r \in Runner, NEW s \in Subject, Propose(r, s) PROVE LoopOK'
  <2>1. Insight(s) \in Draft
    BY DEF Insight, Draft
  <2>2. items' = Append(items, ItemOf(Insight(s)))
    BY <1>6 DEF Propose, Create, Insert
  <2>3. Len(items) + 1 \in Nat /\ Len(items) + 1 \in DOMAIN items'
    BY <1>0, <2>2
  <2>4. mine' \in [Runner -> Nat] /\ mine'[r] \in DOMAIN items'
    BY <1>6, <2>3 DEF Propose
  <2>5. \A q \in Runner \ {r} : mine'[q] = mine[q] /\ pc'[q] = pc[q]
    BY <1>6 DEF Propose
  <2>6. /\ pc' \in [Runner -> Pc] /\ written' \in [Runner -> Nat]
        /\ todo' \in [Runner -> SUBSET (Subject \cup Skill)] /\ meddled' \in SUBSET Subject
    BY <1>6 DEF Propose, Pc
  <2> QED BY <1>0, <1>6, <2>4, <2>5, <2>6 DEF Propose
<1>7. ASSUME NEW r \in Runner, PromoteMine(r) \/ StoreMine(r) PROVE LoopOK'
  BY <1>0, <1>7 DEF PromoteMine, StoreMine, Pc
<1>8. ASSUME NEW r \in Runner, PromoteRaises(r) PROVE LoopOK'
  BY <1>0, <1>8 DEF PromoteRaises, Pc
<1>9. ASSUME NEW r \in Runner, NEW k \in Skill, Pass(r, k) \/ Evaluate(r, k) PROVE LoopOK'
  BY <1>0, <1>9 DEF Pass, Evaluate, Pc
<1>10. ASSUME NEW r \in Runner, StoreEvaluation(r) PROVE LoopOK'
  BY <1>0, <1>10 DEF StoreEvaluation, Pc
<1>11. ASSUME NEW r \in Runner, Finish(r) \/ Abort(r) PROVE LoopOK'
  <2>1. /\ pc' \in [Runner -> Pc] /\ written' \in [Runner -> Nat] /\ mine' \in [Runner -> Nat]
        /\ shared' \in SUBSET Runner
    BY <1>11 DEF Finish, Abort, End, Pc
  <2>2. /\ known' \in [Runner -> SUBSET (Subject \cup {Other})]
        /\ todo' \in [Runner -> SUBSET (Subject \cup Skill)]
    BY <1>11 DEF Finish, Abort, End
  <2>3. \A q \in Runner : pc'[q] \in {"promote", "store"} => mine'[q] \in DOMAIN items'
    BY <1>0, <1>11 DEF Finish, Abort, End
  <2> QED BY <1>11, <2>1, <2>2, <2>3 DEF Finish, Abort
<1>12. ASSUME NEW c \in Curator, CurateMemory(c) PROVE LoopOK'
  <2>1. meddled' \in SUBSET Subject
    BY <1>12 DEF CurateMemory, Begin, About
  <2> QED BY <1>0, <1>12, <2>1 DEF CurateMemory
<1>13. ASSUME NEW c \in Curator, StoreCurated(c) PROVE LoopOK'
  <2>1. meddled' \in SUBSET Subject
    BY <1>13 DEF StoreCurated, About
  <2> QED BY <1>0, <1>13, <2>1 DEF StoreCurated
<1>14. ASSUME NEW c \in Curator, CurateSkills(c) \/ StoreSkill(c) \/ Die(c) PROVE LoopOK'
  BY <1>0, <1>14 DEF CurateSkills, StoreSkill, Die, loopVars
<1>15. CASE Pace
  BY <1>0, <1>15 DEF Pace, loopVars
<1> QED BY <1>1, <1>2, <1>3, <1>4, <1>5, <1>6, <1>7, <1>8, <1>9, <1>10, <1>11, <1>12, <1>13, <1>14,
           <1>15 DEF Next, RunStep

LEMMA InitInv == Init => IInv
<1>1. Init => MemoryInv /\ SkillInv
  BY MemoryInit1, SkillInit1 DEF Init
<1>2. Init => LoopOK
  BY DEF Init, LoopOK, Outcome, Pc
<1> QED BY <1>1, <1>2 DEF IInv

LEMMA StepInv == IInv /\ [Next]_vars => IInv'
BY Split, MemoryKept, SkillKept, LoopKept DEF IInv

(* For any number of runs and users, the columns of both stores and the state of  *)
(* every call and run keep the values they are declared for.                      *)
THEOREM TypeCorrect == Spec => []TypeOK
<1>1. IInv => TypeOK
  BY DEF IInv, MemoryInv, SkillInv, LoopOK, TypeOK
<1> QED BY InitInv, StepInv, <1>1, PTL DEF Spec

(* Nothing is ever trusted in memory, through whatever interleaving of promotions, *)
(* rejections, supersessions and expiries, that the gate would not have accepted. *)
THEOREM TrustNeedsTheGate == Spec => []TrustedByGate
<1>1. IInv => TrustedByGate
  BY DEF IInv, MemoryInv
<1> QED BY InitInv, StepInv, <1>1, PTL DEF Spec

(* A skill that is trusted or degraded says since when.                           *)
THEOREM TrustHasADate == Spec => []TrustDated
<1>1. IInv => TrustDated
  BY DEF IInv, SkillInv
<1> QED BY InitInv, StepInv, <1>1, PTL DEF Spec

(* A memory moves as its status table says, but for a write of a call that judged *)
(* what the row no longer says.                                                   *)
THEOREM MemoriesLive == Spec => MemoryLife
<1>1. IInv /\ [Next]_vars => [MemoryMoves]_vars
  BY Split, MemoryLived DEF IInv
<1> QED BY InitInv, StepInv, <1>1, PTL DEF Spec, MemoryLife

(* No evaluation is lost, but by a call that holds an older list than the row.    *)
THEOREM HistoriesGrow == Spec => HistoryKept
<1>1. IInv /\ [Next]_vars => \A k \in Skill : Appends(k) \/ \E c \in behind : LateWrite(c, k)
  BY Split, SkillMoved DEF IInv, Late
<1> QED BY InitInv, StepInv, <1>1, PTL DEF Spec, HistoryKept

(* A stage follows from the row as it is when it is written, but for a call that  *)
(* judged what the row no longer says.                                            *)
THEOREM LaddersHold == Spec => LadderClimbed
<1>1. IInv /\ [Next]_vars => \A k \in Skill : Climbs(k) \/ \E c \in behind : LateWrite(c, k)
  BY Split, SkillMoved DEF IInv, Late
<1> QED BY InitInv, StepInv, <1>1, PTL DEF Spec, LadderClimbed

(* No process, whatever it overtakes, brings about trust that no gate has given.  *)
THEOREM NoUnearnedTrust == Spec => []TrustEarned
<1>1. TrustedByGate /\ TrustDated => TrustEarned
  BY DEF TrustEarned
<1> QED BY <1>1, TrustNeedsTheGate, TrustHasADate, PTL

(* A skill's record loses nothing and climbs by what it says, but for late writes. *)
THEOREM SkillRecordsHold == Spec => SkillsKept
  BY HistoriesGrow, LaddersHold DEF SkillsKept
-------------------------------------------------------------------------------
(* One insight a subject.                                                  *)

Promoting == {"promote", "store"}
Working == {"propose"} \cup Promoting

(* Runs that overlap are shared, all of them, until they end.                     *)
Alone ==
  /\ \A r \in shared : pc[r] # "idle"
  /\ \A r, p \in Runner : r # p /\ pc[r] # "idle" /\ pc[p] # "idle" => r \in shared

(* A row that is looked up, or that the run which made it is about to promote.    *)
Hopeful(i) == Lookable(items[i]) \/ \E r \in Runner : pc[r] \in Promoting /\ mine[r] = i

(* There is one such row of a subject at most.                                    *)
AtMostOne ==
  \A s \in Subject \ meddled : \A i, j \in DOMAIN items :
    items[i].subject = s /\ Hopeful(i) /\ items[j].subject = s /\ Hopeful(j) => i = j

(* A subject that is noted was so when a run that is alone began, or the run has  *)
(* treated it; the subject of its own row it has.                                 *)
Treated ==
  /\ \A r \in Runner : pc[r] \in Promoting => items[mine[r]].subject \notin todo[r]
  /\ \A r \in Runner \ shared : \A s \in Subject \ meddled :
       Noted(s) /\ s \notin known[r] =>
         pc[r] # "derive" /\ (pc[r] \in Working => s \notin todo[r])

(* A run promotes its own row, a curator only rows of subjects it meddles with.   *)
Holding ==
  /\ \A r \in Runner : hold[r].ids # {} => pc[r] = "store" /\ hold[r].ids = {mine[r]}
  /\ \A c \in Curator : \A i \in hold[c].ids :
       hold[c].status = "ACTIVE" => items[i].subject \in meddled \cup {Other}

OneInv == Alone /\ AtMostOne /\ Treated /\ Holding

LEMMA OneInit == Init => OneInv
<1> SUFFICES ASSUME Init PROVE OneInv
  OBVIOUS
<1>1. /\ DOMAIN items = {} /\ shared = {}
      /\ \A r \in Runner : pc[r] = "idle"
      /\ \A c \in Caller : hold[c].ids = {}
  BY DEF Init, MemoryInit, Free
<1>2. Runner \subseteq Caller /\ Curator \subseteq Caller
  BY ReflectionAssumption
<1>3. Alone /\ AtMostOne /\ Treated
  BY <1>1 DEF Alone, AtMostOne, Treated, Noted, Promoting, Working
<1>4. Holding
  BY <1>1, <1>2 DEF Holding
<1> QED BY <1>3, <1>4 DEF OneInv

(* Rows are added, by curators, of subjects they meddle with; the others stay, and *)
(* none of them becomes one that is looked up.                                    *)
LEMMA Tame ==
  ASSUME IInv, OneInv, UNCHANGED <<pc, known, todo, mine, shared>>, meddled \subseteq meddled',
         DOMAIN items \subseteq DOMAIN items',
         \A i \in DOMAIN items : /\ items'[i].subject = items[i].subject
                                 /\ items[i].subject \in Subject \ meddled' =>
                                      (Lookable(items'[i]) => Lookable(items[i])),
         \A i \in DOMAIN items' : i \in DOMAIN items \/ items'[i].subject \notin Subject \ meddled'
  PROVE  Alone' /\ AtMostOne' /\ Treated'
<1> USE DEF OneInv
<1>1. Alone'
  BY DEF Alone
<1>2. \A r \in Runner : pc[r] \in Promoting => mine[r] \in DOMAIN items
  BY DEF IInv, LoopOK, Promoting
<1>3. \A i \in DOMAIN items : items[i].subject \in Subject \ meddled' => (Hopeful(i)' => Hopeful(i))
  BY DEF Hopeful
<1>4. AtMostOne'
  <2> SUFFICES ASSUME NEW s \in Subject \ meddled', NEW i \in DOMAIN items', NEW j \in DOMAIN items',
                      items'[i].subject = s, Hopeful(i)', items'[j].subject = s, Hopeful(j)'
               PROVE  i = j
    BY DEF AtMostOne
  <2>1. i \in DOMAIN items /\ j \in DOMAIN items /\ s \in Subject \ meddled
    OBVIOUS
  <2>2. items[i].subject = s /\ Hopeful(i) /\ items[j].subject = s /\ Hopeful(j)
    BY <1>3, <2>1
  <2> QED BY <2>1, <2>2 DEF AtMostOne
<1>5. \A s \in Subject \ meddled' : Noted(s)' => Noted(s) /\ s \in Subject \ meddled
  BY DEF Noted
<1>6. Treated'
  <2>1. \A r \in Runner : pc[r] \in Promoting => items'[mine[r]].subject \notin todo[r]
    BY <1>2 DEF Treated
  <2> QED BY <1>5, <2>1 DEF Treated
<1> QED BY <1>1, <1>4, <1>6

(* A step of one run that writes no rows.                                         *)
LEMMA Walks ==
  ASSUME IInv, OneInv, UNCHANGED <<items, meddled>>, NEW r \in Runner,
         \A p \in Runner \ {r} : /\ pc'[p] = pc[p] /\ mine'[p] = mine[p]
                                 /\ known'[p] = known[p] /\ todo'[p] = todo[p],
         \/ /\ pc'[r] \in Working /\ known'[r] = known[r] /\ mine'[r] = mine[r]
            /\ \/ pc[r] = "derive" /\ pc'[r] = "propose"
               \/ pc[r] \in Working /\ todo'[r] \subseteq todo[r]
                  /\ (pc'[r] \in Promoting => pc[r] \in Promoting)
         \/ pc'[r] \in {"idle", "evaluate", "append"}
         \/ pc'[r] = "derive" /\ known'[r] = KnownSubjects,
         \/ shared' = shared /\ pc[r] # "idle" /\ pc'[r] # "idle"
         \/ shared' = shared \ {r} /\ pc'[r] = "idle"
         \/ LET others == {p \in Runner \ {r} : pc[p] # "idle"} IN
            /\ pc[r] = "idle" /\ pc'[r] # "idle"
            /\ shared' = IF others = {} THEN shared ELSE shared \cup others \cup {r}
  PROVE  Alone' /\ AtMostOne' /\ Treated'
<1> USE DEF OneInv
<1>0. shared \subseteq Runner
  BY DEF IInv, LoopOK
<1>1. Alone'
  <2>1. CASE shared' = shared /\ pc[r] # "idle" /\ pc'[r] # "idle"
    BY <1>0, <2>1 DEF Alone
  <2>2. CASE shared' = shared \ {r} /\ pc'[r] = "idle"
    BY <1>0, <2>2 DEF Alone
  <2>3. CASE LET others == {p \in Runner \ {r} : pc[p] # "idle"} IN
             /\ pc[r] = "idle" /\ pc'[r] # "idle"
             /\ shared' = IF others = {} THEN shared ELSE shared \cup others \cup {r}
    <3> DEFINE others == {p \in Runner \ {r} : pc[p] # "idle"}
    <3>1. CASE others = {}
      BY <1>0, <2>3, <3>1 DEF Alone
    <3>2. CASE others # {}
      <4>1. shared' = shared \cup others \cup {r}
        BY <2>3, <3>2
      <4>2. \A p \in shared' : pc'[p] # "idle"
        BY <1>0, <2>3, <4>1 DEF Alone
      <4>3. \A p \in Runner : pc'[p] # "idle" => p \in shared'
        BY <4>1
      <4> QED BY <4>2, <4>3 DEF Alone
    <3> QED BY <3>1, <3>2
  <2> QED BY <2>1, <2>2, <2>3
<1>2. \A p \in Runner : pc'[p] \in Promoting => pc[p] \in Promoting /\ mine'[p] = mine[p] /\ todo'[p] \subseteq todo[p]
  BY DEF Promoting, Working
<1>3. \A i \in DOMAIN items : Hopeful(i)' => Hopeful(i)
  BY <1>2 DEF Hopeful
<1>4. AtMostOne'
  BY <1>3 DEF AtMostOne
<1>5. \A s : Noted(s)' = Noted(s)
  BY DEF Noted
<1>6. \A s : Noted(s) => s \in KnownSubjects
  BY DEF Noted, KnownSubjects
<1>7. \A p \in Runner \ {r} : p \notin shared' => p \notin shared
  OBVIOUS
<1>8. pc[r] # "idle" => (r \notin shared' => r \notin shared \/ pc'[r] = "idle")
  OBVIOUS
<1>9. ASSUME r \notin shared', NEW s \in Subject \ meddled, Noted(s), s \notin known'[r]
      PROVE  pc'[r] # "derive" /\ (pc'[r] \in Working => s \notin todo'[r])
  <2>1. CASE pc'[r] \in Working /\ known'[r] = known[r]
    <3>1. pc[r] # "idle" /\ pc'[r] # "idle" /\ pc'[r] # "derive" /\ r \notin shared
      BY <1>8, <1>9, <2>1 DEF Working, Promoting
    <3>2. pc[r] # "derive" /\ (pc[r] \in Working => s \notin todo[r])
      BY <1>9, <2>1, <3>1 DEF Treated
    <3> QED BY <2>1, <3>1, <3>2 DEF Working, Promoting
  <2>2. CASE pc'[r] \in {"idle", "evaluate", "append"}
    BY <2>2 DEF Working, Promoting
  <2>3. CASE pc'[r] = "derive" /\ known'[r] = KnownSubjects
    BY <1>6, <1>9, <2>3
  <2> QED BY <2>1, <2>2, <2>3
<1>10. Treated'
  <2>1. \A p \in Runner : pc'[p] \in Promoting => items[mine'[p]].subject \notin todo'[p]
    BY <1>2 DEF Treated
  <2>2. ASSUME NEW p \in Runner, p # r, p \notin shared', NEW s \in Subject \ meddled,
               Noted(s), s \notin known'[p]
        PROVE  pc'[p] # "derive" /\ (pc'[p] \in Working => s \notin todo'[p])
    BY <1>7, <2>2 DEF Treated
  <2> QED BY <1>5, <1>9, <2>1, <2>2 DEF Treated
<1> QED BY <1>1, <1>4, <1>10

(* The steps of a run but for those that write a row.                             *)
LEMMA RunKeepsOne ==
  ASSUME IInv, OneInv, NEW r \in Runner,
         \/ Start(r) \/ Derive(r) \/ ListStaged(r) \/ Finish(r) \/ StoreEvaluation(r)
         \/ \E s \in Subject : Skip(r, s)
         \/ \E k \in Skill : Pass(r, k) \/ Evaluate(r, k)
  PROVE  OneInv'
<1> USE DEF Working, Promoting
<1>0. /\ pc \in [Runner -> Pc] /\ known \in [Runner -> SUBSET (Subject \cup {Other})]
      /\ todo \in [Runner -> SUBSET (Subject \cup Skill)] /\ mine \in [Runner -> Nat]
  BY DEF IInv, LoopOK
<1>1. UNCHANGED <<items, hold, meddled>>
  BY DEF Start, Derive, ListStaged, Finish, StoreEvaluation, Skip, Pass, Evaluate, memoryVars
<1>2. Alone' /\ AtMostOne' /\ Treated'
  <2>1. CASE Start(r)
    BY <1>0, <1>1, <2>1, Walks DEF Start
  <2>2. CASE Derive(r)
    BY <1>0, <1>1, <2>2, Walks DEF Derive
  <2>3. CASE ListStaged(r)
    BY <1>0, <1>1, <2>3, Walks DEF ListStaged
  <2>4. CASE Finish(r)
    BY <1>0, <1>1, <2>4, Walks DEF Finish, End
  <2>5. CASE StoreEvaluation(r)
    BY <1>0, <1>1, <2>5, Walks DEF StoreEvaluation
  <2>6. ASSUME NEW s \in Subject, Skip(r, s) PROVE Alone' /\ AtMostOne' /\ Treated'
    BY <1>0, <1>1, <2>6, Walks DEF Skip, Proposing
  <2>7. ASSUME NEW k \in Skill, Pass(r, k) \/ Evaluate(r, k) PROVE Alone' /\ AtMostOne' /\ Treated'
    BY <1>0, <1>1, <2>7, Walks DEF Pass, Evaluate, Evaluating
  <2> QED BY <2>1, <2>2, <2>3, <2>4, <2>5, <2>6, <2>7
<1>3. Holding'
  <2>1. hold[r].ids = {} /\ \A p \in Runner \ {r} : pc'[p] = pc[p] /\ mine'[p] = mine[p]
    BY <1>0 DEF OneInv, Holding, Start, Derive, ListStaged, Finish, End, StoreEvaluation, Skip, Proposing,
                Pass, Evaluate, Evaluating
  <2> QED BY <1>1, <2>1 DEF OneInv, Holding
<1> QED BY <1>2, <1>3 DEF OneInv

(* Judging and abandoning its own row, or ending.                                 *)
LEMMA OwnKeepsOne ==
  ASSUME IInv, OneInv, NEW r \in Runner, PromoteMine(r) \/ PromoteRaises(r) \/ Abort(r)
  PROVE  OneInv'
<1> USE DEF Working, Promoting
<1>0. /\ pc \in [Runner -> Pc] /\ known \in [Runner -> SUBSET (Subject \cup {Other})]
      /\ todo \in [Runner -> SUBSET (Subject \cup Skill)] /\ mine \in [Runner -> Nat]
      /\ hold \in [Caller -> Hold] /\ Runner \subseteq Caller /\ Curator \subseteq Caller
      /\ Runner \cap Curator = {}
  BY ReflectionAssumption DEF IInv, LoopOK, MemoryInv, MemoryTypeOK
<1>1. UNCHANGED <<items, meddled>>
  BY DEF PromoteMine, Promote, Take, PromoteRaises, Abort, Abandon, memoryVars
<1>2. Alone' /\ AtMostOne' /\ Treated'
  <2>1. CASE PromoteMine(r)
    BY <1>0, <1>1, <2>1, Walks DEF PromoteMine
  <2>2. CASE PromoteRaises(r)
    BY <1>0, <1>1, <2>2, Walks DEF PromoteRaises
  <2>3. CASE Abort(r)
    BY <1>0, <1>1, <2>3, Walks DEF Abort, End
  <2> QED BY <2>1, <2>2, <2>3
<1>3. /\ \A c \in Caller \ {r} : hold'[c] = hold[c]
      /\ \A p \in Runner \ {r} : pc'[p] = pc[p] /\ mine'[p] = mine[p]
  BY <1>0 DEF PromoteMine, Promote, Take, PromoteRaises, Abort, Abandon, End, memoryVars
<1>4. hold'[r].ids # {} => pc'[r] = "store" /\ hold'[r].ids = {mine'[r]}
  <2>1. CASE PromoteMine(r)
    BY <1>0, <2>1 DEF PromoteMine, Promote, Take, memoryVars, OneInv, Holding
  <2>2. CASE PromoteRaises(r) \/ Abort(r)
    BY <1>0, <2>2 DEF PromoteRaises, Abort, Abandon, Free
  <2> QED BY <2>1, <2>2
<1>5. Holding'
  BY <1>0, <1>1, <1>3, <1>4 DEF OneInv, Holding
<1> QED BY <1>2, <1>5 DEF OneInv

(* A run proposes what is not noted, unless it is shared; then it meddles.        *)
LEMMA ProposeKeepsOne ==
  ASSUME IInv, OneInv, NEW r \in Runner, NEW s \in Subject, Propose(r, s) PROVE OneInv'
<1> USE DEF Working, Promoting
<1>0. /\ pc \in [Runner -> Pc] /\ known \in [Runner -> SUBSET (Subject \cup {Other})]
      /\ todo \in [Runner -> SUBSET (Subject \cup Skill)] /\ mine \in [Runner -> Nat]
      /\ hold \in [Caller -> Hold] /\ Runner \subseteq Caller /\ Curator \subseteq Caller
      /\ \A c \in Caller : hold[c].ids \subseteq DOMAIN items
      /\ \A p \in Runner : pc[p] \in Promoting => mine[p] \in DOMAIN items
  BY ReflectionAssumption DEF IInv, LoopOK, MemoryInv, MemoryTypeOK
<1>1. /\ pc[r] = "propose" /\ s \in todo[r] /\ s \notin known[r]
      /\ UNCHANGED <<hold, stale, known, shared>> /\ items' = Append(items, ItemOf(Insight(s)))
      /\ \A p \in Runner \ {r} : pc'[p] = pc[p] /\ mine'[p] = mine[p] /\ todo'[p] = todo[p]
      /\ pc'[r] = "promote" /\ todo'[r] = todo[r] \ {s}
      /\ meddled' = IF r \in shared THEN meddled \cup {s} ELSE meddled
  BY <1>0 DEF Propose, Proposing, First, Create, Insert
<1>2. PICK n : /\ n = Len(items) + 1 /\ n \notin DOMAIN items /\ DOMAIN items' = DOMAIN items \cup {n}
               /\ mine'[r] = n /\ items'[n].subject = s /\ ~Lookable(items'[n])
               /\ \A i \in DOMAIN items : items'[i] = items[i]
  <2>1. items \in Seq(Item) /\ ItemOf(Insight(s)).subject = s /\ ~Lookable(ItemOf(Insight(s)))
    BY DEF IInv, MemoryInv, MemoryTypeOK, ItemOf, Insight, Lookable
  <2>2. mine'[r] = Len(items) + 1
    BY <1>0 DEF Propose
  <2> QED BY <1>1, <2>1, <2>2
<1>3. Alone'
  <2>1. shared \subseteq Runner
    BY DEF IInv, LoopOK
  <2> QED BY <1>1, <2>1 DEF OneInv, Alone
<1>4. \A i \in DOMAIN items : Hopeful(i)' => Hopeful(i)
  BY <1>1, <1>2 DEF Hopeful
<1>5. s \notin meddled' => \A i \in DOMAIN items : items[i].subject = s => ~Hopeful(i)
  <2> SUFFICES ASSUME s \notin meddled', NEW i \in DOMAIN items, items[i].subject = s, Hopeful(i)
               PROVE  FALSE
    OBVIOUS
  <2>1. r \notin shared /\ s \notin meddled
    BY <1>1
  <2>2. \A p \in Runner : p # r => pc[p] = "idle"
    BY <1>1, <2>1 DEF OneInv, Alone
  <2>3. Lookable(items[i])
    BY <1>1, <2>2 DEF Hopeful
  <2>4. Noted(s)
    BY <2>3 DEF Noted
  <2> QED BY <1>1, <2>1, <2>4 DEF OneInv, Treated
<1>6. AtMostOne'
  <2> SUFFICES ASSUME NEW u \in Subject \ meddled', NEW i \in DOMAIN items', NEW j \in DOMAIN items',
                      items'[i].subject = u, Hopeful(i)', items'[j].subject = u, Hopeful(j)'
               PROVE  i = j
    BY DEF AtMostOne
  <2>1. u \in Subject \ meddled
    BY <1>1
  <2>2. CASE i \in DOMAIN items /\ j \in DOMAIN items
    BY <1>2, <1>4, <2>1, <2>2 DEF OneInv, AtMostOne
  <2>3. CASE i = n \/ j = n
    BY <1>2, <1>4, <1>5, <2>3
  <2> QED BY <1>2, <2>2, <2>3
<1>7. \A u : Noted(u)' => Noted(u)
  BY <1>2 DEF Noted
<1>8. Treated'
  <2>1. ASSUME NEW p \in Runner, pc'[p] \in Promoting PROVE items'[mine'[p]].subject \notin todo'[p]
    <3>1. CASE p = r
      BY <1>1, <1>2, <3>1
    <3>2. CASE p # r
      BY <1>0, <1>1, <1>2, <2>1, <3>2 DEF OneInv, Treated
    <3> QED BY <3>1, <3>2
  <2>2. ASSUME NEW p \in Runner \ shared, NEW u \in Subject \ meddled', Noted(u)', u \notin known[p]
        PROVE  pc'[p] # "derive" /\ (pc'[p] \in Working => u \notin todo'[p])
    <3>1. pc[p] # "derive" /\ (pc[p] \in Working => u \notin todo[p])
      BY <1>1, <1>7, <2>2 DEF OneInv, Treated
    <3> QED BY <1>1, <3>1
  <2> QED BY <1>1, <2>1, <2>2 DEF Treated
<1>9. Holding'
  <2>1. hold[r].ids = {}
    BY <1>1 DEF OneInv, Holding
  <2> QED BY <1>0, <1>1, <1>2, <2>1 DEF OneInv, Holding
<1> QED BY <1>3, <1>6, <1>8, <1>9 DEF OneInv

(* A run makes its own row one that is looked up; it was hopeful.                 *)
LEMMA StoreKeepsOne == ASSUME IInv, OneInv, NEW r \in Runner, StoreMine(r) PROVE OneInv'
<1> USE DEF Working, Promoting
<1>0. /\ pc \in [Runner -> Pc] /\ hold \in [Caller -> Hold]
      /\ Runner \subseteq Caller /\ Curator \subseteq Caller /\ Runner \cap Curator = {}
      /\ \A c \in Caller : hold[c].ids \subseteq DOMAIN items
      /\ \A p \in Runner : pc[p] \in Promoting => mine[p] \in DOMAIN items
  BY ReflectionAssumption DEF IInv, LoopOK, MemoryInv, MemoryTypeOK
<1>1. /\ pc[r] = "store" /\ pc'[r] = "propose" /\ hold[r].ids = {mine[r]} /\ mine[r] \in DOMAIN items
      /\ UNCHANGED <<known, todo, mine, shared, meddled>> /\ hold'[r] = Free
      /\ \A p \in Runner \ {r} : pc'[p] = pc[p]
      /\ \A c \in Caller \ {r} : hold'[c] = hold[c]
  BY <1>0 DEF StoreMine, Store, OneInv, Holding
<1>2. /\ DOMAIN items' = DOMAIN items
      /\ \A i \in DOMAIN items : /\ items'[i].subject = items[i].subject
                                 /\ i # mine[r] => items'[i].status = items[i].status
  <2>1. MemoryTypeOK /\ r \in Caller /\ Store(r)
    BY <1>0 DEF StoreMine, IInv, MemoryInv
  <2> QED BY <1>1, <2>1, Written
<1>3. Alone'
  <2>1. shared \subseteq Runner
    BY DEF IInv, LoopOK
  <2> QED BY <1>1, <2>1 DEF OneInv, Alone
<1>4. \A i \in DOMAIN items : Hopeful(i)' => Hopeful(i)
  BY <1>1, <1>2 DEF Hopeful, Lookable
<1>5. AtMostOne'
  BY <1>1, <1>2, <1>4 DEF OneInv, AtMostOne
<1>6. \A u : Noted(u)' => Noted(u) \/ u = items[mine[r]].subject
  BY <1>1, <1>2 DEF Noted, Lookable
<1>7. Treated'
  <2>1. \A p \in Runner : pc'[p] \in Promoting => items'[mine[p]].subject \notin todo[p]
    BY <1>0, <1>1, <1>2 DEF OneInv, Treated
  <2>2. ASSUME NEW p \in Runner \ shared, NEW u \in Subject \ meddled, Noted(u)', u \notin known[p]
        PROVE  pc'[p] # "derive" /\ (pc'[p] \in Working => u \notin todo[p])
    <3>1. CASE p = r
      BY <1>1, <1>6, <2>2, <3>1 DEF OneInv, Treated
    <3>2. CASE p # r
      BY <1>1, <3>2 DEF OneInv, Alone
    <3> QED BY <3>1, <3>2
  <2> QED BY <1>1, <2>1, <2>2 DEF Treated
<1>8. Holding'
  <2>1. \A c \in Caller : hold'[c] = hold[c] \/ hold'[c].ids = {}
    BY <1>1 DEF Free
  <2>2. \A p \in Runner : hold'[p].ids # {} => pc'[p] = "store" /\ hold'[p].ids = {mine[p]}
    BY <1>0, <1>1 DEF OneInv, Holding, Free
  <2>3. \A c \in Curator : \A i \in hold'[c].ids :
          hold'[c].status = "ACTIVE" => items'[i].subject \in meddled \cup {Other}
    BY <1>0, <1>2, <2>1 DEF OneInv, Holding
  <2> QED BY <1>1, <2>2, <2>3 DEF Holding
<1> QED BY <1>3, <1>5, <1>7, <1>8 DEF OneInv

(* What a curator begins: a row or a promotion it meddles with, or a write that    *)
(* makes nothing one that is looked up.                                           *)
LEMMA CurateKeepsOne == ASSUME IInv, OneInv, NEW c \in Curator, CurateMemory(c) PROVE OneInv'
<1>0. /\ hold \in [Caller -> Hold] /\ c \in Caller /\ c \notin Runner
      /\ Runner \subseteq Caller /\ Curator \subseteq Caller
      /\ \A p \in Caller : hold[p].ids \subseteq DOMAIN items
      /\ MemoryTypeOK /\ \A i \in DOMAIN items : items[i].subject \in Subject \cup {Other}
  <2>1. MemoryTypeOK
    BY DEF IInv, MemoryInv
  <2>2. \A i \in DOMAIN items : items[i] \in Item
    BY <2>1 DEF MemoryTypeOK
  <2> QED BY <2>1, <2>2, ReflectionAssumption DEF MemoryTypeOK, Item
<1>1. UNCHANGED <<pc, known, todo, mine, shared>> /\ Begin(c)
  BY DEF CurateMemory
<1>2. ASSUME NEW d \in Drafts, Insert(d), meddled' = meddled \cup ({d.subject} \cap Subject),
             \/ hold' = hold
             \/ \E i \in DOMAIN items :
                  hold' = [hold EXCEPT ![c] = [ids |-> {i}, status |-> "SUPERSEDED"]]
      PROVE  OneInv'
  <2>1. d \in Draft
    BY ReflectionAssumption
  <2>2. /\ DOMAIN items \subseteq DOMAIN items'
        /\ \A i \in DOMAIN items : items'[i] = items[i]
        /\ \A i \in DOMAIN items' : i \in DOMAIN items \/ items'[i] = ItemOf(d)
    BY <1>0, <1>2, <2>1, Inserted
  <2>3. ItemOf(d).subject = d.subject
    BY DEF ItemOf
  <2>4. Alone' /\ AtMostOne' /\ Treated'
    BY <1>1, <1>2, <2>2, <2>3, Tame
  <2>5. \A p \in Caller : hold'[p] = hold[p] \/ (p = c /\ hold'[p].status = "SUPERSEDED")
    BY <1>0, <1>2
  <2>6. Holding'
    BY <1>0, <1>1, <1>2, <2>2, <2>5 DEF OneInv, Holding
  <2> QED BY <2>4, <2>6 DEF OneInv
<1>3. ASSUME NEW ids, NEW t, Take(c, ids, t), meddled \subseteq meddled',
             t = "ACTIVE" => \A i \in ids : items[i].subject \in meddled' \cup {Other}
      PROVE  OneInv'
  <2>1. items' = items /\ hold' = [hold EXCEPT ![c] = [ids |-> ids, status |-> t]]
    BY <1>3 DEF Take
  <2>2. Alone' /\ AtMostOne' /\ Treated'
    BY <1>1, <1>3, <2>1, Tame
  <2>3. \A p \in Caller : hold'[p] = IF p = c THEN [ids |-> ids, status |-> t] ELSE hold[p]
    BY <1>0, <2>1
  <2>4. Holding'
    BY <1>0, <1>1, <1>3, <2>1, <2>3 DEF OneInv, Holding
  <2> QED BY <2>2, <2>4 DEF OneInv
<1>4. CASE \E d \in Drafts : Unheld(c) /\ Create(d) /\ meddled' = meddled \cup ({d.subject} \cap Subject)
  BY <1>2, <1>4 DEF Create
<1>5. ASSUME NEW i \in DOMAIN items, Promote(c, i), meddled' = meddled \cup About({i}) PROVE OneInv'
  <2>1. items[i].subject \in meddled' \cup {Other}
    BY <1>0, <1>5 DEF About
  <2> QED BY <1>3, <1>5, <2>1 DEF Promote
<1>6. ASSUME NEW i \in DOMAIN items, Reject(c, i) \/ MarkStale(c, i), meddled' = meddled PROVE OneInv'
  BY <1>3, <1>6 DEF Reject, MarkStale
<1>7. ASSUME NEW i \in DOMAIN items, NEW d \in Drafts, Supersede(c, i, d),
             meddled' = meddled \cup ({d.subject} \cap Subject)
      PROVE  OneInv'
  BY <1>2, <1>7 DEF Supersede
<1>8. CASE Expire(c) /\ UNCHANGED meddled
  BY <1>3, <1>8 DEF Expire
<1> QED BY <1>1, <1>4, <1>5, <1>6, <1>7, <1>8 DEF Begin

(* What a curator writes, or leaves unwritten.                                    *)
LEMMA CuratedKeepsOne ==
  ASSUME IInv, OneInv, NEW c \in Curator, StoreCurated(c) \/ Die(c) PROVE OneInv'
<1>0. /\ hold \in [Caller -> Hold] /\ c \in Caller /\ c \notin Runner
      /\ Runner \subseteq Caller /\ Curator \subseteq Caller /\ MemoryInv /\ MemoryTypeOK
      /\ \A p \in Caller : hold[p].ids \subseteq DOMAIN items
  BY ReflectionAssumption DEF IInv, MemoryInv, MemoryTypeOK
<1>1. /\ UNCHANGED <<pc, known, todo, mine, shared>>
      /\ \A p \in Caller : hold'[p] = IF p = c THEN Free ELSE hold[p]
  BY <1>0 DEF StoreCurated, Store, Die, Abandon, loopVars
<1>2. /\ DOMAIN items' = DOMAIN items /\ meddled \subseteq meddled'
      /\ \A i \in DOMAIN items : /\ items'[i].subject = items[i].subject
                                 /\ items[i].subject \in Subject \ meddled' =>
                                      (Lookable(items'[i]) => Lookable(items[i]))
  <2>1. CASE Die(c)
    BY <2>1 DEF Die, Abandon, loopVars
  <2>2. CASE StoreCurated(c)
    <3>1. Store(c) /\ meddled' = IF c \in stale THEN meddled \cup About(hold[c].ids) ELSE meddled
      BY <2>2 DEF StoreCurated
    <3>2. /\ DOMAIN items' = DOMAIN items
          /\ \A i \in DOMAIN items :
               /\ items'[i].subject = items[i].subject
               /\ items'[i].status = IF i \in hold[c].ids THEN hold[c].status ELSE items[i].status
      BY <1>0, <3>1, Written
    <3>3. ASSUME NEW i \in DOMAIN items, items[i].subject \in Subject \ meddled', Lookable(items'[i])
          PROVE  Lookable(items[i])
      <4>1. CASE i \notin hold[c].ids
        BY <3>2, <3>3, <4>1 DEF Lookable
      <4>2. CASE i \in hold[c].ids
        <5>1. c \notin stale
          BY <3>1, <3>3, <4>2 DEF About
        <5>2. hold[c].status # "ACTIVE"
          BY <3>1, <3>3, <4>2, MemoryAssumption DEF OneInv, Holding, Other
        <5>3. hold[c].status = "STALE"
          BY <3>2, <3>3, <4>2, <5>2 DEF Lookable
        <5> QED BY <1>0, <4>2, <5>1, <5>3 DEF MemoryInv, Weighed, Lookable
      <4> QED BY <4>1, <4>2
    <3> QED BY <3>1, <3>2, <3>3
  <2> QED BY <2>1, <2>2
<1>3. Alone' /\ AtMostOne' /\ Treated'
  BY <1>1, <1>2, Tame
<1>4. Holding'
  BY <1>0, <1>1, <1>2 DEF OneInv, Holding, Free
<1> QED BY <1>3, <1>4 DEF OneInv

LEMMA OneStep == IInv /\ OneInv /\ [Next]_vars => OneInv'
<1> SUFFICES ASSUME IInv, OneInv, [Next]_vars PROVE OneInv'
  OBVIOUS
<1>1. ASSUME UNCHANGED <<items, hold, pc, known, todo, mine, shared, meddled>> PROVE OneInv'
  BY <1>1 DEF OneInv, Alone, AtMostOne, Hopeful, Treated, Noted, Holding
<1>2. CASE UNCHANGED vars
  BY <1>1, <1>2 DEF vars, memoryVars, loopVars
<1>3. ASSUME NEW x \in Subject \cup Skill, Record(x) PROVE OneInv'
  BY <1>1, <1>3 DEF Record, memoryVars
<1>4. ASSUME NEW r \in Runner, RunStep(r) \/ PromoteRaises(r) \/ Abort(r) PROVE OneInv'
  BY <1>4, RunKeepsOne, OwnKeepsOne, ProposeKeepsOne, StoreKeepsOne DEF RunStep
<1>5. ASSUME NEW c \in Curator, CurateSkills(c) \/ StoreSkill(c) PROVE OneInv'
  BY <1>1, <1>5 DEF CurateSkills, StoreSkill, memoryVars, loopVars
<1>6. ASSUME NEW c \in Curator, CurateMemory(c) \/ StoreCurated(c) \/ Die(c) PROVE OneInv'
  BY <1>6, CurateKeepsOne, CuratedKeepsOne
<1>7. CASE Pace
  BY <1>1, <1>7 DEF Pace, Tick, loopVars
<1> QED BY <1>2, <1>3, <1>4, <1>5, <1>6, <1>7 DEF Next

(* OneInsight: a subject has one memory that can be looked up, however often the   *)
(* loop runs and wherever it is cut short, unless two runs overlap or a user writes *)
(* about it (learning.py run(), _known_fingerprints()).                           *)
THEOREM InsightsAreSingle == Spec => []OneInsight
<1>1. OneInv => OneInsight
  BY DEF OneInv, AtMostOne, OneInsight, Hopeful
<1>2. IInv /\ OneInv /\ [Next]_vars => IInv' /\ OneInv'
  BY StepInv, OneStep
<1> QED BY InitInv, OneInit, <1>1, <1>2, PTL DEF Spec
===============================================================================

-------------------------- MODULE OrchestratorProofs --------------------------
(***************************************************************************)
(* For every plan, pool and number of rounds: the types, and that no       *)
(* runner starts on missing evidence.  The invariant behind the second:    *)
(* what has been classified as runnable keeps its dependencies completed,  *)
(* because a result is only ever written for a node whose layer the loop   *)
(* has reached, and only once.  That every node has a layer, later than    *)
(* those of its dependencies and among those the loop goes through, is a   *)
(* fact of the graph: a node without one would have a dependency without   *)
(* one, and so on, but a finite graph that is in order has a first.  With  *)
(* it a node fails for a cause, and a report is complete.  The slots of    *)
(* the pool have an invariant of their own.                                *)
(***************************************************************************)
EXTENDS Orchestrator, FiniteSetTheorems, FunctionTheorems, TLAPS

\* The coroutine of n was created: its dependencies were looked at.
Created(n) == st[n] \in {"ready", "waiting", "running"}

\* The loop has not come to the layer of n.
Ahead(n) ==
  \A k \in Nat : k < layer \/ (k = layer /\ phase \notin {"new", "refused", "classify"}) =>
    LayerOf[n] # k

Fresh(n) == st[n] = "new" /\ result[n] = "none" /\ n \notin ran

\* Nodes not reached are untouched; nodes at work have no result and full evidence;
\* so have the nodes that ran.
Progress ==
  \A n \in Node :
    /\ phase = "new" => Fresh(n)
    /\ phase \in {"classify", "gather"} /\ Ahead(n) => Fresh(n)
    /\ Created(n) => result[n] = "none"
    /\ Created(n) \/ n \in ran => deps[n] \subseteq Completed
    /\ phase \in {"new", "classify"} => ~Created(n)
    /\ phase = "gather" /\ Created(n) => LayerOf[n] = layer

Inv == TypeOK /\ Progress

(* The lengths WakeUp works with stay inside the queue.                           *)
LEMMA WakeUpType ==
  ASSUME queue \in Seq(Node), woken \subseteq Node, NEW free \in Nat, NEW resumed,
         WakeUp(free, resumed)
  PROVE  value' \in Nat /\ queue' \in Seq(Node) /\ woken' \subseteq Node
<1>1. Len(queue) \in Nat
  OBVIOUS
<1>2. Handed(free) \in Nat /\ Handed(free) <= free /\ Handed(free) <= Len(queue)
  BY <1>1 DEF Handed
<1>3. value' \in Nat
  BY <1>2 DEF WakeUp
<1>4. queue' \in Seq(Node)
  BY <1>1, <1>2 DEF WakeUp
<1>5. \A k \in 1 .. Handed(free) : queue[k] \in Node
  BY <1>1, <1>2
<1>6. woken' \subseteq Node
  BY <1>5 DEF WakeUp
<1> QED BY <1>3, <1>4, <1>6

LEMMA TypeStep == ASSUME TypeOK, [Next]_vars PROVE TypeOK'
<1> USE PoolAssumption, OrchestratorAssumption, NodeAssumption
<1>1. CASE UNCHANGED vars
  BY <1>1 DEF TypeOK, vars
<1>2. CASE Launch
  BY <1>2 DEF TypeOK, Launch, pool, plan, Phase
<1>3. CASE Classify
  BY <1>3 DEF TypeOK, Classify, pool, plan, Phase, Stage, Result
<1>4. CASE EndLayer
  BY <1>4 DEF TypeOK, EndLayer, pool, plan, Phase
<1>5. CASE Cancel
  <2>1. Cardinality(woken) \in Nat /\ Cardinality(live) \in Nat
    BY FS_Subset, FS_CardinalityType DEF TypeOK
  <2>2. <<>> \in Seq(Node)
    OBVIOUS
  <2> QED BY <1>5, <2>1, <2>2 DEF TypeOK, Cancel, CancelAll, plan, Phase, Stage
<1>6. CASE Again
  BY <1>6 DEF TypeOK, Again, pool, plan, Phase, Stage, Result
<1>7. ASSUME NEW n \in Node, NodeStep(n) \/ RecordRaises(n) PROVE TypeOK'
  <2>1. CASE Begin(n)
    <3>1. CASE AdmitAtOnce(n)
      BY <2>1, <3>1 DEF TypeOK, Begin, AdmitAtOnce, Enqueue, Locked, Register, plan, pool, Stage, Result
    <3>2. CASE Enqueue(n)
      <4>1. queue' \in Seq(Node)
        BY <3>2 DEF TypeOK, Enqueue
      <4> QED BY <2>1, <3>2, <4>1 DEF TypeOK, Begin, AdmitAtOnce, Enqueue, Register, plan, pool, Stage, Result
    <3>3. CASE Exhausted
      BY <2>1, <3>3 DEF TypeOK, Begin, AdmitAtOnce, Enqueue, plan, pool, Stage, Result
    <3> QED BY <2>1, <3>1, <3>2, <3>3 DEF Begin
  <2>2. CASE Resume(n)
    <3>1. value' \in Nat /\ queue' \in Seq(Node) /\ woken' \subseteq Node
      BY <2>2, WakeUpType DEF Resume, AdmitWoken, TypeOK
    <3> QED BY <2>2, <3>1 DEF TypeOK, Resume, AdmitWoken, Register, plan, Stage
  <2>3. CASE Finish(n)
    <3>1. value' \in Nat /\ queue' \in Seq(Node) /\ woken' \subseteq Node
      <4>1. value + 1 \in Nat
        BY DEF TypeOK
      <4> QED BY <2>3, <4>1, WakeUpType DEF Finish, Release, TypeOK
    <3> QED BY <2>3, <3>1 DEF TypeOK, Finish, Release, plan, Stage, Result
  <2>4. CASE RecordRaises(n)
    BY <2>4 DEF TypeOK, RecordRaises, Leak, plan, Stage, Phase
  <2> QED BY <1>7, <2>1, <2>2, <2>3, <2>4 DEF NodeStep
<1> QED BY <1>1, <1>2, <1>3, <1>4, <1>5, <1>6, <1>7 DEF Next, Step

(* A plan does not change, and neither do its layers.                             *)
LEMMA PlanFixed == ASSUME [Next]_vars PROVE deps' = deps /\ LayerOf' = LayerOf
<1>1. deps' = deps
  BY DEF Next, vars, Step, Launch, Classify, EndLayer, Cancel, Again, NodeStep, Begin, Resume,
         Finish, RecordRaises, plan
<1> QED BY <1>1 DEF LayerOf, Largest

LEMMA ProgressStep == ASSUME TypeOK, Progress, [Next]_vars PROVE Progress'
<1> DEFINE ProgressOf(n) ==
      /\ phase = "new" => Fresh(n)
      /\ phase \in {"classify", "gather"} /\ Ahead(n) => Fresh(n)
      /\ Created(n) => result[n] = "none"
      /\ Created(n) \/ n \in ran => deps[n] \subseteq Completed
      /\ phase \in {"new", "classify"} => ~Created(n)
      /\ phase = "gather" /\ Created(n) => LayerOf[n] = layer
<1> SUFFICES ASSUME NEW m \in Node PROVE ProgressOf(m)'
  BY DEF Progress
<1>0. \A n \in Node : ProgressOf(n)
  BY DEF Progress
<1>P. deps' = deps /\ LayerOf' = LayerOf
  BY PlanFixed
<1>L. layer \in Nat
  BY DEF TypeOK
<1>1. CASE UNCHANGED vars
  BY <1>0, <1>1, <1>P DEF vars, Fresh, Ahead, Created, Completed
<1>2. CASE Launch
  BY <1>0, <1>2, <1>P DEF Launch, Fresh, Ahead, Created, Completed
<1>3. CASE Classify
  <2>1. Ahead(m)' => LayerOf[m] # layer /\ Ahead(m)
    BY <1>3, <1>P, <1>L DEF Classify, Ahead
  <2>2. \A n \in Layer(layer) : Ahead(n)
    BY <1>3, <1>L DEF Classify, Layer, Ahead
  <2>3. \A n \in Layer(layer) : result[n] = "none" /\ n \notin ran
    BY <1>0, <1>3, <2>2 DEF Classify, Fresh, Layer
  <2>4. Completed' = Completed
    BY <1>3, <2>3 DEF Classify, Completed, TypeOK
  <2>5. m \notin Layer(layer) => result'[m] = result[m] /\ st'[m] = st[m]
    BY <1>3 DEF Classify
  <2>6. m \in Layer(layer) /\ ~Blocked(m) => result'[m] = result[m] /\ st'[m] = "ready"
    BY <1>3 DEF Classify
  <2>7. m \in Layer(layer) /\ Blocked(m) => st'[m] = "done"
    BY <1>3 DEF Classify
  <2>8. ran' = ran /\ phase' = "gather"
    BY <1>3 DEF Classify
  <2>9. Ahead(m)' => Fresh(m)'
    <3>1. Ahead(m)' => m \notin Layer(layer)
      BY <2>1 DEF Layer
    <3> QED BY <1>0, <1>3, <2>1, <2>5, <2>8, <3>1 DEF Classify, Fresh
  <2> QED
    BY <1>0, <1>3, <1>P, <2>3, <2>4, <2>5, <2>6, <2>7, <2>8, <2>9 DEF Created, Blocked, Classify, Layer
<1>4. CASE EndLayer
  <2>1. /\ st' = st /\ result' = result /\ ran' = ran
        /\ phase' \in {"classify", "reported"} /\ phase = "gather"
    BY <1>4 DEF EndLayer
  <2>2. phase' = "classify" => layer' = layer + 1
    BY <1>4 DEF EndLayer
  <2>3. phase' = "classify" /\ Ahead(m)' => Ahead(m)
    BY <1>P, <1>L, <2>1, <2>2 DEF Ahead
  <2>4. ~Created(m)
    <3>1. SUFFICES ASSUME Created(m) PROVE FALSE
      OBVIOUS
    <3>2. m \in Layer(layer)
      BY <1>0, <2>1, <3>1 DEF Layer
    <3> QED BY <1>4, <3>1, <3>2 DEF EndLayer, Created
  <2> QED BY <1>0, <1>P, <2>1, <2>3, <2>4 DEF Created, Fresh, Completed
<1>5. CASE Cancel
  BY <1>0, <1>5, <1>P DEF Cancel, Created, Completed, TypeOK
<1>6. CASE Again
  BY <1>0, <1>6, <1>P DEF Again, Created, Completed, Fresh, TypeOK
<1>7. ASSUME NEW n \in Node, NodeStep(n) \/ RecordRaises(n) PROVE ProgressOf(m)'
  <2>1. Created(n) /\ result[n] = "none" /\ layer' = layer
    BY <1>0, <1>7 DEF NodeStep, Begin, Resume, Finish, RecordRaises, Created
  <2>2. m # n => st'[m] = st[m] /\ result'[m] = result[m] /\ (m \in ran' <=> m \in ran)
    BY <1>7 DEF NodeStep, Begin, Resume, Finish, RecordRaises, TypeOK
  <2>3. Completed \subseteq Completed'
    BY <1>7, <2>1 DEF NodeStep, Begin, Resume, Finish, RecordRaises, Completed, TypeOK
  <2>4. n \in ran' => deps[n] \subseteq Completed
    BY <1>0, <2>1 DEF Created
  <2>5. Created(n)' => result'[n] = "none"
    BY <1>7, <2>1 DEF NodeStep, Begin, Resume, Finish, RecordRaises, Created, TypeOK
  <2>6. phase' = phase \/ phase' = "raised"
    BY <1>7 DEF NodeStep, Begin, Resume, Finish, RecordRaises
  <2>7. phase \notin {"new", "classify"}
    BY <1>0, <2>1
  <2>8. CASE m = n
    <3>1. phase' = "gather" /\ Ahead(n)' => FALSE
      BY <1>0, <1>P, <1>L, <2>1, <2>6 DEF Ahead
    <3> QED BY <1>0, <1>P, <2>1, <2>3, <2>4, <2>5, <2>6, <2>7, <2>8, <3>1 DEF Created
  <2>9. CASE m # n
    <3>1. phase' = phase /\ Ahead(m)' => Ahead(m)
      BY <1>P, <2>1 DEF Ahead
    <3> QED BY <1>0, <1>P, <2>1, <2>2, <2>3, <2>6, <2>7, <2>9, <3>1 DEF Created, Fresh
  <2> QED BY <2>8, <2>9
<1> QED BY <1>1, <1>2, <1>3, <1>4, <1>5, <1>6, <1>7 DEF Next, Step

LEMMA InitInv == Init => Inv
<1> USE PoolAssumption, OrchestratorAssumption
<1>1. Init => TypeOK
  BY DEF Init, PoolInit, TypeOK, Phase, Stage, Result
<1>2. Init => Progress
  BY DEF Init, Progress, Fresh, Created
<1> QED BY <1>1, <1>2 DEF Inv

LEMMA StepInv == Inv /\ [Next]_vars => Inv'
BY TypeStep, ProgressStep DEF Inv

(* Types, for every plan and pool size.                                           *)
THEOREM TypeCorrect == Spec => []TypeOK
<1>1. Inv => TypeOK
  BY DEF Inv
<1> QED BY InitInv, StepInv, <1>1, PTL DEF Spec

(* No runner starts on missing evidence, for every plan, pool and number of calls, *)
(* in cancelled and failed calls too.                                             *)
THEOREM RunsOnEvidence == Spec => []EvidenceFirst
<1>1. Inv => EvidenceFirst
  BY DEF Inv, Progress, EvidenceFirst, TypeOK
<1> QED BY InitInv, StepInv, <1>1, PTL DEF Spec

-------------------------------------------------------------------------------
(* The slots.                                                              *)

\* A coroutine waits at one place: in the queue, once, or woken; and it holds a slot
\* exactly while its runner runs.
Queued ==
  /\ \A k \in 1 .. Len(queue) : st[queue[k]] = "waiting" /\ queue[k] \notin woken
  /\ \A j, k \in 1 .. Len(queue) : queue[j] = queue[k] => j = k
  /\ \A n \in woken : st[n] = "waiting"
  /\ live = {n \in Node : st[n] = "running"}

Balance == value + Cardinality(woken) + Cardinality(live) + leaked = MaxConcurrent
NobodyForgotten == queue # <<>> /\ value > 0 => woken # {}

Slots == Queued /\ Balance /\ NobodyForgotten

LEMMA NodesFinite ==
  ASSUME NEW S \in SUBSET Node
  PROVE  IsFiniteSet(S) /\ Cardinality(S) \in Nat
BY NodeAssumption, FS_Subset, FS_CardinalityType

(* The first h waiters of the queue are h nodes.                                  *)
LEMMA FrontOfQueue ==
  ASSUME queue \in Seq(Node), NEW h \in 0 .. Len(queue),
         \A j, k \in 1 .. Len(queue) : queue[j] = queue[k] => j = k
  PROVE  Cardinality({queue[k] : k \in 1 .. h}) = h
<1> DEFINE Front == {queue[k] : k \in 1 .. h}
           f == [k \in 1 .. h |-> queue[k]]
<1>1. h \in Nat /\ 1 .. h \subseteq 1 .. Len(queue)
  OBVIOUS
<1>2. f \in [1 .. h -> Front]
  OBVIOUS
<1>3. \A a, b \in 1 .. h : f[a] = f[b] => a = b
  BY <1>1
<1>4. \A t \in Front : \E a \in 1 .. h : f[a] = t
  OBVIOUS
<1>5. f \in Bijection(1 .. h, Front)
  BY <1>2, <1>3, <1>4, Fun_IsBij
<1>6. ExistsBijection(1 .. h, Front)
  BY <1>5, Fun_ExistsBij
<1> QED BY <1>1, <1>6, FS_CountingElements

(* WakeUp moves free slots to waiters and loses none; nobody it leaves in the     *)
(* queue has a free slot in front of it.                                          *)
LEMMA WakeUpKeeps ==
  ASSUME TypeOK, Queued, NEW free \in Nat, NEW resumed \in SUBSET woken, WakeUp(free, resumed)
  PROVE  /\ value' + Cardinality(woken') = free + Cardinality(woken \ resumed)
         /\ NobodyForgotten'
         /\ \A k \in 1 .. Len(queue') : \E j \in 1 .. Len(queue) : queue'[k] = queue[j]
         /\ \A k \in 1 .. Len(queue') : queue'[k] \notin woken'
         /\ \A j, k \in 1 .. Len(queue') : queue'[j] = queue'[k] => j = k
         /\ \A n \in woken' : n \notin resumed /\ st[n] = "waiting"
<1> DEFINE h == Handed(free)
           Front == {queue[k] : k \in 1 .. h}
<1>1. Len(queue) \in Nat /\ queue \in Seq(Node)
  BY DEF TypeOK
<1>2. h \in 0 .. Len(queue) /\ h <= free /\ (h = free \/ h = Len(queue))
  BY <1>1 DEF Handed
<1>3. /\ value' = free - h
      /\ woken' = (woken \ resumed) \cup Front
      /\ queue' = SubSeq(queue, h + 1, Len(queue))
  BY DEF WakeUp
<1> HIDE DEF h
<1>4. Front \in SUBSET Node /\ woken \ resumed \in SUBSET Node
  BY <1>1, <1>2 DEF TypeOK
<1>5. Cardinality(Front) = h
  BY <1>1, <1>2, FrontOfQueue DEF Queued
<1>6. (woken \ resumed) \cap Front = {}
  BY <1>1, <1>2 DEF Queued
<1>7. Cardinality(woken') = Cardinality(woken \ resumed) + h
  <2>1. IsFiniteSet(Front) /\ IsFiniteSet(woken \ resumed) /\ Cardinality(woken \ resumed) \in Nat
    BY <1>4, NodesFinite
  <2>2. /\ Cardinality((woken \ resumed) \cup Front)
             = Cardinality(woken \ resumed) + Cardinality(Front) - Cardinality({})
        /\ Cardinality({}) = 0
    BY <1>6, <2>1, FS_Union, FS_EmptySet
  <2> QED BY <1>1, <1>2, <1>3, <1>5, <2>1, <2>2
<1>8. value' + Cardinality(woken') = free + Cardinality(woken \ resumed)
  <2>1. Cardinality(woken \ resumed) \in Nat
    BY <1>4, NodesFinite
  <2> QED BY <1>2, <1>3, <1>7, <2>1
<1>9. Len(queue') = Len(queue) - h /\ \A k \in 1 .. Len(queue') : queue'[k] = queue[h + k]
  <2>1. h \in Nat /\ h + 1 \in Nat /\ Len(queue) \in Nat /\ queue' = SubSeq(queue, h + 1, Len(queue))
    BY <1>1, <1>2, <1>3
  <2>2. Len(queue') = Len(queue) - h
    BY <1>1, <1>2, <2>1
  <2>3. \A k \in 1 .. Len(queue) - h : queue'[k] = queue[h + k]
    BY <1>1, <1>2, <2>1
  <2> QED BY <2>2, <2>3
<1>10. NobodyForgotten'
  <2>1. CASE h = free
    BY <1>2, <1>3, <2>1 DEF NobodyForgotten
  <2>2. CASE h = Len(queue)
    BY <1>1, <1>3, <2>2 DEF NobodyForgotten
  <2> QED BY <1>2, <2>1, <2>2
<1>11. \A k \in 1 .. Len(queue') : h + k \in 1 .. Len(queue)
  BY <1>1, <1>2, <1>9
<1>12. \A k \in 1 .. Len(queue') : \E j \in 1 .. Len(queue) : queue'[k] = queue[j]
  BY <1>9, <1>11
<1>13. ASSUME NEW k \in 1 .. Len(queue') PROVE queue'[k] \notin woken'
  <2>1. queue'[k] = queue[h + k] /\ h + k \in 1 .. Len(queue)
    BY <1>9, <1>11
  <2>2. queue[h + k] \notin woken
    BY <2>1 DEF Queued
  <2>3. ASSUME NEW i \in 1 .. h PROVE queue[i] # queue[h + k]
    BY <1>1, <1>2, <1>9, <2>1 DEF Queued
  <2> QED BY <1>3, <2>1, <2>2, <2>3
<1>14. \A j, k \in 1 .. Len(queue') : queue'[j] = queue'[k] => j = k
  BY <1>1, <1>2, <1>9, <1>11 DEF Queued
<1>15. \A n \in woken' : n \notin resumed /\ st[n] = "waiting"
  BY <1>1, <1>2, <1>3 DEF Queued
<1> QED BY <1>8, <1>10, <1>12, <1>13, <1>14, <1>15
(* With nobody at work the pool has no waiters and no live runs.                  *)
LEMMA PoolIdle ==
  ASSUME TypeOK, Queued, \A n \in Node : st[n] \notin {"waiting", "running"}
  PROVE  live = {} /\ woken = {} /\ queue = <<>>
<1>1. live = {} /\ woken = {}
  BY DEF Queued, TypeOK
<1>2. queue \in Seq(Node) /\ Len(queue) \in Nat
  BY DEF TypeOK
<1>3. Len(queue) = 0
  <2>1. SUFFICES ASSUME Len(queue) # 0 PROVE FALSE
    OBVIOUS
  <2>2. 1 \in 1 .. Len(queue) /\ queue[1] \in Node
    BY <1>2, <2>1
  <2> QED BY <2>2 DEF Queued
<1> QED BY <1>1, <1>2, <1>3

LEMMA BeginSlots ==
  ASSUME Inv, Slots, NEW n \in Node, Begin(n)
  PROVE  Slots'
<1>1. TypeOK /\ Queued /\ Balance /\ NobodyForgotten /\ st[n] = "ready"
  BY DEF Inv, Slots, Begin
<1>2. n \notin woken /\ n \notin live /\ \A k \in 1 .. Len(queue) : queue[k] # n
  BY <1>1 DEF Queued
<1>3. Len(queue) \in Nat /\ queue \in Seq(Node)
  BY <1>1 DEF TypeOK
<1>4. /\ Cardinality(woken) \in Nat /\ Cardinality(live) \in Nat
      /\ Cardinality(live \cup {n}) = Cardinality(live) + 1
  BY <1>1, <1>2, NodesFinite, FS_AddElement DEF TypeOK
<1>5. CASE AdmitAtOnce(n) /\ st' = [st EXCEPT ![n] = "running"]
  <2>1. /\ queue' = queue /\ woken' = woken /\ leaked' = leaked
        /\ value' = value - 1 /\ value # 0 /\ queue = <<>> /\ live' = live \cup {n}
    BY <1>5 DEF AdmitAtOnce, Locked, Register
  <2>2. Queued'
    BY <1>1, <1>2, <1>5, <2>1 DEF Queued, TypeOK
  <2>3. Balance'
    BY <1>1, <1>4, <2>1 DEF Balance, TypeOK
  <2> QED BY <2>1, <2>2, <2>3 DEF Slots, NobodyForgotten
<1>6. CASE Enqueue(n) /\ st' = [st EXCEPT ![n] = "waiting"]
  <2>1. /\ value' = value /\ woken' = woken /\ live' = live /\ leaked' = leaked
        /\ queue' = Append(queue, n)
        /\ value = 0 \/ queue # <<>> \/ woken # {}
    BY <1>6 DEF Enqueue, Locked
  <2>2. /\ Len(queue') = Len(queue) + 1 /\ queue'[Len(queue) + 1] = n
        /\ \A k \in 1 .. Len(queue) : queue'[k] = queue[k]
    BY <1>3, <2>1
  <2>3. \A m \in Node : st'[m] = IF m = n THEN "waiting" ELSE st[m]
    BY <1>1, <1>6 DEF TypeOK
  <2>4. ASSUME NEW k \in 1 .. Len(queue')
        PROVE  st'[queue'[k]] = "waiting" /\ queue'[k] \notin woken'
    <3>1. CASE k = Len(queue) + 1
      BY <1>2, <2>1, <2>2, <2>3, <3>1
    <3>2. CASE k \in 1 .. Len(queue)
      <4>1. queue[k] \in Node /\ queue'[k] = queue[k]
        BY <1>3, <2>2, <3>2
      <4> QED BY <1>1, <2>1, <2>3, <3>2, <4>1 DEF Queued
    <3> QED BY <1>3, <2>2, <3>1, <3>2
  <2>5. ASSUME NEW j \in 1 .. Len(queue'), NEW k \in 1 .. Len(queue'), queue'[j] = queue'[k]
        PROVE  j = k
    <3>1. (j \in 1 .. Len(queue) \/ j = Len(queue) + 1)
          /\ (k \in 1 .. Len(queue) \/ k = Len(queue) + 1)
      BY <1>3, <2>2
    <3>2. CASE j \in 1 .. Len(queue) /\ k \in 1 .. Len(queue)
      BY <1>1, <2>2, <2>5, <3>2 DEF Queued
    <3> QED BY <1>2, <2>2, <2>5, <3>1, <3>2
  <2>6. /\ \A m \in woken' : st'[m] = "waiting"
        /\ live' = {m \in Node : st'[m] = "running"}
    BY <1>1, <1>2, <2>1, <2>3 DEF Queued, TypeOK
  <2>7. Queued'
    BY <2>4, <2>5, <2>6 DEF Queued
  <2>8. Balance' /\ NobodyForgotten'
    BY <1>1, <2>1 DEF Balance, NobodyForgotten, TypeOK
  <2> QED BY <2>7, <2>8 DEF Slots
<1>7. CASE UNCHANGED pool /\ st' = [st EXCEPT ![n] = "done"]
  <2>1. \A m \in Node : st'[m] = IF m = n THEN "done" ELSE st[m]
    BY <1>1, <1>7 DEF TypeOK
  <2>2. \A k \in 1 .. Len(queue) : queue[k] \in Node
    BY <1>3
  <2>3. Queued'
    BY <1>1, <1>2, <1>7, <2>1, <2>2 DEF Queued, pool, TypeOK
  <2>4. Balance' /\ NobodyForgotten'
    BY <1>1, <1>7 DEF Balance, NobodyForgotten, pool
  <2> QED BY <2>3, <2>4 DEF Slots
<1> QED BY <1>5, <1>6, <1>7 DEF Begin

LEMMA ResumeSlots ==
  ASSUME Inv, Slots, NEW n \in Node, Resume(n)
  PROVE  Slots'
<1>1. TypeOK /\ Queued /\ Balance
  BY DEF Inv, Slots
<1>2. /\ n \in woken /\ WakeUp(value, {n}) /\ live' = live \cup {n} /\ leaked' = leaked
      /\ st[n] = "waiting"
      /\ \A m \in Node : st'[m] = IF m = n THEN "running" ELSE st[m]
  BY <1>1 DEF Resume, AdmitWoken, Register, TypeOK
<1>3. value \in Nat /\ {n} \in SUBSET woken
  BY <1>1, <1>2 DEF TypeOK
<1>4. /\ value' + Cardinality(woken') = value + Cardinality(woken \ {n})
      /\ NobodyForgotten'
      /\ \A k \in 1 .. Len(queue') : \E j \in 1 .. Len(queue) : queue'[k] = queue[j]
      /\ \A k \in 1 .. Len(queue') : queue'[k] \notin woken'
      /\ \A j, k \in 1 .. Len(queue') : queue'[j] = queue'[k] => j = k
      /\ \A m \in woken' : m \notin {n} /\ st[m] = "waiting"
  BY <1>1, <1>2, <1>3, WakeUpKeeps
<1>5. woken' \in SUBSET Node
  BY <1>1, <1>2, <1>3, WakeUpType DEF TypeOK
<1>6. n \notin live
  BY <1>1, <1>2 DEF Queued
<1>7. /\ Cardinality(woken) \in Nat /\ Cardinality(live) \in Nat /\ Cardinality(woken') \in Nat
      /\ Cardinality(live \cup {n}) = Cardinality(live) + 1
      /\ Cardinality(woken \ {n}) = Cardinality(woken) - 1
  BY <1>1, <1>2, <1>5, <1>6, NodesFinite, FS_AddElement, FS_RemoveElement DEF TypeOK
<1>8. \A j \in 1 .. Len(queue) : queue[j] \in Node /\ queue[j] # n /\ st[queue[j]] = "waiting"
  BY <1>1, <1>2 DEF Queued, TypeOK
<1>9. Queued'
  BY <1>1, <1>2, <1>4, <1>5, <1>8 DEF Queued, TypeOK
<1>10. Balance'
  BY <1>1, <1>2, <1>4, <1>7, PoolAssumption DEF Balance, TypeOK
<1> QED BY <1>4, <1>9, <1>10 DEF Slots

LEMMA FinishSlots ==
  ASSUME Inv, Slots, NEW n \in Node, Finish(n)
  PROVE  Slots'
<1>1. TypeOK /\ Queued /\ Balance
  BY DEF Inv, Slots
<1>2. /\ st[n] = "running" /\ WakeUp(value + 1, {}) /\ live' = live \ {n} /\ leaked' = leaked
      /\ \A m \in Node : st'[m] = IF m = n THEN "done" ELSE st[m]
  BY <1>1 DEF Finish, Release, TypeOK
<1>3. value + 1 \in Nat /\ {} \in SUBSET woken /\ woken \ {} = woken
  BY <1>1 DEF TypeOK
<1>4. /\ value' + Cardinality(woken') = value + 1 + Cardinality(woken)
      /\ NobodyForgotten'
      /\ \A k \in 1 .. Len(queue') : \E j \in 1 .. Len(queue) : queue'[k] = queue[j]
      /\ \A k \in 1 .. Len(queue') : queue'[k] \notin woken'
      /\ \A j, k \in 1 .. Len(queue') : queue'[j] = queue'[k] => j = k
      /\ \A m \in woken' : st[m] = "waiting"
  <2> DEFINE free == value + 1
             none == {}
  <2>1. WakeUp(free, none) /\ free \in Nat /\ none \in SUBSET woken
    BY <1>2, <1>3
  <2> HIDE DEF free, none
  <2>2. /\ value' + Cardinality(woken') = free + Cardinality(woken \ none)
        /\ NobodyForgotten'
        /\ \A k \in 1 .. Len(queue') : \E j \in 1 .. Len(queue) : queue'[k] = queue[j]
        /\ \A k \in 1 .. Len(queue') : queue'[k] \notin woken'
        /\ \A j, k \in 1 .. Len(queue') : queue'[j] = queue'[k] => j = k
        /\ \A m \in woken' : st[m] = "waiting"
    BY <1>1, <2>1, WakeUpKeeps
  <2> QED BY <1>3, <2>2 DEF free, none
<1>5. woken' \in SUBSET Node
  BY <1>1, <1>2, <1>3, WakeUpType DEF TypeOK
<1>6. n \in live
  BY <1>1, <1>2 DEF Queued
<1>7. /\ Cardinality(woken) \in Nat /\ Cardinality(live) \in Nat /\ Cardinality(woken') \in Nat
      /\ Cardinality(live \ {n}) = Cardinality(live) - 1
  BY <1>1, <1>5, <1>6, NodesFinite, FS_RemoveElement DEF TypeOK
<1>8. \A j \in 1 .. Len(queue) : queue[j] \in Node /\ queue[j] # n /\ st[queue[j]] = "waiting"
  BY <1>1, <1>2 DEF Queued, TypeOK
<1>9. Queued'
  BY <1>1, <1>2, <1>4, <1>5, <1>8 DEF Queued, TypeOK
<1>10. Balance'
  BY <1>1, <1>2, <1>4, <1>7, PoolAssumption DEF Balance, TypeOK
<1> QED BY <1>4, <1>9, <1>10 DEF Slots

LEMMA SlotsStep == ASSUME Inv, Slots, [Next]_vars PROVE Slots'
<1>0. TypeOK /\ Progress /\ Queued /\ Balance /\ NobodyForgotten
  BY DEF Inv, Slots
<1>1. CASE UNCHANGED vars \/ Launch \/ EndLayer
  <2>1. UNCHANGED <<value, queue, woken, live, leaked, st>>
    BY <1>1 DEF vars, Launch, EndLayer, pool
  <2> QED BY <1>0, <2>1 DEF Slots, Queued, Balance, NobodyForgotten
<1>2. CASE Classify
  <2>1. UNCHANGED <<value, queue, woken, live, leaked>>
    BY <1>2 DEF Classify, pool
  <2>2. live = {} /\ woken = {} /\ queue = <<>>
    BY <1>0, <1>2, PoolIdle DEF Progress, Created, Classify
  <2>3. \A m \in Node : st'[m] # "running"
    BY <1>0, <1>2 DEF Classify, Progress, Created
  <2> QED BY <1>0, <2>1, <2>2, <2>3 DEF Slots, Queued, Balance, NobodyForgotten
<1>3. CASE Again
  <2>1. UNCHANGED <<value, queue, woken, live, leaked>>
    BY <1>3 DEF Again, pool
  <2>2. live = {} /\ woken = {} /\ queue = <<>>
    BY <1>0, <1>3, PoolIdle DEF Again
  <2>3. \A m \in Node : st'[m] # "running"
    BY <1>3 DEF Again
  <2> QED BY <1>0, <2>1, <2>2, <2>3 DEF Slots, Queued, Balance, NobodyForgotten
<1>4. CASE Cancel
  <2>1. /\ value' = value + Cardinality(woken) /\ queue' = <<>> /\ woken' = {} /\ live' = {}
        /\ leaked' = leaked + Cardinality(live)
        /\ \A m \in Node : st'[m] # "running"
    BY <1>4 DEF Cancel, CancelAll
  <2>2. Cardinality(woken) \in Nat /\ Cardinality(live) \in Nat /\ Cardinality({}) = 0
    BY <1>0, NodesFinite, FS_EmptySet DEF TypeOK
  <2>3. Balance'
    BY <1>0, <2>1, <2>2 DEF Balance, TypeOK
  <2> QED BY <2>1, <2>3 DEF Slots, Queued, NobodyForgotten
<1>5. ASSUME NEW n \in Node, RecordRaises(n) PROVE Slots'
  <2>1. /\ st[n] = "running" /\ live' = live \ {n} /\ leaked' = leaked + 1
        /\ value' = value /\ queue' = queue /\ woken' = woken
        /\ \A m \in Node : st'[m] = IF m = n THEN "done" ELSE st[m]
    BY <1>0, <1>5 DEF RecordRaises, Leak, TypeOK
  <2>2. n \in live
    BY <1>0, <2>1 DEF Queued
  <2>3. /\ Cardinality(woken) \in Nat /\ Cardinality(live) \in Nat
        /\ Cardinality(live \ {n}) = Cardinality(live) - 1
    BY <1>0, <2>2, NodesFinite, FS_RemoveElement DEF TypeOK
  <2>4. \A j \in 1 .. Len(queue) : queue[j] \in Node
    BY <1>0 DEF TypeOK
  <2>5. Queued'
    BY <1>0, <2>1, <2>4 DEF Queued, TypeOK
  <2>6. Balance' /\ NobodyForgotten'
    BY <1>0, <2>1, <2>3 DEF Balance, NobodyForgotten, TypeOK
  <2> QED BY <2>5, <2>6 DEF Slots
<1> QED
  BY <1>1, <1>2, <1>3, <1>4, <1>5, BeginSlots, ResumeSlots, FinishSlots DEF Next, Step, NodeStep

LEMMA InitSlots == Init => Slots
<1> SUFFICES ASSUME Init PROVE Slots
  OBVIOUS
<1>1. /\ value = MaxConcurrent /\ queue = <<>> /\ woken = {} /\ live = {} /\ leaked = 0
      /\ \A n \in Node : st[n] = "new"
  BY DEF Init, PoolInit
<1> QED BY <1>1, FS_EmptySet, PoolAssumption DEF Slots, Queued, Balance, NobodyForgotten

(* No slot is lost or made up, and no waiter is left behind a free one, for every *)
(* pool, plan and number of calls, failed and cancelled ones included.            *)
THEOREM SlotsStand == Spec => []SlotsConserved
<1>1. Slots => SlotsConserved
  BY DEF Slots, Queued, Balance, NobodyForgotten, SlotsConserved
<1>2. Inv /\ Slots /\ [Next]_vars => Inv' /\ Slots'
  BY StepInv, SlotsStep
<1> QED BY InitInv, InitSlots, <1>1, <1>2, PTL DEF Spec
-------------------------------------------------------------------------------
(* The layers.  A graph without a cycle has, in every set of nodes, one whose   *)
(* dependencies lie outside of it: that takes the place of an induction.        *)

LEMMA FiniteSubsetMin ==
  ASSUME NEW S, IsFiniteSet(S)
  PROVE  \A T \in SUBSET SUBSET S : T # {} => \E x \in T : \A y \in T : y \subseteq x => y = x
<1> SUFFICES ASSUME NEW T, T \subseteq SUBSET S, T # {}
             PROVE  \E x \in T : \A y \in T : y \subseteq x => y = x
  OBVIOUS
<1>1. IsWellFoundedOn(StrictSubsetOrdering(S), SUBSET S)
  BY FS_FiniteSubsetsOfFinite, FS_StrictSubsetOrderingWellFounded
<1>2. PICK x \in T : \A y \in T : ~(<<y, x>> \in StrictSubsetOrdering(S))
  BY <1>1, WFMin
<1> QED BY <1>2 DEF StrictSubsetOrdering

LEMMA ImageFinite ==
  ASSUME NEW S, IsFiniteSet(S), NEW g
  PROVE  IsFiniteSet({g[x] : x \in S})
<1> DEFINE T == {g[x] : x \in S}
           f == [x \in S |-> g[x]]
<1>1. f \in [S -> T] /\ \A t \in T : \E x \in S : f[x] = t
  OBVIOUS
<1>2. f \in Surjection(S, T)
  BY <1>1, Fun_IsSurj
<1> QED BY <1>2, FS_Surjection

(* A finite set of numbers has a largest one.                                     *)
LEMMA LargestOf ==
  ASSUME NEW S, IsFiniteSet(S), S \subseteq Nat, S # {}
  PROVE  Largest(S) \in S /\ \A y \in S : y <= Largest(S)
<1> DEFINE Beyond(x) == {y \in S : y > x}
           T == {Beyond(x) : x \in S}
<1>1. PICK b \in T : \A y \in T : y \subseteq b => y = b
  <2>1. T \subseteq SUBSET S /\ T # {} /\ IsFiniteSet(S)
    OBVIOUS
  <2> HIDE DEF T
  <2>2. \A U \in SUBSET SUBSET S : U # {} => \E x \in U : \A y \in U : y \subseteq x => y = x
    BY ONLY IsFiniteSet(S), FiniteSubsetMin
  <2> QED BY <2>1, <2>2
<1>2. PICK x \in S : b = Beyond(x)
  BY <1>1
<1>3. ASSUME NEW y \in S PROVE y <= x
  <2>1. SUFFICES ASSUME y > x PROVE FALSE
    OBVIOUS
  <2>2. ASSUME NEW z \in S, z > y PROVE z > x
    <3>1. x \in Nat /\ y \in Nat /\ z \in Nat
      OBVIOUS
    <3> QED BY <2>1, <2>2, <3>1
  <2>3. Beyond(y) \subseteq Beyond(x) /\ y \in Beyond(x)
    BY <2>1, <2>2
  <2>4. y \in Nat /\ y \notin Beyond(y)
    OBVIOUS
  <2>5. Beyond(y) = Beyond(x)
    BY <1>1, <1>2, <2>3
  <2> QED BY <2>3, <2>4, <2>5
<1> QED BY <1>2, <1>3 DEF Largest

\* What every cut set of nodes has in a graph without a cycle.
LEMMA Foot ==
  ASSUME ~Cyclic, NEW B \in SUBSET Node, B # {}
  PROVE  \E n \in B : deps[n] \cap B = {}
BY DEF Cyclic

\* g puts each node of D right behind its deepest dependency.
Puts(g, D) ==
  /\ \A n \in D : deps[n] \subseteq D
  /\ g \in [D -> Nat]
  /\ \A n \in D : g[n] = IF deps[n] = {} THEN 0 ELSE 1 + Largest({g[d] : d \in deps[n]})

LEMMA DeepestIsNat ==
  ASSUME TypeOK, NEW n \in Node, deps[n] # {}, NEW g, \A d \in deps[n] : g[d] \in Nat
  PROVE  /\ Largest({g[d] : d \in deps[n]}) \in Nat
         /\ \A d \in deps[n] : g[d] <= Largest({g[e] : e \in deps[n]})
<1> DEFINE S == {g[d] : d \in deps[n]}
<1>1. IsFiniteSet(deps[n])
  BY NodeAssumption, FS_Subset DEF TypeOK
<1>2. IsFiniteSet(S)
  BY <1>1, ImageFinite
<1>3. S \in SUBSET Nat /\ S # {}
  OBVIOUS
<1>4. Largest(S) \in S /\ \A y \in S : y <= Largest(S)
  <2> HIDE DEF S
  <2> QED BY <1>2, <1>3, LargestOf
<1> QED BY <1>3, <1>4

(* In a graph without a cycle every node can be put in a layer.                   *)
LEMMA LayersExist ==
  ASSUME TypeOK, ~Cyclic
  PROVE  \E g : Puts(g, Node)
<1> DEFINE Done == {D \in SUBSET Node : \E g : Puts(g, D)}
           Rest == {Node \ D : D \in Done}
<1>1. {} \in Done
  <2> DEFINE g == [n \in {} |-> 0]
  <2>1. Puts(g, {})
    BY DEF Puts
  <2> QED BY <2>1
<1>2. PICK B \in Rest : \A C \in Rest : C \subseteq B => C = B
  <2>1. Rest \subseteq SUBSET Node /\ Rest # {}
    BY <1>1
  <2> HIDE DEF Rest
  <2> QED BY <2>1, FiniteSubsetMin, NodeAssumption
<1>3. PICK D \in Done : B = Node \ D
  BY <1>2
<1>4. D = Node
  <2>1. SUFFICES ASSUME B # {} PROVE FALSE
    BY <1>3
  <2>2. PICK n \in B : deps[n] \cap B = {}
    BY <1>3, <2>1, Foot
  <2>3. n \in Node /\ n \notin D /\ deps[n] \subseteq D
    BY <1>3, <2>2 DEF TypeOK
  <2>4. PICK g : Puts(g, D)
    BY <1>3
  <2> DEFINE v == IF deps[n] = {} THEN 0 ELSE 1 + Largest({g[d] : d \in deps[n]})
             h == [x \in D \cup {n} |-> IF x = n THEN v ELSE g[x]]
  <2>5. v \in Nat
    <3>1. deps[n] # {} => Largest({g[d] : d \in deps[n]}) \in Nat
      <4>1. \A d \in deps[n] : g[d] \in Nat
        BY <2>3, <2>4 DEF Puts
      <4> QED BY <2>3, <4>1, DeepestIsNat
    <3> QED BY <3>1
  <2> HIDE DEF v
  <2>6. h \in [D \cup {n} -> Nat]
    BY <2>4, <2>5 DEF Puts
  <2>7. ASSUME NEW x \in D \cup {n}
        PROVE  /\ deps[x] \subseteq D
               /\ {h[d] : d \in deps[x]} = {g[d] : d \in deps[x]}
    <3>1. deps[x] \subseteq D
      BY <2>3, <2>4 DEF Puts
    <3>2. \A d \in deps[x] : h[d] = g[d]
      BY <2>3, <3>1
    <3> QED BY <3>1, <3>2
  <2>8. ASSUME NEW x \in D \cup {n}
        PROVE  h[x] = IF deps[x] = {} THEN 0 ELSE 1 + Largest({h[d] : d \in deps[x]})
    <3>1. CASE x = n
      BY <2>7, <3>1 DEF v
    <3>2. CASE x # n
      <4>1. x \in D /\ h[x] = g[x]
        BY <3>2
      <4>2. g[x] = IF deps[x] = {} THEN 0 ELSE 1 + Largest({g[d] : d \in deps[x]})
        BY <2>4, <4>1 DEF Puts
      <4> HIDE DEF h
      <4> QED BY <2>7, <4>1, <4>2
    <3> QED BY <3>1, <3>2
  <2>9. Puts(h, D \cup {n})
    <3> HIDE DEF h
    <3> QED BY <2>6, <2>7, <2>8 DEF Puts
  <2>10. D \cup {n} \in Done
    BY <1>3, <2>3, <2>9
  <2> HIDE DEF Done
  <2>11. Node \ (D \cup {n}) \in Rest
    BY <2>10
  <2> QED BY <1>2, <1>3, <2>3, <2>11
<1> QED BY <1>3, <1>4

(* The layers of the code are numbers, dependencies lie in earlier ones, and none *)
(* lies behind the last.                                                          *)
LEMMA LayersSound ==
  ASSUME TypeOK, ~Cyclic
  PROVE  \A n \in Node :
           /\ LayerOf[n] \in Nat
           /\ \A d \in deps[n] : LayerOf[d] < LayerOf[n]
           /\ LastLayer \in Nat /\ LayerOf[n] <= LastLayer
<1> DEFINE R(f) == [n \in Node |-> IF deps[n] = {} THEN 0 ELSE 1 + Largest({f[d] : d \in deps[n]})]
<1>1. PICK g : Puts(g, Node)
  BY LayersExist
<1>2. g = R(g)
  BY <1>1 DEF Puts
<1>3. LayerOf = R(LayerOf)
  <2>1. LayerOf = CHOOSE f : f = R(f)
    BY DEF LayerOf
  <2> HIDE DEF R
  <2> QED BY <1>2, <2>1
<1>4. \A n \in Node : LayerOf[n] = IF deps[n] = {} THEN 0 ELSE 1 + Largest({LayerOf[d] : d \in deps[n]})
  BY <1>3
<1> HIDE DEF R
<1>5. \A n \in Node : deps[n] \subseteq Node
  BY DEF TypeOK
<1>6. \A n \in Node : LayerOf[n] \in Nat
  <2> DEFINE B == {n \in Node : LayerOf[n] \notin Nat}
  <2>1. SUFFICES ASSUME B # {} PROVE FALSE
    OBVIOUS
  <2>2. PICK n \in B : deps[n] \cap B = {}
    BY <2>1, Foot
  <2>3. \A d \in deps[n] : LayerOf[d] \in Nat
    BY <1>5, <2>2
  <2>4. deps[n] # {} => Largest({LayerOf[d] : d \in deps[n]}) \in Nat
    BY <2>3, DeepestIsNat
  <2>5. LayerOf[n] = IF deps[n] = {} THEN 0 ELSE 1 + Largest({LayerOf[d] : d \in deps[n]})
    BY <1>4
  <2>6. 1 + Largest({LayerOf[d] : d \in deps[n]}) \in Nat \/ deps[n] = {}
    BY <2>4
  <2> QED BY <2>2, <2>5, <2>6
<1>7. ASSUME NEW n \in Node, NEW d \in deps[n] PROVE LayerOf[d] < LayerOf[n]
  <2>1. \A e \in deps[n] : LayerOf[e] \in Nat
    BY <1>5, <1>6
  <2>2. /\ Largest({LayerOf[e] : e \in deps[n]}) \in Nat
        /\ LayerOf[d] <= Largest({LayerOf[e] : e \in deps[n]})
    BY <2>1, DeepestIsNat
  <2>3. LayerOf[n] = 1 + Largest({LayerOf[e] : e \in deps[n]})
    BY <1>4
  <2> QED BY <2>1, <2>2, <2>3
<1>8. ASSUME NEW n \in Node PROVE LastLayer \in Nat /\ LayerOf[n] <= LastLayer
  <2> DEFINE S == {LayerOf[x] : x \in Node}
  <2>1. IsFiniteSet(S)
    BY NodeAssumption, ImageFinite
  <2>2. S \in SUBSET Nat /\ S # {} /\ LayerOf[n] \in S
    BY <1>6
  <2>3. LastLayer = Largest(S)
    BY DEF LastLayer
  <2> HIDE DEF S
  <2>4. Largest(S) \in S /\ \A y \in S : y <= Largest(S)
    BY <2>1, <2>2, LargestOf
  <2> QED BY <2>2, <2>3, <2>4
<1> QED BY <1>6, <1>7, <1>8

-------------------------------------------------------------------------------
(* Failures and reports.                                                          *)

Acyclic == phase \notin {"new", "refused"} => ~Cyclic

\* What the loop has passed is done, and what is done has a result, as long as no
\* record has raised; a report is of everything.
Behind ==
  /\ phase = "new" => layer = 0
  /\ phase \in {"classify", "gather"} => \A n \in Node : LayerOf[n] < layer => st[n] = "done"
  /\ phase \in {"classify", "gather", "reported"} =>
       \A n \in Node : st[n] = "done" => result[n] # "none"
  /\ phase = "reported" => \A n \in Node : st[n] = "done"

Started == \A n \in Node : st[n] = "running" \/ result[n] = "COMPLETED" => n \in ran

Account == Acyclic /\ Behind /\ Started /\ FailsForCause

LEMMA AcyclicStep ==
  ASSUME Acyclic, [Next]_vars
  PROVE  Acyclic'
<1>1. Cyclic' <=> Cyclic
  BY PlanFixed DEF Cyclic
<1>2. phase' \notin {"new", "refused"} => phase \notin {"new", "refused"} \/ ~Cyclic
  BY DEF Next, vars, Step, Launch, Classify, EndLayer, Cancel, Again, NodeStep, Begin, Resume,
         Finish, RecordRaises
<1> QED BY <1>1, <1>2 DEF Acyclic

LEMMA BehindStep ==
  ASSUME Inv, Acyclic, Behind, [Next]_vars
  PROVE  Behind'
<1>0. TypeOK /\ Progress
  BY DEF Inv
<1>P. deps' = deps /\ LayerOf' = LayerOf
  BY PlanFixed
<1>L. phase \in {"classify", "gather"} =>
        /\ layer \in Nat
        /\ \A n \in Node : LayerOf[n] \in Nat /\ LastLayer \in Nat /\ LayerOf[n] <= LastLayer
  BY <1>0, LayersSound DEF Acyclic, TypeOK
<1>1. CASE UNCHANGED vars
  BY <1>1, <1>P DEF vars, Behind
<1>2. CASE Launch
  <2>1. /\ layer' = 0 /\ phase = "new" /\ phase' \in {"refused", "classify"}
        /\ \A n \in Node : st'[n] = "new"
        /\ phase' = "classify" => ~Cyclic
    BY <1>0, <1>2 DEF Launch, Behind, Progress, Fresh
  <2>2. phase' = "classify" => \A n \in Node : LayerOf[n] \in Nat
    BY <1>0, <2>1, LayersSound
  <2>3. phase' = "classify" => \A n \in Node : ~(LayerOf[n] < 0)
    BY <2>2
  <2> QED BY <1>P, <2>1, <2>3 DEF Behind
<1>3. CASE Classify
  <2>1. /\ phase = "classify" /\ phase' = "gather" /\ layer' = layer /\ layer \in Nat
        /\ \A n \in Node : LayerOf[n] \in Nat
    BY <1>3, <1>L DEF Classify
  <2>2. \A n \in Node : LayerOf[n] # layer => st'[n] = st[n] /\ result'[n] = result[n]
    BY <1>3 DEF Classify, Layer
  <2>3. \A n \in Node : LayerOf[n] = layer /\ st'[n] = "done" => result'[n] = "FAILED"
    BY <1>3 DEF Classify, Layer
  <2> QED BY <1>P, <2>1, <2>2, <2>3 DEF Behind
<1>4. CASE EndLayer
  <2>1. /\ phase = "gather" /\ st' = st /\ result' = result
        /\ \A n \in Node : LayerOf[n] = layer => st[n] = "done"
        /\ \/ layer' = layer + 1 /\ phase' = "classify"
           \/ layer = LastLayer /\ phase' = "reported"
    BY <1>4 DEF EndLayer, Layer
  <2>2. \A n \in Node : LayerOf[n] < layer + 1 => st[n] = "done"
    BY <1>L, <2>1 DEF Behind
  <2>3. layer = LastLayer => \A n \in Node : LayerOf[n] < layer + 1
    BY <1>L, <2>1
  <2> QED BY <1>P, <2>1, <2>2, <2>3 DEF Behind
<1>5. CASE Cancel \/ Again
  BY <1>5 DEF Cancel, Again, Behind
<1>6. ASSUME NEW n \in Node, NodeStep(n) \/ RecordRaises(n) PROVE Behind'
  <2>1. Created(n) /\ layer' = layer /\ (phase' = phase \/ phase' = "raised")
    BY <1>6 DEF NodeStep, Begin, Resume, Finish, RecordRaises, Created
  <2>2. \A m \in Node : m # n => st'[m] = st[m] /\ result'[m] = result[m]
    BY <1>0, <1>6 DEF NodeStep, Begin, Resume, Finish, RecordRaises, TypeOK
  <2>3. phase \notin {"new", "classify", "reported"} /\ st[n] # "done"
    BY <1>0, <2>1 DEF Behind, Created, Progress
  <2>4. phase' = "gather" /\ st'[n] = "done" => result'[n] # "none"
    <3>1. CASE NodeStep(n)
      BY <1>0, <3>1 DEF NodeStep, Begin, Resume, Finish, TypeOK
    <3>2. CASE RecordRaises(n)
      BY <2>3, <3>2 DEF RecordRaises
    <3> QED BY <1>6, <3>1, <3>2
  <2> QED BY <1>P, <2>1, <2>2, <2>3, <2>4 DEF Behind
<1> QED BY <1>1, <1>2, <1>3, <1>4, <1>5, <1>6 DEF Next, Step

LEMMA StartedStep ==
  ASSUME TypeOK, Started, [Next]_vars
  PROVE  Started'
<1>1. CASE UNCHANGED vars \/ Step \/ Cancel \/ Again
  BY <1>1 DEF vars, Step, Launch, Classify, EndLayer, Cancel, Again, Started, TypeOK
<1>2. ASSUME NEW n \in Node, NodeStep(n) \/ RecordRaises(n) PROVE Started'
  BY <1>2 DEF NodeStep, Begin, Resume, Finish, RecordRaises, Started, TypeOK
<1> QED BY <1>1, <1>2 DEF Next

(* Who fails unrun is blocked by a dependency of an earlier layer, which is done. *)
LEMMA CauseStep ==
  ASSUME Inv, Acyclic, Behind, Started, FailsForCause, [Next]_vars
  PROVE  FailsForCause'
<1> DEFINE Cause(n) == Exhausted \/ \E d \in deps[n] : st[d] = "done" /\ result[d] # "COMPLETED"
<1>0. TypeOK /\ Progress /\ \A n \in Node : result[n] = "FAILED" /\ n \notin ran => Cause(n)
  BY DEF Inv, FailsForCause
<1>P. deps' = deps /\ \A n \in Node : deps[n] \subseteq Node
  BY <1>0, PlanFixed DEF TypeOK
<1>1. SUFFICES ASSUME NEW m \in Node, result'[m] = "FAILED", m \notin ran' PROVE Cause(m)'
  BY DEF FailsForCause
<1>2. CASE UNCHANGED vars \/ Launch \/ EndLayer
  <2>1. UNCHANGED <<st, result, ran, spawned>>
    BY <1>2 DEF vars, Launch, EndLayer, pool
  <2> QED BY <1>0, <1>1, <1>P, <2>1 DEF Exhausted
<1>3. CASE Classify
  <2>1. /\ phase = "classify" /\ layer \in Nat /\ spawned' = spawned /\ ran' = ran
        /\ \A n \in Node : LayerOf[n] \in Nat /\ \A d \in deps[n] : LayerOf[d] < LayerOf[n]
    BY <1>0, <1>3, LayersSound DEF Classify, Acyclic, TypeOK, pool
  <2>2. \A n \in Node : LayerOf[n] # layer => st'[n] = st[n] /\ result'[n] = result[n]
    BY <1>3 DEF Classify, Layer
  <2>3. ASSUME NEW d \in Node, st[d] = "done" PROVE LayerOf[d] # layer
    BY <1>0, <2>1, <2>3 DEF Progress, Ahead, Fresh
  <2>4. CASE LayerOf[m] = layer
    <3>1. Blocked(m)
      BY <1>0, <1>1, <1>3, <2>1, <2>4 DEF Classify, Layer, Progress, Ahead, Fresh
    <3>2. PICK d \in deps[m] : d \notin Completed
      BY <3>1 DEF Blocked
    <3>3. d \in Node /\ LayerOf[d] < layer
      BY <1>P, <2>1, <2>4
    <3>4. st[d] = "done" /\ result[d] # "COMPLETED"
      BY <2>1, <3>2, <3>3 DEF Behind, Completed
    <3> QED BY <1>P, <2>2, <2>3, <3>3, <3>4
  <2>5. CASE LayerOf[m] # layer
    <3>1. Cause(m)
      BY <1>0, <1>1, <2>1, <2>2, <2>5
    <3> QED BY <1>P, <2>1, <2>2, <2>3, <3>1 DEF Exhausted
  <2> QED BY <2>4, <2>5
<1>4. CASE Cancel
  <2>1. /\ spawned' = spawned /\ result' = result /\ ran' = ran
        /\ \A n \in Node : st[n] = "done" => st'[n] = "done"
    BY <1>4 DEF Cancel, CancelAll
  <2> QED BY <1>0, <1>1, <1>P, <2>1 DEF Exhausted
<1>5. CASE Again
  BY <1>1, <1>5 DEF Again
<1>6. ASSUME NEW n \in Node, NodeStep(n) \/ RecordRaises(n) PROVE Cause(m)'
  <2>1. Created(n) /\ result[n] = "none"
    BY <1>0, <1>6 DEF NodeStep, Begin, Resume, Finish, RecordRaises, Created, Progress
  <2>2. \A d \in Node : st[d] = "done" => st'[d] = "done" /\ result'[d] = result[d]
    BY <1>0, <1>6, <2>1 DEF NodeStep, Begin, Resume, Finish, RecordRaises, Created, TypeOK
  <2>3. Exhausted => Exhausted'
    BY <1>0, <1>6, PoolAssumption DEF NodeStep, Begin, Resume, Finish, RecordRaises, AdmitAtOnce,
       AdmitWoken, Enqueue, Release, Leak, Register, Exhausted, TypeOK, pool
  <2>4. m # n => result'[m] = result[m] /\ m \notin ran
    BY <1>0, <1>1, <1>6 DEF NodeStep, Begin, Resume, Finish, RecordRaises, TypeOK
  <2>5. m = n => Exhausted
    BY <1>0, <1>1, <1>6, <2>1
       DEF NodeStep, Begin, Resume, Finish, RecordRaises, Started, TypeOK
  <2>6. Cause(m)
    BY <1>0, <1>1, <2>4, <2>5
  <2> QED BY <1>P, <2>2, <2>3, <2>6
<1> QED BY <1>2, <1>3, <1>4, <1>5, <1>6 DEF Next, Step

LEMMA InitAccount == Init => Account
BY DEF Init, Account, Acyclic, Behind, Started, FailsForCause

LEMMA StepAccount == Inv /\ Account /\ [Next]_vars => Inv' /\ Account'
BY StepInv, AcyclicStep, BehindStep, StartedStep, CauseStep DEF Account, Inv

(* No node fails without having run but for a dependency that did not complete or *)
(* the session's total, for every plan, pool and number of calls.                 *)
THEOREM FailuresHaveCauses == Spec => []FailsForCause
<1>1. Account => FailsForCause
  BY DEF Account
<1> QED BY InitInv, InitAccount, StepAccount, <1>1, PTL DEF Spec

(* What execute() returns accounts for every node of every plan.                  *)
THEOREM ReportsAreComplete == Spec => []ReportComplete
<1>1. Inv /\ Account => ReportComplete
  BY DEF Inv, Account, Behind, Started, Progress, ReportComplete, TypeOK
<1> QED BY InitInv, InitAccount, StepAccount, <1>1, PTL DEF Spec
===============================================================================

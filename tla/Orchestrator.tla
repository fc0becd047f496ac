----------------------------- MODULE Orchestrator ------------------------------
(***************************************************************************)
(* Orchestrator.execute() over the agent pool (runtime/orchestrator.py):   *)
(* the plan's dependency graph is validated (runtime/plan.py), cut into    *)
(* layers, priced by the cost gate, and run layer by layer; inside a layer *)
(* the nodes are coroutines gathered on one event loop.  The runner that   *)
(* works for a node is the caller's.  A second plan may be executed on the *)
(* same pool afterwards, whatever became of the first.                     *)
(***************************************************************************)
EXTENDS AgentPool

CONSTANTS
  MaxRatio,    \* PARALLEL_MAX_BENEFIT_RATIO
  Recording,   \* TRUE: a reliability store is attached, and its record() may raise
  MaxRounds    \* bound: calls of execute() on the pool

ASSUME NodeAssumption == IsFiniteSet(Node)
ASSUME OrchestratorAssumption ==
  MaxRatio \in Nat /\ Recording \in BOOLEAN /\ MaxRounds \in Nat \ {0}

VARIABLES
  deps,     \* deps[n]: the node ids n depends on
  forced,   \* force_sequential
  phase,    \* where execute() is
  layer,    \* index of the layer being run
  st,       \* st[n]: where the coroutine of n is
  result,   \* result[n]: status of its AgentResult
  ran,      \* history: nodes whose runner was started in this call
  round     \* calls of execute() so far

plan == <<deps, forced>>
vars == <<value, queue, woken, live, leaked, spawned, deps, forced, phase, layer, st,
          result, ran, round>>

\* "FAILED" stands for every status but COMPLETED: execute() tells no others apart.
Result == {"none", "COMPLETED", "FAILED"}
Phase == {"new", "refused", "classify", "gather", "reported", "raised", "cancelled"}
\* ready: created by gather(), waiting: in acquire(), running: in the runner.
Stage == {"new", "ready", "waiting", "running", "done"}

TypeOK ==
  /\ value \in Nat
  /\ queue \in Seq(Node) /\ woken \subseteq Node /\ live \subseteq Node
  /\ leaked \in Nat /\ spawned \in Nat
  /\ deps \in [Node -> SUBSET Node]
  /\ forced \in BOOLEAN
  /\ phase \in Phase
  /\ layer \in Nat
  /\ st \in [Node -> Stage]
  /\ result \in [Node -> Result]
  /\ ran \subseteq Node
  /\ round \in 1 .. MaxRounds

Completed == {n \in Node : result[n] = "COMPLETED"}

-------------------------------------------------------------------------------
(* The plan: validation, layers, cost.                                     *)

\* _find_cycle(): some set of nodes each depends on a member of it.
Cyclic == \E cycle \in SUBSET Node : cycle # {} /\ \A n \in cycle : deps[n] \cap cycle # {}

Largest(S) == CHOOSE x \in S : \A y \in S : y <= x

Smallest(S) == CHOOSE x \in S : \A y \in S : x <= y

\* Mutant of LayerOf: a node goes right behind the first of its dependencies.
LayerOfFirst ==
  LET f[n \in Node] == IF deps[n] = {} THEN 0 ELSE 1 + Smallest({f[d] : d \in deps[n]})
  IN f

\* _dependency_layers(): one more than the deepest dependency.
LayerOf ==
  LET f[n \in Node] == IF deps[n] = {} THEN 0 ELSE 1 + Largest({f[d] : d \in deps[n]})
  IN f

Layer(k) == {n \in Node : LayerOf[n] = k}
LastLayer == Largest({LayerOf[n] : n \in Node})

\* estimate_parallel_cost(): one unit per agent; what is saved is the fanout less one.
Overhead == Cardinality(Node)
Benefit == Cardinality(Node) - (LastLayer + 1)

\* ParallelizationCostGate.evaluate()
ParallelAllowed == Benefit > 0 /\ Overhead <= MaxRatio * Benefit

-------------------------------------------------------------------------------
Init ==
  /\ PoolInit
  /\ deps \in {d \in [Node -> SUBSET Node] : \A n \in Node : n \notin d[n]}
  /\ forced \in BOOLEAN
  /\ phase = "new"
  /\ layer = 0
  /\ st = [n \in Node |-> "new"]
  /\ result = [n \in Node |-> "none"]
  /\ ran = {}
  /\ round = 1

\* Plan.validate() and the cost gate.
Launch ==
  /\ phase = "new"
  /\ \/ Cyclic /\ phase' = "refused"
     \/ /\ ~Cyclic
        /\ phase' = IF forced \/ ParallelAllowed THEN "classify" ELSE "refused"
  /\ UNCHANGED <<pool, plan, layer, st, result, ran, round>>

\* Mutant of Blocked: one completed dependency is evidence enough.
BlockedByAll(n) == deps[n] # {} /\ deps[n] \cap Completed = {}

Blocked(n) == ~(deps[n] \subseteq Completed)

\* The head of the loop: nodes with missing evidence fail, the others are gathered.
Classify ==
  /\ phase = "classify"
  /\ result' = [n \in Node |-> IF n \in Layer(layer) /\ Blocked(n) THEN "FAILED" ELSE result[n]]
  /\ st' = [n \in Node |-> IF n \notin Layer(layer) THEN st[n]
                            ELSE IF Blocked(n) THEN "done" ELSE "ready"]
  /\ phase' = "gather"
  /\ UNCHANGED <<pool, plan, layer, ran, round>>

\* The first step of _run_one(): admitted, queued, or refused, which is a FAILED result.
Begin(n) ==
  /\ st[n] = "ready"
  /\ \/ /\ AdmitAtOnce(n)
        /\ st' = [st EXCEPT ![n] = "running"]
        /\ ran' = ran \cup {n}
        /\ UNCHANGED result
     \/ /\ Enqueue(n)
        /\ st' = [st EXCEPT ![n] = "waiting"]
        /\ UNCHANGED <<result, ran>>
     \/ /\ Exhausted
        /\ st' = [st EXCEPT ![n] = "done"]
        /\ result' = [result EXCEPT ![n] = "FAILED"]
        /\ UNCHANGED <<pool, ran>>
  /\ UNCHANGED <<plan, phase, layer, round>>

\* acquire() returns a slot waited for.
Resume(n) ==
  /\ st[n] = "waiting"
  /\ AdmitWoken(n)
  /\ st' = [st EXCEPT ![n] = "running"]
  /\ ran' = ran \cup {n}
  /\ UNCHANGED <<plan, phase, layer, result, round>>

\* The runner returns, times out or raises; the outcome is recorded and the run released.
Finish(n) ==
  /\ st[n] = "running"
  /\ \E r \in {"COMPLETED", "FAILED"} : result' = [result EXCEPT ![n] = r]
  /\ st' = [st EXCEPT ![n] = "done"]
  /\ Release(n)
  /\ UNCHANGED <<plan, phase, layer, ran, round>>

\* reliability.record() raises in the finally block: release() is not reached, gather()
\* hands the error to execute() at once, and the siblings go on by themselves.
RecordRaises(n) ==
  /\ Recording
  /\ st[n] = "running"
  /\ st' = [st EXCEPT ![n] = "done"]
  /\ Leak(n)
  /\ phase' = IF phase = "gather" THEN "raised" ELSE phase
  /\ UNCHANGED <<plan, layer, result, ran, round>>

\* Mutant of EndLayer: the layer ends with its first node.
EndLayerEarly ==
  /\ phase = "gather"
  /\ \E n \in Layer(layer) : st[n] = "done"
  /\ \/ layer < LastLayer /\ layer' = layer + 1 /\ phase' = "classify"
     \/ layer = LastLayer /\ phase' = "reported" /\ UNCHANGED layer
  /\ UNCHANGED <<pool, plan, st, result, ran, round>>

\* gather() returns: the next layer, or the report.
EndLayer ==
  /\ phase = "gather"
  /\ \A n \in Layer(layer) : st[n] = "done"
  /\ \/ layer < LastLayer /\ layer' = layer + 1 /\ phase' = "classify"
     \/ layer = LastLayer /\ phase' = "reported" /\ UNCHANGED layer
  /\ UNCHANGED <<pool, plan, st, result, ran, round>>

\* The task that awaits execute() is cancelled: gather() cancels every node of the layer.
\* CancelledError is no Exception, so _run_one() leaves without release().
Cancel ==
  /\ phase = "gather"
  /\ phase' = "cancelled"
  /\ st' = [n \in Node |-> IF st[n] = "new" THEN "new" ELSE "done"]
  /\ CancelAll
  /\ UNCHANGED <<plan, layer, result, ran, round>>

\* The plan is executed again on the same pool, once nothing of the last call is left.
Again ==
  /\ phase \in {"reported", "raised", "cancelled"}
  /\ \A n \in Node : st[n] \in {"new", "done"}
  /\ round < MaxRounds
  /\ round' = round + 1
  /\ phase' = "new"
  /\ layer' = 0
  /\ st' = [n \in Node |-> "new"]
  /\ result' = [n \in Node |-> "none"]
  /\ ran' = {}
  /\ UNCHANGED <<pool, plan>>

Step == Launch \/ Classify \/ EndLayer
NodeStep(n) == Begin(n) \/ Resume(n) \/ Finish(n)

Next == Step \/ Cancel \/ Again \/ \E n \in Node : NodeStep(n) \/ RecordRaises(n)

Spec == Init /\ [][Next]_vars

\* The event loop runs every coroutine that can go on, and runners return.
FairSpec == Spec /\ WF_vars(Step) /\ \A n \in Node : WF_vars(NodeStep(n))

-------------------------------------------------------------------------------
(* Properties.                                                             *)

(* Every slot is somewhere: free, handed to a waiter, held by a run, or leaked;   *)
(* the live runs never exceed max_concurrent (agent_pool.py:91), and a waiter is  *)
(* never left behind while a slot is free and nobody is on the way to wake it.    *)
SlotsConserved ==
  /\ value + Cardinality(woken) + Cardinality(live) + leaked = MaxConcurrent
  /\ queue # <<>> /\ value > 0 => woken # {}
  /\ live = {n \in Node : st[n] = "running"}

(* A runner is started only on complete evidence: every dependency of its node    *)
(* completed, whatever fails, waits or is refused meanwhile.                      *)
EvidenceFirst == \A n \in ran : deps[n] \subseteq Completed

(* A node that fails without having run has a dependency that did not complete,   *)
(* or was refused for the session total: the layering never costs a node its run. *)
FailsForCause ==
  \A n \in Node : result[n] = "FAILED" /\ n \notin ran =>
    Exhausted \/ \E d \in deps[n] : st[d] = "done" /\ result[d] # "COMPLETED"

(* A report accounts for every node: when execute() returns, each has a result,   *)
(* none is still at work, and what completed is closed under dependencies.        *)
ReportComplete ==
  phase = "reported" =>
    \A n \in Node :
      /\ st[n] = "done" /\ result[n] # "none"
      /\ result[n] = "COMPLETED" => n \in ran /\ deps[n] \subseteq Completed

(* execute() returns, unless the slots leaked by earlier cancellations or failed  *)
(* records are all the pool had.                                                  *)
ExecuteEnds == (phase \in {"classify", "gather"}) ~>
                 (phase \notin {"classify", "gather"} \/ leaked = MaxConcurrent)

(* "session totals never exceed limits.max_total" (agent_pool.py:91).             *)
TotalBounded == spawned <= MaxTotal
===============================================================================

-------------------------------- MODULE Plans --------------------------------
(* Goals, and the plans bound to them (runtime/goal.py, runtime/plan.py): the    *)
(* goal's lifecycle, the validation of a plan's dependency graph, whose search   *)
(* for a cycle goes step by step, and its topological order.  Names are numbers, *)
(* so that the sorted order of ids is theirs.                                    *)
EXTENDS Naturals, Sequences, FiniteSets, SequencesExt, FiniteSetsExt

CONSTANTS GoalId,
          TaskId,    \* ids of task nodes: a set of numbers
          Stranger   \* an id that is no node of any plan

ASSUME PlansAssumption == TaskId \subseteq Nat /\ Stranger \in Nat \ TaskId /\ GoalId # {}

VARIABLES goals,    \* the status of each goal, "absent" before it is created
          plan,     \* the last plan asked for: [goal, deps], deps a function on its nodes
          outcome,  \* of that: [kind, cycle]
          path,     \* of the search: the grey nodes, in the order they are visited from
          pending,  \* the loops of the search: the nodes each has yet to come to
          black     \* the black nodes, in the order they turned black

searchVars == <<path, pending, black>>
planVars == <<goals, plan, outcome, searchVars>>

Outcome(k, c) == [kind |-> k, cycle |-> c]

PlansInit ==
  /\ goals = [g \in GoalId |-> "absent"]
  /\ plan = [goal |-> CHOOSE g \in GoalId : TRUE, deps |-> <<>>]
  /\ outcome = Outcome("none", <<>>)
  /\ path = <<>> /\ pending = <<{}>> /\ black = <<>>

\* validate() is at work; it is one synchronous call.
Searching == outcome.kind = "searching"

-----------------------------------------------------------------------------
(* GoalManager.                                                                  *)

Becomes(g, to) ==
  /\ ~Searching
  /\ goals' = [goals EXCEPT ![g] = to]
  /\ UNCHANGED <<plan, outcome, searchVars>>

CreateGoal(g) == goals[g] = "absent" /\ Becomes(g, "DRAFT")
activate(g) == goals[g] = "DRAFT" /\ Becomes(g, "ACTIVE")
achieve(g) == goals[g] = "ACTIVE" /\ Becomes(g, "ACHIEVED")

\* An abandoned goal may be abandoned again; an achieved one may not.
abandon(g) == goals[g] \notin {"absent", "ACHIEVED"} /\ Becomes(g, "ABANDONED")

-----------------------------------------------------------------------------
(* Plan.validate().                                                              *)

\* Mutant of Roots: only what the first node depends on is searched.
FirstRoot(deps) == {n \in DOMAIN deps : \A m \in DOMAIN deps : n <= m}

\* _find_cycle() goes through all nodes.
Roots(deps) == DOMAIN deps

\* PlanEngine.create(): a goal that is not active makes no plan.  A node never depends
\* on itself (TaskNode refuses it).
PlanFor(g) ==
  \E nodes \in SUBSET TaskId :
    \E deps \in [nodes -> SUBSET (TaskId \cup {Stranger})] :
      /\ ~Searching /\ goals[g] # "absent"
      /\ IsFiniteSet(nodes) /\ \A n \in nodes : n \notin deps[n]
      /\ plan' = [goal |-> g, deps |-> deps]
      /\ outcome' = Outcome(IF goals[g] # "ACTIVE" THEN "goal not active"
                            ELSE IF nodes = {} THEN "empty"
                            ELSE IF \E n \in nodes : ~(deps[n] \subseteq nodes) THEN "unknown task"
                            ELSE "searching", <<>>)
      /\ path' = <<>> /\ pending' = <<Roots(deps)>> /\ black' = <<>>
      /\ UNCHANGED goals

\* The innermost loop has come to node d, in the sorted order: it is grey, and what is
\* behind it on the path is a cycle; or it has been visited; or it is visited now.
Inner == pending[Len(pending)]
Left(d) == [pending EXCEPT ![Len(pending)] = @ \ {d}]

CycleFound(d) ==
  /\ \E i \in DOMAIN path :
       path[i] = d /\ outcome' = Outcome("cycle", SubSeq(path, i, Len(path)))
  /\ UNCHANGED <<goals, plan, searchVars>>

PassOver(d) ==
  /\ d \in ToSet(black)
  /\ pending' = Left(d)
  /\ UNCHANGED <<goals, plan, outcome, path, black>>

visit(d) ==
  /\ d \notin ToSet(path) \cup ToSet(black)
  /\ path' = Append(path, d)
  /\ pending' = Append(Left(d), plan.deps[d])
  /\ UNCHANGED <<goals, plan, outcome, black>>

LookAt(d) == CycleFound(d) \/ PassOver(d) \/ visit(d)

\* A visit whose loop is over: the node turns black.
Leave ==
  /\ Inner = {} /\ path # <<>>
  /\ black' = Append(black, path[Len(path)])
  /\ path' = Front(path) /\ pending' = Front(pending)
  /\ UNCHANGED <<goals, plan, outcome>>

\* Plan._reachable_from_roots(): the least set that has every node it has all
\* dependencies of, those without any to begin with.
_reachable_from_roots(deps) ==
  {n \in DOMAIN deps : \A seen \in SUBSET DOMAIN deps :
     (\A m \in DOMAIN deps : deps[m] \subseteq seen => m \in seen) => n \in seen}

\* The outermost loop is over: there is no cycle; now the orphans.
SearchEnds ==
  /\ Inner = {} /\ path = <<>>
  /\ outcome' = Outcome(
       IF DOMAIN plan.deps \ _reachable_from_roots(plan.deps) # {} THEN "orphans" ELSE "made", <<>>)
  /\ UNCHANGED <<goals, plan, searchVars>>

_find_cycle ==
  /\ Searching
  /\ (Inner # {} /\ LookAt(Min(Inner))) \/ Leave \/ SearchEnds

PlansNext ==
  \/ \E g \in GoalId : CreateGoal(g) \/ activate(g) \/ achieve(g) \/ abandon(g) \/ PlanFor(g)
  \/ _find_cycle

PlansSpec == PlansInit /\ [][PlansNext]_planVars

\* Plan.topological_order(): Kahn's algorithm.  The first of the nodes all of whose
\* dependencies have been taken is taken next, until there is none.
Frontier(deps, placed) == {n \in DOMAIN deps \ placed : deps[n] \subseteq placed}
Placed(order, k) == {order[i] : i \in 1 .. k}

Kahn(deps, order) ==
  \A k \in DOMAIN order :
    Frontier(deps, Placed(order, k - 1)) # {} /\ order[k] = Min(Frontier(deps, Placed(order, k - 1)))

topological_order(deps) ==
  CHOOSE order \in UNION {[1 .. k -> DOMAIN deps] : k \in 0 .. Cardinality(DOMAIN deps)} :
    Kahn(deps, order) /\ Frontier(deps, ToSet(order)) = {}

-----------------------------------------------------------------------------
(* Reference definitions.                                                        *)

\* Some numbering of the nodes puts every node after those it depends on.
Orderings(deps) ==
  {o \in [1 .. Cardinality(DOMAIN deps) -> DOMAIN deps] :
     /\ \A i, j \in DOMAIN o : o[i] = o[j] => i = j
     /\ \A i \in DOMAIN o : deps[o[i]] \subseteq {o[j] : j \in 1 .. i - 1}}

\* "the graph must be acyclic ... never partially valid" (plan.py:76): a plan is made,
\* for a goal that has been active, exactly when its nodes are there and can be put in
\* an order; a cycle that is reported is one; and the search for orphans, which comes
\* last, never finds any.
GraphJudged ==
  LET deps == plan.deps
      closed == \A n \in DOMAIN deps : deps[n] \subseteq DOMAIN deps
      cycle == outcome.cycle IN
  outcome.kind \notin {"none", "goal not active", "searching"} =>
    /\ outcome.kind # "orphans" /\ goals[plan.goal] \notin {"absent", "DRAFT"}
    /\ outcome.kind = "made" <=> DOMAIN deps # {} /\ closed /\ Orderings(deps) # {}
    /\ outcome.kind = "cycle" =>
         /\ Orderings(deps) = {} /\ cycle # <<>>
         /\ \A i \in DOMAIN cycle : cycle[IF i = Len(cycle) THEN 1 ELSE i + 1] \in deps[cycle[i]]

\* "identical plans must produce identical orders" (plan.py:117): the order of a plan
\* that was made is the least of those in which every task follows its dependencies.
OrderIsLeast ==
  outcome.kind = "made" =>
    LET order == topological_order(plan.deps) IN
    /\ order \in Orderings(plan.deps)
    /\ \A o \in Orderings(plan.deps) :
         o # order => \E k \in DOMAIN order :
           order[k] < o[k] /\ \A i \in 1 .. k - 1 : order[i] = o[i]

\* A plan that is made is sound, and is run in an order that everybody computes.
PlansSound == GraphJudged /\ OrderIsLeast
=============================================================================

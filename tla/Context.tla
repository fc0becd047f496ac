------------------------------- MODULE Context -------------------------------
(* Context assembly under a token budget (runtime/context.py): what of a         *)
(* conversation is sent.  A segment is its text, its cost and whether it is      *)
(* protected; two segments with the same text are equal, and the last step of    *)
(* the assembly puts each where the first equal one stood.                       *)
EXTENDS Integers, Sequences, FiniteSets

CONSTANTS Segment,      \* [text, cost, protected]
          Budget,       \* token budgets asked for
          MaxSegments   \* (bound)

ASSUME ContextAssumption ==
  /\ \A s \in Segment : s.cost \in Nat \ {0} /\ s.protected \in BOOLEAN
  /\ Budget \subseteq Nat \ {0} /\ MaxSegments \in Nat

VARIABLE segments  \* the conversation so far, oldest first

ContextInit == segments = <<>>

Say(s) ==
  /\ Len(segments) < MaxSegments
  /\ segments' = Append(segments, s)

ContextNext == \E s \in Segment : Say(s)

ContextSpec == ContextInit /\ [][ContextNext]_segments

-----------------------------------------------------------------------------
\* The tokens of what stands at these places of a conversation, one by one.
Tokens(s, places) == UNION {{i} \X (1 .. s[i].cost) : i \in places}
CostOf(s, places) == Cardinality(Tokens(s, places))

Protected == {i \in DOMAIN segments : segments[i].protected}
Droppable == DOMAIN segments \ Protected

\* ContextBudgetError.
Refused(budget) == CostOf(segments, Protected) > budget

\* The droppable ones from the newest on, each that still fits; what does not fit is
\* passed over, not the end of it.
Fits(budget, kept, i) ==
  CostOf(segments, Protected \cup {j \in kept : j > i} \cup {i}) <= budget

\* Mutant of Kept: the oldest first.
KeptOldest(budget) ==
  CHOOSE kept \in SUBSET Droppable : \A i \in Droppable :
    i \in kept <=> CostOf(segments, Protected \cup {j \in kept : j < i} \cup {i}) <= budget

Kept(budget) ==
  CHOOSE kept \in SUBSET Droppable : \A i \in Droppable : i \in kept <=> Fits(budget, kept, i)

\* segments.index()
Index(s) == CHOOSE i \in DOMAIN segments : segments[i] = s /\ \A j \in 1 .. i - 1 : segments[j] # s

\* What stands at these places, sorted by a key; Python's sort is stable.
InFront(places, key, i) == {j \in places : key[j] < key[i] \/ (key[j] = key[i] /\ j < i)}
Nth(places, key, n) == CHOOSE i \in places : Cardinality(InFront(places, key, i)) = n - 1
Sorted(places, key) == [n \in 1 .. Cardinality(places) |-> segments[Nth(places, key, n)]]

InPlace(places) == Sorted(places, [i \in places |-> i])

\* assemble(), unless it is refused.
assemble(budget) ==
  LET chosen == Protected \cup Kept(budget) IN
  Sorted(chosen, [i \in chosen |-> Index(segments[i])])

-----------------------------------------------------------------------------
\* "Protected segments always survive, in their original order" and the newest fill the
\* rest (context.py:64): what is sent holds every protected segment, keeps to the
\* budget, leaves out no segment for an older one of the same cost or more, and is in
\* the order of the conversation, unless something was said twice.
AssembledInOrder ==
  \A budget \in Budget : ~Refused(budget) =>
    LET sent == assemble(budget)
        chosen == Protected \cup Kept(budget)
        twice == \E i \in chosen, j \in DOMAIN segments : i # j /\ segments[i] = segments[j] IN
    /\ Len(sent) = Cardinality(chosen)
    /\ \A i \in Protected : \E n \in DOMAIN sent : sent[n] = segments[i]
    /\ CostOf(sent, DOMAIN sent) <= budget
    /\ \A i \in Droppable \ chosen, j \in Droppable \cap chosen :
         j < i => segments[j].cost < segments[i].cost
    /\ twice \/ sent = InPlace(chosen)
=============================================================================

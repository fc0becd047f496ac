--------------------------- MODULE TaskStoreProofs ---------------------------
(***************************************************************************)
(* Theorems about TaskStore, for every value of its constants.             *)
(*                                                                         *)
(* For any number of surfaces: type correctness, FreshUpdatesLegal and     *)
(* TerminalSafe.  For one surface (the assumption Serial), with crashes:   *)
(* the store implements TaskLifecycle, the journal agrees with the table,  *)
(* and, when the listing holds all tasks (the assumption NoWindow), the    *)
(* kill switch and the recovery pass are complete.                         *)
(***************************************************************************)
EXTENDS TaskStore, FiniteSetTheorems, TLAPS

\* One indivisible step of some surface, or a stutter.
StepOf(s) == Begin(s) \/ Work(s) \/ Crash(s) \/ Restart(s)

-------------------------------------------------------------------------------
(* Lemmas about the operators the actions are built from.                  *)

\* The legal table is a table of task states, and lists no way out of the two
\* terminal states and no way out of a missing row.
LEMMA TableFacts ==
  /\ DOMAIN LegalTargets = TaskState \cup {"ABSENT"}
  /\ \A x \in TaskState \cup {"ABSENT"} : LegalTargets[x] \subseteq TaskState
  /\ \A x \in TaskState \cup {"ABSENT"}, y \in TaskState :
       Legal(x, y) => x \notin Terminal /\ x # "ABSENT" /\ (x = "FAILED" <=> y = "QUEUED")
  /\ \A x \in TaskState : StateEvent[x] \in TaskEvent
BY DEF LegalTargets, TaskState, Legal, Terminal, StateEvent, TaskEvent

\* What ends a call, or moves its loop on, keeps the types of the local state.
LEMMA LeaveType ==
  ASSUME TypeOK, NEW s \in Surface, NEW step \in Step, Leave(s, step)
  PROVE  /\ pc' \in [Surface -> Step]
         /\ call' \in [Surface -> Call]
         /\ item' \in [Surface -> Task \cup {NoTask}]
         /\ target' \in [Surface -> TaskState]
         /\ snap' \in [Surface -> Row]
         /\ todo' \in [Surface -> SUBSET Task]
         /\ done' \in [Surface -> SUBSET Task]
BY DEF TypeOK, Leave, Call, TaskState, Row, NoRow

LEMMA LoopType ==
  ASSUME TypeOK, NEW s \in Surface, NEW rest \in SUBSET Task, NEW cancelled \in SUBSET Task,
         Loop(s, rest, cancelled)
  PROVE  /\ pc' \in [Surface -> Step]
         /\ call' \in [Surface -> Call]
         /\ item' \in [Surface -> Task \cup {NoTask}]
         /\ target' \in [Surface -> TaskState]
         /\ snap' \in [Surface -> Row]
         /\ todo' \in [Surface -> SUBSET Task]
         /\ done' \in [Surface -> SUBSET Task]
<1>1. CASE \E t \in rest :
             /\ item' = [item EXCEPT ![s] = t]
             /\ todo' = [todo EXCEPT ![s] = rest \ {t}]
             /\ Goto(s, "get")
             /\ done' = [done EXCEPT ![s] = cancelled]
             /\ UNCHANGED <<call, target, snap>>
  BY <1>1 DEF TypeOK, Goto, Step
<1>2. CASE /\ Goto(s, "audit")
           /\ item' = [item EXCEPT ![s] = NoTask]
           /\ done' = [done EXCEPT ![s] = cancelled]
           /\ UNCHANGED <<call, target, snap, todo>>
  BY <1>2 DEF TypeOK, Goto, Step
<1>3. CASE Leave(s, "idle")
  BY <1>3, LeaveType DEF Step
<1>4. QED
  BY <1>1, <1>2, <1>3 DEF Loop

LEMMA EnterType ==
  ASSUME TypeOK, NEW s \in Surface, NEW name \in Call, NEW step \in Step,
         NEW t \in Task \cup {NoTask}, NEW x \in TaskState, Enter(s, name, step, t, x)
  PROVE  /\ pc' \in [Surface -> Step]
         /\ call' \in [Surface -> Call]
         /\ item' \in [Surface -> Task \cup {NoTask}]
         /\ target' \in [Surface -> TaskState]
         /\ snap' \in [Surface -> Row]
         /\ todo' \in [Surface -> SUBSET Task]
         /\ done' \in [Surface -> SUBSET Task]
BY DEF TypeOK, Enter

\* A write of a row of the right type keeps the table and its order well typed.
LEMMA PutType ==
  ASSUME TypeOK, NEW t \in Task, NEW row \in Row, Put(t, row)
  PROVE  rows' \in [Task -> Row] /\ newer' \in [Task -> SUBSET Task]
BY DEF TypeOK, Put, Touch

-------------------------------------------------------------------------------
(* Any number of surfaces.                                                 *)

\* The control of a call: what a surface knows at each of its steps.
CallOKAt(s) ==
  /\ call[s] = "none" <=> pc[s] \in {"idle", "down"}
  /\ pc[s] \in {"retryget", "get", "update", "emit", "flag"} => item[s] \in Task
  /\ pc[s] = "retryget" => call[s] = "retry"
  /\ pc[s] = "list" => call[s] \in {"kill", "recover"}
  /\ pc[s] \in {"get", "update"} => call[s] # "create"
  /\ pc[s] = "audit" => call[s] = "kill"
  /\ pc[s] = "flag" => call[s] = "recover"
  /\ call[s] \in {"create", "retry"} => target[s] = "QUEUED"
  /\ call[s] = "transition" => target[s] # "QUEUED"
  /\ call[s] = "kill" => target[s] = "CANCELLED"
  /\ call[s] = "recover" => target[s] = "RESUMABLE"
  /\ pc[s] = "update" => Legal(snap[s].state, target[s])

CallOK == \A s \in Surface : CallOKAt(s)

ControlInv == TypeOK /\ CallOK

\* Type correctness is inductive once the control of the calls is in it.
LEMMA TypeStep ==
  ASSUME ControlInv, [Next]_vars
  PROVE  TypeOK'
<1>0. TypeOK /\ CallOK
  BY DEF ControlInv
<1>1. CASE UNCHANGED vars
  BY <1>0, <1>1 DEF TypeOK, vars
<1>2. ASSUME NEW s \in Surface, StepOf(s)
      PROVE  TypeOK'
  <2> USE <1>0
  <2>1. ASSUME NEW t \in Task, Create(s, t)
        PROVE  TypeOK'
    <3>1. [state |-> "QUEUED", attempt |-> 1] \in Row
      BY DEF Row, TaskState
    <3>2. rows' \in [Task -> Row] /\ newer' \in [Task -> SUBSET Task]
      BY <2>1, <3>1, PutType DEF Create
    <3>3. "create" \in Call /\ "emit" \in Step /\ "QUEUED" \in TaskState
      BY DEF Call, Step, TaskState
    <3>4. Enter(s, "create", "emit", t, "QUEUED")
      BY <2>1 DEF Create
    <3>5. UNCHANGED journal
      BY <2>1 DEF Create
    <3>6. QED
      BY <3>2, <3>3, <3>4, <3>5, EnterType DEF TypeOK, journal
  <2>2. ASSUME NEW t \in Task, NEW x \in Requests, BeginTransition(s, t, x)
        PROVE  TypeOK'
    <3>1. "transition" \in Call /\ "get" \in Step /\ x \in TaskState
      BY RequestsAssumption DEF Call, Step
    <3>2. QED
      BY <2>2, <3>1, EnterType DEF BeginTransition, TypeOK, store, journal
  <2>3. ASSUME NEW t \in Task, BeginRetry(s, t)
        PROVE  TypeOK'
    <3>1. "retry" \in Call /\ "retryget" \in Step /\ "QUEUED" \in TaskState
      BY DEF Call, Step, TaskState
    <3>2. QED
      BY <2>3, <3>1, EnterType DEF BeginRetry, TypeOK, store, journal
  <2>4. CASE BeginKill(s)
    <3>1. "kill" \in Call /\ "list" \in Step /\ "CANCELLED" \in TaskState
      BY DEF Call, Step, TaskState
    <3>2. QED
      BY <2>4, <3>1, EnterType DEF BeginKill, TypeOK, store, journal
  <2>5. CASE BeginRecover(s)
    <3>1. "recover" \in Call /\ "list" \in Step /\ "RESUMABLE" \in TaskState
      BY DEF Call, Step, TaskState
    <3>2. QED
      BY <2>5, <3>1, EnterType DEF BeginRecover, TypeOK, store, journal
  <2>6. CASE RetryGet(s)
    <3>1. CASE Leave(s, "idle")
      BY <2>6, <3>1, LeaveType DEF RetryGet, TypeOK, store, journal, Step
    <3>2. CASE Goto(s, "get") /\ UNCHANGED <<call, item, target, snap, todo, done>>
      BY <2>6, <3>2 DEF RetryGet, TypeOK, store, journal, Goto, Step
    <3>3. QED
      BY <2>6, <3>1, <3>2 DEF RetryGet
  <2>7. CASE List(s)
    <3>1. Picked(call[s]) \in SUBSET Task /\ {} \in SUBSET Task
      BY DEF Picked, Listed
    <3>2. QED
      BY <2>7, <3>1, LoopType DEF List, TypeOK, store, journal
  <2>8. CASE Get(s)
    <3>1. CASE Leave(s, "idle")
      BY <2>8, <3>1, LeaveType DEF Get, TypeOK, store, journal, Step
    <3>2. CASE /\ Goto(s, "update")
               /\ snap' = [snap EXCEPT ![s] = rows[item[s]]]
               /\ UNCHANGED <<call, item, target, todo, done>>
      <4>1. rows[item[s]] \in Row
        BY <2>8 DEF Get, TypeOK, CallOK, CallOKAt
      <4>2. QED
        BY <2>8, <3>2, <4>1 DEF Get, TypeOK, store, journal, Goto, Step
    <3>3. QED
      BY <2>8, <3>1, <3>2 DEF Get
  <2>9. CASE Update(s)
    <3>1. Written(s) \in Row /\ item[s] \in Task /\ NoRow \in Row
      BY <2>9 DEF Update, Written, Row, NoRow, TypeOK, CallOK, CallOKAt
    <3>2. rows' \in [Task -> Row] /\ newer' \in [Task -> SUBSET Task]
      BY <2>9, <3>1, PutType DEF Update
    <3>3. QED
      BY <2>9, <3>1, <3>2 DEF Update, TypeOK, journal, Goto, Step
  <2>10. CASE Emit(s)
    <3>1. /\ StateEvent[target[s]] \in TaskEvent
          /\ item[s] \in Task
      BY <2>10, TableFacts DEF Emit, TypeOK, CallOK, CallOKAt
    <3>2. last' \in [Task -> TaskEvent \cup {"none"}] /\ torn' \in SUBSET Task
      BY <2>10, <3>1 DEF Emit, Append, TypeOK
    <3>3. CASE Leave(s, "idle")
      BY <2>10, <3>2, <3>3, LeaveType DEF Emit, TypeOK, store, Step
    <3>4. CASE Loop(s, todo[s], done[s] \cup {item[s]})
      <4>1. todo[s] \in SUBSET Task /\ done[s] \cup {item[s]} \in SUBSET Task
        BY <3>1 DEF TypeOK
      <4>2. /\ pc' \in [Surface -> Step]
            /\ call' \in [Surface -> Call]
            /\ item' \in [Surface -> Task \cup {NoTask}]
            /\ target' \in [Surface -> TaskState]
            /\ snap' \in [Surface -> Row]
            /\ todo' \in [Surface -> SUBSET Task]
            /\ done' \in [Surface -> SUBSET Task]
        BY <3>4, <4>1, LoopType
      <4>3. QED
        BY <2>10, <3>2, <4>2 DEF Emit, TypeOK, store
    <3>5. CASE Goto(s, "flag") /\ UNCHANGED <<call, item, target, snap, todo, done>>
      BY <2>10, <3>2, <3>5 DEF Emit, TypeOK, store, Goto, Step
    <3>6. QED
      BY <2>10, <3>3, <3>4, <3>5 DEF Emit
  <2>11. CASE Flag(s)
    <3>1. last' \in [Task -> TaskEvent \cup {"none"}]
      BY <2>11 DEF Flag, Append, TypeOK, CallOK, CallOKAt, TaskEvent
    <3>2. todo[s] \in SUBSET Task /\ {} \in SUBSET Task
      BY DEF TypeOK
    <3>3. QED
      BY <2>11, <3>1, <3>2, LoopType DEF Flag, TypeOK, store
  <2>12. CASE Audit(s)
    <3>1. "idle" \in Step /\ done[s] \in SUBSET Task
      BY DEF Step, TypeOK
    <3>2. QED
      BY <2>12, <3>1, LeaveType DEF Audit, TypeOK, store
  <2>13. CASE Crash(s)
    <3>1. torn' \in SUBSET Task
      BY <2>13 DEF Crash, TypeOK, CallOK, CallOKAt
    <3>2. "down" \in Step
      BY DEF Step
    <3>3. QED
      BY <2>13, <3>1, <3>2, LeaveType DEF Crash, TypeOK, store
  <2>14. CASE Restart(s)
    BY <2>14 DEF Restart, TypeOK, store, journal, Goto, Step
  <2>15. QED
    BY <1>2, <2>1, <2>2, <2>3, <2>4, <2>5, <2>6, <2>7, <2>8, <2>9, <2>10, <2>11,
       <2>12, <2>13, <2>14 DEF StepOf, Begin, Work
<1>3. QED
  BY <1>1, <1>2 DEF Next, StepOf

\* A step of a surface leaves the call of any other surface alone, and starts or
\* ends its own as the control of that call says.
LEMMA CallStep ==
  ASSUME ControlInv, [Next]_vars
  PROVE  CallOK'
<1>0. TypeOK /\ CallOK
  BY DEF ControlInv
<1>1. CASE UNCHANGED vars
  BY <1>0, <1>1 DEF CallOK, CallOKAt, vars, Legal
<1>2. ASSUME NEW s \in Surface, StepOf(s), NEW p \in Surface
      PROVE  CallOKAt(p)'
  <2> USE <1>0
  <2>0. CallOKAt(p) /\ CallOKAt(s)
    BY DEF CallOK
  <2>1. ASSUME Leave(s, "idle") \/ Leave(s, "down")
        PROVE  CallOKAt(p)'
    BY <2>0, <2>1 DEF Leave, CallOKAt, TypeOK, Legal
  <2>2. ASSUME NEW rest \in SUBSET Task, NEW cancelled \in SUBSET Task,
               Loop(s, rest, cancelled), call[s] \in {"kill", "recover"}
        PROVE  CallOKAt(p)'
    <3>1. CASE \E t \in rest :
                 /\ item' = [item EXCEPT ![s] = t]
                 /\ todo' = [todo EXCEPT ![s] = rest \ {t}]
                 /\ Goto(s, "get")
                 /\ done' = [done EXCEPT ![s] = cancelled]
                 /\ UNCHANGED <<call, target, snap>>
      BY <2>0, <2>2, <3>1 DEF Goto, CallOKAt, TypeOK, Legal
    <3>2. CASE /\ call[s] = "kill"
               /\ Goto(s, "audit")
               /\ item' = [item EXCEPT ![s] = NoTask]
               /\ done' = [done EXCEPT ![s] = cancelled]
               /\ UNCHANGED <<call, target, snap, todo>>
      BY <2>0, <2>2, <3>2 DEF Goto, CallOKAt, TypeOK, Legal
    <3>3. QED
      BY <2>1, <2>2, <3>1, <3>2 DEF Loop
  <2>3. CASE Begin(s)
    BY <2>0, <2>3, RequestsAssumption
    DEF Begin, Create, BeginTransition, BeginRetry, BeginKill, BeginRecover, Enter,
        CallOKAt, TypeOK, Legal
  <2>4. CASE RetryGet(s)
    BY <2>0, <2>1, <2>4 DEF RetryGet, Goto, CallOKAt, TypeOK, Legal
  <2>5. CASE List(s)
    <3>1. Picked(call[s]) \in SUBSET Task /\ {} \in SUBSET Task
      BY DEF Picked, Listed
    <3>2. QED
      BY <2>0, <2>2, <2>5, <3>1 DEF List, CallOKAt
  <2>6. CASE Get(s)
    BY <2>0, <2>1, <2>6 DEF Get, Goto, MayMove, CallOKAt, TypeOK, Legal
  <2>7. CASE Update(s)
    BY <2>0, <2>7 DEF Update, Goto, CallOKAt, TypeOK, Legal
  <2>8. CASE Emit(s)
    <3>1. CASE call[s] = "kill" /\ Loop(s, todo[s], done[s] \cup {item[s]})
      <4>1. todo[s] \in SUBSET Task /\ done[s] \cup {item[s]} \in SUBSET Task
        BY <2>0, <2>8 DEF TypeOK, CallOKAt, Emit
      <4>2. QED
        BY <2>2, <3>1, <4>1
    <3>2. CASE /\ call[s] = "recover"
               /\ Goto(s, "flag")
               /\ UNCHANGED <<call, item, target, snap, todo, done>>
      BY <2>0, <2>8, <3>2 DEF Emit, Goto, CallOKAt, TypeOK, Legal
    <3>3. QED
      BY <2>1, <2>8, <3>1, <3>2 DEF Emit
  <2>9. CASE Flag(s)
    <3>1. todo[s] \in SUBSET Task /\ {} \in SUBSET Task
      BY DEF TypeOK
    <3>2. QED
      BY <2>0, <2>2, <2>9, <3>1 DEF Flag, CallOKAt
  <2>10. CASE Audit(s)
    BY <2>1, <2>10 DEF Audit
  <2>11. CASE Crash(s)
    BY <2>1, <2>11 DEF Crash
  <2>12. CASE Restart(s)
    BY <2>0, <2>12 DEF Restart, Goto, CallOKAt, TypeOK, Legal
  <2>13. QED
    BY <1>2, <2>3, <2>4, <2>5, <2>6, <2>7, <2>8, <2>9, <2>10, <2>11, <2>12 DEF StepOf, Work
<1>3. QED
  BY <1>1, <1>2 DEF Next, StepOf, CallOK

LEMMA ControlInit == Init => ControlInv
BY DEF Init, ControlInv, TypeOK, CallOK, CallOKAt, Step, Call, TaskState, TaskEvent, Row,
       NoRow, Legal

LEMMA ControlInvariant == Spec => []ControlInv
<1>1. ControlInv /\ [Next]_vars => ControlInv'
  BY TypeStep, CallStep DEF ControlInv
<1>2. QED
  BY <1>1, ControlInit, PTL DEF Spec

\* TaskStore, any number of surfaces, crashes included: the variables keep their
\* types (in particular no call ever works on a task that is not there).
THEOREM TypeCorrect == Spec => []TypeOK
<1>1. ControlInv => TypeOK
  BY DEF ControlInv
<1>2. QED
  BY <1>1, ControlInvariant, PTL

\* transition(), any number of surfaces: an UPDATE that finds the row in the state
\* it was read in follows the legal table.  Every illegal move is a lost update.
THEOREM FreshUpdates == Spec => FreshUpdatesLegal
<1>1. ASSUME ControlInv, [Next]_vars
      PROVE  [FreshUpdateLegal]_vars
  <2>1. ASSUME NEW s \in Surface, Update(s), snap[s].state = rows[item[s]].state
        PROVE  Legal(rows[item[s]].state, rows'[item[s]].state)
    <3>1. Legal(snap[s].state, target[s]) /\ item[s] \in Task
      BY <1>1, <2>1 DEF ControlInv, CallOK, CallOKAt, Update
    <3>2. rows'[item[s]].state = target[s]
      BY <1>1, <2>1, <3>1 DEF ControlInv, TypeOK, Update, Put, Written
    <3>3. QED
      BY <2>1, <3>1, <3>2
  <2>2. QED
    BY <2>1 DEF FreshUpdateLegal
<1>2. QED
  BY <1>1, ControlInvariant, PTL DEF Spec, FreshUpdatesLegal

\* cancel, complete, any number of surfaces: a COMPLETED or CANCELLED task with no
\* UPDATE on its way to it is final.
THEOREM TerminalTasksSafe == Spec => TerminalSafe
<1>1. ASSUME ControlInv, [Next]_vars
      PROVE  [TerminalKept]_vars
  <2>0. TypeOK /\ CallOK
    BY <1>1 DEF ControlInv
  <2>1. ASSUME NEW s \in Surface, StepOf(s), NEW t \in Task, Settled(t)
        PROVE  rows'[t] = rows[t]
    <3>1. CASE Begin(s)
      BY <2>0, <2>1, <3>1
      DEF Begin, Create, BeginTransition, BeginRetry, BeginKill, BeginRecover, store, Put,
          Exists, Terminal, Settled, TypeOK
    <3>2. CASE Update(s)
      BY <2>0, <2>1, <3>2 DEF Update, Put, Settled, TypeOK
    <3>3. CASE RetryGet(s) \/ List(s) \/ Get(s) \/ Emit(s) \/ Flag(s) \/ Audit(s)
      BY <3>3 DEF RetryGet, List, Get, Emit, Flag, Audit, store
    <3>4. CASE Crash(s) \/ Restart(s)
      BY <3>4 DEF Crash, Restart, store
    <3>5. QED
      BY <2>1, <3>1, <3>2, <3>3, <3>4 DEF StepOf, Work
  <2>2. ASSUME NEW s \in Surface, StepOf(s), NEW t \in Task, Settled(t), NEW p \in Surface,
               pc'[p] = "update", item'[p] = t
        PROVE  FALSE
    <3>1. CASE Get(s) /\ MayMove(rows[item[s]].state, target[s])
      <4>1. rows[item[s]].state \in TaskState \cup {"ABSENT"} /\ target[s] \in TaskState
        BY <2>0, <3>1 DEF Get, CallOK, CallOKAt, TypeOK, Row
      <4>2. rows[item[s]].state \notin Terminal
        BY <3>1, <4>1, TableFacts DEF MayMove
      <4>3. item[s] # t
        BY <2>2, <4>2 DEF Settled
      <4>4. QED
        BY <2>0, <2>2, <3>1, <4>3 DEF Get, Goto, Settled, TypeOK
    <3>2. CASE Leave(s, "idle") \/ Leave(s, "down")
      BY <2>0, <2>2, <3>2 DEF Leave, Settled, TypeOK
    <3>3. CASE \E rest \in SUBSET Task : \E cancelled : Loop(s, rest, cancelled)
      BY <2>0, <2>2, <3>2, <3>3 DEF Loop, Goto, Settled, TypeOK
    <3>4. CASE Begin(s)
      BY <2>0, <2>2, <3>4
      DEF Begin, Create, BeginTransition, BeginRetry, BeginKill, BeginRecover, Enter,
          Settled, TypeOK
    <3>5. CASE RetryGet(s) \/ Update(s) \/ Restart(s)
      BY <2>0, <2>2, <3>2, <3>5 DEF RetryGet, Update, Restart, Goto, Settled, TypeOK
    <3>6. CASE List(s)
      BY <3>3, <3>6 DEF List, Picked, Listed
    <3>7. CASE Flag(s)
      BY <2>0, <3>3, <3>7 DEF Flag, TypeOK
    <3>8. CASE Emit(s)
      BY <2>0, <2>2, <3>2, <3>3, <3>8 DEF Emit, Goto, Settled, TypeOK
    <3>9. CASE Audit(s) \/ Crash(s) \/ (Get(s) /\ ~MayMove(rows[item[s]].state, target[s]))
      BY <3>2, <3>9 DEF Audit, Crash, Get
    <3>10. QED
      BY <2>2, <3>1, <3>4, <3>5, <3>6, <3>7, <3>8, <3>9 DEF StepOf, Work
  <2>3. ASSUME NEW s \in Surface, StepOf(s), NEW t \in Task, Settled(t)
        PROVE  Settled(t)' /\ rows'[t] = rows[t]
    BY <2>1, <2>2, <2>3 DEF Settled
  <2>4. CASE UNCHANGED vars
    BY <2>4
  <2>5. CASE Next
    BY <2>3, <2>5 DEF Next, StepOf, TerminalKept
  <2>6. QED
    BY <1>1, <2>4, <2>5
<1>2. QED
  BY <1>1, ControlInvariant, PTL DEF Spec, TerminalSafe

-------------------------------------------------------------------------------
(* One surface at a time.                                                  *)

Serial == \A p, q \in Surface : p = q

\* With nobody else writing, what a call has read is still so when it uses it:
\* the record under an UPDATE, the check of retry(), the state it has just set.
FreshAt(s) ==
  /\ pc[s] = "update" => snap[s] = rows[item[s]]
  /\ (pc[s] \in {"get", "update"} /\ call[s] = "retry") => RetryAllowed(rows[item[s]])
  /\ pc[s] = "emit" => rows[item[s]].state = target[s]
  /\ pc[s] = "flag" => rows[item[s]].state = "RESUMABLE"
  /\ \A t \in done[s] : rows[t].state = "CANCELLED"

Fresh == \A s \in Surface : FreshAt(s)

SerialInv == ControlInv /\ Fresh /\ AuditMatchesTable /\ ReportStands

\* Every step of the store is a step of the abstract lifecycle, or leaves the
\* table as it is: only the INSERT of create() and the UPDATE of transition()
\* change it, and that UPDATE is the abstract Retry or the abstract Move.
LEMMA LifecycleStep ==
  ASSUME SerialInv, [Next]_vars
  PROVE  [LC!Next]_rows
<1>0. ControlInv /\ TypeOK /\ CallOK /\ Fresh
  BY DEF SerialInv, ControlInv
<1>1. CASE UNCHANGED vars
  BY <1>1 DEF vars
<1>2. ASSUME NEW s \in Surface, StepOf(s)
      PROVE  [LC!Next]_rows
  <2>1. ASSUME NEW t \in Task, Create(s, t)
        PROVE  LC!Next
    <3>1. LC!Create(t)
      BY <2>1 DEF Create, Put, Exists, LC!Create
    <3>2. QED
      BY <3>1 DEF LC!Next
  <2>2. CASE Update(s)
    <3>1. /\ CallOKAt(s)
          /\ FreshAt(s)
          /\ pc[s] = "update"
          /\ item[s] \in Task
          /\ rows[item[s]] \in Row
          /\ call[s] \in Call
          /\ target[s] \in TaskState
      BY <1>0, <2>2 DEF CallOK, CallOKAt, Fresh, Update, TypeOK
    <3>2. /\ snap[s] = rows[item[s]]
          /\ Legal(rows[item[s]].state, target[s])
          /\ rows' = [rows EXCEPT ![item[s]] = Written(s)]
      BY <2>2, <3>1 DEF FreshAt, CallOKAt, Update, Put
    <3>3. CASE call[s] = "retry"
      <4>1. /\ RetryAllowed(rows[item[s]])
            /\ target[s] = "QUEUED"
            /\ Written(s) = [state |-> "QUEUED", attempt |-> rows[item[s]].attempt + 1]
        BY <3>1, <3>2, <3>3 DEF FreshAt, CallOKAt, Written
      <4>2. LC!Retry(item[s])
        BY <3>2, <4>1 DEF LC!Retry, RetryAllowed
      <4>3. QED
        BY <3>1, <4>2 DEF LC!Next
    <3>4. CASE call[s] # "retry"
      <4>1. rows[item[s]].attempt + 0 = rows[item[s]].attempt
        BY <3>1 DEF Row
      <4>2. /\ target[s] # "QUEUED"
            /\ Written(s) = [state |-> target[s], attempt |-> rows[item[s]].attempt]
        BY <3>1, <3>2, <3>4, <4>1 DEF CallOKAt, Written, Call
      <4>3. LC!Move(item[s], target[s])
        BY <3>2, <4>2 DEF LC!Move, LC!Legal, LC!LegalTargets, Legal, LegalTargets
      <4>4. QED
        BY <3>1, <4>3 DEF LC!Next, LC!TaskState, TaskState
    <3>5. QED
      BY <3>3, <3>4
  <2>3. CASE \/ BeginKill(s) \/ BeginRecover(s)
             \/ \E t \in Task : BeginRetry(s, t)
             \/ \E t \in Task, x \in Requests : BeginTransition(s, t, x)
    BY <2>3 DEF BeginKill, BeginRecover, BeginRetry, BeginTransition, store
  <2>4. CASE RetryGet(s) \/ List(s) \/ Get(s) \/ Emit(s) \/ Flag(s) \/ Audit(s)
    BY <2>4 DEF RetryGet, List, Get, Emit, Flag, Audit, store
  <2>5. CASE Crash(s) \/ Restart(s)
    BY <2>5 DEF Crash, Restart, store
  <2>6. QED
    BY <1>2, <2>1, <2>2, <2>3, <2>4, <2>5 DEF StepOf, Begin, Work
<1>3. QED
  BY <1>1, <1>2 DEF Next, StepOf

\* A cancelled task is cancelled for good.
LEMMA CancelledStays ==
  ASSUME TypeOK, [LC!Next]_rows, NEW t \in Task, rows[t].state = "CANCELLED"
  PROVE  rows'[t].state = "CANCELLED"
<1>1. ASSUME NEW u \in Task, LC!Create(u)
      PROVE  rows'[t].state = "CANCELLED"
  BY <1>1 DEF LC!Create, TypeOK
<1>2. ASSUME NEW u \in Task, LC!Retry(u)
      PROVE  rows'[t].state = "CANCELLED"
  BY <1>2 DEF LC!Retry, TypeOK
<1>3. ASSUME NEW u \in Task, NEW x \in LC!TaskState, LC!Move(u, x)
      PROVE  rows'[t].state = "CANCELLED"
  <2>1. ~LC!Legal("CANCELLED", x)
    BY DEF LC!Legal, LC!LegalTargets
  <2>2. QED
    BY <1>3, <2>1 DEF LC!Move, TypeOK
<1>4. QED
  BY <1>1, <1>2, <1>3 DEF LC!Next

\* What ends a call keeps what it knew, and what a loop carries on with is as
\* fresh as the cancellations it has counted.
LEMMA LeaveFresh ==
  ASSUME TypeOK, Serial, NEW s \in Surface, Leave(s, "idle") \/ Leave(s, "down")
  PROVE  Fresh'
BY DEF Serial, TypeOK, Leave, Fresh, FreshAt

LEMMA LoopFresh ==
  ASSUME TypeOK, Serial, UNCHANGED rows, NEW s \in Surface, NEW rest \in SUBSET Task,
         NEW cancelled \in SUBSET Task, Loop(s, rest, cancelled),
         call[s] \in {"kill", "recover"}, \A t \in cancelled : rows[t].state = "CANCELLED"
  PROVE  Fresh'
<1>1. CASE \E t \in rest :
             /\ item' = [item EXCEPT ![s] = t]
             /\ todo' = [todo EXCEPT ![s] = rest \ {t}]
             /\ Goto(s, "get")
             /\ done' = [done EXCEPT ![s] = cancelled]
             /\ UNCHANGED <<call, target, snap>>
  BY <1>1 DEF Serial, TypeOK, Goto, Fresh, FreshAt
<1>2. CASE /\ Goto(s, "audit")
           /\ item' = [item EXCEPT ![s] = NoTask]
           /\ done' = [done EXCEPT ![s] = cancelled]
           /\ UNCHANGED <<call, target, snap, todo>>
  BY <1>2 DEF Serial, TypeOK, Goto, Fresh, FreshAt
<1>3. QED
  BY <1>1, <1>2, LeaveFresh DEF Loop

\* One conjunct of the invariant at a time; first, what the calls have read.
LEMMA FreshStep ==
  ASSUME SerialInv, Serial, [Next]_vars
  PROVE  Fresh'
<1>0. ControlInv /\ TypeOK /\ CallOK /\ Fresh
  BY DEF SerialInv, ControlInv
<1>1. CASE UNCHANGED vars
  BY <1>0, <1>1 DEF Fresh, FreshAt, vars, RetryAllowed
<1>2. ASSUME NEW s \in Surface, StepOf(s)
      PROVE  Fresh'
  <2> USE <1>0
  <2>0. CallOKAt(s) /\ FreshAt(s)
    BY DEF CallOK, Fresh
  <2>1. CASE Begin(s)
    <3>1. ASSUME NEW t \in Task, Create(s, t)
          PROVE  Fresh'
      BY <2>0, <3>1 DEF Create, Enter, Put, Exists, Serial, TypeOK, Fresh, FreshAt, CallOKAt
    <3>2. CASE \/ BeginKill(s) \/ BeginRecover(s)
               \/ \E t \in Task : BeginRetry(s, t)
               \/ \E t \in Task, x \in Requests : BeginTransition(s, t, x)
      BY <2>0, <3>2 DEF BeginKill, BeginRecover, BeginRetry, BeginTransition, Enter, store,
                        Serial, TypeOK, Fresh, FreshAt
    <3>3. QED
      BY <2>1, <3>1, <3>2 DEF Begin
  <2>2. CASE RetryGet(s)
    BY <2>0, <2>2, LeaveFresh DEF RetryGet, Goto, store, Serial, TypeOK, Fresh, FreshAt
  <2>3. CASE List(s)
    <3>1. Picked(call[s]) \in SUBSET Task /\ {} \in SUBSET Task
      BY DEF Picked, Listed
    <3>2. call[s] \in {"kill", "recover"} /\ UNCHANGED rows
      BY <2>0, <2>3 DEF List, CallOKAt, store
    <3>3. QED
      BY <2>3, <3>1, <3>2, LoopFresh DEF List
  <2>4. CASE Get(s)
    BY <2>0, <2>4, LeaveFresh DEF Get, Goto, store, Serial, TypeOK, Fresh, FreshAt, RetryAllowed
  <2>5. CASE Update(s)
    <3>1. /\ rows' = [rows EXCEPT ![item[s]] = Written(s)]
          /\ Written(s).state = target[s]
          /\ item[s] \in Task
      BY <2>0, <2>5 DEF Update, Put, Written, CallOKAt
    <3>2. \A t \in done[s] : rows'[t].state = "CANCELLED"
      <4>1. \A t \in done[s] : t \in Task /\ rows[t].state = "CANCELLED"
        BY <2>0 DEF FreshAt, TypeOK
      <4>2. ~Legal(rows[item[s]].state, target[s]) \/ item[s] \notin done[s]
        BY <4>1 DEF Legal, LegalTargets
      <4>3. Legal(rows[item[s]].state, target[s])
        BY <2>0, <2>5 DEF FreshAt, CallOKAt, Update
      <4>4. QED
        BY <3>1, <4>1, <4>2, <4>3 DEF TypeOK
    <3>3. QED
      BY <2>0, <2>5, <3>1, <3>2 DEF Update, Goto, Serial, TypeOK, Fresh, FreshAt
  <2>6. CASE Emit(s)
    <3>0. rows[item[s]].state = target[s] /\ item[s] \in Task /\ UNCHANGED rows
      BY <2>0, <2>6 DEF Emit, FreshAt, CallOKAt, store
    <3>1. CASE call[s] = "kill" /\ Loop(s, todo[s], done[s] \cup {item[s]})
      <4>1. todo[s] \in SUBSET Task /\ done[s] \cup {item[s]} \in SUBSET Task
        BY <3>0 DEF TypeOK
      <4>2. \A t \in done[s] \cup {item[s]} : rows[t].state = "CANCELLED"
        BY <2>0, <3>0, <3>1 DEF FreshAt, CallOKAt
      <4>3. QED
        BY <3>0, <3>1, <4>1, <4>2, LoopFresh
    <3>2. CASE /\ call[s] = "recover"
               /\ Goto(s, "flag")
               /\ UNCHANGED <<call, item, target, snap, todo, done>>
      BY <2>0, <3>0, <3>2 DEF Goto, Serial, TypeOK, Fresh, FreshAt, CallOKAt
    <3>3. QED
      BY <2>6, <3>1, <3>2, LeaveFresh DEF Emit
  <2>7. CASE Flag(s)
    <3>1. todo[s] \in SUBSET Task /\ {} \in SUBSET Task
      BY DEF TypeOK
    <3>2. call[s] = "recover" /\ UNCHANGED rows
      BY <2>0, <2>7 DEF Flag, CallOKAt, store
    <3>3. QED
      BY <2>7, <3>1, <3>2, LoopFresh DEF Flag
  <2>8. CASE Audit(s) \/ Crash(s)
    BY <2>8, LeaveFresh DEF Audit, Crash
  <2>9. CASE Restart(s)
    BY <2>0, <2>9 DEF Restart, Goto, store, Serial, TypeOK, Fresh, FreshAt
  <2>10. QED
    BY <1>2, <2>1, <2>2, <2>3, <2>4, <2>5, <2>6, <2>7, <2>8, <2>9 DEF StepOf, Work
<1>3. QED
  BY <1>1, <1>2 DEF Next, StepOf

\* The journal against the table: only an UPDATE or an INSERT can make them
\* differ, and it leaves its surface at "emit"; only a crash leaves "emit"
\* without the append, and it is remembered in torn.
LEMMA AuditStep ==
  ASSUME SerialInv, Serial, [Next]_vars
  PROVE  AuditMatchesTable'
<1>0. ControlInv /\ TypeOK /\ CallOK /\ Fresh /\ AuditMatchesTable
  BY DEF SerialInv, ControlInv
<1>1. CASE UNCHANGED vars
  BY <1>0, <1>1 DEF AuditMatchesTable, vars, Exists
<1>2. ASSUME NEW s \in Surface, StepOf(s)
      PROVE  AuditMatchesTable'
  <2> USE <1>0
  <2>0. CallOKAt(s) /\ FreshAt(s)
    BY DEF CallOK, Fresh
  <2>1. ASSUME NEW t \in Task, Create(s, t)
        PROVE  AuditMatchesTable'
    BY <2>1 DEF Create, Enter, Put, Exists, journal, Serial, TypeOK, AuditMatchesTable
  <2>2. CASE Update(s)
    BY <2>0, <2>2 DEF Update, Put, Goto, Exists, journal, Serial, TypeOK, AuditMatchesTable,
                      CallOKAt
  <2>3. CASE Emit(s)
    <3>1. /\ rows[item[s]].state = target[s]
          /\ last' = [last EXCEPT ![item[s]] = StateEvent[target[s]]]
          /\ torn' = torn \ {item[s]}
          /\ item[s] \in Task
          /\ UNCHANGED rows
      BY <2>0, <2>3 DEF Emit, Append, FreshAt, CallOKAt, store
    <3>2. StateEvent[target[s]] \in EventsOf(rows[item[s]].state)
      BY <3>1 DEF EventsOf
    <3>3. ASSUME NEW t \in Task, t # item[s], Exists(t), t \notin torn
          PROVE  last[t] \in EventsOf(rows[t].state)
      BY <3>3 DEF AuditMatchesTable, Serial
    <3>4. QED
      BY <3>1, <3>2, <3>3 DEF AuditMatchesTable, TypeOK, Exists
  <2>4. CASE Flag(s)
    <3>1. /\ rows[item[s]].state = "RESUMABLE"
          /\ last' = [last EXCEPT ![item[s]] = "TASK_INTERRUPTED"]
          /\ item[s] \in Task
          /\ pc[s] = "flag"
          /\ UNCHANGED <<rows, torn>>
      BY <2>0, <2>4 DEF Flag, Append, FreshAt, CallOKAt, store
    <3>2. "TASK_INTERRUPTED" \in EventsOf(rows[item[s]].state)
      BY <3>1 DEF EventsOf
    <3>3. ASSUME NEW t \in Task, t # item[s], Exists(t), t \notin torn
          PROVE  last[t] \in EventsOf(rows[t].state)
      BY <3>1, <3>3 DEF AuditMatchesTable, Serial
    <3>4. QED
      BY <3>1, <3>2, <3>3 DEF AuditMatchesTable, TypeOK, Exists
  <2>5. CASE Crash(s)
    BY <2>0, <2>5 DEF Crash, Leave, store, Exists, Serial, TypeOK, AuditMatchesTable
  <2>6. CASE /\ UNCHANGED <<rows, last, torn>>
             /\ pc[s] # "emit"
    BY <2>6 DEF Exists, Serial, AuditMatchesTable
  <2>7. CASE \/ BeginKill(s) \/ BeginRecover(s)
             \/ \E t \in Task : BeginRetry(s, t)
             \/ \E t \in Task, x \in Requests : BeginTransition(s, t, x)
    BY <2>6, <2>7 DEF BeginKill, BeginRecover, BeginRetry, BeginTransition, Enter, store, journal
  <2>8. CASE RetryGet(s) \/ List(s) \/ Get(s) \/ Audit(s) \/ Restart(s)
    BY <2>6, <2>8 DEF RetryGet, List, Get, Audit, Restart, store, journal
  <2>9. QED
    BY <1>2, <2>1, <2>2, <2>3, <2>4, <2>5, <2>7, <2>8 DEF StepOf, Begin, Work
<1>3. QED
  BY <1>1, <1>2 DEF Next, StepOf

\* The audit event lists tasks that were cancelled, and they stay cancelled.
LEMMA ReportStep ==
  ASSUME SerialInv, Serial, [Next]_vars
  PROVE  ReportStands'
<1>0. TypeOK /\ Fresh /\ ReportStands /\ [LC!Next]_rows
  BY LifecycleStep DEF SerialInv, ControlInv
<1>1. \A t \in Task : rows[t].state = "CANCELLED" => rows'[t].state = "CANCELLED"
  BY <1>0, CancelledStays
<1>2. report' = report \/ \E s \in Surface : report' = done[s]
  BY DEF Next, Begin, Work, Create, BeginKill, BeginRecover, BeginRetry, BeginTransition,
         RetryGet, List, Get, Update, Emit, Flag, Audit, Crash, Restart, journal, vars
<1>3. \A t \in report' : t \in Task /\ rows[t].state = "CANCELLED"
  BY <1>0, <1>2 DEF ReportStands, Fresh, FreshAt, TypeOK
<1>4. QED
  BY <1>1, <1>3 DEF ReportStands

LEMMA SerialInvariant ==
  ASSUME Serial
  PROVE  Spec => []SerialInv
<1>1. Init => SerialInv
  BY ControlInit DEF Init, SerialInv, Fresh, FreshAt, AuditMatchesTable, ReportStands, Exists,
                     NoRow
<1>2. SerialInv /\ [Next]_vars => SerialInv'
  <2>1. SerialInv => ControlInv
    BY DEF SerialInv
  <2>2. ControlInv /\ [Next]_vars => ControlInv'
    BY TypeStep, CallStep DEF ControlInv
  <2>3. QED
    BY <2>1, <2>2, FreshStep, AuditStep, ReportStep DEF SerialInv
<1>3. QED
  BY <1>1, <1>2, PTL DEF Spec

\* One surface, crashes included: cut into their steps, the calls are still the
\* indivisible operations of the contract.  The store implements TaskLifecycle.
THEOREM ImplementsLifecycle ==
  ASSUME Serial
  PROVE  Spec => Lifecycle
<1>1. Init => LC!Init
  BY DEF Init, LC!Init, NoRow, LC!NoRow
<1>2. SerialInv /\ [Next]_vars => [LC!Next]_rows
  BY LifecycleStep
<1>3. QED
  BY <1>1, <1>2, SerialInvariant, PTL DEF Spec, Lifecycle, LC!Spec

\* One surface: the journal names the state every task is in, up to events that a
\* crash between UPDATE and append has lost.
THEOREM JournalAgrees ==
  ASSUME Serial
  PROVE  Spec => []AuditMatchesTable
<1>1. SerialInv => AuditMatchesTable
  BY DEF SerialInv
<1>2. QED
  BY <1>1, SerialInvariant, PTL

\* One surface: the tasks of the newest KILLSWITCH_TRIGGERED event stay cancelled.
THEOREM CancelledReportStands ==
  ASSUME Serial
  PROVE  Spec => []ReportStands
<1>1. SerialInv => ReportStands
  BY DEF SerialInv
<1>2. QED
  BY <1>1, SerialInvariant, PTL

-------------------------------------------------------------------------------
(* One surface, and a listing that holds all tasks.                        *)

NoWindow == IsFiniteSet(Task) /\ Cardinality(Task) <= ListLimit

\* No task is listed before itself.
OrderOK == \A t \in Task : t \notin newer[t]

\* What is left for a batch loop: all that is still live, all that is in flight.
BatchAt(s) ==
  /\ (call[s] = "kill" /\ pc[s] \in {"get", "update"})
       => \A t \in Task : Live(t) => t \in todo[s] \cup {item[s]}
  /\ (call[s] = "kill" /\ pc[s] = "emit") => \A t \in Task : Live(t) => t \in todo[s]
  /\ pc[s] = "audit" => \A t \in Task : ~Live(t)
  /\ (call[s] = "recover" /\ pc[s] \in {"get", "update"})
       => \A t \in Task : rows[t].state \in InFlight => t \in todo[s] \cup {item[s]}
  /\ (call[s] = "recover" /\ pc[s] \in {"emit", "flag"})
       => \A t \in Task : rows[t].state \in InFlight => t \in todo[s]

Batch == \A s \in Surface : BatchAt(s)

BatchInv == SerialInv /\ OrderOK /\ Batch

\* list_tasks() returns every task when there are no more than its limit: the
\* tasks listed before t are among the others.
LEMMA ListingComplete ==
  ASSUME TypeOK, OrderOK, NoWindow, NEW t \in Task, Exists(t)
  PROVE  t \in Listed
<1>1. newer[t] \subseteq Task \ {t}
  BY DEF TypeOK, OrderOK
<1>2. IsFiniteSet(Task \ {t}) /\ Cardinality(Task \ {t}) = Cardinality(Task) - 1
  BY FS_RemoveElement DEF NoWindow
<1>3. Cardinality(newer[t]) <= Cardinality(Task \ {t})
  BY <1>1, <1>2, FS_Subset
<1>4. IsFiniteSet(newer[t]) /\ Cardinality(newer[t]) \in Nat /\ Cardinality(Task) \in Nat
  BY <1>1, <1>2, FS_Subset, FS_CardinalityType DEF NoWindow
<1>5. Cardinality(newer[t]) < ListLimit
  BY <1>2, <1>3, <1>4, LimitAssumption DEF NoWindow
<1>6. QED
  BY <1>5 DEF Listed

LEMMA OrderStep ==
  ASSUME TypeOK, CallOK, OrderOK, [Next]_vars
  PROVE  OrderOK'
<1>1. ASSUME NEW t \in Task, Touch(t)
      PROVE  OrderOK'
  BY <1>1 DEF Touch, OrderOK
<1>2. CASE UNCHANGED newer
  BY <1>2 DEF OrderOK
<1>3. ASSUME NEW s \in Surface, StepOf(s)
      PROVE  OrderOK'
  <2>1. ASSUME NEW t \in Task, Create(s, t)
        PROVE  OrderOK'
    BY <1>1, <2>1 DEF Create, Put
  <2>2. CASE Update(s)
    BY <1>1, <2>2 DEF Update, Put, CallOK, CallOKAt
  <2>3. CASE \/ BeginKill(s) \/ BeginRecover(s)
             \/ \E t \in Task : BeginRetry(s, t)
             \/ \E t \in Task, x \in Requests : BeginTransition(s, t, x)
    BY <1>2, <2>3 DEF BeginKill, BeginRecover, BeginRetry, BeginTransition, store
  <2>4. CASE \/ RetryGet(s) \/ List(s) \/ Get(s) \/ Emit(s) \/ Flag(s) \/ Audit(s)
             \/ Crash(s) \/ Restart(s)
    BY <1>2, <2>4 DEF RetryGet, List, Get, Emit, Flag, Audit, Crash, Restart, store
  <2>5. QED
    BY <1>3, <2>1, <2>2, <2>3, <2>4 DEF StepOf, Begin, Work
<1>4. QED
  BY <1>2, <1>3 DEF Next, StepOf, vars

\* The loop takes one record after the other, and leaves none it was given.
LEMMA LoopBatch ==
  ASSUME TypeOK, CallOK, Serial, UNCHANGED rows, NEW s \in Surface,
         NEW rest \in SUBSET Task, NEW cancelled \in SUBSET Task, Loop(s, rest, cancelled),
         call[s] = "kill" => \A t \in Task : Live(t) => t \in rest,
         call[s] = "recover" => \A t \in Task : rows[t].state \in InFlight => t \in rest
  PROVE  Batch'
<1>0. CallOKAt(s)
  BY DEF CallOK
<1>1. CASE \E t \in rest :
             /\ item' = [item EXCEPT ![s] = t]
             /\ todo' = [todo EXCEPT ![s] = rest \ {t}]
             /\ Goto(s, "get")
             /\ done' = [done EXCEPT ![s] = cancelled]
             /\ UNCHANGED <<call, target, snap>>
  BY <1>1 DEF Serial, TypeOK, Goto, Batch, BatchAt, Live
<1>2. CASE /\ rest = {} /\ call[s] = "kill"
           /\ Goto(s, "audit")
           /\ item' = [item EXCEPT ![s] = NoTask]
           /\ done' = [done EXCEPT ![s] = cancelled]
           /\ UNCHANGED <<call, target, snap, todo>>
  BY <1>2 DEF Serial, TypeOK, Goto, Batch, BatchAt, Live
<1>3. CASE Leave(s, "idle")
  BY <1>3 DEF Serial, TypeOK, Leave, Batch, BatchAt
<1>4. QED
  BY <1>1, <1>2, <1>3 DEF Loop

LEMMA BatchStep ==
  ASSUME BatchInv, Serial, NoWindow, [Next]_vars
  PROVE  Batch'
<1>0. TypeOK /\ CallOK /\ Fresh /\ OrderOK /\ Batch
  BY DEF BatchInv, SerialInv, ControlInv
<1>1. CASE UNCHANGED vars
  BY <1>0, <1>1 DEF Batch, BatchAt, vars, Live
<1>2. ASSUME NEW s \in Surface, StepOf(s)
      PROVE  Batch'
  <2> USE <1>0
  <2>0. CallOKAt(s) /\ FreshAt(s) /\ BatchAt(s)
    BY DEF CallOK, Fresh, Batch
  <2>1. CASE Begin(s)
    BY <2>1 DEF Begin, Create, BeginTransition, BeginRetry, BeginKill, BeginRecover, Enter,
                Serial, TypeOK, Batch, BatchAt
  <2>2. CASE Leave(s, "idle") \/ Leave(s, "down")
    BY <2>2 DEF Leave, Serial, TypeOK, Batch, BatchAt
  <2>3. CASE RetryGet(s)
    BY <2>0, <2>2, <2>3 DEF RetryGet, Goto, Serial, TypeOK, Batch, BatchAt, CallOKAt
  <2>4. CASE List(s)
    <3>1. Picked(call[s]) \in SUBSET Task /\ {} \in SUBSET Task
      BY DEF Picked, Listed
    <3>2. call[s] = "kill" => \A t \in Task : Live(t) => t \in Picked(call[s])
      <4>1. ASSUME NEW t \in Task, Live(t)
            PROVE  Exists(t)
        BY <4>1 DEF Live, LiveStates, Exists
      <4>2. QED
        BY <4>1, ListingComplete DEF Picked, Live
    <3>3. call[s] = "recover" =>
            \A t \in Task : rows[t].state \in InFlight => t \in Picked(call[s])
      <4>1. ASSUME NEW t \in Task, rows[t].state \in InFlight
            PROVE  Exists(t)
        BY <4>1 DEF InFlight, Exists
      <4>2. QED
        BY <4>1, ListingComplete DEF Picked
    <3>4. UNCHANGED rows /\ Loop(s, Picked(call[s]), {})
      BY <2>4 DEF List, store
    <3>5. QED
      BY <3>1, <3>2, <3>3, <3>4, LoopBatch
  <2>5. CASE Get(s)
    BY <2>0, <2>2, <2>5 DEF Get, Goto, store, Serial, TypeOK, Batch, BatchAt, Live
  <2>6. CASE Update(s)
    <3>1. /\ rows' = [rows EXCEPT ![item[s]] = Written(s)]
          /\ Written(s).state = target[s]
          /\ item[s] \in Task
      BY <2>0, <2>6 DEF Update, Put, Written, CallOKAt
    <3>2. call[s] = "kill" => ~Live(item[s])'
      BY <2>0, <2>6, <3>1 DEF Update, Live, LiveStates, CallOKAt, TypeOK
    <3>3. call[s] = "recover" => rows'[item[s]].state \notin InFlight
      BY <2>0, <3>1 DEF InFlight, CallOKAt, TypeOK
    <3>4. \A t \in Task : t # item[s] => rows'[t] = rows[t]
      BY <3>1 DEF TypeOK
    <3>5. pc[s] = "update" /\ pc' = [pc EXCEPT ![s] = "emit"] /\ UNCHANGED <<call, item, todo>>
      BY <2>6 DEF Update, Goto
    <3>6. BatchAt(s)'
      BY <2>0, <3>2, <3>3, <3>4, <3>5 DEF BatchAt, Live, TypeOK
    <3>7. QED
      BY <3>6 DEF Batch, Serial
  <2>7. CASE Emit(s)
    <3>0. item[s] \in Task /\ UNCHANGED rows /\ todo[s] \in SUBSET Task
      BY <2>0, <2>7 DEF Emit, CallOKAt, TypeOK, store
    <3>1. CASE call[s] = "kill" /\ Loop(s, todo[s], done[s] \cup {item[s]})
      <4>1. done[s] \cup {item[s]} \in SUBSET Task
        BY <3>0 DEF TypeOK
      <4>2. \A t \in Task : Live(t) => t \in todo[s]
        BY <2>0, <2>7, <3>1 DEF BatchAt, Emit
      <4>3. QED
        BY <3>0, <3>1, <4>1, <4>2, LoopBatch
    <3>2. CASE /\ call[s] = "recover"
               /\ Goto(s, "flag")
               /\ UNCHANGED <<call, item, target, snap, todo, done>>
      BY <2>0, <2>7, <3>0, <3>2 DEF Emit, Goto, Serial, TypeOK, Batch, BatchAt
    <3>3. QED
      BY <2>2, <2>7, <3>1, <3>2 DEF Emit
  <2>8. CASE Flag(s)
    <3>1. todo[s] \in SUBSET Task /\ {} \in SUBSET Task /\ UNCHANGED rows /\ call[s] = "recover"
      BY <2>0, <2>8 DEF TypeOK, Flag, store, CallOKAt
    <3>2. \A t \in Task : rows[t].state \in InFlight => t \in todo[s]
      BY <2>0, <2>8, <3>1 DEF BatchAt, Flag
    <3>3. Loop(s, todo[s], {})
      BY <2>8 DEF Flag
    <3>4. QED
      BY <3>1, <3>2, <3>3, LoopBatch
  <2>9. CASE Audit(s) \/ Crash(s)
    BY <2>2, <2>9 DEF Audit, Crash
  <2>10. CASE Restart(s)
    BY <2>0, <2>10 DEF Restart, Goto, Serial, TypeOK, Batch, BatchAt, CallOKAt
  <2>11. QED
    BY <1>2, <2>1, <2>3, <2>4, <2>5, <2>6, <2>7, <2>8, <2>9, <2>10 DEF StepOf, Work
<1>3. QED
  BY <1>1, <1>2 DEF Next, StepOf

LEMMA BatchInvariant ==
  ASSUME Serial, NoWindow
  PROVE  Spec => []BatchInv
<1>1. Init => OrderOK /\ Batch
  BY DEF Init, OrderOK, Batch, BatchAt
<1>2. BatchInv /\ [Next]_vars => OrderOK' /\ Batch'
  BY OrderStep, BatchStep DEF BatchInv, SerialInv, ControlInv
<1>3. SerialInv /\ OrderOK /\ Batch <=> BatchInv
  BY DEF BatchInv
<1>4. QED
  BY <1>1, <1>2, <1>3, SerialInvariant, PTL DEF Spec

\* KillSwitch.trigger(), one surface, no more tasks than the listing holds: when
\* the audit event is due no task is live, also after earlier triggers that died.
THEOREM KillSwitchCancelsAll ==
  ASSUME Serial, NoWindow
  PROVE  Spec => []KillSwitchComplete
<1>1. BatchInv => KillSwitchComplete
  BY DEF BatchInv, Batch, BatchAt, KillSwitchComplete
<1>2. QED
  BY <1>1, BatchInvariant, PTL

\* CrashRecovery.run(), under the same assumptions: after its last task is marked
\* no task is left in flight.
THEOREM RecoveryMarksAll ==
  ASSUME Serial, NoWindow
  PROVE  Spec => []RecoveryComplete
<1>1. BatchInv => RecoveryComplete
  <2>1. ASSUME BatchInv, NEW s \in Surface, pc[s] = "flag", todo[s] = {}
        PROVE  \A t \in Task : rows[t].state \notin InFlight
    <3>1. BatchAt(s) /\ CallOKAt(s)
      BY <2>1 DEF BatchInv, Batch, SerialInv, ControlInv, CallOK
    <3>2. QED
      BY <2>1, <3>1 DEF BatchAt, CallOKAt
  <2>2. QED
    BY <2>1 DEF RecoveryComplete
<1>2. QED
  BY <1>1, BatchInvariant, PTL

\* Both batch calls, under these assumptions, reach every task they are for.
THEOREM BatchesReachAll ==
  ASSUME Serial, NoWindow
  PROVE  Spec => []BatchesComplete
<1>1. KillSwitchComplete /\ RecoveryComplete => BatchesComplete
  BY DEF BatchesComplete
<1>2. QED
  BY <1>1, KillSwitchCancelsAll, RecoveryMarksAll, PTL

\* Any number of surfaces: every illegal move is a lost update, and what is finished
\* with no UPDATE on its way is final.
THEOREM SharedUpdatesSafe == Spec => UpdatesSafe
  BY FreshUpdates, TerminalTasksSafe DEF UpdatesSafe
===============================================================================

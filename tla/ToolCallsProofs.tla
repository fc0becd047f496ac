---------------------------- MODULE ToolCallsProofs ----------------------------
(***************************************************************************)
(* What ToolCalls guarantees for any number of threads, actions, attempts  *)
(* and ledger entries, under any rule lists: types, and that no handler    *)
(* starts without the consent it needs.  The invariant behind it: every    *)
(* entry that is GRANTED was granted by an operator with the action and    *)
(* the deadline it still carries.  Colliding creates do not break it: the  *)
(* entry they overwrite becomes PENDING.                                   *)
(***************************************************************************)
EXTENDS ToolCalls, TLAPS

\* A sleeping call has an attempt left; only a presented id is resolved.
Held ==
  \A w \in Worker :
    /\ pc[w] = "backoff" => attempt[w] < MaxAttempts
    /\ pc[w] = "resolve" => shown[w] # 0 /\ Needed(action[w])

Recorded ==
  \A i \in Id :
    requests[i].status = "GRANTED" =>
      [action |-> requests[i].action, until |-> requests[i].until] \in consent

IInv == TypeOK /\ Held /\ Recorded

(* Every action keeps the types: the counters stay in their ranges, a result is   *)
(* one the retry loop knows, a request keeps its shape.                           *)
LEMMA TypeStep == ASSUME TypeOK, Held, [Next]_vars PROVE TypeOK'
<1> USE AttemptsAssumption, ValidityAssumption, BoundsAssumption, ToolAssumption,
        WatchedAssumption, ActionAssumption
<1>0. AnyAction \in Action
  BY DEF AnyAction
<1>1. CASE UNCHANGED vars
  BY <1>1 DEF TypeOK, vars
<1>2. CASE Operate
  <2>1. CASE \E i \in Id : Grant(i)
    BY <2>1 DEF TypeOK, Grant, SetStatus, Request
  <2>2. CASE \E i \in Id : Deny(i)
    BY <2>2 DEF TypeOK, Deny, SetStatus, Request, history
  <2>3. CASE \E tool \in Watched : Quarantine(tool)
    BY <2>3 DEF TypeOK, Quarantine, ledger
  <2>4. CASE \E tool \in Watched : Lift(tool)
    BY <2>4 DEF TypeOK, Lift, ledger, history
  <2> QED BY <1>2, <2>1, <2>2, <2>3, <2>4 DEF Operate
<1>3. CASE Tick
  BY <1>3 DEF TypeOK, Tick, ledger, history
<1>4. ASSUME NEW w \in Worker, Call(w) PROVE TypeOK'
  <2>1. PICK a \in Job[w], i \in 0 .. MaxCreated : Execute(w, a, i)
    BY <1>4 DEF Call
  <2>2. a \in Action
    OBVIOUS
  <2>3. QED BY <2>1, <2>2 DEF Execute, Goto, TypeOK, Step, ledger, history
<1>5. ASSUME NEW w \in Worker, Work(w) PROVE TypeOK'
  <2>1. CASE Gate(w)
    BY <2>1 DEF Gate, Goto, Answer, TypeOK, Step, Code, ledger, history
  <2>2. CASE Count(w)
    BY <2>2 DEF Count, Goto, TypeOK, Step, history
  <2>3. CASE Store(w)
    <3>1. [action |-> action[w], until |-> until[w], status |-> "PENDING"] \in Request
      BY DEF TypeOK, Request
    <3>2. requests' \in [Id -> Request]
      BY <2>3, <3>1 DEF Store, TypeOK
    <3>3. QED BY <2>3, <3>2 DEF Store, Goto, Answer, TypeOK, Step, Code, history
  <2>4. CASE Resolve(w)
    <3>1. requests' \in [Id -> Request]
      BY <2>4 DEF Resolve, SetStatus, TypeOK, Request
    <3>2. pc' \in [Worker -> Step] /\ code' \in [Worker -> Code]
      BY <2>4 DEF Resolve, Goto, Answer, TypeOK, Step, Code
    <3>3. QED BY <2>4, <3>1, <3>2 DEF Resolve, TypeOK, history
  <2>5. CASE Run(w)
    <3>1. pc' \in [Worker -> Step] /\ code' \in [Worker -> Code] /\ good' \in [Worker -> Nat]
      BY <2>5 DEF Run, Goto, Answer, TypeOK, Step, Code
    <3>2. late' \in [Worker -> Nat]
      BY <2>5 DEF Run, TypeOK
    <3>3. QED BY <2>5, <3>1, <3>2 DEF Run, TypeOK, ledger
  <2>6. CASE Report(w)
    <3>1. CASE Goto(w, "backoff") /\ Continue
      BY <2>6, <3>1 DEF Report, Goto, Continue, TypeOK, Step, ledger
    <3>2. CASE Return(w)
      BY <1>0, <2>6, <3>2 DEF Report, Return, Goto, TypeOK, Step, Code, ledger
    <3>3. QED BY <2>6, <3>1, <3>2 DEF Report
  <2>7. CASE Wake(w)
    BY <2>7 DEF Wake, Goto, TypeOK, Held, Step, ledger, history
  <2> QED BY <1>5, <2>1, <2>2, <2>3, <2>4, <2>5, <2>6, <2>7 DEF Work
<1>6. ASSUME NEW w \in Worker, Cancel(w) PROVE TypeOK'
  <2>1. CASE Return(w)
    BY <1>0, <1>6, <2>1 DEF Cancel, Return, Goto, TypeOK, Step, Code, ledger
  <2>2. CASE /\ orphan' = orphan \cup {w}
             /\ UNCHANGED <<pc, action, shown, attempt, until, code, good, late>>
    BY <1>6, <2>2 DEF Cancel, TypeOK, ledger
  <2>3. QED BY <1>6, <2>1, <2>2 DEF Cancel
<1> QED BY <1>1, <1>2, <1>3, <1>4, <1>5, <1>6 DEF Next

(* The gateway is built once: permission and risk of a tool do not change.        *)
LEMMA SetupFixed == ASSUME [Next]_vars PROVE setup' = setup
BY DEF Next, vars, Operate, Tick, Call, Work, Grant, Deny, Quarantine, Lift, Execute, Gate, Count,
       Store, Resolve, Run, Report, Wake, Cancel

(* The facts TypeStep leans on: an attempt is left after a failure that is        *)
(* retried, and an id was presented when the ledger is asked to resolve it.       *)
LEMMA HeldStep == ASSUME TypeOK, Held, [Next]_vars PROVE Held'
<1> DEFINE HeldFor(v) ==
      /\ pc[v] = "backoff" => attempt[v] < MaxAttempts
      /\ pc[v] = "resolve" => shown[v] # 0 /\ Needed(action[v])
<1> SUFFICES ASSUME NEW v \in Worker PROVE HeldFor(v)'
  BY DEF Held
<1>0. HeldFor(v)
  BY DEF Held
<1>V. Needed(action[v])' <=> Verdict(ToolOf[action'[v]]) = "approval"
  <2>1. setup' = setup
    BY SetupFixed
  <2> QED BY <2>1 DEF Needed, Verdict
<1>1. CASE UNCHANGED vars
  BY <1>0, <1>V, <1>1 DEF Needed, vars
<1>2. CASE Operate \/ Tick
  BY <1>0, <1>V, <1>2 DEF Needed, Operate, Tick, Grant, Deny, Quarantine, Lift
<1>3. ASSUME NEW w \in Worker, Call(w) PROVE HeldFor(v)'
  BY <1>0, <1>V, <1>3 DEF Needed, Call, Execute, Goto, TypeOK
<1>4. ASSUME NEW w \in Worker, Work(w) PROVE HeldFor(v)'
  <2>1. CASE Gate(w)
    BY <1>0, <1>V, <2>1 DEF Needed, Gate, Goto, Answer, TypeOK
  <2>2. CASE Count(w) \/ Store(w) \/ Run(w) \/ Wake(w)
    BY <1>0, <1>V, <2>2 DEF Needed, Count, Store, Run, Wake, Goto, Answer, TypeOK
  <2>3. CASE Resolve(w)
    BY <1>0, <1>V, <2>3 DEF Needed, Resolve, Goto, Answer, TypeOK
  <2>4. CASE Report(w)
    BY <1>0, <1>V, <2>4 DEF Needed, Report, Retried, Return, Continue, Goto, TypeOK
  <2> QED BY <1>4, <2>1, <2>2, <2>3, <2>4 DEF Work
<1>5. ASSUME NEW w \in Worker, Cancel(w) PROVE HeldFor(v)'
  BY <1>0, <1>V, <1>5 DEF Needed, Cancel, Return, Goto, TypeOK
<1> QED BY <1>1, <1>2, <1>3, <1>4, <1>5 DEF Next

(* A GRANTED entry always goes back to an operator: only grant() makes one, and   *)
(* the thread that overwrites an entry leaves it PENDING.                         *)
LEMMA RecordedStep == ASSUME TypeOK, Held, Recorded, [Next]_vars PROVE Recorded'
<1> SUFFICES ASSUME NEW i \in Id, requests'[i].status = "GRANTED"
             PROVE  [action |-> requests'[i].action, until |-> requests'[i].until] \in consent'
  BY DEF Recorded
<1>1. CASE UNCHANGED <<requests, consent>>
  BY <1>1 DEF Recorded
<1>2. CASE \E j \in Id : Grant(j)
  <2>1. PICK j \in Id : Grant(j)
    BY <1>2
  <2>2. /\ requests' = [requests EXCEPT ![j].status = "GRANTED"]
        /\ consent' = consent \cup {[action |-> requests[j].action, until |-> requests[j].until]}
    BY <2>1 DEF Grant, SetStatus
  <2>3. requests[i] \in Request /\ requests[j] \in Request
    BY DEF TypeOK
  <2>4. requests'[i].action = requests[i].action /\ requests'[i].until = requests[i].until
    BY <2>2, <2>3 DEF Request, TypeOK
  <2>5. CASE i = j
    BY <2>2, <2>4, <2>5
  <2>6. CASE i # j
    BY <2>2, <2>4, <2>6 DEF Recorded, TypeOK
  <2> QED BY <2>5, <2>6
<1>3. CASE \E j \in Id : Deny(j)
  <2>1. PICK j \in Id : Deny(j)
    BY <1>3
  <2>2. requests' = [requests EXCEPT ![j].status = "DENIED"] /\ consent' = consent
    BY <2>1 DEF Deny, SetStatus, history
  <2>3. i # j
    BY <2>2 DEF TypeOK, Request
  <2> QED BY <2>2, <2>3 DEF TypeOK, Recorded
<1>4. CASE \E w \in Worker : Store(w)
  <2>1. PICK w \in Worker : Store(w)
    BY <1>4
  <2>2. i # counter
    BY <2>1 DEF Store, TypeOK
  <2> QED BY <2>1, <2>2 DEF Store, Recorded, history, TypeOK
<1>5. CASE \E w \in Worker : Resolve(w)
  <2>1. PICK w \in Worker : Resolve(w)
    BY <1>5
  <2>2. CASE requests' = [requests EXCEPT ![shown[w]].status = "EXPIRED"]
    <3>1. shown[w] \in Id
      BY <2>1, BoundsAssumption DEF Resolve, TypeOK, Held, Id
    <3>2. i # shown[w]
      BY <2>2, <3>1 DEF TypeOK, Request
    <3> QED BY <2>1, <2>2, <3>2 DEF Resolve, Recorded, history, TypeOK
  <2>3. CASE requests' = requests
    BY <2>1, <2>3 DEF Resolve, Recorded, history
  <2> QED BY <2>1, <2>2, <2>3 DEF Resolve, SetStatus
<1>6. CASE UNCHANGED vars \/ Tick
  BY <1>1, <1>6 DEF vars, Tick, ledger, history
<1>7. CASE \E tool \in Watched : Quarantine(tool) \/ Lift(tool)
  BY <1>1, <1>7 DEF Quarantine, Lift, ledger, history
<1>8. ASSUME NEW w \in Worker, Call(w) \/ Cancel(w)
      PROVE  UNCHANGED <<requests, consent>>
  BY <1>8 DEF Call, Execute, Cancel, ledger, history
<1>9. ASSUME NEW w \in Worker, Gate(w) \/ Count(w) \/ Run(w) \/ Report(w) \/ Wake(w)
      PROVE  UNCHANGED <<requests, consent>>
  BY <1>9 DEF Gate, Count, Run, Report, Wake, ledger, history
<1> QED
  BY <1>1, <1>2, <1>3, <1>4, <1>5, <1>6, <1>7, <1>8, <1>9 DEF Next, Operate, Work

(* The invariant holds initially: nothing is granted, nothing runs.               *)
LEMMA InitInv == Init => IInv
<1> SUFFICES ASSUME Init PROVE IInv
  OBVIOUS
<1>0. AnyAction \in Action
  BY ActionAssumption DEF AnyAction
<1>1. requests \in [Id -> Request]
  BY <1>0 DEF Init, Request
<1>2. TypeOK
  BY <1>0, <1>1, BoundsAssumption, AttemptsAssumption DEF Init, TypeOK, Step, Code
<1>3. Held /\ Recorded
  BY DEF Init, Held, Recorded
<1> QED BY <1>2, <1>3 DEF IInv

LEMMA StepInv == IInv /\ [Next]_vars => IInv'
BY TypeStep, HeldStep, RecordedStep DEF IInv

(* Type correctness, for any number of threads and any ledger size.               *)
THEOREM TypeCorrect == Spec => []TypeOK
<1>1. IInv => TypeOK
  BY DEF IInv
<1> QED BY InitInv, StepInv, <1>1, PTL DEF Spec

(* No handler starts, on any attempt of any call, without a verdict of the tables *)
(* that lets it through or an unexpired grant of an operator for this very action; *)
(* colliding request ids and cancelled coroutines included.                       *)
THEOREM NothingRunsUnasked == Spec => RunsConsented
<1>1. IInv /\ [Next]_vars => [StartsConsented]_vars
  <2> SUFFICES ASSUME IInv, Next, NEW v \in Worker, pc[v] # "run", pc'[v] = "run"
               PROVE  \/ Verdict(ToolOf[action[v]]) = "auto"
                      \/ /\ Needed(action[v])
                         /\ \E c \in consent : c.action = action[v] /\ now <= c.until
    BY DEF StartsConsented
  <2> USE DEF IInv
  <2>1. CASE Operate \/ Tick
    BY <2>1 DEF Operate, Tick, Grant, Deny, Quarantine, Lift
  <2>2. ASSUME NEW w \in Worker, Call(w) \/ Cancel(w) PROVE FALSE
    BY <2>2 DEF Call, Execute, Cancel, Return, Goto, TypeOK
  <2>3. ASSUME NEW w \in Worker, Count(w) \/ Store(w) \/ Run(w) \/ Report(w) \/ Wake(w)
        PROVE  FALSE
    BY <2>3 DEF Count, Store, Run, Report, Wake, Return, Goto, Answer, TypeOK
  <2>4. ASSUME NEW w \in Worker, Gate(w) PROVE Verdict(ToolOf[action[v]]) = "auto"
    BY <2>4 DEF Gate, Goto, Answer, TypeOK
  <2>5. ASSUME NEW w \in Worker, Resolve(w)
        PROVE  /\ Needed(action[v])
               /\ \E c \in consent : c.action = action[v] /\ now <= c.until
    <3>1. v = w /\ pc[w] = "resolve"
      BY <2>5 DEF Resolve, Goto, Answer, TypeOK
    <3>2. Needed(action[v]) /\ shown[w] \in Id
      BY <3>1, BoundsAssumption DEF Held, TypeOK, Id
    <3>3. /\ requests[shown[w]].status = "GRANTED" /\ requests[shown[w]].action = action[w]
          /\ now <= requests[shown[w]].until
      BY <2>5, <3>1 DEF Resolve, Goto, Answer, Binds, TypeOK
    <3> QED BY <3>1, <3>2, <3>3 DEF Recorded
  <2> QED BY <2>1, <2>2, <2>3, <2>4, <2>5 DEF Next, Work
<1> QED BY InitInv, StepInv, <1>1, PTL DEF Spec, RunsConsented

-------------------------------------------------------------------------------
(* The end of a call.                                                      *)

\* Behind RetriesEnd: a success is only ever found by report(), and a thread whose run
\* was late is back before the gate for as long as its tool is blocked.
Settled ==
  \A w \in Worker :
    /\ good[w] <= 1
    /\ ~(pc[w] = "report" /\ code[w] = "ok") => good[w] = 0
    /\ late[w] <= 1
    /\ pc[w] = "idle" => late[w] = 0
    /\ late[w] # 0 /\ ToolOf[action[w]] \in blocked => pc[w] \in {"report", "backoff", "gate"}

(* No step of any thread undoes another's, and a retry starts at the gate.        *)
LEMMA SettledStep == ASSUME TypeOK, Settled, [Next]_vars PROVE Settled'
<1> DEFINE SettledFor(v) ==
      /\ good[v] <= 1
      /\ ~(pc[v] = "report" /\ code[v] = "ok") => good[v] = 0
      /\ late[v] <= 1
      /\ pc[v] = "idle" => late[v] = 0
      /\ late[v] # 0 /\ ToolOf[action[v]] \in blocked => pc[v] \in {"report", "backoff", "gate"}
<1> SUFFICES ASSUME NEW v \in Worker PROVE SettledFor(v)'
  BY DEF Settled
<1>0. SettledFor(v)
  BY DEF Settled
<1>T. good[v] \in Nat /\ late[v] \in Nat
  BY DEF TypeOK
<1>1. CASE UNCHANGED vars
  BY <1>0, <1>1 DEF vars
<1>2. CASE Operate \/ Tick
  <2>1. CASE Tick \/ \E i \in Id : Grant(i) \/ Deny(i)
    BY <1>0, <2>1 DEF Tick, Grant, Deny, history
  <2>2. ASSUME NEW tool \in Watched, Quarantine(tool) PROVE SettledFor(v)'
    BY <1>0, <1>T, <2>2 DEF Quarantine, TypeOK
  <2>3. ASSUME NEW tool \in Watched, Lift(tool) PROVE SettledFor(v)'
    BY <1>0, <2>3 DEF Lift, history
  <2> QED BY <1>2, <2>1, <2>2, <2>3 DEF Operate
<1>3. ASSUME NEW w \in Worker, Call(w) PROVE SettledFor(v)'
  BY <1>0, <1>3 DEF Call, Execute, Goto, TypeOK, history
<1>4. ASSUME NEW w \in Worker, Work(w) PROVE SettledFor(v)'
  <2>1. CASE Gate(w)
    BY <1>0, <2>1 DEF Gate, Goto, Answer, TypeOK, history
  <2>2. CASE Count(w) \/ Store(w) \/ Resolve(w) \/ Wake(w)
    BY <1>0, <2>2 DEF Count, Store, Resolve, Wake, Goto, Answer, TypeOK, history
  <2>3. CASE Run(w)
    <3>1. CASE v # w
      BY <1>0, <2>3, <3>1 DEF Run, Goto, Answer, TypeOK
    <3>2. CASE v = w
      <4>1. pc[v] = "run" /\ good[v] = 0
        BY <1>0, <2>3, <3>2 DEF Run
      <4>2. /\ pc'[v] = "report"
            /\ good'[v] = IF code'[v] = "ok" THEN 1 ELSE 0
        BY <2>3, <3>2, <4>1 DEF Run, Goto, Answer, TypeOK
      <4>3. late'[v] <= 1
        BY <1>0, <1>T, <2>3, <3>2, <4>1 DEF Run, TypeOK
      <4> QED BY <4>2, <4>3
    <3> QED BY <3>1, <3>2
  <2>4. CASE Report(w)
    BY <1>0, <2>4 DEF Report, Retried, Return, Continue, Goto, TypeOK
  <2> QED BY <1>4, <2>1, <2>2, <2>3, <2>4 DEF Work
<1>5. ASSUME NEW w \in Worker, Cancel(w) PROVE SettledFor(v)'
  BY <1>0, <1>5 DEF Cancel, Return, Goto, TypeOK
<1> QED BY <1>1, <1>2, <1>3, <1>4, <1>5 DEF Next

(* No handler runs again after it succeeded, and a blocked tool runs at most once *)
(* more for each thread that was past the gate: for any number of threads and any *)
(* bound on the attempts.                                                         *)
THEOREM CallsEnd == Spec => []RetriesEnd
<1>1. Init => Settled
  BY DEF Init, Settled
<1>2. IInv /\ Settled /\ [Next]_vars => IInv' /\ Settled'
  BY StepInv, SettledStep DEF IInv
<1>3. Settled => RetriesEnd
  BY DEF Settled, RetriesEnd, QuarantineHolds, SucceedsOnce
<1> QED BY InitInv, <1>1, <1>2, <1>3, PTL DEF Spec
===============================================================================

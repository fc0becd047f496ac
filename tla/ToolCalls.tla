------------------------------- MODULE ToolCalls -------------------------------
(***************************************************************************)
(* One tool call from Executor.execute() to its result: the retry loop     *)
(* (runtime/executor.py), the gateway's pipeline (tools/gateway.py), the   *)
(* permission and risk tables, the quarantine of the registry and the      *)
(* in-memory ApprovalLedger (runtime/approval.py).                         *)
(*                                                                         *)
(* The executor runs ToolGateway.invoke() with asyncio.to_thread, so the   *)
(* calls of several agents are threads that share the registry, the        *)
(* quarantine and the ledger with no lock; an operator grants, denies and  *)
(* quarantines meanwhile, and time passes.  The steps of a call:           *)
(*                                                                         *)
(*   gate      registry.get(), permission and risk                         *)
(*   count     counter += 1 in ledger.create()                             *)
(*   store     the request stored under the counter as it then is          *)
(*   resolve   ledger.resolve() on the id the caller presents              *)
(*   run       the handler                                                 *)
(*   report    observation, journal, and the decision to retry             *)
(*   backoff   asyncio.sleep() before the next attempt                     *)
(*                                                                         *)
(* resolve() is one step: ledger entries are replaced, never mutated, so   *)
(* it judges the entry it fetched.  A ledger and a gateway have one        *)
(* subject here; it is part of the action, as it is of the action hash.    *)
(***************************************************************************)
EXTENDS Naturals, FiniteSets, Sequences

CONSTANTS
  Worker,       \* threads; each runs one call at a time
  Action,       \* what action_hash() tells apart: tool, arguments, subject, correlation id
  Job,          \* Job[w]: the actions worker w is asked for
  ToolOf,       \* ToolOf[a]: the tool name of action a
  Watched,      \* the tools an operator may quarantine
  Cancellable,  \* workers whose awaiting coroutine may be cancelled
  RuleBooks,    \* the rule lists a permission engine may be built with
  MaxAttempts,  \* RetryPolicy.max_attempts
  Validity,     \* validity_seconds of create()
  MaxCreated,   \* bound: approval requests of the ledger
  MaxTime       \* bound: the clock

ASSUME ActionAssumption == Action # {}
ASSUME AttemptsAssumption == MaxAttempts \in Nat \ {0}
ASSUME ValidityAssumption == Validity \in Nat \ {0}   \* create() refuses 0 and less
ASSUME BoundsAssumption == MaxCreated \in Nat /\ MaxTime \in Nat

\* The names register_builtin_files() and register_builtin_terminal() bind.
Registered == {"file_read", "file_list", "file_write", "file_delete", "terminal_run"}

ASSUME ToolAssumption ==
  /\ Job \in [Worker -> SUBSET Action]
  /\ ToolOf \in [Action -> Registered \cup {"unknown"}]

Decision == {"ALLOW", "ASK", "DENY"}
Rule == [decision : Decision, tool : Registered \cup {"any"}]
ASSUME WatchedAssumption == Watched \subseteq Registered /\ Cancellable \subseteq Worker
ASSUME RulesAssumption == RuleBooks # {} /\ RuleBooks \subseteq Seq(Rule)

VARIABLES
  setup,     \* how the gateway was built: [bin, rules]
  blocked,   \* quarantined tools
  now,       \* the ledger's clock
  counter,   \* the ledger's counter
  requests,  \* requests[i]: the ledger's entry appr-i
  pc,        \* pc[w]: the next step of w's call
  action,    \* action[w]: what w's call does
  shown,     \* shown[w]: the approval id the caller presents, 0 for None
  attempt,   \* attempt[w]: the number of the current attempt
  until,     \* until[w]: the deadline w's create() has computed
  code,      \* code[w]: the result of the current attempt
  orphan,    \* workers whose awaiting coroutine was cancelled: the thread goes on
  consent,   \* history: [action, until] of every request an operator granted
  good,      \* history: good[w], successful runs of the handler in this call
  late       \* history: late[w], runs of the handler since its tool was last blocked

ledger == <<counter, requests>>
history == <<consent, good, late>>
vars == <<setup, blocked, now, counter, requests, pc, action, shown, attempt, until, code,
          orphan, consent, good, late>>

Id == 1 .. MaxCreated
Step == {"idle", "gate", "count", "store", "resolve", "run", "report", "backoff"}

\* The result of an attempt, as far as the retry loop tells results apart: "permanent" is
\* an error code in PERMANENT_ERROR_CODES (every refusal of the gateway, not_found),
\* "transient" any other (tool_crash, timeout, write_error, exit_n).
Code == {"none", "ok", "transient", "permanent"}

\* Every entry carries the action, the deadline and the status; NONE before create().
Request == [action : Action, until : Nat,
            status : {"NONE", "PENDING", "GRANTED", "DENIED", "EXPIRED"}]

TypeOK ==
  /\ setup \in [bin : BOOLEAN, rules : RuleBooks]
  /\ blocked \subseteq Registered
  /\ now \in 0 .. MaxTime
  /\ counter \in Nat
  /\ requests \in [Id -> Request]
  /\ pc \in [Worker -> Step]
  /\ action \in [Worker -> Action]
  /\ shown \in [Worker -> 0 .. MaxCreated]
  /\ attempt \in [Worker -> 0 .. MaxAttempts]
  /\ until \in [Worker -> Nat]
  /\ code \in [Worker -> Code]
  /\ orphan \subseteq Worker
  /\ consent \subseteq [action : Action, until : Nat]
  /\ good \in [Worker -> Nat]
  /\ late \in [Worker -> Nat]

-------------------------------------------------------------------------------
(* Permission and risk: pure tables.                                       *)

\* PermissionEngine.decide(): the first rule that matches, else DENY.
Matches(rule, tool) == rule.tool \in {tool, "any"}
Decide(rules, tool) ==
  IF \E k \in DOMAIN rules : Matches(rules[k], tool)
  THEN rules[CHOOSE k \in DOMAIN rules :
               /\ Matches(rules[k], tool)
               /\ \A j \in DOMAIN rules : j < k => ~Matches(rules[j], tool)].decision
  ELSE "DENY"

\* The declared risk of each contract: LOW 0, MEDIUM 1, HIGH 2.
Declared(tool) ==
  IF tool = "file_delete" THEN 2 ELSE IF tool \in {"file_write", "terminal_run"} THEN 1 ELSE 0

\* The factors invoke() derives from a contract's side effects and the recycle bin.
Factors(tool, bin) ==
  [destructive  |-> tool = "file_delete",
   external     |-> tool = "terminal_run",
   irreversible |-> tool = "file_delete" /\ ~bin,
   sensitive    |-> FALSE,
   blast        |-> IF tool = "terminal_run" THEN 1 ELSE 0]

Weight(factor, n) == IF factor THEN n ELSE 0
Score(f) ==
  Weight(f.destructive, 3) + Weight(f.external, 2) + Weight(f.irreversible, 4)
    + Weight(f.sensitive, 2) + f.blast

\* RiskEngine.evaluate()
Evaluate(f, declared) ==
  IF (f.destructive /\ f.irreversible) \/ Score(f) + declared >= 8 THEN "DENY"
  ELSE IF Score(f) + declared >= 4 THEN "APPROVAL"
  ELSE "AUTO"

\* What invoke() makes of both: a refusal, "approval" or "auto".
Verdict(tool) ==
  LET permission == Decide(setup.rules, tool)
      risk == Evaluate(Factors(tool, setup.bin), Declared(tool))
  IN IF permission = "DENY" THEN "permission_denied"
     ELSE IF risk = "DENY" THEN "risk_denied"
     ELSE IF permission = "ASK" \/ risk = "APPROVAL" THEN "approval"
     ELSE "auto"

-------------------------------------------------------------------------------
(* Control of a call.                                                      *)

Goto(w, step) == pc' = [pc EXCEPT ![w] = step]

\* invoke() returns a result.
Answer(w, result) == Goto(w, "report") /\ code' = [code EXCEPT ![w] = result]

AnyAction == CHOOSE a \in Action : TRUE

Init ==
  /\ setup \in [bin : BOOLEAN, rules : RuleBooks]
  /\ blocked = {}
  /\ now = 0
  /\ counter = 0
  /\ requests = [i \in Id |-> [action |-> AnyAction, until |-> 0, status |-> "NONE"]]
  /\ pc = [w \in Worker |-> "idle"]
  /\ action = [w \in Worker |-> AnyAction]
  /\ shown = [w \in Worker |-> 0]
  /\ attempt = [w \in Worker |-> 0]
  /\ until = [w \in Worker |-> 0]
  /\ code = [w \in Worker |-> "none"]
  /\ orphan = {}
  /\ consent = {}
  /\ good = [w \in Worker |-> 0]
  /\ late = [w \in Worker |-> 0]

\* Bound: a call without an approval id may need one more ledger entry.
Room == counter + Cardinality({w \in Worker : pc[w] # "idle" /\ shown[w] = 0}) < MaxCreated

\* execute(): the first attempt.  The id is None or one the ledger has given out.
Execute(w, a, i) ==
  /\ pc[w] = "idle"
  /\ i = 0 => Room
  /\ Goto(w, "gate")
  /\ action' = [action EXCEPT ![w] = a]
  /\ shown' = [shown EXCEPT ![w] = i]
  /\ attempt' = [attempt EXCEPT ![w] = 1]
  /\ UNCHANGED <<setup, blocked, now, ledger, until, code, orphan, history>>

\* The pipeline up to the approval.
Gate(w) ==
  /\ pc[w] = "gate"
  /\ LET tool == ToolOf[action[w]]
     IN \/ tool \notin Registered \ blocked /\ Answer(w, "permanent")
        \/ /\ tool \in Registered \ blocked
           /\ \/ /\ Verdict(tool) \in {"permission_denied", "risk_denied"}
                 /\ Answer(w, "permanent")
              \/ /\ Verdict(tool) = "approval"
                 /\ Goto(w, IF shown[w] = 0 THEN "count" ELSE "resolve")
                 /\ UNCHANGED code
              \/ Verdict(tool) = "auto" /\ Goto(w, "run") /\ UNCHANGED code
  /\ UNCHANGED <<setup, blocked, now, ledger, action, shown, attempt, until, orphan, history>>

\* ledger.create(), first half: the clock is read and the counter incremented.
Count(w) ==
  /\ pc[w] = "count"
  /\ counter' = counter + 1
  /\ until' = [until EXCEPT ![w] = now + Validity]
  /\ Goto(w, "store")
  /\ UNCHANGED <<setup, blocked, now, requests, action, shown, attempt, code, orphan, history>>

\* ledger.create(), second half: the property `counter` is read again, so a thread
\* that counted in between makes both requests carry one id, and one is overwritten.
Store(w) ==
  /\ pc[w] = "store"
  /\ requests' = [requests EXCEPT ![counter] =
                    [action |-> action[w], until |-> until[w], status |-> "PENDING"]]
  /\ Answer(w, "permanent")   \* approval_required
  /\ until' = [until EXCEPT ![w] = 0]
  /\ UNCHANGED <<setup, blocked, now, counter, action, shown, attempt, orphan, history>>

SetStatus(i, status) == requests' = [requests EXCEPT ![i].status = status]

\* Mutant of Binds: the hash is not compared.
BindsAny(i, a) == requests[i].status = "GRANTED"

\* What resolve() asks of the entry besides its deadline.
Binds(i, a) == requests[i].status = "GRANTED" /\ requests[i].action = a

\* ledger.resolve()
Resolve(w) ==
  /\ pc[w] = "resolve"
  /\ LET i == shown[w]
     IN \/ /\ requests[i].status = "GRANTED" /\ now > requests[i].until
           /\ SetStatus(i, "EXPIRED")
           /\ Answer(w, "permanent")   \* approval_invalid
        \/ /\ now <= requests[i].until /\ Binds(i, action[w])
           /\ Goto(w, "run")
           /\ UNCHANGED <<requests, code>>
        \/ /\ ~(requests[i].status = "GRANTED" /\ now > requests[i].until)
           /\ ~Binds(i, action[w])
           /\ Answer(w, "permanent")   \* approval_invalid
           /\ UNCHANGED requests
  /\ UNCHANGED <<setup, blocked, now, counter, action, shown, attempt, until, orphan, history>>

\* The handler: it succeeds, finds nothing to work on, or fails in a way that may pass.
Run(w) ==
  /\ pc[w] = "run"
  /\ \E result \in {"ok", "transient", "permanent"} :
       /\ Answer(w, result)
       /\ good' = [good EXCEPT ![w] = @ + (IF result = "ok" THEN 1 ELSE 0)]
  /\ late' = [late EXCEPT ![w] = @ + (IF ToolOf[action[w]] \in blocked THEN 1 ELSE 0)]
  /\ UNCHANGED <<setup, blocked, now, ledger, action, shown, attempt, until, orphan, consent>>

\* The call is over, or its thread ends with nobody waiting for it: what it held is gone.
Return(w) ==
  /\ Goto(w, "idle")
  /\ action' = [action EXCEPT ![w] = AnyAction]
  /\ shown' = [shown EXCEPT ![w] = 0]
  /\ attempt' = [attempt EXCEPT ![w] = 0]
  /\ until' = [until EXCEPT ![w] = 0]
  /\ code' = [code EXCEPT ![w] = "none"]
  /\ orphan' = orphan \ {w}
  /\ good' = [good EXCEPT ![w] = 0]
  /\ late' = [late EXCEPT ![w] = 0]

Continue == UNCHANGED <<action, shown, attempt, until, code, orphan, good, late>>

Retried(w) == w \notin orphan /\ code[w] = "transient" /\ attempt[w] < MaxAttempts

\* Back in the coroutine: the attempt is observed and journaled, then ends the call
\* or is followed by another.
Report(w) ==
  /\ pc[w] = "report"
  /\ \/ Retried(w) /\ Goto(w, "backoff") /\ Continue
     \/ ~Retried(w) /\ Return(w)
  /\ UNCHANGED <<setup, blocked, now, ledger, consent>>

\* Mutant of Wake: the gate's answer is kept for the retry.
WakeInside(w) ==
  /\ pc[w] = "backoff"
  /\ Goto(w, "run")
  /\ attempt' = [attempt EXCEPT ![w] = @ + 1]
  /\ UNCHANGED <<setup, blocked, now, ledger, action, shown, until, code, orphan, history>>

\* The next attempt goes through the whole pipeline again.
Wake(w) ==
  /\ pc[w] = "backoff"
  /\ Goto(w, "gate")
  /\ attempt' = [attempt EXCEPT ![w] = @ + 1]
  /\ UNCHANGED <<setup, blocked, now, ledger, action, shown, until, code, orphan, history>>

\* The coroutine that awaits the call is cancelled (Python's asyncio): a sleep ends at
\* once, a thread is not stopped and its result is dropped, unjournaled.
Cancel(w) ==
  /\ w \in Cancellable \ orphan
  /\ \/ /\ pc[w] = "backoff"
        /\ Return(w)
     \/ /\ pc[w] \in {"gate", "count", "store", "resolve", "run"}
        /\ orphan' = orphan \cup {w}
        /\ UNCHANGED <<pc, action, shown, attempt, until, code, good, late>>
  /\ UNCHANGED <<setup, blocked, now, ledger, consent>>

-------------------------------------------------------------------------------
(* The operator, and time.                                                 *)

\* ledger.grant(): a PENDING request only, whatever its deadline.
Grant(i) ==
  /\ requests[i].status = "PENDING"
  /\ SetStatus(i, "GRANTED")
  /\ consent' = consent \cup {[action |-> requests[i].action, until |-> requests[i].until]}
  /\ UNCHANGED <<setup, blocked, now, counter, pc, action, shown, attempt, until, code,
                 orphan, good, late>>

\* ledger.deny()
Deny(i) ==
  /\ requests[i].status = "PENDING"
  /\ SetStatus(i, "DENIED")
  /\ UNCHANGED <<setup, blocked, now, counter, pc, action, shown, attempt, until, code,
                 orphan, history>>

\* ToolQuarantine.quarantine(): calls past the gate go on.
Quarantine(tool) ==
  /\ tool \notin blocked
  /\ blocked' = blocked \cup {tool}
  /\ late' = [w \in Worker |-> IF ToolOf[action[w]] = tool THEN 0 ELSE late[w]]
  /\ UNCHANGED <<setup, now, ledger, pc, action, shown, attempt, until, code, orphan,
                 consent, good>>

\* ToolQuarantine.lift()
Lift(tool) ==
  /\ tool \in blocked
  /\ blocked' = blocked \ {tool}
  /\ UNCHANGED <<setup, now, ledger, pc, action, shown, attempt, until, code, orphan,
                 history>>

Tick ==
  /\ now < MaxTime
  /\ now' = now + 1
  /\ UNCHANGED <<setup, blocked, ledger, pc, action, shown, attempt, until, code, orphan,
                 history>>

-------------------------------------------------------------------------------
Work(w) ==
  \/ Gate(w) \/ Count(w) \/ Store(w) \/ Resolve(w) \/ Run(w) \/ Report(w) \/ Wake(w)

Call(w) == \E a \in Job[w], i \in 0 .. MaxCreated : i <= counter /\ Execute(w, a, i)

Operate ==
  \/ \E i \in Id : Grant(i) \/ Deny(i)
  \/ \E tool \in Watched : Quarantine(tool) \/ Lift(tool)

Next == Operate \/ Tick \/ \E w \in Worker : Call(w) \/ Work(w) \/ Cancel(w)

Spec == Init /\ [][Next]_vars

-------------------------------------------------------------------------------
(* Properties.                                                             *)

Needed(a) == Verdict(ToolOf[a]) = "approval"

(* A handler starts only for an action the tables let through, or for which an   *)
(* operator granted this very action and the grant has not lapsed: not after a   *)
(* denial, with the id of another action, late, or through an entry that two     *)
(* threads wrote under one id.                                                   *)
StartsConsented ==
  \A w \in Worker :
    pc[w] # "run" /\ pc'[w] = "run" =>
      \/ Verdict(ToolOf[action[w]]) = "auto"
      \/ /\ Needed(action[w])
         /\ \E c \in consent : c.action = action[w] /\ now <= c.until
RunsConsented == [][StartsConsented]_vars

(* A quarantine bites at once: of each thread that was past the gate, at most one *)
(* run of the blocked tool still happens, however many attempts its call has left. *)
QuarantineHolds == \A w \in Worker : late[w] <= 1

(* The retry loop never runs a handler again after it succeeded.                 *)
SucceedsOnce == \A w \in Worker : good[w] <= 1

(* The retry loop stops where it should.                                         *)
RetriesEnd == QuarantineHolds /\ SucceedsOnce

===============================================================================

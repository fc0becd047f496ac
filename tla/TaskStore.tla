------------------------------- MODULE TaskStore -------------------------------
(***************************************************************************)
(* The durable task store (persistence/tasks.py) with its two batch        *)
(* callers, the kill switch (runtime/killswitch.py) and crash recovery     *)
(* (runtime/recovery.py), as several surfaces drive it at once.            *)
(*                                                                         *)
(* A surface is a process with a TaskStore and an EventJournal connection  *)
(* of its own on the one runtime.sqlite: a CLI command, the TUI, the web   *)
(* server, the Telegram or Discord gateway, the resident loop.  It runs    *)
(* one call at a time.  What SQLite makes atomic is one statement: a       *)
(* SELECT opens no transaction, each `with self._conn` block holds a       *)
(* single INSERT or UPDATE.  So a call is cut into the steps               *)
(*                                                                         *)
(*   retryget    the get() of retry()                                      *)
(*   list        the list_tasks() of cancel_all() and mark_interrupted()   *)
(*   get         the get() and the table check of transition()             *)
(*   update      its UPDATE, which no longer looks at the state            *)
(*   emit        its journal append                                        *)
(*   flag        the TASK_INTERRUPTED append of mark_interrupted()         *)
(*   audit       the KILLSWITCH_TRIGGERED append of KillSwitch.trigger()   *)
(*                                                                         *)
(* and the steps of two surfaces interleave.  The SELECT that transition() *)
(* and create() end with only shapes the value returned and is left out.   *)
(***************************************************************************)
EXTENDS TaskStates, Naturals, FiniteSets

CONSTANTS
  Surface,       \* processes with a store open on runtime.sqlite
  Task,          \* task ids
  MaxAttempts,   \* max_attempts of every task
  ListLimit,     \* the default `limit` of list_tasks()
  Requests,      \* target states callers pass to transition()
  Offers,        \* Offers[s]: the calls surface s offers its user
  Mortal,        \* surfaces whose process may die, or whose database may refuse
  NoTask

ASSUME SurfaceAssumption == Surface # {}
ASSUME NoTaskAssumption == NoTask \notin Task
ASSUME AttemptsAssumption == MaxAttempts \in Nat \ {0}  \* create() refuses less than 1
ASSUME LimitAssumption == ListLimit \in Nat \ {0}       \* list_tasks() refuses less than 1
\* In src/ only retry() asks for QUEUED.
ASSUME RequestsAssumption == Requests \subseteq TaskState \ {"QUEUED"}

\* The CLI offers all calls, the web page creates and kills, and so on.
ASSUME OffersAssumption ==
  Offers \in [Surface -> SUBSET {"create", "transition", "retry", "kill", "recover"}]

VARIABLES
  rows,      \* the tasks table
  newer,     \* newer[t]: the tasks that ORDER BY updated_at DESC, rowid DESC lists before t
  last,      \* last[t]: the newest journal event of t's correlation id
  report,    \* the cancelled_task_ids of the newest KILLSWITCH_TRIGGERED event
  torn,      \* history: tasks whose newest state change was never journaled
  pc,        \* pc[s]: the next step of the call surface s is in
  call,      \* call[s]: "none", or the API call s is in
  item,      \* item[s]: the task its current transition() is about
  target,    \* target[s]: the state asked for
  snap,      \* snap[s]: the record its last get() returned
  todo,      \* todo[s]: listed records the batch loop has still to reach
  done       \* done[s]: the tasks this cancel_all() has cancelled

store == <<rows, newer>>
journal == <<last, report, torn>>
local == <<pc, call, item, target, snap, todo, done>>
vars == <<rows, newer, last, report, torn, pc, call, item, target, snap, todo, done>>

Call == {"none", "create", "transition", "retry", "kill", "recover"}
Step == {"idle", "retryget", "list", "get", "update", "emit", "flag", "audit", "down"}
Row == [state : TaskState \cup {"ABSENT"}, attempt : Nat]
NoRow == [state |-> "ABSENT", attempt |-> 0]

TypeOK ==
  /\ rows \in [Task -> Row]
  /\ newer \in [Task -> SUBSET Task]
  /\ last \in [Task -> TaskEvent \cup {"none"}]
  /\ report \in SUBSET Task
  /\ torn \in SUBSET Task
  /\ pc \in [Surface -> Step]
  /\ call \in [Surface -> Call]
  /\ item \in [Surface -> Task \cup {NoTask}]
  /\ target \in [Surface -> TaskState]
  /\ snap \in [Surface -> Row]
  /\ todo \in [Surface -> SUBSET Task]
  /\ done \in [Surface -> SUBSET Task]

Exists(t) == rows[t].state # "ABSENT"
Live(t) == rows[t].state \in LiveStates
Absent == {t \in Task : ~Exists(t)}

Init ==
  /\ rows = [t \in Task |-> NoRow]
  /\ newer = [t \in Task |-> {}]
  /\ last = [t \in Task |-> "none"]
  /\ report = {}
  /\ torn = {}
  /\ pc = [s \in Surface |-> "idle"]
  /\ call = [s \in Surface |-> "none"]
  /\ item = [s \in Surface |-> NoTask]
  /\ target = [s \in Surface |-> "QUEUED"]
  /\ snap = [s \in Surface |-> NoRow]
  /\ todo = [s \in Surface |-> {}]
  /\ done = [s \in Surface |-> {}]

-------------------------------------------------------------------------------
(* Statements on the tasks table.                                          *)

\* An INSERT or UPDATE stamps updated_at with the time of the call, so the
\* task comes first in the listing from then on.
Touch(t) ==
  newer' = [u \in Task |-> IF u # t /\ Exists(u) THEN newer[u] \cup {t} ELSE {}]

Put(t, row) == rows' = [rows EXCEPT ![t] = row] /\ Touch(t)

\* list_tasks(): at most ListLimit rows, the newest.
Listed == {t \in Task : Exists(t) /\ Cardinality(newer[t]) < ListLimit}

\* EventJournal.append() under the task's correlation id: a transaction of its own.
Append(t, event) == last' = [last EXCEPT ![t] = event]

-------------------------------------------------------------------------------
(* Control of a call: where it goes next, and how it ends.                 *)

Goto(s, step) == pc' = [pc EXCEPT ![s] = step]

\* The call returns or raises: its local state is gone.
Leave(s, step) ==
  /\ pc' = [pc EXCEPT ![s] = step]
  /\ call' = [call EXCEPT ![s] = "none"]
  /\ item' = [item EXCEPT ![s] = NoTask]
  /\ target' = [target EXCEPT ![s] = "QUEUED"]
  /\ snap' = [snap EXCEPT ![s] = NoRow]
  /\ todo' = [todo EXCEPT ![s] = {}]
  /\ done' = [done EXCEPT ![s] = {}]

\* A call begins with one task and one target state.
Enter(s, name, step, t, x) ==
  /\ pc[s] = "idle"
  /\ name \in Offers[s]
  /\ pc' = [pc EXCEPT ![s] = step]
  /\ call' = [call EXCEPT ![s] = name]
  /\ item' = [item EXCEPT ![s] = t]
  /\ target' = [target EXCEPT ![s] = x]
  /\ UNCHANGED <<snap, todo, done>>

\* The batch loops `for record in self.list_tasks()`: the next listed record (in
\* an order no property depends on), or what follows the loop.
Loop(s, rest, cancelled) ==
  \/ /\ \E t \in rest :
          /\ item' = [item EXCEPT ![s] = t]
          /\ todo' = [todo EXCEPT ![s] = rest \ {t}]
     /\ Goto(s, "get")
     /\ done' = [done EXCEPT ![s] = cancelled]
     /\ UNCHANGED <<call, target, snap>>
  \/ /\ rest = {} /\ call[s] = "kill"
     /\ Goto(s, "audit")
     /\ item' = [item EXCEPT ![s] = NoTask]
     /\ done' = [done EXCEPT ![s] = cancelled]
     /\ UNCHANGED <<call, target, snap, todo>>
  \/ /\ rest = {} /\ call[s] = "recover"
     /\ Leave(s, "idle")

-------------------------------------------------------------------------------
(* The calls.                                                              *)

\* create(): the INSERT of a QUEUED row at attempt 1.
Create(s, t) ==
  /\ ~Exists(t)
  /\ Enter(s, "create", "emit", t, "QUEUED")
  /\ Put(t, [state |-> "QUEUED", attempt |-> 1])
  /\ UNCHANGED journal

\* transition() asked for by an operator: start, pause, resume, cancel, or by
\* the code that runs the task.
BeginTransition(s, t, x) ==
  /\ Enter(s, "transition", "get", t, x)
  /\ UNCHANGED <<store, journal>>

BeginRetry(s, t) ==
  /\ Enter(s, "retry", "retryget", t, "QUEUED")
  /\ UNCHANGED <<store, journal>>

BeginKill(s) ==
  /\ Enter(s, "kill", "list", NoTask, "CANCELLED")
  /\ UNCHANGED <<store, journal>>

BeginRecover(s) ==
  /\ Enter(s, "recover", "list", NoTask, "RESUMABLE")
  /\ UNCHANGED <<store, journal>>

\* Faulty: off by one on the retry budget.
RetryOnceMore(row) == row.state = "FAILED" /\ row.attempt <= MaxAttempts

\* retry(): FAILED, and retries_left at least 1; otherwise TaskError.
RetryAllowed(row) == row.state = "FAILED" /\ row.attempt < MaxAttempts

RetryGet(s) ==
  /\ pc[s] = "retryget"
  /\ IF RetryAllowed(rows[item[s]])
     THEN /\ Goto(s, "get")
          /\ UNCHANGED <<call, item, target, snap, todo, done>>
     ELSE Leave(s, "idle")
  /\ UNCHANGED <<store, journal>>

\* Faulty: cancel_all() forgets the tasks that wait for the operator.
PickedNotPaused(name) ==
  {t \in Listed : rows[t].state \in (IF name = "kill" THEN {"QUEUED"} \cup InFlight ELSE InFlight)}

\* Faulty: cancel_all() does not filter the listing, and trips over the first
\* finished task.
PickedUnfiltered(name) ==
  IF name = "kill" THEN Listed ELSE {t \in Listed : rows[t].state \in InFlight}

\* cancel_all() and mark_interrupted(): the listing, and the rows the loop takes
\* from it.
Picked(name) ==
  {t \in Listed : rows[t].state \in (IF name = "kill" THEN LiveStates ELSE InFlight)}

List(s) ==
  /\ pc[s] = "list"
  /\ Loop(s, Picked(call[s]), {})
  /\ UNCHANGED <<store, journal>>

\* Faulty: transition() trusts its caller to know the table.
MayMoveAnywhere(from, x) == from # "ABSENT" /\ from # x

\* transition() up to the UPDATE: the record is read and the table consulted.
\* An illegal move raises TaskError, which ends a batch call as well.
MayMove(from, x) == Legal(from, x)

Get(s) ==
  /\ pc[s] = "get"
  /\ IF MayMove(rows[item[s]].state, target[s])
     THEN /\ Goto(s, "update")
          /\ snap' = [snap EXCEPT ![s] = rows[item[s]]]
          /\ UNCHANGED <<call, item, target, todo, done>>
     ELSE Leave(s, "idle")
  /\ UNCHANGED <<store, journal>>

\* The row the UPDATE writes: both columns come from the record read before.
Written(s) ==
  [state   |-> target[s],
   attempt |-> snap[s].attempt + (IF call[s] = "retry" THEN 1 ELSE 0)]

Update(s) ==
  /\ pc[s] = "update"
  /\ Put(item[s], Written(s))
  /\ Goto(s, "emit")
  /\ snap' = [snap EXCEPT ![s] = NoRow]
  /\ UNCHANGED <<journal, call, item, target, todo, done>>

\* Faulty: the batch calls leave the journal to their caller.
EmitUnlessBatch(s) ==
  /\ pc[s] = "emit"
  /\ IF call[s] = "kill" THEN UNCHANGED last ELSE Append(item[s], StateEvent[target[s]])
  /\ torn' = torn \ {item[s]}
  /\ \/ call[s] \in {"create", "transition", "retry"} /\ Leave(s, "idle")
     \/ call[s] = "kill" /\ Loop(s, todo[s], done[s] \cup {item[s]})
     \/ /\ call[s] = "recover"
        /\ Goto(s, "flag")
        /\ UNCHANGED <<call, item, target, snap, todo, done>>
  /\ UNCHANGED <<store, report>>

\* _emit(): append the event of the new state, and return to the caller.
Emit(s) ==
  /\ pc[s] = "emit"
  /\ Append(item[s], StateEvent[target[s]])
  /\ torn' = torn \ {item[s]}
  /\ \/ call[s] \in {"create", "transition", "retry"} /\ Leave(s, "idle")
     \/ call[s] = "kill" /\ Loop(s, todo[s], done[s] \cup {item[s]})
     \/ /\ call[s] = "recover"
        /\ Goto(s, "flag")
        /\ UNCHANGED <<call, item, target, snap, todo, done>>
  /\ UNCHANGED <<store, report>>

\* Faulty: the listing is read again after each task, and what is resumed at once
\* is marked again.
FlagAndRelist(s) ==
  /\ pc[s] = "flag"
  /\ Append(item[s], "TASK_INTERRUPTED")
  /\ Goto(s, "list")
  /\ item' = [item EXCEPT ![s] = NoTask]
  /\ todo' = [todo EXCEPT ![s] = {}]
  /\ UNCHANGED <<store, report, torn, call, target, snap, done>>

\* mark_interrupted() adds TASK_INTERRUPTED after each task it has moved.
Flag(s) ==
  /\ pc[s] = "flag"
  /\ Append(item[s], "TASK_INTERRUPTED")
  /\ Loop(s, todo[s], {})
  /\ UNCHANGED <<store, report, torn>>

\* KillSwitch.trigger(): the audit event, with the ids cancel_all() returned.
Audit(s) ==
  /\ pc[s] = "audit"
  /\ report' = done[s]
  /\ Leave(s, "idle")
  /\ UNCHANGED <<store, last, torn>>

\* The process dies, or a statement fails with a locked or full database: the
\* call is over, what it has committed stays.
Crash(s) ==
  /\ s \in Mortal
  /\ pc[s] \notin {"idle", "down"}
  /\ torn' = IF pc[s] = "emit" THEN torn \cup {item[s]} ELSE torn
  /\ Leave(s, "down")
  /\ UNCHANGED <<store, last, report>>

Restart(s) ==
  /\ pc[s] = "down"
  /\ Goto(s, "idle")
  /\ UNCHANGED <<store, journal, call, item, target, snap, todo, done>>

Begin(s) ==
  \/ BeginKill(s)
  \/ BeginRecover(s)
  \/ \E t \in Task :
       \/ Create(s, t)
       \/ BeginRetry(s, t)
       \/ \E x \in Requests : BeginTransition(s, t, x)

\* The steps of a call that has begun.
Work(s) ==
  RetryGet(s) \/ List(s) \/ Get(s) \/ Update(s) \/ Emit(s) \/ Flag(s) \/ Audit(s)

Next == \E s \in Surface : Begin(s) \/ Work(s) \/ Crash(s) \/ Restart(s)

Spec == Init /\ [][Next]_vars

\* Nothing in a call waits for another surface, so a call that has begun goes on
\* until it returns, raises or is cut off.  Nobody has to begin a call.
FairSpec == Spec /\ \A s \in Surface : WF_vars(Work(s))

-------------------------------------------------------------------------------
(* Properties.                                                             *)

Idle(s) == pc[s] \in {"idle", "down"}

\* The newest journal event that fits a state; mark_interrupted() adds its own.
EventsOf(x) ==
  {StateEvent[x]} \cup (IF x = "RESUMABLE" THEN {"TASK_INTERRUPTED"} ELSE {})

\* With a single surface, crashes or not, the calls cut into their steps are the
\* indivisible operations of the contract: TaskStore implements TaskLifecycle.
\* With two surfaces they are not (transition() updates a row it read before).
LC == INSTANCE TaskLifecycle WITH rows <- rows, Task <- Task, MaxAttempts <- MaxAttempts

Lifecycle == LC!Spec

\* The audit trail (TaskStore contract, "every state change is journaled"): when
\* no surface stands between an UPDATE and its append, the newest event of a task
\* names the state the row is in, unless a crash fell exactly between the two.
AuditMatchesTable ==
  \A t \in Task :
    (/\ Exists(t)
     /\ t \notin torn
     /\ \A s \in Surface : ~(pc[s] = "emit" /\ item[s] = t))
      => last[t] \in EventsOf(rows[t].state)

\* KillSwitch.trigger(), "cancels every live task": when it comes to write its
\* audit event, no task is live, also when earlier triggers were cut off half-way.
\* It needs a listing that holds all tasks.
KillSwitchComplete ==
  \A s \in Surface : pc[s] = "audit" => \A t \in Task : ~Live(t)

\* CrashRecovery.run(): when it has marked its last task, none is left in flight,
\* so that a second run "finds nothing to flag".
RecoveryComplete ==
  \A s \in Surface :
    (pc[s] = "flag" /\ todo[s] = {}) => \A t \in Task : rows[t].state \notin InFlight

\* The two batch calls reach every task they are for.
BatchesComplete == KillSwitchComplete /\ RecoveryComplete

\* The ids in the last KILLSWITCH_TRIGGERED event are those of tasks that have
\* stayed cancelled: nothing that was cancelled is started or retried again.
ReportStands == \A t \in report : rows[t].state = "CANCELLED"

\* A kill switch once triggered stops everything, unless its own process dies.
KillSwitchStops ==
  \A s \in Surface : (call[s] = "kill") ~> ((\A t \in Task : ~Live(t)) \/ pc[s] = "down")

\* Any number of surfaces: an UPDATE that still finds the row as it was read
\* follows the legal table.  The only illegal moves are lost updates.
FreshUpdateLegal ==
  \A s \in Surface :
    (Update(s) /\ snap[s].state = rows[item[s]].state)
      => Legal(rows[item[s]].state, rows'[item[s]].state)

FreshUpdatesLegal == [][FreshUpdateLegal]_vars

\* Any number of surfaces: a finished task that no UPDATE is on its way to is
\* final.  The listing, the get() and the table check of every call that begins
\* later keep it out of reach, whatever the kill switch or a retry goes for.
Settled(t) ==
  /\ rows[t].state \in Terminal
  /\ \A s \in Surface : ~(pc[s] = "update" /\ item[s] = t)

TerminalKept ==
  \A t \in Task : Settled(t) => (Settled(t)' /\ rows'[t] = rows[t])

TerminalSafe == [][TerminalKept]_vars

\* What is left of the legal table when two surfaces write without looking.
UpdatesSafe == FreshUpdatesLegal /\ TerminalSafe

\* Any number of surfaces: every call returns, raises or dies with its process;
\* the batch loops end though other surfaces keep changing the table.
CallsReturn == \A s \in Surface : ~Idle(s) ~> Idle(s)
===============================================================================

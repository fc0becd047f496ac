------------------------------- MODULE Scheduler -------------------------------
(***************************************************************************)
(* The tick-loop scheduler (runtime/scheduler.py) in a hosting process:    *)
(* the TUI, the web server or a channel calls tick() about once a second,  *)
(* and each fire puts one task in the TaskStore.                           *)
(*                                                                         *)
(* tick() runs on the host's event loop without a pause, so nothing of the *)
(* scheduler changes under it; but it writes two databases per fire, the   *)
(* task and then the SCHEDULE_FIRED event, each of which may raise and end *)
(* the tick half done, and the wall clock goes on.  Entries, counters and  *)
(* last_fired live in memory: a restart forgets them, the tasks stay.      *)
(*                                                                         *)
(* Time counts from a Monday 00:00, in a unit of the clock's grain.        *)
(***************************************************************************)
EXTENDS Integers, Sequences

CONSTANTS
  Entry,       \* schedule ids
  Define,      \* Define[e]: its ScheduleEntry
  Cooldown,    \* cooldown_seconds
  MaxPerTick,  \* max_executions_per_tick
  Day,         \* length of a day
  LastMoment,  \* bound: the clock
  MaxFaults    \* bound: writes that raise

Definition ==
  [kind : {"ONCE", "INTERVAL", "DAILY", "WEEKLY"},
   created : Nat,    \* created_at
   at : Nat,         \* ONCE: at_time
   every : Nat,      \* INTERVAL: interval_seconds
   time : Nat,       \* DAILY, WEEKLY: time_of_day
   weekday : 0..6,   \* WEEKLY: index in WEEKDAYS
   limit : Nat]      \* max_executions; 0: None

ASSUME SchedulerAssumption ==
  /\ Define \in [Entry -> Definition]
  /\ Day \in Nat \ {0}
  /\ \A e \in Entry :
       /\ Define[e].kind = "INTERVAL" => Define[e].every > 0
       /\ Define[e].time < Day
  /\ Cooldown \in Nat \ {0}     \* MIN_COOLDOWN_SECONDS
  /\ MaxPerTick \in Nat \ {0}
  /\ LastMoment \in Nat
  /\ MaxFaults \in Nat

Never == -1

VARIABLES
  clock,       \* the wall clock
  order,       \* the registered entries, in the order of the dictionary
  enabled,     \* entry.enabled
  executions,  \* _EntryState.executions
  lastFired,   \* _EntryState.last_fired, or Never
  pc,          \* where tick() is: idle, scan, journal, jobs
  at,          \* the tick's now
  cursor,      \* the entry the tick is at
  fired,       \* len(fired)
  enqueued,    \* enqueued[e]: tasks put in the store for e since the start
  raised,      \* raised[e]: those of them whose tick raised before counting them
  faults       \* writes that have raised

entries == <<enabled, executions, lastFired>>
tasks == <<enqueued, raised, faults>>
schedulerVars == <<clock, order, enabled, executions, lastFired, pc, at, cursor,
                   fired, enqueued, raised, faults>>

Step == {"idle", "scan", "journal", "jobs"}

SchedulerTypeOK ==
  /\ clock \in Nat
  /\ order \in Seq(Entry)
  /\ enabled \in [Entry -> BOOLEAN]
  /\ executions \in [Entry -> Nat]
  /\ lastFired \in [Entry -> Nat \cup {Never}]
  /\ pc \in Step
  /\ at \in 0..clock
  /\ cursor \in 1..Len(order) + 1
  /\ fired \in 0..MaxPerTick
  /\ enqueued \in [Entry -> Nat]
  /\ raised \in [Entry -> Nat]
  /\ faults \in 0..MaxFaults

SchedulerInit ==
  /\ clock = 0
  /\ faults = 0
  /\ order = <<>>
  /\ enabled = [e \in Entry |-> TRUE]
  /\ executions = [e \in Entry |-> 0]
  /\ lastFired = [e \in Entry |-> Never]
  /\ pc = "idle"
  /\ at = 0
  /\ cursor = 1
  /\ fired = 0
  /\ enqueued = [e \in Entry |-> 0]
  /\ raised = [e \in Entry |-> 0]

-------------------------------------------------------------------------------
(* Due times: next_due_time(entry, now=n).                                 *)

\* The latest elapsed slot, or the first one while none has elapsed.
IntervalDue(d, n) ==
  IF n - d.created >= d.every
  THEN d.created + ((n - d.created) \div d.every) * d.every
  ELSE d.created + d.every

DayStart(n) == n - (n % Day)
Weekday(n) == (n \div Day) % 7

\* The occurrence strictly after n: c, or one period later.
After(c, n, period) == IF c > n THEN c ELSE c + period

DailyDue(d, n) == After(DayStart(n) + d.time, n, Day)

WeeklyDue(d, n) ==
  After(DayStart(n) + d.time + ((d.weekday - Weekday(n)) % 7) * Day, n, 7 * Day)

Due(e, n) ==
  LET d == Define[e]
  IN  IF d.kind = "ONCE" THEN d.at
      ELSE IF d.kind = "INTERVAL" THEN IntervalDue(d, n)
      ELSE IF d.kind = "DAILY" THEN DailyDue(d, n)
      ELSE WeeklyDue(d, n)

Cooling(e) == lastFired[e] # Never /\ at - lastFired[e] < Cooldown

Fires(e) == enabled[e] /\ Due(e, at) <= at /\ ~Cooling(e)

-------------------------------------------------------------------------------
(* The host.                                                               *)

Registered == {order[i] : i \in 1..Len(order)}

\* add(): refuses an id it has.
Add(e) ==
  /\ pc = "idle"
  /\ e \notin Registered
  /\ order' = Append(order, e)
  /\ UNCHANGED <<clock, entries, pc, at, cursor, fired, tasks>>

\* tick() is over, its local variables are gone.
Return ==
  /\ pc' = "idle"
  /\ at' = 0
  /\ cursor' = 1
  /\ fired' = 0

\* The process dies and a new one starts with an empty scheduler.
HostRestarts ==
  /\ order' = <<>>
  /\ enabled' = [e \in Entry |-> TRUE]
  /\ executions' = [e \in Entry |-> 0]
  /\ lastFired' = [e \in Entry |-> Never]
  /\ Return
  /\ enqueued' = [e \in Entry |-> 0]
  /\ raised' = [e \in Entry |-> 0]
  /\ UNCHANGED <<clock, faults>>

Pass ==
  /\ clock < LastMoment
  /\ clock' = clock + 1
  /\ UNCHANGED <<order, entries, pc, at, cursor, fired, tasks>>

-------------------------------------------------------------------------------
(* tick().                                                                 *)

Begin ==
  /\ pc = "idle"
  /\ pc' = "scan"
  /\ at' = clock
  /\ UNCHANGED <<clock, order, entries, cursor, fired, tasks>>

\* The scan goes on while entries are left and the budget lasts.
Scanning == pc = "scan" /\ cursor <= Len(order) /\ fired < MaxPerTick

\* Mutant: break where the code says continue.
PassOverBreaking ==
  /\ Scanning
  /\ ~Fires(order[cursor])
  /\ cursor' = Len(order) + 1
  /\ UNCHANGED <<clock, order, entries, pc, at, fired, tasks>>

\* continue
PassOver ==
  /\ Scanning
  /\ ~Fires(order[cursor])
  /\ cursor' = cursor + 1
  /\ UNCHANGED <<clock, order, entries, pc, at, fired, tasks>>

\* store.create() returns the task.
Enqueue ==
  /\ Scanning
  /\ Fires(order[cursor])
  /\ enqueued' = [enqueued EXCEPT ![order[cursor]] = @ + 1]
  /\ fired' = fired + 1
  /\ pc' = "journal"
  /\ UNCHANGED <<clock, order, entries, at, cursor, raised, faults>>

\* A write raises: tick() ends there, and the host shows or dies of the error.
Raise ==
  /\ faults < MaxFaults
  /\ faults' = faults + 1
  /\ Return
  /\ UNCHANGED <<clock, order, entries>>

\* store.create() raises, before the task's row is committed or after it.
EnqueueFails ==
  /\ Scanning
  /\ Fires(order[cursor])
  /\ Raise
  /\ \E stored \in {0, 1} :
       /\ enqueued' = [enqueued EXCEPT ![order[cursor]] = @ + stored]
       /\ raised' = [raised EXCEPT ![order[cursor]] = @ + stored]

Exhausted(e, n) == Define[e].limit # 0 /\ n >= Define[e].limit

\* Mutant: the entry is retired when it goes over its limit.
RecordLate(e) ==
  /\ executions' = [executions EXCEPT ![e] = @ + 1]
  /\ lastFired' = [lastFired EXCEPT ![e] = at]
  /\ enabled' = [enabled EXCEPT ![e] = @ /\ ~Exhausted(e, executions[e])]

\* The fire counts, and the last one retires the entry.
Record(e) ==
  /\ executions' = [executions EXCEPT ![e] = @ + 1]
  /\ lastFired' = [lastFired EXCEPT ![e] = at]
  /\ enabled' = [enabled EXCEPT ![e] = ~Exhausted(e, executions[e] + 1)]

\* journal.append(SCHEDULE_FIRED), and the bookkeeping after it.
Journal ==
  /\ pc = "journal"
  /\ Record(order[cursor])
  /\ cursor' = cursor + 1
  /\ pc' = "scan"
  /\ UNCHANGED <<clock, order, at, fired, tasks>>

JournalFails ==
  /\ pc = "journal"
  /\ Raise
  /\ raised' = [raised EXCEPT ![order[cursor]] = @ + 1]
  /\ UNCHANGED enqueued

ScanEnds ==
  /\ pc = "scan"
  /\ ~Scanning
  /\ pc' = "jobs"
  /\ UNCHANGED <<clock, order, entries, at, cursor, fired, tasks>>

\* The jobs run; what they raise is journaled, which may raise in turn.
Jobs ==
  /\ pc = "jobs"
  /\ \/ Return /\ UNCHANGED <<clock, order, entries, faults>>
     \/ Raise
  /\ UNCHANGED <<enqueued, raised>>

TickStep ==
  \/ Begin
  \/ PassOver
  \/ Enqueue
  \/ EnqueueFails
  \/ Journal
  \/ JournalFails
  \/ ScanEnds
  \/ Jobs

SchedulerNext == (\E e \in Entry : Add(e)) \/ HostRestarts \/ Pass \/ TickStep

SchedulerSpec == SchedulerInit /\ [][SchedulerNext]_schedulerVars

-------------------------------------------------------------------------------
(* Properties.                                                             *)

\* From when on an entry is due, said without next_due_time().
Opens(e, n) ==
  LET d == Define[e]
  IN  \/ d.kind = "ONCE" /\ n >= d.at
      \/ d.kind = "INTERVAL" /\ n >= d.created + d.every

\* A tick that has scanned with budget to spare has left out no entry whose time
\* has come: each one that is still enabled has fired within the cooldown.  An
\* INTERVAL entry is due at every moment after its first slot, not once per
\* interval, and a ONCE entry with no limit fires again after each cooldown.
NoneMissed ==
  pc = "jobs" /\ fired < MaxPerTick =>
    \A e \in Registered : enabled[e] /\ Opens(e, at) => Cooling(e)

\* An entry puts at most max_executions tasks in the store, and one more for
\* each tick that raised between the task and the count of it: the next tick
\* fires again, whatever the cooldown, under the same correlation id.
Retires ==
  \A e \in Entry :
    Define[e].limit # 0 => enqueued[e] <= Define[e].limit + raised[e]

\* A DAILY or WEEKLY entry never fires: its due time is taken strictly after the
\* moment of the tick, and then compared with that moment.
ClockEntriesIdle ==
  \A e \in Entry : Define[e].kind \in {"DAILY", "WEEKLY"} => enqueued[e] = 0

\* Which entries a tick fires: all whose time has come, and never those of the clock.
FiresWhenDue == NoneMissed /\ ClockEntriesIdle
===============================================================================

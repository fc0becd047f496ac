---------------------------- MODULE SchedulerProofs ----------------------------
(***************************************************************************)
(* What the scheduler guarantees for any entries, cooldown, budget and     *)
(* length of a day.  The arithmetic is in two lemmas: a DAILY or WEEKLY    *)
(* due time is after the moment it is asked for, and a ONCE or INTERVAL    *)
(* entry that is open is due.  Counted is the invariant behind Retires:    *)
(* every task in the store is counted, lost to a raise, or the one the     *)
(* tick is journaling.  Scanned is the one behind NoneMissed.              *)
(***************************************************************************)
EXTENDS Scheduler, TLAPS

InFlight(e) == IF pc = "journal" /\ order[cursor] = e THEN 1 ELSE 0

Control ==
  /\ pc = "journal" =>
       /\ cursor \in 1..Len(order)
       /\ enabled[order[cursor]]
  /\ pc = "jobs" => cursor = Len(order) + 1 \/ fired = MaxPerTick
  /\ pc = "idle" => cursor = 1

Counted ==
  \A e \in Entry :
    /\ enqueued[e] = executions[e] + raised[e] + InFlight(e)
    /\ Define[e].limit # 0 =>
         /\ executions[e] <= Define[e].limit
         /\ enabled[e] => executions[e] < Define[e].limit

Scanned ==
  pc # "idle" =>
    \A i \in 1..Len(order) :
      i < cursor /\ enabled[order[i]] /\ Opens(order[i], at) => Cooling(order[i])

IInv == SchedulerTypeOK /\ Control /\ Counted /\ Scanned /\ ClockEntriesIdle

-------------------------------------------------------------------------------
(* Due times.                                                              *)

(* An occurrence of a DAILY or WEEKLY entry is always later than now.               *)
LEMMA ClockDueLater ==
  ASSUME NEW e \in Entry, NEW n \in Nat, Define[e].kind \in {"DAILY", "WEEKLY"}
  PROVE  Due(e, n) > n
<1> USE SchedulerAssumption
<1> DEFINE d == Define[e]
<1>1. d \in Definition
  OBVIOUS
<1>2. d.time \in Nat /\ d.weekday \in Int
  BY <1>1 DEF Definition
<1>3. n % Day \in 0..(Day - 1)
  OBVIOUS
<1>4. DayStart(n) \in Nat /\ DayStart(n) + Day > n
  <2>1. n % Day <= n
    OBVIOUS
  <2> QED BY <1>3, <2>1 DEF DayStart
<1>5. DailyDue(d, n) > n
  BY <1>2, <1>4 DEF DailyDue, After
<1>6. WeeklyDue(d, n) > n
  <2> DEFINE k == (d.weekday - Weekday(n)) % 7
  <2>1. n \div Day \in Int
    OBVIOUS
  <2>2. Weekday(n) \in Int
    BY <2>1 DEF Weekday
  <2>3. k \in Nat
    BY <1>2, <2>2
  <2> HIDE DEF k
  <2>4. k * Day \in Nat
    BY <2>3
  <2>5. After(DayStart(n) + d.time + k * Day, n, 7 * Day) > n
    <3> DEFINE c == DayStart(n) + d.time + k * Day
    <3>1. c \in Nat /\ c + 7 * Day > n
      BY <1>2, <1>4, <2>4
    <3> HIDE DEF c
    <3>2. After(c, n, 7 * Day) > n
      BY <3>1 DEF After
    <3> QED BY <3>2 DEF c
  <2> QED BY <2>5 DEF WeeklyDue, k
<1> QED BY <1>5, <1>6 DEF Due

(* The slots that have elapsed fit in the time that has.                          *)
LEMMA SlotsFit ==
  ASSUME NEW x \in Nat, NEW y \in Nat, y > 0
  PROVE  (x \div y) * y \in Nat /\ (x \div y) * y <= x
<1>1. x \div y \in Nat
  OBVIOUS
<1>2. (x \div y) * y \in Nat
  BY <1>1
<1>3. (x \div y) * y <= x
  OBVIOUS
<1> QED BY <1>2, <1>3

(* Once a ONCE or INTERVAL entry is open it is due, at every later moment.        *)
LEMMA OpenIsDue ==
  ASSUME NEW e \in Entry, NEW n \in Nat, Opens(e, n)
  PROVE  Due(e, n) <= n
<1> USE SchedulerAssumption
<1> DEFINE d == Define[e]
<1>1. /\ d.kind \in {"ONCE", "INTERVAL", "DAILY", "WEEKLY"}
      /\ d.created \in Nat /\ d.every \in Nat /\ d.at \in Nat
  BY DEF Definition
<1>2. CASE d.kind = "ONCE"
  BY <1>2 DEF Opens, Due
<1>3. CASE d.kind = "INTERVAL"
  <2>1. d.every > 0 /\ n - d.created \in Nat /\ n - d.created >= d.every
    BY <1>1, <1>3 DEF Opens
  <2>2. /\ ((n - d.created) \div d.every) * d.every <= n - d.created
        /\ ((n - d.created) \div d.every) * d.every \in Nat
    BY <1>1, <2>1, SlotsFit
  <2> QED BY <1>1, <1>3, <2>1, <2>2 DEF Due, IntervalDue
<1> QED BY <1>2, <1>3 DEF Opens

LEMMA InitInv == SchedulerInit => IInv
<1> SUFFICES ASSUME SchedulerInit PROVE IInv
  OBVIOUS
<1> USE SchedulerAssumption
<1>1. SchedulerTypeOK
  BY DEF SchedulerInit, SchedulerTypeOK, Step, Never
<1>2. Control /\ Scanned /\ ClockEntriesIdle
  BY DEF SchedulerInit, Control, Scanned, ClockEntriesIdle
<1>3. Counted
  <2> SUFFICES ASSUME NEW e \in Entry
               PROVE  /\ enqueued[e] = executions[e] + raised[e] + InFlight(e)
                      /\ Define[e].limit # 0 =>
                           executions[e] <= Define[e].limit /\ executions[e] < Define[e].limit
    BY DEF Counted
  <2>1. enqueued[e] = 0 /\ executions[e] = 0 /\ raised[e] = 0 /\ InFlight(e) = 0
    BY DEF SchedulerInit, InFlight
  <2>2. Define[e].limit \in Nat
    BY DEF Definition
  <2> QED BY <2>1, <2>2
<1> QED BY <1>1, <1>2, <1>3 DEF IInv

(* Every action keeps the types; in a tick the cursor and the budget stay in their *)
(* ranges, and the tick's moment is not later than the clock.                     *)
LEMMA TypeStep == ASSUME SchedulerTypeOK, Control, [SchedulerNext]_schedulerVars PROVE SchedulerTypeOK'
<1> USE SchedulerAssumption DEF Step, entries, tasks
<1>1. CASE UNCHANGED schedulerVars
  BY <1>1 DEF SchedulerTypeOK, schedulerVars
<1>2. ASSUME NEW e \in Entry, Add(e) PROVE SchedulerTypeOK'
  <2>1. order' \in Seq(Entry) /\ Len(order') = Len(order) + 1
    BY <1>2 DEF Add, SchedulerTypeOK
  <2>2. cursor' \in 1..Len(order') + 1
    BY <1>2, <2>1 DEF Add, SchedulerTypeOK
  <2> QED BY <1>2, <2>1, <2>2 DEF Add, SchedulerTypeOK
<1>3. CASE HostRestarts
  BY <1>3 DEF HostRestarts, Return, SchedulerTypeOK, Never
<1>4. CASE Pass
  BY <1>4 DEF Pass, SchedulerTypeOK
<1>5. CASE Begin
  BY <1>5 DEF Begin, SchedulerTypeOK
<1>6. CASE PassOver
  BY <1>6 DEF PassOver, Scanning, SchedulerTypeOK
<1>7. CASE Enqueue
  <2>1. order[cursor] \in Entry
    BY <1>7 DEF Enqueue, Scanning, SchedulerTypeOK
  <2> QED BY <1>7, <2>1 DEF Enqueue, Scanning, SchedulerTypeOK
<1>8. CASE EnqueueFails
  <2>1. order[cursor] \in Entry
    BY <1>8 DEF EnqueueFails, Scanning, SchedulerTypeOK
  <2>2. PICK stored \in {0, 1} :
          /\ enqueued' = [enqueued EXCEPT ![order[cursor]] = @ + stored]
          /\ raised' = [raised EXCEPT ![order[cursor]] = @ + stored]
    BY <1>8 DEF EnqueueFails
  <2>3. \A f \in [Entry -> Nat] : [f EXCEPT ![order[cursor]] = @ + stored] \in [Entry -> Nat]
    BY <2>1
  <2>4. enqueued' \in [Entry -> Nat] /\ raised' \in [Entry -> Nat]
    BY <2>2, <2>3 DEF SchedulerTypeOK
  <2>5. Raise
    BY <1>8 DEF EnqueueFails
  <2> QED BY <2>4, <2>5 DEF Raise, Return, SchedulerTypeOK
<1>9. CASE Journal
  <2>1. order[cursor] \in Entry
    BY <1>9 DEF Journal, Control, SchedulerTypeOK
  <2>2. /\ executions' \in [Entry -> Nat]
        /\ lastFired' \in [Entry -> Nat \cup {Never}]
        /\ enabled' \in [Entry -> BOOLEAN]
    BY <1>9, <2>1 DEF Journal, Record, Exhausted, SchedulerTypeOK
  <2>3. cursor' \in 1..Len(order') + 1
    BY <1>9 DEF Journal, Control, SchedulerTypeOK
  <2> QED BY <1>9, <2>2, <2>3 DEF Journal, SchedulerTypeOK
<1>10. CASE JournalFails
  <2>1. order[cursor] \in Entry
    BY <1>10 DEF JournalFails, Control, SchedulerTypeOK
  <2> QED BY <1>10, <2>1 DEF JournalFails, Raise, Return, SchedulerTypeOK
<1>11. CASE ScanEnds
  BY <1>11 DEF ScanEnds, SchedulerTypeOK
<1>12. CASE Jobs
  BY <1>12 DEF Jobs, Raise, Return, SchedulerTypeOK
<1> QED BY <1>1, <1>2, <1>3, <1>4, <1>5, <1>6, <1>7, <1>8, <1>9, <1>10, <1>11, <1>12
        DEF SchedulerNext, TickStep

(* A tick journals an enabled entry it has found, and it reaches its jobs only    *)
(* past the last entry or with its budget used up.                                *)
LEMMA ControlStep == ASSUME SchedulerTypeOK, Control, [SchedulerNext]_schedulerVars PROVE Control'
<1> USE SchedulerAssumption DEF entries, tasks
<1>1. CASE UNCHANGED schedulerVars
  BY <1>1 DEF Control, schedulerVars
<1>2. ASSUME NEW e \in Entry, Add(e) PROVE Control'
  BY <1>2 DEF Add, Control
<1>3. CASE HostRestarts \/ Pass \/ Begin
  BY <1>3 DEF HostRestarts, Return, Pass, Begin, Control
<1>4. CASE PassOver
  BY <1>4 DEF PassOver, Scanning, Control
<1>5. CASE Enqueue
  BY <1>5 DEF Enqueue, Scanning, Fires, Control, SchedulerTypeOK
<1>6. CASE EnqueueFails \/ JournalFails \/ Jobs
  BY <1>6 DEF EnqueueFails, JournalFails, Jobs, Raise, Return, Control
<1>7. CASE Journal
  BY <1>7 DEF Journal, Control
<1>8. CASE ScanEnds
  BY <1>8 DEF ScanEnds, Scanning, Control, SchedulerTypeOK
<1> QED BY <1>1, <1>2, <1>3, <1>4, <1>5, <1>6, <1>7, <1>8 DEF SchedulerNext, TickStep

(* Each task is counted once: by executions, by raised, or as the one in flight;  *)
(* an entry at its limit is retired.                                              *)
LEMMA CountedStep == ASSUME SchedulerTypeOK, Control, Counted, [SchedulerNext]_schedulerVars PROVE Counted'
<1> USE SchedulerAssumption DEF entries, tasks
<1> DEFINE CountedFor(e) ==
      /\ enqueued[e] = executions[e] + raised[e] + InFlight(e)
      /\ Define[e].limit # 0 =>
           /\ executions[e] <= Define[e].limit
           /\ enabled[e] => executions[e] < Define[e].limit
<1> SUFFICES ASSUME NEW e \in Entry PROVE CountedFor(e)'
  BY DEF Counted
<1>0. CountedFor(e) /\ Define[e].limit \in Nat
  BY DEF Counted, Definition
<1>1. CASE UNCHANGED schedulerVars
  BY <1>0, <1>1 DEF schedulerVars, InFlight
<1>2. CASE (\E f \in Entry : Add(f)) \/ Pass \/ Begin \/ PassOver \/ ScanEnds
  BY <1>0, <1>2 DEF Add, Pass, Begin, PassOver, Scanning, ScanEnds, InFlight
<1>3. CASE HostRestarts
  <2>1. enqueued'[e] = 0 /\ executions'[e] = 0 /\ raised'[e] = 0 /\ InFlight(e)' = 0
    BY <1>3 DEF HostRestarts, Return, InFlight
  <2> QED BY <1>0, <2>1
<1>4. CASE Enqueue
  <2>1. order[cursor] \in Entry /\ InFlight(e) = 0
    BY <1>4 DEF Enqueue, Scanning, SchedulerTypeOK, InFlight
  <2>2. InFlight(e)' = IF e = order[cursor] THEN 1 ELSE 0
    BY <1>4 DEF Enqueue, InFlight
  <2>3. enqueued'[e] = enqueued[e] + InFlight(e)'
    BY <1>4, <2>1, <2>2 DEF Enqueue, SchedulerTypeOK
  <2> QED BY <1>0, <1>4, <2>1, <2>2, <2>3 DEF Enqueue, SchedulerTypeOK
<1>5. CASE EnqueueFails
  <2>1. PICK stored \in {0, 1} :
          /\ enqueued' = [enqueued EXCEPT ![order[cursor]] = @ + stored]
          /\ raised' = [raised EXCEPT ![order[cursor]] = @ + stored]
    BY <1>5 DEF EnqueueFails
  <2>2. InFlight(e) = 0 /\ InFlight(e)' = 0
    BY <1>5 DEF EnqueueFails, Scanning, Raise, Return, InFlight
  <2>3. \E n \in {0, 1} : enqueued'[e] = enqueued[e] + n /\ raised'[e] = raised[e] + n
    BY <2>1 DEF SchedulerTypeOK
  <2>4. executions' = executions /\ enabled' = enabled
    BY <1>5 DEF EnqueueFails, Raise
  <2> QED BY <1>0, <2>2, <2>3, <2>4 DEF SchedulerTypeOK
<1>6. CASE Journal
  <2>1. order[cursor] \in Entry /\ enabled[order[cursor]]
    BY <1>6 DEF Journal, Control, SchedulerTypeOK
  <2>2. InFlight(e)' = 0 /\ enqueued' = enqueued /\ raised' = raised
    BY <1>6 DEF Journal, InFlight
  <2>3. CASE e = order[cursor]
    <3>1. InFlight(e) = 1 /\ executions'[e] = executions[e] + 1
      BY <1>6, <2>1, <2>3 DEF Journal, Record, InFlight, SchedulerTypeOK
    <3>2. enabled'[e] => ~Exhausted(e, executions[e] + 1)
      BY <1>6, <2>1, <2>3 DEF Journal, Record, SchedulerTypeOK
    <3>3. executions[e] \in Nat
      BY DEF SchedulerTypeOK
    <3>4. Define[e].limit # 0 => executions'[e] <= Define[e].limit
      BY <1>0, <2>1, <2>3, <3>1, <3>3
    <3>5. Define[e].limit # 0 => (enabled'[e] => executions'[e] < Define[e].limit)
      BY <1>0, <3>1, <3>2, <3>3 DEF Exhausted
    <3> QED BY <1>0, <2>2, <3>1, <3>3, <3>4, <3>5 DEF SchedulerTypeOK
  <2>4. CASE e # order[cursor]
    <3>1. /\ InFlight(e) = 0
          /\ executions'[e] = executions[e]
          /\ enabled'[e] = enabled[e]
      BY <1>6, <2>1, <2>4 DEF Journal, Record, InFlight, SchedulerTypeOK
    <3> QED BY <1>0, <2>2, <3>1
  <2> QED BY <2>3, <2>4
<1>7. CASE JournalFails
  <2>1. order[cursor] \in Entry
    BY <1>7 DEF JournalFails, Control, SchedulerTypeOK
  <2>2. InFlight(e)' = 0 /\ raised'[e] = raised[e] + InFlight(e)
    BY <1>7, <2>1 DEF JournalFails, Raise, Return, InFlight, SchedulerTypeOK
  <2>3. UNCHANGED <<enqueued, executions, enabled>>
    BY <1>7 DEF JournalFails, Raise
  <2> QED BY <1>0, <2>2, <2>3 DEF SchedulerTypeOK, InFlight
<1>8. CASE Jobs
  BY <1>0, <1>8 DEF Jobs, Raise, Return, InFlight
<1> QED BY <1>1, <1>2, <1>3, <1>4, <1>5, <1>6, <1>7, <1>8 DEF SchedulerNext, TickStep

(* A clock entry is never found due, so no task of it is enqueued.                *)
LEMMA ClockStep ==
  ASSUME SchedulerTypeOK, ClockEntriesIdle, [SchedulerNext]_schedulerVars
  PROVE  ClockEntriesIdle'
<1> USE DEF entries, tasks
<1> SUFFICES ASSUME NEW e \in Entry, Define[e].kind \in {"DAILY", "WEEKLY"}
             PROVE  enqueued'[e] = 0
  BY DEF ClockEntriesIdle
<1>0. enqueued[e] = 0
  BY DEF ClockEntriesIdle
<1>1. CASE Enqueue \/ EnqueueFails
  <2>1. Due(order[cursor], at) <= at /\ order[cursor] \in Entry
    BY <1>1 DEF Enqueue, EnqueueFails, Fires, Scanning, SchedulerTypeOK
  <2>2. at \in Nat
    BY DEF SchedulerTypeOK
  <2>3. Due(e, at) > at
    BY <2>2, ClockDueLater
  <2>4. Due(e, at) <= at => FALSE
    <3>1. Due(e, at) \in Int
      <4>1. /\ Define[e].created \in Nat /\ Define[e].time \in Nat
            /\ Define[e].weekday \in Int /\ Day \in Nat \ {0}
        BY SchedulerAssumption DEF Definition
      <4>2. DayStart(at) \in Int /\ Weekday(at) \in Int
        BY <2>2, <4>1 DEF DayStart, Weekday
      <4>3. ((Define[e].weekday - Weekday(at)) % 7) * Day \in Int
        BY <4>1, <4>2
      <4> QED BY <2>2, <4>1, <4>2, <4>3 DEF Due, DailyDue, WeeklyDue, After
    <3> QED BY <2>2, <2>3, <3>1
  <2>5. order[cursor] # e
    BY <2>1, <2>4
  <2> QED BY <1>0, <1>1, <2>5 DEF Enqueue, EnqueueFails, SchedulerTypeOK
<1>2. CASE HostRestarts
  BY <1>2 DEF HostRestarts
<1>3. CASE ~(Enqueue \/ EnqueueFails) /\ ~HostRestarts
  BY <1>0, <1>3
     DEF SchedulerNext, TickStep, Add, Pass, Begin, PassOver, Journal, JournalFails, ScanEnds, Jobs, schedulerVars
<1> QED BY <1>1, <1>2, <1>3

(* What the cursor has passed in this tick is retired, not open, or cooling.      *)
LEMMA ScannedStep ==
  ASSUME SchedulerTypeOK, Control, Scanned, [SchedulerNext]_schedulerVars
  PROVE  Scanned'
<1> USE SchedulerAssumption DEF entries, tasks
<1>1. CASE UNCHANGED schedulerVars
  BY <1>1 DEF Scanned, Cooling, schedulerVars
<1>2. CASE \E e \in Entry : Add(e)
  BY <1>2 DEF Add, Scanned
<1>3. CASE HostRestarts \/ EnqueueFails \/ JournalFails \/ Jobs
  BY <1>3 DEF HostRestarts, EnqueueFails, JournalFails, Jobs, Raise, Return, Scanned
<1>4. CASE Pass \/ Enqueue \/ ScanEnds
  BY <1>4 DEF Pass, Enqueue, Scanning, ScanEnds, Scanned, Cooling
<1>5. CASE Begin
  BY <1>5 DEF Begin, Control, Scanned
<1>6. CASE PassOver
  <2>1. order[cursor] \in Entry /\ at \in Nat
    BY <1>6 DEF PassOver, Scanning, SchedulerTypeOK
  <2>2. enabled[order[cursor]] /\ Opens(order[cursor], at) => Cooling(order[cursor])
    BY <1>6, <2>1, OpenIsDue DEF PassOver, Fires
  <2>3. /\ pc = "scan" /\ cursor' = cursor + 1 /\ cursor \in Nat
        /\ UNCHANGED <<order, enabled, lastFired, at, pc>>
    BY <1>6 DEF PassOver, Scanning, SchedulerTypeOK
  <2> QED BY <2>2, <2>3 DEF Scanned, Cooling
<1>7. CASE Journal
  <2>1. order[cursor] \in Entry /\ at \in Nat
    BY <1>7 DEF Journal, Control, SchedulerTypeOK
  <2>2. /\ pc = "journal" /\ cursor' = cursor + 1 /\ cursor \in Nat
        /\ UNCHANGED <<order, at>>
    BY <1>7 DEF Journal, Control, SchedulerTypeOK
  <2>3. lastFired'[order[cursor]] = at /\ at # Never /\ at - at < Cooldown
    BY <1>7, <2>1 DEF Journal, Record, Never, SchedulerTypeOK
  <2>4. \A f \in Entry : f # order[cursor] =>
          lastFired'[f] = lastFired[f] /\ enabled'[f] = enabled[f]
    BY <1>7 DEF Journal, Record, SchedulerTypeOK
  <2>5. \A i \in 1..Len(order) : order[i] \in Entry
    BY DEF SchedulerTypeOK
  <2> SUFFICES ASSUME NEW i \in 1..Len(order), i < cursor + 1,
                      enabled'[order[i]], Opens(order[i], at)
               PROVE  lastFired'[order[i]] # Never /\ at - lastFired'[order[i]] < Cooldown
    BY <2>2 DEF Scanned, Cooling
  <2>6. CASE order[i] = order[cursor]
    BY <2>3, <2>6
  <2>7. CASE order[i] # order[cursor]
    <3>1. i < cursor
      BY <2>2, <2>7
    <3>2. Cooling(order[i])
      BY <2>2, <2>4, <2>5, <2>7, <3>1 DEF Scanned
    <3> QED BY <2>4, <2>5, <2>7, <3>2 DEF Cooling
  <2> QED BY <2>6, <2>7
<1> QED BY <1>1, <1>2, <1>3, <1>4, <1>5, <1>6, <1>7 DEF SchedulerNext, TickStep

LEMMA StepInv == IInv /\ [SchedulerNext]_schedulerVars => IInv'
BY TypeStep, ControlStep, CountedStep, ClockStep, ScannedStep DEF IInv

(* For any entries and budget the variables keep their types; a tick never fires  *)
(* more than its budget.                                                          *)
THEOREM TypeCorrect == SchedulerSpec => []SchedulerTypeOK
<1>1. IInv => SchedulerTypeOK
  BY DEF IInv
<1> QED BY InitInv, StepInv, <1>1, PTL DEF SchedulerSpec

(* No DAILY and no WEEKLY entry ever fires, whatever the day, time and weekday.   *)
THEOREM ClockEntriesNeverFire == SchedulerSpec => []ClockEntriesIdle
<1>1. IInv => ClockEntriesIdle
  BY DEF IInv
<1> QED BY InitInv, StepInv, <1>1, PTL DEF SchedulerSpec

(* An entry with a limit enqueues that many tasks and at most one more for each   *)
(* tick that raised between the task and the count of it.                         *)
THEOREM EntriesRetire == SchedulerSpec => []Retires
<1>1. IInv => Retires
  <2> SUFFICES ASSUME IInv, NEW e \in Entry, Define[e].limit # 0
               PROVE  enqueued[e] <= Define[e].limit + raised[e]
    BY DEF Retires
  <2>1. /\ enqueued[e] = executions[e] + raised[e] + InFlight(e)
        /\ executions[e] <= Define[e].limit
        /\ enabled[e] => executions[e] < Define[e].limit
    BY DEF IInv, Counted
  <2>2. InFlight(e) = 1 => enabled[e]
    BY DEF IInv, Control, InFlight
  <2>3. /\ executions[e] \in Nat /\ raised[e] \in Nat /\ Define[e].limit \in Nat
        /\ InFlight(e) \in {0, 1}
    BY SchedulerAssumption DEF IInv, SchedulerTypeOK, Definition, InFlight
  <2> QED BY <2>1, <2>2, <2>3
<1> QED BY InitInv, StepInv, <1>1, PTL DEF SchedulerSpec

(* A tick that reaches its jobs with budget to spare has fired every enabled entry *)
(* whose time has come, but for the cooldown.                                     *)
THEOREM OpenEntriesFire == SchedulerSpec => []NoneMissed
<1>1. IInv => NoneMissed
  <2> SUFFICES ASSUME IInv, pc = "jobs", fired < MaxPerTick, NEW i \in 1..Len(order),
                      enabled[order[i]], Opens(order[i], at)
               PROVE  Cooling(order[i])
    BY DEF NoneMissed, Registered
  <2>1. cursor = Len(order) + 1
    BY SchedulerAssumption DEF IInv, SchedulerTypeOK, Control
  <2>2. i < cursor
    BY <2>1 DEF IInv, SchedulerTypeOK
  <2> QED BY <2>2 DEF IInv, Scanned
<1> QED BY InitInv, StepInv, <1>1, PTL DEF SchedulerSpec

(* A tick with budget to spare fires all entries whose time has come, and no tick  *)
(* ever fires a DAILY or WEEKLY one.                                              *)
THEOREM TicksFire == SchedulerSpec => []FiresWhenDue
<1>1. NoneMissed /\ ClockEntriesIdle => FiresWhenDue
  BY DEF FiresWhenDue
<1> QED BY <1>1, OpenEntriesFire, ClockEntriesNeverFire, PTL
===============================================================================

------------------------------- MODULE AgentPool -------------------------------
(***************************************************************************)
(* The admission-controlled pool (runtime/agent_pool.py) as the            *)
(* orchestrator uses it: acquire() with depth 0 and no parent, release().  *)
(* All of it runs on one event loop, so a step is what a coroutine does    *)
(* between two awaits; the one await is that of the semaphore.  run ids    *)
(* are fresh, so a run is named here by the plan node it works for.        *)
(***************************************************************************)
EXTENDS Naturals, FiniteSets, Sequences

CONSTANTS
  Node,           \* nodes of a plan; each asks for one run
  MaxConcurrent,  \* PoolLimits.max_concurrent
  MaxTotal        \* PoolLimits.max_total

ASSUME PoolAssumption == MaxConcurrent \in Nat \ {0} /\ MaxTotal \in Nat \ {0}

VARIABLES
  value,    \* the semaphore's counter
  queue,    \* waiters in acquire(), first come first
  woken,    \* waiters that were handed a slot and have not resumed yet
  live,     \* admitted runs whose handle somebody holds
  leaked,   \* admitted runs whose handle is lost: nobody can release them
  spawned   \* _total_spawned

pool == <<value, queue, woken, live, leaked, spawned>>

PoolInit ==
  /\ value = MaxConcurrent
  /\ queue = <<>>
  /\ woken = {}
  /\ live = {}
  /\ leaked = 0
  /\ spawned = 0

\* Semaphore.locked(): a waiter that has not resumed keeps newcomers out.
Locked == value = 0 \/ queue # <<>> \/ woken # {}

\* acquire() refuses: this is looked at before the semaphore is awaited, never after.
Exhausted == spawned >= MaxTotal

\* The part of acquire() after the semaphore: the run is registered.
Register(n) == live' = live \cup {n} /\ spawned' = spawned + 1

\* Semaphore._wake_up_next() until no slot or no waiter is left.
Handed(free) == IF free <= Len(queue) THEN free ELSE Len(queue)
WakeUp(free, resumed) ==
  /\ value' = free - Handed(free)
  /\ woken' = (woken \ resumed) \cup {queue[k] : k \in 1 .. Handed(free)}
  /\ queue' = SubSeq(queue, Handed(free) + 1, Len(queue))

\* acquire() up to its await: a slot at once, or a place in the queue.
AdmitAtOnce(n) ==
  /\ ~Exhausted /\ ~Locked
  /\ value' = value - 1
  /\ Register(n)
  /\ UNCHANGED <<queue, woken, leaked>>

Enqueue(n) ==
  /\ ~Exhausted /\ Locked
  /\ queue' = Append(queue, n)
  /\ UNCHANGED <<value, woken, live, leaked, spawned>>

\* A woken waiter goes on; before that it wakes whoever came while it was in the way.
AdmitWoken(n) ==
  /\ n \in woken
  /\ WakeUp(value, {n})
  /\ Register(n)
  /\ UNCHANGED leaked

\* Mutant of Release: the slot is counted and nobody is woken.
ReleaseQuietly(n) ==
  /\ value' = value + 1
  /\ live' = live \ {n}
  /\ UNCHANGED <<queue, woken, leaked, spawned>>

\* Mutant of Release: the slot is not given back.
ReleaseNothing(n) ==
  /\ live' = live \ {n}
  /\ UNCHANGED <<value, queue, woken, leaked, spawned>>

\* release(): a run that is not live any more frees nothing.
Release(n) ==
  /\ WakeUp(value + 1, {})
  /\ live' = live \ {n}
  /\ UNCHANGED <<leaked, spawned>>

\* The holder of a handle goes away without release().
Leak(n) ==
  /\ live' = live \ {n}
  /\ leaked' = leaked + 1
  /\ UNCHANGED <<value, queue, woken, spawned>>

\* All coroutines in acquire() and all holders are cancelled: waiters leave the queue, a
\* slot handed to one goes back, the runs stay registered.
CancelAll ==
  /\ value' = value + Cardinality(woken)
  /\ queue' = <<>>
  /\ woken' = {}
  /\ live' = {}
  /\ leaked' = leaked + Cardinality(live)
  /\ UNCHANGED spawned
===============================================================================

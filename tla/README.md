# Xenopus in TLA+

Xenopus is an agent runtime in Python: a durable task store, a gateway through
which agents call tools under permissions and approvals, an orchestrator that
runs plans on a bounded agent pool, a scheduler, memory and skills, and several
surfaces (command line, TUI, web server, Telegram, Discord, a resident loop)
that share one SQLite database. This directory holds TLA+ models of its core,
the TLC configurations that check them on small instances, and theorems proved
with TLAPS for all values of the constants. Paths below are relative to the
package, `src/xenopus/`.

## 1. Inventory

Each line gives the state a component keeps, its operations, what is hard in
it, and what makes it correct.

| Component | State | Operations | Hard part and what must hold |
|---|---|---|---|
| Task store, `persistence/tasks.py` | table `tasks`, one row per task | create, transition, retry, cancel_all, mark_interrupted, list | every surface has a connection of its own and a call is several SQLite statements; the table of legal transitions, the attempt budget, the journal naming the state of the row |
| Kill switch and crash recovery, `runtime/killswitch.py`, `runtime/recovery.py` | none | trigger, run | batch calls over a listing, any of whose steps may be the last; no live task (no task in flight) is left |
| Event journal, `persistence/journal.py` | append-only table | append | another transaction than the change it reports |
| Tool gateway, executor, registry, permission and risk engines, `tools/gateway.py`, `runtime/executor.py`, `tools/registry.py`, `runtime/permission.py`, `runtime/risk.py` | quarantine set, in-memory approval ledger, attempts of a call | invoke, execute, quarantine, lift, create, grant, deny, resolve | calls are threads that share all of it without a lock; retries judge anew; a cancelled caller leaves its thread running; nothing runs without the consent it needs |
| Agent pool and orchestrator, `runtime/agent_pool.py`, `runtime/orchestrator.py`, `runtime/plan.py` | semaphore, live runs, totals; stage and result of each node | acquire, release, execute | cancellation while waiting for a slot, records that raise; slots conserved, evidence before a runner, a result for each node, execute() ends |
| Durable approvals, `persistence/approvals_store.py` | table `approvals`, a counter per process | create, grant, deny, resolve, reap_expired, list_pending | read and write are different transactions, ids are numbered again after a restart; a consent stays with its action, a decision stands |
| Scheduler, `runtime/scheduler.py` | entries and counts in memory | add, tick | two writes per fire, either may raise; which entries fire, and how often |
| Skill registry, `skills/` | table `skills`: stage, evaluations, trust date | register, record_evaluation, advance_stage, supersede | a call judges or extends a row it has read and writes by id later; no evaluation lost, no stage the row does not support |
| Memory store, `memory/` | table `memories` | create, promote, reject, supersede, mark_stale, expire_stale, search | as above, and a supersession in two transactions; nothing trusted that the gate would refuse |
| Reflection loop, `runtime/learning.py`, `persistence/reliability.py` | table of outcomes; what a run read at its start | record, run | two runs at once (resident and `xenopus reflect`), runs cut short, budgets; each failing subject remembered, and once |
| Resident host, `runtime/resident.py` | stop flag, cadence | run, request_stop | runs the loop above at a cadence; its scheduler is never given an entry |
| Providers, `provider/` | health snapshot per provider: state, deadline, failures | select, complete, record_success, record_failure, is_available | calls answer late and out of order; no call before the deadline a 429 gave |
| Plan graph, goals, `runtime/plan.py`, `runtime/goal.py` | status of a goal, its plans | create, activate, achieve, abandon; validate, topological_order | every dependency graph: cycles no root leads to, diamonds that are none; a sound plan and one order |
| Agent state machine, `runtime/fsm.py` | state | transition | twenty states and the paths through them, a guard that raises when asked again; nothing completes unverified, and nothing is cancelled but while it is at work |
| Notifications, `runtime/notifications.py`, the sinks | digest, rate window per subscriber, feed, toasts, sends | route, flush_digest | a sink that raises, a journal that cannot be written, a channel without chats, quiet hours, digests at a process's end; the journal can be believed |
| Webhooks, `web/webhooks.py` | nonces, rate windows in memory | receive | requests overtake each other at the await of the body, restarts forget the nonces, the timestamp is a header the signature does not cover; a nonce makes one task, as far as that goes |
| Sessions, `persistence/sessions.py` | tables of sessions, turns and the title index | open, create, fork, append_turn, archive, search | read and write are two steps, opening migrates in DDL that commits by itself; history complete and closed, search complete |
| Recycle bin, `tools/recycle.py` | files, directories and origin records | delete, restore, purge | several file operations each, cut short or in others' way, in the workspace and in the bin, which lies inside it; a directory's record is written over its member `deleted-from`; nothing else is destroyed, every entry nobody touched is restorable |
| Channels, `gateway/telegram.py`, `gateway/discord.py` | poll offset, batch, pending confirmation | poll, dispatch, reply | redelivery, hosts that end, several chats and one pending slot; a kill switch answers its question, a message is handled once per host |
| Verifier, aggregator, synthesizer, team, `runtime/` | none: computed from results as they come in | rank, deduplicate, synthesize, check | results in any order and repeated; evidence wins, votes do not count |
| Context, `runtime/context.py` | none | assemble | protected first, newest next, within the budget and in order |
| Server, TUI, command line, views, configuration, logs | presentation and I/O | | surfaces of the stores above |

**Interaction.** A surface opens a `TaskStore`, an `EventJournal` and an
`ApprovalStore` on the one `runtime.sqlite`; surfaces meet only there. Inside a
process the orchestrator awaits runners on one event loop, a runner asks the
executor, and the executor runs `ToolGateway.invoke()` in a thread of its own.
The gateway asks the registry (quarantine), the permission engine, the risk
engine and the in-memory ledger, in that order. A host calls `Scheduler.tick()`,
which creates tasks in the task store. The kill switch and crash recovery are
loops of task-store calls.

## 2. Modules

| Module | Models | State and actions in terms of the code |
|---|---|---|
| `TaskStates` | vocabulary of `persistence/tasks.py` | states, `LegalTargets`, `StateEvent`, the live and in-flight tuples |
| `TaskLifecycle` | abstract specification | what the store's contract promises, with one indivisible step per operation: `Create`, `Move`, `Retry` |
| `TaskStore` | task store, kill switch, recovery; `LC == INSTANCE TaskLifecycle WITH rows <- rows, ...` is the refinement | `rows` is the table, `newer` the order of `list_tasks()`, `last` the newest journal event per task; `pc[s]` says which SQLite statement the call of surface `s` is at: `get`, `update`, `emit`, `list`, `flag`, `audit`. `Crash` and `Restart` may fall between any two |
| `ToolCalls` | executor, gateway, registry, permissions, risk, in-memory ledger | one thread's call goes `gate`, `count`, `store`, `resolve`, `run`, `report`, `backoff`; `requests`, `counter` are the ledger, `blocked` the quarantine; operators and the clock act in between |
| `AgentPool` | `runtime/agent_pool.py` | `value`, `queue`, `woken` are asyncio's semaphore; a step is what a coroutine does between two awaits |
| `Orchestrator` | `execute()` on the pool (EXTENDS `AgentPool`) | `phase`, `layer`, `st`, `result`; every dependency graph is an initial state |
| `ApprovalStore` | `persistence/approvals_store.py` | `status`, `action`, `expires` are columns; `due[s]` and `verdict[s]` are the rows a call of `s` has read and has yet to write; `counter[s]` dies with the process |
| `Scheduler` | `runtime/scheduler.py` | `order` is the dictionary of entries; `pc`, `at`, `cursor`, `fired` are the local variables of `tick()`, which is cut at each write that may raise |
| `Callers` | | the processes that have the two stores below open |
| `Memory` | `memory/` | `items` is the table; `hold[c]` the rows and the status the call of `c` has read and judged and has yet to write; `Promote`, `Reject`, `MarkStale`, `Expire`, `Supersede` up to the write, `Store` the write |
| `Skills` | `skills/` | `stage`, `evaluations`, `trusted` are columns; `call[c]` is what the call of `c` has judged and has yet to write; `Allows` is the lifecycle gate |
| `Reflection` | `runtime/learning.py`, `persistence/reliability.py`, on the two stores (EXTENDS `Memory`, `Skills`) | `outcomes` counts the reliability records; `pc`, `known`, `todo`, `written`, `mine` are the local variables of `run()`. Runners run the loop; curators call the stores directly |
| `Channels` | `gateway/telegram.py`, `gateway/discord.py`, the host loop of `cli.py` | `offset`, `batch`, `awaiting`, `outbox` are the host's memory, `confirmed` what the Telegram server forgets; `Handle` is one synchronous dispatch, `Reply` its awaited answer, `HandleRaises` an engine call that raises |
| `Providers` | `provider/health.py`, selection in `provider/router.py`, what a completion reports | `health` is `_states`; a call is selected, goes out and answers in steps of its own, and its outcome is recorded in another |
| `Webhooks` | `web/webhooks.py` | a request is `reading` between its clock and rate reading and its body; `seen` and `hits` die with a `boot` |
| `Notifications` | `runtime/notifications.py` and the three kinds of sink | `digest`, `recent` are the router's, `feed`, `toasted`, `buffer`, `sending` the sinks', where `sending` has a send for each event (or summary) and each configured chat. `route` serves all subscribers; `DeliverRaises` and `RecordRaises` end it at the sink or the journal of one of them |
| `Sessions` | `persistence/sessions.py` | `rows`, `parent`, `archived` are the tables, `table`, `triggers`, `indexed` the title index; `job` is a call between its read and its write, `stage` how far an opening has come |
| `Recycle` | `tools/recycle.py` | a world is the workspace or the content of an entry; `files` and `dirs` say what there is in each world, `from` the record beside an entry, `bin` where each entry was taken from, `doing` the file operations an operation has left. `WriteFile`, `MakeDir`, `SpoilRecord` are what others do in the workspace and in the bin; `delete` takes paths of either |
| `Evidence` | `runtime/aggregator.py`, `synthesizer.py`, `team.py`, `verifier.py` | the state is the claims and tool results so far; what the code computes are operators on them |
| `Plans` | `runtime/plan.py`, `runtime/goal.py` | `goals` has their status. The three-colour search is a step machine: `path` holds the grey nodes, `black` the black ones as they turn, `pending` what each loop has yet to come to; a round of a loop is `LookAt`, the end of a visit `Leave`. The other two searches are what they compute: `topological_order` the sequence every element of which is the least of Kahn's frontier, `_reachable_from_roots` a least fixed point |
| `Context` | `runtime/context.py` | the state is the conversation; assembly is an operator on it: the tokens of a segment are counted as a set, the greedy fill is the one set of places each of which fits behind the kept ones after it, and the sort is by rank |
| `AgentFsm` | `runtime/fsm.py` | `state`; a transition asks its guard before and after the move, and one that raises the second time leaves the move without a record |
| `MC...` | | small instances for TLC. `MCHosts`, `MCServices` and `MCRecords` hold several components that share no state, one in each behaviour (`focus`) |
| `...Proofs` | | theorems |

`TaskStore` composes the store with its two batch callers and the journal;
`Orchestrator` composes with `AgentPool`; `Reflection` composes the loop with
both knowledge stores; `ToolCalls` is the composition of the
six parts of one tool call; `Notifications` composes the router with its sinks,
`Channels` the two transports with the host and the commander. Otherwise they
meet no shared state of each other: a runner of the orchestrator is any caller,
and a task the scheduler or a webhook creates is one more `create` of a surface.

Only history variables are not in the code: `torn` and `report` (TaskStore),
`consent`, `late`, `good` (ToolCalls), `ran`, `leaked` (Orchestrator),
`consent`, `raced` (ApprovalStore), `enqueued`, `raised` (Scheduler), `stale`
(Memory), `behind` (Skills), `shared`, `meddled` (Reflection), `missed`,
`handled`, `made`, `fired`, `replayable` (Channels), `history`, `promised`
(Providers), `verdict`, `order` (Webhooks), `routed`, `fate`,
`unwritten`, `summed`, `toasted`, `chatted` (Notifications), `forkedAt`, `cutOff` (Sessions),
`replaced`, `meanwhile`, `labelled`, `elsewhere`, `purged`, `meddled`, `why`
(Recycle), `recorded`, `verified`, `inHand`, `ended`, `spoilt` (AgentFsm). No guard
reads one, except those that enforce a bound named as such: the number of raises
(`MaxRaises`, counted in `fate` and `unwritten`), and one spoilt record per entry
(`meddled`).

## 3. Runs

| Run | Shows | Bounds, and why they are enough |
|---|---|---|
| `tasks_serial` | one surface, all calls, dying at any step: the store implements `TaskLifecycle` (`Lifecycle`); `AuditMatchesTable`, `BatchesComplete`, `ReportStands`, and `KillSwitchStops` | two tasks, so a batch has a middle; two attempts, so one retry is granted and one refused; a listing that holds both |
| `tasks_shared` | two surfaces, batch calls against single calls: `UpdatesSafe`, `CallsReturn` | two actors and two tasks: one in the batch's hand and one ahead of it |
| `tasks_race` | **violation** of `Lifecycle`: an UPDATE lands on a row that has moved since it was read | one task, two surfaces |
| `tools` | two threads: `RunsConsented`, `RetriesEnd` | two actions on two tools, so an id can be presented for the wrong one; `MaxCreated` = requests the ledger numbers, enough for the two threads to collide on an id; `MaxTime` lets a grant lapse between two attempts. `Watched` and `Cancellable` name the tool that may be quarantined and the thread whose caller may be cancelled |
| `orchestrator` | `SlotsConserved`, `EvidenceFirst`, `FailsForCause`, `ReportComplete`, `ExecuteEnds` over all dependency graphs | four nodes: a diamond, a chain of four, a layer wider than the pool, every cycle; two slots; two calls (`MaxRounds`), the second on what the first has left of the pool |
| `orchestrator_total` | **violation** of `TotalBounded`: the total is compared before the wait for a slot | one slot, a total of two, three nodes |
| `hosts` | approvals: `ConsentBinds`, `DecisionStands`; scheduler: `FiresWhenDue`, `Retires` | two surfaces, two actions, two ids (`MaxId`), so that an id is numbered twice with another action; `MaxTime` 2 past a validity of 1, so that a grant is before, at and past its deadline. One entry of each kind, one with a limit of 1, one of 2, one of none; a budget of two among three entries that can fire; a day of 2 units, so `LastMoment` 5 passes each time of day more than once and the weekly entry's own moment; one failing write (`MaxFaults`), at every place one may be |
| `learning` | `TrustEarned`, `OneInsight`, `MemoryLife`, `SkillsKept`, `InsightNoted` | one question per behaviour (`focus`): the loop against a user of memory (`MaxActs` 2 calls, so one may overtake the other's judgement), two loops over two tools with a budget of one, and the loop against a user of the registry. Thresholds are scaled down (`TrustMin` 2, `DegradeMin` 1, `MinFailures` 1) so that a trust, a regression and a second trust (`MaxTrusts` 2) fit in `MaxEvaluations` 4; `MaxAborts` 1 run or promotion is cut short, anywhere |
| `channels` | `ConfirmFollowsAsk`, `HandledOnce`, `MessagesHandled`, on either transport | two listed chats, so that one takes the other's pending slot, and a stranger; three messages (`MaxMessages`): a question, another chat's question or confirmation, and a confirmation (`Supply` bounds each command); one failed request (`MaxFaults`) and one end of the host (`MaxCrashes`), at every place |
| `services` | webhooks: `ReplayRejected`, `ReplayMeansTask`; notifications: `CriticalThrough`, `JournalHolds`; providers: `RetryAfterHonored` | three requests, so that one comes between two of the same nonce; stamps of 1 and 3 under one nonce, and a registry that forgets (`Ttl` 2) before the clock ends (`Horizon` 3), so that a copy comes back under a later timestamp; a second boot. Three events against limits of 1 and 2, a dashboard with a digest of a feed of two, a terminal app, a channel of two chats, quiet hours that wrap around midnight, one sink or journal write that raises (`MaxRaises`) at every place, one process end; three calls over two providers, so that a late answer meets a rest |
| `records` | sessions: `HistoryHeld`, `SearchComplete`; recycle bin: `BinKeeps`; evidence: `EvidenceWins`, `VotesDoNotCount`, `VerifiedMeansClean`; plans: `PlansSound`; context: `AssembledInOrder`; state machine: `CompletedVerified` | two clients, one end of a process, three sessions, so a fork of a fork, one of them older than the index (`Legacy`); a file at the top and a directory with two, one of them called `deleted-from`, two entries and two contents, so that an entry is taken from another or a path taken twice, one end in the middle (`MaxBreaks`); three claims over two topics and texts with three weights of evidence; four results of two tools; every graph of three tasks, with an id of none of them; up to four segments of five kinds under budgets from 1 to 6; the state machine has no bound |
| `recycle_marker` | **violation** of `DeleteKeepsContent`: the record of a deleted directory is written over its member `deleted-from` | as `records`; a write and a deletion are enough |

In `hosts` surfaces are symmetric, and actions are, in `services` providers, in
`records` clients. Each of these three runs puts all its components in one state space, and a behaviour moves one
of them while the others stay in their initial states: nothing is said of two
of them together.

Every property of a passing run has a mutant of the code, kept beside the
definition it changes, that breaks it. The three violations, and the further
disagreements between the code and what its comments, documents or tests say,
met while modelling and attached to the passing run whose property is worded
around them, are described under `findings` in `PROJECT.json`: 33 in all.

**Fairness.** `TaskStore` assumes weak fairness of the running call of each
surface: a Python call that is not killed goes on. A process that may die is
not required to survive; the liveness properties say so. `Orchestrator` assumes
weak fairness of the event loop, per node and for `execute()` itself: a ready
coroutine is run, and a runner returns. No fairness is assumed of users, of
cancellation or of failures. `Reflection` assumes weak fairness of the
resident's runs: its host runs the loop again at each cadence, in the process
that runs everything else, and statements follow one another. `xenopus
reflect`, users and the clock may stop, and a run of the resident may be cut
short (`MaxAborts` times). `Channels` assumes weak fairness of polling, of the
dispatch and of each reply: polling and dispatch are one loop of a host that is
up, a reply is awaited by that loop or by a task of its own, and every request
ends, by its timeout if not by an answer. Nobody has to start a host again: a
message is promised to be handled as long as the host is up. The other modules
claim safety only.

**Deadlock** is not checked in `orchestrator` and `orchestrator_total`, where
the system stops when the last call of `execute()` is over, nor in `channels`,
`services`, `records` and `recycle_marker`, where it stops when the bounded supply of messages,
requests or inputs is used up. In the other runs something can always happen.

## 4. Theorems

All theorems are for any number of surfaces, threads, nodes, tasks and entries,
and any values of the other constants within the named assumptions, each of
which is a check the code makes (`max_attempts >= 1`, `validity_seconds > 0`,
`cooldown >= 1`, and so on).

* `TaskStoreProofs`. For any number of surfaces: `TypeCorrect`, `FreshUpdates`
  (the only illegal moves are lost updates), `TerminalTasksSafe`, and both as
  `SharedUpdatesSafe`. The
  control invariant says what each step of a call knows of its task. For one
  surface (`Serial`), with crashes at every step: `ImplementsLifecycle`,
  `JournalAgrees`, `CancelledReportStands`. The strengthening is that between
  `get` and `update` the row still is what was read; with two surfaces it is
  false, which is what `tasks_race` shows. With a listing that holds all tasks
  (`NoWindow`): `KillSwitchCancelsAll`, `RecoveryMarksAll` and, of both,
  `BatchesReachAll`, from the invariant that every live task is in the rest of
  the batch or in its hand. `Serial` and
  `NoWindow` are hypotheses of the theorems, not assumptions of the module.
* `ToolCallsProofs`. `TypeCorrect`, and `NothingRunsUnasked`: any GRANTED entry
  was granted by an operator with the action and deadline it carries now.
  Colliding ids do not break this, because the entry they overwrite becomes
  PENDING. `CallsEnd`: a call that is not yet at its handler has no success and
  no late run behind it, since only a failed attempt comes back, and by the gate.
* `OrchestratorProofs`. `TypeCorrect`, and `RunsOnEvidence`: what is classified
  as runnable has all its dependencies completed and keeps them so, since each
  result is written once, in its own layer. `SlotsStand`: a coroutine waits at
  one place, in the queue once or woken, and runs exactly while it is live; with
  that, each step moves a slot from one of free, woken, live and leaked to
  another, and waking stops at the last waiter or the last free slot.
  `FailuresHaveCauses` and `ReportsAreComplete` need a fact of the graph: when
  `Layers` finds no cycle, every node has a layer, above those of what it
  depends on and below the last. A node without one would have a dependency
  without one; that is refuted by a minimal counterexample in the order of the
  plan (`WFMin` on a well-founded relation), which is the form of induction the
  provers can follow. The invariant then says that what the loop has passed is
  done, and that a FAILED node without a run was given up for a dependency or
  for the total.
* `RecordsProofs`. The durable ledger: `TypeCorrect`; `ConsentIsForTheAction`,
  as an INSERT never touches an existing row; `DecisionsStand`: a request not
  raced for has at most one decision on its way, and its row still waits for it.
  The recycle bin: `BinIsReversible`, for any workspace, contents and meddling in
  the bin. `BinInv` says that a file is where it can be (`Housed`), that an
  entry's place of origin is the workspace or a meddled entry (`Origins`), that a
  record names an entry of its own path (`Labels`), that a restoration under way
  found its place free (`UnderWay`), that an entry nobody touched has its record
  but for the reasons the property lists (`Recorded`), and that a content is
  somewhere or has one of the five fates (`Saved`). The labels are needed since a
  record may have been moved with a directory into another entry: what is read
  there as the origin is still a place of the same path. Sessions:
  `HistoryIsHeld`: rows are only appended, so a fork's copies lie in front of
  its mark and are what its parent's rows were; a pending append holds a turn
  begun while the session was open; `SearchIsComplete`: a process that made the
  index has yet to fill it, has ended (`cutOff`), or every session is in it.
  Evidence: `EvidenceDecides`, `VotesAreIgnored`, `ChecksAgree` are theorems
  about what is computed from claims and attempts of their types: the rank is
  a strict order, a finite set of claims has a first in it (by the same minimal
  counterexample, on the number of those before), and the first of a content
  stands for all of it. Context: `ContextIsInOrder`: the greedy fill exists, by
  a minimal counterexample on where it has come to; costs add up place by place;
  the rank by a key is a bijection, which is why nothing is lost in the sort,
  and by the index of equal segments it is the order of the conversation when no
  two are equal. Plans: `PlansAreSound`: `PlansInv` says of each loop of the
  search that what it has come to is black or is the next node of the path, and
  that the black nodes stand in an order that their dependencies respect. So a
  grey node met again closes a circle, which no order can have, and at the end
  of the outermost loop the black nodes are an order, with which there are no
  orphans. That Kahn's algorithm ends with the least order is a lemma about
  every graph (`KahnFindsLeast`). The state machine: `CompletesOnlyVerified`:
  COMPLETED is entered from REFLECTING only, that from VERIFYING only; no way leads from
  OBSERVING or RECOVERING to CANCELLING but over EXECUTING or REPLANNING; nothing
  leads out of a terminal state, nor to WAITING.
* `ReflectionProofs`. `TypeCorrect`; `TrustNeedsTheGate`: a pending write of
  ACTIVE, STALE or EXPIRED is for a row that has the evidence and confidence,
  and these never change; `TrustHasADate`: a pending TRUSTED or
  DEGRADED has a date, and stage and date are written in one statement; `MemoriesLive`,
  `HistoriesGrow`, `LaddersHold`: a pending write whose caller was not overtaken
  was judged on the row as it is. `NoUnearnedTrust` and `SkillRecordsHold` put
  these together as the run states them. Each store has an invariant of its own, kept
  by the steps of its own calls; every step of the loop and its users is one of
  these for both stores (`Split`), so for these the loop adds types only.
  `InsightsAreSingle` (`OneInv`): of a subject no user meddled with, one row at
  most can be looked up or is about to be promoted by its run; and what is noted
  of it, a run that is alone has read at its start or has taken off its list.
* `SchedulerProofs`. `TypeCorrect`; `ClockEntriesNeverFire`, by arithmetic on
  the day; `EntriesRetire`: each task is counted, lost to a raise, or being
  journaled; `OpenEntriesFire`: what the cursor has passed is retired, not open
  or cooling; `TicksFire` puts this together with the clock's entries.
* `ServicesProofs`. Webhooks: `NoncesMakeOneTask` and `ReplaysHaveOriginals`:
  a nonce that made a task in this boot is remembered, or was swept by a later
  request whose clock was more than `Ttl` ahead (`Remembered`); whatever is
  remembered was spent by a request of this boot (`SpentByOne`). Two readings
  of the clock in whose windows one stamp lies differ by no more than twice the
  skew, and so not by more than `Ttl` (`webhooks.py`, line 40). A copy under a later
  stamp is in the window again, and past `Ttl` nothing remembers its nonce: the theorem
  excuses it by name (`Restamped`), as it does one that was overtaken (`Outrun`). Notifications:
  `CriticalGetsThrough`: what the window counts of a subscriber is delivered,
  held or refused by a sink; `JournalIsBelievable`: while the process lives an
  event journaled as held is in the digest or went out in a summary, what was
  handed to a sink stays in it or was pushed out of a full one, and a send to each
  chat there is was scheduled. It is about what was handed over: to a channel without
  chats nothing is sent, and the journal says delivered all the same (a finding). Providers:
  `RestsAreHonored`: a deadline that lies ahead is the one the health record has, unless an answer that was under way when it was given
  was recorded since; and nobody has begun a call since but past such an answer.
* `ChannelsProofs`. `TypeCorrect`; `TwoSteps`: a host's batch has no gaps and
  goes on where its last dispatch ended, on either transport, and a host that
  ends forgets whom it awaits; so every message between a question and the next
  one in line was dispatched while the question stood, and is neither another
  question nor its confirmation. `HandledOnceOnly`, from the same line: what is
  behind the host was handled, and what a host that ended had handled beyond
  the confirmed is counted.

**Only model-checked.** Liveness under fairness (`KillSwitchStops`,
`CallsReturn`, `ExecuteEnds`, `InsightNoted`, `MessagesHandled`): outside the
prover's reach. Every other property of a passing run is a theorem, under
the hypotheses named above.

## 5. What is abstracted

Titles, payloads, reasons, durations and log lines are left out. A task is its
state and attempt; a request its action, status and deadline, where an action
is what the hash tells apart (tool, arguments, subject, task or correlation
id). SHA-256 is taken to be injective. One SQLite statement is one step, which
is what autocommit and `with self._conn` around a single statement give. A
clock is a counter that never goes back; the code that reads the wall clock
assumes the same. The runner of a node, the handler of a tool and the database
that refuses a write are nondeterministic choices between their outcomes.

A memory's confidence is whether it reaches the gate's threshold; the loop's own
always does (0.5 and more), and its evidence is always attached. The content of
a memory is the subject it names. Memories live in one scope. Rates are
compared as fractions of integers.

In `Channels` a command is what it leaves behind in the task store, the ledger
or the kill switch; in `Providers` every provider offers one capability; in
`Notifications` an event is its priority; in `Context` a segment is its text,
cost and protection; in `Sessions` a turn has no role or text. A path of
`Recycle` is a member of a small tree, and file operations succeed unless what
they need has gone. Others write, make, spoil and delete there, also in the bin;
left out are `file_delete`, which deletes for good, the deletion of a record beside
an entry into the bin as an entry of its own, the writing anew of an entry that has
gone, and a foreign record that names one of the modelled paths. What a query of
the session index matches is left out, too: `SearchComplete` is about the rows of
the index, and the two ways to search do not match the same titles.

**Not modelled**, with the reason per component in `PROJECT.json`. Pages of the
web server, widgets of the TUI, the other commands of the command line,
configuration, logs and correlation ids: presentation and I/O. Building
requests to providers and parsing their answers, the file and terminal
handlers: I/O of one call, whose success, failure and delay are inputs of
`Providers` and `ToolCalls`. Checkpoints: opaque payloads nothing in `src/`
reads back. The router's ranking by policy, registration of tools and
providers at start-up: they change no state the properties are about. Depth and
child budgets of the pool, its watchdog, budgets and the data classes of
agents: nothing in `src/` passes, calls or charges them. The COEXIST resolution
of the aggregator: nothing produces it. Counters of memories and sessions
(reuse, corrections, token totals).

Two behaviours are in the models and no property is stated about them, as the
repository promises nothing to compare them with: a handler declared not
idempotent is retried like any other (`tools/terminal.py`, line 191), and
resolving a grant does not use it up (`runtime/approval.py`, line 151), so that
the same action may run under it until its deadline.

## 6. Plan

The components listed are modelled as far as the tables above and
`PROJECT.json` say. Left, in this order:

1. The search's limit of 500 memories in the reflection loop; `register()`'s
   SELECT-then-INSERT on a skill's name; the resident host's stop and close.
2. Pairs of the small components that do call each other: the webhook's task in
   the task store, a notification sent by a channel.

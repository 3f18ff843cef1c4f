# trading-agents-workflow in TLA+

Models of the parts of `src/` that claim, lease, run, retry, deliver and decide,
the TLC instances that check them, and TLAPS proofs about each composition. Paths are
relative to the root of the repository; `workflow.js` is `src/workflow.js`, and
`v2/x` is `src/workflow-v2/x`.

## 1. The system

A plugin of an agent gateway (`index.js`) exposes several hundred actions.
`runWorkflowAction` (workflow.js) dispatches each to a handler; all state is in
one SQLite database and a few JSON files. There is no long-lived server that
owns the state:

* **Every `sqlite()` call starts the sqlite3 program once.** It is atomic (one
  statement, or a script inside `BEGIN IMMEDIATE`), and nothing spans two calls.
  A handler that reads, decides and writes is a sequence of atomic steps.
* **Handlers run in separate processes**: the gateway's timer spawns a worker
  process per control-loop tick and kills it on a timeout, agents and operators
  call actions through tools and the command line, runner scripts drain adapter
  jobs. All of them interleave at every statement, and any of them can die
  between two.

So what matters is which condition is tested again in the `WHERE` clause of the
write, which instant it is compared with, and what is put back when a later call
throws. The models therefore have the statement as their step and keep in
process-local variables what a handler read earlier.

### Components

| component | code | state | operations | what makes it correct |
|---|---|---|---|---|
| control-loop job queue | control-loop-tick-actions.js, control-loop-job-actions.js, workflow.js 8506 | `control_loop_jobs` | seed, claim, run, complete, fail with retry, operator requeue, cancellation by a human gate, retention | one active job per key; one execution while a lease lasts; retry budget; final outcomes; every job settles |
| tick lease | workflow.js 8446, index.js 2584 | `control-loop-lease.json`, `control-loop.lock/` | acquire, take over a stale lock, release, kill | ticks go on after a kill |
| v2 worker control loop | v2/control-loop-actions.js | `workflow_v2_worker_runs`, session run status | expire leases, claim, execute local workers, restore rows when a patch throws | attempts counted once; workers settle |
| v2 worker results | v2/worker-result-actions.js | the same and adapter jobs | submit, fail, undo | a result settles only its own attempt |
| v2 adapter jobs | v2/adapter-runner-actions.js | `workflow_v2_worker_adapter_jobs` | record, claim, heartbeat, release, fail, expire, drain | leases respected, slots not exceeded |
| v2 manager review | v2/review-actions.js | worker status, review rows | review, undo | a worker has one decision |
| v2 worker lifecycle | v2/worker-lifecycle-actions.js | worker, handoff and session rows | spawn, handoff, retire, successor | a worker and its successor name each other |
| v2 autonomous loop | v2/autonomous-loop.js and its callers | worker rows of a node | gate of a spawn, end at the cap | iterations in turn; the cap exceeded by no more than the managers that race |
| v2 intervention | v2/intervention-\*.js | plan status, effects | block, resume, settle | idempotent by key |
| v2 plans, templates, supervisor, human gate packages, information stack, readiness | v2/\*.js | one table family each | promote, roll back, next node, grants | order of decisions |
| dispatch bridge | runtime-bridge-actions.js, dispatch-reconcile-actions.js, workflow.js 6654-6860 | `mixed_meeting_dispatches`, `runtime_runs` | claim, run on a runtime, complete, reconcile stale | one run at a time; the attempt budget; nobody but its own drain takes an acknowledgement back, or one that fails without looking; every dispatch settles |
| telegram outbox | telegram-outbox-actions.js | `telegram_outbox` | enqueue, replace, claim, deliver part by part, mark, reclaim stale | one sender at a time; sent means posted; every message settles |
| message flow | message-flow-actions.js | `message_flows`, incidents | send, acknowledge, continue, finish, reconcile | nothing is called answered that was not; an acknowledged flow goes on |
| human gates | human-gate-actions.js | requests, buttons, decisions, the run's status | request, repair, click, words, expiry, decision, dispatch, retry | one choice per gate, never taken back, and followed by its dispatch |
| trade | trade-actions.js | risk decisions, intents, receipts | audit, intent, receipt | no intent without the audit that follows an approval |
| schedules, meetings, incidents, checkpoints | \*-actions.js | one table each | due, record | no double seeding |
| workflow runs, tasks and supervisor (v1) | workflow-\*.js | runs, tasks | advance | legacy, disabled by default |
| permissions, topology, research, verification, console | \*-actions.js, console/ | records | insert, read | stateless or one statement per action |

How they interact. A tick of the v1 loop holds the file lease, seeds jobs into
the queue and runs what it claims (dispatch drains, outbox drains, reconcilers,
the human gate tick). The v2 tick is an action of its own, called by agents,
operators and scripts; it shares no lease with the v1 loop. A v2 worker claimed
by a tick and meant for an external backend waits for an adapter job: a recorder
creates one for the current attempt, a runner claims it under a second lease, and
its result settles worker, session run and job in three statements. A manager
review settles a submitted worker; a handoff, a retirement and a successor
continue it. An intervention blocks the plan, which stops claims of both kinds.
A dispatch carries a message flow: the bridge acknowledges, queues a continuation
and finishes the flow, its answer goes through the outbox, and the delivery is
reported back to the flow. A human gate asks through the outbox, a click and the
words that explain it come back as callbacks, and the decision changes the run,
the gate's record and the dispatches that follow. An approval allows the trading
core to be handed an audited intent.

Hard behaviours: claims of overlapping ticks; two leases of different
length over the same attempt; instants read at the start of a handler and
compared at its end; rows restored without a condition after a partial failure;
crashes between the statements of an expiry; retries of what a late process
still runs; status writes of a flow that arrive out of order; two people who
answer one gate. `PROJECT.json` lists each hazard at its line with the property
that watches it, or why none does.

## 2. The modules

| module | models |
|---|---|
| `JobQueue` | the queue: the seeds of a tick (check, cooldown, insert), claim (select, update, re-read), job, completion or failure; operators; human gate cancellation; crash; time |
| `MCJobQueue` | its instance |
| `JobQueueProofs` | theorems about it |
| `LeasedTasks` | the abstract specification: a queue of leased tasks whose operations are single steps and whose workers remember nothing |
| `JobQueueTasks` | the refinement mapping: the rows of `JobQueue`, as anyone who looks at the table sees them, behave as `LeasedTasks` |
| `LeasedTasksProofs` | the proof of the refinement |
| `TickLease` | the lease file and the lock directory, one action per read, `mkdir`, `rm`, and two per write: `fs.writeFile` empties the file before it writes |
| `ControlLoop` | the tick as a whole: `TickLease` around the `JobQueue` of the same process, killed anywhere |
| `MCControlLoop` | its instance |
| `ControlLoopProofs` | what is proved of the queue, proved of whole ticks |
| `WorkerTables` | tables, rows, local variables and the session patch shared by the kernel's handlers |
| `WorkerTick` | `workflow.v2.control_loop.tick` |
| `WorkerResult` | `worker_result.submit` and `.fail`, and the end of an autonomous loop after a result |
| `AdapterRunner` | record, claim, heartbeat, release, failure, drain of adapter jobs |
| `WorkerReview` | `manager_review.record` |
| `WorkerKernel` | the composition of the four over one database, with spawn, intervention, crashes, time and the properties |
| `MCWorkerKernel` | its instances |
| `KernelProofs` | theorems about it |
| `WorkerLifecycle` | spawn and re-spawn with the autonomous gate, handoff, retire and successor, each statement and each undo a step |
| `WorkerChain`, `MCWorkerChain` | the kernel and the lifecycle over the same tables |
| `ChainProofs` | theorems about them, on top of those about the kernel |
| `DispatchBridge` | `runtime.bridge.drain` with its adapters, `workflow.dispatch.reconcile`, creation and cancellation of dispatches |
| `BridgeProofs` | theorems about it |
| `DeliveryTables` | outbox rows, flows and dispatch turns, and the writes to them that several handlers share |
| `TelegramOutbox` | enqueue, replacement, claim, parts, failure, marking by an operator, sync of the flow |
| `MessageFlow` | the flow of a dispatch: creation, acknowledgement, continuation, finish, outbound answer, reconciliation with its incident |
| `MessageDelivery` | the two together, with crashes, time and the properties |
| `DeliveryProofs` | theorems about it |
| `GateTables` | requests, buttons, records and messages of the gates of one stage |
| `HumanGate` | request, tick, callback, decision, dispatch and retry |
| `TradeChain` | risk decisions, intents and receipts behind an approved gate |
| `GateFlow`, `MCGateFlow` | the three together, with deaths, expiry and the properties |
| `GateProofs` | theorems about `GateFlow` |

State and actions: a row of a table is a record of the columns that some guard
reads (`status`, `attempt`, `owner` for `lease_owner`, `until` for
`lease_until`, `next` for `next_run_at`); the clock is an integer; a
process is a program counter and the variables its handler holds. An action is
named for what its statement does (`ClaimSelect`, `ClaimCas`, `ClaimReread`,
`ExpireUndo`). Where an `UPDATE` tests again everything the `SELECT` before it
tested, and nothing the `SELECT` returned is used later, both are one action:
reading just before writing has the same outcomes. Where what was read is kept
(a row to restore, a lease to present, an instant), the read is an
action.

What is abstracted: payloads, receipts, manifests, artifacts and texts; what a
job or a command does, which succeeds, throws or is retried; preflights and
authorisation, taken to pass; budgets of a tick, which may end it after
any job. Timestamps are whole units: only their order and the lease
and delay lengths matter.

**Bounds.** Named constants bound what is otherwise endless: time
(`MaxTime`), deaths and statements that throw (`MaxCrashes`, `MaxFaults`,
`MaxThrows`, `MaxMishaps` for both together), operators (`MaxRequeues`,
`MaxMarks`), changes of a registration (`MaxRegistry`), what a manager does in a
chain (`MaxCalls`), texts of one request (`MaxTexts`), messages and flows in use
at a time (`MaxBegun`), requests and clicks of a gate (`MaxRequests`, `MaxClicks`;
its `MaxMishaps` also bounds expiries and retries that are scheduled again). Sets say
who or what takes part in one of these: the processes that may die (`Mortal`), the kinds of request
(`Kinds`), the gates that may expire (`MayExpire`) or whose request is delivered
(`Delivered`), the buttons whose dispatch is taken (`Bridged`), the flows whose
answer may be delivered again (`Redeliverable`), whose contract has no continuation
(`AckOnly`) or whose workflow a person may terminate (`Stoppable`), the runners that
may fail a worker themselves (`Pulling`), whether the record of a request keeps its
options (`Storing`).

The specifications themselves also bound: a row identity of the queue is used
once; a v2 tick claims one worker and a drain one job; an id of a worker run whose
spawn was undone is not used again; a manager of the kernel writes one review; a
drain and a reconciliation of the bridge handle one dispatch; the gates belong
to one stage and the trades to one proposal. The owner name of a claim is the
default, unique per tick.

The definitions marked "faulty variant" in the modules are not part of any
specification: each stands for a plausible mistake (a dropped guard, a missing
index, an attempt counted twice) and makes the property it names false when put
in place of the definition after it. They show that the properties can fail.

## 3. What TLC checks

| run | instance | shows |
|---|---|---|
| `queue_safety` | 2 processes, 2 rows of one key, cancellation of one row, lease and delay 1, 2 attempts, an operator's requeue or a death, 3 instants | `TypeOK`, `ActiveDedupe`, `LeaseExclusion`, `RetryBudget`, `LeaseRespected`, `OutcomeIsFinal`, `ImplementsLeasedTasks` |
| `loop_progress` | 2 processes, 1 row, lease of the row 1 and of the file 2, 2 attempts, 1 death, 8 instants | `LoopTypeOK`, `TicksGoOn`, `LoopSettlesJobs` |
| `kernel_capacity` | 2 workers, 1 tick, 2 runners that may fail the worker themselves, 1 recorder, 1 slot; the adapter lease is shorter than the worker's | `TypeOK`, `ClaimsWithinCapacity`, `RunnerLeaseRespected` |
| `kernel_attempts` | 1 worker with 2 attempts, 2 runners; the adapter lease outlives the worker's; the plan is blocked and resumed | `CompletedJobsKeepResult`, `ResultsFollowAttempts` |
| `kernel_settles` | 1 local worker of an autonomous node with 2 attempts, a direct report, a manager, one crash, one throwing patch | `WorkersSettle` |
| `chain_lineage` | worker ids 1 to 3 of one autonomous node, 1 tick, 1 manager with 5 calls, 1 attempt, a cap of 2 iterations, 1 throwing patch | `ChainTypeOK`, `LineageAgrees`, `IterationsInTurn` |
| `bridge_safety` | 2 drains, 1 reconciliation, 1 dispatch with 3 attempts, agents killed within the stale window of 1, 7 instants, and two of: deaths, a call that throws, a registration that changes | `TypeOK`, `OneLiveRun`, `CancelledNotRun`, `RunsWithinBudget`, `AckOutlivesOldHolders` |
| `bridge_settles` | the same with 2 attempts, agents that outlive the window, 12 instants, and a crash, a call that throws or a registration that changes | `DispatchesSettle` |
| `delivery_safety` | 2 flows (one acknowledged before its answer, one without an acknowledgement), a gate's request and a web application's message, of which one is in use at a time; sender, drain and reconciliation; 2 parts, a lease of 4, 2 texts, 1 mark or crash, 6 instants | `TypeOK`, `OneSender`, `SentMeansPosted`, `TelegramSentMeansAnswered`, `NoticeIsLast` |
| `delivery_settles` | 2 flows in use at once, both acknowledged before their answer, one without a continuation, one of a workflow that may be terminated; a reconciliation that looks at 1 flow; 1 part, 1 attempt, a lease of 2, a statement that throws or the death of the sender or the drain, 6 instants | `MessagesSettle`, `ContinuationsFollow` |
| `gates_choice` | 2 people, 1 requester, buttons that approve (2) and terminate, 2 gates of a stage, 2 requests, 2 clicks, a dispatch that throws, a trader and the trading core | `TypeOK`, `OneChoice`, `IntentsAreAudited` |
| `gates_settles` | 1 requester, 1 person, 1 tick, 2 buttons that approve, 1 gate whose options are stored or not and for which the LIMIT of a tick has room or not, one request and click, and one of: a death, a throw, a retry scheduled again, the expiry of the gate | `SelectionIsFinal`, `GatesAreAsked`, `ChoicesAreDispatched` |

**Why the bounds are enough.** Every hazard of section 1 needs at most two
processes that disagree about one row and one that changes it in between; two
processes and an operator, two runners and a recorder, two people and a
requester cover these. Two rows of one key give a closed row and its successor,
or a race for the index. Two attempts are the fewest at which a late result can
meet another attempt; the last attempt is the boundary of the budget. The
instants suffice for a lease to lapse, the row to be claimed again and the second
lease to lapse too. Slots are contended because two jobs want one. A chain of
three ids holds a first worker, its successor and the one the cap refuses; ids of an
ordinary node, which may be spawned again at any time, are left to the theorem. Two
parts are the fewest of which one may have been posted; two texts the fewest of
which one replaces the other. One message or flow in use at a time is enough
where the properties are about one row; that it is another each time shows that
the handlers, which select by status, take up every kind. Two gates are a gate
and the one that replaces it. For a gate only the number of older ones counts, which
`room` leaves open at every step; two flows and a limit of one show a flow that stands
before another. In `delivery_settles` the reconciliation does not die: a drain that
dies before it writes `semantic_dispatched` and a reconciliation that dies after
failing that turn together leave an acknowledged flow whose continuation failed.
Each property is broken, in the same instance, by a faulty variant, so the case it is about does occur.

**Fairness.**

* *v1 loop.* A timer (`controlLoop.tickMs`, index.js) keeps starting ticks and the
  operating system runs processes: weak fairness of each process's steps in
  `ControlLoop`. Deaths are not fair and are bounded. Jobs take no time unless
  their process dies or is slow enough to lose its lease; time passes only when
  nothing is due (`QuietTime`, `LeaseBlocksAll`), and then it does, since time
  does.
* *Bridge and delivery.* The jobs of that loop run the drains and
  reconciliations: weak fairness of their steps. An agent ends, since it is killed
  at its timeout. In `bridge_settles` time passes only while every process is idle
  or waits for a backend or an agent; in `delivery_settles` while a delivery waits
  for its lease, under strong fairness because other deliveries interrupt it. Of a
  reconciliation of flows only what no other flow can keep it from is fair
  (`SureStep`): it takes the flows that were acknowledged longest ago, up to a
  limit, and one whose contract has no continuation ends it.
* *Gates.* What a request, a callback or a tick has begun goes on; the timer starts
  ticks again and again that look after gates, and others that run retries, in
  between of which other jobs run (strong fairness). No gate is sure to be taken by
  a tick: that depends on its LIMIT and on the older gates (`room`), and
  `GatesAreAsked` is about gates that are not kept out again and again. Nobody has
  to ask, to click or to explain a click.
* *Kernel.* Nothing in the repository calls the v2 tick on a timer:
  `WorkersSettle` holds as long as agents, operators or scripts keep calling it,
  which the run assumes by weak fairness of a tick's steps. Runners, recorders,
  reporters and managers have no fairness at all: the lease alone must settle the
  worker. Other processes may hold rows while time passes.

**Where the code and its documents differ.** Each of these shows in a model as
a behaviour; no property above relies on the document's side.

1. `docs/openclaw-plugin-readme.md:431` says the file lease prevents overlapping
   ticks. A tick whose `mkdir` fails takes the directory for stale unless a live
   lease is in the file (workflow.js 8467), and removes it: when its maker has not
   written the lease yet, or has itself just replaced a stale one, both run. The queue is safe all the same, since `JobQueue` does not
   assume the lease: its per-job leases exclude a second execution.
2. `docs/workflow-v2-implementation-status.md:587` names the invariant that
   nonterminal adapter jobs only attach to the same running worker attempt.
   A result returned without an adapter job id closes a running job only
   (v2/adapter-job-state.js 52); a queued one stays open for good, and so does the job of a running worker that is retired or
   handed off.
3. The same document at lines 490 to 494 says that running workers map to running
   session runs and queued ones to queued. Claims and expiries patch the session
   run after the worker, without a condition (v2/control-loop-actions.js 229, 315):
   the patch of a tick that is overtaken by another comes last.
4. The same document at lines 539 to 541 says that lifecycle writes check the
   worker again. Of two successors recorded at once, the second reads the worker
   it compares with after the first's commit, and overwrites its pointer.
5. `src/meeting-dispatch-actions.js:78` lists the state `acked` of a dispatch as
   terminal. The adapters acknowledge inside the `try` block whose catch clause
   treats every error as a failed run (workflow.js 7034, 7122): a receipt or a
   message flow that cannot be written requeues or fails an acknowledged
   dispatch. So does a rejection without a claim, and the clause around a drain.
   `AckOutlivesOldHolders` names these three writes, and says that nothing else
   takes an acknowledgement back.
6. `src/message-flow-actions.js:318` refuses to leave a terminal status of a flow
   as `terminal_message_flow_status_is_monotonic`. An answer delivered between the
   INSERT of its row and the note that it was queued is overwritten:
   `telegram_sent` becomes `outbound_queued`.
7. `docs/managed-agent-evolution-plan.md:236` and `:245` ask for one pending gate
   per stage. Requests by name leave the gate of the stage as it is.
8. The record of a gate says that the status of the selected button is the formal
   decision (human-gate-actions.js 1585). A decision is recorded also
   where a concurrent expiry or replacement kept the button from being selected.
9. `docs/workflow-v2-implementation-status.md:495` says that review records preserve
   the outcome. Of two reviews of a worker recorded at once the one whose UPDATE
   finds it decided restores the row read before (review-actions.js 460), so that it
   awaits review again.

**Other behaviours of the code that the models show** (the runs exclude them, or
state nothing about them).

*Lease file.* A lease is written by `fs.writeFile` (workflow.js 8484, 8494), which
empties the file first. A tick killed in between leaves an empty file;
`readOptionalJson` (545) throws on it, so every later acquisition throws (8452), and
nothing in the repository removes the file. Two writers at once may also leave the
tail of the longer text. `TicksGoOn` and `LoopSettlesJobs` admit a file that stays
unreadable (`LockedOut`), and say that nothing else stops the loop.

*Queue.* A row whose lease has lapsed is claimed again whatever its attempt is: a job
whose ticks keep dying runs more often than `max_attempts`. `RetryBudget` is about what
a failure may write.

*Kernel.* A record whose binding fails deletes the job by id though a runner has
claimed it, and a new record lets a second runner run the same attempt; a claim
whose session patch throws puts its old row back over a result returned
meanwhile; a direct report that fails at the adapter job restores a running row
over what a later attempt or a review has settled. `CompletedJobsKeepResult`
therefore is checked where only runners return results and no patch throws. A runner
usually fails through its adapter job, without a retry. One that pulls a job may also
call the `failAction` of its manifest, `worker_result.fail`, which retries by default
(worker-result-actions.js 221): when the job no longer is its own, the undoing of
this failure restores the old attempt over a later one, and TLC finds
`ResultsFollowAttempts` violated. `Pulling` has such runners in `kernel_capacity`
only. `kernel_settles` has no runners: that a tick settles a worker does
not depend on its jobs, which no step of it reads.

*Chain.* With two attempts `LineageAgrees` fails: the session patch of an expiry
that comes late makes a worker that was replaced look queued, and a spawn of its
id runs it again. It also fails where the id of a successor whose record was
undone is used again while a tick restores the row it claimed: hence the bound on
ids. Undoing a claim or a review restores the row without its lineage columns; a
handoff that loses restores a running row over a submitted result; a death between
the spawn of a successor and the update of the handoff leaves a live worker nobody
points to. Two managers who spawn at once exceed the iteration cap by one, and may
both begin the next iteration: `chain_lineage` has one manager, for which the cap
would only repeat the gate's comparison, and what holds for any number of managers is
proved (`IterationsCapped`, section 4). The input of a handoff may name a successor
(v2/worker-lifecycle-actions.js 892) which need not exist; the model's handoffs name none.

*Bridge.* The safety properties rest on a relation between lengths
the code does not enforce: an agent must be killed within the stale window
(`RunLimit <= StaleAfter`). The window is 5 minutes unless the tick's timeout
is larger; a semantic OpenClaw drain may take 330 s and a drain called by hand
900 s. Beyond it the reconciliation requeues a dispatch that is being run, a second run
starts, and the late drain writes its older attempt back, so neither
`OneLiveRun` nor the budget holds; `bridge_settles` shows that the dispatch is
settled even so. And two reconciliations at once, of which the job's lease does not keep an
operator, may both read a stale dispatch: one requeues it, a drain claims it, and
the other, which tests nothing in its UPDATE, requeues it under that drain.

*Delivery.* `OneSender` rests on the parts of a message taking no longer than its
lease (120 s), and on nobody marking a row queued or failed while it is delivered:
both give two senders, and the run marks rows sent or cancelled only. The receipts
of parts already posted are lost when a failed row is claimed as stale. A throw
after a continuation is queued, or a continuation created for a flow that was
recovered meanwhile (`LateTurns`), posts a notice of failure and later calls the
flow `telegram_sent`. A death between the acknowledgement of the dispatch and the
finish of the flow leaves the flow open without an incident; a recovery runs only
while no drain works on the flow. Three things leave an acknowledged flow for ever as
it is: the terminate button cancels its queued continuation, which the recovery then
takes for an existing one (message-flow-actions.js 778); a flow whose contract has no
continuation stops every recovery that meets it by reading a field of null (812);
and flows that stay acknowledged keep their place among the 20 that a recovery looks
at. `ContinuationsFollow` admits these, and nothing else. The runs of `NoticeIsLast` and
`TelegramSentMeansAnswered` have neither throwing statements nor late turns,
and a gate's request has one sender in that of `SentMeansPosted`.
A gate's request that is queued again may meet a redelivery of the old text. With two senders it may also be marked sent for the
wrong one: the first has posted the parts of the old text when an operator marks
the row cancelled, a new request replaces the text and queues it, and the
first sender settles the row it no longer owns.

*Gates.* Options that come beside the payload of a request are not kept in the record
(human-gate-actions.js 959): the tick audits the buttons that are there, and when
there are none or the audit fails it withdraws buttons and message and asks main for
a revision (workflow.js 5608, 5783), which is not followed here; `GatesAreAsked` is
about gates whose options are stored. A tick takes the 5 oldest pending gates, so that
as many that nobody answers keep newer ones from being repaired. A callback that dies
or throws between the selection and the dispatch (human-gate-actions.js 1484) loses
the dispatch for good, since a repeated click finds the button processed; so does a
retry after its fifth failure (workflow.js 5722). `ChoicesAreDispatched` admits these two
and a retry cancelled with the workflow. `IntentsAreAudited` asks that the approval was
handed over, not that the gate is still approved when the intent is inserted: the
code does not look again.

A request may write `pending` over a gate that was approved after it was
read, and so may the click that waits for words over the decision; a death between
the selection of a button and the update of the record leaves the gate pending. A
pause chosen on an old gate revives a run that was stopped, and a dispatch may be
created after a termination. A replacement cancels the message of the old gate by
id, whatever has become of it. Of two receipts the later one overwrites a terminal
intent (trade-actions.js 543). These concern the record of a gate; the properties
are about its buttons, from which the code decides again.

## 4. What is proved

Eight modules, checked by TLAPS, for every value of the constants. Every safety
property of a passing run is a theorem; where a theorem has hypotheses, they hold
of the run that checks the property, and section 3 says what happens without them.

**The queue** (`JobQueueProofs`), from `JobQueueAssumption`: lengths are naturals,
the lease and the attempt limit positive, the empty owner not a process.

| theorem | statement |
|---|---|
| `TypeCorrect` | `Spec => []TypeOK` |
| `Invariance` | `Spec => []QueueInv` |
| `Exclusion` | `Spec => []LeaseExclusion` |
| `Budget` | `Spec => []RetryBudget` |
| `Dedupe` | `Spec => []ActiveDedupe` |
| `Finality` | `Spec => OutcomeIsFinal` |
| `Respect` | `Spec => LeaseRespected` |

A step of any process changes at most one row, in one of a few
ways (`RowEffects`), and the local variables of one process (`StepKinds`), so
each part of the invariant is shown once per way instead of once per action.
`LeaseExclusion` is not inductive: that two executions of a row exclude each
other needs that an unexpired lease still stands in the row
(`LeaseKeepsRow`), which needs that the row's owner is the process that
remembers this very claim (`OwnerRemembers`), which needs that a claim or
a requeue compares the lease with an instant that is not in the future
(`PastInstants`). `ActiveDedupe` follows from `UniqueActive`, the same without
cardinalities. `RetryBudget` needs `OwnerRemembers` as well: the attempt a
process compares with the limit is the one it re-read, and must still be the
row's. `QueueInv` is the conjunction; `Finality` needs types only, `Respect` the
instants.

**The refinement** (`LeasedTasksProofs`), from the same assumption:

| theorem | statement |
|---|---|
| `Implementation` | `Spec => ImplementsLeasedTasks` |

`LeasedTasks` has no program counters: a worker takes a task in one step that sees
the present, and settles it in one step. The queue's handlers select, compare with
an instant that has passed, update, read again, run and settle with what they
remember. Each of their statements is mapped to one abstract step of one row or
to none: a claim needs `PastInstants` (what had lapsed then has lapsed now), the
settling of an attempt needs `OwnerRemembers` (the tries it writes are the row's),
an insert or a retry needs the index on the dedupe key (`Alone`), and all other
statements leave the rows as they are. What the abstract queue promises (no task
taken from a living holder, tries counted once, done and cancelled for good) thus
holds of the table at every moment, not only between handlers.

**The loop around the queue** (`ControlLoopProofs`), from the assumptions of both.

| theorem | statement |
|---|---|
| `LoopTypeCorrect` | `LoopFairSpec => []LoopTypeOK` |
| `LoopKeepsQueue` | `LoopFairSpec => [](LeaseExclusion /\ RetryBudget /\ UniqueActive)` |
| `LoopImplements` | `LoopFairSpec => ImplementsLeasedTasks` |

A step of the loop is a step of the lease file, which leaves the queue alone, a
step of the queue, or a death that takes both halves of a process at once,
whatever it holds. The lemmas about the queue are stated for
`Next` or such a death, so they carry over; nothing about the file is used,
which is the point: the second execution of a job is excluded even where two ticks
overlap (section 3, difference 1).

**The worker kernel** (`KernelProofs`), from `WorkerAssumption`: a finite set of workers,
positive limits, leases and delay, runners that are no other kind of process.

| theorem | statement | under |
|---|---|---|
| `TypeCorrect` | `Spec => []TypeOK` | |
| `RunnerLeaseRespectedHolds` | `Spec => RunnerLeaseRespected` | |
| `ClaimsWithinCapacityHolds` | `Spec => ClaimsWithinCapacity` | |
| `CompletedJobsKeepResultHolds` | `Spec => []CompletedJobsKeepResult` | `RunnersReport` |
| `ResultsFollowAttemptsHolds` | `Spec => ResultsFollowAttempts` | `RunnersReport` |

Types are not inductive alone: a row put back after a failure is the one a process
remembers, so `KernelInv` adds what each process may remember at each step
(`Sound`). The two lease theorems need no more, and hold whatever dies or throws.

Results are written without a condition on what the process read, and undone
without one. `RunnersReport` (no backend reports directly, no runner fails a worker with a
retry, no session patch throws but for a session run that is gone) is what makes this safe:
a backend that reports on its own may put a worker up for its next attempt while its
earlier result is still being recorded. `LiveInv` then says that a process has
a worker with a session run at hand (`Attended`, `Sane`), so that expiries
and claims are never undone; `SettledInv` that whoever
records a result is alone in doing so for its worker, which stays over until the
job is settled last (`Alone`, `Kept`). `ResultsFollowAttempts` needs a clock: a
runner that settles a worker must hold its current attempt, although it compares
only the lease with the row's. `LeasedInv` says that leases grow with attempts
(`Behind`), as a worker is put up again only when its lease has ended and not before
the delay, so that equal leases mean equal attempts. The code also compares an owner
unique to the tick (v2/control-loop-actions.js 257); the proof does not rely on it.

**The chain** (`ChainProofs`), from the same assumption and `LifecycleAssumption`.

| theorem | statement | under |
|---|---|---|
| `ChainTypeCorrect` | `ChainSpec => []ChainTypeOK` | |
| `IterationsCappedHolds` | `ChainSpec => []IterationsCapped` | finitely many managers |
| `IterationsInTurnHolds` | `ChainSpec => IterationsInTurn` | `OneManager`, `RunnersReport` |
| `LineageAgreesHolds` | `ChainSpec => []LineageAgrees` | `OneManager`, `RunnersReport`, `OneAttempt` |

The gate of a spawn is read some steps before the transaction that makes the row, and
in between others may make theirs. `CapInv` charges each manager that has passed the
gate (`Deciders`) with the row it may still make: whoever stands there, at most the
managers themselves come on top of the iterations the gate counted, so that the cap is
exceeded by fewer than there are managers, and with one not at all. `TurnInv` says that
while one manager spawns the latest iteration stays over and judged (`Admitted`), though
ticks expire, claim, run and undo: what would open it again is a row put back, and
a process puts one back only for a worker that was deleted meanwhile
(`Trails`), never for an id that has been chosen for the next (`Chosen`). A result
that is undone would open it, hence `RunnersReport`.

`LineageAgrees` speaks of moments when no manager is at work; `LinkInv` says what
holds in between. While a successor is recorded, the rows of the worker, of the
successor and of the handoff disagree about this one pair (`Mending`); where the
manager is tells which of the writes was made (`Linking`), and the rows it
would put back have no successor (`Copied`). All other processes change a row without
touching its lineage, since under `RunnersReport` no claim, result or review is
undone (`Judging`, and `TurnInv` for the ticks). What makes this inductive is that
a replaced worker is never started again: its session run is not queued (`Replaced`), so
a spawn of its id is refused. With one attempt (`OneAttempt`) nobody queues it
again, not even an expiry that comes late (`Lapsing`). And a spawn of an id that is
there finds the same input in its session run, hence a row without a predecessor
(`Renewed`, from `SameInput`).

**The bridge** (`BridgeProofs`), from `BridgeAssumption`. `Settled` stands for
`RunLimit <= StaleAfter` and one reconciliation at a time; calls may throw,
registrations change and processes die anywhere.

| theorem | statement | under |
|---|---|---|
| `TypeCorrect` | `Spec => []TypeOK` | |
| `OneLiveRunHolds` | `Spec => []OneLiveRun` | `Settled` |
| `CancelledNotRunHolds` | `Spec => []CancelledNotRun` | `Settled` |
| `RunsWithinBudgetHolds` | `Spec => []RunsWithinBudget` | `Settled` |
| `AckOutlivesOldHoldersHolds` | `Spec => AckOutlivesOldHolders` | `Settled` |

Only the claim of a dispatch tests the row it writes; every later write goes by the
id. That they meet the row they mean follows from `Exclusive`: of all
processes that have claimed a dispatch or are about to settle it for a drain that is
gone, there is one. A claim finds it queued, so nobody has it; a
reconciliation finds it sent longer ago than an agent may run, so the drain that
stamped it is dead (`DrainAgrees`: while a drain holds a dispatch the row carries its
stamp, which is not stale, or was failed by somebody who did not look, or
acknowledged by this drain). What a drain that throws after its
acknowledgement finds is its own, of its own attempt, and that is all that
`AckOutlivesOldHolders` allows it to take back. `Counted` relates the runs begun to the attempts
in the row.

**Delivery** (`DeliveryProofs`), from `DeliveryAssumption`.

| theorem | statement | under |
|---|---|---|
| `TypeCorrect` | `Spec => []TypeOK` | |
| `SentMeansPostedHolds` | `Spec => []SentMeansPosted` | `OneTextAtATime` |
| `OneSenderHolds` | `Spec => []OneSender` | `OneTextAtATime`, `InTime` |
| `TelegramSentMeansAnsweredHolds` | `Spec => []TelegramSentMeansAnswered` | `OneTextAtATime`, `Punctual` |
| `NoticeIsLastHolds` | `Spec => []NoticeIsLast` | `OneTextAtATime`, `Punctual` |

`OneTextAtATime`: no gate's request is asked again with another text, or one process
alone asks and delivers. A delivery writes back the row it claimed, receipts
included; `DeliveryInv` says that the text of such a copy is still the row's
and its receipts are of parts that were posted (`Agrees`), whatever died in
between. It does not need one sender, so `SentMeansPosted` holds however long
parts take.
`InTime`: the parts of a message take less than its lease, and operators mark rows
sent or cancelled only. `SenderInv` bounds the age of a claim by the calls that were
made for it (`Timely`), so that a delivery under way is never stale.
`Punctual`: no statement throws and no dispatch is taken for stale that still runs.
`AnswerInv` says what a flow, its turns and its message tell about each other
(`Tells`) and what each process may take for granted of a flow it works on
(`Knows`); a turn that answered and one that failed exclude each other
(`Verdict`), as a continuation is made only after an acknowledgement.

**The gates** (`GateProofs`), without assumptions on lengths:

| theorem | statement |
|---|---|
| `TypeCorrect` | `Spec => []TypeOK` |
| `GateHasOneChoice` | `Spec => []OneChoice` |
| `SelectionLasts` | `Spec => SelectionIsFinal` |
| `IntentsWereAudited` | `Spec => []IntentsAreAudited` |

Six statements write buttons (`ButtonStep`); each takes choices from a gate without
giving one (`Loses`) or gives one where there was none (`Chooses`), since the
UPDATE that selects tests the other buttons of the gate in its own `WHERE`
(`ButtonStepEffect`). The first two theorems follow without knowing anything about
the program counters of ticks and requests. `IntentsAreAudited` relates an intent
to a dispatch that was seen three statements earlier: `TradeInv` says that a gate
that a trader holds after its check was handed over (`SoundInsertsHanded`), and so
were the gates of live intents and of the rows that receipts read
(`LiveIntentsBacked`, `ReceiptsBacked`); it is inductive because a dispatch is
cancelled but never removed (`DispatchesStay`).

**Only model-checked.** Liveness (`LoopSettlesJobs`, `TicksGoOn`, `WorkersSettle`,
`DispatchesSettle`, `MessagesSettle`, `ContinuationsFollow`, `GatesAreAsked`,
`ChoicesAreDispatched`): fairness and ENABLED are out of the prover's reach.

## 5. Not modelled

* **Read-only or stateless**: the console, validators and readiness checks, the v2
  supervisor (which decides from rows the kernel writes which node runs next),
  previews, permissions and action policy, tool registration and argument parsing,
  rendering.
* **One statement per action**, so that no interleaving of handlers can be told from
  their order: research, verification and topology records, runtime events, the v2
  information stack, meeting records and participants.
* **Another life cycle with the mechanisms already modelled**: v2 human gate packages
  (request and receipt, as in `HumanGate`), owner, governance and protocol reviews
  (row, patch and undo, as in `WorkerReview`), templates and plan materialisation
  (record and undo for one caller), v2 interventions beyond the blocking of a plan,
  v1 incidents and checkpoints.
* **Legacy**: v1 workflow runs and their supervisor, disabled by default.
* **Schedules**: when a schedule is due is arithmetic on calendar dates; what it
  seeds is a row of `JobQueue`.
* **Within modelled parts**: what a running job enqueues for other keys; reviews of a
  worker by two managers; requests of a gate that are both by name and a
  replacement; trade proposals and instruments; a second proposal. `gates_choice` has
  no tick and `gates_settles` no trade: together the state space is beyond a run,
  and trades read nothing a tick writes.

What could follow: adapter jobs, dispatches and outbox rows as further
implementations of `LeasedTasks`; that a session run agrees with its worker
where only one tick serves it; the safety of delivery with
calls that throw, for what still holds then.

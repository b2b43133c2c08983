# A formal model of the workbench's Runs

This directory holds TLA+ modules of what the workbench does with a *Run*: it is executed, turn by
turn, by whichever process holds its execution lease, while operators steer it, pause it and end
it; it is woken, watched by scheduled jobs, charged, and helped by Specialists; its tools create
entities, its edits change files, and its batches of child tasks are merged. SQLite is the only
state of truth. Every store operation is one transaction (`BeginTx ... Commit`), so **one store
operation is one action**, and what can go wrong lies *between* transactions: crashes, takeovers,
lapsed leases, operators, retries, and the file system and Git, which no transaction covers.

Paths below are relative to `src/`. "Store" is `internal/store`, "application" is
`internal/application`.

## 1. The system

| component | state it keeps | operations | talks to |
|---|---|---|---|
| Run execution lease (`execution_leases.go`, `execution_lease.go`) | one row per Run: lease id, owner, generation, status, expiry | acquire, renew (heartbeat goroutine), release, the fence `requireRunExecutionLeaseTx` | every write of the supervisor |
| Run and root Agent (`domain/run.go`, `run_service.go`, `coordinator.go`) | `runs.status`, the root row of `agent_nodes` | start, pause, resume, cancel, complete, fail; `syncRootAgentTx` | supervisor, steering queue |
| Supervisor (`run_supervisor.go`, `supervisor.go`) | the checkpoint (phase, turn, attempt, pending input, repair), model events, Session messages | begin/recover a turn, bind input, start/end a model call, repair, complete, fail, finalize | lease, Run, queue, model router, tools |
| Steering queue (`operator_steering.go`) | messages in order, one delivery per attempt | enqueue, withdraw, select, prepare, supersede, commit, close, drain | supervisor, RunService |
| Hand-off (`run_execution_handoff(s).go`) | operation, selected items, one result | prepare, execute the selection, report, retry | supervisor, queue, lease |
| Lifecycle operations (`run_control.go`) | ledger of operations | start, pause, resume, refused while a lease is live | Run, lease, checkpoint |
| Progress guard (`run_progress_guard.go`) | fingerprints and two counters per Run | evaluated when a turn completes; may pause the Run | supervisor, Run |
| Wake (`run_wake*.go`) | intents, wake leases, consumptions | schedule, cancel, claim, reconcile, prepare, hand off, settle | hand-off, Run |
| Scheduled jobs (`scheduled_jobs.go`, `scheduler/`) | specification, job, one row per round | claim, observe, execute, report, pause, resume, cancel, reconcile | events of the Run |
| Specialists (`agent_*`, `coordinator*`, `specialist_schedul*`) | nodes, attempts, instructions, deliveries, the root's inbox, schedules | begin, call, store, finish or crash an attempt; recover; take over | lease, root Agent |
| Delegation (`specialist_delegation*`) | proposals, reviews, applications with assignments | propose, review, apply, complete, abort | admission, instructions |
| Tool rounds (`supervisor_tools.go`, `toolbudget/`) | batches of calls with results, one charge per call, operation ledger of the tools | store a batch, charge, execute, record | supervisor |
| Money (`monetary_budget.go`) | price tables, usage, reservations | reserve, settle, release, reconcile | model calls |
| Files (`fileedit/`, `workspace_checkpoints.go`, `approval/`) | edits, approvals, write-ahead operations, checkpoint boundaries, the cursor | propose, review, apply, replay, reconcile | file system |
| Read-only fan-out (`readonly_fanout*.go`) | execution, shards, one row per model call | ask, take over, start and end a shard, cancel the remainder, finalize | lease, token budget, model |
| Batch delivery (`batch_delivery*.go`) | plan, workspaces, mailbox, receipts, reviews, merge queue | dispatch, submit, review, renew, merge, resume, cancel, reconcile | Git worktrees |
| Wait graph (`waitgraph/`, `dependency_wait.go`) | edges in memory and in the database | register, detect a cycle, remove | agents, tools, leases |
| Runners, sandbox, browser, analyzer | attempts, jobs, receipts | start, observe, clean up | operating system |
| Everything else | see `PROJECT.json` | | |

`PROJECT.json` lists every component with its files and says of each what is modelled.

### What is hard

Nobody tests an interleaving of a crash, a takeover, an operator and a retry. The hazards are
listed in `PROJECT.json`, each at its line. The ones that shape the models:

* a worker whose lease expired is not dead, only slow; its next store call may come after a
  successor has written (`execution_leases.go:270`; for jobs `scheduled_jobs.go:984`; for
  Specialists `application/specialist_scheduler.go:351`, for a fan-out
  `readonly_fanout_execution.go:1034`);
* a turn takes a dozen transactions; a crash leaves it started, and any entry point (a single
  step, a loop, drain, a hand-off) may find it (`supervisor.go:143`);
* a failed turn keeps its input and its prepared delivery, and the next attempt may be asked for
  something else (`supervisor.go:214-267`);
* `RunService` moves a Run without asking for the lease (`run_service.go:449`), and steering
  arrives while the model decides to finish (`supervisor.go:1337`);
* drain and hand-off read the database before they have the lease
  (`application/operator_steering.go:97-124`); a delegation checks the root's capacity once and
  uses it in later transactions (`specialist_delegation_applications.go:648`);
* what a call, an edit or a merge *does* and the row that says it was done are written one after
  the other (`application/supervisor_tools.go:468`, `fileedit/fileedit.go:438`,
  `application/batch_delivery_merge.go:353`);
* limits are reached by several actors at a time (`monetary_budget.go:262`,
  `coordinator_messages.go:20`, `scheduled_jobs.go:889`).

### What makes each component correct

* Lease: one holder at a time passes the fence; writes never go back a generation; a dead
  holder's lease lapses.
* Supervisor: a started turn is taken over as it is; a worker without the lease writes nothing;
  the three tables Run, checkpoint and root Agent agree; a worker always returns.
* Queue: served in order, one message at a time, at most one answer each; nothing is left in the
  queue of an ended Run, and a completed Run never discarded a message.
* Drain and hand-off: they complete only turns that answer the queue, or the selection.
* Progress guard: it stops a Run exactly after the configured number of repetitions.
* Wake: one hand-off per generation, whoever continues it; every wake ends.
* Jobs: one open round, no occurrence twice, no event skipped, retries bounded through crashes;
  an active job ends.
* Specialists: a child runs exactly while its last attempt does; instructions are read once and in
  order; the root is told once of each end; schedules count what they ran.
* Delegation: one Specialist and one instruction per assignment; what is left to admit fits.
* Tool rounds: a call creates one entity at most, paid for; no turn is committed with open calls.
* Money: neither what is open nor what is settled exceeds the cap.
* Files: edit, file and result never say something else than the approval; one open boundary per
  Run, and each can be closed after a crash.
* Fan-out: a shard runs exactly while its last call does; its calls, also those nobody saw the end
  of, fit in the budget of the Run; every reader knows the states its rows can be in.
* Batch delivery: only what was reviewed is merged, in order; a plan belongs to its open queue.

## 2. Modules

| module | role |
|---|---|
| `FencedLease` | abstract: what the lease promises everything written under it |
| `RunExecutionLease` | the row, the clock, the workers, their heartbeats; implements `FencedLease` |
| `RunLifecycle` | pure: statuses, allowed moves, the projection on the root Agent |
| `SteeringQueue` | abstract: what an operator who steers is promised |
| `RunSupervisor` | lease use, turns, model calls, queue, drain, hand-off, operator; its queue implements `SteeringQueue` and its checkpoint is a document written under `FencedLease` |
| `RunSupervisorProofs` | inductive invariants and theorems about `RunSupervisor`: types, the three tables, the lease, the queue, which turns answer what, and the refinement of `SteeringQueue` |
| `RunProgressGuard` | the row that tells a Run that goes on from one that gets nowhere, with pause and resume |
| `RunWake` | wake intents, their leases and generations, polling workers and commands, the hand-offs they use |
| `ScheduledJobs` | jobs, rounds, workers, the clock, the observed events |
| `ToolRounds` | batches of calls, charges, effects and results, with takeover between any two |
| `MonetaryBudget` | the ledger, its callers, the price tables, the model events it is reconciled with |
| `Specialists` | children, attempts, instructions, the root's inbox, schedules and their goroutines |
| `Delegation` | proposals, reviews, applications, and who else may use the root's capacity |
| `FileEdits` | edits of a file, approvals, applications, boundaries, the cursor, the start's reconciliation |
| `ReadOnlyFanout` | requests for one fan-out, its shards, their calls, the token ledger of the Run |
| `BatchDelivery` | children in worktrees, receipts, reviews, merge queues, cancellation |
| `RunWakePromises`, `ScheduledJobPromises`, `ToolRoundPromises`, `FileEditPromises`, `BatchDeliveryPromises`, `SpecialistPromises`, `RunProgressPromises`, `MonetaryPromises`, `FanoutPromises`, `DelegationPromises` | the tables of the component and its safety properties; the component extends it with its operations |
| `RunWakeProofs`, `ScheduledJobsProofs`, `ToolRoundsProofs`, `FileEditsProofs`, `BatchDeliveryProofs`, `SpecialistsProofs` | inductive invariant and theorems about the module of that name |
| `RunLimitsProofs` | inductive invariants and theorems about what limits a Run: `RunExecutionLease`, `RunProgressGuard`, `MonetaryBudget`, `ReadOnlyFanout` and `Delegation`, with the lemmas about sums that the last three need |
| `MCRunExecutionLease`, `MCRunSupervisor`, `MCRunWake`, `MCMonetaryBudget` | TLC instances of one module |
| `MCServices`, `MCServicesEnd`, `MCBatchDelivery` | TLC instances of several, one of which the initial state chooses |

`RunExecutionLease` and `RunSupervisor` meet in `FencedLease`: the first shows that the row and the
clock provide it, the second uses the lease only through its terms (`generation`, `authority`)
and shows that the checkpoint obeys it (`CheckpointIsFenced`). The other modules that run under the
lease (`ToolRounds`, `Specialists`, `ReadOnlyFanout`) use it in the same terms. `RunWake` uses the hand-off as
`RunSupervisor` has it: prepared once per key, one result, which only an execution can report.

**Components side by side.** The components of `MCServices` share no state in these models, so their
product would only multiply states. The initial state chooses a `part`; the variables of the other
parts rest at 0 and their tables are empty, a step is a step of the chosen part, and a property is that of
the part's instance. Where a property is also proved it stands in a module of its own with the tables it
speaks of (`...Promises`): the component, its proofs and the module that TLC runs extend that one module, so
that all three mean the same. It ranges over the rows that the tables have. One run thus checks every component by itself and its states are the sum of theirs.
`MCServicesEnd` does the same for liveness, with the fairness of each part; `MCBatchDelivery` for four
instances of one module. Symmetry is declared for `w1` and `w2`, which are the workers of `jobs` and
`rounds`, the requests of the fan-out or those of `MCBatchDelivery`, and for the shards `u1` and `u2`; no liveness run uses symmetry.

Faulty variants. A definition preceded by a comment that begins with `Faulty:` is *not* used by
the specification. It is a plausible bug in the definition below it with the same parameters, kept
beside it so that every property can be shown to fail when the code is changed that way.
`PROJECT.json` pairs each property of each run with one.

### How state and actions correspond to the code

`RunExecutionLease`

* `lease` is the row of `run_execution_leases`; a missing row is generation 0. `ttl` is the number
  of ticks to `expires_at`. `Tick` passes time; `ClockStepsBack` sets the wall clock back.
* `worker`, `token`, `beat` are what `withRunExecutionLease` keeps: the stage of the call, its copy
  of the lease, and the heartbeat goroutine. A lease id is fresh at every grant, so "same lease id
  and generation" is "same generation".
* `Write` is any operation that passes `requireRunExecutionLeaseTx`.

`RunSupervisor`

* `ck` is the checkpoint row. `attempt` numbers attempts (the code draws an id). `input` is one of:
  none, the text of steering message *m* (written `m`), any other text (`OwnText`).
* `message`, `delivery` are the two steering tables; `transcript` the user messages of the
  Session; `call` the durable model events of the current attempt: the last event, the calls of
  the current purpose (round, repair) and the tool rounds.
* `worker` is what one goroutine remembers between transactions: the stage (`pc`), the entry point
  (`mode`), its lease, the turn and attempt it began, the answer it got, what it read before it
  had the lease, and the selection it was handed.
* `Modes` are the entry points: `step` (`Step`, `StepWithInput`), `execute` (`Execute`), `drain`
  (`OperatorSteeringDrainService.Drain`), `handoff` (`RunExecutionHandoffService.Execute`) and
  `finalize` (`Finalize`).
* A refused transaction changes nothing and is no step; what the worker does next is `Derail` (the
  failure is recorded), `Abandon` (the error is returned and the turn stays started) or `StopLoop`.

`RunProgressGuard`

* `guard` is the row of `run_progress_guards`, `state` the fingerprint of the structured state.
  `CompleteContinuing` is `evaluateSupervisorProgressTx` for a turn whose requested and effective
  action is `continue`; `CompleteOtherwise` for any other, including a finish or wait that was made
  to continue because steering waits.
* `resumed` is what the table's update trigger asks of the events: a resume dated at or after the
  detection. `Resume` may leave it false, since the clock may have been set back in between.
* `log` is a history variable: the completed turns. The property is said of it, so that it does not
  repeat the counters it is about.

`RunWake`

* `intent`, `lease`, `consumption` and `handoff` are the rows of the three wake tables and of the hand-off
  ledger; a consumption and its hand-off have the same key, the intent and its generation. `run` has
  the status and the pending steering of each Run, `execution` who holds its execution lease.
* `consumer` is what the polling worker or the command remembers between its transactions (`pc`,
  intent, generation, outcome). `HandOff`, `Acquire`, `Deliver` and `Finish` are the hand-off's own
  stages: its row, the execution lease, the supervisor's step, its result. What the step does in
  detail is `RunSupervisor`.
* `faults` counts crashes, shutdowns, stalls and executions by others; it is what bounds them.

`ScheduledJobs`

* `job` and `round` are the rows; `spec` the immutable specification, chosen in `Init`; `target` the Run
  as the observation sees it: the sequence of its latest event, whether it is terminal, whether the
  authority for repairs is current. `worker` holds one round from `Claim` to `Report`.
* `now` is the wall clock; times in rows are ticks. `reported` and `runs` are history variables.

`ToolRounds`: `ck` and `attempts` are the checkpoint and the attempts with their stored batches;
`consumed` is the row of the tool budget; `entities` counts what the calls of one intent in one turn
created: its operation key is made of the Run, the turn, the tool and its canonical arguments.

`MonetaryBudget`: `usage` and `reservation` are the rows; `event` the latest terminal model event of each
attempt number; `caller` is a goroutine of the root, a Specialist or a shard.

`Specialists`: `child`, `attempt`, `instruction`, `delivery`, `inbox`, `schedule` are the rows; `scheduler` is
`ExecuteSchedule` in a process and `worker` its goroutines, one per child, which go on when their
lease is lost. `lease` is the Run's lease, as a holder and a generation.

`Delegation`: `application` is the row with its assignments; `agents` and `messages` carry the key under
which each was made, which is how a repeated loop finds them again.

`FileEdits`: `file` is the file, `edit`, `approval`, `operation`, `result`, `boundary`, `cursor` the rows.
`reviewer` and `applier` are requests; `Recheck` and `Rename` are the two ends of `fileedit`'s write, with
the user free to write in between. `Reconcile` is what the application does when it starts.

`ReadOnlyFanout`: `execution` and `shard` are the rows, without the count of attempts, which is the number of
`calls` of the shard; `calls` are the rows of the model calls, each with what it is charged. `worker` is
one request from `Execute` to the release of its lease, with its goroutines in `task`. A request that
lost its lease goes on, as the code does. `Interrupt` is a cancellation by the caller or by the renewal.

`BatchDelivery`: `plan`, `row`, `receipt`, `review`, `queue` are the tables; `tree` the worktrees of the
children and `integration` that of the queue. What a worktree contains is the number of its commits;
what the integration branch contains is the sequence of heads merged there. `handler` is a request:
the second half of `Submit` and of `Review`, a merge with the fields it holds in memory, or a
cancellation. `Edit`, `Commit` and `ForeignMerge` are whoever has a shell.

### Abstractions

Everywhere: idempotent replays of an operation key return what is stored and change nothing; they
stutter, or are left out where no caller in the model repeats one. Prompts, texts, digests and
identifiers are data; policy and session checks are left out.

`RunSupervisor`
* Two hand-offs that select the same messages are one (`handoffs` is a set of selections).
* `waiting_approval` is a status of the domain no production code moves a Run into; it is in
  `RunLifecycle`, and no action reaches it.
* The progress guard's decision is a nondeterministic choice of `CompleteTurn` (`stalled`);
  `RunProgressGuard` says when it is made.
* Tokens, time and money budgets, prompts and tool effects are data; an operation they refuse is a
  `Derail`. The turn budget is modelled (`MaxTurns`).
* `finish` is refused by open work items or by the delivery mode: the worker then takes `Abandon`,
  as the code returns the error of `CompleteSupervisorTurn` without recording a failure.

`RunWake`: the execution lease is its holder, without a clock of its own (`ExecutionLapses`). There is one
intent row per number, and a hand-off delivers one step. The intent and its consumption are read
together. The store's release for retry, which only tests call, is left out.

`ScheduledJobs`: notifications and the operation ledger are left out; `StopOnTerminal` is a constant;
the job's own events are filtered as the code does. A command of an operator is not dated in the same
nanosecond as the row it changes (`InTime`).

`ToolRounds`: `denied` is merged with `failed`. All tools share one operation ledger; reads, terminals, MCP
and commands have none, may run again on recovery, and are left out. Model transport events and the
repair of answers are those of `RunSupervisor`. A call may be recorded as failed although its entity
exists, when it ran into its time-out after the commit.

`MonetaryBudget`: the estimate of a call and its price are nondeterministic members of `Costs`; only the
latest event of an attempt number is kept, since reconciliation reads no other; the price table that a
settlement reads is read in its transaction.

`Specialists`: aggregate budgets of the Run are left out. The terminal statuses of the Run are one
(`ended`), with which the children become cancelled; `waiting_approval` is merged with paused and a
cancelled schedule with a failed one. Transport retries of a model call stutter. Superseded delivery
rows are not kept. Completion references, skills and Sessions are data. The limits 128 and 4096 of the
root's inbox are small constants.

`Delegation`: tokens, skills and Sessions are left out, and the turns stand for every budget that has to
fit; there is one admission policy. A schedule is a begin and an end; `busy` says that the lease keeps it
and a root turn apart. A child task is one admission. An application whose key was lost keeps root
turns and schedules blocked until the Run ends; the code has no other way out either.

`FileEdits`: one file, replacements only, one operation key per edit. The hash read before `Prepare` is
merged with it, and the list of open boundaries with the read of the cursor. Conflicts of deterministic
checkpoint ids are left out, as are the execution lease that boundaries ask for, moves, deletions,
staging, restores, forks, manual checkpoints and grants. `Reconcile` happens only while no request is
under way, and each of its steps reads again; `Interrupt` may die before it moves the cursor.

`ReadOnlyFanout`: one plan with one operation key. The scan and its verification are a choice of `Verify`;
every call reserves the same; time limits and money are left out. The lease is its generation and
whether it is active. `Turn` is a turn of any Agent of the Run, with the check of its budget in the same
step, since the two exclude each other by the lease.

`BatchDelivery`: starts with dispatched worktrees, or with every delivery accepted; `Prepare` with its
materialization, the write-ahead intent of a child's commit, the narrowed tools, overlap of files, the
independence of the reviewer, and drift of the source other than fast-forward are left out. Tasks are
merged in the order of their ordinals. The second inspection of `Submit` and `Review` is merged with the
first, since a change may come right after the second one anyway. Only the latest queue is kept: a
handler of an earlier one finds its queue ended and can only stop (`Superseded`). The cancellation that
reconciliation makes of a plan with a lapsed owner is covered by `Cancel` being possible at any time.

## 3. Runs

| run | asks | bounds |
|---|---|---|
| `Lease` | one holder, writes in order, implements `FencedLease`, orphaned leases lapse | 3 workers, TTL 2, 5 grants, 1 setback |
| `Steering` | types, prepared delivery, one answer per message, failed input, drain's restraint, queue refinement, ended Runs | an interactive Run; 1 worker that executes, drains, is handed a selection or finalizes; 2 messages, 3 attempts, 3 leases |
| `TurnFencing` | takeover, fencing, the three tables | 2 workers (symmetric) that step, execute, drain and are handed a selection, 1 message, 2 attempts, 2 leases, 2 calls, 1 tool round, clock may step back |
| `BatchMerges` | merged was reviewed, a queue owns its plan | 4 instances: 1 or 2 children, 1 or 2 requests, 2 commits, 2 generations, 2 queues, 1 drift |
| `Services` | the safety of the components below, each by itself | see below |
| `ServicesEnd` | every wake ends, active jobs end, workers return | see below |
| `EmptyQueueWakes`, `WakeOfEndedRun`, `SettledExceedsCap`, `OneOpenBoundary`, `InterruptedMerge`, `UnreadableSummary` | expect a violation, see *Divergences* | the smallest that show it |

The parts of `Services` (the exact instances are in `MCServices`):

| part | instance |
|---|---|
| `wake` | a poller and a command, one Run that may end, one intent with two attempts, one fault |
| `jobs` | two workers on one periodic job, one slower than its lease, one setback of the clock |
| `kinds` | all kinds of job and both misfire policies, repairs that lose their authority, one crash |
| `money` | the root and a shard with two turns each, a cap of 2, costs 1 and 2, two price tables, one crash |
| `progress` | the code's thresholds 3 and 6, two states and two actions, 6 turns |
| `children` | two children of one schedule, a root inbox of one message, two leases, one fault |
| `requests` | a schedule and an operator request for one child with two instructions, one fault |
| `delegation` | two proposals, of which one is applied by two requests at a time, and a child task |
| `files` | two edits of one file and their boundaries; the application or a start may die at any step |
| `reviews` | two reviews of one edit, its application, a user who writes, two faults |
| `repeats` | two requests that apply one edit at a time |
| `calls` | one worker, batches of two calls in two turns, a tool budget that repetitions use up |
| `rounds` | two workers, two rounds of a turn with the same call each time |
| `fanout` | two requests for two shards, reports of 1 and 3 tokens where 2 are reserved, a budget of 5, two leases, one fault |
| `retries` | two requests for one shard, two attempts, three leases, a budget of 7, one fault |
| `batches` | two children of which one waits for the other (types; the properties are those of `BatchMerges`) |

Those of `ServicesEnd`: `wake`, two Runs that share the queue of due intents, one fault; `jobs`, two jobs
that share the queue of due jobs, one crash; `turns`, one worker that executes, drains or is handed a
selection, two calls, one tool round, one message, two attempts, two leases.

Why these bounds are enough. Two messages are the least that have an order; three attempts are the
least that let one fail, one succeed and a third begin. One worker with three leases already is a
sequence of different processes, because a worker that crashed remembers nothing; a second worker
is needed only where an *outdated* one acts, and `TurnFencing`, `jobs`, `requests`, `rounds`, `fanout`
and `BatchMerges` have it. One setback is enough to revive a lapsed lease and to date a report before its round. Two
intents, or jobs, are the least of which one can block the other. A budget of 5 holds two shards, and not a third
call of the same size; `retries` has the calls that use up the attempts. A cap of 2 with costs 1 and 2 has a
call that fits beside another and one that does not. Six turns hold the longest window of the guard,
and one repetition after another; fingerprints are only compared, so two of each kind tell equal
from different. Two children are the least that a queue merges in an order, and two queues the least
that have an outdated handler. The bounds (`MaxMessages`, `MaxAttempts`, `MaxGeneration` of leases, `MaxSkew`,
`MaxTime`, `MaxFaults`, `MaxCommits`, `MaxQueues`, `MaxDrift`, `MaxTables`, `MaxLeases`) appear as guards only; `MaxTurns`,
`MaxCalls`, `MaxToolRounds`, `MaxToolCalls`, `MaxPending`, `InboxLimit`, `HistoryLimit`, `MaxRounds`, `MaxModelCalls`,
`MaxChildren` are limits of the code with small values. Deadlock is not checked: a Run that is over, or
that nobody executes, may stop.

### Fairness

* `Lease`: only `Tick`. Time passes whatever the processes do. No heartbeat and no worker is assumed
  to do anything.
* `ServicesEnd`, `turns`: weak fairness of `Progress(w)`, the disjunction of what a process that has
  something to do does next. A goroutine of the code is never parked without a time-out: each model
  call and store call has a context. The property does not say that a turn *succeeds*.
* `ServicesEnd`, `wake`: weak fairness of `Tick`, of the poller's timer (`Poll`, which is set again after every
  round, also a failed one), of what the consumer does next (`Consume`), and of the lapse or end of an
  execution by somebody else, which `Lease` shows.
* `ServicesEnd`, `jobs`: weak fairness of `Tick` and `Poll`, for the same reasons.
* No fairness is assumed of operators, users, arrivals of work, crashes, or of which answer a model
  gives.

### Divergences

Six runs show the code doing something other than its documents or its own checks say.

* `EmptyQueueWakes`. ADR 0006 ("An empty queue does not wake"): `Drain` reads Run and queue, then
  acquires the lease, then resumes the Run on the status it read. A message withdrawn in between
  leaves a Run that an empty queue woke; the drain loop then stops and the Run stays running.
* `WakeOfEndedRun`. The Run becomes terminal while a hand-off of its wake is open: the lease its
  completion needs is refused for ever, so neither the deadline nor a cancellation ends the intent, and
  it keeps the poller from other Runs' wakes. `ServicesEnd` therefore has Runs that do not end.
* `SettledExceedsCap`. A reservation is admitted by what is *open*; what was settled is free again. A
  Run may settle more than its cap, and then its usage row is refused by every read.
* `OneOpenBoundary`. ADR 0118 ("One Run cannot have two open Workspace transactions"): two requests at a
  time open one each. `BoundariesReconcile` is therefore checked for one request at a time.
* `InterruptedMerge`. ADR 0119 ("Crash recovery accepts the exact two-parent merge"): a queue whose merge
  is in Git and not in the database is given up, because the recorded head is checked first. Only a
  second request working at the same time reaches the branch that recognises the merge.

* `UnreadableSummary`. A shard that a takeover reset keeps its count of attempts. The table and the shard's
  own `Validate` allow that, the `Validate` of the summary (`domain/readonly_fanout_execution.go:426`, `:446`)
  does not, so the list of plans fails: until the shard starts again, and for ever when it is cancelled first.

Met while modelling, without a run of their own:

* `BoundariesReconcile` holds for one crash. After a second one, during `Reconcile` itself, the cursor may
  have moved while the boundary is open, and every later start refuses it (ADR 0118 promises otherwise).
* Repeating an application whose boundary is closed writes outside any open boundary. Two requests with
  one key may save `failed` over `applied`, and a slow `ApproveIntent` may put `applied` back to `approved`.
  A write of the user between `Recheck` and `Rename` is overwritten.
* A wake's prepared generation may settle as failed although the result of its hand-off is not yet
  known to it: a failed look-up of the hand-off (`run_wake_consumer.go:184`) leaves the consumer without
  its operation. `PreparedIsOwned` and `ResultsAreDurable` say what holds nevertheless.
* A job's executor may call the model and die; that call is not charged
  (`application/scheduled_jobs.go:389`). `RunsAreBounded` bounds the calls made, `MaxModelCalls` those reported.
* `Cancel` of a batch removes each worktree before it fences its generation (the comment above it and
  ADR 0119 say the opposite order). Repeating `Prepare` on a blocked plan makes it active, from where accepted
  deliveries can no longer be merged. A `Cancel` that has fenced the rows can race the last step of a queue
  and turn the completed plan into an aborted one.
* `CancelReadOnlyFanoutExecution` works "under a fresh lease fence" (its comment): a fresh lease never owns the
  execution, which it does not take over, and `requireReadOnlyFanoutExecutionLeaseTx` refuses it. In the
  model `Cancel` only changes the lease.
* A fan-out whose shards are all completed, but which was not finalized before its holder died, cannot be
  closed once its files have changed: `failRecoveredExecution` asks for `failed`, which
  `FinalizeReadOnlyFanoutExecution` refuses when every shard is completed (`FailDropped`).
* `Start` of the Run uses two transactions (`run_service.go:369`). A resume dated before the detection,
  when the clock was set back in between, cannot complete a turn (`migration_v79.go:63`).

## 4. Proofs

`RunLimitsProofs` begins with the lease. It proves, for every set of workers, TTL, number of grants and setback bound
(assumption `LeaseConstants`):

* `TypeCorrect`: `Spec => []TypeOK`. The run `Lease` leaves this one to the proof.
* `MutualExclusion`: `Spec => []AtMostOneHolder`. The property is not inductive: nothing in it says
  that a fresh generation is not already in somebody's copy. The strengthening `LeaseInv` adds that
  no copy and no write is of a generation later than the row's and that two workers never hold
  copies of one generation. `Acquire` then hands out a generation nobody has, and every other action
  only drops copies.
* `WritesAreOrdered`: the action property, from the same invariant: a write is of the row's current
  generation, and earlier writes are of that one or an earlier one.
* `Refinement`: initial states of `RunExecutionLease` are initial in `FencedLease`, and each action
  maps to `Grant`, `Lapse`, `Revive`, `GiveUp`, `FencedWrite` or to a stutter.

`RunSupervisorProofs` proves, for every set of workers and modes and every bound (assumption
`SupervisorConstants`: the bounds are positive, `MaxToolRounds` natural):

* `SupervisorTypeCorrect`: `Spec => []TypeOK`. `TypeOK` alone is not inductive, since completing a turn
  counts the turn up; `TypeInv` adds that a *started* turn is within the budget. The lemmas
  `WorkerUpdates`, `CheckpointUpdates`, `CallUpdates` and `DeliveryUpdates` say once what each form of
  record update leaves; one lemma per group of actions applies them.
* `AgentAlwaysMirrorsTurn`: `Spec => []AgentMirrorsTurn`, inductive relative to `TypeInv`. Most actions
  leave the three tables alone (`MirrorWorkers`); each of the others writes the projection it needs.
* `OutdatedWorkersCannotWrite` and `CheckpointRefinesFencedLease`, both from `WorkerStep`: a worker's step
  writes its own record only, and touches checkpoint, Session, events or deliveries only while it
  holds the lease and leaves the lease as it is. `CheckpointStep` adds what the written generation is.
* `StartedTurnIsAlwaysKept`: the action property, by cases on who writes the checkpoint.
* `PreparedIsAlwaysBound` and `EndedRunsNeverOwe`, from the inductive invariant `QueueInv`. It adds two
  things to the properties. `SelectionsAreFronts`: a selection a worker or an open hand-off holds was
  a front of the queue when it was read, and stays one, because messages join at the end
  (`MessagesMoveOn`); without it the message a hand-off names need not be the oldest
  (`ChosenIsOldest`). `ClosedWithTheRun`: messages are closed only with a failed or cancelled Run, so
  a completed one has closed none (`EndedStaysEnded`).

Then, of the answers:

* `TurnsAlwaysAnswerOnce`: `Spec => []TurnsAnswerOnce`. The property compares numbers of turns and of
  deliveries, which no single step can be judged by. `AnswerInv` says it in terms of *which*:
  `AttemptsAreCounted` (nobody knows an attempt that was not started, so the delivery of a new one is
  free), `AnswersAreCommitted` and `DeliveriesAreCommitted` (a committed message has exactly one place in
  the Session and one delivery, another message has none). The cardinalities follow.
* `SteeringAlwaysStaysSteering`, from `SteeredTurns`: a worker that drains, or was handed a selection, is in
  a started turn only if the turn has a prepared delivery, and of its selection. `RecoverTurn` and
  `StartTurn` make that so; every other action that could take the delivery away ends the turn or the Run.
* `FailedInputAlwaysSurvives`, from the queue's invariant: the message that a failed turn prefers is the
  prepared one, hence its input.
* `SupervisorRefinesSteeringQueue`: `Spec => ImplementsSteeringQueue`. A step of a worker is a step of
  the abstract queue or a stutter: `StartTurn` prepares, `RecoverTurn` and a failed turn leave the queue alone,
  `CompleteTurn` answers, `Finalize` and the operator's transitions close. The refinement mapping reads
  the answers off the Session (`Answered`), so the proof needs what a longer Session answers. That is an
  induction over its length, which is done on the *set* of lengths for which the fact holds
  (`NaturalsByInduction`, from the least element of a set of numbers), since a theorem with an operator
  for a parameter cannot be cited.

The other modules say their assumption as an operator (`WakeConstants`, `JobConstants`,
`ToolConstants`, `FileEditsConstants`, `BatchConstants`, `SpecialistConstants`, `GuardConstants`,
`MoneyConstants`, `FanoutConstants`, `DelegationConstants`), since several instances of them are checked in one
run; their theorems have it as hypothesis and the MC modules assume it of every instance. Each has one
inductive invariant, named in its module, with `TypeOK` (or a stronger `Types`, which also types what
requests remember) as its first part. A property that ranges over the rows of a table is in the invariant in
the form that ranges over the constants (`PreparedOwns`, `ResultsStay`, `EventsAreReported`, `EditsAreBound`); the
types say that this is the same.

`RunWakeProofs`, invariant `WakeInv`: `WakeTypeCorrect`, `PreparedIsAlwaysOwned`, `ResultsAreAlwaysDurable`. The properties
speak of rows only, and a row is written by a consumer from what it remembers, perhaps long after another
one has gone on. `ConsumersAreSound` says what such a memory is still worth: it is of an intent that exists,
of a generation that was claimed, and who is about to settle has the outcome that the hand-off's row has,
which never changes again. `IntentsAreNumbered` gives a scheduled intent a free row.

`ScheduledJobsProofs`, invariant `JobsInv`: `JobsTypeCorrect`, `OneRoundIsAlwaysOpen`, `OccurrencesAreAlwaysNew`,
`NoEventIsEverSkipped`, `RunsAreAlwaysBounded`.

* `Sound` relates a job to its rounds: besides the open round, every time that was used lies before the next
  wake, or, while a round is pending, not after it; and not after the row's last update, which is what keeps
  a resume under a clock that was set back from using one again.
* `WorkerIsSound`: a worker whose generation is still the job's has read its events from where the job is.
  A worker that was fenced may remember anything else, and its report changes nothing. With
  `EventsHappened` this gives `NoEventIsSkipped`.
* `RunsAreAttempts`: the runs of an occurrence are as many as a *set* of its attempts that contains no attempt
  which a worker is still to execute. Each execution adds an attempt to the set, so there are at most
  as many as the retry policy allows. The count alone is not inductive: a slow worker may still execute
  after its round was given to another.

`ToolRoundsProofs`, invariant `ToolsInv`: `ToolsTypeCorrect`, `EffectsAlwaysMatchResults`, `RoundsAreAlwaysResolved`.

* `ChargesCover`: the entities *and the workers that are executing a call* are together no more than what was
  charged. A charge is made before its effect, and the worker may die in between, so charges and
  entities cannot be related without who executes.
* `WorkersAreSound`: who resumes holds places of calls that its attempt has, who is about to record a success
  has created the entity or found it, and who calls the model with the current lease has no call left.
  `OneHolder` lets a worker with the current lease speak for all: nobody else adds a batch meanwhile.
* `TurnIsOpen`: a started turn has an attempt that was not committed.

`FileEditsProofs`, invariant `FilesInv`: `FilesTypeCorrect`, `ReviewsAlwaysBind`. Approval, edit, file and result are four
writes. `AppliersAreSound` says that a request past its first look has an edit whose approval was given, which
nobody takes back; `FileIsKnown` that a text of an edit is in the file only after it was written, so a
request that *finds* its text there may record it as applied. That needs texts of users to be none of an edit's (in
`FileEditsConstants`): the code compares hashes, and who writes the very text of an edit has applied it.

`BoundariesAlwaysReconcile` has more in its hypothesis: one applier and at most one fault, since with two appliers
or a second death the property is false (see *Divergences*); the sets of edits, of texts and of
reviewers are any. Its invariant, `Reconcilable`, is about the one request, the boundaries, the cursor and whether
the fault was spent. At most one boundary is prepared, and the cursor is where that boundary begins or at its
checkpoint before. While no fault has happened an open boundary is that of the request which is past `open`; after the
fault the boundary the request left does not begin where another one was entered (`Befores`), which is what lets a start
take the cursor back without meeting another boundary.

`BatchDeliveryProofs`, invariant `BatchInv`: `BatchTypeCorrect`, `WhatIsMergedWasReviewed`, `QueueAlwaysOwnsPlan`.

* `QueueIsSealed`: an open queue has the plan in `merging`, every row accepted or ended, and every current receipt
  accepted. `RowsAreSound` gives that when a queue is created.
* `HeadIsMerged` and `MergerIsSound`: a request that is as far as the open queue it works for has its head, and what
  it is about to record is that head and the next receipt. One that is behind is refused by the comparison in
  `CompleteBatchDeliveryMergeStep`, one of an earlier queue by `Superseded`.
* `CancellerIsSound`: a canceller that met no failure still remembers every child that has not ended, so it can close the
  plan only when all have, and no queue is open then.

`SpecialistsProofs`, invariant `SpecialistsInv`: `SpecialistTypeCorrect`, `AttemptsAlwaysAgree`, `InstructionsAreAlwaysRead`,
`ParentIsAlwaysTold`, `SchedulesAlwaysCount`. It has two halves, the second of which needs the first.

* `LedgerInv`, of the rows. `Agrees` and `Reads` are `AttemptsAgree` and `InstructionsAreRead` of one child. `Delivers`
  adds that what is prepared are the *oldest* pending instructions, and is of the running turn: without it a commit
  could overtake. `Told` says of *which* attempt each message is, one per attempt; the cardinality in `ParentIsTold`
  follows. A child's tokens are a sum over its attempts (`Used`); that an append adds nothing and a charge adds its cost is an
  induction over the length, on the set of lengths for which it holds (`NaturalsByInduction`).
* `ScheduleInv`, of processes and leases. `Counted` is `SchedulesCount`; a process writes its own count into the
  row, so `Knows` says what that count is worth: while the row of its schedule runs, the turns it has gathered and those of
  the goroutines it waits for are all that the lease of the row has begun, even when the process has lost that lease, since a
  goroutine of a lost lease begins nothing. A lease that has not started a schedule has begun nothing, so a new row
  counts from 0; `Known` keeps leases apart by generation, and `Apart` keeps two processes from one row.

`RunLimitsProofs` goes on with four modules, each an instance of it (`Guard`, `Money`, `Fanout`, `Teams`); each of
its theorems is about the specification of one of them alone.

Three of them compare budgets with sums over tables, which the modules write with the folds of the community
modules, hence with `CHOOSE`. The section on sums gives these a meaning that does not depend on the order: `Total(h, S)`
is what every function that adds up the subsets of a finite set gives for `S` (`AddsExists`, `AddsAgree`), a fold that
takes the elements in *some* order, from either end, is such a function (`FoldIsTotal`, `FoldBackIsTotal`), and what an
added, changed or removed row does to it are lemmas (`TotalAdds`, `TotalChanges`, `TotalRises`, `SumUpAppend`). They rest
on an induction over the subsets of a finite set, again done on the *set* of those for which the fact holds
(`SubsetsByInduction`, from the library's theorem that the numbers are well founded).

* The progress guard, invariant `GuardInv`: `OnlyLoopsAreEverStopped`, `GuardTypes`. The property speaks of the whole
  history and the code only of one row. `RowCounts` relates them: while the guard observes, its row has the state and the
  action of the last turn, and its counts are the lengths of the two stretches that end there, both below their thresholds; else
  no stretch goes on from the last turn. `StretchesStay` and `StretchLengths` say what a further turn makes of the stretches.
* The monetary budget, invariant `MoneyInv`: `OpenIsAlwaysCapped`, `MoneyTypes`. The code admits a call by totals that it
  keeps beside the rows. `TotalsAgree` says that the open total is the sum of what the *rows* hold, and is no more than the
  cap; every operation closes a row and moves its amount between the totals in one step, and reconciliation, which
  closes any number of rows at once, does so for each of them. `NumbersLeft`: who has a call under way has a number for it.
* The fan-out, invariant `FanoutInv`: `CallsAreAlwaysAdmitted`, `FanoutTypes`. `Ledgers` are the shards and their calls, row
  by row. The budget is checked once, for all shards that a request is about to start, and the calls are made
  later, so `CallsAreAdmitted` is not inductive. `Budgets` adds the `Pledge`: for a request that holds the
  current lease, what was used *and a reservation for every call it may still start* are within the budget. `Leases`
  makes that enough, since no other request can start a call meanwhile.
* Delegation, invariant `TeamInv`: `ApplicationsAlwaysFit`, `TeamsAreAlwaysExact`, `DelegationTypes`. `Alone`: there is one
  application under way at most, and while it is, the root waits and no schedule runs; this is what holds the
  capacity, for there is no reservation. `Capacity` says so in numbers: Specialists and those that are missing fit together,
  and turn by turn what is missing becomes what is there (`AgentAdded`, `NeedFacts`). `Members` and `Noted` tie each Specialist to an
  assignment, and each noted assignment to the rows it names; `Remembers` says that what a request read before it
  was overtaken by another one is still so, because those rows are only ever added. `Unread` is why a repetition can
  confirm an instruction that it did not send itself. `MessagesAreFew`: there are no more instructions than
  Specialists, so they have indices within the type.

Each strengthening was model-checked before the theorems were finished: that of `RunSupervisor` on the bounds of `Steering`,
the others on their instances in `Services` and `BatchMerges`, with `Total` evaluated by the community modules'
sum, since TLC cannot evaluate its `CHOOSE` over all functions. Two models were changed so that they can be
reasoned about: what a worker of `ToolRounds` and a canceller of `BatchDelivery` have still to do is a set with its
first element, where it was the sequence of the same elements in order. Three assumptions on constants say what the proofs
showed to be needed and the code has: a plan has finitely many shards (`FanoutConstants`); limits, caps and costs are
positive numbers, and a caller has one of three scopes (`MoneyConstants`); and the key under which a child task is admitted is
none of a delegation's, whose keys have another scope (`DelegationConstants`).

What a proof does not show. The theorems hold for every value of the constants, but of the same
abstractions as the runs. Bounds that are no limit of the code (of leases, faults, commits) are parameters of
the theorems as well, so nothing depends on their being small.

Checked by TLC only:

* liveness (`OrphanLapses`, `WorkersReturn`, `WakesEnd`, `ActiveJobsEnd`) and the fairness and `ENABLED` it rests on: out of
  this prover's reach;
* `TypesOK` of `Services`, which only collects the `TypeOK` of its parts; each of these is a theorem of its own
  (`WakeTypeCorrect` to `DelegationTypes`);
* the violations under *Divergences*;
* that reconciliation at the start can close what `BoundariesReconcile` says it can is proved for one request and one
  death only, since it is false beyond (see *Divergences*).

## 5. Plan

Done: the lease and the supervisor with its queue; the progress guard; wakes, jobs, tool rounds, money,
Specialists, delegation, file edits, batch delivery and fan-out. Proved: every safety property that a run checks of
them, with the refinements of `FencedLease` and `SteeringQueue`.

Proofs next: the models below, as they are written. What is left of these is liveness, which stays with TLC.

Models next:

1. The wait graph: cycle detection against a reference definition of a cycle, with durable edges.
2. Child tasks: proposal and admission, and `Prepare` of a batch with its worktrees.
3. Approval grants; command runtime jobs; restores of workspace checkpoints.

Not modelled, and not planned: HTTP, CLI, TUI, desktop and web surfaces, provider clients, parsers
and renderers, sandbox and browser protocols, packaging. They keep no state of a Run, or their
behaviour is that of an external program. Docker attempts and terminals hold leases of their own that
repeat the pattern of the Run's.

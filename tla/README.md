# FlowForge in TLA+

Specifications of the FlowForge backend: what happens to an execution between
the request that creates it and the status it ends with, how a workflow is
checked, sorted and run, how its versions, triggers, health metrics and user
accounts are kept — with the interleavings, crashes, timeouts and retries the code has to live
with. TLC checks small instances, TLAPS proves the safety properties for all
sizes. Paths below are relative to the repository.

## 1. The system

| Component | State | Operations | Talks to |
|---|---|---|---|
| Execution pipeline (`src/execution/execution.service.ts`, `execution.processor.ts`) | rows `Execution`, `ExecutionStepLog`; the Bull job with its lock and stalled counter | `triggerManual`, `handleRun`, `cancel` | executor (call), health cache (`del`), gateway (broadcast) |
| Workflow executor (`src/workflow/core/workflow-executor.ts`, `step-runner.ts`, `retry-strategy.ts`, `timeout-handler.ts`) | map of step results, attempt counters, timers — all in memory | `execute`, `executeLayered`, `executeStep`, `runStep`, `withRetry`, `withTimeout` | DAG engine (call); hands the map to the processor |
| DAG engine (`src/workflow/core/dag-*.ts`, `topological-sorter.ts`) | none between calls | `parseDag`, `validateDag`, `topologicalSort` | called by create, update and execute |
| Workflow versions (`src/workflow/workflow.service.ts`) | rows `WorkflowDefinition`, `WorkflowVersion` | `create`, `update`, `rollback`, `remove` | read by `triggerManual` |
| Health metrics cache (`src/health/health.service.ts`) | Redis keys `health:metrics:<tenant>` (60 s), `health:lock:<tenant>` (10 s) | `getMetrics`, `waitForCache`; `computeMetrics` makes the value of three queries | reads executions; invalidated by their writers |
| Webhook triggers (`src/trigger/trigger.service.ts`) | rows `WorkflowTrigger`, `WebhookNonce` | `verifyAndHandleWebhook`, hourly purge | `triggerManual` |
| CRON triggers (`src/trigger/trigger.service.ts`) | rows `WorkflowTrigger`; in each process node-cron tasks and the map `cronTasks` | `onModuleInit`, `createTrigger`, `toggleTrigger`, `deleteTrigger` | `triggerManual` when a task fires |
| Accounts and roles (`src/auth`, `src/common/guards`) | rows `Tenant`, `User` | `register`, `login`, `addMember`, `updateMember`, `removeMember`, `updateProfile` | the guards of every endpoint read the requester's row |
| Interpolation and script sandbox (`variable-interpolator.ts`, `script-executor.ts`, the inputs of `step-runner.ts`) | `ctx.globals`, where conditions leave their result | `interpolate`, `evalBoolean`, `runScriptStep`, `runConditionStep` | called by steps; reads the map of results |
| Execution gateway (`execution.gateway.ts`) | rooms of sockets | what is broadcast at the end of a run and after its status is written | called by executor and processor |
| AI generator, shell (`src/ai`, `main.ts`, `src/infra`, `src/common`) | clients | output and wiring | — |

What is hard in it:

* **Interleaving.** Every `await` lets other requests, other processes and the
  same event loop act. Checks and the writes they guard are separate statements
  almost everywhere: cancel, update, toggle, the nonce of a webhook, the email of
  a member. The three queries of the metrics are no transaction either.
* **Failure.** Bull redelivers a job whose lock was lost while the first handler
  may still run; a call may reject between two writes; a process may die with a
  Redis lock, or with cron tasks in memory.
* **Time.** `Promise.race` does not stop the loser: a step that timed out and a
  run that timed out go on unheard and share state with what follows.
* **Staleness.** Metrics are cached apart from the rows they count; the map of
  cron tasks is a cache of rows that other processes change; the guard of a
  request has read a role that may be gone when the request writes.
* **Data between steps.** What a step reads of others goes through a map and
  through globals that the caller can preset, and steps are skipped, retried and
  timed out in between.

`PROJECT.json` lists each hazard at its line with the properties aimed at it.

What makes each component correct: an execution that ran has a final status with
its logs, however often its job was delivered, and those who listen are told that
status (pipeline, gateway); a step runs after all it depends on, once, sees what
they have answered, one branch of a condition is taken, and the answer is complete
and true to what was persisted (executor, interpolation); exactly the acyclic definitions are accepted and layered in order
(DAG engine); no update is lost and the rows are those of requests that happen at
once (versions); few requests fill the cache at once, no stale value stays,
and its numbers differ only by what moved meanwhile (health); a nonce starts one
execution, and only who can sign makes a trigger refuse messages (webhooks); the
running tasks are those of the active rows (CRON); rows are written by their own
tenant only, a request of an ADMIN leaves one, and a right password is refused for a
shared email only (accounts). Not all of this holds at all times: the properties name
the faults and races under which the code gives less, and the hazards without a
property are those where it gives nothing to hold on to.

## 2. The modules

Each module has its variables commented one by one; comments on actions name the
lines they stand for where the name of the action does not say it.

| Module | Models | Checked by | Proofs |
|---|---|---|---|
| `ExecutionPipeline` | execution rows, step logs, the Bull job, `handleRun` one `await` at a time, `cancel`, `WorkflowService.remove` | `MCExecutionPipeline` | `ExecutionPipelineProofs` |
| `ExecutionLife` | abstract: what a user may count on of an execution | — | — |
| `ExecutionEvents` | the pipeline with what it broadcasts | `MCExecutionPipeline` | `ExecutionPipelineProofs` |
| `DagSchedule` | abstract: what a run of a graph of steps promises | — | — |
| `WorkflowExecutor` | one run: layers, attempts, back-off, both timeouts, the report, the read of the map by the processor | `MCWorkflowExecutor` | `WorkflowExecutorProofs` |
| `StepData` | the run with outputs, paths, conditions, globals and the inputs of scripts | `MCWorkflowExecutor` | `WorkflowExecutorProofs` |
| `DagValidation` | `parseDag`, the depth-first search, the verdict, `topologicalSort` | `MCDagValidation` | `DagValidationProofs` |
| `HealthCache` | `getMetrics`, `waitForCache`, lock, expiry, writers | `MCHealthCache` | `HealthProofs` |
| `HealthMetrics` | the queries of `computeMetrics` over a moving table, the loop that makes buckets and totals | `MCHealthMetrics` | `HealthProofs` |
| `VersionHistory` | abstract: the history of a workflow, each operation in one step | — | — |
| `WorkflowVersions` | rows of one workflow and the statements of the requests for it | `MCWorkflowVersions` | `WorkflowVersionsProofs` |
| `WebhookDelivery` | deliveries, nonces, purge, the execution they start | `MCWebhookDelivery` | `WebhookDeliveryProofs` |
| `CronTriggers` | rows, tasks and maps of several processes | `MCCronTriggers` | `CronTriggersProofs` |
| `Accounts` | tenants, users and the statements of the requests that write them, `login` | `MCAccounts` | `AccountsProofs` |

How they meet.

* `ExecutionPipeline` implements `ExecutionLife` (`ImplementsExecutionLife`, proved as
  `PipelineImplementsLife`): a worker has taken up what it is between line 37 and its
  last write with, and has begun it after line 39.
* `WorkflowExecutor` implements `DagSchedule` (`DS == INSTANCE DagSchedule WITH
  ...`, property `ImplementsDagSchedule`, proved as `RunsAreSchedules`).
* `WorkflowVersions` implements `VersionHistory` (`ImplementsVersionHistory`, proved
  as `VersionsImplementHistory`).
* `StepData` and `ExecutionEvents` extend the run and the pipeline: each of their
  actions is an action of these with what it reads, writes or says besides.
  `DataRunsAreRuns` and `EventRunsAreRuns` prove that they restrict nothing that
  the theorems need, so all theorems about the smaller module hold for them; the
  runs check the larger one.
* `DagValidationProofs!SortedIsExecutable` shows that what `topologicalSort` returns
  is what `ExecutorAssumption` asks of the constants `Depth` and `Layer`, so the
  executor's theorems hold for every definition that `validateDag` lets through.
* `ExecutionPipeline.Execute` takes any of the verdicts of `WorkflowExecutor`;
  `HealthCache.Write` and `Del` are the terminal write and the `del` of the
  pipeline, and the writers of `HealthMetrics` its writes of the status;
  `WebhookDelivery` and `WorkflowVersions` include the part of `triggerManual` they
  depend on.

Definitions whose comment says *Seeded bug* are not part of any specification.
Each is a variant of the definition after it with a plausible mistake, and
`PROJECT.json` pairs it with the property that finds it.

### State and code

* `ExecutionPipeline`: `row` is `executions.status` (`none` before the insert,
  `gone` after the cascade of a deleted workflow), `logs` counts batches of
  `createMany` (processor line 139), `job`, `stalled` and `lock` are Bull's, `pc`
  is the `await` each worker is at. Bull is modelled from how it is used: no
  `attempts` option, so a job is tried once; the default `maxStalledCount` of 1;
  concurrency 1 for each process. A worker that has lost its lock goes on, and its
  completion then does nothing.
* `WorkflowExecutor`: Node takes the next timer or answer only when no promise
  reaction is left; `Quiet` says so, and the reactions (`Advance`, `Break`, the
  reports) have their turn first. `results` is the map `ctx.steps` that
  the returned report shares with the run; `aborted` marks the `failed` entries
  that lines 103-116 fill in. The back-off time is random in the code and
  arbitrary here. `MaxRetries` is any integer, as nobody validates a `retryConfig`:
  below zero (and where it is missing) `withRetry` has no turn, and the step fails at
  once (`NoAttempts`).
* `DagValidation`: Maps and Sets of JavaScript iterate in insertion order; the
  model takes any order, so what it shows does not depend on how a definition is
  written. `rest` are the keys to which the loop of line 114 has not come. The
  `dependsOn` of a step may be missing (`Unlisted`): `parseDag` takes it for an empty
  list, `validateDag` throws a TypeError at line 39 (`Throw`).
* `HealthCache`: metrics are the number of terminal writes they have seen, which
  is all that staleness needs. `lock` holds who has set it although Redis keeps
  `'1'`: it serves only to tell an orphaned lock from one that is in use.
* `WorkflowVersions`: a transaction is one action; the reads before it are
  actions of their own, as `findOne` is outside it. The unique index on
  (workflow, version) is a guard of `UpdateCommit`.
* `WebhookDelivery`: `fresh` and `expired` stand for `expiresAt`; the code never
  looks at it except in the purge. The table of nonces has no column for the trigger,
  so `nonce` is one for all `Triggers`, and a delivery meets the nonces of other
  tenants' senders too. `keeper` is whose row is there, `made` and `burnt` what has come
  of the deliveries that stored one.
* `CronTriggers`: `tasks` counts running node-cron tasks, `mapped` those
  with a handle in `cronTasks`. `toggleTrigger` after its last `await`
  is `ScheduleTask` or `ToggleStop`. `CallFails` at one of these stands for a reply that
  is lost when the row has been written.
* `StepData`: a condition compares what a path leads to with a word, with quotes around
  the path (`Quoted`) or without, and leaves
  its result in `globals._cond_<id>`, which a later `runIf` compares with a branch;
  all other `runIf` expressions may be true, false or throw. A path is a sequence
  of names and `Resolve` walks it as `resolveExpression` does. The text it leads to
  becomes part of the expression as it is (`Evaluates`): without quotes a word is a
  name the sandbox does not know, and what does not read as a word (`odd`: an object,
  or text with quotes in it) may make the expression true, false, or fail before it is
  evaluated, as `interpolate` is called outside of the `try` of `evalBoolean`
  (`DataFail`; the condition is then retried like any step). Scripts do not write
  globals, though the code lets them. Paths and guards read earlier layers only:
  of its own layer a step reads whatever the order within the layer has left.
  Which of several steps `findPreviousDataStep` finds depends on the order of
  `dependsOn`, so any of them is taken.
* `ExecutionEvents`: `ended` is the last `execution.completed` or
  `execution.failed` of an execution, `told` the status of its last
  `tenant-event`. The first comes out of `Execute`, before any write, the second
  out of `Invalidate`, after the `del`.
* `HealthMetrics`: `time` counts parts of an hour, and an hour's key is its number
  modulo `Day`. Each query reads `rows` in an action of its own, in any order, as
  `Promise.all` allows. `moved` holds the executions written since the request
  came; as a bound, each is written once in that time. `Cancel` writes over any status
  and `Settle` over any but PENDING, as neither `cancel` nor an overlapping handler
  checks again. `waiting` are the queries not
  yet answered, `ByHour` is the SQL of lines 145-157. The loop after it is an action for each
  row, `ReadRow`, in the order of the SQL; `left` are the rows to come. It has no
  `await`, but what others write meanwhile does not reach it either.
* `Accounts`: a tenant is named by its slug. Each request is its checks and its
  write, one action each; the guards are in the actions that start them, as
  `JwtStrategy` reads the row anew for each request. Requests that a guard refuses
  change nothing and are left out, as are passwords (they are those of
  their users, and differ) and failures of the database other than its unique
  indexes. `disturbed` holds the requests that another one overtook,
  `loose` the users whose email was not compared with those of all tenants.

Faults are actions too: calls that reject, processes that die, locks
that expire early, each counted against a bound (`MaxFaults`, `MaxOverruns`).
History variables (`overlapped`, `missed`, `disturbed`, `burnt`, `upset`,
`raced`, `moved`, `keeper` and `made`, `loose`) record that something happened so that a property can name it; no guard
reads them but the bound of `HealthMetrics.Moves`.

## 3. What is checked

| Run | Instance | Shows |
|---|---|---|
| `pipeline` | 1 execution, 2 workers, 1 cancel, 3 faults | statuses keep their logs and were announced as what they are; completed jobs have told the tenant; that it implements `ExecutionLife`, hence logs at most doubled; a cancel that came in time sticks; stale metrics are about to go; jobs end; without faults executions settle |
| `executor` | 8 steps in 4 layers: a call, two conditions on its answer, an if and else with a join, a step aside, a step that is never attempted | completeness, stability and termination of a run, that it implements `DagSchedule`, that one branch is taken, what conditions and scripts see |
| `validation` | all definitions of up to 3 steps over 3 ids, with and without `dependsOn`, all graphs on 4 steps | exactly the acyclic definitions are accepted; layers are right; the search and the sort end |
| `health_cache` | 3 requests, 2 writers, 1 poll, 1 overrun, 1 fault | how many fill the cache at once; why a value may be stale; that it recovers and converges |
| `health_metrics` | 2 executions, a day of 2 hours of 2 parts | how far active count, chart, totals and counts by status can be apart; which day a bar shows |
| `versions` | 5 requests, 2 definitions | no lost update, a rename keeps the definition, and it implements `VersionHistory` |
| `webhook` | 5 deliveries of 2 nonces to 2 triggers, 1 unsigned, 2 purges, 1 fault | a nonce starts one execution per life of its row; a 409 is on account of another signed delivery, of whichever trigger |
| `cron` | 2 processes, 4 requests, 2 faults | tasks and map of a process match the rows |
| `accounts` | 2 requests at a time, any number of them, 3 users, 2 tenants, 2 emails | rows are written by their tenant; how the last ADMIN goes; when a 500 can be, and who is refused with the right password |

`TypeOK` is an invariant of the `executor` run. In the other modules with proofs it
is the theorem `TypeCorrect` (`MetricsTyped` for `HealthMetrics`), for all constants,
and the runs do not repeat it; `LogsBounded`, `DependencyOrder`, `VerdictHasLogs`, `CompletedIsSettled`, `SortNeverThrows`,
`CurrentExists` and `EntriesAreTasks` are theorems in the same way.

### Bounds

* *Pipeline.* Nothing but the workflow is shared between executions, so one is
  enough; two workers are needed for a redelivery to overlap the first handler.
  Three faults allow a lost lock, a crash of the second handler and a failed call
  in one behaviour, `MaxStalled` is Bull's default of 1.
* *Executor.* `fetch` is a call that is retried once; `check` and `again` are
  conditions on its answer, `check` with the id between quotes and a retry, `again` with
  the path and without the quotes, as `ai.service.ts:41` has it; `post` and `wait` are on
  opposite branches of `check`, a call and a delay; `join` is a script that is
  retried once, behind both; `aside` is a delay that runs beside; `never`
  has no turn in `withRetry`. Layers of two and three, dependencies that fail or are skipped, a script behind a skipped and a
  delayed step; one retry shows every transition of the loop. Any preset globals.
* *Validation.* Three steps already hold duplicate and unknown ids, self-loops
  and two-cycles; four are needed for a diamond and for a cycle that is reached
  from a step outside it.
* *Health.* Three requests are a holder whose lock expired, the next holder and a
  waiter; two writers are one before and one after the computation. One poll is
  enough: a further turn of the loop starts in the same state.
* *Metrics.* The first and the last hour of the window have one key in a day of
  any length; hours of two parts let it start in the middle of one. Two executions
  are one in each of these hours, or two in one. `MaxTime` of 5 is an hour more
  than a day, and both boundaries of an hour can fall between two queries. One
  duration is enough for the rounding.
* *Versions.* Create, update, rollback, update and a trigger or a deletion; numbers
  go from 1 to 4. Requests and definitions are interchangeable, hence symmetry.
* *Webhook.* Three signed deliveries of a nonce, two for one trigger and one for
  another, pass the check together, conflict and come late, and two purges let it be
  spent three times. The delivery with the wrong signature has the same nonce, the one
  of the second nonce must not be touched by all this. Two deliveries are alike, hence
  symmetry.
* *CRON.* A second process, and requests that overlap in one; two faults are a
  restart and a call that fails.
* *Accounts.* Requests start over, so that two are any number one after the other
  and any two at once. Three users are two ADMINs and one they fight over, or an
  email in two tenants and a third account that takes it. EDITOR passes the same
  guards here as VIEWER. Requests, users, tenants and emails are interchangeable.

`CHECK_DEADLOCK FALSE` stands where the requests, the time or the ids of an instance
are used up, a run has ended or a verdict is given, and the system may stop. Only in
`health_cache` can requests always arrive, and deadlock is checked.

### Fairness

Safety needs none. Liveness assumes only what the runtime does by itself:
handlers in progress go on, a free worker takes a waiting job, Bull's timer finds
stalled jobs (`ExecutionPipeline!Fairness`, `ExecutionEvents!EventFairness`); promise
reactions run, scripts end (vm2 stops them after 5 s) and timers fire
(`WorkflowExecutor!Fairness`, `StepData!DataFairness`); a request
under way goes on and keys with an expiry expire (`HealthCache!Fairness`). Nobody
has to send a request, no server has to answer a step, no fault has to happen. All
of it is weak fairness.

### Where code and documents disagree

Three runs end in a counterexample on purpose; each states a sentence of the
documentation.

| Run | Sentence | What happens |
|---|---|---|
| `cancel_is_final` | `README.md:151` cancel PENDING or RUNNING | `handleRun` checks once, at line 37; a cancel after that is overwritten by `RUNNING` and by the verdict |
| `failed_job_is_marked` | `README.md:386` a failed job is marked FAILED | nothing listens to failed or stalled jobs; the row stays PENDING or RUNNING |
| `updates_create_versions` | `README.md:139` update creates a new version | after a rollback, `currentVersion + 1` exists and the unique index refuses every update |

Others, read off the code or seen in passing runs:

* `ai.service.ts:41` tells the language model to write a condition as
  `${{steps.fetch.output.status}} === 'active'`. Such a condition is always false:
  `variable-interpolator.ts:55` walks the path from the result of `fetch` by `fetch`
  again and finds nothing; and if it did, the word would be put in without quotes, as a
  name. `again` in the run `executor` is this condition; `ConditionsFollowData`
  promises something of a path between quotes that begins with the id, and of no
  other. Answers with quotes in them become code of the expression
  (`variable-interpolator.ts:19`).
* `README.md:43` has all queries scoped to a tenant; `login` takes the first user with
  the email in any tenant (`auth.service.ts:59`), and compares the password with that
  one's. Whoever shares an email with a user of another tenant may be refused with the
  right password: `LoginRefusals` says who. `updateProfile` compares emails with all
  tenants (`auth.service.ts:151`), the nonces of webhooks are those of all tenants
  (`trigger.service.ts:187`): a sender whose nonce another tenant's sender has used gets
  409 for a message that nobody received.
* `README.md:184` says that duplicates get 409; the second of two deliveries that
  pass the check of `trigger.service.ts:187` together fails in line 195 with 500.
* `INFRASTRUCTURE.md:41` has a lock that prevents duplicate cron firings; no process
  takes one, and each schedules all active triggers (`trigger.service.ts:32`,
  `README.md:388` admits it).
* `README.md:143` lets ADMIN and EDITOR execute a workflow, `workflow.controller.ts:96`
  VIEWER too.
* `README.md:371` has one row per step and execution; a redelivered job writes a
  second batch, which is what `LogsBounded` bounds.

## 4. What is proved

The theorems hold for every value of the constants that meets the module's
assumption: `PipelineAssumption` (finitely many workers), `ExecutorAssumption`
(layers put dependencies first — discharged by `SortedIsExecutable`),
`StepDataAssumption` (paths and guards name earlier layers, and no step is called
`none`), `DagAssumption` (finitely many ids), `CacheAssumption`, `MetricsAssumption`
(finitely many executions, an hour has parts and a day hours), `VersionsAssumption`, `WebhookAssumption`
(finitely many deliveries), `CronAssumption`, `AccountsAssumption` (there is a role
ADMIN, and nothing that is absent is a user, an email or a role). The bounds on faults are
arbitrary there.

* **`ExecutionPipelineProofs`.** `TypeOK` is inductive with `JobInv`, a conjunction
  for each execution: a job is there only after its insert (`NotYetCreated`), it is
  enqueued once (`EnqueuedOnce`), a lock is held by a worker that runs the job
  (`LockHeld`), and the stalled counter of a job that may still be delivered is
  within bounds (`StallBounded`). `LogsBounded` rests on counting:
  batches written, handlers still to write and deliveries to come add up to at
  most `MaxStalled + 1`, as each delivery pays for one batch. The same count lets
  `PipelineImplementsLife` take up an execution: its delivery has a batch to spare that none of
  the runs under way is going to use. The rest of the refinement goes action by action; all
  ways in which a worker stops without a result are one lemma, `StoppingDrops`. `CompletedIsSettled`
  needs `SoloInv`: as long as handlers of an execution have not overlapped, an
  active one is the only one, and the row is settled by the time it reaches `ack`.
  `CancelSticks` is an action property shown step by step: only a handler past the
  check of line 37 writes to a row at rest. For the announcements `ToldInv` follows
  `told` and `ended` from `Execute` to `ack`: a handler alone at work has announced
  what it is going to write, and told what it has written. This is an invariant of
  `EventSpec`, and uses those above through `EventRunsAreRuns`. `AnnouncedInv` is
  about runs without faults: handlers hold their locks, so no job comes back and
  nobody has announced anything before the one handler does.
* **`WorkflowExecutorProofs`.** `IInv` says what is known of each step from the
  layer counter (`LayersInv`), of each attempt, result and report; the strength
  needed is that all layers before the current one are settled and good as long as
  the run goes on, and stay settled after. `LogInv` adds what the processor may
  have read. `RunsAreSchedules` maps each action to a step of `DagSchedule` or to
  a stutter; `Advance` is the one `Start`. For `OneBranch`, `BranchInv` says that a
  guarded step took its turn by the global its condition had written by then;
  layers put that before, and the global is not written again. For
  `ConditionsFollowData` and `EarlierInputs` (the input of a script has exactly the
  outputs of earlier layers that there are) `SettledStays` is enough: what a
  step reads of earlier layers has settled, and stays so. `ScriptsSeeWhatCameBefore`
  names the outputs by the graph: what lies before a step is the smallest set
  closed under dependencies (`Reach`). `AncestorsAreEarlier` uses that the earlier layers
  are such a set, `SearchFindsAncestors` that the search of the previous data step
  does not leave the ancestors; `PreviousInv` is what is known of that step in a run.
  `TurnsAreBounded` counts the turns of the event loop: `TurnsOf` gives each step two for
  each attempt it has left, `OthersLeft` counts the layers, the end of `executeLayered`,
  the report and the logs, and each action lowers the sum (`StepUsesTurn`, `OthersUsed`).
  Only here is the set of steps assumed to be finite, as it is in what was parsed.
* **`DagValidationProofs`.** For the search: the steps on the stack are the gray
  ones and form a path, no edge leads from black to white, and an acyclic set of
  black steps stays acyclic (`DfsInv`). For the sort: `inDegree` counts the
  parents not yet visited, and what is visited is closed under parents (`SortInv`).
  Together: the search finds a cycle exactly if there is one, and then the sort
  visits everything. `TurnsAreLinear` counts the turns of both: a call takes a white
  step, a turn of the loop an edge that is still owed, and no step is visited by the
  sort twice (`Counted`); from `4 * steps + edges + 3` each action goes down by one at
  least. For the search this needs no more than that calls are at steps with a color
  (`Entered`), so it holds for cyclic definitions too.
* **`HealthProofs`.** For the cache, `FillersInv`: each request that fills it holds the lock or
  has lost it to an overrun that was counted, so that they are at most one more
  than the overruns, and no more than these if none of them holds the lock. Without
  overruns this leaves one that fills it at a time (`OneFills`), so what it is about to
  store is no older than what is cached (`ForwardInv`, `CacheIsForward`).
  `StaleExplained` is inductive. For the metrics, `MetricsInv` has three parts. Each
  answer is that of a table which agrees with the
  present one but for the executions in `moved` (`ActiveInv`, `CountsInv`, `HourlyInv`; such a
  table exists for each query on its own, as they are no transaction). Until the hours are
  answered, the loop is at its start (`FreshInv`). After that,
  the loop has put what it has read into chart and totals, a bar for the latest
  hour of its key (`ChartInv`). The numbers follow by counting: two sets that differ
  in `moved` only have sizes that near (`NearSizes`); a day later is the next hour
  with the same key, so what a bar has lost is from the hour in which the window starts
  (`KeysRepeat`); and sums over hours and bars are sizes of disjoint unions, added up
  one part at a time as the loop goes (`PartsAddUp`).
* **`WorkflowVersionsProofs`.** Versions are dense from 1 to the newest, and those
  that the workflow and its executions name exist (`RowsInv`); the definition that
  a rename is about to store is that of a version no older than the current one
  it has read (`RenameInv`), so the unique index refuses it or it is the newest.
  With these, each commit is one step of `VersionHistory`, with the versions in a row
  as the history, and each read a stutter.
* **`WebhookDeliveryProofs`.** A nonce is a token: `CountInv` adds executions and
  deliveries about to start one, and bounds the sum by the times the row was
  taken; `RowInv` explains every row that is there by the one delivery that has stored
  it, which has made an execution, is about to, or has failed, and `WaitInv` says that a
  delivery which comes to the check is not that one: `RefusedForAnother` follows.
* **`CronTriggersProofs`.** While a process keeps track of a trigger, one request at
  most is under way for it, and the process itself handles it; how far it has come
  says how row, task and map entry differ (`AgreeInv`). `HandledInv` and
  `CascadeInv` carry this through restarts and the deletion of the workflow.
* **`AccountsProofs`.** `JobOK` says what a request knows by the step it is at: once
  found, its target is of its tenant or gone, for users do not change tenants and
  ids are not given twice. `FreshOK` says that what it has checked still holds if
  it was not overtaken. `RowsInv` is the unique index on tenant and email, and that
  of two users who share an email one was never compared with the other tenant.
  The four action properties follow action by action.

Liveness (`JobsEnd`, `FaultFreeSettles`, `Returns`, `Drains`, `Ends`,
`CacheRecovers`, `CacheConverges`) is model-checked only: it needs fairness and
ENABLED, which the prover does not support. Every other property of the passing runs
is a theorem. Of `Ends`, `Returns` and `Drains` one half is proved: by `TurnsAreLinear` and
`TurnsAreBounded` no behaviour goes on for ever, and what is left to TLC is that fair
ones do not stop too early. These two and `CacheIsForward` are properties of no run; TLC finds
them true on the instances of `validation`, `executor` and `health_cache`, and
`CacheIsForward` false there without its condition on overruns. What is proved of the numbers is about the model's sums, sets counted
by `Cardinality` and totals that grow by a row at a time; that `SumMs`, a fold of the
library, adds up the durations is not, and no property depends on it.

## 5. What is not modelled

* What a step sends, computes or waits for: its outcome is any outcome of its kind,
  and its answer a word that conditions can tell, or anything else. Expressions other
  than the comparison of one path with one word, templates as text, and what a
  script does inside the sandbox, including writes to globals.
* `validateStepConfig` and the checks of name and type of a step: they add errors
  that depend on one step only.
* The rates and the average of `computeMetrics`: quotients of the totals that
  `HealthMetrics` has, without state.
* Joining the rooms of the gateway and the events of single steps: nothing in the
  program reads them back.
* The AI generator: a stateless call to a language model, followed by `parseDag` and
  `validateDag`, which `DagValidation` models. The application shell: wiring.
* Read-only endpoints, names and descriptions, passwords and their hashes.
* Durations: timers may fire at any moment, so an order that only a large timeout
  would exclude is included.

Three boundary cases of single calls are known and not in the list of hazards, as
no order of events matters to them: `timeout-handler.ts:21` hands a timeout above
2^31 - 1 ms to `setTimeout`, which takes it for 1 ms; `dag-validator.ts:39` iterates
`step.dependsOn` without the default that `parseDag` gives it (`DagValidation.Throw`);
waiters that reach their deadline compute the metrics without the lock
(`health.service.ts:133`, `HealthCache.Direct`): nothing bounds how many, and
`FillersBounded` does not count them, as they leave the cache alone.

## 6. Plan

Done, in this order: `ExecutionPipeline`, `WorkflowExecutor` with `DagSchedule`,
`DagValidation`, `HealthCache`, `WorkflowVersions`, `WebhookDelivery`,
`CronTriggers` and proofs of each; then `VersionHistory` and the refinement,
`Accounts` with proofs, `HealthMetrics`, `StepData`, `ExecutionEvents`.

Since then `ExecutionLife` and its refinement, proofs for `HealthMetrics`, and what lies before a
step as a closed set instead of a recursion, so that `StepData` could be proved about. Then
the bounds on turns of the executor, the search and the sort, and the order of cached values.

What could follow:

1. An abstract specification of a cache with one filler that `HealthCache` implements
   while no lock overruns.
2. The pipeline composed with `WorkflowVersions`: the version an execution runs is
   the one that was current at some moment of its request.

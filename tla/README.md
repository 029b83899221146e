# RelayFlow in TLA+

RelayFlow stores workflows (a trigger and up to 20 steps), starts executions of
them from API calls and webhooks, and runs the executions in worker processes
behind a BullMQ queue. This directory models the execution engine with its
retries, the steps it runs, the requests that create and enqueue executions
behind a rate limit, the edits of a workflow that race with them, and the users
and credentials in whose name all this happens. TLC checks the models on small
instances; TLAPS proves the theorems listed below for every value of the
constants.

    tlc -workers 2 -config engine_crashes.cfg MCWorkflowExecution
    tlapm WorkflowExecutionProofs.tla

## The system

| Component | State it keeps | Operations | Talks to |
|---|---|---|---|
| Workflows API (`workflows.service.ts`) | `Workflow` row: status, definition, version, webhook token | create, update, activate, pause, reads | PostgreSQL |
| Executions API (`executions.service.ts`) | `Execution` rows | runManual, reads | PostgreSQL, queue capacity, queue |
| Webhooks API (`webhooks.service.ts`) | `Execution` rows, keyed by idempotency key | receive | PostgreSQL, rate limiter, queue capacity, queue |
| Rate limiter (`rate-limit.service.ts`) | Redis counter with an expiry | consume | Redis |
| Queue capacity (`queue-capacity.service.ts`) | none | hasCapacity | BullMQ counts |
| Queue (BullMQ, `queue.module.ts`) | jobs: state, lock, attempts, stalled count | add, hand out, settle, retry after a backoff, take back | Redis |
| Worker processor (`workflow-execution.processor.ts`) | status, error, end of the `Execution` row | process | PostgreSQL, engine |
| Workflow engine (`workflow-engine.service.ts`) | `StepExecution` rows, loop variables | execute, the three kinds of step | PostgreSQL, HTTP |
| Credentials, encryption | `Credential` rows | create, list, remove, decrypt | PostgreSQL |
| Authentication | `User` rows | register, login, guard | PostgreSQL |
| Health, wiring, configuration, observability | none | | |

What makes each of them correct, and what makes that hard:

* **Engine and processor.** A step with a recorded result is not run again; data
  flows from step to step also across retries; SUCCEEDED means that every step
  ran or that a filter stopped the workflow; row and job agree at the end. Hard,
  because a worker can die, and a database call can fail, between any two of the
  calls, because an acknowledgement can be lost, and because BullMQ hands a job
  out again whose lock has expired, so that two calls run at once.
* **Triggers.** One idempotency key is one execution and at most one job; the
  queue does not outgrow its limit without bound; an answer is the truth. Hard,
  because lookup, capacity check, insert and enqueue are four calls to two
  systems, and there is no transaction over them.
* **Workflow row.** A version names one definition; a snapshot is a version; a
  token exists exactly for the webhook trigger; the status moves along its
  path. Hard, because every operation reads first and writes later.
* **Rate limiter.** Less than twice the limit in any stretch of a window's
  length; no counter without an expiry; a refused client is told when to come
  back. Hard, because the window is fixed, and moves between the deliveries.
* **Steps' data.** A retry reads data back from JSONB, which reorders the keys of
  objects: filters must decide, and results differ in their order at most, as if
  it had not. A template that renders an object into a string shows it.
* **HTTP step.** A token goes to its owner's request and to the step's own
  origin; an effect happens once per attempt; an attempt ends. Hard, because
  servers redirect as they like and credentials are removed meanwhile.
* **Authentication.** A registration that was acknowledged lasts, whatever other
  registrations of its address race with it. Hard, because `register` checks
  first and inserts later.

## The modules

| Module | What it is |
|---|---|
| `BullJob` | the record of one BullMQ job and the operators that move it; external, from how `queue.module.ts` and the processor use it |
| `WorkflowExecution` | `process` and `execute` for one execution, by any number of concurrent processor calls |
| `StepLedger` | the abstract specification of an execution: in-order, write-once results, then an outcome |
| `TriggerApi` | `runManual` and `receive` for one workflow, the `Execution` table and the queue between them and the workers |
| `RequestLedger` | the abstract specification of the requests: one execution for a key, queued once by its own request, and what clients are told |
| `Workflows` | one `Workflow` row and the calls that edit it and take snapshots of it |
| `RateLimit` | the counter of one workflow in Redis, its expiry, and a client that was refused |
| `RelayFlow` | `Workflows`, `RateLimit` and `TriggerApi` put together: one workflow as its owner and its clients see it |
| `StepFunctions` | `executeTransform`, `executeFilter`, `resolveInputPath` as operators on JSON values, trees given by the node at each path, and what JSONB does to a value |
| `RetriedData` | one list of steps run on data that was handed on in memory and on data that was read back |
| `Accounts` | the `User` table and `register`, by any number of calls |
| `Credentials` | the `Credential` table, for users that have registered |
| `HttpStep` | the attempts of one HTTP step: credential, URL check, redirect loop |
| `AccountUse` | `Accounts`, `Credentials` and `HttpStep` put together |
| `MC...` | small values for TLC, symmetry |
| `...Proofs` | the theorems, each module extending the one it is about; those of the engine are a chain: `WorkflowExecutionProofs`, `WorkflowResultsProofs`, `StepLedgerProofs` |

`WorkflowExecution` extends `BullJob`; it instantiates `StepLedger` as its
abstraction, and `TriggerApi` instantiates `RequestLedger` as its own. The two
meet at the queue: `TriggerApi` has workers that start and finish a job
without faults of their own, `WorkflowExecution` starts with a job that has been
added. `ImplementsWorker` is the joint: it maps one execution of the engine to a
row and a job of `TriggerApi` (started once the first attempt has, ended when the job
settles), and says that without faults the whole engine, its retries included,
does to them what `Start` and `Finish` do.

`RelayFlow` extends `Workflows` and `RateLimit` and instantiates `TriggerApi`: a
call reads the row with `ReadForManualRun` or `ReadByToken` of `Workflows`, a
delivery is counted with `Consume` of `RateLimit`, what was read and counted
decides about `Receive` of `TriggerApi`, and `Create` of `TriggerApi` and
`CreateExecution` of `Workflows` are one action. Its components do not fail
there. It is built from the actions of its parts, so that it implements
`Workflows` and `TriggerApi` holds by construction and is no result of its own
(two lemmas of `RelayFlowProofs` say so); `AnswersAreOfAVersion` relates the
answers of the one module to the versions of the other.

`Credentials` extends `Accounts`, `HttpStep` extends `Credentials`, and `AccountUse`
puts their actions together: a user that has registered creates and removes
credentials while a worker makes the attempts of a step.

### State and actions

One action is one awaited call and the synchronous code around it: between two
awaits nothing else of the same process runs, and at an await everything may.

`WorkflowExecution`. `steps` and `payload` are the immutable snapshot;
`execution` has the columns the worker writes; `stepExecution` has one row per
step id (ABSENT before `createMany`); `job` is the BullMQ job. `pc[w]` is the
call that slot `w` makes next, `index`, `currentData`, `fresh` and `attemptsMade`
are its local variables, and `ran` counts how often each step was executed.

| `pc` | Code | Actions |
|---|---|---|
| idle | a free slot of `concurrency: 5`, in any process | `Take` |
| begin | `execution.findUnique`, update to RUNNING | `Begin` |
| create | `stepExecution.createMany`, skipping duplicates | `Create` |
| read | `stepExecution.findUnique` at the loop head | `ReadSucceeded`, `ReadUnfinished` |
| start | update to RUNNING with the input and the attempt | `Start` |
| exec | `executeStep` | `ExecuteStep` |
| save | update to SUCCEEDED with the output | `SaveResult` |
| skip | `updateMany` of the remaining PENDING rows | `Skip` |
| fail | update to FAILED in the inner catch, rethrow | `RecordStepFailure` |
| succeed | update of the execution to SUCCEEDED | `Succeed` |
| catch | update in the catch of `process`, rethrow | `RecordAttemptFailure` |
| complete, throw | BullMQ settles the job if the call still holds its lock | `Settle` |

`DbError` makes any of the database calls throw, with or without its effect, and
`Handler` says which catch receives it: that is where the nesting of the code's
try blocks is. `Crash` ends a call; `LockExpires` is the stalled-job check.

`TriggerApi`. A request creates at most one execution, so executions are named by
requests. `pc[r]` walks through lookup, capacity, create, recover (the P2002
branch), add and undo (the catch of `queue.add`). `runManual` is a request
without a key: from the capacity check on the handlers are the same calls.

`RateLimit`. `count` and `ttl` are the key's value and what is left of its expiry;
`Consume` is the script, `Tick` is time, finer than seconds because `TTL` rounds
to them. `recent` and `waiting` are history: the requests let through in this
tick and the ticks before it, up to a window's length, and one refused client.

`HttpStep`. `at` is the next call of the attempt: `credential` is `findFirst` with
the decryption after it, `validate` is `validateHttpUrl`, `fetch` is a request of
`safeFetch`'s loop, `redirect` the check of a `Location`. `bearer` is the token in
the headers; `sent` and `goneBefore` are history.

`Accounts`. `pc[c]` is the next call of a registration, `findUnique` or `create`.

`RetriedData`. `unretried` and `retried` are `currentData` of two executions that get
the same payload and responses; after each step the second one may have been
read back from its column.

`Workflows`. A call reads the row into `seen`, decides, and writes in a second
action; `published` is the history of definitions.

### Abstractions

* Data is a set of values that templates and filters tell apart; a template is a
  function on it, a filter a predicate; a request returns any value or throws.
* Step, workflow and execution ids, tokens and keys are model values or strings;
  names, timestamps, logs, spans and error texts are left out.
* The snapshot and the payload were validated when they were saved, so that
  parsing them again does not fail. Execution rows are never deleted.
* BullMQ is modelled by its documented use: a job has one lock holder, a failed
  attempt is retried until the attempts are used up, a stalled job is taken
  back without counting as an attempt and fails when it stalls more than once
  (the library's default). In `TriggerApi` "active" covers all attempts of a
  job and the backoffs between them.
* Before the lookup or the capacity check `TriggerApi` may refuse a request for
  any reason; in `RelayFlow` the workflow, its status and the rate limit are the
  reasons. `MaxInFlight` bounds the requests handled at one time; the code has no
  such bound, and `OvershootIsBounded` says what it depends on.
* A JSON value is a function from the paths inside it to nodes; an object's node
  has its keys in order. `JsonbOrder` is the order JSONB gives each set of keys:
  what is checked and proved depends only on its being one order for each set.
  Properties every JavaScript object inherits, and keys that look like integers,
  are left out.
* A hash stands for the password it was made of, a sealed credential for its
  data, a token for the user it was signed for. POST stands for every method but
  GET. URLs are their origins, and `Refused` is what `validateHttpUrl` refuses at
  sight; any name may fail to resolve. What `fetch` connects to is not modelled:
  a name can resolve anew between the check and the connection.
* The response's body is read in the action that receives the response.

## The runs

| Run | Faults | Bounds | Shows |
|---|---|---|---|
| `engine_crashes` | crash, failing calls | 2 slots, 0 to 3 steps, 2 attempts | data flow, attempt counts, final results, `StepLedger` |
| `engine_lost_acks` | none, or crash, failing calls and lost acknowledgements | the same | SUCCEEDED is true, completed means SUCCEEDED, jobs settle; without faults filters stop, job and row agree, and the engine is `TriggerApi`'s worker |
| `engine_all_faults` | and lost locks | 2 slots, one request, or a transform and a filter in either order | types, bounded runs, FAILED only when given up, pure steps repeatable, every step comes closer to the end |
| `trigger_faults` | all of API, database, queue | 3 requests, 1 key, depth 1, 2 in flight | idempotency, at most one job per key, backpressure; refusals, ends and answers are kept, a lost acknowledgement of `queue.add` leaves no row unsettled; `RequestLedger` |
| `relayflow` | interleaving | 3 calls, limit 2, a window of 3 ticks, depth 1 | versions, snapshots, token, status path, rate limit, answers |
| `retried_data` | retries | 4 steps | filters decide alike, results differ in order at most, until a template renders an order into a string |
| `account_use` | failing calls, servers that answer anything | 2 registrations, 1 credential, 2 redirects, 2 attempts | accounts, tokens, origins, effects, attempts end |
| `filter_resumed`, `stalled_job`, `shared_step_id`, `orphaned_execution`, `activation_race` | one each | small | disagreements, below |

`FaultSets` makes a run check several sets of faults at once: `faults` is chosen
in `Init` and never changes.

Three steps are a first, a middle and a last one, so every relation between
neighbours occurs, with every combination of kinds and with the empty list.
Data of two values lets a template change what a filter decides. Two slots are
what it takes to have a call that has lost its job and one that has got it; a
third would stay idle, since a job that stalls twice fails and so no more than
two calls are ever alive at once. Two attempts are a first and a
final one, three (the code's value) have one that is neither. With a queue of
depth 1 and two in flight three requests reach the limit and exceed it, and one
key of three requests has a winner, a loser of the race and a redelivery. Three
calls on a workflow are one that reads, one that writes in between, and one
that sees the result. Three ticks are the coarsest clock on which `TTL` rounds
down; with limit 2 a window can be used up at its end and again at the start of
the next. The data of `retried_data` has an object nested in a response, whose
keys JSONB reorders, and templates that copy, render and drop it; four steps
have filters and templates behind a template behind the response. Two
registrations of one address or of two are a race and a stranger; two redirects
are one more than one, so that the limit is met behind a followed redirect.
`MaxCount` bounds the counter two above the limit, where one refusal follows
another. Symmetry is declared over slots, requests and calls, only in runs
without liveness properties.

Where a fault is missing from a run, the property does not hold with it or is
not promised. With lost acknowledgements a SUCCEEDED row may turn FAILED when
its save is taken for an error, so `RecordedResultIsFinal` and the refinement
are checked without; with a lost lock two calls can record results of two
requests. `FilterStops` and `FailedJobFailsExecution` are `StoppedIsFinal` and
`FailedIsReported` under the condition that nothing fails: two violation runs
show that one fault is enough against them. `RefusedNeverRuns` and
`SettledIsFinal` leave out the requests in `lostAcks`, whose `queue.add` has
thrown although the job was added, and `AnsweredIsSettled` those that
`EndsOrWasCutOff` names; `orphaned_execution` shows what happens to those. A
request in `lostAcks` is run although its row said "Failed to enqueue
execution" and its client was told so; `UnqueuedSettles` and `KeyRunsOnce`, which
except nobody, say that its row ends nevertheless and its key runs once. The
workers of `TriggerApi` have no faults of their own, and the properties of an
execution's end depend on it: a job that is handed out again reopens a SUCCEEDED execution in `WorkflowExecution`, and a stalled one may
leave its row unsettled (`stalled_job`). `RetryIsInvisible` says nothing of what
follows a template that renders an object or array whose order JSONB changes
into a string: there a retry can be seen. `AttemptCoversRuns` is checked with
renewed locks: with a lost one, two runs can be counted as one attempt.
`TokensStayWithTheirOwner` is about the attempts that begin after a removal; the
redirects of an attempt that has read the credential still send it.

Finite runs end in the self-loop `Finished` or `Quiet`, whose guards say that
nothing is left to do, and time always passes in `relayflow`, so deadlock is
checked everywhere.

### Disagreements with the documentation

* `filter_resumed`: a filter did not match, its row is SUCCEEDED, the rest
  SKIPPED, and then the write that marks the execution SUCCEEDED fails. The
  retry continues behind the filter's row (`workflow-engine.service.ts:87`) and
  runs the skipped steps. README: FILTER "Stops the workflow when a condition
  does not match." The model checker needs one failing call for it.
* `stalled_job`: a job whose worker dies twice is failed by BullMQ itself, and
  the execution never becomes FAILED. It keeps the status it had: QUEUED in the
  shortest trace, where both workers die before they write RUNNING, and RUNNING
  if one dies after it. README: an execution ends "SUCCEEDED / FAILED".
* `shared_step_id`: two steps with one id share a row, the second is never run,
  and the execution is SUCCEEDED. README: "Each step has its own execution state".
* `orphaned_execution`: the API dies between `execution.create` and `queue.add`;
  the execution stays QUEUED, and each redelivery of its key is answered with
  it. README: "The execution is then queued in BullMQ."
* `activation_race`: an update empties the steps between the read and the write
  of `activate`. Error message: "Workflow must have at least one step before
  activation".

## Fairness

A live worker goes on with its call (`WF` of each slot's `Run`): Node resumes an
awaited call that has been answered, and every database call answers or throws.
Some worker takes a waiting job, and the timers of the queue fire: these are the
queue's own promises. No fault is obliged to happen and none is excluded for
ever; `JobSettles` holds without such an assumption because attempts and stalls
are bounded: `EveryStepComesCloser` says that each step of the engine uses up
one of the job's moves or one of a call's calls, of which it has finitely many,
so fairness is needed only for the next step to be taken. A live API process
goes on with a request, and workers with jobs; no client is obliged to send
anything. In `AccountUse` the worker goes on with an attempt, so that `fetch`
comes to an end: it has no timeout of its own, but Node's waits for a response's
headers for a limited time. No attempt is obliged to begin. `Workflows`,
`RelayFlow` and `RetriedData` have no fairness: they have safety properties
only.

## The proofs

All theorems are for any finite or infinite number of slots (any finite number of
requests), any definitions, data and limits.

| Module | Theorems | Assumption beyond those on the constants |
|---|---|---|
| `WorkflowExecutionProofs` | `TypeCorrect`, `GivenUpLast`, `RunsAlwaysBounded`, `AlwaysComesCloser` | none: every fault |
| | `Exclusive`, `AttemptsAlwaysCover` | no lost locks |
| | `ResultIsFinal` | no lost locks, no lost acknowledgements |
| `WorkflowResultsProofs` | `PureStepsAlwaysRepeat` | none: every fault |
| | `FiltersStopWithoutFaults`, `FailuresAgreeWithoutFaults`, `EngineIsTheWorker` | none; the properties are about executions without a fault |
| | `InputsAlwaysFollow`, `CompletionAgrees`, `SuccessIsComplete` | no lost locks |
| `StepLedgerProofs` | `ExecutionImplementsLedger` | no lost locks, no lost acknowledgements, distinct step ids |
| `TriggerApiProofs` | `TypeCorrect`, `Backpressure`, `Idempotent`, `AtMostOnce`, `HandlersImplementLedger` | none: every fault |
| | `RefusalsAreTrue`, `EndsAreFinal` | none; the properties leave out a `queue.add` that throws after it has added, and the module's workers have no faults |
| `WorkflowsProofs` | `TypeCorrect`, `VersionsCount`, `SnapshotsAreVersions`, `TokensMatch`, `StatusMoves` | none |
| `RelayFlowProofs` | `SystemSnapshots`, `CounterAlwaysExpires`, `RetryAfterIsHonest`, `LoadStaysBounded`, `AnswersKeepToVersions`, `SystemIdempotence` | none |
| `RetriedDataProofs` | `DataIsAlwaysValid`, `RetryShowsInTextOnly`, `OrderIsAlwaysFetched` | none |
| `AccountUseProofs` | `RegistrationAlwaysSticks`, `TokensAlwaysStay`, `RequestsAlwaysStay`, `EffectsAlwaysHappenOnce` | none |

* *Types of the engine.* `TypeOK` is inductive because it says more than types: a
  call in the loop has an index of the definition, a SUCCEEDED row has an
  output, and an unsettled job has an attempt and a stall left. One lemma per
  way to change state (a write, a loop step, a return, a job's move) shows that
  it keeps its part, and the step lemma puts them together action by action.
* *Exclusive.* Inductive given the types: the lock is given to the slot that
  takes the job and taken only when its holder has settled or died.
* *GivenUpLast.* Needs `AttemptsKnown`: what a call was told of its job's
  attempts never exceeds what the job says now. With it, a call that writes
  FAILED has a job with no attempt left, even if another call has the lock.
* *ResultIsFinal.* Needs `RowAtCall`, which says what the row of a step looks like
  at each call of a processor that works on it; by exclusiveness nobody else
  changes it between them. The exception in the property is the filter whose
  skip failed.
* *RunsAlwaysBounded.* Needs `RunsPaidFor`: the runs a step has had, and the
  calls that may still run it, are no more than the times the job was handed out;
  these are bounded by attempts and stalls. It counts calls, so it needs no lock.
* *AlwaysComesCloser.* A lexicographic argument made of two counts. `MovesLeft` is
  three moves for each handout the job may still have (`Handouts` counts them, and
  the types bound them); `CallsLeft` is what a processor call has left of its walk
  through the loop and the catch blocks, at most four calls for each step. A move
  of the queue may give a slot its calls, and a call only ever spends its own.
* *AttemptsAlwaysCover.* The first start of a row leaves its counter at 1, every
  later one raises it: a row that has not been started must not have run
  (`AttemptsCounted`). By exclusiveness what a call has read of the row is still
  true when it starts the step.
* *InputsAlwaysFollow, CompletionAgrees, SuccessIsComplete.* `InOrder`: what was
  started has its predecessors recorded, and nothing has been started above the step a
  call is at. `ExecutionAtCall`: what the execution's row says at each call.
  `Ends`: what holds of the rows where a call is about to return, which is all a
  SUCCEEDED execution can come from.
* *PureStepsAlwaysRepeat.* `DataIsPure`: whatever is written over a recorded input
  or output is equal to it, so two calls at once do no harm.
* *FiltersStopWithoutFaults, FailuresAgreeWithoutFaults.* `NoFaults`: no stall has
  been counted and a call knows its job's attempts; behind a filter that stopped, a
  call is about to return or its job is completed.
* *EngineIsTheWorker.* `Begun`: from its first attempt to its end the execution has
  left QUEUED, whoever works on it. With `NoFaults` and the agreement of row and job
  at the end, every step is `Start`, `Finish` or a stutter of `TriggerApi`.
* *ExecutionImplementsLedger.* Each step is a `Record`, `Withdraw`, `Succeed` or
  `Fail` of the ledger or leaves it alone; the invariants above give each its guard.
* *Backpressure.* Needs `InFlightBounded`; a request that passes the check sees
  fewer live jobs than the depth, and the others on their way are fewer than the
  requests in flight.
* *Idempotent, AtMostOnce.* From `KeyIsUnique` (the index) and `AnswersExist`
  (an answer names a row with the request's key).
* *HandlersImplementLedger.* `HandlersStand`: a handler has answered exactly when it
  is done, and looks up or recovers only with a key. With the types, each action
  is a `Create`, `Queue`, `Find` or `Refuse` of the ledger or leaves it alone.
* *RefusalsAreTrue, EndsAreFinal.* From `RowsAgree`: what a row says, whether it
  has a job, and where its request stands.
* *Workflows.* From `Consistent`: the row and everything a call has ever read are
  versions that were published, and a call on its way to pause has seen the
  workflow past DRAFT.
* *RelayFlow.* Every action of the composition is one of the component's or
  leaves its variables alone, by the way it is written; the two lemmas that say
  so carry over what is proved of `Workflows` and `TriggerApi`.
  The rate limit has an invariant of its own:
  `WaitsForItsWindow`, a refused client's wait is what is left of the window but
  for half a second.
* *AccountUse.* `OwnsItsRow`: the row of an acknowledged registration is its own
  one; the insert needs the address to be free. `TokenHeld`: the token in the
  headers is that of a credential that was its owner's when the attempt read
  it. `LoopPosition`: as many requests were sent as redirects were followed, all
  from the step's origin.

* *LoadStaysBounded.* `LoadByWindow` bounds, for every age, what was let through
  since the tick of that age by the open window's count and the one before it: the
  first request of each window is at least a window older than the first of the
  next, so a stretch of a window's length misses one of the two.
* *AnswersKeepToVersions, SystemIdempotence.* The invariants proved of `TriggerApi`
  are inherited through an instance of its proofs: an answer names a row, with the request's key. `RowsAreSnapshots` ties
  `TriggerApi`'s row to the snapshot of `Workflows`, and says that a call with a
  key has read a definition with a webhook trigger before it inserts; that the
  snapshot is a version is inherited from `Workflows`.
* *RetriedData.* `SameData`: the retried execution's data is the other one's, read
  back or not. Three lemmas do the work: following a path and reading back
  commute, a filter compares no objects and so never sees an order, and a
  template's output has the template's order. Trees are functions on paths and
  not recursive records, so that no lemma needs an induction over data.

Only model-checked is liveness: `JobSettles`, `AnsweredIsSettled`,
`UnqueuedSettles` and `AttemptsEnd` need fairness, hence ENABLED, which is out of
the prover's reach, as is induction over data. Of `JobSettles` the safety half is
proved: that the steps run out (`AlwaysComesCloser`). With `EngineIsTheWorker` it
is also how an execution without faults ends SUCCEEDED or FAILED. Every invariant
and every other property of a passing run is stated by a theorem.

## Not modelled

Health checks, wiring, configuration and tracing keep no state the properties
depend on. Hashing, ciphers and JSON web tokens are libraries' work: a token's
expiry only ends what it allows. The addresses behind a name, a second lookup
by `fetch` and bodies that arrive slowly are outside; so are the replacement of
the encryption key and the names of workflows and credentials. `findAll` and
`findOne` are reads without an effect.

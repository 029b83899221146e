------------------------- MODULE WorkflowExecution -------------------------
(***************************************************************************)
(* One workflow execution from the moment its job is in the queue until    *)
(* the job has settled: WorkflowExecutionProcessor.process and             *)
(* WorkflowEngineService.execute, run by any number of concurrent          *)
(* processor calls against the execution's rows in PostgreSQL.             *)
(*                                                                         *)
(* Every database call of the code is one action, because the code awaits  *)
(* it and other calls run in between.  pc[w] names the call that processor *)
(* call w makes next; "idle" is a free slot.                               *)
(***************************************************************************)
EXTENDS BullJob, Sequences, FiniteSets

CONSTANTS
  Workers,      \* slots for concurrent processor calls, over all processes
  StepIds,      \* the ids a workflow's author may give to steps
  Values,       \* WorkflowData, as far as templates and filters tell it apart
  NoData,       \* SQL NULL in a JSON column
  Definitions,  \* the step lists of the workflow snapshots considered
  FaultSets     \* the combinations of FaultKinds considered

StepTypes == {"TRANSFORM", "FILTER", "HTTP_REQUEST"}

\* template and passes are what executeTransform and executeFilter compute
\* from the step's config; neither reads anything but the step and its input.
WorkflowStep == [id : StepIds, type : StepTypes,
                 template : [Values -> Values], passes : [Values -> BOOLEAN]]

(***************************************************************************)
(* crash     a worker process dies between two calls                       *)
(* dbError   a database call throws and leaves the database as it was      *)
(* lostAck   a database call throws although its write was committed       *)
(* lockLoss  a live worker fails to renew its job lock in time             *)
(***************************************************************************)
FaultKinds == {"crash", "dbError", "lostAck", "lockLoss"}

ASSUME DefinitionsAreSteps == Definitions \subseteq Seq(WorkflowStep)
ASSUME FaultsAreKnown == FaultSets \subseteq SUBSET FaultKinds
ASSUME NullsAreDistinct == NoWorker \notin Workers /\ NoData \notin Values

VARIABLES
  steps,          \* Execution.workflowSnapshot.steps, never written again
  payload,        \* Execution.triggerPayload, never written again
  faults,         \* the faults that may happen, chosen once
  execution,      \* the columns of the Execution row that the worker writes
  stepExecution,  \* the StepExecution row of each step id
  job,            \* the BullMQ job
  pc,             \* the next database or queue call of each processor call
  index,          \* the loop variable of execute
  currentData,    \* currentData of execute (output of a step that has run)
  fresh,          \* existingStepExecution.status was PENDING
  attemptsMade,   \* job.attemptsMade in the Job object the call was given
  ran             \* history: how often executeStep was called for each step

snapshot == <<steps, payload, faults>>
locals   == <<index, currentData, fresh, attemptsMade>>
vars     == <<steps, payload, faults, execution, stepExecution, job, pc, index,
              currentData, fresh, attemptsMade, ran>>

ExecutionRow == [status : {"QUEUED", "RUNNING", "SUCCEEDED", "FAILED"},
                 error : BOOLEAN, finishedAt : BOOLEAN]

\* "ABSENT": createMany has not inserted the row yet.
StepRow == [status : {"ABSENT", "PENDING", "RUNNING", "SUCCEEDED", "FAILED", "SKIPPED"},
            attempt : Nat,
            input : Values \union {NoData}, output : Values \union {NoData}]

NoRow == [status |-> "ABSENT", attempt |-> 1, input |-> NoData, output |-> NoData]

(* The calls that go to the database, and the calls that go to the queue.  *)
DbCall == {"begin", "create", "read", "start", "save", "skip", "fail",
           "succeed", "catch"}
Pc == DbCall \union {"idle", "exec", "complete", "throw"}

Init ==
  /\ steps \in Definitions
  /\ payload \in Values
  /\ faults \in FaultSets
  /\ execution = [status |-> "QUEUED", error |-> FALSE, finishedAt |-> FALSE]
  /\ stepExecution = [id \in StepIds |-> NoRow]
  /\ job = AddedJob
  /\ pc = [w \in Workers |-> "idle"]
  /\ index = [w \in Workers |-> 1]
  /\ currentData = [w \in Workers |-> payload]
  /\ fresh = [w \in Workers |-> FALSE]
  /\ attemptsMade = [w \in Workers |-> 0]
  /\ ran = [i \in 1 .. Len(steps) |-> 0]

-----------------------------------------------------------------------------
Step(w) == steps[index[w]]
Row(w)  == stepExecution[Step(w).id]

IdsFrom(i) == {steps[k].id : k \in i .. Len(steps)}

Goto(w, call) == pc' = [pc EXCEPT ![w] = call]

\* A call's local variables die with it.
Return(w) ==
  /\ Goto(w, "idle")
  /\ index' = [index EXCEPT ![w] = 1]
  /\ currentData' = [currentData EXCEPT ![w] = payload]
  /\ fresh' = [fresh EXCEPT ![w] = FALSE]
  /\ attemptsMade' = [attemptsMade EXCEPT ![w] = 0]

\* Mutated: the loop stops one step early.
DropLastStep(w, i) ==
  /\ index' = [index EXCEPT ![w] = i]
  /\ Goto(w, IF i >= Len(steps) THEN "succeed" ELSE "read")

\* Mutated: the loop runs one step too far.
AdvancePast(w, i) ==
  /\ index' = [index EXCEPT ![w] = i]
  /\ Goto(w, IF i > Len(steps) + 1 THEN "succeed" ELSE "read")

\* The loop head: the next step, or the end of the loop.
Advance(w, i) ==
  /\ index' = [index EXCEPT ![w] = i]
  /\ Goto(w, IF i > Len(steps) THEN "succeed" ELSE "read")

\* Mutated: shouldContinue is ignored.
NeverStops(w) == FALSE

\* currentData is the filter's input: its output is its input.
StopsHere(w) == Step(w).type = "FILTER" /\ ~ Step(w).passes[currentData[w]]

\* Mutated: attemptsMade taken for the number of this attempt, or counted twice.
FinalOneLate(w)  == attemptsMade[w] >= MaxAttempts
FinalOneEarly(w) == attemptsMade[w] + 2 >= MaxAttempts

IsFinalAttempt(w) == attemptsMade[w] + 1 >= MaxAttempts

\* Mutated: a failing last write is ignored, or a failing skip goes back to the
\* save before it, as often as it fails.
IgnoreLastError(call) ==
  CASE call \in {"begin", "catch"} -> "throw"
    [] call \in {"save", "skip"}   -> "fail"
    [] call = "succeed"            -> "complete"
    [] OTHER                       -> "catch"
RepeatSave(call) ==
  CASE call \in {"begin", "catch"} -> "throw"
    [] call = "save"               -> "fail"
    [] call = "skip"               -> "save"
    [] OTHER                       -> "catch"

\* Which handler an exception thrown by a database call reaches: none of
\* process (the first two calls), the inner catch of execute (the calls
\* inside the step's try block), or the catch of process.
Handler(call) ==
  CASE call \in {"begin", "catch"} -> "throw"
    [] call \in {"save", "skip"}   -> "fail"
    [] OTHER                       -> "catch"
-----------------------------------------------------------------------------
(* What each writing call does to the database. *)

UpdateStep(w, row) ==
  /\ stepExecution' = [stepExecution EXCEPT ![Step(w).id] = row]
  /\ UNCHANGED execution

MarkRunning ==
  /\ execution' = [status |-> "RUNNING", error |-> FALSE, finishedAt |-> FALSE]
  /\ UNCHANGED stepExecution

CreateSteps ==
  /\ stepExecution' = [id \in StepIds |->
       IF id \in IdsFrom(1) /\ stepExecution[id].status = "ABSENT"
       THEN [stepExecution[id] EXCEPT !.status = "PENDING"]
       ELSE stepExecution[id]]
  /\ UNCHANGED execution

\* Mutated: attempt is not incremented.
StartUncounted(w) ==
  UpdateStep(w, [Row(w) EXCEPT !.status = "RUNNING", !.input = currentData[w]])

StartStep(w) ==
  UpdateStep(w, [Row(w) EXCEPT !.status = "RUNNING", !.input = currentData[w],
                               !.attempt = IF fresh[w] THEN @ ELSE @ + 1])

SaveStep(w) ==
  UpdateStep(w, [Row(w) EXCEPT !.status = "SUCCEEDED", !.output = currentData[w]])

SkipRemaining(w) ==
  /\ stepExecution' = [id \in StepIds |->
       IF id \in IdsFrom(index[w] + 1) /\ stepExecution[id].status = "PENDING"
       THEN [stepExecution[id] EXCEPT !.status = "SKIPPED"]
       ELSE stepExecution[id]]
  /\ UNCHANGED execution

FailStep(w) == UpdateStep(w, [Row(w) EXCEPT !.status = "FAILED"])

MarkSucceeded ==
  /\ execution' = [execution EXCEPT !.status = "SUCCEEDED", !.finishedAt = TRUE]
  /\ UNCHANGED stepExecution

\* Mutated: an attempt that will be retried puts the row back to QUEUED.
MarkRequeued(w) ==
  /\ execution' = [status |-> IF IsFinalAttempt(w) THEN "FAILED" ELSE "QUEUED",
                   error |-> TRUE, finishedAt |-> IsFinalAttempt(w)]
  /\ UNCHANGED stepExecution

MarkAttemptFailed(w) ==
  /\ execution' = [status |-> IF IsFinalAttempt(w) THEN "FAILED" ELSE "RUNNING",
                   error |-> TRUE, finishedAt |-> IsFinalAttempt(w)]
  /\ UNCHANGED stepExecution

\* The write that processor call w has pending.
Write(w) ==
  \/ pc[w] = "begin"   /\ MarkRunning
  \/ pc[w] = "create"  /\ CreateSteps
  \/ pc[w] = "start"   /\ StartStep(w)
  \/ pc[w] = "save"    /\ SaveStep(w)
  \/ pc[w] = "skip"    /\ SkipRemaining(w)
  \/ pc[w] = "fail"    /\ FailStep(w)
  \/ pc[w] = "succeed" /\ MarkSucceeded
  \/ pc[w] = "catch"   /\ MarkAttemptFailed(w)
-----------------------------------------------------------------------------
(* WorkflowExecutionProcessor.process and WorkflowEngineService.execute. *)

Take(w) ==
  /\ pc[w] = "idle"
  /\ job.state = "waiting"
  /\ job' = Acquired(job, w)
  /\ attemptsMade' = [attemptsMade EXCEPT ![w] = job.attemptsMade]
  /\ Goto(w, "begin")
  /\ UNCHANGED <<snapshot, execution, stepExecution, index, currentData, fresh, ran>>

\* findUnique returns the immutable snapshot; update marks the run.
Begin(w) ==
  /\ pc[w] = "begin"
  /\ Write(w)
  /\ Goto(w, "create")
  /\ UNCHANGED <<snapshot, job, locals, ran>>

Create(w) ==
  /\ pc[w] = "create"
  /\ Write(w)
  /\ Advance(w, 1)
  /\ currentData' = [currentData EXCEPT ![w] = payload]
  /\ UNCHANGED <<snapshot, job, fresh, attemptsMade, ran>>

\* Mutated: the recorded output is not taken over.
SkipWithStaleData(w) ==
  /\ pc[w] = "read"
  /\ Row(w).status = "SUCCEEDED"
  /\ Advance(w, index[w] + 1)
  /\ UNCHANGED <<snapshot, execution, stepExecution, job, currentData, fresh,
                 attemptsMade, ran>>

\* A step with a recorded result is not run again: its output is reused.
ReadSucceeded(w) ==
  /\ pc[w] = "read"
  /\ Row(w).status = "SUCCEEDED"
  /\ currentData' = [currentData EXCEPT ![w] = Row(w).output]
  /\ Advance(w, index[w] + 1)
  /\ UNCHANGED <<snapshot, execution, stepExecution, job, fresh, attemptsMade, ran>>

\* Mutated: every step is run, whatever its row says.
ReadAny(w) ==
  /\ pc[w] = "read"
  /\ fresh' = [fresh EXCEPT ![w] = Row(w).status = "PENDING"]
  /\ Goto(w, "start")
  /\ UNCHANGED <<snapshot, execution, stepExecution, job, index, currentData,
                 attemptsMade, ran>>

ReadUnfinished(w) ==
  /\ pc[w] = "read"
  /\ Row(w).status # "SUCCEEDED"
  /\ fresh' = [fresh EXCEPT ![w] = Row(w).status = "PENDING"]
  /\ Goto(w, "start")
  /\ UNCHANGED <<snapshot, execution, stepExecution, job, index, currentData,
                 attemptsMade, ran>>

Start(w) ==
  /\ pc[w] = "start"
  /\ Write(w)
  /\ Goto(w, "exec")
  /\ UNCHANGED <<snapshot, job, locals, ran>>

\* executeStep: a pure step returns its output; a request returns a response
\* that parses as WorkflowData, or throws.
ExecuteStep(w) ==
  /\ pc[w] = "exec"
  /\ ran' = [ran EXCEPT ![index[w]] = @ + 1]
  /\ \/ /\ Step(w).type = "TRANSFORM"
        /\ currentData' = [currentData EXCEPT ![w] = Step(w).template[@]]
        /\ Goto(w, "save")
     \/ /\ Step(w).type = "FILTER"
        /\ UNCHANGED currentData
        /\ Goto(w, "save")
     \/ /\ Step(w).type = "HTTP_REQUEST"
        /\ \E response \in Values :
             currentData' = [currentData EXCEPT ![w] = response]
        /\ Goto(w, "save")
     \/ /\ Step(w).type = "HTTP_REQUEST"
        /\ UNCHANGED currentData
        /\ Goto(w, "fail")
  /\ UNCHANGED <<snapshot, execution, stepExecution, job, index, fresh, attemptsMade>>

SaveResult(w) ==
  /\ pc[w] = "save"
  /\ Write(w)
  /\ \/ /\ ~ StopsHere(w)
        /\ Advance(w, index[w] + 1)
     \/ /\ StopsHere(w)
        /\ Goto(w, IF index[w] < Len(steps) THEN "skip" ELSE "succeed")
        /\ UNCHANGED index
  /\ UNCHANGED <<snapshot, job, currentData, fresh, attemptsMade, ran>>

Skip(w) ==
  /\ pc[w] = "skip"
  /\ Write(w)
  /\ Goto(w, "succeed")
  /\ UNCHANGED <<snapshot, job, locals, ran>>

\* Mutated: the inner catch does not rethrow.
SwallowStepFailure(w) ==
  /\ pc[w] = "fail"
  /\ Write(w)
  /\ Advance(w, index[w] + 1)
  /\ UNCHANGED <<snapshot, job, currentData, fresh, attemptsMade, ran>>

\* Mutated: the step is tried again at once.
RetryInPlace(w) ==
  /\ pc[w] = "fail"
  /\ Write(w)
  /\ Goto(w, "read")
  /\ UNCHANGED <<snapshot, job, locals, ran>>

RecordStepFailure(w) ==
  /\ pc[w] = "fail"
  /\ Write(w)
  /\ Goto(w, "catch")
  /\ UNCHANGED <<snapshot, job, locals, ran>>

Succeed(w) ==
  /\ pc[w] = "succeed"
  /\ Write(w)
  /\ Goto(w, "complete")
  /\ UNCHANGED <<snapshot, job, locals, ran>>

RecordAttemptFailure(w) ==
  /\ pc[w] = "catch"
  /\ Write(w)
  /\ Goto(w, "throw")
  /\ UNCHANGED <<snapshot, job, locals, ran>>

\* process returned or threw; BullMQ settles the job if w still holds its lock.
HoldsLock(w) == job.state = "active" /\ job.lock = w

Settle(w) ==
  /\ pc[w] \in {"complete", "throw"}
  /\ job' = IF ~ HoldsLock(w) THEN job
            ELSE IF pc[w] = "complete" THEN Completed(job) ELSE Rejected(job)
  /\ Return(w)
  /\ UNCHANGED <<snapshot, execution, stepExecution, ran>>
-----------------------------------------------------------------------------
(* Faults, and the queue's timers. *)

DbError(w) ==
  /\ pc[w] \in DbCall
  /\ \/ "dbError" \in faults /\ UNCHANGED <<execution, stepExecution>>
     \/ "lostAck" \in faults /\ Write(w)
  /\ Goto(w, Handler(pc[w]))
  /\ UNCHANGED <<snapshot, job, locals, ran>>

Crash(w) ==
  /\ "crash" \in faults
  /\ pc[w] # "idle"
  /\ Return(w)
  /\ UNCHANGED <<snapshot, execution, stepExecution, job, ran>>

BackoffEnds ==
  /\ job.state = "delayed"
  /\ job' = Promoted(job)
  /\ UNCHANGED <<snapshot, execution, stepExecution, pc, locals, ran>>

\* The lock expires: its holder has died, or failed to renew it.
LockExpires ==
  /\ job.state = "active"
  /\ pc[job.lock] = "idle" \/ "lockLoss" \in faults
  /\ job' = Stalled(job)
  /\ UNCHANGED <<snapshot, execution, stepExecution, pc, locals, ran>>
-----------------------------------------------------------------------------
Run(w) ==
  \/ Begin(w) \/ Create(w) \/ ReadSucceeded(w) \/ ReadUnfinished(w) \/ Start(w)
  \/ ExecuteStep(w) \/ SaveResult(w) \/ Skip(w) \/ RecordStepFailure(w)
  \/ Succeed(w) \/ RecordAttemptFailure(w) \/ Settle(w) \/ DbError(w)

JobSettled == job.state \in {"completed", "failed"}

\* Nothing is left to do: the job has settled and no processor call runs.
Finished ==
  /\ JobSettled
  /\ \A w \in Workers : pc[w] = "idle"
  /\ UNCHANGED vars

Next ==
  \/ \E w \in Workers : Take(w) \/ Run(w) \/ Crash(w)
  \/ BackoffEnds \/ LockExpires
  \/ Finished

\* A live worker goes on with its call, some worker takes a waiting job, and
\* the queue's timers fire.  No fault is ever obliged to happen.
Fairness ==
  /\ \A w \in Workers : WF_vars(Run(w))
  /\ WF_vars(\E w \in Workers : Take(w))
  /\ WF_vars(BackoffEnds)
  /\ WF_vars(LockExpires)

Spec == Init /\ [][Next]_vars /\ Fairness
-----------------------------------------------------------------------------
(* Properties. *)

\* A job that has not settled has an attempt left, and its lock, while it is
\* active, is held by one of the slots.
JobInBounds ==
  /\ job.state = "active" => job.lock \in Workers
  /\ job.state \in {"waiting", "active", "delayed"} =>
       job.attemptsMade < MaxAttempts /\ job.stalled <= MaxStalledCount

InLoop == {"read", "start", "exec", "save", "skip", "fail"}

\* A call inside the loop works on a step of the definition.
LoopInBounds ==
  \A w \in Workers : pc[w] \in InLoop => index[w] \in 1 .. Len(steps)

\* A recorded step has an output to reuse: 'Stored output for step ... is
\* invalid' is never thrown.
RecordedOutputs ==
  \A id \in StepIds :
    stepExecution[id].status = "SUCCEEDED" => stepExecution[id].output \in Values

\* Every variable keeps its type: the columns of the two tables, the job's
\* record with its counters, and the local variables of the processor calls.
TypeOK ==
  /\ steps \in Definitions
  /\ payload \in Values
  /\ faults \in FaultSets
  /\ execution \in ExecutionRow
  /\ stepExecution \in [StepIds -> StepRow]
  /\ job \in Job(Workers)
  /\ pc \in [Workers -> Pc]
  /\ index \in [Workers -> 1 .. Len(steps) + 1]
  /\ currentData \in [Workers -> Values]
  /\ fresh \in [Workers -> BOOLEAN]
  /\ attemptsMade \in [Workers -> 0 .. MaxAttempts - 1]
  /\ ran \in [1 .. Len(steps) -> Nat]
  /\ JobInBounds
  /\ LoopInBounds
  /\ RecordedOutputs

\* Nothing in the code demands that the ids of a definition differ, and rows
\* are keyed by id: what is said of single rows is said of these definitions.
DistinctIds ==
  \A i, k \in 1 .. Len(steps) : steps[i].id = steps[k].id => i = k

RowOf(i) == stepExecution[steps[i].id]

\* What step i is given: the output of the step before it, or the payload.
InputOf(i) == IF i = 1 THEN payload ELSE RowOf(i - 1).output

\* Step i is a filter that, by its row, has stopped the workflow.
Stopped(i) ==
  /\ steps[i].type = "FILTER"
  /\ RowOf(i).status = "SUCCEEDED"
  /\ ~ steps[i].passes[RowOf(i).output]

\* As long as locks are renewed, one call at a time works on an execution, and
\* it is the one that holds the job's lock, whatever crashes or throws.
ExclusiveRun ==
  \A w \in Workers : pc[w] # "idle" => HoldsLock(w)

\* What the row of the step a call works on says at each of its calls.
RowAtCall ==
  \A w \in Workers :
    /\ pc[w] = "start" => Row(w).status # "SUCCEEDED"
    /\ pc[w] \in {"exec", "save"} => Row(w).status = "RUNNING"
    /\ pc[w] = "fail" => Row(w).status = "RUNNING" \/ Stopped(index[w])
    /\ pc[w] = "skip" => Stopped(index[w])

\* "Previously successful steps are not executed again during a retry": the
\* recorded result of a step is never replaced.  A filter that stopped the
\* workflow is the exception: the inner catch of execute also covers the
\* updateMany that skips the other steps, so its row can turn FAILED.
RecordedResultIsFinal ==
  [][DistinctIds =>
       \A i \in 1 .. Len(steps) :
         RowOf(i).status = "SUCCEEDED" /\ ~ Stopped(i) => RowOf(i)' = RowOf(i)]_vars

\* Data flows from step to step also across retries: a step that has been
\* started got the recorded output of the step before it, which is final.
InputIsPredecessorOutput ==
  DistinctIds =>
    \A i \in 1 .. Len(steps) :
      RowOf(i).status \in {"RUNNING", "SUCCEEDED", "FAILED"} =>
        /\ RowOf(i).input = InputOf(i)
        /\ i > 1 => RowOf(i - 1).status = "SUCCEEDED"

\* An execution is marked SUCCEEDED only if every step was, or if a filter
\* stopped it after a prefix that was and the rest is SKIPPED.
SucceededRanEveryStep ==
  DistinctIds /\ execution.status = "SUCCEEDED" =>
    \E n \in 0 .. Len(steps) :
      /\ \A i \in 1 .. n : RowOf(i).status = "SUCCEEDED"
      /\ \A i \in n + 1 .. Len(steps) : RowOf(i).status = "SKIPPED"
      /\ n < Len(steps) => n > 0 /\ Stopped(n)

\* StepExecution.attempt never undercounts: a step was sent (its request made)
\* at most as often as its row says, crashes between the two included.
AttemptCoversRuns ==
  DistinctIds => \A i \in 1 .. Len(steps) : ran[i] <= RowOf(i).attempt

\* No step is run more often than the queue hands the job out: every retry and
\* every redelivery of a stalled job runs a step at most once.
RunsAreBounded ==
  \A i \in 1 .. Len(steps) : ran[i] <= MaxAttempts + MaxStalledCount

\* How often the job has been handed to a worker.
Handouts ==
  job.attemptsMade + job.stalled + IF job.state \in {"active", "completed"} THEN 1 ELSE 0

\* How often the queue can still move the job: for each handout it has left
\* there is one move to a worker, one to the backoff and one out of it.
MovesLeft ==
  3 * (MaxAttempts + MaxStalledCount - Handouts)
    + CASE job.state = "active"  -> 3
        [] job.state = "delayed" -> 2
        [] job.state = "waiting" -> 1
        [] OTHER                 -> 0

\* How many awaited calls a processor call that stands at one of them has at
\* most still to make, at step i of n: four for each step behind it, and those
\* of its own step and of its end.
CallsFrom(call, i, n) ==
  CASE call = "begin"                 -> 4 * n + 6
    [] call = "create"                -> 4 * n + 5
    [] call = "read"                  -> 4 * (n - i) + 8
    [] call = "start"                 -> 4 * (n - i) + 7
    [] call = "exec"                  -> 4 * (n - i) + 6
    [] call = "save"                  -> 4 * (n - i) + 5
    [] call = "skip"                  -> 4
    [] call \in {"fail", "succeed"}   -> 3
    [] call = "catch"                 -> 2
    [] call \in {"complete", "throw"} -> 1
    [] call = "idle"                  -> 0

CallsLeft(w) == CallsFrom(pc[w], index[w], Len(steps))

\* Every step brings the execution closer to its end, whatever fails: it uses up
\* one of the moves the queue has left, or one of the calls that one processor
\* call has left, while the others stay where they are.  No error path leads
\* back, so an execution stops, and only fairness decides that it is not stuck.
EveryStepComesCloser ==
  [][\/ MovesLeft' \in Nat /\ MovesLeft' < MovesLeft
     \/ /\ job' = job
        /\ \E w \in Workers :
             /\ CallsLeft(w)' \in Nat /\ CallsLeft(w)' < CallsLeft(w)
             /\ \A v \in Workers \ {w} : CallsLeft(v)' = CallsLeft(v)]_vars

\* A call was handed the job's attemptsMade, which never decreases.
AttemptsKnown ==
  \A w \in Workers : pc[w] # "idle" => attemptsMade[w] <= job.attemptsMade

\* The execution is given up only by a call that was its job's last attempt,
\* even if that call had already lost its lock.
FailedMeansAttemptsExhausted ==
  execution.status = "FAILED" => job.attemptsMade + 1 >= MaxAttempts

\* BullMQ and the database agree on success: a completed job leaves a
\* SUCCEEDED execution, which no later call reopens.
CompletedJobSucceeded ==
  job.state = "completed" =>
    execution = [status |-> "SUCCEEDED", error |-> FALSE, finishedAt |-> TRUE]

\* Where no step reads the outside world, redelivery is harmless: the output
\* recorded for a step is what its template makes of the recorded input, with
\* every fault, two calls at once included.
PureOutput(i) ==
  IF steps[i].type = "TRANSFORM" THEN steps[i].template[RowOf(i).input]
                                 ELSE RowOf(i).input
PureStepsAreRepeatable ==
  DistinctIds /\ (\A k \in 1 .. Len(steps) : steps[k].type # "HTTP_REQUEST") =>
    \A i \in 1 .. Len(steps) :
      RowOf(i).status = "SUCCEEDED" =>
        /\ RowOf(i).output = PureOutput(i)
        /\ RowOf(i).input = InputOf(i)

\* "Stops the workflow when a condition does not match": behind a filter that
\* has stopped, no step is started.
StoppedIsFinal ==
  DistinctIds =>
    \A i \in 1 .. Len(steps) : Stopped(i) =>
      \A k \in i + 1 .. Len(steps) : RowOf(k).status \in {"PENDING", "SKIPPED"}

\* Without faults a filter does stop its workflow, also when the steps before
\* it were retried.
FilterStops == faults = {} => StoppedIsFinal

\* "Each step has its own execution state": a succeeded execution that no
\* filter stopped has run every step of its definition.
EveryStepRuns ==
  execution.status = "SUCCEEDED" /\ (\A i \in 1 .. Len(steps) : ~ Stopped(i)) =>
    \A i \in 1 .. Len(steps) : ran[i] > 0

\* The lifecycle of the execution ends as the job does: a job that has failed
\* for good leaves a FAILED execution.
FailedIsReported == job.state = "failed" => execution.status = "FAILED"

\* Without faults the two agree: the attempt that the catch of process takes
\* for the last one is the one after which BullMQ gives up.
FailedJobFailsExecution == faults = {} => FailedIsReported

\* The queue gives up on every job or completes it, and no call runs forever,
\* whatever faults happen.
JobSettles == <>[](JobSettled /\ \A w \in Workers : pc[w] = "idle")
-----------------------------------------------------------------------------
(* The refinement: results are the outputs of SUCCEEDED rows, and the outcome *)
(* is the job's, because the execution's own status can be reopened.          *)

Results ==
  [i \in 1 .. Len(steps) |->
     IF RowOf(i).status = "SUCCEEDED" THEN RowOf(i).output ELSE NoData]

Outcome == CASE job.state = "completed" -> "succeeded"
             [] job.state = "failed"    -> "failed"
             [] OTHER                   -> "open"

Ledger == INSTANCE StepLedger WITH results <- Results, outcome <- Outcome

\* With distinct ids, and as long as locks are renewed and acknowledgements
\* arrive, the processor calls together do to the rows only what StepLedger
\* allows: in-order, write-once results, and completion only at the end.
ImplementsStepLedger == Ledger!Spec
-----------------------------------------------------------------------------
(* The same execution as TriggerApi sees it: its row and its job have started *)
(* once the first attempt has, and end when the job settles.                  *)

RowSeen == CASE JobSettled                  -> execution.status
             [] execution.status = "QUEUED" -> "QUEUED"
             [] OTHER                       -> "RUNNING"

JobSeen == CASE JobSettled                  -> "settled"
             [] execution.status = "QUEUED" -> "waiting"
             [] OTHER                       -> "active"

Added == {"execution"}

Queued == INSTANCE TriggerApi
  WITH Requests <- Added, Keys <- {}, NoKey <- "no key", NoExecution <- "no execution",
       MaxQueueDepth <- 1, MaxInFlight <- 1, Faults <- {},
       key <- [e \in Added |-> "no key"], pc <- [e \in Added |-> "done"],
       reply <- [e \in Added |-> "execution"], returned <- [e \in Added |-> e],
       execution <- [e \in Added |-> RowSeen], job <- [e \in Added |-> JobSeen],
       lostAcks <- {}

\* Without faults, processor, engine and queue are the worker that TriggerApi
\* takes them for: whatever the steps answer and however often the job is tried
\* again, the row starts once, and it ends when the job does and stays so.
\* With JobSettles, every accepted execution comes to its end.
ImplementsWorker ==
  [][faults = {} => [\E e \in Added : Queued!Work(e)]_(Queued!vars)]_vars
=============================================================================

---------------------- MODULE WorkflowExecutionProofs ----------------------
(***************************************************************************)
(* Theorems about WorkflowExecution, for every set of slots, every set of  *)
(* definitions and every choice of faults unless a theorem says otherwise. *)
(***************************************************************************)
EXTENDS WorkflowExecution, FiniteSetTheorems, TLAPS

-----------------------------------------------------------------------------
(* Type correctness. *)

\* A call inside the loop has a step, and the step's id has a row.
LEMMA StepInBounds ==
  ASSUME TypeOK, NEW w \in Workers, pc[w] \in InLoop
  PROVE  /\ index[w] \in 1 .. Len(steps)
         /\ Step(w) \in WorkflowStep
         /\ Step(w).id \in StepIds
         /\ Row(w) \in StepRow
<1>1. index[w] \in 1 .. Len(steps)
  BY DEF TypeOK, LoopInBounds
<1>2. steps \in Seq(WorkflowStep)
  BY DefinitionsAreSteps DEF TypeOK
<1>3. Step(w) \in WorkflowStep
  BY <1>1, <1>2 DEF Step
<1>4. Step(w).id \in StepIds
  BY <1>3 DEF WorkflowStep
<1>5. Row(w) \in StepRow
  BY <1>4 DEF Row, TypeOK
<1> QED
  BY <1>1, <1>3, <1>4, <1>5

\* Replacing one row by a typed row, with an output if it is SUCCEEDED.
LEMMA RowKeepsTypes ==
  ASSUME TypeOK, NEW w \in Workers, pc[w] \in InLoop, NEW row \in StepRow,
         UpdateStep(w, row), row.status = "SUCCEEDED" => row.output \in Values
  PROVE  /\ execution' \in ExecutionRow
         /\ stepExecution' \in [StepIds -> StepRow]
         /\ RecordedOutputs'
<1>1. Step(w).id \in StepIds
  BY StepInBounds
<1> QED
  BY <1>1 DEF TypeOK, RecordedOutputs, UpdateStep

\* A row that gets a status other than SUCCEEDED stays typed.
LEMMA StatusKeepsType ==
  ASSUME TypeOK, NEW id \in StepIds, NEW status \in {"PENDING", "SKIPPED"}
  PROVE  /\ stepExecution[id] \in StepRow
         /\ [stepExecution[id] EXCEPT !.status = status] \in StepRow
         /\ [stepExecution[id] EXCEPT !.status = status].status = status
<1>1. stepExecution[id] \in StepRow
  BY DEF TypeOK
<1> QED
  BY <1>1 DEF StepRow

\* Every write of a processor call leaves well-typed rows.
LEMMA WriteKeepsTypes ==
  ASSUME TypeOK, NEW w \in Workers, Write(w)
  PROVE  /\ execution' \in ExecutionRow
         /\ stepExecution' \in [StepIds -> StepRow]
         /\ RecordedOutputs'
<1> USE DEF TypeOK, RecordedOutputs
<1>1. CASE pc[w] = "begin" /\ MarkRunning
  BY <1>1 DEF MarkRunning, ExecutionRow
<1>2. CASE pc[w] = "create" /\ CreateSteps
  <2>1. execution' = execution
    BY <1>2 DEF CreateSteps
  <2>2. stepExecution' = [id \in StepIds |->
          IF id \in IdsFrom(1) /\ stepExecution[id].status = "ABSENT"
          THEN [stepExecution[id] EXCEPT !.status = "PENDING"]
          ELSE stepExecution[id]]
    BY <1>2 DEF CreateSteps
  <2>3. ASSUME NEW id \in StepIds
        PROVE  /\ stepExecution'[id] \in StepRow
               /\ stepExecution'[id].status = "SUCCEEDED" => stepExecution'[id].output \in Values
    <3>1. stepExecution[id].status = "SUCCEEDED" => stepExecution[id].output \in Values
      OBVIOUS
    <3>2. \/ stepExecution'[id] = stepExecution[id]
          \/ stepExecution'[id] = [stepExecution[id] EXCEPT !.status = "PENDING"]
      BY <2>2
    <3> HIDE DEF TypeOK, RecordedOutputs
    <3> QED
      BY <3>1, <3>2, StatusKeepsType
  <2>4. stepExecution' \in [StepIds -> StepRow]
    <3> HIDE DEF TypeOK, RecordedOutputs
    <3> QED
      BY <2>2, <2>3
  <2> QED
    BY <2>1, <2>3, <2>4
<1>3. CASE pc[w] = "start" /\ StartStep(w)
  <2>1. Row(w) \in StepRow
    BY <1>3, StepInBounds DEF InLoop
  <2>2. [Row(w) EXCEPT !.status = "RUNNING", !.input = currentData[w],
                       !.attempt = IF fresh[w] THEN @ ELSE @ + 1] \in StepRow
    <3>1. currentData[w] \in Values
      OBVIOUS
    <3>2. (IF fresh[w] THEN Row(w).attempt ELSE Row(w).attempt + 1) \in Nat
      BY <2>1 DEF StepRow
    <3> HIDE DEF TypeOK
    <3> QED
      BY <2>1, <3>1, <3>2 DEF StepRow
  <2>3. [Row(w) EXCEPT !.status = "RUNNING", !.input = currentData[w],
                       !.attempt = IF fresh[w] THEN @ ELSE @ + 1].status = "RUNNING"
    BY <2>1 DEF StepRow
  <2> QED
    BY <1>3, <2>2, <2>3, RowKeepsTypes DEF StartStep, InLoop
<1>4. CASE pc[w] = "save" /\ SaveStep(w)
  <2>1. Row(w) \in StepRow
    BY <1>4, StepInBounds DEF InLoop
  <2>2. [Row(w) EXCEPT !.status = "SUCCEEDED", !.output = currentData[w]] \in StepRow
    BY <2>1 DEF StepRow
  <2>3. [Row(w) EXCEPT !.status = "SUCCEEDED", !.output = currentData[w]].output
          \in Values
    BY <2>1 DEF StepRow
  <2> QED
    BY <1>4, <2>2, <2>3, RowKeepsTypes DEF SaveStep, InLoop
<1>5. CASE pc[w] = "skip" /\ SkipRemaining(w)
  <2>1. execution' = execution
    BY <1>5 DEF SkipRemaining
  <2>2. stepExecution' = [id \in StepIds |->
          IF id \in IdsFrom(index[w] + 1) /\ stepExecution[id].status = "PENDING"
          THEN [stepExecution[id] EXCEPT !.status = "SKIPPED"]
          ELSE stepExecution[id]]
    BY <1>5 DEF SkipRemaining
  <2>3. ASSUME NEW id \in StepIds
        PROVE  /\ stepExecution'[id] \in StepRow
               /\ stepExecution'[id].status = "SUCCEEDED" => stepExecution'[id].output \in Values
    <3>1. stepExecution[id].status = "SUCCEEDED" => stepExecution[id].output \in Values
      OBVIOUS
    <3>2. \/ stepExecution'[id] = stepExecution[id]
          \/ stepExecution'[id] = [stepExecution[id] EXCEPT !.status = "SKIPPED"]
      BY <2>2
    <3> HIDE DEF TypeOK, RecordedOutputs
    <3> QED
      BY <3>1, <3>2, StatusKeepsType
  <2>4. stepExecution' \in [StepIds -> StepRow]
    <3> HIDE DEF TypeOK, RecordedOutputs
    <3> QED
      BY <2>2, <2>3
  <2> QED
    BY <2>1, <2>3, <2>4
<1>6. CASE pc[w] = "fail" /\ FailStep(w)
  <2>1. Row(w) \in StepRow
    BY <1>6, StepInBounds DEF InLoop
  <2>2. [Row(w) EXCEPT !.status = "FAILED"] \in StepRow
    BY <2>1 DEF StepRow
  <2>3. [Row(w) EXCEPT !.status = "FAILED"].status = "FAILED"
    BY <2>1 DEF StepRow
  <2> QED
    BY <1>6, <2>2, <2>3, RowKeepsTypes DEF FailStep, InLoop
<1>7. CASE pc[w] = "succeed" /\ MarkSucceeded
  BY <1>7 DEF MarkSucceeded, ExecutionRow
<1>8. CASE pc[w] = "catch" /\ MarkAttemptFailed(w)
  BY <1>8 DEF MarkAttemptFailed, IsFinalAttempt, ExecutionRow
<1> QED
  BY <1>1, <1>2, <1>3, <1>4, <1>5, <1>6, <1>7, <1>8 DEF Write

\* The loop head leaves a call either behind the loop or at a step.
LEMMA AdvanceKeepsBounds ==
  ASSUME TypeOK, NEW w \in Workers, NEW i \in 1 .. Len(steps) + 1, Advance(w, i)
  PROVE  /\ index' \in [Workers -> 1 .. Len(steps) + 1]
         /\ pc' \in [Workers -> Pc]
         /\ steps' = steps => LoopInBounds'
<1>1. Len(steps) \in Nat
  BY DefinitionsAreSteps DEF TypeOK
<1>2. index' \in [Workers -> 1 .. Len(steps) + 1]
  BY <1>1 DEF TypeOK, Advance
<1>3. pc' \in [Workers -> Pc]
  BY DEF TypeOK, Advance, Goto, Pc, DbCall
<1>4. ASSUME steps' = steps, NEW v \in Workers, pc'[v] \in InLoop
      PROVE  index'[v] \in 1 .. Len(steps)
  <2>1. CASE v = w
    <3>1. pc'[w] = IF i > Len(steps) THEN "succeed" ELSE "read"
      BY DEF TypeOK, Advance, Goto
    <3>2. ~ (i > Len(steps))
      BY <1>4, <2>1, <3>1 DEF InLoop
    <3>3. index'[w] = i
      BY DEF TypeOK, Advance
    <3> QED
      BY <1>1, <2>1, <3>2, <3>3
  <2>2. CASE v # w
    BY <1>4, <2>2 DEF TypeOK, LoopInBounds, Advance, Goto
  <2> QED
    BY <2>1, <2>2
<1> QED
  BY <1>2, <1>3, <1>4 DEF LoopInBounds

\* A call that dies or returns leaves typed locals and no step behind.
LEMMA ReturnKeepsBounds ==
  ASSUME TypeOK, NEW w \in Workers, Return(w), UNCHANGED steps
  PROVE  /\ index' \in [Workers -> 1 .. Len(steps) + 1]
         /\ pc' \in [Workers -> Pc]
         /\ currentData' \in [Workers -> Values]
         /\ fresh' \in [Workers -> BOOLEAN]
         /\ attemptsMade' \in [Workers -> 0 .. MaxAttempts - 1]
         /\ LoopInBounds'
<1>1. Len(steps) \in Nat /\ MaxAttempts \in Nat \ {0}
  BY DefinitionsAreSteps, JobLimits DEF TypeOK
<1>2. /\ index' \in [Workers -> 1 .. Len(steps) + 1]
      /\ attemptsMade' \in [Workers -> 0 .. MaxAttempts - 1]
  BY <1>1 DEF TypeOK, Return
<1>3. /\ pc' \in [Workers -> Pc]
      /\ currentData' \in [Workers -> Values]
      /\ fresh' \in [Workers -> BOOLEAN]
  BY DEF TypeOK, Return, Goto, Pc
<1>4. LoopInBounds'
  BY DEF TypeOK, LoopInBounds, InLoop, Return, Goto
<1> QED
  BY <1>2, <1>3, <1>4

\* Moving to a call outside the loop, or staying at the same step, is safe.
LEMMA GotoKeepsBounds ==
  ASSUME TypeOK, NEW w \in Workers, NEW call \in Pc, Goto(w, call),
         UNCHANGED <<steps, index>>, call \in InLoop => pc[w] \in InLoop
  PROVE  pc' \in [Workers -> Pc] /\ LoopInBounds'
BY DEF TypeOK, LoopInBounds, Goto

\* The job's record, field by field.
LEMMA JobFields ==
  ASSUME NEW state \in JobState, NEW lock \in Workers \union {NoWorker},
         NEW made \in 0 .. MaxAttempts, NEW stalled \in 0 .. MaxStalledCount + 1,
         job' = [state |-> state, lock |-> lock, attemptsMade |-> made,
                 stalled |-> stalled],
         state = "active" => lock \in Workers,
         state \in {"waiting", "active", "delayed"} =>
           made < MaxAttempts /\ stalled <= MaxStalledCount
  PROVE  job' \in Job(Workers) /\ JobInBounds'
BY DEF Job, JobInBounds

\* The job's record stays within its bounds whatever the queue does with it.
LEMMA JobKeepsBounds ==
  ASSUME TypeOK
  PROVE  /\ \A w \in Workers : job.state = "waiting" /\ job' = Acquired(job, w)
                              => job' \in Job(Workers) /\ JobInBounds'
         /\ job.state = "active" /\ job' = Completed(job)
              => job' \in Job(Workers) /\ JobInBounds'
         /\ job.state = "active" /\ job' = Rejected(job)
              => job' \in Job(Workers) /\ JobInBounds'
         /\ job.state = "active" /\ job' = Stalled(job)
              => job' \in Job(Workers) /\ JobInBounds'
         /\ job.state = "delayed" /\ job' = Promoted(job)
              => job' \in Job(Workers) /\ JobInBounds'
<1>1. /\ job \in Job(Workers)
      /\ JobInBounds
      /\ MaxAttempts \in Nat \ {0} /\ MaxStalledCount \in Nat
  BY JobLimits DEF TypeOK
<1>2. /\ job.attemptsMade \in 0 .. MaxAttempts
      /\ job.stalled \in 0 .. MaxStalledCount + 1
      /\ job.lock \in Workers \union {NoWorker}
      /\ job.state \in {"waiting", "active", "delayed"} =>
           job.attemptsMade + 1 \in 0 .. MaxAttempts
           /\ job.stalled + 1 \in 0 .. MaxStalledCount + 1
  BY <1>1 DEF Job, JobInBounds
<1>3. job = [state |-> job.state, lock |-> job.lock,
             attemptsMade |-> job.attemptsMade, stalled |-> job.stalled]
  BY <1>1 DEF Job
<1>4. ASSUME NEW w \in Workers, job.state = "waiting", job' = Acquired(job, w)
      PROVE  job' \in Job(Workers) /\ JobInBounds'
  <2>1. job' = [state |-> "active", lock |-> w,
                attemptsMade |-> job.attemptsMade, stalled |-> job.stalled]
    BY <1>3, <1>4 DEF Acquired
  <2> QED
    BY <1>1, <1>2, <1>4, <2>1, JobFields DEF JobState, JobInBounds
<1>5. ASSUME job.state = "active", job' = Completed(job)
      PROVE  job' \in Job(Workers) /\ JobInBounds'
  <2>1. job' = [state |-> "completed", lock |-> NoWorker,
                attemptsMade |-> job.attemptsMade, stalled |-> job.stalled]
    BY <1>3, <1>5 DEF Completed
  <2> QED
    BY <1>1, <1>2, <2>1, JobFields DEF JobState
<1>6. ASSUME job.state = "active", job' = Rejected(job)
      PROVE  job' \in Job(Workers) /\ JobInBounds'
  <2> DEFINE state == IF job.attemptsMade + 1 < MaxAttempts
                      THEN "delayed" ELSE "failed"
  <2>1. job' = [state |-> state, lock |-> NoWorker,
                attemptsMade |-> job.attemptsMade + 1, stalled |-> job.stalled]
    BY <1>3, <1>6 DEF Rejected
  <2>2. state \in JobState /\ state # "active"
        /\ (state \in {"waiting", "delayed"} => job.attemptsMade + 1 < MaxAttempts)
    BY DEF JobState
  <2>3. job.stalled <= MaxStalledCount
    BY <1>1, <1>6 DEF JobInBounds
  <2> HIDE DEF state
  <2> QED
    BY <1>1, <1>2, <1>6, <2>1, <2>2, <2>3, JobFields
<1>7. ASSUME job.state = "active", job' = Stalled(job)
      PROVE  job' \in Job(Workers) /\ JobInBounds'
  <2> DEFINE state == IF job.stalled + 1 > MaxStalledCount
                      THEN "failed" ELSE "waiting"
  <2>1. job' = [state |-> state, lock |-> NoWorker,
                attemptsMade |-> job.attemptsMade, stalled |-> job.stalled + 1]
    BY <1>3, <1>7 DEF Stalled
  <2>2. state \in JobState /\ state # "active"
        /\ (state \in {"waiting", "delayed"} => job.stalled + 1 <= MaxStalledCount)
    BY <1>1, <1>2 DEF JobState
  <2>3. job.attemptsMade < MaxAttempts
    BY <1>1, <1>7 DEF JobInBounds
  <2> HIDE DEF state
  <2> QED
    BY <1>1, <1>2, <1>7, <2>1, <2>2, <2>3, JobFields
<1>8. ASSUME job.state = "delayed", job' = Promoted(job)
      PROVE  job' \in Job(Workers) /\ JobInBounds'
  <2>1. job' = [state |-> "waiting", lock |-> job.lock,
                attemptsMade |-> job.attemptsMade, stalled |-> job.stalled]
    BY <1>3, <1>8 DEF Promoted
  <2> QED
    BY <1>1, <1>2, <1>8, <2>1, JobFields DEF JobState, JobInBounds
<1> QED
  BY <1>4, <1>5, <1>6, <1>7, <1>8

LEMMA TypeInit == Init => TypeOK
<1> SUFFICES ASSUME Init PROVE TypeOK
  OBVIOUS
<1>1. Len(steps) \in Nat /\ MaxAttempts \in Nat \ {0} /\ MaxStalledCount \in Nat
  BY DefinitionsAreSteps, JobLimits DEF Init
<1>2. /\ execution \in ExecutionRow
      /\ stepExecution \in [StepIds -> StepRow]
      /\ RecordedOutputs
  BY DEF Init, ExecutionRow, StepRow, NoRow, RecordedOutputs
<1>3. job \in Job(Workers) /\ JobInBounds
  BY <1>1 DEF Init, Job, JobState, JobInBounds, AddedJob
<1>4. pc \in [Workers -> Pc] /\ LoopInBounds
  BY DEF Init, Pc, LoopInBounds, InLoop
<1>5. /\ index \in [Workers -> 1 .. Len(steps) + 1]
      /\ attemptsMade \in [Workers -> 0 .. MaxAttempts - 1]
      /\ ran \in [1 .. Len(steps) -> Nat]
  BY <1>1 DEF Init
<1> QED
  BY <1>2, <1>3, <1>4, <1>5 DEF Init, TypeOK

\* Each action keeps the types; the lemmas above do the work for the rows,
\* the job and the calls' positions.
LEMMA TypeNext == TypeOK /\ [Next]_vars => TypeOK'
<1> SUFFICES ASSUME TypeOK, [Next]_vars PROVE TypeOK'
  OBVIOUS
<1> USE DEF snapshot, locals
<1>1. ASSUME NEW w \in Workers, Take(w) PROVE TypeOK'
  <2>1. job' \in Job(Workers) /\ JobInBounds'
    BY <1>1, JobKeepsBounds DEF Take
  <2>2. pc' \in [Workers -> Pc] /\ LoopInBounds'
    BY <1>1, GotoKeepsBounds DEF Take, InLoop, Pc, DbCall
  <2>3. job.attemptsMade \in 0 .. MaxAttempts - 1
    BY <1>1, JobLimits DEF Take, TypeOK, JobInBounds, Job
  <2>4. attemptsMade' \in [Workers -> 0 .. MaxAttempts - 1]
    BY <1>1, <2>3 DEF Take, TypeOK
  <2> QED
    BY <1>1, <2>1, <2>2, <2>4 DEF Take, TypeOK, RecordedOutputs
<1>2. ASSUME NEW w \in Workers, Begin(w) PROVE TypeOK'
  <2>1. /\ execution' \in ExecutionRow
        /\ stepExecution' \in [StepIds -> StepRow]
        /\ RecordedOutputs'
    BY <1>2, WriteKeepsTypes DEF Begin
  <2>2. pc' \in [Workers -> Pc] /\ LoopInBounds'
    BY <1>2, GotoKeepsBounds DEF Begin, InLoop, Pc, DbCall
  <2> QED
    BY <1>2, <2>1, <2>2 DEF Begin, TypeOK, JobInBounds, RecordedOutputs
<1>3. ASSUME NEW w \in Workers, Create(w) PROVE TypeOK'
  <2>1. /\ execution' \in ExecutionRow
        /\ stepExecution' \in [StepIds -> StepRow]
        /\ RecordedOutputs'
    BY <1>3, WriteKeepsTypes DEF Create
  <2>2. 1 \in 1 .. Len(steps) + 1
    BY DefinitionsAreSteps DEF TypeOK
  <2>3. /\ index' \in [Workers -> 1 .. Len(steps) + 1]
        /\ pc' \in [Workers -> Pc] /\ LoopInBounds'
    BY <1>3, <2>2, AdvanceKeepsBounds DEF Create
  <2>4. currentData' \in [Workers -> Values]
    BY <1>3 DEF Create, TypeOK
  <2> QED
    BY <1>3, <2>1, <2>3, <2>4 DEF Create, TypeOK, JobInBounds, RecordedOutputs
<1>4. ASSUME NEW w \in Workers, ReadSucceeded(w) PROVE TypeOK'
  <2>1. index[w] + 1 \in 1 .. Len(steps) + 1
    BY <1>4, StepInBounds DEF ReadSucceeded, InLoop
  <2>2. /\ index' \in [Workers -> 1 .. Len(steps) + 1]
        /\ pc' \in [Workers -> Pc] /\ LoopInBounds'
    BY <1>4, <2>1, AdvanceKeepsBounds DEF ReadSucceeded
  <2>3. Row(w).output \in Values
    BY <1>4, StepInBounds DEF ReadSucceeded, InLoop, TypeOK, RecordedOutputs, Row
  <2>4. currentData' \in [Workers -> Values]
    BY <1>4, <2>3 DEF ReadSucceeded, TypeOK
  <2> QED
    BY <1>4, <2>2, <2>4 DEF ReadSucceeded, TypeOK, JobInBounds, RecordedOutputs
<1>5. ASSUME NEW w \in Workers, ReadUnfinished(w) PROVE TypeOK'
  <2>1. pc' \in [Workers -> Pc] /\ LoopInBounds'
    BY <1>5, GotoKeepsBounds DEF ReadUnfinished, InLoop, Pc, DbCall
  <2>2. fresh' \in [Workers -> BOOLEAN]
    BY <1>5 DEF ReadUnfinished, TypeOK
  <2> QED
    BY <1>5, <2>1, <2>2 DEF ReadUnfinished, TypeOK, JobInBounds, RecordedOutputs
<1>6. ASSUME NEW w \in Workers, Start(w) PROVE TypeOK'
  <2>1. /\ execution' \in ExecutionRow
        /\ stepExecution' \in [StepIds -> StepRow]
        /\ RecordedOutputs'
    BY <1>6, WriteKeepsTypes DEF Start
  <2>2. pc' \in [Workers -> Pc] /\ LoopInBounds'
    BY <1>6, GotoKeepsBounds DEF Start, InLoop, Pc, DbCall
  <2> QED
    BY <1>6, <2>1, <2>2 DEF Start, TypeOK, JobInBounds
<1>7. ASSUME NEW w \in Workers, ExecuteStep(w) PROVE TypeOK'
  <2>1. /\ index[w] \in 1 .. Len(steps)
        /\ Step(w) \in WorkflowStep
    BY <1>7, StepInBounds DEF ExecuteStep, InLoop
  <2>2. ran' \in [1 .. Len(steps) -> Nat]
    BY <1>7, <2>1 DEF ExecuteStep, TypeOK
  <2>3. Step(w).template[currentData[w]] \in Values
    BY <2>1 DEF WorkflowStep, TypeOK
  <2>4. currentData' \in [Workers -> Values]
    BY <1>7, <2>3 DEF ExecuteStep, TypeOK
  <2>5. Goto(w, "save") \/ Goto(w, "fail")
    BY <1>7 DEF ExecuteStep
  <2>6. pc' \in [Workers -> Pc] /\ LoopInBounds'
    BY <1>7, <2>5, GotoKeepsBounds DEF ExecuteStep, InLoop, Pc, DbCall
  <2> QED
    BY <1>7, <2>2, <2>4, <2>6
    DEF ExecuteStep, TypeOK, JobInBounds, RecordedOutputs
<1>8. ASSUME NEW w \in Workers, SaveResult(w) PROVE TypeOK'
  <2>1. /\ execution' \in ExecutionRow
        /\ stepExecution' \in [StepIds -> StepRow]
        /\ RecordedOutputs'
    BY <1>8, WriteKeepsTypes DEF SaveResult
  <2>2. index[w] + 1 \in 1 .. Len(steps) + 1
    BY <1>8, StepInBounds DEF SaveResult, InLoop
  <2>3. CASE Advance(w, index[w] + 1)
    <3>1. /\ index' \in [Workers -> 1 .. Len(steps) + 1]
          /\ pc' \in [Workers -> Pc] /\ LoopInBounds'
      BY <1>8, <2>2, <2>3, AdvanceKeepsBounds DEF SaveResult
    <3> QED
      BY <1>8, <2>1, <3>1 DEF SaveResult, TypeOK, JobInBounds
  <2>4. CASE UNCHANGED index /\ (Goto(w, "skip") \/ Goto(w, "succeed"))
    <3>1. pc' \in [Workers -> Pc] /\ LoopInBounds'
      BY <1>8, <2>4, GotoKeepsBounds DEF SaveResult, InLoop, Pc, DbCall
    <3> QED
      BY <1>8, <2>1, <2>4, <3>1 DEF SaveResult, TypeOK, JobInBounds
  <2> QED
    BY <1>8, <2>3, <2>4 DEF SaveResult
<1>9. ASSUME NEW w \in Workers,
             Skip(w) \/ RecordStepFailure(w) \/ Succeed(w) \/ RecordAttemptFailure(w)
      PROVE  TypeOK'
  <2>1. /\ Write(w)
        /\ UNCHANGED <<snapshot, job, locals, ran>>
        /\ Goto(w, "succeed") \/ Goto(w, "catch") \/ Goto(w, "complete")
           \/ Goto(w, "throw")
    BY <1>9 DEF Skip, RecordStepFailure, Succeed, RecordAttemptFailure
  <2>2. /\ execution' \in ExecutionRow
        /\ stepExecution' \in [StepIds -> StepRow]
        /\ RecordedOutputs'
    BY <2>1, WriteKeepsTypes
  <2>3. pc' \in [Workers -> Pc] /\ LoopInBounds'
    BY <2>1, GotoKeepsBounds DEF InLoop, Pc, DbCall
  <2> QED
    BY <2>1, <2>2, <2>3 DEF TypeOK, JobInBounds
<1>10. ASSUME NEW w \in Workers, Settle(w) PROVE TypeOK'
  <2>1. /\ index' \in [Workers -> 1 .. Len(steps) + 1]
        /\ pc' \in [Workers -> Pc]
        /\ currentData' \in [Workers -> Values]
        /\ fresh' \in [Workers -> BOOLEAN]
        /\ attemptsMade' \in [Workers -> 0 .. MaxAttempts - 1]
        /\ LoopInBounds'
    BY <1>10, ReturnKeepsBounds DEF Settle
  <2>2. job' \in Job(Workers) /\ JobInBounds'
    BY <1>10, JobKeepsBounds DEF Settle, HoldsLock, TypeOK, JobInBounds
  <2> QED
    BY <1>10, <2>1, <2>2 DEF Settle, TypeOK, RecordedOutputs
<1>11. ASSUME NEW w \in Workers, DbError(w) PROVE TypeOK'
  <2>1. /\ execution' \in ExecutionRow
        /\ stepExecution' \in [StepIds -> StepRow]
        /\ RecordedOutputs'
    BY <1>11, WriteKeepsTypes DEF DbError, TypeOK, RecordedOutputs
  <2>2. /\ Handler(pc[w]) \in {"throw", "fail", "catch"}
        /\ Handler(pc[w]) = "fail" => pc[w] \in InLoop
    BY <1>11 DEF DbError, Handler, InLoop
  <2>3. pc' \in [Workers -> Pc] /\ LoopInBounds'
    BY <1>11, <2>2, GotoKeepsBounds DEF DbError, InLoop, Pc, DbCall
  <2> QED
    BY <1>11, <2>1, <2>3 DEF DbError, TypeOK, JobInBounds
<1>12. ASSUME NEW w \in Workers, Crash(w) PROVE TypeOK'
  <2>1. /\ index' \in [Workers -> 1 .. Len(steps) + 1]
        /\ pc' \in [Workers -> Pc]
        /\ currentData' \in [Workers -> Values]
        /\ fresh' \in [Workers -> BOOLEAN]
        /\ attemptsMade' \in [Workers -> 0 .. MaxAttempts - 1]
        /\ LoopInBounds'
    BY <1>12, ReturnKeepsBounds DEF Crash
  <2> QED
    BY <1>12, <2>1 DEF Crash, TypeOK, JobInBounds, RecordedOutputs
<1>13. ASSUME BackoffEnds \/ LockExpires PROVE TypeOK'
  <2>1. job' \in Job(Workers) /\ JobInBounds'
    BY <1>13, JobKeepsBounds DEF BackoffEnds, LockExpires
  <2> QED
    BY <1>13, <2>1
    DEF BackoffEnds, LockExpires, TypeOK, LoopInBounds, RecordedOutputs
<1>14. ASSUME UNCHANGED vars PROVE TypeOK'
  BY <1>14 DEF vars, TypeOK, JobInBounds, LoopInBounds, RecordedOutputs
<1> QED
  BY <1>1, <1>2, <1>3, <1>4, <1>5, <1>6, <1>7, <1>8, <1>9, <1>10, <1>11, <1>12,
     <1>13, <1>14 DEF Next, Run, Finished

\* For any number of slots, any definitions and whatever faults happen, the
\* rows, the job's counters and the calls' variables keep their types, a call
\* in the loop has a step to work on, and a SUCCEEDED row has an output.
THEOREM TypeCorrect == Spec => []TypeOK
<1>1. Init => TypeOK
  BY TypeInit
<1>2. TypeOK /\ [Next]_vars => TypeOK'
  BY TypeNext
<1> QED
  BY <1>1, <1>2, PTL DEF Spec

\* What was chosen at the start stays as it is.
LEMMA SnapshotKept == [Next]_vars => UNCHANGED snapshot
BY DEF Next, Take, Run, Begin, Create, ReadSucceeded, ReadUnfinished, Start,
   ExecuteStep, SaveResult, Skip, RecordStepFailure, Succeed,
   RecordAttemptFailure, Settle, DbError, Crash, BackoffEnds, LockExpires,
   Finished, vars, snapshot

-----------------------------------------------------------------------------
(* Rows and steps, for the theorems about definitions with distinct ids. *)

\* The position of a step in the definition names a typed step with a row.
LEMMA RowOfTypes ==
  ASSUME TypeOK
  PROVE  /\ Len(steps) \in Nat
         /\ \A i \in 1 .. Len(steps) :
              /\ steps[i] \in WorkflowStep /\ steps[i].id \in StepIds
              /\ RowOf(i) \in StepRow
<1>1. steps \in Seq(WorkflowStep)
  BY DefinitionsAreSteps DEF TypeOK
<1>2. ASSUME NEW i \in 1 .. Len(steps)
      PROVE  /\ steps[i] \in WorkflowStep /\ steps[i].id \in StepIds
             /\ RowOf(i) \in StepRow
  <2>1. steps[i] \in WorkflowStep
    BY <1>1
  <2>2. steps[i].id \in StepIds
    BY <2>1 DEF WorkflowStep
  <2> QED
    BY <2>1, <2>2 DEF TypeOK, RowOf
<1> QED
  BY <1>1, <1>2

\* The write of one row leaves the rows of the other steps alone.
LEMMA UpdatedRows ==
  ASSUME TypeOK, DistinctIds, NEW w \in Workers, pc[w] \in InLoop, NEW row,
         UpdateStep(w, row), UNCHANGED steps
  PROVE  /\ index[w] \in 1 .. Len(steps)
         /\ \A i \in 1 .. Len(steps) :
              RowOf(i)' = IF i = index[w] THEN row ELSE RowOf(i)
<1>1. index[w] \in 1 .. Len(steps)
  BY StepInBounds
<1>2. \A i \in 1 .. Len(steps) : steps[i].id \in StepIds
  BY RowOfTypes
<1> QED
  BY <1>1, <1>2 DEF UpdateStep, RowOf, Step, DistinctIds, TypeOK

\* createMany and the updateMany of a filter change the status of the rows
\* they select, and nothing else.
LEMMA SelectedRows ==
  ASSUME TypeOK, NEW w \in Workers, UNCHANGED steps, NEW i \in 1 .. Len(steps)
  PROVE  /\ CreateSteps =>
              RowOf(i)' = IF RowOf(i).status = "ABSENT"
                          THEN [RowOf(i) EXCEPT !.status = "PENDING"] ELSE RowOf(i)
         /\ SkipRemaining(w) =>
              /\ i > index[w] =>
                   RowOf(i)' = IF RowOf(i).status = "PENDING"
                               THEN [RowOf(i) EXCEPT !.status = "SKIPPED"] ELSE RowOf(i)
              /\ DistinctIds /\ i <= index[w] => RowOf(i)' = RowOf(i)
<1>1. steps[i].id \in StepIds /\ Len(steps) \in Nat
  BY RowOfTypes
<1>2. CreateSteps =>
        RowOf(i)' = IF RowOf(i).status = "ABSENT"
                    THEN [RowOf(i) EXCEPT !.status = "PENDING"] ELSE RowOf(i)
  BY <1>1 DEF CreateSteps, IdsFrom, RowOf
<1>3. index[w] \in Nat
  BY <1>1 DEF TypeOK
<1>4. ASSUME SkipRemaining(w), i > index[w]
      PROVE  RowOf(i)' = IF RowOf(i).status = "PENDING"
                         THEN [RowOf(i) EXCEPT !.status = "SKIPPED"] ELSE RowOf(i)
  <2>1. steps[i].id \in IdsFrom(index[w] + 1)
    BY <1>1, <1>3, <1>4 DEF IdsFrom
  <2> QED
    BY <1>1, <1>4, <2>1 DEF SkipRemaining, RowOf
<1>5. ASSUME SkipRemaining(w), DistinctIds, i <= index[w] PROVE RowOf(i)' = RowOf(i)
  <2>1. steps[i].id \notin IdsFrom(index[w] + 1)
    BY <1>1, <1>3, <1>5 DEF IdsFrom, DistinctIds
  <2> QED
    BY <1>1, <1>5, <2>1 DEF SkipRemaining, RowOf
<1> QED
  BY <1>2, <1>4, <1>5

-----------------------------------------------------------------------------
(* One call at a time. *)

LEMMA ExclusiveNext ==
  TypeOK /\ ExclusiveRun /\ "lockLoss" \notin faults /\ [Next]_vars => ExclusiveRun'
<1> SUFFICES ASSUME TypeOK, ExclusiveRun, "lockLoss" \notin faults, [Next]_vars
             PROVE  ExclusiveRun'
  OBVIOUS
<1> USE DEF ExclusiveRun, HoldsLock
<1>1. pc \in [Workers -> Pc] /\ job \in Job(Workers)
  BY DEF TypeOK
<1>2. ASSUME NEW w \in Workers, Take(w) PROVE ExclusiveRun'
  <2>1. \A v \in Workers : pc[v] = "idle"
    BY <1>2 DEF Take
  <2>2. job'.state = "active" /\ job'.lock = w
    BY <1>1, <1>2 DEF Take, Acquired, Job
  <2> QED
    BY <1>1, <1>2, <2>1, <2>2 DEF Take, Goto
<1>3. ASSUME NEW w \in Workers, Settle(w) \/ Crash(w) PROVE ExclusiveRun'
  <2>1. HoldsLock(w) /\ \A v \in Workers \ {w} : pc[v] = "idle"
    BY <1>3 DEF Settle, Crash
  <2> QED
    BY <1>1, <1>3, <2>1 DEF Settle, Crash, Return, Goto
<1>4. ASSUME NEW w \in Workers, pc[w] # "idle", UNCHANGED job,
             \E call \in Pc : Goto(w, call)
      PROVE  ExclusiveRun'
  BY <1>1, <1>4 DEF Goto
<1>5. ASSUME NEW w \in Workers, Run(w), ~ Settle(w) PROVE ExclusiveRun'
  <2>1. pc[w] # "idle" /\ UNCHANGED job
    BY <1>5 DEF Run, Begin, Create, ReadSucceeded, ReadUnfinished, Start,
         ExecuteStep, SaveResult, Skip, RecordStepFailure, Succeed,
         RecordAttemptFailure, DbError, DbCall
  <2>2. \E call \in Pc : Goto(w, call)
    BY <1>5 DEF Run, Begin, Create, ReadSucceeded, ReadUnfinished, Start,
         ExecuteStep, SaveResult, Skip, RecordStepFailure, Succeed,
         RecordAttemptFailure, DbError, Advance, Handler, Pc, DbCall
  <2> QED
    BY <1>4, <2>1, <2>2
<1>6. ASSUME BackoffEnds \/ LockExpires PROVE ExclusiveRun'
  <2>1. \A v \in Workers : pc[v] = "idle"
    BY <1>1, <1>6 DEF BackoffEnds, LockExpires
  <2> QED
    BY <1>6, <2>1 DEF BackoffEnds, LockExpires
<1>7. ASSUME UNCHANGED vars PROVE ExclusiveRun'
  BY <1>7 DEF vars
<1> QED
  BY <1>2, <1>3, <1>5, <1>6, <1>7 DEF Next, Finished, Run

\* If live workers renew their locks in time, then at most one call works on
\* an execution, and it holds the job's lock: crashes, database errors and
\* lost acknowledgements cannot make two calls interleave.
THEOREM Exclusive ==
  ASSUME \A F \in FaultSets : "lockLoss" \notin F
  PROVE  Spec => []ExclusiveRun
<1>1. Init => ExclusiveRun
  BY DEF Init, ExclusiveRun
<1>2. TypeOK /\ ExclusiveRun /\ [Next]_vars => ExclusiveRun'
  BY ExclusiveNext DEF TypeOK
<1> QED
  BY <1>1, <1>2, TypeCorrect, PTL DEF Spec

-----------------------------------------------------------------------------
(* Giving up. *)

LEMMA AttemptsNext == TypeOK /\ AttemptsKnown /\ [Next]_vars => AttemptsKnown'
<1> SUFFICES ASSUME TypeOK, AttemptsKnown, [Next]_vars PROVE AttemptsKnown'
  OBVIOUS
<1>1. /\ pc \in [Workers -> Pc]
      /\ job \in Job(Workers)
      /\ attemptsMade \in [Workers -> 0 .. MaxAttempts - 1]
      /\ MaxAttempts \in Nat \ {0}
  BY JobLimits DEF TypeOK
<1>2. job.attemptsMade \in Nat
  BY <1>1 DEF Job
<1>3. ASSUME NEW w \in Workers, Take(w) PROVE AttemptsKnown'
  <2>1. job'.attemptsMade = job.attemptsMade
    BY <1>1, <1>3 DEF Take, Acquired, Job
  <2> QED
    BY <1>1, <1>2, <1>3, <2>1 DEF Take, Goto, AttemptsKnown
<1>4. ASSUME NEW w \in Workers, Settle(w) PROVE AttemptsKnown'
  <2>1. job'.attemptsMade \in {job.attemptsMade, job.attemptsMade + 1}
    BY <1>1, <1>4 DEF Settle, Completed, Rejected, Job
  <2>2. pc' = [pc EXCEPT ![w] = "idle"]
        /\ attemptsMade' = [attemptsMade EXCEPT ![w] = 0]
    BY <1>4 DEF Settle, Return, Goto
  <2> QED
    BY <1>1, <1>2, <2>1, <2>2 DEF AttemptsKnown
<1>5. ASSUME NEW w \in Workers, Crash(w) PROVE AttemptsKnown'
  BY <1>1, <1>2, <1>5 DEF Crash, Return, Goto, AttemptsKnown
<1>6. ASSUME NEW w \in Workers, Run(w), ~ Settle(w) PROVE AttemptsKnown'
  <2>1. pc[w] # "idle" /\ UNCHANGED <<job, attemptsMade>>
    BY <1>6 DEF Run, Begin, Create, ReadSucceeded, ReadUnfinished, Start,
         ExecuteStep, SaveResult, Skip, RecordStepFailure, Succeed,
         RecordAttemptFailure, DbError, DbCall, locals
  <2>2. \A v \in Workers \ {w} : pc'[v] = pc[v]
    BY <1>1, <1>6 DEF Run, Begin, Create, ReadSucceeded, ReadUnfinished, Start,
         ExecuteStep, SaveResult, Skip, RecordStepFailure, Succeed,
         RecordAttemptFailure, DbError, Advance, Goto
  <2> QED
    BY <2>1, <2>2 DEF AttemptsKnown
<1>7. ASSUME BackoffEnds \/ LockExpires PROVE AttemptsKnown'
  <2>1. job'.attemptsMade = job.attemptsMade
    BY <1>1, <1>7 DEF BackoffEnds, LockExpires, Promoted, Stalled, Job
  <2> QED
    BY <1>7, <2>1 DEF BackoffEnds, LockExpires, locals, AttemptsKnown
<1>8. ASSUME UNCHANGED vars PROVE AttemptsKnown'
  BY <1>8 DEF vars, AttemptsKnown
<1> QED
  BY <1>3, <1>4, <1>5, <1>6, <1>7, <1>8 DEF Next, Finished, Run

\* Every write but the catch of process leaves FAILED behind only if it found it.
LEMMA WriteFails ==
  ASSUME TypeOK, NEW w \in Workers, Write(w), execution'.status = "FAILED"
  PROVE  execution.status = "FAILED" \/ IsFinalAttempt(w)
<1>1. execution \in ExecutionRow
  BY DEF TypeOK
<1>2. CASE MarkRunning
  BY <1>2 DEF MarkRunning
<1>3. CASE MarkSucceeded
  <2>1. execution'.status = "SUCCEEDED"
    BY <1>1, <1>3 DEF MarkSucceeded, ExecutionRow
  <2> QED
    BY <2>1
<1>4. CASE MarkAttemptFailed(w)
  BY <1>4 DEF MarkAttemptFailed
<1>5. CASE UNCHANGED execution
  BY <1>5
<1> QED
  BY <1>2, <1>3, <1>4, <1>5 DEF Write, CreateSteps, StartStep, SaveStep,
     SkipRemaining, FailStep, UpdateStep

LEMMA GivenUpNext ==
  TypeOK /\ AttemptsKnown /\ FailedMeansAttemptsExhausted /\ [Next]_vars
    => FailedMeansAttemptsExhausted'
<1> SUFFICES ASSUME TypeOK, AttemptsKnown, FailedMeansAttemptsExhausted, [Next]_vars,
                    execution'.status = "FAILED"
             PROVE  job'.attemptsMade + 1 >= MaxAttempts
  BY DEF FailedMeansAttemptsExhausted
<1>1. /\ job \in Job(Workers)
      /\ attemptsMade \in [Workers -> 0 .. MaxAttempts - 1]
      /\ MaxAttempts \in Nat \ {0}
  BY JobLimits DEF TypeOK
<1>2. job.attemptsMade \in Nat
  BY <1>1 DEF Job
<1>3. job'.attemptsMade \in {job.attemptsMade, job.attemptsMade + 1}
  BY <1>1 DEF Next, Take, Run, Begin, Create, ReadSucceeded, ReadUnfinished, Start,
     ExecuteStep, SaveResult, Skip, RecordStepFailure, Succeed, RecordAttemptFailure,
     Settle, DbError, Crash, BackoffEnds, LockExpires, Finished, vars, Job,
     Acquired, Completed, Rejected, Stalled, Promoted
<1>4. ASSUME NEW w \in Workers, Write(w), pc[w] # "idle"
      PROVE  job.attemptsMade + 1 >= MaxAttempts
  <2>1. attemptsMade[w] <= job.attemptsMade /\ attemptsMade[w] \in Nat
    BY <1>1, <1>4 DEF AttemptsKnown
  <2>2. execution.status = "FAILED" \/ attemptsMade[w] + 1 >= MaxAttempts
    BY <1>4, WriteFails DEF IsFinalAttempt
  <2> QED
    BY <1>1, <1>2, <2>1, <2>2 DEF FailedMeansAttemptsExhausted
<1>5. (\E w \in Workers : Write(w) /\ pc[w] # "idle") \/ UNCHANGED execution
  BY DEF Next, Take, Run, Begin, Create, ReadSucceeded, ReadUnfinished, Start,
     ExecuteStep, SaveResult, Skip, RecordStepFailure, Succeed, RecordAttemptFailure,
     Settle, DbError, DbCall, Crash, BackoffEnds, LockExpires, Finished, vars
<1>6. job.attemptsMade + 1 >= MaxAttempts
  BY <1>4, <1>5 DEF FailedMeansAttemptsExhausted
<1> QED
  BY <1>1, <1>2, <1>3, <1>6

\* Whatever happens, locks lost by live workers included, an execution is
\* FAILED only once its job is in, or past, its last attempt.
THEOREM GivenUpLast == Spec => []FailedMeansAttemptsExhausted
<1>1. Init => AttemptsKnown /\ FailedMeansAttemptsExhausted
  BY DEF Init, AttemptsKnown, FailedMeansAttemptsExhausted
<1> QED
  BY <1>1, AttemptsNext, GivenUpNext, TypeCorrect, PTL DEF Spec

-----------------------------------------------------------------------------
(* Recorded results. *)

\* What a call that is alone needs to leave behind.
LEMMA RowAtCallNext ==
  ASSUME \A F \in FaultSets : F \intersect {"lockLoss", "lostAck"} = {}
  PROVE  TypeOK /\ ExclusiveRun /\ RowAtCall /\ [Next]_vars => RowAtCall'
<1> SUFFICES ASSUME TypeOK, ExclusiveRun, RowAtCall, [Next]_vars PROVE RowAtCall'
  OBVIOUS
<1> DEFINE AtCall(w) ==
      /\ pc[w] = "start" => Row(w).status # "SUCCEEDED"
      /\ pc[w] \in {"exec", "save"} => Row(w).status = "RUNNING"
      /\ pc[w] = "fail" => Row(w).status = "RUNNING" \/ Stopped(index[w])
      /\ pc[w] = "skip" => Stopped(index[w])
<1>1. pc \in [Workers -> Pc] /\ index \in [Workers -> 1 .. Len(steps) + 1]
      /\ stepExecution \in [StepIds -> StepRow]
      /\ "lostAck" \notin faults
  BY DEF TypeOK
<1>2. ASSUME NEW w \in Workers, pc[w] # "idle",
             \A v \in Workers \ {w} : pc'[v] = pc[v], AtCall(w)'
      PROVE  RowAtCall'
  <2>1. \A v \in Workers \ {w} : pc'[v] = "idle"
    BY <1>2 DEF ExclusiveRun, HoldsLock
  <2> QED
    BY <1>2, <2>1 DEF RowAtCall
<1>3. ASSUME NEW w \in Workers, Take(w) PROVE RowAtCall'
  <2>1. pc' = [pc EXCEPT ![w] = "begin"] /\ UNCHANGED <<steps, index, stepExecution>>
    BY <1>3 DEF Take, Goto, snapshot
  <2> QED
    BY <1>1, <2>1 DEF RowAtCall, Row, Step, Stopped, RowOf
<1>4. ASSUME NEW w \in Workers, Settle(w) \/ Crash(w) PROVE RowAtCall'
  <2>1. pc' = [pc EXCEPT ![w] = "idle"] /\ pc[w] # "idle"
    BY <1>4 DEF Settle, Crash, Return, Goto
  <2> QED
    BY <1>1, <1>2, <2>1
<1>5. ASSUME NEW w \in Workers, Run(w), ~ Settle(w) PROVE RowAtCall'
  <2>1. pc[w] # "idle" /\ \A v \in Workers \ {w} : pc'[v] = pc[v]
    BY <1>1, <1>5 DEF Run, Begin, Create, ReadSucceeded, ReadUnfinished, Start,
         ExecuteStep, SaveResult, Skip, RecordStepFailure, Succeed,
         RecordAttemptFailure, DbError, DbCall, Advance, Goto
  <2>2. CASE Begin(w) \/ Create(w) \/ ReadSucceeded(w) \/ Skip(w)
             \/ RecordStepFailure(w) \/ Succeed(w) \/ RecordAttemptFailure(w)
    BY <1>1, <1>2, <2>1, <2>2 DEF Begin, Create, ReadSucceeded, Skip,
       RecordStepFailure, Succeed, RecordAttemptFailure, Advance, Goto
  <2>3. CASE ReadUnfinished(w)
    BY <1>1, <1>2, <2>1, <2>3 DEF ReadUnfinished, Goto, Row, Step, snapshot
  <2>4. CASE Start(w)
    <3>1. pc'[w] = "exec" /\ UNCHANGED <<steps, index>>
      BY <1>1, <2>4 DEF Start, Goto, snapshot, locals
    <3>2. Row(w) \in StepRow /\ Step(w).id \in StepIds
      BY <2>4, StepInBounds DEF Start, InLoop
    <3>3. StartStep(w)
      BY <2>4 DEF Start, Write
    <3>4. Row(w)'.status = "RUNNING"
      BY <1>1, <3>1, <3>2, <3>3 DEF StartStep, UpdateStep, Row, Step, StepRow
    <3> QED
      BY <1>2, <2>1, <3>1, <3>4
  <2>5. CASE ExecuteStep(w)
    <3>1. pc'[w] \in {"save", "fail"} /\ pc[w] = "exec"
          /\ UNCHANGED <<steps, index, stepExecution>>
      BY <1>1, <2>5 DEF ExecuteStep, Goto, snapshot
    <3>2. Row(w)'.status = "RUNNING"
      BY <3>1 DEF RowAtCall, Row, Step
    <3> QED
      BY <1>2, <2>1, <3>1, <3>2
  <2>6. CASE SaveResult(w)
    <3>1. CASE ~ StopsHere(w)
      <4>1. pc'[w] \in {"succeed", "read"}
        BY <1>1, <2>6, <3>1 DEF SaveResult, Advance, Goto
      <4> QED
        BY <1>2, <2>1, <4>1
    <3>2. CASE StopsHere(w)
      <4>1. pc'[w] \in {"skip", "succeed"} /\ UNCHANGED <<steps, index>>
        BY <1>1, <2>6, <3>2 DEF SaveResult, Goto, snapshot
      <4>2. Row(w) \in StepRow /\ Step(w).id \in StepIds
        BY <2>6, StepInBounds DEF SaveResult, InLoop
      <4>3. SaveStep(w)
        BY <2>6 DEF SaveResult, Write
      <4>4. RowOf(index[w])'.status = "SUCCEEDED"
            /\ RowOf(index[w])'.output = currentData[w]
        BY <1>1, <4>1, <4>2, <4>3 DEF SaveStep, UpdateStep, Row, RowOf, Step, StepRow
      <4>5. Stopped(index[w])'
        BY <3>2, <4>1, <4>4 DEF Stopped, StopsHere, Step
      <4> QED
        BY <1>2, <2>1, <4>1, <4>5
    <3> QED
      BY <3>1, <3>2
  <2>7. CASE DbError(w)
    <3>1. UNCHANGED <<steps, index, stepExecution>>
      BY <1>1, <2>7 DEF DbError, snapshot, locals
    <3>2. /\ pc'[w] \in {"throw", "fail", "catch"}
          /\ pc'[w] = "fail" => pc[w] \in {"save", "skip"}
      BY <1>1, <2>7 DEF DbError, DbCall, Handler, Goto
    <3> QED
      BY <1>2, <2>1, <3>1, <3>2 DEF RowAtCall, Row, RowOf, Step, Stopped
  <2> QED
    BY <1>5, <2>2, <2>3, <2>4, <2>5, <2>6, <2>7 DEF Run
<1>6. ASSUME UNCHANGED <<steps, pc, index, stepExecution>> PROVE RowAtCall'
  BY <1>6 DEF RowAtCall, Row, RowOf, Step, Stopped
<1> QED
  BY <1>3, <1>4, <1>5, <1>6
  DEF Next, Run, BackoffEnds, LockExpires, Finished, vars, snapshot, locals

\* A step replaces a SUCCEEDED row only where a call is at "fail" with a filter
\* that has stopped: every other write meets a row that is not SUCCEEDED.
LEMMA ResultIsFinalNext ==
  ASSUME \A F \in FaultSets : F \intersect {"lockLoss", "lostAck"} = {},
         TypeOK, RowAtCall, Next, DistinctIds,
         NEW i \in 1 .. Len(steps), RowOf(i).status = "SUCCEEDED", ~ Stopped(i)
  PROVE  RowOf(i)' = RowOf(i)
<1>1. stepExecution \in [StepIds -> StepRow] /\ steps[i].id \in StepIds
  <2>1. steps \in Seq(WorkflowStep)
    BY DefinitionsAreSteps DEF TypeOK
  <2>2. steps[i] \in WorkflowStep
    BY <2>1
  <2>3. steps[i].id \in StepIds
    BY <2>2 DEF WorkflowStep
  <2> QED
    BY <2>3 DEF TypeOK
<1>2. UNCHANGED steps
  BY DEF Next, Take, Run, Begin, Create, ReadSucceeded, ReadUnfinished, Start,
     ExecuteStep, SaveResult, Skip, RecordStepFailure, Succeed, RecordAttemptFailure,
     Settle, DbError, Crash, BackoffEnds, LockExpires, Finished, vars, snapshot
<1>3. CASE UNCHANGED stepExecution
  BY <1>2, <1>3 DEF RowOf
<1>4. ASSUME NEW w \in Workers, Write(w) PROVE RowOf(i)' = RowOf(i)
  <2>1. ASSUME NEW row, pc[w] \in {"start", "save", "fail"}, UpdateStep(w, row)
        PROVE  RowOf(i)' = RowOf(i)
    <3>1. index[w] \in 1 .. Len(steps) /\ Step(w).id \in StepIds
      BY <2>1, StepInBounds DEF InLoop
    <3>2. CASE index[w] = i
      <4>1. Row(w).status = "SUCCEEDED" /\ ~ Stopped(index[w])
        BY <3>2 DEF Row, RowOf, Step
      <4> QED
        BY <2>1, <4>1 DEF RowAtCall
    <3>3. CASE index[w] # i
      <4>1. steps[i].id # Step(w).id
        BY <3>1, <3>3 DEF DistinctIds, Step
      <4> QED
        BY <1>1, <1>2, <2>1, <4>1 DEF UpdateStep, RowOf
    <3> QED
      BY <3>2, <3>3
  <2>2. CASE MarkRunning \/ MarkSucceeded \/ MarkAttemptFailed(w)
    BY <1>3, <2>2 DEF MarkRunning, MarkSucceeded, MarkAttemptFailed
  <2>3. CASE CreateSteps \/ SkipRemaining(w)
    BY <1>1, <1>2, <2>3 DEF CreateSteps, SkipRemaining, RowOf
  <2> QED
    BY <1>4, <2>1, <2>2, <2>3 DEF Write, StartStep, SaveStep, FailStep
<1> QED
  BY <1>3, <1>4 DEF Next, Take, Run, Begin, Create, ReadSucceeded, ReadUnfinished,
     Start, ExecuteStep, SaveResult, Skip, RecordStepFailure, Succeed,
     RecordAttemptFailure, Settle, DbError, Crash, BackoffEnds, LockExpires,
     Finished, vars

\* Under crashes and database errors, for any number of steps, slots, attempts
\* and redeliveries: once recorded, a result is never recomputed or replaced,
\* except that of a filter that has stopped the workflow.
THEOREM ResultIsFinal ==
  ASSUME \A F \in FaultSets : F \intersect {"lockLoss", "lostAck"} = {}
  PROVE  Spec => RecordedResultIsFinal
<1>1. \A F \in FaultSets : "lockLoss" \notin F
  OBVIOUS
<1>2. Init => RowAtCall
  BY DEF Init, RowAtCall
<1>3. TypeOK /\ ExclusiveRun /\ RowAtCall /\ [Next]_vars => RowAtCall'
  BY RowAtCallNext
<1> DEFINE Final == DistinctIds =>
      \A i \in 1 .. Len(steps) :
        RowOf(i).status = "SUCCEEDED" /\ ~ Stopped(i) => RowOf(i)' = RowOf(i)
<1>4. TypeOK /\ RowAtCall /\ [Next]_vars => [Final]_vars
  BY ResultIsFinalNext
<1>5. Spec => [][Final]_vars
  <2> HIDE DEF Final
  <2> QED
    BY <1>1, <1>2, <1>3, <1>4, Exclusive, TypeCorrect, PTL DEF Spec
<1> QED
  BY <1>5 DEF RecordedResultIsFinal

-----------------------------------------------------------------------------
(* Every run of a step is paid for by a handout of the job. *)

\* The processor calls that may yet run step i.
Ahead(i) ==
  {w \in Workers : \/ pc[w] \in {"begin", "create"}
                   \/ pc[w] \in {"read", "start", "exec"} /\ index[w] <= i
                   \/ pc[w] = "save" /\ index[w] < i}

HandoutsBounded == Handouts <= MaxAttempts + MaxStalledCount

RunsPaidFor ==
  \A i \in 1 .. Len(steps) :
    IsFiniteSet(Ahead(i)) /\ ran[i] + Cardinality(Ahead(i)) <= Handouts

\* What each move of the job does to the number of handouts: only a handout
\* changes it.
LEMMA HandoutsMove ==
  ASSUME TypeOK
  PROVE  /\ Handouts \in Nat
         /\ \A w \in Workers : job.state = "waiting" /\ job' = Acquired(job, w)
                              => Handouts' = Handouts + 1
         /\ job.state = "active" /\ job' = Completed(job) => Handouts' = Handouts
         /\ job.state = "active" /\ job' = Rejected(job) => Handouts' = Handouts
         /\ job.state = "active" /\ job' = Stalled(job) => Handouts' = Handouts
         /\ job.state = "delayed" /\ job' = Promoted(job) => Handouts' = Handouts
<1>1. /\ job \in Job(Workers)
      /\ job.attemptsMade \in Nat /\ job.stalled \in Nat
  BY JobLimits DEF TypeOK, Job
<1>2. Handouts \in Nat
  BY <1>1 DEF Handouts
<1>3. ASSUME NEW w \in Workers, job.state = "waiting", job' = Acquired(job, w)
      PROVE  Handouts' = Handouts + 1
  <2>1. /\ job'.state = "active" /\ job'.attemptsMade = job.attemptsMade
        /\ job'.stalled = job.stalled
    BY <1>1, <1>3 DEF Acquired, Job
  <2> QED
    BY <1>1, <1>3, <2>1 DEF Handouts
<1>4. ASSUME job.state = "active", job' = Completed(job) PROVE Handouts' = Handouts
  <2>1. /\ job'.state = "completed" /\ job'.attemptsMade = job.attemptsMade
        /\ job'.stalled = job.stalled
    BY <1>1, <1>4 DEF Completed, Job
  <2> QED
    BY <1>1, <1>4, <2>1 DEF Handouts
<1>5. ASSUME job.state = "active", job' = Rejected(job) PROVE Handouts' = Handouts
  <2>1. /\ job'.state \in {"delayed", "failed"}
        /\ job'.attemptsMade = job.attemptsMade + 1 /\ job'.stalled = job.stalled
    BY <1>1, <1>5 DEF Rejected, Job
  <2> QED
    BY <1>1, <1>5, <2>1 DEF Handouts
<1>6. ASSUME job.state = "active", job' = Stalled(job) PROVE Handouts' = Handouts
  <2>1. /\ job'.state \in {"waiting", "failed"}
        /\ job'.attemptsMade = job.attemptsMade /\ job'.stalled = job.stalled + 1
    BY <1>1, <1>6 DEF Stalled, Job
  <2> QED
    BY <1>1, <1>6, <2>1 DEF Handouts
<1>7. ASSUME job.state = "delayed", job' = Promoted(job) PROVE Handouts' = Handouts
  <2>1. /\ job'.state = "waiting" /\ job'.attemptsMade = job.attemptsMade
        /\ job'.stalled = job.stalled
    BY <1>1, <1>7 DEF Promoted, Job
  <2> QED
    BY <1>1, <1>7, <2>1 DEF Handouts
<1> QED
  BY <1>2, <1>3, <1>4, <1>5, <1>6, <1>7

\* A step other than a handout leaves the number of handouts alone.
LEMMA HandoutsKept ==
  ASSUME TypeOK, [Next]_vars, \A w \in Workers : ~ Take(w)
  PROVE  Handouts' = Handouts
<1>1. CASE UNCHANGED job
  BY <1>1 DEF Handouts
<1>2. ASSUME NEW w \in Workers, Settle(w) PROVE Handouts' = Handouts
  BY <1>1, <1>2, HandoutsMove DEF Settle, HoldsLock
<1>3. CASE BackoffEnds \/ LockExpires
  BY <1>3, HandoutsMove DEF BackoffEnds, LockExpires
<1> QED
  BY <1>1, <1>2, <1>3 DEF Next, Run, Begin, Create, ReadSucceeded, ReadUnfinished,
     Start, ExecuteStep, SaveResult, Skip, RecordStepFailure, Succeed,
     RecordAttemptFailure, DbError, Crash, Finished, vars

LEMMA HandoutsNext == TypeOK /\ HandoutsBounded /\ [Next]_vars => HandoutsBounded'
<1> SUFFICES ASSUME TypeOK, HandoutsBounded, [Next]_vars PROVE HandoutsBounded'
  OBVIOUS
<1>1. ASSUME NEW w \in Workers, Take(w) PROVE HandoutsBounded'
  <2>1. job.attemptsMade \in Nat /\ job.stalled \in Nat
        /\ MaxAttempts \in Nat /\ MaxStalledCount \in Nat
    BY JobLimits DEF TypeOK, Job
  <2>2. job.attemptsMade < MaxAttempts /\ job.stalled <= MaxStalledCount
    BY <1>1 DEF Take, TypeOK, JobInBounds
  <2>3. Handouts' = Handouts + 1 /\ Handouts = job.attemptsMade + job.stalled
    BY <1>1, <2>1, HandoutsMove DEF Take, Handouts
  <2> QED
    BY <2>1, <2>2, <2>3 DEF HandoutsBounded
<1> QED
  BY <1>1, HandoutsKept DEF HandoutsBounded

LEMMA HandoutsInit == Init => HandoutsBounded
BY JobLimits DEF Init, AddedJob, Handouts, HandoutsBounded

\* Where no call comes closer to step i and none runs it, nothing is owed.
LEMMA FewerAhead ==
  ASSUME TypeOK, RunsPaidFor, NEW i \in 1 .. Len(steps),
         ran'[i] = ran[i], Ahead(i)' \subseteq Ahead(i), Handouts' = Handouts
  PROVE  IsFiniteSet(Ahead(i)') /\ ran'[i] + Cardinality(Ahead(i)') <= Handouts'
<1>1. IsFiniteSet(Ahead(i)) /\ ran[i] + Cardinality(Ahead(i)) <= Handouts
  BY DEF RunsPaidFor
<1>2. /\ IsFiniteSet(Ahead(i)')
      /\ Cardinality(Ahead(i)') <= Cardinality(Ahead(i))
  BY <1>1, FS_Subset
<1>3. /\ Cardinality(Ahead(i)) \in Nat /\ Cardinality(Ahead(i)') \in Nat
      /\ ran[i] \in Nat /\ Handouts \in Nat
  BY <1>1, <1>2, FS_CardinalityType, HandoutsMove DEF TypeOK
<1> QED
  BY <1>1, <1>2, <1>3

\* The call that is handed the job may run every step once.
LEMMA TakeIsPaidFor ==
  ASSUME TypeOK, RunsPaidFor, NEW w \in Workers, Take(w), NEW i \in 1 .. Len(steps)
  PROVE  IsFiniteSet(Ahead(i)') /\ ran'[i] + Cardinality(Ahead(i)') <= Handouts'
<1>1. IsFiniteSet(Ahead(i)) /\ ran[i] + Cardinality(Ahead(i)) <= Handouts
  BY DEF RunsPaidFor
<1>2. Ahead(i)' = Ahead(i) \union {w}
  BY DEF Take, Goto, Ahead, TypeOK
<1>3. w \notin Ahead(i)
  BY DEF Take, Ahead
<1>4. IsFiniteSet(Ahead(i)') /\ Cardinality(Ahead(i)') = Cardinality(Ahead(i)) + 1
  BY <1>1, <1>2, <1>3, FS_AddElement
<1>5. Handouts' = Handouts + 1 /\ ran' = ran
  BY HandoutsMove DEF Take
<1>6. Cardinality(Ahead(i)) \in Nat /\ ran[i] \in Nat /\ Handouts \in Nat
  BY <1>1, FS_CardinalityType, HandoutsMove DEF TypeOK
<1> QED
  BY <1>1, <1>4, <1>5, <1>6

\* A run of step i uses up the claim of the call that runs it.
LEMMA RunUsesClaim ==
  ASSUME TypeOK, RunsPaidFor, NEW w \in Workers, ExecuteStep(w),
         NEW i \in 1 .. Len(steps), Handouts' = Handouts
  PROVE  IsFiniteSet(Ahead(i)') /\ ran'[i] + Cardinality(Ahead(i)') <= Handouts'
<1>1. pc[w] = "exec" /\ index' = index /\ index[w] \in 1 .. Len(steps)
      /\ ran' = [ran EXCEPT ![index[w]] = @ + 1]
      /\ ran \in [1 .. Len(steps) -> Nat]
  BY StepInBounds DEF ExecuteStep, InLoop, TypeOK
<1>2. pc' \in {[pc EXCEPT ![w] = "save"], [pc EXCEPT ![w] = "fail"]}
  BY DEF ExecuteStep, Goto
<1>3. CASE i # index[w]
  <2>1. Ahead(i)' \subseteq Ahead(i)
    BY <1>1, <1>2, <1>3 DEF Ahead, TypeOK
  <2>2. ran'[i] = ran[i]
    BY <1>1, <1>3
  <2> QED
    BY <2>1, <2>2, FewerAhead
<1>4. CASE i = index[w]
  <2>1. IsFiniteSet(Ahead(i)) /\ ran[i] + Cardinality(Ahead(i)) <= Handouts
    BY DEF RunsPaidFor
  <2>2. w \in Ahead(i) /\ Ahead(i)' = Ahead(i) \ {w}
    BY <1>1, <1>2, <1>4 DEF Ahead, TypeOK
  <2>3. IsFiniteSet(Ahead(i)') /\ Cardinality(Ahead(i)') = Cardinality(Ahead(i)) - 1
    BY <2>1, <2>2, FS_RemoveElement
  <2>4. ran'[i] = ran[i] + 1
    BY <1>1, <1>4
  <2>5. Cardinality(Ahead(i)) \in Nat /\ ran[i] \in Nat /\ Handouts \in Nat
    BY <1>1, <2>1, FS_CardinalityType, HandoutsMove
  <2> QED
    BY <2>1, <2>3, <2>4, <2>5
<1> QED
  BY <1>3, <1>4

\* Every other step of a call leaves it where it was, or further on.
LEMMA OthersComeNoCloser ==
  ASSUME TypeOK, [Next]_vars, NEW i \in 1 .. Len(steps),
         \A w \in Workers : ~ Take(w) /\ ~ ExecuteStep(w)
  PROVE  Ahead(i)' \subseteq Ahead(i) /\ ran' = ran
<1>1. /\ pc \in [Workers -> Pc]
      /\ index \in [Workers -> 1 .. Len(steps) + 1]
      /\ Len(steps) \in Nat
  BY DefinitionsAreSteps DEF TypeOK
<1>2. CASE UNCHANGED <<pc, index, ran>>
  BY <1>2 DEF Ahead
<1>3. ASSUME NEW w \in Workers, Begin(w) \/ ReadUnfinished(w) \/ Start(w)
      PROVE  Ahead(i)' \subseteq Ahead(i) /\ ran' = ran
  <2>1. index' = index /\ ran' = ran
    BY <1>3 DEF Begin, ReadUnfinished, Start, locals
  <2>2. \/ pc[w] = "begin" /\ pc' = [pc EXCEPT ![w] = "create"]
        \/ pc[w] = "read" /\ pc' = [pc EXCEPT ![w] = "start"]
        \/ pc[w] = "start" /\ pc' = [pc EXCEPT ![w] = "exec"]
    BY <1>3 DEF Begin, ReadUnfinished, Start, Goto
  <2> QED
    BY <1>1, <2>1, <2>2 DEF Ahead
<1>4. ASSUME NEW w \in Workers, NEW j \in 1 .. Len(steps) + 1, Advance(w, j),
             ran' = ran,
             \/ pc[w] = "create" /\ j = 1
             \/ pc[w] \in {"read", "save"} /\ j = index[w] + 1
      PROVE  Ahead(i)' \subseteq Ahead(i) /\ ran' = ran
  <2>1. /\ index' = [index EXCEPT ![w] = j]
        /\ pc' \in {[pc EXCEPT ![w] = "succeed"], [pc EXCEPT ![w] = "read"]}
    BY <1>4 DEF Advance, Goto
  <2> QED
    BY <1>1, <1>4, <2>1 DEF Ahead
<1>5. ASSUME NEW w \in Workers, ran' = ran, index' = index,
             \E call \in {"skip", "succeed", "fail", "catch", "throw", "complete"} :
               Goto(w, call)
      PROVE  Ahead(i)' \subseteq Ahead(i) /\ ran' = ran
  BY <1>1, <1>5 DEF Ahead, Goto
<1>6. ASSUME NEW w \in Workers, ran' = ran, Return(w)
      PROVE  Ahead(i)' \subseteq Ahead(i) /\ ran' = ran
  BY <1>1, <1>6 DEF Ahead, Goto, Return
<1>7. ASSUME NEW w \in Workers, Create(w)
      PROVE  Ahead(i)' \subseteq Ahead(i) /\ ran' = ran
  BY <1>1, <1>4, <1>7 DEF Create
<1>8. ASSUME NEW w \in Workers, ReadSucceeded(w)
      PROVE  Ahead(i)' \subseteq Ahead(i) /\ ran' = ran
  <2>1. index[w] + 1 \in 1 .. Len(steps) + 1
    BY <1>8, StepInBounds DEF ReadSucceeded, InLoop
  <2> QED
    BY <1>4, <1>8, <2>1 DEF ReadSucceeded
<1>9. ASSUME NEW w \in Workers, SaveResult(w)
      PROVE  Ahead(i)' \subseteq Ahead(i) /\ ran' = ran
  <2>1. index[w] + 1 \in 1 .. Len(steps) + 1
    BY <1>9, StepInBounds DEF SaveResult, InLoop
  <2> QED
    BY <1>4, <1>5, <1>9, <2>1 DEF SaveResult
<1>10. ASSUME NEW w \in Workers,
              Skip(w) \/ RecordStepFailure(w) \/ Succeed(w) \/ RecordAttemptFailure(w)
       PROVE  Ahead(i)' \subseteq Ahead(i) /\ ran' = ran
  BY <1>5, <1>10 DEF Skip, RecordStepFailure, Succeed, RecordAttemptFailure, locals
<1>11. ASSUME NEW w \in Workers, DbError(w)
       PROVE  Ahead(i)' \subseteq Ahead(i) /\ ran' = ran
  BY <1>5, <1>11 DEF DbError, Handler, locals
<1>12. ASSUME NEW w \in Workers, Settle(w) \/ Crash(w)
       PROVE  Ahead(i)' \subseteq Ahead(i) /\ ran' = ran
  BY <1>6, <1>12 DEF Settle, Crash
<1> QED
  BY <1>2, <1>3, <1>7, <1>8, <1>9, <1>10, <1>11, <1>12
  DEF Next, Run, BackoffEnds, LockExpires, Finished, vars, locals

LEMMA RunsPaidForNext == TypeOK /\ RunsPaidFor /\ [Next]_vars => RunsPaidFor'
<1> SUFFICES ASSUME TypeOK, RunsPaidFor, [Next]_vars, NEW i \in 1 .. Len(steps)
             PROVE  /\ IsFiniteSet(Ahead(i)')
                    /\ ran'[i] + Cardinality(Ahead(i)') <= Handouts'
  BY SnapshotKept DEF RunsPaidFor, snapshot
<1>1. CASE \E w \in Workers : Take(w)
  BY <1>1, TakeIsPaidFor
<1>2. CASE \E w \in Workers : ExecuteStep(w)
  <2>1. \A w \in Workers : ~ Take(w)
    BY <1>2 DEF Take, ExecuteStep, Goto, TypeOK
  <2> QED
    BY <1>2, <2>1, HandoutsKept, RunUsesClaim
<1>3. CASE \A w \in Workers : ~ Take(w) /\ ~ ExecuteStep(w)
  BY <1>3, HandoutsKept, OthersComeNoCloser, FewerAhead
<1> QED
  BY <1>1, <1>2, <1>3

\* Whatever fails, two calls at once included: a step is run at most once for
\* each time the queue hands the job out, and that is bounded by the attempts
\* and the redeliveries of a stalled job.
THEOREM RunsAlwaysBounded == Spec => []RunsAreBounded
<1>1. Init => RunsPaidFor
  <2> SUFFICES ASSUME Init PROVE RunsPaidFor
    OBVIOUS
  <2>1. Handouts = 0
    BY DEF Init, AddedJob, Handouts
  <2>2. \A i \in 1 .. Len(steps) : Ahead(i) = {} /\ ran[i] = 0
    BY DEF Init, Ahead
  <2> QED
    BY <2>1, <2>2, FS_EmptySet DEF RunsPaidFor
<1>2. TypeOK /\ HandoutsBounded /\ RunsPaidFor => RunsAreBounded
  <2> SUFFICES ASSUME TypeOK, HandoutsBounded, RunsPaidFor, NEW i \in 1 .. Len(steps)
               PROVE  ran[i] <= MaxAttempts + MaxStalledCount
    BY DEF RunsAreBounded
  <2>1. IsFiniteSet(Ahead(i)) /\ ran[i] + Cardinality(Ahead(i)) <= Handouts
    BY DEF RunsPaidFor
  <2>2. Cardinality(Ahead(i)) \in Nat /\ ran[i] \in Nat /\ Handouts \in Nat
        /\ MaxAttempts \in Nat /\ MaxStalledCount \in Nat
    BY <2>1, FS_CardinalityType, HandoutsMove, JobLimits DEF TypeOK
  <2> QED
    BY <2>1, <2>2 DEF HandoutsBounded
<1> QED
  BY <1>1, <1>2, HandoutsInit, HandoutsNext, RunsPaidForNext, TypeCorrect, PTL DEF Spec

-----------------------------------------------------------------------------
(* StepExecution.attempt. *)

\* A row that has not been started belongs to a step that has not run.
AttemptsCounted ==
  DistinctIds =>
    \A i \in 1 .. Len(steps) :
      /\ ran[i] <= RowOf(i).attempt /\ RowOf(i).attempt >= 1
      /\ RowOf(i).status \in {"ABSENT", "PENDING", "SKIPPED"} => ran[i] = 0

\* A call at the step's execution has counted it; fresh is still true of the row.
AttemptAtCall ==
  DistinctIds =>
    \A w \in Workers :
      /\ pc[w] = "start" /\ fresh[w] => Row(w).status = "PENDING"
      /\ pc[w] = "exec" => Row(w).status = "RUNNING" /\ ran[index[w]] < Row(w).attempt

\* The only call that runs is the one that moves.
LEMMA OthersIdle ==
  ASSUME TypeOK, ExclusiveRun, NEW w \in Workers, pc[w] # "idle",
         Run(w) \/ Crash(w)
  PROVE  \A v \in Workers \ {w} : pc'[v] = "idle"
<1>1. \A v \in Workers \ {w} : pc[v] = "idle"
  BY DEF ExclusiveRun, HoldsLock
<1>2. pc \in [Workers -> Pc]
  BY DEF TypeOK
<1> QED
  BY <1>1, <1>2 DEF Run, Begin, Create, ReadSucceeded, ReadUnfinished, Start,
     ExecuteStep, SaveResult, Skip, RecordStepFailure, Succeed,
     RecordAttemptFailure, Settle, DbError, Crash, Return, Advance, Goto

\* A write keeps the counts: it starts a row by counting it, or leaves the
\* number alone.
LEMMA WriteCounts ==
  ASSUME TypeOK, AttemptsCounted, AttemptAtCall, DistinctIds, UNCHANGED <<steps, ran>>,
         NEW w \in Workers, pc[w] # "idle", Write(w), NEW i \in 1 .. Len(steps)
  PROVE  /\ ran'[i] <= RowOf(i)'.attempt /\ RowOf(i)'.attempt >= 1
         /\ RowOf(i)'.status \in {"ABSENT", "PENDING", "SKIPPED"} => ran'[i] = 0
         /\ pc[w] = "start" /\ i = index[w] =>
              RowOf(i)'.status = "RUNNING" /\ ran'[i] < RowOf(i)'.attempt
<1>1. /\ RowOf(i) \in StepRow /\ RowOf(i).attempt \in Nat /\ ran[i] \in Nat
      /\ ran[i] <= RowOf(i).attempt /\ RowOf(i).attempt >= 1
      /\ RowOf(i).status \in {"ABSENT", "PENDING", "SKIPPED"} => ran[i] = 0
  BY RowOfTypes DEF TypeOK, StepRow, AttemptsCounted
<1>2. CASE pc[w] = "create" /\ CreateSteps
  <2>1. RowOf(i)'.attempt = RowOf(i).attempt
        /\ RowOf(i)'.status \in {RowOf(i).status, "PENDING"}
        /\ (RowOf(i)'.status # RowOf(i).status => RowOf(i).status = "ABSENT")
    BY <1>1, <1>2, SelectedRows DEF StepRow
  <2> QED
    BY <1>1, <1>2, <2>1
<1>3. CASE pc[w] = "skip" /\ SkipRemaining(w)
  <2>1. index[w] \in 1 .. Len(steps)
    BY <1>3, StepInBounds DEF InLoop
  <2>2. i > index[w] \/ i <= index[w]
    BY <2>1
  <2>3. RowOf(i)'.attempt = RowOf(i).attempt
        /\ (RowOf(i)'.status # RowOf(i).status => RowOf(i).status = "PENDING")
    BY <1>1, <1>3, <2>2, SelectedRows DEF StepRow
  <2> QED
    BY <1>1, <1>3, <2>3
<1>4. CASE pc[w] = "start" /\ StartStep(w)
  <2> DEFINE row == [Row(w) EXCEPT !.status = "RUNNING", !.input = currentData[w],
                                   !.attempt = IF fresh[w] THEN @ ELSE @ + 1]
  <2>1. RowOf(i)' = IF i = index[w] THEN row ELSE RowOf(i)
    BY <1>4, UpdatedRows DEF StartStep, InLoop
  <2>2. i = index[w] => Row(w) = RowOf(i)
    BY DEF Row, RowOf, Step
  <2>3. i = index[w] => /\ row.status = "RUNNING"
                        /\ row.attempt = IF fresh[w] THEN RowOf(i).attempt
                                                    ELSE RowOf(i).attempt + 1
    BY <1>1, <2>2 DEF StepRow
  <2>4. i = index[w] /\ fresh[w] => ran[i] = 0
    BY <1>1, <1>4, <2>2 DEF AttemptAtCall
  <2> HIDE DEF row
  <2> QED
    BY <1>1, <2>1, <2>3, <2>4
<1>5. CASE \/ pc[w] = "save" /\ SaveStep(w)
           \/ pc[w] = "fail" /\ FailStep(w)
  <2>1. PICK row : UpdateStep(w, row) /\ row \in
          {[Row(w) EXCEPT !.status = "SUCCEEDED", !.output = currentData[w]],
           [Row(w) EXCEPT !.status = "FAILED"]}
    BY <1>5 DEF SaveStep, FailStep
  <2>2. RowOf(i)' = IF i = index[w] THEN row ELSE RowOf(i)
    BY <1>5, <2>1, UpdatedRows DEF InLoop
  <2>3. i = index[w] => Row(w) = RowOf(i)
    BY DEF Row, RowOf, Step
  <2>4. i = index[w] => /\ row.status \in {"SUCCEEDED", "FAILED"}
                        /\ row.attempt = RowOf(i).attempt
    BY <1>1, <2>1, <2>3 DEF StepRow
  <2> QED
    BY <1>1, <1>5, <2>2, <2>4
<1>6. CASE pc[w] # "start" /\ UNCHANGED stepExecution
  BY <1>1, <1>6 DEF RowOf
<1> QED
  BY <1>2, <1>3, <1>4, <1>5, <1>6
  DEF Write, MarkRunning, MarkSucceeded, MarkAttemptFailed

LEMMA CountsNext ==
  TypeOK /\ ExclusiveRun /\ AttemptsCounted /\ AttemptAtCall /\ [Next]_vars
    => AttemptsCounted' /\ AttemptAtCall'
<1> SUFFICES ASSUME TypeOK, ExclusiveRun, AttemptsCounted, AttemptAtCall,
                    [Next]_vars, DistinctIds
             PROVE  AttemptsCounted' /\ AttemptAtCall'
  BY SnapshotKept DEF AttemptsCounted, AttemptAtCall, DistinctIds, snapshot
<1>1. /\ UNCHANGED steps
      /\ pc \in [Workers -> Pc]
      /\ index \in [Workers -> 1 .. Len(steps) + 1]
      /\ fresh \in [Workers -> BOOLEAN]
      /\ ran \in [1 .. Len(steps) -> Nat]
  BY SnapshotKept DEF TypeOK, snapshot
<1> DEFINE AtCall(w) ==
      /\ pc[w] = "start" /\ fresh[w] => Row(w).status = "PENDING"
      /\ pc[w] = "exec" => Row(w).status = "RUNNING" /\ ran[index[w]] < Row(w).attempt
<1>2. ASSUME NEW w \in Workers, pc[w] # "idle", Run(w) \/ Crash(w), AtCall(w)'
      PROVE  AttemptAtCall'
  BY <1>2, OthersIdle DEF AttemptAtCall
<1>3. ASSUME UNCHANGED <<stepExecution, ran>> PROVE AttemptsCounted'
  BY <1>1, <1>3 DEF AttemptsCounted, RowOf
<1>4. ASSUME NEW w \in Workers, pc[w] # "idle", Write(w), UNCHANGED ran
      PROVE  AttemptsCounted'
  BY <1>1, <1>4, WriteCounts DEF AttemptsCounted
<1>5. ASSUME NEW w \in Workers, Take(w) PROVE AttemptsCounted' /\ AttemptAtCall'
  <2>1. pc' = [pc EXCEPT ![w] = "begin"]
        /\ UNCHANGED <<stepExecution, ran, index, fresh>>
    BY <1>5 DEF Take, Goto
  <2> QED
    BY <1>1, <1>3, <2>1 DEF AttemptAtCall, Row, Step
<1>6. ASSUME NEW w \in Workers, Settle(w) \/ Crash(w)
      PROVE  AttemptsCounted' /\ AttemptAtCall'
  <2>1. pc' = [pc EXCEPT ![w] = "idle"] /\ pc[w] # "idle"
        /\ UNCHANGED <<stepExecution, ran>>
    BY <1>6 DEF Settle, Crash, Return, Goto
  <2> QED
    BY <1>1, <1>2, <1>3, <1>6, <2>1 DEF Run
<1>7. ASSUME NEW w \in Workers, Run(w), pc'[w] \notin {"start", "exec"},
             pc[w] # "idle", Write(w) \/ UNCHANGED stepExecution, UNCHANGED ran
      PROVE  AttemptsCounted' /\ AttemptAtCall'
  BY <1>2, <1>3, <1>4, <1>7
<1>8. ASSUME NEW w \in Workers,
             \/ Begin(w) \/ Create(w) \/ ReadSucceeded(w) \/ SaveResult(w) \/ Skip(w)
             \/ RecordStepFailure(w) \/ Succeed(w) \/ RecordAttemptFailure(w)
             \/ DbError(w)
      PROVE  AttemptsCounted' /\ AttemptAtCall'
  <2>1. /\ pc'[w] \notin {"start", "exec"} /\ pc[w] # "idle"
        /\ Write(w) \/ UNCHANGED stepExecution
        /\ UNCHANGED ran
    BY <1>1, <1>8 DEF Begin, Create, ReadSucceeded, SaveResult, Skip, DbCall,
       RecordStepFailure, Succeed, RecordAttemptFailure, DbError, Handler, Advance, Goto
  <2> QED
    BY <1>7, <1>8, <2>1 DEF Run
<1>9. ASSUME NEW w \in Workers, ReadUnfinished(w)
      PROVE  AttemptsCounted' /\ AttemptAtCall'
  <2>1. /\ pc[w] = "read" /\ pc'[w] = "start"
        /\ fresh'[w] = (Row(w).status = "PENDING")
        /\ UNCHANGED <<stepExecution, ran, index>>
    BY <1>1, <1>9 DEF ReadUnfinished, Goto
  <2>2. AtCall(w)'
    BY <1>1, <2>1 DEF Row, Step
  <2> QED
    BY <1>2, <1>3, <1>9, <2>1, <2>2 DEF Run
<1>10. ASSUME NEW w \in Workers, Start(w) PROVE AttemptsCounted' /\ AttemptAtCall'
  <2>1. /\ pc[w] = "start" /\ pc'[w] = "exec" /\ Write(w)
        /\ UNCHANGED <<ran, index>>
    BY <1>1, <1>10 DEF Start, Goto, locals
  <2>2. index[w] \in 1 .. Len(steps)
    BY <2>1, StepInBounds DEF InLoop
  <2>3. RowOf(index[w])' = Row(w)'
    BY <2>1 DEF RowOf, Row, Step
  <2>4. PICK i \in 1 .. Len(steps) : i = index[w]
    BY <2>2
  <2>5. RowOf(i)'.status = "RUNNING" /\ ran'[i] < RowOf(i)'.attempt
    BY <1>1, <2>1, <2>4, WriteCounts
  <2>6. AtCall(w)'
    BY <2>1, <2>4, <2>5 DEF RowOf, Row, Step
  <2> QED
    BY <1>2, <1>4, <1>10, <2>1, <2>6 DEF Run
<1>11. ASSUME NEW w \in Workers, ExecuteStep(w)
       PROVE  AttemptsCounted' /\ AttemptAtCall'
  <2>1. /\ pc[w] = "exec" /\ pc'[w] \in {"save", "fail"}
        /\ ran' = [ran EXCEPT ![index[w]] = @ + 1]
        /\ UNCHANGED stepExecution
    BY <1>1, <1>11 DEF ExecuteStep, Goto
  <2>2. index[w] \in 1 .. Len(steps) /\ Row(w) = RowOf(index[w])
    BY <2>1, StepInBounds DEF InLoop, Row, RowOf, Step
  <2>3. RowOf(index[w]).status = "RUNNING" /\ ran[index[w]] < RowOf(index[w]).attempt
    BY <2>1, <2>2 DEF AttemptAtCall
  <2>4. ASSUME NEW i \in 1 .. Len(steps)
        PROVE  /\ ran'[i] <= RowOf(i)'.attempt /\ RowOf(i)'.attempt >= 1
               /\ RowOf(i)'.status \in {"ABSENT", "PENDING", "SKIPPED"} => ran'[i] = 0
    <3>1. RowOf(i)' = RowOf(i) /\ RowOf(i).attempt \in Nat
      BY <1>1, <2>1, RowOfTypes DEF RowOf, StepRow
    <3>2. ran'[i] = IF i = index[w] THEN ran[i] + 1 ELSE ran[i]
      BY <1>1, <2>1, <2>2
    <3> QED
      BY <1>1, <2>3, <3>1, <3>2 DEF AttemptsCounted
  <2>5. AttemptsCounted'
    BY <1>1, <2>4 DEF AttemptsCounted
  <2> QED
    BY <1>2, <1>11, <2>1, <2>5 DEF Run
<1>12. ASSUME UNCHANGED <<steps, pc, index, fresh, ran, stepExecution>>
       PROVE  AttemptsCounted' /\ AttemptAtCall'
  BY <1>12 DEF AttemptsCounted, AttemptAtCall, DistinctIds, RowOf, Row, Step
<1> QED
  BY <1>5, <1>6, <1>8, <1>9, <1>10, <1>11, <1>12
  DEF Next, Run, BackoffEnds, LockExpires, Finished, vars, snapshot, locals

\* Under crashes, database errors and lost acknowledgements, for any number of
\* attempts: what the row says of a step's attempts is never less than how often
\* the step was run.
THEOREM AttemptsAlwaysCover ==
  ASSUME \A F \in FaultSets : "lockLoss" \notin F
  PROVE  Spec => []AttemptCoversRuns
<1>1. Init => AttemptsCounted /\ AttemptAtCall
  <2> SUFFICES ASSUME Init PROVE AttemptsCounted /\ AttemptAtCall
    OBVIOUS
  <2>1. TypeOK
    BY TypeInit
  <2>2. \A i \in 1 .. Len(steps) : RowOf(i).attempt = 1 /\ ran[i] = 0
    BY <2>1, RowOfTypes DEF Init, RowOf, NoRow
  <2> QED
    BY <2>2 DEF Init, AttemptsCounted, AttemptAtCall
<1>2. AttemptsCounted => AttemptCoversRuns
  BY DEF AttemptsCounted, AttemptCoversRuns
<1>3. Spec => []ExclusiveRun
  BY Exclusive
<1> QED
  BY <1>1, <1>2, <1>3, CountsNext, TypeCorrect, PTL DEF Spec

-----------------------------------------------------------------------------
(* Every step comes closer to the end. *)

\* Each way to move the job uses up one of the moves that are left.
LEMMA MovesUsedUp ==
  ASSUME TypeOK, HandoutsBounded, HandoutsBounded',
         \/ \E w \in Workers : job.state = "waiting" /\ job' = Acquired(job, w)
         \/ job.state = "active" /\ job' \in {Completed(job), Rejected(job), Stalled(job)}
         \/ job.state = "delayed" /\ job' = Promoted(job)
  PROVE  MovesLeft' \in Nat /\ MovesLeft' < MovesLeft
<1>1. /\ job \in Job(Workers) /\ Handouts \in Nat
      /\ MaxAttempts \in Nat /\ MaxStalledCount \in Nat
      /\ Handouts' <= MaxAttempts + MaxStalledCount
  BY JobLimits, HandoutsMove DEF TypeOK, HandoutsBounded
<1>2. CASE \E w \in Workers : job.state = "waiting" /\ job' = Acquired(job, w)
  <2>1. job'.state = "active" /\ Handouts' = Handouts + 1
    <3>1. PICK w \in Workers : job.state = "waiting" /\ job' = Acquired(job, w)
      BY <1>2
    <3>2. Handouts' = Handouts + 1
      BY <3>1, HandoutsMove
    <3>3. job'.state = "active"
      BY <1>1, <3>1 DEF Acquired, Job
    <3> QED
      BY <3>2, <3>3
  <2>2. MovesLeft = 3 * (MaxAttempts + MaxStalledCount - Handouts) + 1
    BY <1>2 DEF MovesLeft
  <2>3. MovesLeft' = 3 * (MaxAttempts + MaxStalledCount - Handouts') + 3
    BY <2>1 DEF MovesLeft
  <2> QED
    BY <1>1, <2>1, <2>2, <2>3
<1>3. CASE job.state = "active" /\ job' \in {Completed(job), Rejected(job), Stalled(job)}
  <2>1. Handouts' = Handouts
    BY <1>3, HandoutsMove
  <2>2. job'.state \in {"waiting", "delayed", "completed", "failed"}
    BY <1>1, <1>3 DEF Completed, Rejected, Stalled, Job
  <2>3. MovesLeft = 3 * (MaxAttempts + MaxStalledCount - Handouts) + 3
    BY <1>3 DEF MovesLeft
  <2>4. \E n \in 0 .. 2 : MovesLeft' = 3 * (MaxAttempts + MaxStalledCount - Handouts') + n
    BY <2>2 DEF MovesLeft
  <2> QED
    BY <1>1, <2>1, <2>3, <2>4
<1>4. CASE job.state = "delayed" /\ job' = Promoted(job)
  <2>1. job'.state = "waiting" /\ Handouts' = Handouts
    BY <1>1, <1>4, HandoutsMove DEF Promoted, Job
  <2>2. MovesLeft = 3 * (MaxAttempts + MaxStalledCount - Handouts) + 2
    BY <1>4 DEF MovesLeft
  <2>3. MovesLeft' = 3 * (MaxAttempts + MaxStalledCount - Handouts') + 1
    BY <2>1 DEF MovesLeft
  <2> QED
    BY <1>1, <2>1, <2>2, <2>3
<1> QED
  BY <1>2, <1>3, <1>4

\* Where the job stays as it is, one call comes closer to its return.
ComesCloser(w) ==
  /\ CallsLeft(w)' \in Nat /\ CallsLeft(w)' < CallsLeft(w)
  /\ \A v \in Workers \ {w} : CallsLeft(v)' = CallsLeft(v)

\* The calls that may follow one at the same step, an error included.
Follows(from, to) ==
  \/ from = "begin"  /\ to \in {"create", "throw"}
  \/ from = "create" /\ to = "catch"
  \/ from = "read"   /\ to \in {"start", "catch"}
  \/ from = "start"  /\ to \in {"exec", "catch"}
  \/ from = "exec"   /\ to \in {"save", "fail"}
  \/ from = "save"   /\ to \in {"skip", "succeed", "fail"}
  \/ from = "skip"   /\ to \in {"succeed", "fail"}
  \/ from = "fail"   /\ to = "catch"
  \/ from = "succeed" /\ to \in {"complete", "catch"}
  \/ from = "catch"  /\ to = "throw"

LEMMA FewerCallsFollow ==
  ASSUME NEW n \in Nat, NEW i \in Nat, NEW from, NEW to, Follows(from, to),
         from \in InLoop => i <= n
  PROVE  CallsFrom(to, i, n) \in Nat /\ CallsFrom(to, i, n) < CallsFrom(from, i, n)
<1>1. CASE from \in {"read", "start", "exec", "save"}
  <2>1. i <= n /\ 4 * (n - i) \in Nat
    BY <1>1 DEF InLoop
  <2> QED
    BY <1>1, <2>1 DEF Follows, CallsFrom
<1>2. CASE from \notin {"read", "start", "exec", "save"}
  BY <1>2 DEF Follows, CallsFrom
<1> QED
  BY <1>1, <1>2

LEMMA FewerCallsAhead ==
  ASSUME NEW n \in Nat, NEW i \in Nat, NEW from \in {"create", "read", "save"},
         NEW next \in 1 .. n + 1, from = "create" \/ next = i + 1
  PROVE  LET to == IF next > n THEN "succeed" ELSE "read"
         IN  /\ CallsFrom(to, next, n) \in Nat
             /\ CallsFrom(to, next, n) < CallsFrom(from, i, n)
<1>1. CASE next > n
  BY <1>1 DEF CallsFrom
<1>2. CASE next <= n
  BY <1>2 DEF CallsFrom
<1> QED
  BY <1>1, <1>2

LEMMA CallsAreLeft ==
  ASSUME NEW n \in Nat, NEW i \in Nat, NEW call \in Pc \ {"idle"}, call \in InLoop => i <= n
  PROVE  CallsFrom(call, i, n) \in Nat \ {0}
<1>1. CASE call \in {"read", "start", "exec", "save"}
  <2>1. i <= n /\ 4 * (n - i) \in Nat
    BY <1>1 DEF InLoop
  <2> QED
    BY <1>1, <2>1 DEF CallsFrom
<1>2. CASE call \notin {"read", "start", "exec", "save"}
  BY <1>2 DEF Pc, DbCall, CallsFrom
<1> QED
  BY <1>1, <1>2

\* A call that keeps its place in the loop goes on to a later one of its calls.
LEMMA GotoComesCloser ==
  ASSUME TypeOK, UNCHANGED <<steps, index>>, NEW w \in Workers, NEW call \in Pc,
         Goto(w, call), Follows(pc[w], call)
  PROVE  ComesCloser(w)
<1>1. /\ pc \in [Workers -> Pc] /\ Len(steps) \in Nat
      /\ index[w] \in Nat /\ (pc[w] \in InLoop => index[w] <= Len(steps))
  BY RowOfTypes DEF TypeOK, LoopInBounds
<1>2. pc'[w] = call /\ \A v \in Workers \ {w} : pc'[v] = pc[v]
  BY <1>1 DEF Goto
<1>3. \A v \in Workers \ {w} : CallsLeft(v)' = CallsLeft(v)
  BY <1>2 DEF CallsLeft
<1>4. CallsLeft(w)' \in Nat /\ CallsLeft(w)' < CallsLeft(w)
  BY <1>1, <1>2, FewerCallsFollow DEF CallsLeft
<1> QED
  BY <1>3, <1>4 DEF ComesCloser

\* The loop head is closer to the end than the save or the read before it.
LEMMA AdvanceComesCloser ==
  ASSUME TypeOK, UNCHANGED steps, NEW w \in Workers, NEW i \in 1 .. Len(steps) + 1,
         Advance(w, i),
         \/ pc[w] = "create" /\ i = 1
         \/ pc[w] \in {"read", "save"} /\ i = index[w] + 1
  PROVE  ComesCloser(w)
<1>1. /\ pc \in [Workers -> Pc] /\ Len(steps) \in Nat
      /\ index \in [Workers -> 1 .. Len(steps) + 1]
  BY RowOfTypes DEF TypeOK
<1>2. /\ pc'[w] = (IF i > Len(steps) THEN "succeed" ELSE "read") /\ index'[w] = i
      /\ \A v \in Workers \ {w} : pc'[v] = pc[v] /\ index'[v] = index[v]
  BY <1>1 DEF Advance, Goto
<1>3. \A v \in Workers \ {w} : CallsLeft(v)' = CallsLeft(v)
  BY <1>2 DEF CallsLeft
<1>4. CallsLeft(w)' \in Nat /\ CallsLeft(w)' < CallsLeft(w)
  <2>1. /\ index[w] \in Nat /\ pc[w] \in {"create", "read", "save"}
        /\ pc[w] = "create" \/ i = index[w] + 1
    BY <1>1
  <2>2. /\ CallsFrom(pc'[w], i, Len(steps)) \in Nat
        /\ CallsFrom(pc'[w], i, Len(steps)) < CallsFrom(pc[w], index[w], Len(steps))
    BY <1>1, <1>2, <2>1, FewerCallsAhead
  <2> QED
    BY <1>2, <2>2 DEF CallsLeft
<1> QED
  BY <1>3, <1>4 DEF ComesCloser

LEMMA ReturnComesCloser ==
  ASSUME TypeOK, UNCHANGED steps, NEW w \in Workers, pc[w] # "idle", Return(w)
  PROVE  ComesCloser(w)
<1>1. /\ pc \in [Workers -> Pc] /\ Len(steps) \in Nat
      /\ index \in [Workers -> 1 .. Len(steps) + 1]
      /\ (pc[w] \in InLoop => index[w] <= Len(steps))
  BY RowOfTypes DEF TypeOK, LoopInBounds
<1>2. /\ pc'[w] = "idle"
      /\ \A v \in Workers \ {w} : pc'[v] = pc[v] /\ index'[v] = index[v]
  BY <1>1 DEF Return, Goto
<1>3. \A v \in Workers \ {w} : CallsLeft(v)' = CallsLeft(v)
  BY <1>2 DEF CallsLeft
<1>4. CallsLeft(w)' = 0
  BY <1>2 DEF CallsLeft, CallsFrom
<1>5. CallsLeft(w) \in Nat \ {0}
  <2>1. index[w] \in Nat /\ pc[w] \in Pc \ {"idle"}
    BY <1>1
  <2>2. CallsFrom(pc[w], index[w], Len(steps)) \in Nat \ {0}
    BY <1>1, <2>1, CallsAreLeft
  <2> QED
    BY <2>2 DEF CallsLeft
<1> QED
  BY <1>3, <1>4, <1>5 DEF ComesCloser

LEMMA RunComesCloser ==
  ASSUME TypeOK, NEW w \in Workers, Run(w) \/ Crash(w), UNCHANGED steps
  PROVE  ComesCloser(w)
<1>1. CASE Begin(w) \/ ReadUnfinished(w) \/ Start(w) \/ Skip(w) \/ RecordStepFailure(w)
           \/ Succeed(w) \/ RecordAttemptFailure(w)
  BY <1>1, GotoComesCloser DEF Follows, Begin, ReadUnfinished, Start, Skip,
     RecordStepFailure, Succeed, RecordAttemptFailure, locals, Pc, DbCall
<1>2. CASE ExecuteStep(w)
  BY <1>2, GotoComesCloser DEF Follows, ExecuteStep, Pc, DbCall
<1>3. CASE Create(w)
  <2>1. 1 \in 1 .. Len(steps) + 1
    BY RowOfTypes
  <2> QED
    BY <1>3, <2>1, AdvanceComesCloser DEF Create
<1>4. CASE ReadSucceeded(w) \/ (SaveResult(w) /\ ~ StopsHere(w))
  <2>1. index[w] + 1 \in 1 .. Len(steps) + 1
    BY <1>4, StepInBounds DEF ReadSucceeded, SaveResult, InLoop
  <2> QED
    BY <1>4, <2>1, AdvanceComesCloser DEF ReadSucceeded, SaveResult
<1>5. CASE SaveResult(w) /\ StopsHere(w)
  BY <1>5, GotoComesCloser DEF Follows, SaveResult, Pc, DbCall
<1>6. CASE DbError(w)
  BY <1>6, GotoComesCloser DEF Follows, DbError, Handler, locals, Pc, DbCall
<1>7. CASE Settle(w) \/ Crash(w)
  BY <1>7, ReturnComesCloser DEF Settle, Crash
<1> QED
  BY <1>1, <1>2, <1>3, <1>4, <1>5, <1>6, <1>7 DEF Run

\* For every definition and every combination of faults: no error path leads
\* back, so each step of an execution uses up a move of its job or one of the
\* calls a processor call has left.  All that liveness adds is fairness.
THEOREM AlwaysComesCloser == Spec => EveryStepComesCloser
<1> DEFINE Closer ==
             \/ MovesLeft' \in Nat /\ MovesLeft' < MovesLeft
             \/ job' = job /\ \E w \in Workers : ComesCloser(w)
<1>1. TypeOK /\ HandoutsBounded /\ [Next]_vars => [Closer]_vars
  <2> SUFFICES ASSUME TypeOK, HandoutsBounded, HandoutsBounded', Next, UNCHANGED steps
               PROVE  Closer \/ UNCHANGED vars
    BY HandoutsNext, SnapshotKept DEF snapshot
  <2>1. CASE \E w \in Workers : Take(w)
    BY <2>1, MovesUsedUp DEF Take
  <2>2. ASSUME NEW w \in Workers, Settle(w) PROVE Closer
    <3>1. CASE HoldsLock(w)
      BY <2>2, <3>1, MovesUsedUp DEF Settle, HoldsLock
    <3>2. CASE ~ HoldsLock(w)
      BY <2>2, <3>2, RunComesCloser DEF Settle, Run
    <3> QED
      BY <3>1, <3>2
  <2>3. ASSUME NEW w \in Workers, (Run(w) /\ ~ Settle(w)) \/ Crash(w) PROVE Closer
    <3>1. job' = job
      BY <2>3 DEF Run, Crash, Begin, Create, ReadSucceeded, ReadUnfinished, Start,
         ExecuteStep, SaveResult, Skip, RecordStepFailure, Succeed,
         RecordAttemptFailure, DbError
    <3> QED
      BY <2>3, <3>1, RunComesCloser
  <2>4. CASE BackoffEnds \/ LockExpires
    BY <2>4, MovesUsedUp DEF BackoffEnds, LockExpires
  <2> QED
    BY <2>1, <2>2, <2>3, <2>4 DEF Next, Finished
<1>2. Closer <=> \/ MovesLeft' \in Nat /\ MovesLeft' < MovesLeft
                 \/ /\ job' = job
                    /\ \E w \in Workers :
                         /\ CallsLeft(w)' \in Nat /\ CallsLeft(w)' < CallsLeft(w)
                         /\ \A v \in Workers \ {w} : CallsLeft(v)' = CallsLeft(v)
  BY DEF ComesCloser
<1>3. Spec => []HandoutsBounded
  BY HandoutsNext, HandoutsInit, TypeCorrect, PTL DEF Spec
<1> QED
  BY <1>1, <1>2, <1>3, TypeCorrect, PTL DEF Spec, EveryStepComesCloser
=============================================================================

-------------------------- MODULE StepLedgerProofs --------------------------
(***************************************************************************)
(* WorkflowExecution implements StepLedger where the steps have ids of     *)
(* their own, locks are renewed and acknowledgements arrive.               *)
(***************************************************************************)
EXTENDS WorkflowResultsProofs

\* What executeStep can make of the input of step i.
Computed(i) ==
  CASE steps[i].type = "TRANSFORM"    -> {steps[i].template[InputOf(i)]}
    [] steps[i].type = "FILTER"       -> {InputOf(i)}
    [] steps[i].type = "HTTP_REQUEST" -> Values

\* What a call is about to save has been computed from the step's input.
SavesComputed ==
  \A w \in Workers : pc[w] = "save" => currentData[w] \in Computed(index[w])

LEMMA SavesComputedNext ==
  ASSUME TypeOK, ExclusiveRun, InOrder, DistinctIds, SavesComputed, [Next]_vars
  PROVE  SavesComputed'
<1>1. /\ UNCHANGED <<steps, payload>>
      /\ pc \in [Workers -> Pc]
      /\ currentData \in [Workers -> Values]
  BY SnapshotKept DEF TypeOK, snapshot
<1>2. ASSUME NEW w \in Workers, ExecuteStep(w) PROVE SavesComputed'
  <2>1. \A v \in Workers \ {w} : pc'[v] = "idle"
    BY <1>2, OthersIdle DEF Run, ExecuteStep
  <2>2. /\ pc[w] = "exec" /\ UNCHANGED <<stepExecution, index>>
        /\ currentData[w] = InputOf(index[w])
    BY <1>2 DEF ExecuteStep, InOrder, CallInOrder
  <2>3. pc'[w] = "save" => currentData'[w] \in Computed(index[w])
    <3>1. CASE Step(w).type = "TRANSFORM"
      BY <1>1, <1>2, <2>2, <3>1 DEF ExecuteStep, Computed, Step, Goto
    <3>2. CASE Step(w).type = "FILTER"
      BY <1>1, <1>2, <2>2, <3>2 DEF ExecuteStep, Computed, Step, Goto
    <3>3. CASE Step(w).type = "HTTP_REQUEST"
      <4>1. Computed(index[w]) = Values
        BY <3>3 DEF Computed, Step
      <4> QED
        BY <1>1, <1>2, <2>2, <3>3, <4>1 DEF ExecuteStep, Goto
    <3> QED
      BY <1>2, <3>1, <3>2, <3>3 DEF ExecuteStep
  <2>4. Computed(index[w])' = Computed(index[w])
    BY <1>1, <2>2 DEF Computed, InputOf, RowOf
  <2> QED
    BY <2>1, <2>3, <2>4 DEF SavesComputed
<1>3. ASSUME NEW w \in Workers, Take(w) \/ Settle(w) \/ Crash(w) PROVE SavesComputed'
  <2>1. \A v \in Workers : pc'[v] # "save"
    BY <1>1, <1>3 DEF Take, Settle, Crash, Return, Goto, ExclusiveRun, HoldsLock
  <2> QED
    BY <2>1 DEF SavesComputed
<1>4. ASSUME NEW w \in Workers, Run(w), ~ Settle(w), ~ ExecuteStep(w)
      PROVE  SavesComputed'
  <2>1. pc[w] # "idle" /\ pc'[w] # "save"
    BY <1>1, <1>4 DEF Run, Begin, Create, ReadSucceeded, ReadUnfinished, Start,
       SaveResult, Skip, RecordStepFailure, Succeed, RecordAttemptFailure, DbError,
       DbCall, Handler, Advance, Goto
  <2>2. \A v \in Workers : pc'[v] # "save"
    BY <1>4, <2>1, OthersIdle
  <2> QED
    BY <2>2 DEF SavesComputed
<1>5. ASSUME UNCHANGED <<pc, currentData, index, stepExecution>> PROVE SavesComputed'
  BY <1>1, <1>5 DEF SavesComputed, Computed, InputOf, RowOf
<1> QED
  BY <1>2, <1>3, <1>4, <1>5
  DEF Next, Run, BackoffEnds, LockExpires, Finished, vars, locals

-----------------------------------------------------------------------------
(* What the ledger sees. *)

LEMMA ResultsAre ==
  ASSUME TypeOK
  PROVE  /\ Results \in [1 .. Len(steps) -> Values \union {NoData}]
         /\ NoData \notin Values
         /\ \A i \in 1 .. Len(steps) :
              /\ (Results[i] # NoData) = (RowOf(i).status = "SUCCEEDED")
              /\ RowOf(i).status = "SUCCEEDED" =>
                   Results[i] = RowOf(i).output /\ RowOf(i).output \in Values
<1>1. NoData \notin Values
  BY NullsAreDistinct
<1>2. ASSUME NEW i \in 1 .. Len(steps), RowOf(i).status = "SUCCEEDED"
      PROVE  RowOf(i).output \in Values
  BY <1>2, RowOfTypes DEF TypeOK, RecordedOutputs, RowOf
<1> QED
  BY <1>1, <1>2 DEF Results

\* The ledger's view of the results is that of the rows.
LEMMA ResultsKept ==
  ASSUME UNCHANGED steps,
         \A i \in 1 .. Len(steps) :
           /\ RowOf(i)'.output = RowOf(i).output
           /\ (RowOf(i)'.status = "SUCCEEDED") = (RowOf(i).status = "SUCCEEDED")
  PROVE  Results' = Results
BY DEF Results

LEMMA ResultChanged ==
  ASSUME TypeOK, UNCHANGED steps, NEW j \in 1 .. Len(steps),
         \A i \in 1 .. Len(steps) \ {j} : RowOf(i)' = RowOf(i)
  PROVE  Results' = [Results EXCEPT ![j] = IF RowOf(j)'.status = "SUCCEEDED"
                                           THEN RowOf(j)'.output ELSE NoData]
<1> DEFINE result == IF RowOf(j)'.status = "SUCCEEDED" THEN RowOf(j)'.output ELSE NoData
<1>1. DOMAIN Results = 1 .. Len(steps) /\ Results = [i \in 1 .. Len(steps) |-> Results[i]]
  BY DEF Results
<1>2. /\ Results' = [i \in 1 .. Len(steps) |-> Results'[i]]
      /\ Results'[j] = result
      /\ \A i \in 1 .. Len(steps) \ {j} : Results'[i] = Results[i]
  BY DEF Results
<1> HIDE DEF result
<1>3. Results' = [Results EXCEPT ![j] = result]
  BY <1>1, <1>2
<1> QED
  BY <1>3 DEF result

\* A job that has not settled, or has been completed or given up, to the ledger.
LEMMA OutcomeIs ==
  /\ job.state \in {"waiting", "active", "delayed"} => Outcome = "open"
  /\ job.state = "completed" => Outcome = "succeeded"
  /\ job.state = "failed" => Outcome = "failed"
BY DEF Outcome

\* What StepLedger calls the input and the possible results of a step whose
\* predecessors are recorded.
LEMMA PossibleIsComputed ==
  ASSUME TypeOK, NEW j \in 1 .. Len(steps), DoneBelow(j)
  PROVE  Ledger!PossibleResults(j) = Computed(j)
<1>1. Ledger!Input(j) = InputOf(j)
  <2>1. CASE j = 1
    BY <2>1 DEF Ledger!Input, InputOf
  <2>2. CASE j # 1
    <3>1. j - 1 \in 1 .. Len(steps) /\ j - 1 \in 1 .. j - 1
      BY <2>2, RowOfTypes
    <3> QED
      BY <2>2, <3>1, ResultsAre DEF Ledger!Input, InputOf, DoneBelow
  <2> QED
    BY <2>1, <2>2
<1> QED
  BY <1>1 DEF Ledger!PossibleResults, Computed

LEMMA RecordedIsSucceeded ==
  ASSUME TypeOK, NEW n \in 0 .. Len(steps),
         \A i \in 1 .. Len(steps) : RowOf(i).status = "SUCCEEDED" <=> i <= n
  PROVE  Ledger!RecordedUpTo(n)
BY ResultsAre DEF Ledger!RecordedUpTo, Ledger!Recorded

-----------------------------------------------------------------------------
(* Every step of the processor calls is a step of the ledger, or none. *)

\* What the theorems about WorkflowExecution say of a state.
Known ==
  /\ TypeOK /\ ExclusiveRun /\ DistinctIds
  /\ RowsInOrder /\ \A w \in Workers : CallInOrder(w)
  /\ ExecutionAtCall /\ Ends /\ RowAtCall /\ SavesComputed

LEMMA OpenAtCall ==
  ASSUME Known, NEW w \in Workers, pc[w] # "idle", UNCHANGED job
  PROVE  Outcome = "open" /\ Outcome' = "open"
<1>1. job.state = "active" /\ job'.state = "active"
  BY DEF Known, ExclusiveRun, HoldsLock
<1> QED
  BY <1>1 DEF Outcome

\* Saving a result is recording it.
LEMMA SaveIsRecord ==
  ASSUME Known, UNCHANGED <<steps, payload, job>>, NEW w \in Workers, pc[w] = "save",
         SaveStep(w)
  PROVE  Ledger!Next
<1>1. TypeOK /\ DistinctIds /\ Len(steps) \in Nat /\ index[w] \in 1 .. Len(steps)
  BY StepInBounds, RowOfTypes DEF Known, InLoop
<1>2. PICK j \in 1 .. Len(steps) : j = index[w]
  BY <1>1
<1>3. /\ DoneBelow(j) /\ NoneStartedAbove(j) /\ RowOf(j).status = "RUNNING"
      /\ currentData[w] \in Computed(j)
  BY <1>2 DEF Known, CallInOrder, InLoop, RowAtCall, SavesComputed, Row, RowOf, Step
<1>4. /\ RowOf(j)'.status = "SUCCEEDED" /\ RowOf(j)'.output = currentData[w]
      /\ \A i \in 1 .. Len(steps) \ {j} : RowOf(i)' = RowOf(i)
  BY <1>1, <1>2, SavedRow, UpdatedRows DEF SaveStep, InLoop
<1>5. Results' = [Results EXCEPT ![j] = currentData[w]]
  BY <1>1, <1>4, ResultChanged
<1>6. Ledger!RecordedUpTo(j - 1)
  <2>1. \A i \in 1 .. Len(steps) : RowOf(i).status = "SUCCEEDED" <=> i <= j - 1
    BY <1>1, <1>3 DEF DoneBelow, NoneStartedAbove, Started
  <2> QED
    BY <1>1, <2>1, RecordedIsSucceeded
<1>7. currentData[w] \in Ledger!PossibleResults(j)
  BY <1>1, <1>3, PossibleIsComputed
<1>8. Outcome = "open" /\ Outcome' = Outcome
  BY OpenAtCall
<1>9. Ledger!Record(j)
  BY <1>5, <1>6, <1>7, <1>8 DEF Ledger!Record
<1> QED
  BY <1>9 DEF Ledger!Next

\* Marking a step FAILED withdraws the result of a filter that has stopped the
\* workflow, and leaves the results alone otherwise.
LEMMA FailIsWithdraw ==
  ASSUME Known, UNCHANGED <<steps, payload, job>>, NEW w \in Workers, pc[w] = "fail",
         FailStep(w)
  PROVE  Ledger!Next \/ UNCHANGED Ledger!vars
<1>1. /\ TypeOK /\ DistinctIds /\ Len(steps) \in Nat /\ index[w] \in 1 .. Len(steps)
      /\ Row(w) \in StepRow
  BY StepInBounds, RowOfTypes DEF Known, InLoop
<1>2. PICK j \in 1 .. Len(steps) : j = index[w]
  BY <1>1
<1>3. DoneBelow(j) /\ NoneStartedAbove(j) /\ (RowOf(j).status = "RUNNING" \/ Stopped(j))
  BY <1>2 DEF Known, CallInOrder, InLoop, RowAtCall, Row, RowOf, Step
<1>4. /\ RowOf(j)'.status # "SUCCEEDED"
      /\ \A i \in 1 .. Len(steps) \ {j} : RowOf(i)' = RowOf(i)
  BY <1>1, <1>2, UpdatedRows DEF FailStep, InLoop, StepRow
<1>5. Results' = [Results EXCEPT ![j] = NoData]
  BY <1>1, <1>4, ResultChanged
<1>6. Outcome = "open" /\ Outcome' = Outcome
  BY OpenAtCall
<1>7. CASE RowOf(j).status = "RUNNING"
  <2>1. Results[j] = NoData
    BY <1>7 DEF Results
  <2>2. Results' = Results
    BY <1>1, <1>5, <2>1, ResultsAre
  <2> QED
    BY <1>6, <2>2 DEF Ledger!vars
<1>8. CASE Stopped(j)
  <2>1. Ledger!RecordedUpTo(j)
    <3>1. \A i \in 1 .. Len(steps) : RowOf(i).status = "SUCCEEDED" <=> i <= j
      BY <1>1, <1>3, <1>8 DEF DoneBelow, NoneStartedAbove, Started, Stopped
    <3> QED
      BY <1>1, <3>1, RecordedIsSucceeded
  <2>2. Ledger!Stops(j)
    BY <1>1, <1>8, ResultsAre DEF Ledger!Stops, Ledger!Recorded, Stopped
  <2>3. Ledger!Withdraw(j)
    BY <1>5, <1>6, <2>1, <2>2 DEF Ledger!Withdraw
  <2> QED
    BY <2>3 DEF Ledger!Next
<1> QED
  BY <1>3, <1>7, <1>8

\* Completing the job is succeeding: the results say that the end is reached.
LEMMA CompleteIsSucceed ==
  ASSUME Known, UNCHANGED <<steps, payload, stepExecution>>, NEW w \in Workers,
         pc[w] = "complete", job' = Completed(job)
  PROVE  Ledger!Next
<1>1. TypeOK /\ Len(steps) \in Nat /\ job.state = "active" /\ job \in Job(Workers)
  BY RowOfTypes DEF Known, TypeOK, ExclusiveRun, HoldsLock
<1>2. AtEnd
  BY DEF Known, ExecutionAtCall, SucceededRow, Ends
<1>3. PICK n \in 0 .. Len(steps) :
        /\ \A i \in 1 .. n : RowOf(i).status = "SUCCEEDED"
        /\ \A i \in n + 1 .. Len(steps) : RowOf(i).status = "SKIPPED"
        /\ n < Len(steps) => n > 0 /\ Stopped(n)
  BY <1>2 DEF AtEnd
<1>4. Ledger!RecordedUpTo(n)
  <2>1. \A i \in 1 .. Len(steps) : RowOf(i).status = "SUCCEEDED" <=> i <= n
    BY <1>1, <1>3
  <2> QED
    BY <1>1, <2>1, RecordedIsSucceeded
<1>5. n = Len(steps) \/ (n > 0 /\ Ledger!Stops(n))
  <2>1. ASSUME n # Len(steps) PROVE n > 0 /\ Ledger!Stops(n)
    <3>1. n > 0 /\ Stopped(n) /\ n \in 1 .. Len(steps)
      BY <1>1, <1>3, <2>1
    <3> QED
      BY <1>1, <3>1, ResultsAre DEF Ledger!Stops, Ledger!Recorded, Stopped
  <2> QED
    BY <2>1
<1>6. Outcome = "open" /\ Outcome' = "succeeded" /\ Results' = Results
  <2>1. job'.state = "completed"
    BY <1>1 DEF Completed, Job
  <2> QED
    BY <1>1, <2>1 DEF Outcome, Results, RowOf
<1>7. Ledger!Succeed
  BY <1>4, <1>5, <1>6 DEF Ledger!Succeed
<1> QED
  BY <1>7 DEF Ledger!Next

\* Every other move of the job leaves the ledger open, or gives the job up.
LEMMA MoveIsFail ==
  ASSUME Known, UNCHANGED <<steps, payload, stepExecution>>,
         job.state \in {"waiting", "active", "delayed"},
         job'.state \in {"waiting", "active", "delayed", "failed"}
  PROVE  Ledger!Next \/ UNCHANGED Ledger!vars
<1>1. Results' = Results
  BY DEF Results, RowOf
<1>2. Outcome = "open" /\ Outcome' \in {"open", "failed"}
  BY DEF Outcome
<1> QED
  BY <1>1, <1>2 DEF Ledger!Next, Ledger!Fail, Ledger!vars

LEMMA StepOfLedger ==
  ASSUME \A F \in FaultSets : F \intersect {"lockLoss", "lostAck"} = {},
         Known, [Next]_vars
  PROVE  [Ledger!Next]_(Ledger!vars)
<1>1. /\ UNCHANGED <<steps, payload>> /\ TypeOK /\ job \in Job(Workers)
      /\ "lostAck" \notin faults /\ DistinctIds
  BY SnapshotKept DEF Known, TypeOK, snapshot
<1>2. ASSUME UNCHANGED <<job, stepExecution>> PROVE UNCHANGED Ledger!vars
  BY <1>1, <1>2 DEF Ledger!vars, Results, RowOf, Outcome
<1>3. ASSUME NEW w \in Workers, Write(w), UNCHANGED job
      PROVE  Ledger!Next \/ UNCHANGED Ledger!vars
  <2>1. CASE pc[w] = "save" /\ SaveStep(w)
    BY <1>1, <1>3, <2>1, SaveIsRecord
  <2>2. CASE pc[w] = "fail" /\ FailStep(w)
    BY <1>1, <1>3, <2>2, FailIsWithdraw
  <2>3. CASE CreateSteps \/ (pc[w] = "skip" /\ SkipRemaining(w))
    <3>1. CreateSteps \/ (SkipRemaining(w) /\ index[w] \in 1 .. Len(steps))
      BY <1>1, <2>3, StepInBounds DEF InLoop
    <3>2. Results' = Results
      BY <1>1, <3>1, SelectingKeepsStarted, ResultsKept
    <3> QED
      BY <1>1, <1>3, <3>2 DEF Ledger!vars, Outcome
  <2>4. CASE pc[w] = "start" /\ StartStep(w)
    <3>1. index[w] \in 1 .. Len(steps) /\ Row(w) \in StepRow
      BY <1>1, <2>4, StepInBounds DEF InLoop
    <3>2. PICK j \in 1 .. Len(steps) : j = index[w]
      BY <3>1
    <3> DEFINE row == [Row(w) EXCEPT !.status = "RUNNING", !.input = currentData[w],
                                     !.attempt = IF fresh[w] THEN @ ELSE @ + 1]
    <3>3. UpdateStep(w, row) /\ row.status = "RUNNING"
      BY <2>4, <3>1 DEF StartStep, StepRow
    <3> HIDE DEF row
    <3>4. /\ RowOf(j)'.status = "RUNNING"
          /\ \A i \in 1 .. Len(steps) \ {j} : RowOf(i)' = RowOf(i)
      BY <1>1, <2>4, <3>2, <3>3, UpdatedRows DEF InLoop
    <3>5. Results[j] = NoData
      BY <2>4, <3>2 DEF Known, RowAtCall, Row, RowOf, Step, Results
    <3>6. Results' = [Results EXCEPT ![j] = NoData]
      BY <1>1, <3>4, ResultChanged
    <3>7. Results' = Results
      BY <1>1, <3>5, <3>6, ResultsAre
    <3> QED
      BY <1>1, <1>3, <3>7 DEF Ledger!vars, Outcome
  <2>5. CASE UNCHANGED stepExecution
    BY <1>2, <1>3, <2>5
  <2> QED
    BY <1>3, <2>1, <2>2, <2>3, <2>4, <2>5
    DEF Write, MarkRunning, MarkSucceeded, MarkAttemptFailed
<1>4. ASSUME NEW w \in Workers, Settle(w) PROVE Ledger!Next \/ UNCHANGED Ledger!vars
  <2>1. /\ pc[w] \in {"complete", "throw"} /\ UNCHANGED stepExecution
        /\ job' = IF pc[w] = "complete" THEN Completed(job) ELSE Rejected(job)
        /\ job.state = "active"
    BY <1>4 DEF Settle, Known, ExclusiveRun, HoldsLock
  <2>2. CASE pc[w] = "complete"
    BY <1>1, <2>1, <2>2, CompleteIsSucceed
  <2>3. CASE pc[w] = "throw"
    <3>1. job'.state \in {"delayed", "failed"}
      BY <1>1, <2>1, <2>3 DEF Rejected, Job
    <3> QED
      BY <1>1, <2>1, <3>1, MoveIsFail
  <2> QED
    BY <2>1, <2>2, <2>3
<1>5. ASSUME NEW w \in Workers, Take(w) PROVE Ledger!Next \/ UNCHANGED Ledger!vars
  <2>1. job.state = "waiting" /\ job'.state = "active" /\ UNCHANGED stepExecution
    BY <1>1, <1>5 DEF Take, Acquired, Job
  <2> QED
    BY <1>1, <2>1, MoveIsFail
<1>6. ASSUME BackoffEnds \/ LockExpires PROVE Ledger!Next \/ UNCHANGED Ledger!vars
  <2>1. /\ job.state \in {"delayed", "active"} /\ job'.state \in {"waiting", "failed"}
        /\ UNCHANGED stepExecution
    BY <1>1, <1>6 DEF BackoffEnds, LockExpires, Promoted, Stalled, Job
  <2> QED
    BY <1>1, <2>1, MoveIsFail
<1>7. ASSUME NEW w \in Workers, Run(w) \/ Crash(w), ~ Settle(w)
      PROVE  Ledger!Next \/ UNCHANGED Ledger!vars
  <2>1. UNCHANGED job /\ (Write(w) \/ UNCHANGED stepExecution)
    BY <1>7 DEF Run, Begin, Create, ReadSucceeded, ReadUnfinished, Start,
       ExecuteStep, SaveResult, Skip, RecordStepFailure, Succeed,
       RecordAttemptFailure, DbError, Crash
  <2> QED
    BY <1>2, <1>3, <2>1
<1>8. ASSUME UNCHANGED vars PROVE UNCHANGED Ledger!vars
  BY <1>2, <1>8 DEF vars
<1> QED
  BY <1>4, <1>5, <1>6, <1>7, <1>8 DEF Next, Finished, Run

LEMMA InitOfLedger == ASSUME Init PROVE Ledger!Init
<1>1. TypeOK
  BY TypeInit
<1>2. \A i \in 1 .. Len(steps) : RowOf(i).status = "ABSENT"
  BY <1>1, RowOfTypes DEF Init, RowOf, NoRow
<1>3. Results = [i \in 1 .. Len(steps) |-> NoData]
  BY <1>2 DEF Results
<1>4. Outcome = "open"
  BY DEF Init, AddedJob, Outcome
<1> QED
  BY <1>3, <1>4 DEF Init, Ledger!Init

\* Under crashes and database errors, for any definitions whose ids differ: rows,
\* retries and redeliveries together do no more than record each step's result
\* once, in order, computed from the one before, and complete at the end.
THEOREM ExecutionImplementsLedger ==
  ASSUME \A F \in FaultSets : F \intersect {"lockLoss", "lostAck"} = {},
         \A d \in Definitions : \A i, k \in 1 .. Len(d) : d[i].id = d[k].id => i = k
  PROVE  Spec => ImplementsStepLedger
<1>1. \A F \in FaultSets : "lockLoss" \notin F
  OBVIOUS
<1>2. TypeOK => DistinctIds
  BY DEF TypeOK, DistinctIds
<1>3. Init => RowAtCall /\ SavesComputed
  BY DEF Init, RowAtCall, SavesComputed
<1>4. TypeOK /\ ExclusiveRun /\ RowAtCall /\ [Next]_vars => RowAtCall'
  BY RowAtCallNext
<1>5. TypeOK /\ ExclusiveRun /\ InOrder /\ SavesComputed /\ [Next]_vars => SavesComputed'
  BY <1>2, SavesComputedNext
<1>6. Spec => []ExclusiveRun /\ []InOrder /\ []Ends
  BY <1>1, Exclusive, AlwaysInOrder, AlwaysEnds
<1>7. Spec => [](ExecutionAtCall /\ CompletedJobSucceeded)
  BY <1>1, AlwaysMarked
<1>8. TypeOK /\ ExclusiveRun /\ InOrder /\ ExecutionAtCall /\ CompletedJobSucceeded
        /\ Ends /\ RowAtCall /\ SavesComputed => Known
  BY <1>2 DEF Known, InOrder
<1>9. Known /\ [Next]_vars => [Ledger!Next]_(Ledger!vars)
  BY StepOfLedger
<1>10. Init => Ledger!Init
  BY InitOfLedger
<1>11. Spec => Ledger!Spec
  BY <1>3, <1>4, <1>5, <1>6, <1>7, <1>8, <1>9, <1>10, TypeCorrect, PTL
  DEF Spec, Ledger!Spec
<1> QED
  BY <1>11 DEF ImplementsStepLedger
=============================================================================

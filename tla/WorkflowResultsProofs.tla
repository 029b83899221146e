----------------------- MODULE WorkflowResultsProofs -----------------------
(***************************************************************************)
(* Theorems of WorkflowExecution about the order and the content of the    *)
(* recorded results, and about the agreement of the execution's row with   *)
(* its steps' rows and its job.                                            *)
(***************************************************************************)
EXTENDS WorkflowExecutionProofs

-----------------------------------------------------------------------------
(* Steps are started in order, each with its predecessor's output. *)

Started(i) == RowOf(i).status \in {"RUNNING", "SUCCEEDED", "FAILED"}

DoneBelow(i) == \A k \in 1 .. i - 1 : RowOf(k).status = "SUCCEEDED"

NoneStartedAbove(i) == \A k \in i + 1 .. Len(steps) : ~ Started(k)

RowsInOrder ==
  \A i \in 1 .. Len(steps) :
    Started(i) => RowOf(i).input = InputOf(i) /\ DoneBelow(i)

\* What a call in the loop may rely on at each of its calls.
CallInOrder(w) ==
  /\ pc[w] \in InLoop => DoneBelow(index[w])
  /\ pc[w] \in {"read", "start", "exec"} => currentData[w] = InputOf(index[w])
  /\ pc[w] \in {"start", "exec", "save", "skip", "fail"} => NoneStartedAbove(index[w])
  /\ pc[w] \in {"exec", "save", "skip", "fail"} => Started(index[w])

InOrder == DistinctIds => RowsInOrder /\ \A w \in Workers : CallInOrder(w)

\* createMany and the updateMany of a filter start nothing and stop nothing.
LEMMA SelectingKeepsStarted ==
  ASSUME TypeOK, DistinctIds, UNCHANGED steps, NEW w \in Workers,
         \/ UNCHANGED stepExecution
         \/ CreateSteps
         \/ SkipRemaining(w) /\ index[w] \in 1 .. Len(steps)
  PROVE  \A i \in 1 .. Len(steps) :
           /\ Started(i)' = Started(i)
           /\ RowOf(i)'.input = RowOf(i).input /\ RowOf(i)'.output = RowOf(i).output
           /\ (RowOf(i)'.status = "SUCCEEDED") = (RowOf(i).status = "SUCCEEDED")
<1> SUFFICES ASSUME NEW i \in 1 .. Len(steps)
             PROVE  /\ Started(i)' = Started(i)
                    /\ RowOf(i)'.input = RowOf(i).input /\ RowOf(i)'.output = RowOf(i).output
                    /\ (RowOf(i)'.status = "SUCCEEDED") = (RowOf(i).status = "SUCCEEDED")
  OBVIOUS
<1>1. RowOf(i) \in StepRow
  BY RowOfTypes
<1>2. \/ RowOf(i)' = RowOf(i)
      \/ RowOf(i).status = "ABSENT" /\ RowOf(i)' = [RowOf(i) EXCEPT !.status = "PENDING"]
      \/ RowOf(i).status = "PENDING" /\ RowOf(i)' = [RowOf(i) EXCEPT !.status = "SKIPPED"]
  <2>1. CASE UNCHANGED stepExecution
    BY <2>1 DEF RowOf
  <2>2. CASE CreateSteps
    BY <2>2, SelectedRows
  <2>3. CASE SkipRemaining(w) /\ index[w] \in 1 .. Len(steps)
    <3>1. i > index[w] \/ i <= index[w]
      BY <2>3
    <3> QED
      BY <2>3, <3>1, SelectedRows
  <2> QED
    BY <2>1, <2>2, <2>3
<1> QED
  BY <1>1, <1>2 DEF StepRow, Started

\* Order looks at nothing but who is started or done, inputs and outputs.
LEMMA OrderKept ==
  ASSUME TypeOK, RowsInOrder, UNCHANGED <<steps, payload>>,
         \A i \in 1 .. Len(steps) :
           /\ Started(i)' = Started(i)
           /\ RowOf(i)'.input = RowOf(i).input /\ RowOf(i)'.output = RowOf(i).output
           /\ (RowOf(i)'.status = "SUCCEEDED") = (RowOf(i).status = "SUCCEEDED")
  PROVE  /\ RowsInOrder'
         /\ \A j \in 1 .. Len(steps) + 1 :
              /\ DoneBelow(j)' = DoneBelow(j)
              /\ InputOf(j)' = InputOf(j)
              /\ NoneStartedAbove(j)' = NoneStartedAbove(j)
<1>1. Len(steps) \in Nat
  BY RowOfTypes
<1>2. ASSUME NEW j \in 1 .. Len(steps) + 1
      PROVE  /\ DoneBelow(j)' = DoneBelow(j)
             /\ InputOf(j)' = InputOf(j)
             /\ NoneStartedAbove(j)' = NoneStartedAbove(j)
  <2>1. DoneBelow(j)' = DoneBelow(j)
    BY <1>1 DEF DoneBelow
  <2>2. InputOf(j)' = InputOf(j)
    BY <1>1 DEF InputOf
  <2>3. NoneStartedAbove(j)' = NoneStartedAbove(j)
    BY <1>1 DEF NoneStartedAbove
  <2> QED
    BY <2>1, <2>2, <2>3
<1>3. RowsInOrder'
  BY <1>1, <1>2 DEF RowsInOrder
<1> QED
  BY <1>2, <1>3

\* The write of a row that keeps or sets the right input, by a call above whose
\* step nothing is started.
LEMMA OrderedUpdate ==
  ASSUME TypeOK, DistinctIds, RowsInOrder, UNCHANGED <<steps, payload>>,
         NEW w \in Workers, pc[w] \in InLoop, NEW row \in StepRow, UpdateStep(w, row),
         NEW j \in 1 .. Len(steps), j = index[w],
         DoneBelow(j), NoneStartedAbove(j),
         row.status \in {"RUNNING", "SUCCEEDED", "FAILED"}, row.input = InputOf(j)
  PROVE  /\ RowsInOrder' /\ RowOf(j)' = row
         /\ DoneBelow(j)' /\ NoneStartedAbove(j)' /\ Started(j)'
         /\ InputOf(j)' = InputOf(j)
<1>1. Len(steps) \in Nat
  BY RowOfTypes
<1>2. \A i \in 1 .. Len(steps) : RowOf(i)' = IF i = j THEN row ELSE RowOf(i)
  BY UpdatedRows
<1>3. \A i \in 1 .. j : InputOf(i)' = InputOf(i)
  BY <1>1, <1>2 DEF InputOf
<1>4. \A i \in 1 .. j : DoneBelow(i) => DoneBelow(i)'
  BY <1>1, <1>2 DEF DoneBelow
<1>5. NoneStartedAbove(j)' /\ Started(j)'
  BY <1>1, <1>2 DEF NoneStartedAbove, Started
<1>6. ASSUME NEW i \in 1 .. Len(steps), Started(i)'
      PROVE  RowOf(i)'.input = InputOf(i)' /\ DoneBelow(i)'
  <2>1. i \in 1 .. j
    BY <1>1, <1>5, <1>6 DEF NoneStartedAbove
  <2>2. CASE i = j
    BY <1>2, <1>3, <1>4, <2>1, <2>2
  <2>3. CASE i # j
    <3>1. Started(i)
      BY <1>2, <1>6, <2>3 DEF Started
    <3> QED
      BY <1>2, <1>3, <1>4, <2>1, <2>3, <3>1 DEF RowsInOrder
  <2> QED
    BY <2>2, <2>3
<1> QED
  BY <1>2, <1>3, <1>4, <1>5, <1>6 DEF RowsInOrder

\* Every write of a call that is in order keeps the order, and leaves what it
\* has done and not yet done below and above its step.
LEMMA WriteInOrder ==
  ASSUME TypeOK, DistinctIds, RowsInOrder, UNCHANGED <<steps, payload>>,
         NEW w \in Workers, pc[w] \in {"start", "save", "skip", "fail"},
         CallInOrder(w), Write(w), NEW j \in 1 .. Len(steps), j = index[w]
  PROVE  /\ RowsInOrder'
         /\ DoneBelow(j)' /\ NoneStartedAbove(j)' /\ Started(j)'
         /\ InputOf(j)' = InputOf(j)
<1>1. /\ DoneBelow(j) /\ NoneStartedAbove(j)
      /\ pc[w] = "start" => currentData[w] = InputOf(j)
      /\ pc[w] \in {"save", "skip", "fail"} => Started(j) /\ RowOf(j).input = InputOf(j)
  BY DEF CallInOrder, RowsInOrder, InLoop
<1>2. /\ Row(w) \in StepRow /\ Row(w) = RowOf(j)
      /\ currentData[w] \in Values
  BY StepInBounds DEF InLoop, Row, RowOf, Step, TypeOK
<1>3. CASE pc[w] = "start" /\ StartStep(w)
  <2> DEFINE row == [Row(w) EXCEPT !.status = "RUNNING", !.input = currentData[w],
                                   !.attempt = IF fresh[w] THEN @ ELSE @ + 1]
  <2>1. row \in StepRow /\ row.status = "RUNNING" /\ row.input = InputOf(j)
    <3>1. (IF fresh[w] THEN Row(w).attempt ELSE Row(w).attempt + 1) \in Nat
      BY <1>2 DEF StepRow
    <3>2. row.status = "RUNNING" /\ row.input = InputOf(j)
      BY <1>1, <1>2, <1>3 DEF StepRow
    <3>3. row \in StepRow
      BY <1>2, <3>1 DEF StepRow
    <3> QED
      BY <3>2, <3>3
  <2>2. UpdateStep(w, row)
    BY <1>3 DEF StartStep
  <2> HIDE DEF row
  <2> QED
    BY <1>1, <2>1, <2>2, OrderedUpdate DEF InLoop
<1>4. CASE pc[w] = "save" /\ SaveStep(w)
  <2> DEFINE row == [Row(w) EXCEPT !.status = "SUCCEEDED", !.output = currentData[w]]
  <2>1. row \in StepRow /\ row.status = "SUCCEEDED" /\ row.input = InputOf(j)
    BY <1>1, <1>2, <1>4 DEF StepRow
  <2>2. UpdateStep(w, row)
    BY <1>4 DEF SaveStep
  <2> HIDE DEF row
  <2> QED
    BY <1>1, <2>1, <2>2, OrderedUpdate DEF InLoop
<1>5. CASE pc[w] = "fail" /\ FailStep(w)
  <2> DEFINE row == [Row(w) EXCEPT !.status = "FAILED"]
  <2>1. row \in StepRow /\ row.status = "FAILED" /\ row.input = InputOf(j)
    BY <1>1, <1>2, <1>5 DEF StepRow
  <2>2. UpdateStep(w, row)
    BY <1>5 DEF FailStep
  <2> HIDE DEF row
  <2> QED
    BY <1>1, <2>1, <2>2, OrderedUpdate DEF InLoop
<1>6. CASE pc[w] = "skip" /\ SkipRemaining(w)
  <2>1. \A i \in 1 .. Len(steps) :
           /\ Started(i)' = Started(i)
           /\ RowOf(i)'.input = RowOf(i).input /\ RowOf(i)'.output = RowOf(i).output
           /\ (RowOf(i)'.status = "SUCCEEDED") = (RowOf(i).status = "SUCCEEDED")
    BY <1>6, SelectingKeepsStarted
  <2>2. j \in 1 .. Len(steps) + 1
    BY RowOfTypes
  <2> QED
    BY <1>1, <1>6, <2>1, <2>2, OrderKept
<1> QED
  BY <1>3, <1>4, <1>5, <1>6 DEF Write

\* What a saved row looks like.
LEMMA SavedRow ==
  ASSUME TypeOK, DistinctIds, UNCHANGED steps, NEW w \in Workers, pc[w] = "save",
         SaveStep(w), NEW j \in 1 .. Len(steps), j = index[w]
  PROVE  RowOf(j)'.status = "SUCCEEDED" /\ RowOf(j)'.output = currentData[w]
<1> DEFINE row == [Row(w) EXCEPT !.status = "SUCCEEDED", !.output = currentData[w]]
<1>1. UpdateStep(w, row)
  BY DEF SaveStep
<1>2. row.status = "SUCCEEDED" /\ row.output = currentData[w]
  BY StepInBounds DEF InLoop, StepRow
<1> HIDE DEF row
<1>3. RowOf(j)' = row
  BY <1>1, UpdatedRows DEF InLoop
<1> QED
  BY <1>2, <1>3

\* A call that fails to record a step, or finds its step unrecorded, has no
\* started step above it.
LEMMA UnfinishedIsLast ==
  ASSUME TypeOK, RowsInOrder, NEW j \in 1 .. Len(steps), RowOf(j).status # "SUCCEEDED"
  PROVE  NoneStartedAbove(j)
<1>1. Len(steps) \in Nat
  BY RowOfTypes
<1> QED
  BY <1>1 DEF NoneStartedAbove, RowsInOrder, DoneBelow

LEMMA InOrderNext == TypeOK /\ ExclusiveRun /\ InOrder /\ [Next]_vars => InOrder'
<1> SUFFICES ASSUME TypeOK, ExclusiveRun, RowsInOrder, [Next]_vars, DistinctIds,
                    \A w \in Workers : CallInOrder(w)
             PROVE  RowsInOrder' /\ \A w \in Workers : CallInOrder(w)'
  BY SnapshotKept DEF InOrder, DistinctIds, snapshot
<1>1. /\ UNCHANGED <<steps, payload>>
      /\ pc \in [Workers -> Pc]
      /\ index \in [Workers -> 1 .. Len(steps) + 1]
      /\ currentData \in [Workers -> Values]
      /\ Len(steps) \in Nat
  BY SnapshotKept, RowOfTypes DEF TypeOK, snapshot
<1>2. ASSUME NEW w \in Workers, pc[w] # "idle", Run(w) \/ Crash(w), CallInOrder(w)'
      PROVE  \A v \in Workers : CallInOrder(v)'
  <2>1. \A v \in Workers \ {w} : pc'[v] \notin InLoop
    BY <1>2, OthersIdle DEF InLoop
  <2>2. \A v \in Workers \ {w} : CallInOrder(v)'
    BY <2>1 DEF CallInOrder, InLoop
  <2> QED
    BY <1>2, <2>2
<1>3. ASSUME NEW w \in Workers, pc'[w] \notin InLoop
      PROVE  CallInOrder(w)'
  BY <1>3 DEF CallInOrder, InLoop
<1>4. ASSUME NEW w \in Workers, UNCHANGED stepExecution \/ CreateSteps
      PROVE  /\ RowsInOrder'
             /\ \A j \in 1 .. Len(steps) + 1 :
                  /\ DoneBelow(j)' = DoneBelow(j)
                  /\ InputOf(j)' = InputOf(j)
                  /\ NoneStartedAbove(j)' = NoneStartedAbove(j)
             /\ \A j \in 1 .. Len(steps) : Started(j)' = Started(j)
  <2>1. \A i \in 1 .. Len(steps) :
          /\ Started(i)' = Started(i)
          /\ RowOf(i)'.input = RowOf(i).input /\ RowOf(i)'.output = RowOf(i).output
          /\ (RowOf(i)'.status = "SUCCEEDED") = (RowOf(i).status = "SUCCEEDED")
    BY <1>1, <1>4, SelectingKeepsStarted
  <2> QED
    BY <1>1, <2>1, OrderKept
<1>5. ASSUME NEW w \in Workers, Take(w)
      PROVE  RowsInOrder' /\ \A v \in Workers : CallInOrder(v)'
  <2>1. UNCHANGED <<stepExecution, index, currentData>>
        /\ pc' = [pc EXCEPT ![w] = "begin"]
    BY <1>5 DEF Take, Goto
  <2>2. \A v \in Workers : pc'[v] \notin InLoop
    BY <1>1, <1>5, <2>1 DEF Take, ExclusiveRun, HoldsLock, InLoop
  <2> QED
    BY <1>3, <1>4, <1>5, <2>1, <2>2
<1>6. ASSUME NEW w \in Workers, Settle(w) \/ Crash(w)
      PROVE  RowsInOrder' /\ \A v \in Workers : CallInOrder(v)'
  <2>1. UNCHANGED stepExecution /\ pc'[w] = "idle" /\ pc[w] # "idle"
    BY <1>1, <1>6 DEF Settle, Crash, Return, Goto
  <2>2. CallInOrder(w)'
    BY <1>3, <2>1 DEF InLoop
  <2> QED
    BY <1>2, <1>4, <1>6, <2>1, <2>2 DEF Run
<1>7. ASSUME NEW w \in Workers, Begin(w)
      PROVE  RowsInOrder' /\ CallInOrder(w)'
  <2>1. UNCHANGED stepExecution /\ pc'[w] = "create"
    BY <1>1, <1>7 DEF Begin, Write, MarkRunning, Goto
  <2> QED
    BY <1>3, <1>4, <2>1 DEF InLoop
<1>8. ASSUME NEW w \in Workers, Create(w)
      PROVE  RowsInOrder' /\ CallInOrder(w)'
  <2>1. /\ CreateSteps
        /\ index'[w] = 1 /\ currentData'[w] = payload
        /\ pc'[w] \in {"succeed", "read"}
    BY <1>1, <1>8 DEF Create, Write, Advance, Goto
  <2>2. DoneBelow(1)' /\ InputOf(1)' = payload
    BY <1>1 DEF DoneBelow, InputOf
  <2>3. CallInOrder(w)'
    BY <2>1, <2>2 DEF CallInOrder
  <2> QED
    BY <1>4, <2>1, <2>3
<1>9. ASSUME NEW w \in Workers, ReadSucceeded(w)
      PROVE  RowsInOrder' /\ CallInOrder(w)'
  <2>1. pc[w] = "read" /\ UNCHANGED stepExecution /\ index[w] \in 1 .. Len(steps)
    BY <1>9, StepInBounds DEF ReadSucceeded, InLoop
  <2>2. PICK j \in 1 .. Len(steps) : j = index[w]
    BY <2>1
  <2>3. /\ index'[w] = j + 1 /\ pc'[w] \in {"succeed", "read"}
        /\ currentData'[w] = RowOf(j).output /\ RowOf(j).status = "SUCCEEDED"
    BY <1>1, <1>9, <2>2 DEF ReadSucceeded, Advance, Goto, Row, RowOf, Step
  <2>4. DoneBelow(j + 1) /\ InputOf(j + 1) = RowOf(j).output /\ j + 1 \in 1 .. Len(steps) + 1
    BY <1>1, <2>1, <2>2, <2>3 DEF CallInOrder, InLoop, DoneBelow, InputOf
  <2>5. DoneBelow(j + 1)' /\ InputOf(j + 1)' = RowOf(j).output
    BY <1>4, <2>1, <2>4
  <2>6. CallInOrder(w)'
    BY <2>3, <2>5 DEF CallInOrder
  <2> QED
    BY <1>4, <2>1, <2>6
<1>10. ASSUME NEW w \in Workers, ReadUnfinished(w)
       PROVE  RowsInOrder' /\ CallInOrder(w)'
  <2>1. pc[w] = "read" /\ UNCHANGED stepExecution /\ index[w] \in 1 .. Len(steps)
    BY <1>10, StepInBounds DEF ReadUnfinished, InLoop
  <2>2. PICK j \in 1 .. Len(steps) : j = index[w]
    BY <2>1
  <2>3. /\ index'[w] = j /\ pc'[w] = "start" /\ currentData'[w] = currentData[w]
        /\ RowOf(j).status # "SUCCEEDED"
    BY <1>1, <1>10, <2>2 DEF ReadUnfinished, Goto, Row, RowOf, Step
  <2>4. DoneBelow(j) /\ NoneStartedAbove(j) /\ currentData[w] = InputOf(j)
    BY <2>1, <2>2, <2>3, UnfinishedIsLast DEF CallInOrder, InLoop
  <2>5. DoneBelow(j)' /\ NoneStartedAbove(j)' /\ InputOf(j)' = InputOf(j)
    BY <1>1, <1>4, <2>1, <2>4
  <2>6. CallInOrder(w)'
    BY <2>3, <2>4, <2>5 DEF CallInOrder
  <2> QED
    BY <1>4, <2>1, <2>6
<1>11. ASSUME NEW w \in Workers, Start(w)
       PROVE  RowsInOrder' /\ CallInOrder(w)'
  <2>1. pc[w] = "start" /\ Write(w) /\ index[w] \in 1 .. Len(steps)
    BY <1>11, StepInBounds DEF Start, InLoop
  <2>2. PICK j \in 1 .. Len(steps) : j = index[w]
    BY <2>1
  <2>3. index'[w] = j /\ pc'[w] = "exec" /\ currentData'[w] = currentData[w]
    BY <1>1, <1>11, <2>2 DEF Start, Goto, locals
  <2>4. /\ RowsInOrder' /\ DoneBelow(j)' /\ NoneStartedAbove(j)' /\ Started(j)'
        /\ InputOf(j)' = InputOf(j) /\ currentData[w] = InputOf(j)
    BY <1>1, <2>1, <2>2, WriteInOrder DEF CallInOrder
  <2> QED
    BY <2>3, <2>4 DEF CallInOrder
<1>12. ASSUME NEW w \in Workers, ExecuteStep(w)
       PROVE  RowsInOrder' /\ CallInOrder(w)'
  <2>1. pc[w] = "exec" /\ UNCHANGED stepExecution /\ index[w] \in 1 .. Len(steps)
    BY <1>12, StepInBounds DEF ExecuteStep, InLoop
  <2>2. PICK j \in 1 .. Len(steps) : j = index[w]
    BY <2>1
  <2>3. index'[w] = j /\ pc'[w] \in {"save", "fail"}
    BY <1>1, <1>12, <2>2 DEF ExecuteStep, Goto
  <2>4. DoneBelow(j) /\ NoneStartedAbove(j) /\ Started(j)
    BY <2>1, <2>2 DEF CallInOrder, InLoop
  <2>5. DoneBelow(j)' /\ NoneStartedAbove(j)' /\ Started(j)'
    BY <1>1, <1>4, <2>1, <2>4
  <2>6. CallInOrder(w)'
    BY <2>3, <2>5 DEF CallInOrder
  <2> QED
    BY <1>4, <2>1, <2>6
<1>13. ASSUME NEW w \in Workers, SaveResult(w)
       PROVE  RowsInOrder' /\ CallInOrder(w)'
  <2>1. pc[w] = "save" /\ Write(w) /\ index[w] \in 1 .. Len(steps)
    BY <1>13, StepInBounds DEF SaveResult, InLoop
  <2>2. PICK j \in 1 .. Len(steps) : j = index[w]
    BY <2>1
  <2>3. RowsInOrder' /\ DoneBelow(j)' /\ NoneStartedAbove(j)' /\ Started(j)'
    BY <1>1, <2>1, <2>2, WriteInOrder
  <2>4. RowOf(j)'.status = "SUCCEEDED" /\ RowOf(j)'.output = currentData[w]
    BY <1>1, <2>1, <2>2, SavedRow DEF Write
  <2>5. CASE Advance(w, index[w] + 1)
    <3>1. /\ index'[w] = j + 1 /\ pc'[w] \in {"succeed", "read"}
          /\ currentData'[w] = currentData[w]
      BY <1>1, <1>13, <2>2, <2>5 DEF SaveResult, Advance, Goto
    <3>2. DoneBelow(j + 1)' /\ InputOf(j + 1)' = currentData[w]
      BY <2>3, <2>4 DEF DoneBelow, InputOf
    <3> QED
      BY <2>3, <3>1, <3>2 DEF CallInOrder
  <2>6. CASE index' = index /\ (Goto(w, "skip") \/ Goto(w, "succeed"))
    <3>1. index'[w] = j /\ pc'[w] \in {"skip", "succeed"}
      BY <1>1, <2>2, <2>6 DEF Goto
    <3> QED
      BY <2>3, <3>1 DEF CallInOrder, InLoop
  <2> QED
    BY <1>13, <2>5, <2>6 DEF SaveResult
<1>14. ASSUME NEW w \in Workers, NEW call \in {"succeed", "catch"}, Goto(w, call),
              pc[w] \in {"skip", "fail"}, Write(w)
       PROVE  RowsInOrder' /\ CallInOrder(w)'
  <2>1. index[w] \in 1 .. Len(steps)
    BY <1>14, StepInBounds DEF InLoop
  <2>2. PICK j \in 1 .. Len(steps) : j = index[w]
    BY <2>1
  <2> QED
    BY <1>1, <1>3, <1>14, <2>2, WriteInOrder DEF Goto, InLoop
<1>15. ASSUME NEW w \in Workers, Succeed(w) \/ RecordAttemptFailure(w)
       PROVE  RowsInOrder' /\ CallInOrder(w)'
  <2>1. UNCHANGED stepExecution /\ pc'[w] \in {"complete", "throw"}
    BY <1>1, <1>15
    DEF Succeed, RecordAttemptFailure, Write, MarkSucceeded, MarkAttemptFailed, Goto
  <2> QED
    BY <1>3, <1>4, <2>1 DEF InLoop
<1>16. ASSUME NEW w \in Workers, DbError(w)
       PROVE  RowsInOrder' /\ CallInOrder(w)'
  <2>1. /\ pc'[w] = Handler(pc[w]) /\ pc[w] \in DbCall
        /\ UNCHANGED stepExecution \/ Write(w)
        /\ index' = index
    BY <1>1, <1>16 DEF DbError, Goto, locals
  <2>2. CASE pc[w] \in {"start", "save", "skip", "fail"}
    <3>1. index[w] \in 1 .. Len(steps)
      BY <2>2, StepInBounds DEF InLoop
    <3>2. PICK j \in 1 .. Len(steps) : j = index[w]
      BY <3>1
    <3>3. DoneBelow(j) /\ NoneStartedAbove(j) /\ (pc[w] # "start" => Started(j))
      BY <2>2, <3>2 DEF CallInOrder, InLoop
    <3>4. /\ RowsInOrder' /\ DoneBelow(j)' /\ NoneStartedAbove(j)'
          /\ pc[w] # "start" => Started(j)'
      BY <1>1, <1>4, <2>1, <2>2, <3>2, <3>3, WriteInOrder
    <3>5. /\ pc'[w] \in {"fail", "catch"} /\ index'[w] = j
          /\ pc'[w] = "fail" => pc[w] # "start"
      BY <2>1, <2>2, <3>2 DEF Handler
    <3> QED
      BY <3>4, <3>5 DEF CallInOrder
  <2>3. CASE pc[w] \notin {"start", "save", "skip", "fail"}
    <3>1. UNCHANGED stepExecution \/ CreateSteps
      BY <2>1, <2>3 DEF Write, MarkRunning, MarkSucceeded, MarkAttemptFailed
    <3>2. pc'[w] \in {"throw", "catch"}
      BY <2>1, <2>3 DEF Handler, DbCall
    <3> QED
      BY <1>3, <1>4, <3>1, <3>2 DEF InLoop
  <2> QED
    BY <2>2, <2>3
<1>17. ASSUME NEW w \in Workers, Run(w), ~ Settle(w)
       PROVE  RowsInOrder' /\ \A v \in Workers : CallInOrder(v)'
  <2>1. pc[w] # "idle"
    BY <1>17 DEF Run, Begin, Create, ReadSucceeded, ReadUnfinished, Start,
       ExecuteStep, SaveResult, Skip, RecordStepFailure, Succeed,
       RecordAttemptFailure, DbError, DbCall
  <2>2. RowsInOrder' /\ CallInOrder(w)'
    BY <1>7, <1>8, <1>9, <1>10, <1>11, <1>12, <1>13, <1>14, <1>15, <1>16, <1>17
    DEF Run, Skip, RecordStepFailure
  <2> QED
    BY <1>2, <1>17, <2>1, <2>2
<1>18. ASSUME UNCHANGED <<stepExecution, pc, index, currentData>>
       PROVE  RowsInOrder' /\ \A v \in Workers : CallInOrder(v)'
  BY <1>1, <1>18 DEF RowsInOrder, CallInOrder, Started, DoneBelow, NoneStartedAbove,
     InputOf, RowOf
<1> QED
  BY <1>5, <1>6, <1>17, <1>18
  DEF Next, Run, BackoffEnds, LockExpires, Finished, vars, snapshot, locals

LEMMA InOrderInit == Init => InOrder
<1> SUFFICES ASSUME Init PROVE InOrder
  OBVIOUS
<1>1. TypeOK
  BY TypeInit
<1>2. \A i \in 1 .. Len(steps) : RowOf(i).status = "ABSENT"
  BY <1>1, RowOfTypes DEF Init, RowOf, NoRow
<1>3. \A w \in Workers : pc[w] \notin InLoop
  BY DEF Init, InLoop
<1> QED
  BY <1>2, <1>3 DEF InOrder, RowsInOrder, CallInOrder, Started, InLoop

LEMMA AlwaysInOrder ==
  ASSUME \A F \in FaultSets : "lockLoss" \notin F
  PROVE  Spec => []InOrder
<1>1. Spec => []ExclusiveRun
  BY Exclusive
<1> QED
  BY <1>1, InOrderInit, InOrderNext, TypeCorrect, PTL DEF Spec

\* Under crashes, database errors and lost acknowledgements, for any number of
\* steps: a step that has been started has the output of the step before it as
\* its input, and that step is recorded.
THEOREM InputsAlwaysFollow ==
  ASSUME \A F \in FaultSets : "lockLoss" \notin F
  PROVE  Spec => []InputIsPredecessorOutput
<1>1. TypeOK /\ InOrder => InputIsPredecessorOutput
  <2> SUFFICES ASSUME TypeOK, RowsInOrder, NEW i \in 1 .. Len(steps), Started(i)
               PROVE  /\ RowOf(i).input = InputOf(i)
                      /\ i > 1 => RowOf(i - 1).status = "SUCCEEDED"
    BY DEF InOrder, InputIsPredecessorOutput, Started
  <2>1. RowOf(i).input = InputOf(i) /\ DoneBelow(i)
    BY DEF RowsInOrder
  <2>2. i > 1 => i - 1 \in 1 .. i - 1
    OBVIOUS
  <2> QED
    BY <2>1, <2>2 DEF DoneBelow
<1>2. Spec => []InOrder
  BY AlwaysInOrder
<1> QED
  BY <1>1, <1>2, TypeCorrect, PTL

-----------------------------------------------------------------------------
(* The execution's row agrees with its job and its steps. *)

RunningRow   == [status |-> "RUNNING", error |-> FALSE, finishedAt |-> FALSE]
SucceededRow == [status |-> "SUCCEEDED", error |-> FALSE, finishedAt |-> TRUE]

\* A call on its way through the loop has marked the row, and nobody else has
\* since.
ExecutionAtCall ==
  \A w \in Workers :
    /\ pc[w] \in InLoop \union {"create", "succeed"} => execution = RunningRow
    /\ pc[w] = "complete" => execution = SucceededRow

LEMMA ExecutionAtCallNext ==
  TypeOK /\ ExclusiveRun /\ ExecutionAtCall /\ CompletedJobSucceeded /\ [Next]_vars
    => ExecutionAtCall' /\ CompletedJobSucceeded'
<1> SUFFICES ASSUME TypeOK, ExclusiveRun, ExecutionAtCall, CompletedJobSucceeded,
                    [Next]_vars
             PROVE  ExecutionAtCall' /\ CompletedJobSucceeded'
  OBVIOUS
<1>1. pc \in [Workers -> Pc] /\ job \in Job(Workers)
  BY DEF TypeOK
<1> DEFINE AtCall(w) ==
      /\ pc[w] \in InLoop \union {"create", "succeed"} => execution = RunningRow
      /\ pc[w] = "complete" => execution = SucceededRow
<1>2. ASSUME NEW w \in Workers, pc[w] # "idle", Run(w) \/ Crash(w), AtCall(w)'
      PROVE  ExecutionAtCall'
  BY <1>2, OthersIdle DEF ExecutionAtCall, InLoop
<1>3. ASSUME NEW w \in Workers, pc[w] # "idle", UNCHANGED job
      PROVE  CompletedJobSucceeded'
  BY <1>3 DEF ExclusiveRun, HoldsLock, CompletedJobSucceeded
<1>4. ASSUME NEW w \in Workers, Take(w)
      PROVE  ExecutionAtCall' /\ CompletedJobSucceeded'
  <2>1. /\ \A v \in Workers : pc'[v] \in {"idle", "begin"}
        /\ job'.state = "active"
    BY <1>1, <1>4 DEF Take, Acquired, Goto, Job, ExclusiveRun, HoldsLock
  <2> QED
    BY <2>1 DEF ExecutionAtCall, CompletedJobSucceeded, InLoop
<1>5. ASSUME NEW w \in Workers, Settle(w)
      PROVE  ExecutionAtCall' /\ CompletedJobSucceeded'
  <2>1. /\ pc'[w] = "idle" /\ pc[w] \in {"complete", "throw"}
        /\ execution' = execution /\ job.state = "active"
        /\ job' = IF pc[w] = "complete" THEN Completed(job) ELSE Rejected(job)
    BY <1>1, <1>5 DEF Settle, Return, Goto, ExclusiveRun, HoldsLock
  <2>2. job'.state = "completed" => pc[w] = "complete"
    BY <1>1, <2>1 DEF Rejected, Job
  <2>3. CompletedJobSucceeded'
    BY <2>1, <2>2 DEF ExecutionAtCall, SucceededRow, CompletedJobSucceeded
  <2> QED
    BY <1>2, <1>5, <2>1, <2>3 DEF Run, InLoop
<1>6. ASSUME NEW w \in Workers, Crash(w)
      PROVE  ExecutionAtCall' /\ CompletedJobSucceeded'
  <2>1. pc'[w] = "idle" /\ pc[w] # "idle" /\ job' = job
    BY <1>1, <1>6 DEF Crash, Return, Goto
  <2> QED
    BY <1>2, <1>3, <1>6, <2>1 DEF InLoop
<1>7. ASSUME NEW w \in Workers, Run(w), ~ Settle(w)
      PROVE  pc[w] # "idle" /\ UNCHANGED job
  BY <1>7 DEF Run, Begin, Create, ReadSucceeded, ReadUnfinished, Start,
     ExecuteStep, SaveResult, Skip, RecordStepFailure, Succeed,
     RecordAttemptFailure, DbError, DbCall
<1>8. ASSUME NEW w \in Workers, Run(w), ~ Settle(w) PROVE AtCall(w)'
  <2>1. CASE Begin(w)
    BY <1>1, <2>1 DEF Begin, Write, MarkRunning, RunningRow, Goto
  <2>2. CASE Succeed(w)
    <3>1. execution = RunningRow /\ MarkSucceeded /\ pc'[w] = "complete"
      BY <1>1, <2>2 DEF Succeed, Write, ExecutionAtCall, Goto
    <3>2. execution' = SucceededRow
      BY <3>1 DEF RunningRow, SucceededRow, MarkSucceeded
    <3> QED
      BY <3>1, <3>2 DEF InLoop
  <2>3. CASE RecordAttemptFailure(w) \/ RecordStepFailure(w)
    BY <1>1, <2>3 DEF RecordAttemptFailure, RecordStepFailure, Goto, InLoop
  <2>4. CASE \/ Create(w) \/ ReadSucceeded(w) \/ ReadUnfinished(w) \/ Start(w)
             \/ ExecuteStep(w) \/ SaveResult(w) \/ Skip(w)
    <3>1. pc[w] \in InLoop \union {"create"} /\ execution' = execution
      BY <2>4 DEF Create, ReadSucceeded, ReadUnfinished, Start, ExecuteStep,
         SaveResult, Skip, Write, InLoop, CreateSteps, StartStep, SaveStep,
         SkipRemaining, UpdateStep
    <3>2. pc'[w] \in InLoop \union {"succeed"}
      BY <1>1, <2>4 DEF Create, ReadSucceeded, ReadUnfinished, Start, ExecuteStep,
         SaveResult, Skip, InLoop, Advance, Goto
    <3> QED
      BY <3>1, <3>2 DEF ExecutionAtCall, InLoop
  <2>5. CASE DbError(w)
    <3>1. /\ pc'[w] \in {"throw", "fail", "catch"}
          /\ pc'[w] = "fail" => pc[w] \in {"save", "skip"} /\ execution' = execution
      BY <1>1, <2>5 DEF DbError, DbCall, Handler, Goto, Write, SaveStep,
         SkipRemaining, UpdateStep
    <3> QED
      BY <3>1 DEF ExecutionAtCall, InLoop
  <2> QED
    BY <1>8, <2>1, <2>2, <2>3, <2>4, <2>5 DEF Run
<1>9. ASSUME NEW w \in Workers, Run(w), ~ Settle(w)
      PROVE  ExecutionAtCall' /\ CompletedJobSucceeded'
  BY <1>2, <1>3, <1>7, <1>8, <1>9
<1>10. ASSUME BackoffEnds \/ LockExpires
       PROVE  ExecutionAtCall' /\ CompletedJobSucceeded'
  <2>1. job'.state # "completed" /\ UNCHANGED <<pc, execution>>
    BY <1>1, <1>10 DEF BackoffEnds, LockExpires, Promoted, Stalled, Job
  <2> QED
    BY <2>1 DEF ExecutionAtCall, CompletedJobSucceeded
<1>11. ASSUME UNCHANGED vars PROVE ExecutionAtCall' /\ CompletedJobSucceeded'
  BY <1>11 DEF vars, ExecutionAtCall, CompletedJobSucceeded
<1> QED
  BY <1>4, <1>5, <1>6, <1>9, <1>10, <1>11 DEF Next, Finished, Run

LEMMA AlwaysMarked ==
  ASSUME \A F \in FaultSets : "lockLoss" \notin F
  PROVE  Spec => [](ExecutionAtCall /\ CompletedJobSucceeded)
<1>1. Init => ExecutionAtCall /\ CompletedJobSucceeded
  BY DEF Init, ExecutionAtCall, CompletedJobSucceeded, AddedJob, InLoop
<1>2. Spec => []ExclusiveRun
  BY Exclusive
<1> QED
  BY <1>1, <1>2, ExecutionAtCallNext, TypeCorrect, PTL DEF Spec

\* Under crashes, database errors and lost acknowledgements: a job that the
\* queue has completed leaves a SUCCEEDED execution without an error.
THEOREM CompletionAgrees ==
  ASSUME \A F \in FaultSets : "lockLoss" \notin F
  PROVE  Spec => []CompletedJobSucceeded
<1>1. Spec => [](ExecutionAtCall /\ CompletedJobSucceeded)
  BY AlwaysMarked
<1> QED
  BY <1>1, PTL

\* A prefix of the steps is recorded and the rest, behind a filter, is skipped.
AtEnd ==
  \E n \in 0 .. Len(steps) :
    /\ \A i \in 1 .. n : RowOf(i).status = "SUCCEEDED"
    /\ \A i \in n + 1 .. Len(steps) : RowOf(i).status = "SKIPPED"
    /\ n < Len(steps) => n > 0 /\ Stopped(n)

RowsExist == \A i \in 1 .. Len(steps) : RowOf(i).status # "ABSENT"

CallAtEnd(w) ==
  /\ pc[w] \in InLoop => RowsExist
  /\ pc[w] = "skip" => index[w] < Len(steps) /\ Stopped(index[w])
  /\ pc[w] = "succeed" => AtEnd

Ends ==
  DistinctIds => /\ \A w \in Workers : CallAtEnd(w)
                 /\ execution.status = "SUCCEEDED" => AtEnd

LEMMA RowsStayThere ==
  ASSUME TypeOK, DistinctIds, UNCHANGED steps, NEW w \in Workers,
         Write(w) \/ UNCHANGED stepExecution, RowsExist
  PROVE  RowsExist'
<1> SUFFICES ASSUME NEW i \in 1 .. Len(steps) PROVE RowOf(i)'.status # "ABSENT"
  BY DEF RowsExist
<1>1. RowOf(i) \in StepRow /\ RowOf(i).status # "ABSENT"
  BY RowOfTypes DEF RowsExist
<1>2. CASE UNCHANGED stepExecution
  BY <1>1, <1>2 DEF RowOf
<1>3. CASE CreateSteps
  BY <1>1, <1>3, SelectedRows
<1>4. CASE pc[w] = "skip" /\ SkipRemaining(w)
  <2>1. index[w] \in 1 .. Len(steps)
    BY <1>4, StepInBounds DEF InLoop
  <2>2. \/ RowOf(i)' = RowOf(i)
        \/ RowOf(i)' = [RowOf(i) EXCEPT !.status = "SKIPPED"]
    BY <1>4, <2>1, SelectedRows
  <2> QED
    BY <1>1, <2>2 DEF StepRow
<1>5. CASE \/ pc[w] = "start" /\ StartStep(w)
           \/ pc[w] = "save" /\ SaveStep(w)
           \/ pc[w] = "fail" /\ FailStep(w)
  <2>1. Row(w) \in StepRow
    BY <1>5, StepInBounds DEF InLoop
  <2>2. PICK row :
          /\ UpdateStep(w, row)
          /\ row \in {[Row(w) EXCEPT !.status = "RUNNING", !.input = currentData[w],
                        !.attempt = IF fresh[w] THEN @ ELSE @ + 1],
                      [Row(w) EXCEPT !.status = "SUCCEEDED", !.output = currentData[w]],
                      [Row(w) EXCEPT !.status = "FAILED"]}
    BY <1>5 DEF StartStep, SaveStep, FailStep
  <2>3. row.status # "ABSENT"
    BY <2>1, <2>2 DEF StepRow
  <2>4. RowOf(i)' = IF i = index[w] THEN row ELSE RowOf(i)
    BY <1>5, <2>2, UpdatedRows DEF InLoop
  <2> QED
    BY <1>1, <2>3, <2>4
<1> QED
  BY <1>2, <1>3, <1>4, <1>5 DEF Write, MarkRunning, MarkSucceeded, MarkAttemptFailed

\* The loop is over when every step is done.
LEMMA DoneIsEnd == ASSUME TypeOK, DoneBelow(Len(steps) + 1) PROVE AtEnd
<1>1. Len(steps) \in Nat
  BY RowOfTypes
<1>2. /\ \A i \in 1 .. Len(steps) : RowOf(i).status = "SUCCEEDED"
      /\ \A i \in Len(steps) + 1 .. Len(steps) : RowOf(i).status = "SKIPPED"
  BY <1>1 DEF DoneBelow
<1> QED
  BY <1>1, <1>2 DEF AtEnd

\* Saving the result of the last step, or of a filter that stops the workflow.
LEMMA SavedEnds ==
  ASSUME TypeOK, DistinctIds, UNCHANGED steps, NEW w \in Workers, SaveResult(w),
         CallInOrder(w), RowsInOrder, UNCHANGED payload,
         NEW j \in 1 .. Len(steps), j = index[w]
  PROVE  /\ j = Len(steps) => AtEnd'
         /\ StopsHere(w) => Stopped(j)'
<1>1. pc[w] = "save" /\ SaveStep(w) /\ Len(steps) \in Nat
  BY RowOfTypes DEF SaveResult, Write
<1>2. RowOf(j)'.status = "SUCCEEDED" /\ RowOf(j)'.output = currentData[w]
  BY <1>1, SavedRow
<1>3. DoneBelow(j)'
  BY <1>1, WriteInOrder DEF Write
<1>4. ASSUME j = Len(steps) PROVE AtEnd'
  <2>1. /\ \A i \in 1 .. Len(steps) : RowOf(i)'.status = "SUCCEEDED"
        /\ \A i \in Len(steps) + 1 .. Len(steps) : RowOf(i)'.status = "SKIPPED"
    BY <1>1, <1>2, <1>3, <1>4 DEF DoneBelow
  <2> QED
    BY <1>1, <2>1 DEF AtEnd
<1>5. StopsHere(w) => Stopped(j)'
  BY <1>2 DEF StopsHere, Stopped, Step
<1> QED
  BY <1>4, <1>5

\* Skipping the steps behind a filter that has stopped the workflow.
LEMMA SkippedEnds ==
  ASSUME TypeOK, DistinctIds, UNCHANGED steps, NEW w \in Workers, pc[w] = "skip",
         SkipRemaining(w), CallInOrder(w), CallAtEnd(w)
  PROVE  AtEnd' /\ (\A j \in 1 .. Len(steps) : j = index[w] => Stopped(j)')
<1>1. index[w] \in 1 .. Len(steps) /\ Len(steps) \in Nat
  BY StepInBounds, RowOfTypes DEF InLoop
<1>2. PICK j \in 1 .. Len(steps) : j = index[w]
  BY <1>1
<1>3. /\ DoneBelow(j) /\ NoneStartedAbove(j) /\ Stopped(j) /\ j < Len(steps)
      /\ RowsExist
  BY <1>2 DEF CallInOrder, CallAtEnd, InLoop
<1>4. \A i \in 1 .. j : RowOf(i)' = RowOf(i) /\ RowOf(i).status = "SUCCEEDED"
  BY <1>1, <1>2, <1>3, SelectedRows DEF DoneBelow, Stopped
<1>5. ASSUME NEW i \in j + 1 .. Len(steps) PROVE RowOf(i)'.status = "SKIPPED"
  <2>1. RowOf(i) \in StepRow /\ RowOf(i).status \in {"PENDING", "SKIPPED"}
    BY <1>1, <1>3, RowOfTypes DEF NoneStartedAbove, RowsExist, Started, StepRow
  <2>2. RowOf(i)' = IF RowOf(i).status = "PENDING"
                    THEN [RowOf(i) EXCEPT !.status = "SKIPPED"] ELSE RowOf(i)
    BY <1>1, <1>2, SelectedRows
  <2> QED
    BY <2>1, <2>2 DEF StepRow
<1>6. Stopped(j)'
  BY <1>3, <1>4 DEF Stopped
<1>7. AtEnd'
  BY <1>1, <1>3, <1>4, <1>5, <1>6 DEF AtEnd
<1> QED
  BY <1>2, <1>6, <1>7

LEMMA EndsNext ==
  TypeOK /\ ExclusiveRun /\ InOrder /\ ExecutionAtCall /\ Ends /\ [Next]_vars => Ends'
<1> SUFFICES ASSUME TypeOK, ExclusiveRun, RowsInOrder, ExecutionAtCall, [Next]_vars,
                    DistinctIds, \A w \in Workers : CallInOrder(w) /\ CallAtEnd(w),
                    execution.status = "SUCCEEDED" => AtEnd
             PROVE  /\ \A w \in Workers : CallAtEnd(w)'
                    /\ execution'.status = "SUCCEEDED" => AtEnd'
  BY SnapshotKept DEF Ends, InOrder, DistinctIds, snapshot
<1>1. /\ UNCHANGED <<steps, payload>>
      /\ pc \in [Workers -> Pc]
      /\ index \in [Workers -> 1 .. Len(steps) + 1]
      /\ Len(steps) \in Nat
  BY SnapshotKept, RowOfTypes DEF TypeOK, snapshot
<1> DEFINE Goal == /\ \A w \in Workers : CallAtEnd(w)'
                   /\ execution'.status = "SUCCEEDED" => AtEnd'
<1>2. ASSUME NEW w \in Workers, pc[w] # "idle", Run(w) \/ Crash(w), CallAtEnd(w)'
      PROVE  \A v \in Workers : CallAtEnd(v)'
  <2>1. \A v \in Workers \ {w} : CallAtEnd(v)'
    BY <1>2, OthersIdle DEF CallAtEnd, InLoop
  <2> QED
    BY <1>2, <2>1
<1>3. ASSUME NEW w \in Workers, pc'[w] \notin InLoop \union {"succeed"}
      PROVE  CallAtEnd(w)'
  BY <1>3 DEF CallAtEnd, InLoop
<1>4. ASSUME UNCHANGED stepExecution
      PROVE  AtEnd' = AtEnd /\ RowsExist' = RowsExist
  BY <1>1, <1>4 DEF AtEnd, RowsExist, RowOf, Stopped
<1>5. ASSUME NEW w \in Workers, Take(w) PROVE Goal
  <2>1. /\ UNCHANGED <<stepExecution, execution>>
        /\ \A v \in Workers : pc'[v] \in {"idle", "begin"}
    BY <1>1, <1>5 DEF Take, Goto, ExclusiveRun, HoldsLock
  <2> QED
    BY <1>3, <1>4, <2>1 DEF InLoop
<1>6. ASSUME NEW w \in Workers, Settle(w) \/ Crash(w) PROVE Goal
  <2>1. UNCHANGED <<stepExecution, execution>> /\ pc'[w] = "idle" /\ pc[w] # "idle"
    BY <1>1, <1>6 DEF Settle, Crash, Return, Goto
  <2> QED
    BY <1>2, <1>3, <1>4, <1>6, <2>1 DEF Run, InLoop
<1>7. ASSUME NEW w \in Workers, pc[w] \in InLoop \union {"create"}, Run(w),
             execution' = execution
      PROVE  execution'.status = "SUCCEEDED" => AtEnd'
  BY <1>7 DEF ExecutionAtCall, RunningRow
<1>8. ASSUME NEW w \in Workers, Begin(w) \/ RecordAttemptFailure(w)
      PROVE  CallAtEnd(w)' /\ (execution'.status = "SUCCEEDED" => AtEnd')
  <2>1. /\ pc'[w] \in {"create", "throw"}
        /\ execution'.status # "SUCCEEDED"
    BY <1>1, <1>8 DEF Begin, RecordAttemptFailure, Write, MarkRunning,
       MarkAttemptFailed, Goto
  <2> QED
    BY <1>3, <2>1 DEF InLoop
<1>9. ASSUME NEW w \in Workers, Succeed(w)
      PROVE  CallAtEnd(w)' /\ (execution'.status = "SUCCEEDED" => AtEnd')
  <2>1. pc'[w] = "complete" /\ AtEnd /\ UNCHANGED stepExecution
    BY <1>1, <1>9 DEF Succeed, Write, MarkSucceeded, Goto, CallAtEnd
  <2> QED
    BY <1>3, <1>4, <2>1 DEF InLoop
<1>10. ASSUME NEW w \in Workers, Create(w)
       PROVE  CallAtEnd(w)' /\ (execution'.status = "SUCCEEDED" => AtEnd')
  <2>1. CreateSteps /\ pc[w] = "create" /\ execution' = execution
    BY <1>10 DEF Create, Write, CreateSteps
  <2>2. pc'[w] = IF 1 > Len(steps) THEN "succeed" ELSE "read"
    BY <1>1, <1>10 DEF Create, Advance, Goto
  <2>3. RowsExist'
    <3>1. ASSUME NEW i \in 1 .. Len(steps) PROVE RowOf(i)'.status # "ABSENT"
      BY <1>1, <2>1, SelectedRows, RowOfTypes DEF StepRow
    <3> QED
      BY <1>1, <3>1 DEF RowsExist
  <2>4. 1 > Len(steps) => AtEnd'
    BY <1>1 DEF AtEnd
  <2> QED
    BY <1>7, <1>10, <2>1, <2>2, <2>3, <2>4 DEF CallAtEnd, Run
<1>11. ASSUME NEW w \in Workers, ReadSucceeded(w)
       PROVE  CallAtEnd(w)' /\ (execution'.status = "SUCCEEDED" => AtEnd')
  <2>1. /\ pc[w] = "read" /\ UNCHANGED <<stepExecution, execution>>
        /\ index[w] \in 1 .. Len(steps)
        /\ RowOf(index[w]).status = "SUCCEEDED"
    BY <1>11, StepInBounds DEF ReadSucceeded, InLoop, Row, RowOf, Step
  <2>2. pc'[w] = IF index[w] + 1 > Len(steps) THEN "succeed" ELSE "read"
    BY <1>1, <1>11 DEF ReadSucceeded, Advance, Goto
  <2>3. RowsExist /\ DoneBelow(index[w])
    BY <2>1 DEF CallAtEnd, CallInOrder, InLoop
  <2>4. index[w] + 1 > Len(steps) => DoneBelow(Len(steps) + 1)
    BY <1>1, <2>1, <2>3 DEF DoneBelow
  <2>5. index[w] + 1 > Len(steps) => AtEnd'
    BY <1>4, <2>1, <2>4, DoneIsEnd
  <2> QED
    BY <1>4, <1>7, <1>11, <2>1, <2>2, <2>3, <2>5 DEF CallAtEnd, Run, InLoop
<1>12. ASSUME NEW w \in Workers, ReadUnfinished(w) \/ Start(w) \/ ExecuteStep(w)
       PROVE  CallAtEnd(w)' /\ (execution'.status = "SUCCEEDED" => AtEnd')
  <2>1. /\ pc[w] \in InLoop /\ pc'[w] \in {"start", "exec", "save", "fail"}
        /\ execution' = execution
        /\ Write(w) \/ UNCHANGED stepExecution
    BY <1>1, <1>12 DEF ReadUnfinished, Start, ExecuteStep, Write, StartStep,
       UpdateStep, Goto, InLoop
  <2>2. RowsExist'
    BY <1>1, <2>1, RowsStayThere DEF CallAtEnd
  <2> QED
    BY <1>7, <1>12, <2>1, <2>2 DEF CallAtEnd, Run, InLoop
<1>13. ASSUME NEW w \in Workers, SaveResult(w)
       PROVE  CallAtEnd(w)' /\ (execution'.status = "SUCCEEDED" => AtEnd')
  <2>1. /\ pc[w] = "save" /\ index[w] \in 1 .. Len(steps) /\ Write(w)
        /\ execution' = execution
    BY <1>13, StepInBounds DEF SaveResult, InLoop, Write, SaveStep, UpdateStep
  <2>2. PICK j \in 1 .. Len(steps) : j = index[w]
    BY <2>1
  <2>3. /\ j = Len(steps) => AtEnd'
        /\ StopsHere(w) => Stopped(j)'
    BY <1>1, <1>13, <2>2, SavedEnds
  <2>4. RowsExist'
    BY <1>1, <2>1, RowsStayThere DEF CallAtEnd, InLoop
  <2>5. \/ pc'[w] = "succeed" /\ j = Len(steps)
        \/ pc'[w] = "read"
        \/ pc'[w] = "skip" /\ StopsHere(w) /\ index'[w] = j /\ j < Len(steps)
    BY <1>1, <1>13, <2>2 DEF SaveResult, Advance, Goto
  <2>6. CallAtEnd(w)'
    BY <1>1, <2>3, <2>4, <2>5 DEF CallAtEnd
  <2> QED
    BY <1>7, <1>13, <2>1, <2>6 DEF Run, InLoop
<1>14. ASSUME NEW w \in Workers, Skip(w)
       PROVE  CallAtEnd(w)' /\ (execution'.status = "SUCCEEDED" => AtEnd')
  <2>1. pc[w] = "skip" /\ SkipRemaining(w) /\ pc'[w] = "succeed"
    BY <1>1, <1>14 DEF Skip, Write, Goto
  <2>2. AtEnd'
    BY <1>1, <2>1, SkippedEnds
  <2> QED
    BY <2>1, <2>2 DEF CallAtEnd, InLoop
<1>15. ASSUME NEW w \in Workers, RecordStepFailure(w)
       PROVE  CallAtEnd(w)' /\ (execution'.status = "SUCCEEDED" => AtEnd')
  <2>1. pc[w] = "fail" /\ pc'[w] = "catch" /\ execution' = execution
    BY <1>1, <1>15 DEF RecordStepFailure, Write, FailStep, UpdateStep, Goto
  <2> QED
    BY <1>3, <1>7, <1>15, <2>1 DEF Run, InLoop
<1>16. ASSUME NEW w \in Workers, DbError(w)
       PROVE  CallAtEnd(w)' /\ (execution'.status = "SUCCEEDED" => AtEnd')
  <2>1. /\ pc'[w] = Handler(pc[w]) /\ pc[w] \in DbCall
        /\ UNCHANGED <<execution, stepExecution>> \/ Write(w)
        /\ index' = index
    BY <1>1, <1>16 DEF DbError, Goto, locals
  <2>2. CallAtEnd(w)'
    <3>1. CASE pc[w] \in {"save", "skip"}
      <4>1. pc'[w] = "fail" /\ RowsExist'
        BY <1>1, <2>1, <3>1, RowsStayThere DEF Handler, CallAtEnd, InLoop
      <4> QED
        BY <4>1 DEF CallAtEnd
    <3>2. CASE pc[w] \notin {"save", "skip"}
      BY <1>3, <2>1, <3>2 DEF Handler, DbCall, InLoop
    <3> QED
      BY <3>1, <3>2
  <2>3. execution'.status = "SUCCEEDED" => AtEnd'
    <3>1. CASE UNCHANGED <<execution, stepExecution>>
      BY <1>4, <3>1
    <3>2. CASE pc[w] \in InLoop \union {"create"} /\ Write(w)
      <4>1. execution' = execution
        BY <3>2 DEF Write, InLoop, CreateSteps, StartStep, SaveStep, SkipRemaining,
           FailStep, UpdateStep
      <4> QED
        BY <1>7, <1>16, <3>2, <4>1 DEF Run
    <3>3. CASE pc[w] = "succeed" /\ Write(w)
      <4>1. AtEnd /\ UNCHANGED stepExecution
        BY <3>3 DEF Write, MarkSucceeded, CallAtEnd
      <4> QED
        BY <1>4, <4>1
    <3>4. CASE pc[w] \in {"begin", "catch"} /\ Write(w)
      BY <3>4 DEF Write, MarkRunning, MarkAttemptFailed
    <3> QED
      BY <2>1, <3>1, <3>2, <3>3, <3>4 DEF DbCall, InLoop
  <2> QED
    BY <2>2, <2>3
<1>17. ASSUME NEW w \in Workers, Run(w), ~ Settle(w) PROVE Goal
  <2>1. pc[w] # "idle"
    BY <1>17 DEF Run, Begin, Create, ReadSucceeded, ReadUnfinished, Start,
       ExecuteStep, SaveResult, Skip, RecordStepFailure, Succeed,
       RecordAttemptFailure, DbError, DbCall
  <2>2. CallAtEnd(w)' /\ (execution'.status = "SUCCEEDED" => AtEnd')
    BY <1>8, <1>9, <1>10, <1>11, <1>12, <1>13, <1>14, <1>15, <1>16, <1>17 DEF Run
  <2> QED
    BY <1>2, <1>17, <2>1, <2>2
<1>18. ASSUME UNCHANGED <<stepExecution, execution, pc, index>> PROVE Goal
  BY <1>1, <1>4, <1>18 DEF CallAtEnd, Stopped, RowOf
<1> QED
  BY <1>5, <1>6, <1>17, <1>18
  DEF Next, Run, BackoffEnds, LockExpires, Finished, vars, snapshot, locals

LEMMA AlwaysEnds ==
  ASSUME \A F \in FaultSets : "lockLoss" \notin F
  PROVE  Spec => []Ends
<1>1. Init => Ends
  BY DEF Init, Ends, CallAtEnd, InLoop
<1>2. Spec => []ExclusiveRun /\ []InOrder
  BY Exclusive, AlwaysInOrder
<1>3. Spec => [](ExecutionAtCall /\ CompletedJobSucceeded)
  BY AlwaysMarked
<1> QED
  BY <1>1, <1>2, <1>3, EndsNext, TypeCorrect, PTL DEF Spec

\* Under crashes, database errors and lost acknowledgements: an execution is
\* SUCCEEDED only with every step recorded, or with a prefix recorded that ends
\* in a filter that stopped it and all other steps skipped.
THEOREM SuccessIsComplete ==
  ASSUME \A F \in FaultSets : "lockLoss" \notin F
  PROVE  Spec => []SucceededRanEveryStep
<1>1. Ends => SucceededRanEveryStep
  BY DEF Ends, AtEnd, SucceededRanEveryStep
<1>2. Spec => []Ends
  BY AlwaysEnds
<1> QED
  BY <1>1, <1>2, PTL

-----------------------------------------------------------------------------
(* Steps that read nothing but their input. *)

AllPure == \A k \in 1 .. Len(steps) : steps[k].type # "HTTP_REQUEST"

\* Every input ever recorded is the predecessor's output, and every output ever
\* recorded is what the step makes of it, whatever has become of the row's status.
RowIsPure(i) ==
  /\ RowOf(i).input # NoData => InputOf(i) \in Values /\ RowOf(i).input = InputOf(i)
  /\ RowOf(i).output # NoData => RowOf(i).input # NoData /\ RowOf(i).output = PureOutput(i)

CallIsPure(w) ==
  /\ pc[w] \in {"read", "start", "exec"} => currentData[w] = InputOf(index[w])
  /\ pc[w] \in {"exec", "save"} => RowOf(index[w]).input \in Values
  /\ pc[w] = "save" => currentData[w] = PureOutput(index[w])

DataIsPure ==
  DistinctIds /\ AllPure =>
    /\ \A i \in 1 .. Len(steps) : RowIsPure(i)
    /\ \A w \in Workers : CallIsPure(w)

\* What has been recorded for step i stays, and what is added fits.
RowGrows(i) ==
  /\ RowOf(i).input # NoData => RowOf(i)'.input = RowOf(i).input
  /\ RowOf(i).output # NoData => RowOf(i)'.output = RowOf(i).output
  /\ RowOf(i)'.input # RowOf(i).input =>
       InputOf(i) \in Values /\ RowOf(i)'.input = InputOf(i)
  /\ RowOf(i)'.output # RowOf(i).output =>
       RowOf(i).input # NoData /\ RowOf(i)'.output = PureOutput(i)

LEMMA WriteGrows ==
  ASSUME TypeOK, DistinctIds, AllPure, UNCHANGED steps,
         \A i \in 1 .. Len(steps) : RowIsPure(i),
         NEW w \in Workers, CallIsPure(w), Write(w) \/ UNCHANGED stepExecution
  PROVE  \A i \in 1 .. Len(steps) : RowGrows(i)
<1> SUFFICES ASSUME NEW i \in 1 .. Len(steps) PROVE RowGrows(i)
  OBVIOUS
<1>1. RowOf(i) \in StepRow /\ RowIsPure(i) /\ NoData \notin Values
  BY RowOfTypes, NullsAreDistinct
<1>2. ASSUME RowOf(i)'.input = RowOf(i).input, RowOf(i)'.output = RowOf(i).output
      PROVE  RowGrows(i)
  BY <1>2 DEF RowGrows
<1>3. CASE UNCHANGED stepExecution
  BY <1>2, <1>3 DEF RowOf
<1>4. CASE pc[w] = "create" /\ CreateSteps
  BY <1>1, <1>2, <1>4, SelectedRows DEF StepRow
<1>5. CASE pc[w] = "skip" /\ SkipRemaining(w)
  <2>1. index[w] \in 1 .. Len(steps)
    BY <1>5, StepInBounds DEF InLoop
  <2>2. i > index[w] \/ i <= index[w]
    BY <2>1
  <2> QED
    BY <1>1, <1>2, <1>5, <2>2, SelectedRows DEF StepRow
<1>6. CASE pc[w] = "start" /\ StartStep(w)
  <2> DEFINE row == [Row(w) EXCEPT !.status = "RUNNING", !.input = currentData[w],
                                   !.attempt = IF fresh[w] THEN @ ELSE @ + 1]
  <2>1. RowOf(i)' = IF i = index[w] THEN row ELSE RowOf(i)
    BY <1>6, UpdatedRows DEF StartStep, InLoop
  <2>2. i = index[w] => Row(w) = RowOf(i)
    BY DEF Row, RowOf, Step
  <2>3. i = index[w] => row.input = InputOf(i) /\ row.output = RowOf(i).output
    BY <1>1, <1>6, <2>2 DEF StepRow, CallIsPure
  <2>4. i = index[w] => InputOf(i) \in Values
    BY <1>6 DEF CallIsPure, TypeOK
  <2> HIDE DEF row
  <2> QED
    BY <1>1, <1>2, <2>1, <2>3, <2>4 DEF RowGrows, RowIsPure
<1>7. CASE pc[w] = "save" /\ SaveStep(w)
  <2> DEFINE row == [Row(w) EXCEPT !.status = "SUCCEEDED", !.output = currentData[w]]
  <2>1. RowOf(i)' = IF i = index[w] THEN row ELSE RowOf(i)
    BY <1>7, UpdatedRows DEF SaveStep, InLoop
  <2>2. i = index[w] => Row(w) = RowOf(i)
    BY DEF Row, RowOf, Step
  <2>3. i = index[w] => row.output = PureOutput(i) /\ row.input = RowOf(i).input
    BY <1>1, <1>7, <2>2 DEF StepRow, CallIsPure
  <2>4. i = index[w] => RowOf(i).input # NoData
    BY <1>1, <1>7 DEF CallIsPure
  <2> HIDE DEF row
  <2> QED
    BY <1>1, <1>2, <2>1, <2>3, <2>4 DEF RowGrows, RowIsPure
<1>8. CASE pc[w] = "fail" /\ FailStep(w)
  <2>1. RowOf(i)' = IF i = index[w] THEN [Row(w) EXCEPT !.status = "FAILED"] ELSE RowOf(i)
    BY <1>8, UpdatedRows DEF FailStep, InLoop
  <2>2. i = index[w] => Row(w) = RowOf(i)
    BY DEF Row, RowOf, Step
  <2> QED
    BY <1>1, <1>2, <2>1, <2>2 DEF StepRow
<1> QED
  BY <1>3, <1>4, <1>5, <1>6, <1>7, <1>8
  DEF Write, MarkRunning, MarkSucceeded, MarkAttemptFailed

\* Growing rows keep what was known of them, and of every call that has known it.
LEMMA GrowingIsPure ==
  ASSUME TypeOK, UNCHANGED <<steps, payload>>,
         \A i \in 1 .. Len(steps) : RowIsPure(i) /\ RowGrows(i)
  PROVE  /\ \A i \in 1 .. Len(steps) : RowIsPure(i)'
         /\ \A i \in 1 .. Len(steps) + 1 :
              InputOf(i) \in Values => InputOf(i)' = InputOf(i)
         /\ \A i \in 1 .. Len(steps) :
              RowOf(i).input \in Values =>
                RowOf(i)'.input = RowOf(i).input /\ PureOutput(i)' = PureOutput(i)
<1>1. Len(steps) \in Nat /\ NoData \notin Values
  BY RowOfTypes, NullsAreDistinct
<1>2. ASSUME NEW i \in 1 .. Len(steps) + 1, InputOf(i) \in Values
      PROVE  InputOf(i)' = InputOf(i)
  <2>1. CASE i = 1
    BY <2>1 DEF InputOf
  <2>2. CASE i # 1
    <3>1. i - 1 \in 1 .. Len(steps) /\ RowOf(i - 1).output # NoData
      BY <1>1, <1>2, <2>2 DEF InputOf
    <3>2. RowOf(i - 1)'.output = RowOf(i - 1).output
      BY <3>1 DEF RowGrows
    <3> QED
      BY <2>2, <3>2 DEF InputOf
  <2> QED
    BY <2>1, <2>2
<1>3. ASSUME NEW i \in 1 .. Len(steps), RowOf(i).input # NoData
      PROVE  RowOf(i)'.input = RowOf(i).input /\ PureOutput(i)' = PureOutput(i)
  <2>1. RowOf(i)'.input = RowOf(i).input
    BY <1>3 DEF RowGrows
  <2> QED
    BY <2>1 DEF PureOutput
<1>4. ASSUME NEW i \in 1 .. Len(steps) PROVE RowIsPure(i)'
  <2>1. i \in 1 .. Len(steps) + 1 /\ RowIsPure(i) /\ RowGrows(i)
    BY <1>1
  <2>2. RowOf(i)'.input # NoData => InputOf(i) \in Values /\ RowOf(i)'.input = InputOf(i)
    BY <2>1 DEF RowIsPure, RowGrows
  <2>3. RowOf(i)'.output # NoData => RowOf(i).input # NoData /\ RowOf(i)'.output = PureOutput(i)
    BY <2>1 DEF RowIsPure, RowGrows
  <2>4. RowOf(i)'.input # NoData => InputOf(i)' \in Values /\ RowOf(i)'.input = InputOf(i)'
    BY <1>2, <2>1, <2>2
  <2>5. RowOf(i)'.output # NoData =>
          RowOf(i)'.input # NoData /\ RowOf(i)'.output = PureOutput(i)'
    BY <1>3, <2>3
  <2> QED
    BY <2>4, <2>5 DEF RowIsPure
<1> QED
  BY <1>1, <1>2, <1>3, <1>4

LEMMA DataIsPureNext == TypeOK /\ DataIsPure /\ [Next]_vars => DataIsPure'
<1> SUFFICES ASSUME TypeOK, [Next]_vars, DistinctIds, AllPure,
                    \A i \in 1 .. Len(steps) : RowIsPure(i),
                    \A w \in Workers : CallIsPure(w)
             PROVE  /\ \A i \in 1 .. Len(steps) : RowIsPure(i)'
                    /\ \A w \in Workers : CallIsPure(w)'
  BY SnapshotKept DEF DataIsPure, DistinctIds, AllPure, snapshot
<1>1. /\ UNCHANGED <<steps, payload>>
      /\ pc \in [Workers -> Pc]
      /\ index \in [Workers -> 1 .. Len(steps) + 1]
      /\ currentData \in [Workers -> Values]
      /\ Len(steps) \in Nat
      /\ NoData \notin Values
  BY SnapshotKept, RowOfTypes, NullsAreDistinct DEF TypeOK, snapshot
<1>2. \A i \in 1 .. Len(steps) : RowGrows(i)
  <2>1. (\E w \in Workers : Write(w)) \/ UNCHANGED stepExecution
    BY DEF Next, Take, Run, Begin, Create, ReadSucceeded, ReadUnfinished, Start,
       ExecuteStep, SaveResult, Skip, RecordStepFailure, Succeed, RecordAttemptFailure,
       Settle, DbError, Crash, BackoffEnds, LockExpires, Finished, vars
  <2>2. CASE UNCHANGED stepExecution
    BY <1>1, <2>2 DEF RowGrows, RowOf
  <2> QED
    BY <1>1, <2>1, <2>2, WriteGrows
<1>3. /\ \A i \in 1 .. Len(steps) : RowIsPure(i)'
      /\ \A i \in 1 .. Len(steps) + 1 :
           InputOf(i) \in Values => InputOf(i)' = InputOf(i)
      /\ \A i \in 1 .. Len(steps) :
           RowOf(i).input \in Values =>
             RowOf(i)'.input = RowOf(i).input /\ PureOutput(i)' = PureOutput(i)
  BY <1>1, <1>2, GrowingIsPure
<1>4. ASSUME NEW w \in Workers, pc'[w] = pc[w], index'[w] = index[w],
             currentData'[w] = currentData[w]
      PROVE  CallIsPure(w)'
  <2>1. CASE pc[w] \in {"read", "start", "exec", "save"}
    <3>1. index[w] \in 1 .. Len(steps)
      BY <2>1, StepInBounds DEF InLoop
    <3>2. PICK j \in 1 .. Len(steps) : j = index[w]
      BY <3>1
    <3>3. /\ pc[w] \in {"read", "start", "exec"} => InputOf(j)' = currentData[w]
          /\ pc[w] \in {"exec", "save"} => RowOf(j)'.input \in Values
          /\ pc[w] = "save" => currentData[w] = PureOutput(j)'
      BY <1>1, <1>3, <3>2 DEF CallIsPure
    <3> QED
      BY <1>4, <3>2, <3>3 DEF CallIsPure
  <2>2. CASE pc[w] \notin {"read", "start", "exec", "save"}
    BY <1>4, <2>2 DEF CallIsPure
  <2> QED
    BY <2>1, <2>2
<1>5. ASSUME NEW w \in Workers, pc'[w] \notin {"read", "start", "exec", "save"}
      PROVE  CallIsPure(w)'
  BY <1>5 DEF CallIsPure
<1>6. ASSUME NEW w \in Workers, Run(w) \/ Take(w) \/ Crash(w),
             NEW v \in Workers, v # w
      PROVE  CallIsPure(v)'
  <2>1. pc'[v] = pc[v] /\ index'[v] = index[v] /\ currentData'[v] = currentData[v]
    BY <1>1, <1>6 DEF Take, Run, Begin, Create, ReadSucceeded, ReadUnfinished, Start,
       ExecuteStep, SaveResult, Skip, RecordStepFailure, Succeed, RecordAttemptFailure,
       Settle, DbError, Crash, Return, Advance, Goto, locals
  <2> QED
    BY <1>4, <2>1
<1>7. ASSUME NEW w \in Workers, Take(w) \/ Run(w) \/ Crash(w) PROVE CallIsPure(w)'
  <2>1. CASE \/ Take(w) \/ Begin(w) \/ Skip(w) \/ RecordStepFailure(w) \/ Succeed(w)
             \/ RecordAttemptFailure(w) \/ Settle(w) \/ DbError(w) \/ Crash(w)
    <3>1. pc'[w] \notin {"read", "start", "exec", "save"}
      BY <1>1, <2>1 DEF Take, Begin, Skip, RecordStepFailure, Succeed,
         RecordAttemptFailure, Settle, DbError, Handler, Crash, Return, Goto
    <3> QED
      BY <1>5, <3>1
  <2>2. CASE Create(w)
    <3>1. /\ pc'[w] \in {"succeed", "read"} /\ index'[w] = 1
          /\ currentData'[w] = payload
      BY <1>1, <2>2 DEF Create, Advance, Goto
    <3> QED
      BY <1>1, <3>1 DEF CallIsPure, InputOf
  <2>3. CASE ReadSucceeded(w) \/ ReadUnfinished(w) \/ Start(w) \/ ExecuteStep(w)
             \/ SaveResult(w)
    <3>1. index[w] \in 1 .. Len(steps)
      BY <2>3, StepInBounds DEF ReadSucceeded, ReadUnfinished, Start, ExecuteStep,
         SaveResult, InLoop
    <3>2. PICK j \in 1 .. Len(steps) : j = index[w]
      BY <3>1
    <3>3. Row(w) = RowOf(j) /\ Row(w) \in StepRow /\ j \in 1 .. Len(steps) + 1
      BY <1>1, <2>3, <3>2, StepInBounds DEF ReadSucceeded, ReadUnfinished, Start,
         ExecuteStep, SaveResult, InLoop, Row, RowOf, Step
    <3>4. CASE ReadSucceeded(w)
      <4>1. /\ pc'[w] \in {"succeed", "read"} /\ index'[w] = j + 1
            /\ currentData'[w] = RowOf(j).output /\ RowOf(j)' = RowOf(j)
        BY <1>1, <3>2, <3>3, <3>4 DEF ReadSucceeded, Advance, Goto, RowOf
      <4>2. InputOf(j + 1)' = RowOf(j)'.output
        BY DEF InputOf
      <4> QED
        BY <4>1, <4>2 DEF CallIsPure
    <3>5. CASE ReadUnfinished(w)
      <4>1. /\ pc'[w] = "start" /\ index'[w] = j /\ currentData'[w] = currentData[w]
            /\ currentData[w] = InputOf(j)
        BY <1>1, <3>2, <3>5 DEF ReadUnfinished, Goto, CallIsPure
      <4>2. InputOf(j)' = InputOf(j)
        BY <1>1, <1>3, <3>3, <4>1
      <4> QED
        BY <4>1, <4>2 DEF CallIsPure
    <3>6. CASE Start(w)
      <4>1. /\ pc'[w] = "exec" /\ index'[w] = j /\ currentData'[w] = currentData[w]
            /\ currentData[w] = InputOf(j) /\ pc[w] = "start" /\ StartStep(w)
        BY <1>1, <3>2, <3>6 DEF Start, Write, Goto, locals, CallIsPure
      <4>2. InputOf(j)' = InputOf(j)
        BY <1>1, <1>3, <3>3, <4>1
      <4>3. RowOf(j)'.input = currentData[w]
        <5> DEFINE row == [Row(w) EXCEPT !.status = "RUNNING", !.input = currentData[w],
                                         !.attempt = IF fresh[w] THEN @ ELSE @ + 1]
        <5>1. RowOf(j)' = row
          BY <1>1, <3>2, <4>1, UpdatedRows DEF StartStep, InLoop
        <5>2. row.input = currentData[w]
          BY <3>3 DEF StepRow
        <5> QED
          BY <5>1, <5>2
      <4> QED
        BY <1>1, <4>1, <4>2, <4>3 DEF CallIsPure
    <3>7. CASE ExecuteStep(w)
      <4>1. /\ pc[w] = "exec" /\ UNCHANGED <<stepExecution, index>>
            /\ pc'[w] \in {"save", "fail"}
            /\ RowOf(j).input \in Values /\ currentData[w] = InputOf(j)
        BY <1>1, <3>2, <3>7 DEF ExecuteStep, Goto, CallIsPure
      <4>2. RowOf(j).input = InputOf(j)
        BY <1>1, <4>1 DEF RowIsPure
      <4>3. currentData'[w] = PureOutput(j)
        BY <1>1, <3>2, <3>7, <4>1, <4>2 DEF ExecuteStep, PureOutput, AllPure, Step
      <4>4. index'[w] = j /\ RowOf(j)'.input \in Values /\ PureOutput(j)' = PureOutput(j)
        BY <1>3, <3>2, <4>1
      <4> QED
        BY <4>1, <4>3, <4>4 DEF CallIsPure
    <3>8. CASE SaveResult(w)
      <4>1. pc[w] = "save" /\ SaveStep(w) /\ currentData'[w] = currentData[w]
        BY <3>8 DEF SaveResult, Write
      <4>2. RowOf(j)'.output = currentData[w]
        BY <1>1, <3>2, <4>1, SavedRow
      <4>3. InputOf(j + 1)' = currentData[w]
        BY <4>2 DEF InputOf
      <4>4. \/ pc'[w] = "read" /\ index'[w] = j + 1
            \/ pc'[w] \in {"succeed", "skip"}
        BY <1>1, <3>2, <3>8 DEF SaveResult, Advance, Goto
      <4> QED
        BY <4>1, <4>3, <4>4 DEF CallIsPure
    <3> QED
      BY <2>3, <3>4, <3>5, <3>6, <3>7, <3>8
  <2> QED
    BY <1>7, <2>1, <2>2, <2>3 DEF Run
<1>8. ASSUME UNCHANGED <<pc, index, currentData>> PROVE \A w \in Workers : CallIsPure(w)'
  BY <1>4, <1>8
<1>9. \A w \in Workers : CallIsPure(w)'
  BY <1>6, <1>7, <1>8
  DEF Next, BackoffEnds, LockExpires, Finished, vars, locals
<1> QED
  BY <1>3, <1>9

\* Whatever fails, two calls at once included: where no step makes a request,
\* every recorded output is what its template makes of the recorded input, and
\* that is the output of the step before.
THEOREM PureStepsAlwaysRepeat == Spec => []PureStepsAreRepeatable
<1>1. Init => DataIsPure
  <2> SUFFICES ASSUME Init PROVE DataIsPure
    OBVIOUS
  <2>1. TypeOK
    BY TypeInit
  <2>2. \A i \in 1 .. Len(steps) : RowOf(i).input = NoData /\ RowOf(i).output = NoData
    BY <2>1, RowOfTypes DEF Init, RowOf, NoRow
  <2> QED
    BY <2>2 DEF Init, DataIsPure, RowIsPure, CallIsPure
<1>2. TypeOK /\ DataIsPure => PureStepsAreRepeatable
  <2> SUFFICES ASSUME TypeOK, DataIsPure, DistinctIds, AllPure,
                      NEW i \in 1 .. Len(steps), RowOf(i).status = "SUCCEEDED"
               PROVE  RowOf(i).output = PureOutput(i) /\ RowOf(i).input = InputOf(i)
    BY DEF PureStepsAreRepeatable, AllPure
  <2>1. RowOf(i).output \in Values /\ NoData \notin Values
    BY RowOfTypes, NullsAreDistinct DEF TypeOK, RecordedOutputs, RowOf
  <2> QED
    BY <2>1 DEF DataIsPure, RowIsPure
<1> QED
  BY <1>1, <1>2, DataIsPureNext, TypeCorrect, PTL DEF Spec

-----------------------------------------------------------------------------
(* Without faults. *)

\* A call that runs holds a job it knows everything of, and has written FAILED
\* where its failure is the job's last.
JobKnown ==
  /\ job.state = "active" => pc[job.lock] # "idle"
  /\ \A w \in Workers :
       /\ pc[w] # "idle" => attemptsMade[w] = job.attemptsMade
       /\ pc[w] = "throw" /\ IsFinalAttempt(w) => execution.status = "FAILED"
  /\ FailedIsReported

LEMMA JobKnownNext ==
  ASSUME TypeOK, ExclusiveRun, faults = {}, JobKnown, [Next]_vars
  PROVE  JobKnown'
<1>1. /\ pc \in [Workers -> Pc] /\ job \in Job(Workers)
      /\ attemptsMade \in [Workers -> 0 .. MaxAttempts - 1]
      /\ MaxAttempts \in Nat \ {0} /\ JobInBounds
  BY JobLimits DEF TypeOK
<1> USE DEF FailedIsReported
<1>2. ASSUME NEW w \in Workers, Take(w) PROVE JobKnown'
  <2>1. /\ pc' = [pc EXCEPT ![w] = "begin"]
        /\ \A v \in Workers : pc[v] = "idle"
        /\ attemptsMade' = [attemptsMade EXCEPT ![w] = job.attemptsMade]
        /\ job'.state = "active" /\ job'.lock = w
        /\ job'.attemptsMade = job.attemptsMade
    BY <1>1, <1>2 DEF Take, Goto, Acquired, Job, ExclusiveRun, HoldsLock
  <2> QED
    BY <1>1, <2>1 DEF JobKnown
<1>3. ASSUME NEW w \in Workers, Settle(w) PROVE JobKnown'
  <2>1. /\ pc' = [pc EXCEPT ![w] = "idle"] /\ pc[w] \in {"complete", "throw"}
        /\ \A v \in Workers : pc'[v] = "idle"
        /\ execution' = execution /\ job.state = "active"
        /\ job' = IF pc[w] = "complete" THEN Completed(job) ELSE Rejected(job)
    BY <1>1, <1>3 DEF Settle, Return, Goto, ExclusiveRun, HoldsLock
  <2>2. /\ job'.state # "active"
        /\ job'.state = "failed" => pc[w] = "throw" /\ job.attemptsMade + 1 >= MaxAttempts
    BY <1>1, <2>1 DEF Rejected, Completed, Job
  <2>3. job'.state = "failed" => execution.status = "FAILED"
    BY <1>1, <2>2 DEF JobKnown, IsFinalAttempt
  <2> QED
    BY <2>1, <2>2, <2>3 DEF JobKnown
<1>4. ASSUME NEW w \in Workers, Run(w), ~ Settle(w) PROVE JobKnown'
  <2>1. /\ pc[w] # "idle" /\ UNCHANGED <<job, attemptsMade>>
        /\ \A v \in Workers \ {w} : pc'[v] = "idle" /\ pc[v] = "idle"
    BY <1>1, <1>4, OthersIdle DEF Run, Begin, Create, ReadSucceeded, ReadUnfinished,
       Start, ExecuteStep, SaveResult, Skip, RecordStepFailure, Succeed,
       RecordAttemptFailure, DbError, DbCall, locals, ExclusiveRun, HoldsLock
  <2>2. /\ pc'[w] # "idle"
        /\ pc'[w] = "throw" => RecordAttemptFailure(w)
    BY <1>1, <1>4 DEF Run, Begin, Create, ReadSucceeded, ReadUnfinished, Start,
       ExecuteStep, SaveResult, Skip, RecordStepFailure, Succeed,
       RecordAttemptFailure, DbError, Advance, Goto
  <2>3. RecordAttemptFailure(w) /\ IsFinalAttempt(w) => execution'.status = "FAILED"
    BY DEF RecordAttemptFailure, Write, MarkAttemptFailed
  <2>4. job.state = "active" /\ job.lock = w
    BY <2>1 DEF ExclusiveRun, HoldsLock
  <2> QED
    BY <2>1, <2>2, <2>3, <2>4 DEF JobKnown, IsFinalAttempt
<1>5. ASSUME BackoffEnds PROVE JobKnown'
  <2>1. /\ job'.state = "waiting" /\ UNCHANGED <<pc, attemptsMade, execution>>
        /\ \A w \in Workers : pc[w] = "idle"
    BY <1>1, <1>5 DEF BackoffEnds, Promoted, Job, locals, ExclusiveRun, HoldsLock
  <2> QED
    BY <2>1 DEF JobKnown
<1>6. ~ LockExpires /\ \A w \in Workers : ~ Crash(w)
  BY <1>1 DEF LockExpires, Crash, JobKnown, JobInBounds
<1>7. ASSUME UNCHANGED vars PROVE JobKnown'
  BY <1>7 DEF vars, JobKnown, IsFinalAttempt
<1> QED
  BY <1>2, <1>3, <1>4, <1>5, <1>6, <1>7 DEF Next, Finished, Run

\* Where a filter has stopped the workflow, no step behind it is started, and
\* the job is completed or the call that saved the filter is about to return.
StopHolds ==
  \A i \in 1 .. Len(steps) :
    Stopped(i) =>
      /\ job.state = "completed" \/ \E w \in Workers : pc[w] \in {"skip", "succeed", "complete"}
      /\ \A k \in i + 1 .. Len(steps) : RowOf(k).status \in {"PENDING", "SKIPPED"}

\* Only the save of its row makes a filter stop the workflow.
LEMMA StopsOnlyBySave ==
  ASSUME TypeOK, DistinctIds, UNCHANGED steps, NEW w \in Workers,
         Write(w) \/ UNCHANGED stepExecution, pc[w] # "save",
         NEW i \in 1 .. Len(steps), Stopped(i)'
  PROVE  Stopped(i)
<1>1. RowOf(i) \in StepRow
  BY RowOfTypes
<1>2. CASE UNCHANGED stepExecution
  BY <1>2 DEF RowOf, Stopped
<1>3. CASE CreateSteps \/ (pc[w] = "skip" /\ SkipRemaining(w))
  <2>1. \/ UNCHANGED stepExecution \/ CreateSteps
        \/ SkipRemaining(w) /\ index[w] \in 1 .. Len(steps)
    BY <1>3, StepInBounds DEF InLoop
  <2>2. /\ RowOf(i)'.output = RowOf(i).output
        /\ (RowOf(i)'.status = "SUCCEEDED") = (RowOf(i).status = "SUCCEEDED")
    BY <2>1, SelectingKeepsStarted
  <2> QED
    BY <2>2 DEF Stopped
<1>4. CASE \/ pc[w] = "start" /\ StartStep(w)
           \/ pc[w] = "fail" /\ FailStep(w)
  <2>1. Row(w) \in StepRow
    BY <1>4, StepInBounds DEF InLoop
  <2>2. PICK row :
          /\ UpdateStep(w, row)
          /\ row \in {[Row(w) EXCEPT !.status = "RUNNING", !.input = currentData[w],
                        !.attempt = IF fresh[w] THEN @ ELSE @ + 1],
                      [Row(w) EXCEPT !.status = "FAILED"]}
    BY <1>4 DEF StartStep, FailStep
  <2>3. row.status # "SUCCEEDED"
    BY <2>1, <2>2 DEF StepRow
  <2>4. RowOf(i)' = IF i = index[w] THEN row ELSE RowOf(i)
    BY <1>4, <2>2, UpdatedRows DEF InLoop
  <2> QED
    BY <2>3, <2>4 DEF Stopped
<1> QED
  BY <1>2, <1>3, <1>4 DEF Write, MarkRunning, MarkSucceeded, MarkAttemptFailed

LEMMA StopHoldsNext ==
  ASSUME TypeOK, ExclusiveRun, faults = {}, JobKnown, DistinctIds, StopHolds,
         RowsInOrder, \A w \in Workers : CallInOrder(w) /\ CallAtEnd(w), [Next]_vars
  PROVE  StopHolds'
<1>1. /\ UNCHANGED <<steps, payload>>
      /\ pc \in [Workers -> Pc] /\ job \in Job(Workers) /\ JobInBounds
      /\ index \in [Workers -> 1 .. Len(steps) + 1]
      /\ Len(steps) \in Nat
  BY SnapshotKept, RowOfTypes DEF TypeOK, snapshot
<1>2. ASSUME UNCHANGED <<job, pc, stepExecution>> PROVE StopHolds'
  BY <1>1, <1>2 DEF StopHolds, Stopped, RowOf
<1>3. ASSUME \A i \in 1 .. Len(steps) : ~ Stopped(i),
             NEW w \in Workers, Write(w) \/ UNCHANGED stepExecution, pc[w] # "save"
      PROVE  StopHolds'
  BY <1>1, <1>3, StopsOnlyBySave DEF StopHolds
<1>4. ASSUME NEW w \in Workers, Take(w) PROVE StopHolds'
  <2>1. job.state = "waiting" /\ \A v \in Workers : pc[v] = "idle"
    BY <1>4 DEF Take, ExclusiveRun, HoldsLock
  <2>2. \A i \in 1 .. Len(steps) : ~ Stopped(i)
    BY <2>1 DEF StopHolds
  <2> QED
    BY <1>3, <1>4, <2>1, <2>2 DEF Take
<1>5. ASSUME NEW w \in Workers, Settle(w) PROVE StopHolds'
  <2>1. /\ pc[w] \in {"complete", "throw"} /\ job.state = "active"
        /\ UNCHANGED stepExecution
        /\ pc[w] = "complete" => job' = Completed(job)
        /\ \A v \in Workers \ {w} : pc[v] = "idle"
    BY <1>5 DEF Settle, ExclusiveRun, HoldsLock
  <2>2. CASE pc[w] = "throw"
    <3>1. \A i \in 1 .. Len(steps) : ~ Stopped(i)
      BY <2>1, <2>2 DEF StopHolds
    <3> QED
      BY <1>3, <2>1, <2>2, <3>1
  <2>3. CASE pc[w] = "complete"
    <3>1. job'.state = "completed"
      BY <1>1, <2>1, <2>3 DEF Completed, Job
    <3> QED
      BY <1>1, <2>1, <3>1 DEF StopHolds, Stopped, RowOf
  <2> QED
    BY <2>1, <2>2, <2>3
<1>6. ASSUME NEW w \in Workers, Succeed(w) PROVE StopHolds'
  <2>1. pc'[w] = "complete" /\ UNCHANGED stepExecution
    BY <1>1, <1>6 DEF Succeed, Write, MarkSucceeded, Goto
  <2> QED
    BY <1>1, <2>1 DEF StopHolds, Stopped, RowOf
<1>7. ASSUME NEW w \in Workers, Skip(w) PROVE StopHolds'
  <2>1. pc[w] = "skip" /\ pc'[w] = "succeed" /\ SkipRemaining(w) /\ Write(w)
        /\ index[w] \in 1 .. Len(steps)
    BY <1>1, <1>7, StepInBounds DEF Skip, Write, Goto, InLoop
  <2>2. ASSUME NEW i \in 1 .. Len(steps), Stopped(i)',
               NEW k \in i + 1 .. Len(steps)
        PROVE  RowOf(k)'.status \in {"PENDING", "SKIPPED"}
    <3>1. Stopped(i)
      BY <1>1, <2>1, <2>2, StopsOnlyBySave
    <3>2. /\ k \in 1 .. Len(steps) /\ RowOf(k).status \in {"PENDING", "SKIPPED"}
          /\ RowOf(k) \in StepRow
      BY <1>1, <3>1, RowOfTypes DEF StopHolds
    <3>3. \/ RowOf(k)' = RowOf(k)
          \/ RowOf(k)' = [RowOf(k) EXCEPT !.status = "SKIPPED"]
      BY <1>1, <2>1, <3>2, SelectedRows
    <3> QED
      BY <3>2, <3>3 DEF StepRow
  <2> QED
    BY <1>1, <2>1, <2>2 DEF StopHolds
<1>8. ASSUME NEW w \in Workers, SaveResult(w) PROVE StopHolds'
  <2>1. /\ pc[w] = "save" /\ Write(w) /\ SaveStep(w) /\ index[w] \in 1 .. Len(steps)
    BY <1>8, StepInBounds DEF SaveResult, InLoop, Write
  <2>2. PICK j \in 1 .. Len(steps) : j = index[w]
    BY <2>1
  <2>3. \A i \in 1 .. Len(steps) : ~ Stopped(i)
    BY <2>1 DEF StopHolds, ExclusiveRun, HoldsLock
  <2>4. /\ RowOf(j)'.output = currentData[w]
        /\ \A i \in 1 .. Len(steps) \ {j} : RowOf(i)' = RowOf(i)
    BY <1>1, <2>1, <2>2, SavedRow, UpdatedRows DEF SaveStep, InLoop
  <2>5. ASSUME NEW i \in 1 .. Len(steps), Stopped(i)'
        PROVE  i = j /\ StopsHere(w)
    <3>1. i = j
      BY <1>1, <2>3, <2>4, <2>5 DEF Stopped
    <3> QED
      BY <1>1, <2>2, <2>4, <2>5, <3>1 DEF Stopped, StopsHere, Step
  <2>6. StopsHere(w) => pc'[w] \in {"skip", "succeed"}
    BY <1>1, <1>8 DEF SaveResult, Goto
  <2>7. ASSUME NEW k \in j + 1 .. Len(steps)
        PROVE  RowOf(k)'.status \in {"PENDING", "SKIPPED"}
    <3>1. /\ k \in 1 .. Len(steps) /\ k # j /\ ~ Started(k) /\ RowOf(k) \in StepRow
          /\ RowOf(k).status # "ABSENT"
      BY <1>1, <2>1, <2>2, RowOfTypes
      DEF CallInOrder, NoneStartedAbove, CallAtEnd, RowsExist, InLoop
    <3> QED
      BY <2>4, <3>1 DEF Started, StepRow
  <2> QED
    BY <1>1, <2>5, <2>6, <2>7 DEF StopHolds
<1>9. ASSUME NEW w \in Workers,
             \/ Begin(w) \/ Create(w) \/ ReadSucceeded(w) \/ ReadUnfinished(w) \/ Start(w)
             \/ ExecuteStep(w) \/ RecordStepFailure(w) \/ RecordAttemptFailure(w)
      PROVE  StopHolds'
  <2>1. /\ pc[w] \notin {"idle", "save", "skip", "succeed", "complete"}
        /\ Write(w) \/ UNCHANGED stepExecution
    BY <1>9 DEF Begin, Create, ReadSucceeded, ReadUnfinished, Start, ExecuteStep,
       RecordStepFailure, RecordAttemptFailure
  <2>2. \A i \in 1 .. Len(steps) : ~ Stopped(i)
    BY <2>1 DEF StopHolds, ExclusiveRun, HoldsLock
  <2> QED
    BY <1>3, <2>1, <2>2
<1>10. ASSUME BackoffEnds PROVE StopHolds'
  <2>1. job.state = "delayed" /\ UNCHANGED <<pc, stepExecution>>
    BY <1>10 DEF BackoffEnds
  <2>2. \A i \in 1 .. Len(steps) : ~ Stopped(i)
    BY <2>1 DEF StopHolds, ExclusiveRun, HoldsLock
  <2> QED
    BY <1>1, <2>1, <2>2 DEF StopHolds, Stopped, RowOf
<1>11. ~ LockExpires /\ \A w \in Workers : ~ Crash(w) /\ ~ DbError(w)
  BY <1>1 DEF LockExpires, Crash, DbError, JobKnown, JobInBounds
<1> QED
  BY <1>2, <1>4, <1>5, <1>6, <1>7, <1>8, <1>9, <1>10, <1>11
  DEF Next, Finished, Run, vars

\* All that is known of an execution to which no fault happens.
NoFaults ==
  faults = {} =>
    /\ ExclusiveRun /\ InOrder /\ ExecutionAtCall /\ CompletedJobSucceeded
    /\ Ends /\ JobKnown /\ (DistinctIds => StopHolds)

LEMMA NoFaultsNext == TypeOK /\ NoFaults /\ [Next]_vars => NoFaults'
<1> SUFFICES ASSUME TypeOK, NoFaults, [Next]_vars, faults = {}
             PROVE  /\ ExclusiveRun' /\ InOrder' /\ ExecutionAtCall'
                    /\ CompletedJobSucceeded' /\ Ends' /\ JobKnown'
                    /\ (DistinctIds => StopHolds)'
  BY SnapshotKept DEF NoFaults, snapshot
<1>1. /\ ExclusiveRun /\ InOrder /\ ExecutionAtCall /\ CompletedJobSucceeded
      /\ Ends /\ JobKnown /\ (DistinctIds => StopHolds)
  BY DEF NoFaults
<1>2. ExclusiveRun'
  BY <1>1, ExclusiveNext
<1>3. InOrder' /\ ExecutionAtCall' /\ CompletedJobSucceeded' /\ Ends' /\ JobKnown'
  BY <1>1, InOrderNext, ExecutionAtCallNext, EndsNext, JobKnownNext
<1>4. DistinctIds' = DistinctIds
  BY SnapshotKept DEF DistinctIds, snapshot
<1>5. DistinctIds => StopHolds'
  BY <1>1, StopHoldsNext DEF InOrder, Ends
<1> QED
  BY <1>2, <1>3, <1>4, <1>5

LEMMA AlwaysNoFaults == Spec => []NoFaults
<1>1. Init => NoFaults
  <2> SUFFICES ASSUME Init PROVE NoFaults
    OBVIOUS
  <2>1. TypeOK /\ InOrder
    BY TypeInit, InOrderInit
  <2>2. \A i \in 1 .. Len(steps) : ~ Stopped(i)
    BY <2>1, RowOfTypes DEF Init, Stopped, RowOf, NoRow
  <2>3. ExclusiveRun /\ ExecutionAtCall /\ CompletedJobSucceeded /\ Ends /\ JobKnown
    BY DEF Init, ExclusiveRun, ExecutionAtCall, CompletedJobSucceeded, Ends, CallAtEnd,
       JobKnown, FailedIsReported, AddedJob, InLoop
  <2> QED
    BY <2>1, <2>2, <2>3 DEF NoFaults, StopHolds
<1> QED
  BY <1>1, NoFaultsNext, TypeCorrect, PTL DEF Spec

\* An execution to which no fault happens: behind a filter that has stopped it
\* no step is started, whatever its requests answer and however often it was
\* tried before.
THEOREM FiltersStopWithoutFaults == Spec => []FilterStops
<1>1. NoFaults => FilterStops
  BY DEF NoFaults, FilterStops, StoppedIsFinal, StopHolds
<1> QED
  BY <1>1, AlwaysNoFaults, PTL

\* An execution to which no fault happens is FAILED when its job has failed: the
\* attempt that process takes for the last is the last.
THEOREM FailuresAgreeWithoutFaults == Spec => []FailedJobFailsExecution
<1>1. NoFaults => FailedJobFailsExecution
  BY DEF NoFaults, JobKnown, FailedJobFailsExecution
<1> QED
  BY <1>1, AlwaysNoFaults, PTL

-----------------------------------------------------------------------------
(* The worker that TriggerApi assumes. *)

\* A call that is past its first database call has marked the row.
Begun == \A w \in Workers : pc[w] \notin {"idle", "begin"} => execution.status # "QUEUED"

LEMMA NeverQueuedAgain ==
  TypeOK /\ [Next]_vars => (execution.status # "QUEUED" => execution'.status # "QUEUED")
<1> SUFFICES ASSUME TypeOK, [Next]_vars, execution.status # "QUEUED"
             PROVE  execution' = execution \/ execution'.status # "QUEUED"
  OBVIOUS
<1>1. ASSUME NEW w \in Workers, Write(w)
      PROVE  execution' = execution \/ execution'.status # "QUEUED"
  <2>1. MarkRunning => execution'.status = "RUNNING"
    BY DEF MarkRunning
  <2>2. MarkSucceeded => execution'.status = "SUCCEEDED"
    BY DEF MarkSucceeded, TypeOK, ExecutionRow
  <2>3. MarkAttemptFailed(w) => execution'.status \in {"RUNNING", "FAILED"}
    BY DEF MarkAttemptFailed
  <2> QED
    BY <1>1, <2>1, <2>2, <2>3 DEF Write, CreateSteps, StartStep, SaveStep, SkipRemaining,
       FailStep, UpdateStep
<1>2. ASSUME NEW w \in Workers, Run(w) PROVE Write(w) \/ execution' = execution
  BY <1>2 DEF Run, Begin, Create, ReadSucceeded, ReadUnfinished, Start, ExecuteStep,
     SaveResult, Skip, RecordStepFailure, Succeed, RecordAttemptFailure, Settle, DbError
<1>3. ASSUME NEW w \in Workers, Take(w) \/ Crash(w) PROVE execution' = execution
  BY <1>3 DEF Take, Crash
<1> QED
  BY <1>1, <1>2, <1>3 DEF Next, BackoffEnds, LockExpires, Finished, vars

LEMMA BegunNext == TypeOK /\ faults = {} /\ Begun /\ [Next]_vars => Begun'
<1> SUFFICES ASSUME TypeOK, faults = {}, Begun, [Next]_vars, NEW w \in Workers,
                    pc'[w] \notin {"idle", "begin"}, pc[w] \in {"idle", "begin"}
             PROVE  execution'.status # "QUEUED"
  BY NeverQueuedAgain DEF Begun
<1>1. ASSUME NEW v \in Workers,
             Run(v) \/ Take(v) \/ Crash(v)
      PROVE  pc'[w] = pc[w] \/ (v = w /\ Begin(v)) \/ pc'[w] \in {"idle", "begin"}
  <2>1. pc' = [pc EXCEPT ![v] = pc'[v]]
    BY <1>1 DEF Run, Take, Crash, Begin, Create, ReadSucceeded, ReadUnfinished, Start,
       ExecuteStep, SaveResult, Skip, RecordStepFailure, Succeed, RecordAttemptFailure,
       Settle, DbError, Goto, Advance, Return, TypeOK
  <2>2. v = w => Take(v) \/ Begin(v) \/ Return(v)
    BY <1>1 DEF Run, Take, Crash, Begin, Create, ReadSucceeded, ReadUnfinished, Start,
       ExecuteStep, SaveResult, Skip, RecordStepFailure, Succeed, RecordAttemptFailure,
       Settle, DbError
  <2> QED
    BY <2>1, <2>2 DEF Take, Return, Goto, TypeOK
<1>2. PICK v \in Workers : v = w /\ Begin(v)
  BY <1>1 DEF Next, BackoffEnds, LockExpires, Finished, vars
<1> QED
  BY <1>2 DEF Begin, Write, MarkRunning

\* What the views do, put as steps of TriggerApi's worker.
LEMMA WorkByView ==
  /\ RowSeen = "QUEUED" /\ JobSeen = "waiting" /\ RowSeen' = "RUNNING" /\ JobSeen' = "active"
       => Queued!Work("execution")
  /\ JobSeen = "active" /\ JobSeen' = "settled" /\ RowSeen' \in {"SUCCEEDED", "FAILED"}
       => Queued!Work("execution")
  /\ RowSeen' = RowSeen /\ JobSeen' = JobSeen => UNCHANGED Queued!vars
<1>1. \A x, y : [[e \in Added |-> x] EXCEPT !["execution"] = y] = [e \in Added |-> y]
  BY DEF Added
<1>2. [e \in Added |-> JobSeen]["execution"] = JobSeen
  BY DEF Added
<1>3. ASSUME RowSeen = "QUEUED", JobSeen = "waiting", RowSeen' = "RUNNING", JobSeen' = "active"
      PROVE  Queued!Start("execution")
  BY <1>1, <1>2, <1>3 DEF Queued!Start
<1>4. ASSUME JobSeen = "active", JobSeen' = "settled", RowSeen' \in {"SUCCEEDED", "FAILED"}
      PROVE  Queued!Finish("execution")
  BY <1>1, <1>2, <1>4 DEF Queued!Finish
<1>5. RowSeen' = RowSeen /\ JobSeen' = JobSeen => UNCHANGED Queued!vars
  BY DEF Queued!vars
<1> QED
  BY <1>3, <1>4, <1>5 DEF Queued!Work

LEMMA WorkStep ==
  ASSUME TypeOK, faults = {}, ExclusiveRun, JobKnown, Begun, ExecutionAtCall,
         (CompletedJobSucceeded /\ FailedIsReported)', [Next]_vars
  PROVE  Queued!Work("execution") \/ UNCHANGED Queued!vars
<1>1. /\ pc \in [Workers -> Pc] /\ job \in Job(Workers) /\ execution \in ExecutionRow
  BY DEF TypeOK
<1>2. ASSUME UNCHANGED <<execution, job>> PROVE UNCHANGED Queued!vars
  BY <1>2, WorkByView DEF RowSeen, JobSeen, JobSettled
<1>3. CASE \/ \E w \in Workers : Take(w)
           \/ BackoffEnds
  <2>1. execution' = execution /\ ~ JobSettled /\ ~ JobSettled'
    BY <1>1, <1>3 DEF Take, BackoffEnds, Acquired, Promoted, Job, JobSettled
  <2> QED
    BY <2>1, WorkByView DEF RowSeen, JobSeen
<1>4. ASSUME NEW w \in Workers, Settle(w)
      PROVE  Queued!Work("execution") \/ UNCHANGED Queued!vars
  <2>1. /\ execution' = execution /\ job.state = "active"
        /\ execution.status # "QUEUED" /\ ~ JobSettled
    BY <1>4 DEF Settle, ExclusiveRun, HoldsLock, Begun, JobSettled
  <2>2. CASE JobSettled'
    <3>1. execution'.status \in {"SUCCEEDED", "FAILED"}
      BY <2>2 DEF JobSettled, CompletedJobSucceeded, FailedIsReported
    <3> QED
      BY <2>1, <2>2, <3>1, WorkByView DEF RowSeen, JobSeen
  <2>3. CASE ~ JobSettled'
    BY <2>1, <2>3, WorkByView DEF RowSeen, JobSeen
  <2> QED
    BY <2>2, <2>3
<1>5. ASSUME NEW w \in Workers, Run(w), ~ Settle(w)
      PROVE  Queued!Work("execution") \/ UNCHANGED Queued!vars
  <2>1. /\ pc[w] # "idle" /\ job' = job
        /\ Begin(w) \/ pc[w] # "begin"
    BY <1>5 DEF Run, Begin, Create, ReadSucceeded, ReadUnfinished, Start, ExecuteStep,
       SaveResult, Skip, RecordStepFailure, Succeed, RecordAttemptFailure, DbError, DbCall
  <2>2. ~ JobSettled /\ ~ JobSettled'
    BY <2>1 DEF ExclusiveRun, HoldsLock, JobSettled
  <2>3. CASE Begin(w)
    <3>1. execution'.status = "RUNNING"
      BY <2>3 DEF Begin, Write, MarkRunning
    <3> QED
      BY <2>2, <3>1, WorkByView DEF RowSeen, JobSeen
  <2>4. CASE pc[w] # "begin"
    <3>1. execution.status # "QUEUED" /\ execution'.status # "QUEUED"
      BY <2>1, <2>4, NeverQueuedAgain DEF Begun
    <3> QED
      BY <2>2, <3>1, WorkByView DEF RowSeen, JobSeen
  <2> QED
    BY <2>1, <2>3, <2>4
<1>6. ~ LockExpires /\ \A w \in Workers : ~ Crash(w)
  BY <1>1 DEF LockExpires, Crash, JobKnown, TypeOK, JobInBounds
<1> QED
  BY <1>2, <1>3, <1>4, <1>5, <1>6 DEF Next, Finished, vars

\* An execution to which no fault happens is worked on as TriggerApi has it: what
\* is proved there of requests, keys and ends holds with this engine at work,
\* for any definition, any answers of its requests and any number of attempts.
THEOREM EngineIsTheWorker == Spec => ImplementsWorker
<1> DEFINE Works == faults = {} => [\E e \in Added : Queued!Work(e)]_(Queued!vars)
           Known == faults = {} => Begun
<1>1. Init => Known
  BY DEF Init, Begun
<1>2. TypeOK /\ Known /\ [Next]_vars => Known'
  BY BegunNext, SnapshotKept DEF snapshot
<1>3. TypeOK /\ NoFaults /\ NoFaults' /\ Known /\ [Next]_vars => [Works]_vars
  <2> SUFFICES ASSUME TypeOK, NoFaults, NoFaults', Begun, [Next]_vars, faults = {}
               PROVE  Queued!Work("execution") \/ UNCHANGED Queued!vars
    BY DEF Added
  <2>1. ExclusiveRun /\ ExecutionAtCall /\ JobKnown
    BY DEF NoFaults
  <2>2. (CompletedJobSucceeded /\ FailedIsReported)'
    BY SnapshotKept DEF NoFaults, JobKnown, snapshot
  <2> QED
    BY <2>1, <2>2, WorkStep
<1>4. Spec => [][Works]_vars
  <2> HIDE DEF Works, Known
  <2> QED
    BY <1>1, <1>2, <1>3, AlwaysNoFaults, TypeCorrect, PTL DEF Spec
<1> QED
  BY <1>4 DEF ImplementsWorker
=============================================================================

-------------------------- MODULE TriggerApiProofs --------------------------
(***************************************************************************)
(* Theorems about TriggerApi, for any finite set of requests, any keys,    *)
(* any limits and whatever faults happen.                                  *)
(***************************************************************************)
EXTENDS TriggerApi, FiniteSetTheorems, TLAPS

-----------------------------------------------------------------------------
(* Type correctness. *)

LEMMA TypeInit == Init => TypeOK
BY DEF Init, TypeOK, Status, JobState, Pc, Reply

LEMMA TypeNext == TypeOK /\ [Next]_vars => TypeOK'
<1> SUFFICES ASSUME TypeOK, [Next]_vars PROVE TypeOK'
  OBVIOUS
<1> USE DEF TypeOK, Status, JobState, Pc, Reply, Goto, Answer, Return
<1>1. ASSUME NEW r \in Requests, Receive(r) PROVE TypeOK'
  BY <1>1 DEF Receive
<1>2. ASSUME NEW r \in Requests, Lookup(r) PROVE TypeOK'
  BY <1>2 DEF Lookup, Existing
<1>3. ASSUME NEW r \in Requests, CheckCapacity(r) PROVE TypeOK'
  BY <1>3 DEF CheckCapacity
<1>4. ASSUME NEW r \in Requests, Create(r) PROVE TypeOK'
  BY <1>4 DEF Create, Insert
<1>5. ASSUME NEW r \in Requests, Recover(r) PROVE TypeOK'
  BY <1>5 DEF Recover, Existing
<1>6. ASSUME NEW r \in Requests, Add(r) PROVE TypeOK'
  BY <1>6 DEF Add, Enqueue
<1>7. ASSUME NEW r \in Requests, Undo(r) PROVE TypeOK'
  BY <1>7 DEF Undo, MarkUnqueued
<1>8. ASSUME NEW r \in Requests, AddFails(r) PROVE TypeOK'
  BY <1>8 DEF AddFails, Enqueue
<1>9. ASSUME NEW r \in Requests, CountFails(r) PROVE TypeOK'
  BY <1>9 DEF CountFails
<1>10. ASSUME NEW r \in Requests, DbFails(r) PROVE TypeOK'
  BY <1>10 DEF DbFails, Insert, MarkUnqueued
<1>11. ASSUME NEW r \in Requests, Crash(r) PROVE TypeOK'
  BY <1>11 DEF Crash
<1>12. ASSUME NEW e \in Requests, Work(e) PROVE TypeOK'
  BY <1>12 DEF Work, Start, Finish
<1>13. ASSUME UNCHANGED vars PROVE TypeOK'
  BY <1>13 DEF vars
<1> QED
  BY <1>1, <1>2, <1>3, <1>4, <1>5, <1>6, <1>7, <1>8, <1>9, <1>10, <1>11, <1>12,
     <1>13 DEF Next, Handle, Quiet

\* The tables, the queue and the handlers keep their types, and a request has
\* a row only from execution.create on and a job only from queue.add on.
THEOREM TypeCorrect == Spec => []TypeOK
BY TypeInit, TypeNext, PTL DEF Spec

-----------------------------------------------------------------------------
(* Backpressure. *)

\* Sets of requests are finite, so they can be counted.
LEMMA Countable ==
  ASSUME NEW S \in SUBSET Requests
  PROVE  IsFiniteSet(S) /\ Cardinality(S) \in Nat
BY RequestsAreFinite, FS_Subset, FS_CardinalityType

LEMMA SmallerSet ==
  ASSUME NEW S \in SUBSET Requests, NEW T \in SUBSET S
  PROVE  Cardinality(T) <= Cardinality(S)
BY Countable, FS_Subset

LEMMA OneMore ==
  ASSUME NEW S \in SUBSET Requests, NEW r \in Requests
  PROVE  Cardinality(S \union {r}) <= Cardinality(S) + 1
BY Countable, FS_AddElement

LEMMA OneLess ==
  ASSUME NEW S \in SUBSET Requests, NEW r \in S
  PROVE  Cardinality(S \ {r}) = Cardinality(S) - 1
BY Countable, FS_RemoveElement

\* Only Receive takes a request in.
LEMMA InFlightNext == TypeOK /\ InFlightBounded /\ [Next]_vars => InFlightBounded'
<1> SUFFICES ASSUME TypeOK, InFlightBounded, [Next]_vars PROVE InFlightBounded'
  OBVIOUS
<1>1. pc \in [Requests -> Pc]
  BY DEF TypeOK
<1>2. ASSUME NEW r \in Requests, Receive(r) PROVE InFlightBounded'
  <2>1. InFlight' \subseteq InFlight \union {r}
    BY <1>1, <1>2 DEF Receive, InFlight, Goto, Answer
  <2>2. Cardinality(InFlight') <= Cardinality(InFlight \union {r})
    BY <2>1, SmallerSet DEF InFlight
  <2>3. Cardinality(InFlight \union {r}) <= Cardinality(InFlight) + 1
    BY OneMore DEF InFlight
  <2>4. /\ Cardinality(InFlight) \in Nat /\ Cardinality(InFlight') \in Nat
        /\ Cardinality(InFlight \union {r}) \in Nat
    BY Countable DEF InFlight
  <2> QED
    BY <1>2, <2>2, <2>3, <2>4, DepthsArePositive DEF Receive, InFlightBounded
<1>3. ASSUME InFlight' \subseteq InFlight PROVE InFlightBounded'
  <2>1. Cardinality(InFlight') <= Cardinality(InFlight)
    BY <1>3, SmallerSet DEF InFlight
  <2>2. Cardinality(InFlight) \in Nat /\ Cardinality(InFlight') \in Nat
    BY Countable DEF InFlight
  <2> QED
    BY <2>1, <2>2, DepthsArePositive DEF InFlightBounded
<1>4. ASSUME NEW r \in Requests, Handle(r) \/ Crash(r) PROVE InFlight' \subseteq InFlight
  BY <1>1, <1>4 DEF Handle, Crash, Lookup, CheckCapacity, Create, Recover, Add, Undo,
     AddFails, CountFails, DbFails, InFlight, Goto, Answer, Return
<1>5. ASSUME NEW e \in Requests, Work(e) PROVE InFlight' \subseteq InFlight
  BY <1>5 DEF Work, Start, Finish, InFlight
<1>6. ASSUME UNCHANGED vars PROVE InFlight' \subseteq InFlight
  BY <1>6 DEF vars, InFlight
<1> QED
  BY <1>2, <1>3, <1>4, <1>5, <1>6 DEF Next, Quiet

\* A request enters Passed where the queue is below its limit, and leaves it
\* for at most one job more.
LEMMA OvershootNext ==
  TypeOK /\ InFlightBounded /\ OvershootIsBounded /\ [Next]_vars => OvershootIsBounded'
<1> SUFFICES ASSUME TypeOK, InFlightBounded, OvershootIsBounded, [Next]_vars
             PROVE  OvershootIsBounded'
  OBVIOUS
<1>1. pc \in [Requests -> Pc] /\ job \in [Requests -> JobState]
  BY DEF TypeOK
<1>2. /\ Cardinality(Live) \in Nat /\ Cardinality(Live') \in Nat
      /\ Cardinality(Passed) \in Nat /\ Cardinality(Passed') \in Nat
      /\ Cardinality(InFlight) \in Nat
      /\ MaxQueueDepth \in Nat /\ MaxInFlight \in Nat
  BY Countable, DepthsArePositive DEF Live, Passed, InFlight
<1>3. ASSUME Live' \subseteq Live, Passed' \subseteq Passed PROVE OvershootIsBounded'
  <2>1. Cardinality(Live') <= Cardinality(Live)
    BY <1>3, SmallerSet DEF Live
  <2>2. Cardinality(Passed') <= Cardinality(Passed)
    BY <1>3, SmallerSet DEF Passed
  <2> QED
    BY <1>2, <2>1, <2>2 DEF OvershootIsBounded
<1>4. ASSUME NEW r \in Requests, CheckCapacity(r) PROVE OvershootIsBounded'
  <2>1. CASE HasCapacity
    <3>1. Passed' \subseteq InFlight
      BY <1>1, <1>4 DEF CheckCapacity, Passed, InFlight, Goto, Answer
    <3>2. Cardinality(Passed') <= Cardinality(InFlight)
      BY <3>1, SmallerSet DEF InFlight
    <3>3. Live' = Live
      BY <1>4 DEF CheckCapacity, Live
    <3> QED
      BY <1>2, <2>1, <3>2, <3>3 DEF HasCapacity, InFlightBounded, OvershootIsBounded
  <2>2. CASE ~ HasCapacity
    <3>1. Live' \subseteq Live /\ Passed' \subseteq Passed
      BY <1>1, <1>4, <2>2 DEF CheckCapacity, Live, Passed, Answer
    <3> QED
      BY <1>3, <3>1
  <2> QED
    BY <2>1, <2>2
<1>5. ASSUME NEW r \in Requests, Add(r) \/ AddFails(r) PROVE OvershootIsBounded'
  <2>1. r \in Passed /\ Passed' = Passed \ {r} /\ Live' \subseteq Live \union {r}
    BY <1>1, <1>5 DEF Add, AddFails, Enqueue, Live, Passed, Goto, Return
  <2>2. Cardinality(Passed') = Cardinality(Passed) - 1
    BY <2>1, OneLess DEF Passed
  <2>3. Cardinality(Live') <= Cardinality(Live \union {r})
    BY <2>1, SmallerSet DEF Live
  <2>4. Cardinality(Live \union {r}) <= Cardinality(Live) + 1
    BY OneMore DEF Live
  <2>5. Cardinality(Live \union {r}) \in Nat
    BY Countable DEF Live
  <2> QED
    BY <1>2, <2>2, <2>3, <2>4, <2>5 DEF OvershootIsBounded
<1>6. ASSUME NEW r \in Requests,
             Receive(r) \/ Lookup(r) \/ Create(r) \/ Recover(r) \/ Undo(r)
               \/ CountFails(r) \/ DbFails(r) \/ Crash(r)
      PROVE  Live' \subseteq Live /\ Passed' \subseteq Passed
  BY <1>1, <1>6 DEF Receive, Lookup, Create, Recover, Undo, CountFails, DbFails, Crash,
     Live, Passed, Goto, Answer, Return
<1>7. ASSUME NEW e \in Requests, Work(e) PROVE Live' \subseteq Live /\ Passed' \subseteq Passed
  BY <1>1, <1>7 DEF Work, Start, Finish, Live, Passed
<1>8. ASSUME UNCHANGED vars PROVE Live' \subseteq Live /\ Passed' \subseteq Passed
  BY <1>8 DEF vars, Live, Passed
<1> QED
  BY <1>3, <1>4, <1>5, <1>6, <1>7, <1>8 DEF Next, Handle, Quiet

LEMMA BackpressureInit == Init => InFlightBounded /\ OvershootIsBounded
<1> SUFFICES ASSUME Init PROVE InFlightBounded /\ OvershootIsBounded
  OBVIOUS
<1>1. InFlight = {} /\ Live = {} /\ Passed = {}
  BY DEF Init, InFlight, Live, Passed
<1> QED
  BY <1>1, FS_EmptySet, DepthsArePositive DEF InFlightBounded, OvershootIsBounded

\* Backpressure holds up to the requests that are in flight at one time: the
\* check and the add are separate calls, and the queue overshoots its limit
\* by less than that number, whatever calls fail and whoever crashes.
THEOREM Backpressure == Spec => []OvershootIsBounded
BY TypeCorrect, BackpressureInit, InFlightNext, OvershootNext, PTL DEF Spec

-----------------------------------------------------------------------------
(* Idempotency. *)

LEMMA KeyNext ==
  TypeOK /\ KeyIsUnique /\ AnswersExist /\ [Next]_vars => KeyIsUnique' /\ AnswersExist'
<1> SUFFICES ASSUME TypeOK, KeyIsUnique, AnswersExist, [Next]_vars
             PROVE  KeyIsUnique' /\ AnswersExist'
  OBVIOUS
<1> USE DEF KeyIsUnique, AnswersExist
<1>1. /\ pc \in [Requests -> Pc] /\ execution \in [Requests -> Status]
      /\ reply \in [Requests -> Reply]
      /\ returned \in [Requests -> Requests \union {NoExecution}]
  BY DEF TypeOK
\* Rows other than a new one come and go nowhere.
<1>2. ASSUME UNCHANGED key,
             \A e \in Requests : execution[e] # "ABSENT" <=> execution'[e] # "ABSENT"
      PROVE  KeyIsUnique'
  BY <1>2
<1>3. ASSUME NEW r \in Requests, UNCHANGED key, Insert(r), ~ KeyTaken(r)
      PROVE  KeyIsUnique'
  BY <1>1, <1>3 DEF Insert, KeyTaken, Existing, Status
\* An answer stays good, and a new one names a row that is there.
<1>4. ASSUME NEW r \in Requests, UNCHANGED key,
             \A e \in Requests : execution[e] # "ABSENT" => execution'[e] # "ABSENT",
             \/ \E what \in Reply \ {"execution"} : Answer(r, what)
             \/ \E call \in Pc : Goto(r, call)
             \/ \E e \in Requests : /\ Return(r, e) /\ execution'[e] # "ABSENT"
                                    /\ e = r \/ key[e] = key[r]
      PROVE  AnswersExist'
  BY <1>1, <1>4 DEF Answer, Goto, Return
<1>5. ASSUME NEW r \in Requests, Receive(r) PROVE KeyIsUnique' /\ AnswersExist'
  BY <1>2, <1>4, <1>5 DEF Receive, Reply, Pc
<1>6. ASSUME NEW r \in Requests, Lookup(r) \/ Recover(r) PROVE KeyIsUnique' /\ AnswersExist'
  BY <1>2, <1>4, <1>6 DEF Lookup, Recover, Existing, Pc
<1>7. ASSUME NEW r \in Requests, CheckCapacity(r) \/ CountFails(r) \/ Crash(r)
      PROVE  KeyIsUnique' /\ AnswersExist'
  BY <1>2, <1>4, <1>7 DEF CheckCapacity, CountFails, Crash, Reply, Pc
<1>8. ASSUME NEW r \in Requests, Create(r) PROVE KeyIsUnique' /\ AnswersExist'
  <2>1. CASE KeyTaken(r)
    BY <1>2, <1>4, <1>8, <2>1 DEF Create, Pc
  <2>2. CASE ~ KeyTaken(r)
    <3>1. Insert(r) /\ Goto(r, "add") /\ UNCHANGED key
      BY <1>8, <2>2 DEF Create
    <3>2. \A e \in Requests : execution[e] # "ABSENT" => execution'[e] # "ABSENT"
      BY <1>1, <3>1 DEF Insert
    <3>3. "add" \in Pc
      BY DEF Pc
    <3> QED
      BY <1>3, <1>4, <2>2, <3>1, <3>2, <3>3
  <2> QED
    BY <2>1, <2>2
<1>9. ASSUME NEW r \in Requests, Add(r) \/ AddFails(r) PROVE KeyIsUnique' /\ AnswersExist'
  <2>1. execution[r] = "QUEUED" /\ UNCHANGED <<key, execution>>
    BY <1>9 DEF Add, AddFails, TypeOK
  <2>2. Return(r, r) \/ Goto(r, "undo")
    BY <1>9 DEF Add, AddFails
  <2> QED
    BY <1>2, <1>4, <2>1, <2>2 DEF Pc
<1>10. ASSUME NEW r \in Requests, Undo(r) \/ DbFails(r) PROVE KeyIsUnique' /\ AnswersExist'
  <2> USE <1>10 DEF Undo, DbFails
  <2>1. UNCHANGED key /\ (Answer(r, "unqueued") \/ Answer(r, "error"))
    OBVIOUS
  <2>2. AnswersExist'
    <3>1. \A e \in Requests : execution[e] # "ABSENT" => execution'[e] # "ABSENT"
      BY <1>1 DEF Insert, MarkUnqueued
    <3> QED
      BY <1>4, <2>1, <3>1 DEF Reply
  <2>3. KeyIsUnique'
    <3>1. CASE Insert(r) /\ ~ KeyTaken(r)
      BY <1>3, <2>1, <3>1
    <3>2. CASE UNCHANGED execution
      BY <1>2, <2>1, <3>2
    <3>3. CASE MarkUnqueued(r) /\ pc[r] = "undo"
      <4>1. execution[r] # "ABSENT"
        BY <3>3 DEF TypeOK
      <4> QED
        BY <1>1, <1>2, <2>1, <3>3, <4>1 DEF MarkUnqueued
    <3> QED
      BY <3>1, <3>2, <3>3
  <2> QED
    BY <2>2, <2>3
<1>11. ASSUME NEW e \in Requests, Work(e) PROVE KeyIsUnique' /\ AnswersExist'
  <2>1. execution[e] # "ABSENT"
    BY <1>11 DEF Work, Start, Finish, TypeOK
  <2> QED
    BY <1>1, <1>11, <2>1 DEF Work, Start, Finish
<1>12. ASSUME UNCHANGED vars PROVE KeyIsUnique' /\ AnswersExist'
  BY <1>12 DEF vars
<1> QED
  BY <1>5, <1>6, <1>7, <1>8, <1>9, <1>10, <1>11, <1>12 DEF Next, Handle, Quiet

LEMMA KeyInit == Init => KeyIsUnique /\ AnswersExist
BY DEF Init, KeyIsUnique, AnswersExist

LEMMA KeyInvariant == Spec => [](TypeOK /\ KeyIsUnique /\ AnswersExist)
BY TypeCorrect, KeyInit, KeyNext, PTL DEF Spec

\* All deliveries of a webhook with one key that are answered with an execution
\* are answered with the same one: races, lost answers and crashes included.
THEOREM Idempotent == Spec => []SameKeySameExecution
<1>1. TypeOK /\ KeyIsUnique /\ AnswersExist => SameKeySameExecution
  BY DEF KeyIsUnique, AnswersExist, SameKeySameExecution
<1> QED
  BY <1>1, KeyInvariant, PTL

\* A key's webhook is run at most once, however often and through however many
\* API processes it is delivered.
THEOREM AtMostOnce == Spec => []KeyRunsOnce
<1>1. TypeOK /\ KeyIsUnique => KeyRunsOnce
  BY DEF TypeOK, KeyIsUnique, KeyRunsOnce
<1> QED
  BY <1>1, KeyInvariant, PTL

-----------------------------------------------------------------------------
(* Refusals and ends. *)

\* Row, job and answer of a request whose queue.add told the truth.
Agree(r) ==
  /\ job[r] = "waiting" => execution[r] = "QUEUED"
  /\ job[r] = "active" => execution[r] = "RUNNING"
  /\ pc[r] = "undo" => job[r] = "none" /\ execution[r] = "QUEUED"
  /\ reply[r] # "none" => pc[r] = "done"
  /\ reply[r] \in {"refused", "busy"} => execution[r] = "ABSENT"
  /\ reply[r] = "unqueued" => job[r] = "none" /\ execution[r] = "FAILED"

RowsAgree == \A r \in Requests \ lostAcks : Agree(r)

\* What happens to one request does not touch the row and the job of another.
LEMMA OthersAgree ==
  ASSUME TypeOK, RowsAgree, NEW r \in Requests,
         \A e \in Requests \ {r} :
           /\ execution'[e] = execution[e] /\ job'[e] = job[e]
           /\ pc'[e] = pc[e] /\ reply'[e] = reply[e],
         lostAcks \subseteq lostAcks',
         r \notin lostAcks' => Agree(r)'
  PROVE  RowsAgree'
<1> SUFFICES ASSUME NEW e \in Requests, e \notin lostAcks' PROVE Agree(e)'
  BY DEF RowsAgree
<1>1. CASE e = r
  BY <1>1
<1>2. CASE e # r
  BY <1>2 DEF RowsAgree, Agree
<1> QED
  BY <1>1, <1>2

LEMMA AgreeNext == TypeOK /\ RowsAgree /\ [Next]_vars => RowsAgree'
<1> SUFFICES ASSUME TypeOK, RowsAgree, [Next]_vars PROVE RowsAgree'
  OBVIOUS
<1> DEFINE OnlyOf(r) == \A e \in Requests \ {r} :
                          /\ execution'[e] = execution[e] /\ job'[e] = job[e]
                          /\ pc'[e] = pc[e] /\ reply'[e] = reply[e]
<1>1. /\ pc \in [Requests -> Pc] /\ execution \in [Requests -> Status]
      /\ job \in [Requests -> JobState] /\ reply \in [Requests -> Reply]
  BY DEF TypeOK
<1>2. ASSUME NEW r \in Requests,
             Receive(r) \/ Lookup(r) \/ CheckCapacity(r) \/ Recover(r) \/ CountFails(r) \/ Crash(r)
      PROVE  RowsAgree'
  <2>1. UNCHANGED <<execution, job, lostAcks>>
    BY <1>2 DEF Receive, Lookup, CheckCapacity, Recover, CountFails, Crash
  <2>2. OnlyOf(r)
    BY <1>1, <1>2, <2>1
       DEF Receive, Lookup, CheckCapacity, Recover, CountFails, Crash, Goto, Answer, Return
  <2>3. r \notin lostAcks' => Agree(r)'
    BY <1>1, <1>2, <2>1
       DEF Receive, Lookup, CheckCapacity, Recover, CountFails, Crash, Goto, Answer, Return,
           RowsAgree, Agree, TypeOK, InFlight
  <2> QED
    BY <2>1, <2>2, <2>3, OthersAgree
<1>3. ASSUME NEW r \in Requests, Create(r) \/ Add(r) \/ Undo(r) \/ DbFails(r) PROVE RowsAgree'
  <2>1. UNCHANGED lostAcks
    BY <1>3 DEF Create, Add, Undo, DbFails
  <2>2. OnlyOf(r)
    BY <1>1, <1>3
       DEF Create, Add, Undo, DbFails, Insert, Enqueue, MarkUnqueued, Goto, Answer, Return
  <2>3. r \notin lostAcks' => Agree(r)'
    BY <1>1, <1>3, <2>1
       DEF Create, Add, Undo, DbFails, Insert, Enqueue, MarkUnqueued, Goto, Answer, Return,
           RowsAgree, Agree, TypeOK
  <2> QED
    BY <2>1, <2>2, <2>3, OthersAgree
<1>4. ASSUME NEW r \in Requests, AddFails(r) PROVE RowsAgree'
  <2>1. OnlyOf(r) /\ lostAcks \subseteq lostAcks'
    BY <1>1, <1>4 DEF AddFails, Enqueue, Goto
  <2>2. r \notin lostAcks' => Agree(r)'
    BY <1>1, <1>4 DEF AddFails, Enqueue, Goto, RowsAgree, Agree, TypeOK
  <2> QED
    BY <2>1, <2>2, OthersAgree
<1>5. ASSUME NEW r \in Requests, Work(r) PROVE RowsAgree'
  <2>1. OnlyOf(r) /\ UNCHANGED lostAcks
    BY <1>1, <1>5 DEF Work, Start, Finish
  <2>2. r \notin lostAcks' => Agree(r)'
    BY <1>1, <1>5 DEF Work, Start, Finish, RowsAgree, Agree, TypeOK
  <2> QED
    BY <2>1, <2>2, OthersAgree
<1>6. ASSUME UNCHANGED vars PROVE RowsAgree'
  BY <1>6 DEF vars, RowsAgree, Agree
<1> QED
  BY <1>2, <1>3, <1>4, <1>5, <1>6 DEF Next, Handle, Quiet

LEMMA AgreeInvariant == Spec => [](TypeOK /\ RowsAgree)
<1>1. Init => RowsAgree
  BY DEF Init, RowsAgree, Agree
<1> QED
  BY <1>1, TypeCorrect, AgreeNext, PTL DEF Spec

\* A client that was refused, or told that its execution was not enqueued, was
\* told the truth, unless the queue has added a job and denied it.
THEOREM RefusalsAreTrue == Spec => []RefusedNeverRuns
<1>1. TypeOK /\ RowsAgree => RefusedNeverRuns
  BY DEF TypeOK, RowsAgree, Agree, RefusedNeverRuns
<1> QED
  BY <1>1, AgreeInvariant, PTL

\* With the same exception no API process revises an execution that has ended:
\* the catch of queue.add finds it QUEUED.  Nor does a worker without faults of
\* its own, whose job starts on a QUEUED row and ends on a RUNNING one.
THEOREM EndsAreFinal == Spec => SettledIsFinal
<1> DEFINE Kept == \A e \in Requests \ lostAcks :
                     execution[e] \in Settled => execution'[e] = execution[e]
<1>1. ASSUME TypeOK, RowsAgree, [Next]_vars PROVE Kept
  <2>1. execution \in [Requests -> Status]
    BY <1>1 DEF TypeOK
  <2>2. ASSUME NEW r \in Requests, Create(r) \/ Undo(r) \/ DbFails(r) PROVE Kept
    BY <1>1, <2>1, <2>2
       DEF Create, Undo, DbFails, Insert, MarkUnqueued, TypeOK, RowsAgree, Agree, Settled
  <2>3. ASSUME NEW r \in Requests, Work(r) PROVE Kept
    BY <1>1, <2>1, <2>3 DEF Work, Start, Finish, RowsAgree, Agree, Settled
  <2>4. ASSUME UNCHANGED execution PROVE Kept
    BY <2>4
  <2> QED
    BY <1>1, <2>2, <2>3, <2>4
       DEF Next, Handle, Quiet, vars, Receive, Lookup, CheckCapacity, Recover, Add, AddFails,
           CountFails, Crash
<1>2. TypeOK /\ RowsAgree /\ [Next]_vars => [Kept]_vars
  BY <1>1
<1> QED
  BY <1>2, AgreeInvariant, PTL DEF Spec, SettledIsFinal

-----------------------------------------------------------------------------
(* The handlers implement RequestLedger. *)

\* A handler has answered when it is done and not before, and looks only for
\* executions of a key.
Stands(r) ==
  /\ reply[r] = "none" <=> pc[r] # "done"
  /\ pc[r] \in {"lookup", "recover"} => key[r] # NoKey

HandlersStand == \A r \in Requests : Stands(r)

LEMMA StandsNext == TypeOK /\ HandlersStand /\ [Next]_vars => HandlersStand'
<1> SUFFICES ASSUME TypeOK, HandlersStand, [Next]_vars PROVE HandlersStand'
  OBVIOUS
<1> USE DEF HandlersStand, Stands
<1>1. /\ pc \in [Requests -> Pc] /\ reply \in [Requests -> Reply]
  BY DEF TypeOK
<1>2. ASSUME NEW r \in Requests, NEW what \in Reply \ {"none"}, UNCHANGED key, Answer(r, what)
      PROVE  HandlersStand'
  BY <1>1, <1>2 DEF Answer
<1>3. ASSUME NEW r \in Requests, NEW e \in Requests, UNCHANGED key, Return(r, e)
      PROVE  HandlersStand'
  BY <1>1, <1>3 DEF Return
<1>4. ASSUME NEW r \in Requests, NEW call \in Pc \ {"done"}, UNCHANGED key, Goto(r, call),
             pc[r] # "done", call \in {"lookup", "recover"} => key[r] # NoKey
      PROVE  HandlersStand'
  BY <1>1, <1>4 DEF Goto
<1>5. ASSUME NEW r \in Requests, Receive(r) \/ CheckCapacity(r) \/ Crash(r) \/ CountFails(r)
      PROVE  HandlersStand'
  BY <1>2, <1>4, <1>5 DEF Receive, CheckCapacity, Crash, CountFails, Reply, Pc
<1>6. ASSUME NEW r \in Requests, Lookup(r) \/ Recover(r) PROVE HandlersStand'
  BY <1>3, <1>4, <1>6 DEF Lookup, Recover, Existing, Pc
<1>7. ASSUME NEW r \in Requests, Create(r) PROVE HandlersStand'
  BY <1>4, <1>7 DEF Create, KeyTaken, Pc
<1>8. ASSUME NEW r \in Requests, Add(r) \/ AddFails(r) PROVE HandlersStand'
  BY <1>3, <1>4, <1>8 DEF Add, AddFails, Pc
<1>9. ASSUME NEW r \in Requests, Undo(r) \/ DbFails(r) PROVE HandlersStand'
  BY <1>2, <1>9 DEF Undo, DbFails, Reply
<1>10. ASSUME NEW e \in Requests, Work(e) PROVE HandlersStand'
  BY <1>10 DEF Work, Start, Finish
<1>11. ASSUME UNCHANGED vars PROVE HandlersStand'
  BY <1>11 DEF vars
<1> QED
  BY <1>5, <1>6, <1>7, <1>8, <1>9, <1>10, <1>11 DEF Next, Handle, Quiet

\* What the answer of a handler, or the lack of one, is in the ledger.
LEMMA AnswersInLedger ==
  ASSUME TypeOK, NEW r \in Requests, reply[r] = "none"
  PROVE  /\ \A what \in Reply \ {"none"} : Answer(r, what) => Ledger!Close(r)
         /\ \A e \in Requests : Return(r, e) => Ledger!Tell(r, e)
         /\ \A call \in Pc : Goto(r, call) => Ledger!Go
BY DEF TypeOK, Answer, Return, Goto, Unanswered, Ledger!Close, Ledger!Tell, Ledger!Go

\* Rows and jobs that keep their place in the ledger.
LEMMA RowsInLedger ==
  /\ UNCHANGED execution => UNCHANGED Created
  /\ UNCHANGED job => UNCHANGED EverQueued
  /\ \A r \in Requests : Ledger!Holders(r) = {e \in Existing(r) : key[r] # NoKey}
BY DEF Created, EverQueued, Existing, Ledger!Holders

LEMMA LedgerInit == Init => Ledger!Init
BY DEF Init, Ledger!Init, Created, EverQueued, Unanswered

LEMMA LedgerNext == TypeOK /\ HandlersStand /\ [Next]_vars => [Ledger!Next]_(Ledger!vars)
<1> SUFFICES ASSUME TypeOK, HandlersStand, [Next]_vars
             PROVE  Ledger!Next \/ UNCHANGED Ledger!vars
  BY DEF Ledger!vars
<1> USE DEF Ledger!Next
<1>1. /\ pc \in [Requests -> Pc] /\ reply \in [Requests -> Reply]
      /\ execution \in [Requests -> Status] /\ job \in [Requests -> JobState]
  BY DEF TypeOK
<1>2. \A r \in Requests : pc[r] # "done" => reply[r] = "none" /\ r \in Unanswered
  BY DEF HandlersStand, Stands, Unanswered
<1>3. ASSUME NEW r \in Requests, NEW what \in Reply \ {"none"}, pc[r] # "done",
             UNCHANGED <<key, Created, EverQueued>>, Answer(r, what)
      PROVE  Ledger!Refuse(r)
  BY <1>2, <1>3, AnswersInLedger DEF Ledger!Refuse
<1>4. ASSUME NEW r \in Requests, NEW call \in Pc, pc[r] # "done",
             UNCHANGED <<key, Created, EverQueued>>, Goto(r, call)
      PROVE  UNCHANGED Ledger!vars
  BY <1>2, <1>4, AnswersInLedger DEF Ledger!vars, Ledger!Go
<1>5. ASSUME NEW r \in Requests, pc[r] # "done", execution[r] = "ABSENT", ~ KeyTaken(r),
             Insert(r), Ledger!Go \/ Ledger!Close(r), UNCHANGED <<key, job>>
      PROVE  Ledger!Create(r)
  <2>1. Created' = Created \union {r}
    BY <1>1, <1>5 DEF Insert, Created
  <2>2. Ledger!Holders(r) = {}
    BY <1>5, RowsInLedger DEF KeyTaken
  <2> QED
    BY <1>2, <1>5, <2>1, <2>2, RowsInLedger DEF Ledger!Create, Created
<1>6. ASSUME NEW r \in Requests, pc[r] # "done", execution[r] # "ABSENT", job[r] = "none",
             Enqueue(r), Ledger!Go \/ Ledger!Tell(r, r), UNCHANGED <<key, execution>>
      PROVE  Ledger!Queue(r)
  <2>1. EverQueued' = EverQueued \union {r}
    BY <1>1, <1>6 DEF Enqueue, EverQueued
  <2> QED
    BY <1>2, <1>6, <2>1, RowsInLedger DEF Ledger!Queue, Created, EverQueued
<1>7. ASSUME NEW r \in Requests, Receive(r) \/ CheckCapacity(r) \/ CountFails(r) \/ Crash(r)
      PROVE  Ledger!Next \/ UNCHANGED Ledger!vars
  <2>1. pc[r] # "done" /\ UNCHANGED <<key, Created, EverQueued>>
    BY <1>7, RowsInLedger DEF Receive, CheckCapacity, CountFails, Crash, InFlight
  <2> QED
    BY <1>3, <1>4, <1>7, <2>1
       DEF Receive, CheckCapacity, CountFails, Crash, Reply, Pc
<1>8. ASSUME NEW r \in Requests, Lookup(r) \/ Recover(r)
      PROVE  Ledger!Next \/ UNCHANGED Ledger!vars
  <2>1. /\ pc[r] # "done" /\ UNCHANGED <<key, Created, EverQueued>>
        /\ key[r] # NoKey /\ r \notin Created
    BY <1>8, RowsInLedger DEF Lookup, Recover, HandlersStand, Stands, TypeOK, Created
  <2>2. ASSUME NEW e \in Existing(r), Return(r, e) PROVE Ledger!Find(r)
    <3>1. e \in Ledger!Holders(r) /\ e \in Requests
      BY <2>1, <2>2, RowsInLedger DEF Existing
    <3>2. Ledger!Tell(r, e)
      BY <1>2, <2>1, <2>2, <3>1, AnswersInLedger
    <3> QED
      BY <1>2, <2>1, <3>1, <3>2 DEF Ledger!Find
  <2> QED
    BY <1>4, <1>8, <2>1, <2>2 DEF Lookup, Recover, Pc
<1>9. ASSUME NEW r \in Requests, Create(r) PROVE Ledger!Next \/ UNCHANGED Ledger!vars
  <2>1. pc[r] # "done" /\ execution[r] = "ABSENT" /\ UNCHANGED <<key, job, EverQueued>>
    BY <1>9, RowsInLedger DEF Create, TypeOK
  <2>2. CASE KeyTaken(r)
    BY <1>4, <1>9, <2>1, <2>2, RowsInLedger DEF Create, Pc
  <2>3. CASE ~ KeyTaken(r)
    <3>1. Insert(r) /\ Goto(r, "add")
      BY <1>9, <2>3 DEF Create
    <3>2. Ledger!Go
      BY <1>2, <2>1, <3>1, AnswersInLedger DEF Pc
    <3> QED
      BY <1>5, <2>1, <2>3, <3>1, <3>2
  <2> QED
    BY <2>2, <2>3
<1>10. ASSUME NEW r \in Requests, Add(r) PROVE Ledger!Queue(r)
  <2>1. /\ pc[r] # "done" /\ execution[r] # "ABSENT" /\ job[r] = "none"
        /\ Enqueue(r) /\ Return(r, r) /\ UNCHANGED <<key, execution>>
    BY <1>10 DEF Add, TypeOK
  <2>2. Ledger!Tell(r, r)
    BY <1>2, <2>1, AnswersInLedger
  <2> QED
    BY <1>6, <2>1, <2>2
<1>11. ASSUME NEW r \in Requests, AddFails(r) PROVE Ledger!Next \/ UNCHANGED Ledger!vars
  <2>1. /\ pc[r] # "done" /\ execution[r] # "ABSENT" /\ job[r] = "none"
        /\ Goto(r, "undo") /\ UNCHANGED <<key, execution>>
    BY <1>11 DEF AddFails, TypeOK
  <2>2. CASE UNCHANGED job
    BY <1>4, <2>1, <2>2, RowsInLedger DEF Pc
  <2>3. CASE Enqueue(r)
    <3>1. Ledger!Go
      BY <1>2, <2>1, AnswersInLedger DEF Pc
    <3> QED
      BY <1>6, <2>1, <2>3, <3>1
  <2> QED
    BY <1>11, <2>2, <2>3 DEF AddFails
<1>12. ASSUME NEW r \in Requests, Undo(r) \/ DbFails(r) PROVE Ledger!Next
  <2>1. /\ pc[r] # "done" /\ UNCHANGED <<key, job, EverQueued>>
        /\ Answer(r, "unqueued") \/ Answer(r, "error")
    BY <1>12, RowsInLedger DEF Undo, DbFails
  <2>2. CASE UNCHANGED Created
    BY <1>3, <2>1, <2>2 DEF Reply
  <2>3. CASE MarkUnqueued(r) /\ pc[r] = "undo"
    <3>1. UNCHANGED Created
      BY <1>1, <2>3 DEF MarkUnqueued, Created, TypeOK
    <3> QED
      BY <2>2, <3>1
  <2>4. CASE Insert(r) /\ pc[r] = "create" /\ ~ KeyTaken(r)
    <3>1. execution[r] = "ABSENT"
      BY <2>4 DEF TypeOK
    <3>2. Ledger!Close(r)
      BY <1>2, <2>1, AnswersInLedger DEF Reply
    <3> QED
      BY <1>5, <2>1, <2>4, <3>1, <3>2
  <2> QED
    BY <1>12, <2>2, <2>3, <2>4, RowsInLedger DEF Undo, DbFails
<1>13. ASSUME NEW e \in Requests, Work(e) PROVE UNCHANGED Ledger!vars
  <2>1. execution[e] # "ABSENT"
    BY <1>13 DEF Work, Start, Finish, TypeOK
  <2> QED
    BY <1>1, <1>13, <2>1
       DEF Work, Start, Finish, Ledger!vars, Created, EverQueued, Unanswered
<1>14. ASSUME UNCHANGED vars PROVE UNCHANGED Ledger!vars
  BY <1>14 DEF vars, Ledger!vars, Created, EverQueued, Unanswered
<1> QED
  BY <1>7, <1>8, <1>9, <1>10, <1>11, <1>12, <1>13, <1>14 DEF Next, Handle, Quiet

\* Whatever calls race, fail or are cut off, and with whatever keys, the
\* handlers do to the table, the queue and the clients only what RequestLedger
\* allows: one execution for a key, queued once and by its own request, and no
\* client told of an execution that is neither queued for it nor its key's.
THEOREM HandlersImplementLedger == Spec => ImplementsRequestLedger
<1>1. Init => HandlersStand
  BY DEF Init, HandlersStand, Stands
<1> QED
  BY <1>1, TypeCorrect, StandsNext, LedgerInit, LedgerNext, PTL
     DEF Spec, ImplementsRequestLedger, Ledger!Spec
=============================================================================

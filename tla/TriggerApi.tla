----------------------------- MODULE TriggerApi -----------------------------
(***************************************************************************)
(* Requests that start executions of one workflow: ExecutionsService.      *)
(* runManual and WebhooksService.receive, run by any number of API         *)
(* processes at once, with the Execution table and the BullMQ queue        *)
(* between them and the workers.                                           *)
(*                                                                         *)
(* The two handlers differ in their first checks and in the idempotency    *)
(* key, which only a webhook can carry; from the capacity check on they    *)
(* run the same calls.  Each awaited call is one action.  A request        *)
(* creates at most one execution, so the execution's id is the request.    *)
(***************************************************************************)
EXTENDS Naturals, FiniteSets

CONSTANTS
  Requests,       \* requests for one workflow, repeated deliveries included
  Keys,           \* idempotency keys, trimmed
  NoKey,          \* no key, or a blank one
  NoExecution,    \* the answer holds no execution
  MaxQueueDepth,  \* QueueCapacityService.MAX_QUEUE_DEPTH (1000)
  MaxInFlight,    \* bound on the requests being handled at one time
  Faults          \* which of FaultKinds may happen

(***************************************************************************)
(* crash         an API process dies in the middle of a request            *)
(* dbError       a database call throws and has had no effect              *)
(* lostAck       a database call throws although its write was committed   *)
(* queueError    a queue call throws and has had no effect                 *)
(* queueLostAck  queue.add throws although the job was added               *)
(***************************************************************************)
FaultKinds == {"crash", "dbError", "lostAck", "queueError", "queueLostAck"}

ASSUME RequestsAreFinite == IsFiniteSet(Requests)
ASSUME NullsAreDistinct == NoKey \notin Keys /\ NoExecution \notin Requests
ASSUME DepthsArePositive == MaxQueueDepth \in Nat \ {0} /\ MaxInFlight \in Nat \ {0}
ASSUME FaultsAreKnown == Faults \subseteq FaultKinds

VARIABLES
  key,        \* the key of each request
  execution,  \* status of the Execution row that a request has created
  job,        \* the BullMQ job of that execution
  pc,         \* the next call of each request's handler
  reply,      \* what the client was told
  returned,   \* the execution in a successful answer
  lostAcks    \* history: the requests whose job was added by a failing queue.add

vars == <<key, execution, job, pc, reply, returned, lostAcks>>

Status == {"ABSENT", "QUEUED", "RUNNING", "SUCCEEDED", "FAILED"}
JobState == {"none", "waiting", "active", "settled"}
Pc == {"new", "lookup", "capacity", "create", "recover", "add", "undo", "done"}

\* busy and unqueued are the two 503 answers, refused stands for the 4xx
\* answers, error for a 500, and lost for a connection that broke.
Reply == {"none", "execution", "refused", "busy", "unqueued", "error", "lost"}

Init ==
  /\ key \in [Requests -> Keys \union {NoKey}]
  /\ execution = [e \in Requests |-> "ABSENT"]
  /\ job = [e \in Requests |-> "none"]
  /\ pc = [r \in Requests |-> "new"]
  /\ reply = [r \in Requests |-> "none"]
  /\ returned = [r \in Requests |-> NoExecution]
  /\ lostAcks = {}
-----------------------------------------------------------------------------
\* getJobCounts: waiting, active and delayed jobs ("active" covers all the
\* attempts of a job, and the backoff between them).
Live == {e \in Requests : job[e] \in {"waiting", "active"}}

\* Mutated: one job more.
RoomForOneMore == Cardinality(Live) <= MaxQueueDepth
HasCapacity == Cardinality(Live) < MaxQueueDepth

InFlight == {r \in Requests : pc[r] \notin {"new", "done"}}

\* The executions found by findUnique on (workflowId, idempotencyKey).
Existing(r) == {e \in Requests : execution[e] # "ABSENT" /\ key[e] = key[r]}

\* Mutated: no unique index on (workflowId, idempotencyKey).
NoUniqueIndex(r) == FALSE
\* The unique index ignores rows without a key.
KeyTaken(r) == key[r] # NoKey /\ Existing(r) # {}

Goto(r, call) == pc' = [pc EXCEPT ![r] = call] /\ UNCHANGED <<reply, returned>>

Answer(r, what) ==
  /\ pc' = [pc EXCEPT ![r] = "done"]
  /\ reply' = [reply EXCEPT ![r] = what]
  /\ UNCHANGED returned

Return(r, e) ==
  /\ pc' = [pc EXCEPT ![r] = "done"]
  /\ reply' = [reply EXCEPT ![r] = "execution"]
  /\ returned' = [returned EXCEPT ![r] = e]
-----------------------------------------------------------------------------
(* The handlers. *)

\* The workflow is read, the rate limit consumed, the definition, the status,
\* the trigger and the payload are checked; any of them may refuse.
Receive(r) ==
  /\ pc[r] = "new"
  /\ Cardinality(InFlight) < MaxInFlight
  /\ \/ Answer(r, "refused")
     \/ Goto(r, IF key[r] = NoKey THEN "capacity" ELSE "lookup")
  /\ UNCHANGED <<key, lostAcks, execution, job>>

Lookup(r) ==
  /\ pc[r] = "lookup"
  /\ \/ \E e \in Existing(r) : Return(r, e)
     \/ Existing(r) = {} /\ Goto(r, "capacity")
  /\ UNCHANGED <<key, lostAcks, execution, job>>

CheckCapacity(r) ==
  /\ pc[r] = "capacity"
  /\ \/ HasCapacity /\ Goto(r, "create")
     \/ ~ HasCapacity /\ Answer(r, "busy")
  /\ UNCHANGED <<key, lostAcks, execution, job>>

\* execution.create: inserts a QUEUED row, or fails with P2002.
Insert(r) == execution' = [execution EXCEPT ![r] = "QUEUED"]

\* Mutated: an upsert, which resets the row that has the key.
Upsert(r) ==
  /\ pc[r] = "create"
  /\ \/ ~ KeyTaken(r) /\ Insert(r) /\ Goto(r, "add")
     \/ \E e \in Existing(r) : /\ KeyTaken(r)
                              /\ execution' = [execution EXCEPT ![e] = "QUEUED"]
                              /\ Goto(r, "recover")
  /\ UNCHANGED <<key, lostAcks, job>>

Create(r) ==
  /\ pc[r] = "create"
  /\ \/ ~ KeyTaken(r) /\ Insert(r) /\ Goto(r, "add")
     \/ KeyTaken(r) /\ Goto(r, "recover") /\ UNCHANGED execution
  /\ UNCHANGED <<key, lostAcks, job>>

\* Mutated: a failing create answers with its own, missing execution.
RecoverOwn(r) ==
  /\ pc[r] = "recover"
  /\ Return(r, r)
  /\ UNCHANGED <<key, lostAcks, execution, job>>

Recover(r) ==
  /\ pc[r] = "recover"
  /\ \E e \in Existing(r) : Return(r, e)
  /\ UNCHANGED <<key, lostAcks, execution, job>>

Enqueue(r) == job' = [job EXCEPT ![r] = "waiting"]

Add(r) ==
  /\ pc[r] = "add"
  /\ Enqueue(r)
  /\ Return(r, r)
  /\ UNCHANGED <<key, lostAcks, execution>>

\* Mutated: the row is left QUEUED for somebody to add it again.
LeaveQueued(r) == execution' = [execution EXCEPT ![r] = "QUEUED"]
MarkUnqueued(r) == execution' = [execution EXCEPT ![r] = "FAILED"]

\* Mutated: the catch of queue.add answers without a write.
AnswerOnly(r) ==
  /\ pc[r] = "undo"
  /\ Answer(r, "unqueued")
  /\ UNCHANGED <<key, lostAcks, execution, job>>

Undo(r) ==
  /\ pc[r] = "undo"
  /\ MarkUnqueued(r)
  /\ Answer(r, "unqueued")
  /\ UNCHANGED <<key, lostAcks, job>>
-----------------------------------------------------------------------------
(* Faults of the API and of what it calls. *)

\* Mutated: the error is swallowed, or the request is tried again from create.
SwallowAddError(r) ==
  /\ pc[r] = "add"
  /\ "queueError" \in Faults
  /\ Return(r, r)
  /\ UNCHANGED <<key, lostAcks, execution, job>>
RetryFromCreate(r) ==
  /\ pc[r] = "add"
  /\ "queueError" \in Faults
  /\ Goto(r, "create")
  /\ UNCHANGED <<key, lostAcks, execution, job>>

\* An error of queue.add is caught; getJobCounts is called outside any try.
AddFails(r) ==
  /\ pc[r] = "add"
  /\ \/ "queueError" \in Faults /\ UNCHANGED <<job, lostAcks>>
     \/ "queueLostAck" \in Faults /\ Enqueue(r) /\ lostAcks' = lostAcks \union {r}
  /\ Goto(r, "undo")
  /\ UNCHANGED <<key, execution>>

CountFails(r) ==
  /\ "queueError" \in Faults
  /\ pc[r] = "capacity"
  /\ Answer(r, "error")
  /\ UNCHANGED <<key, lostAcks, execution, job>>

DbFails(r) ==
  /\ pc[r] \in {"lookup", "create", "recover", "undo"}
  /\ \/ "dbError" \in Faults /\ UNCHANGED execution
     \/ "lostAck" \in Faults /\ pc[r] = "create" /\ ~ KeyTaken(r) /\ Insert(r)
     \/ "lostAck" \in Faults /\ pc[r] = "undo" /\ MarkUnqueued(r)
  /\ Answer(r, "error")
  /\ UNCHANGED <<key, lostAcks, job>>

Crash(r) ==
  /\ "crash" \in Faults
  /\ r \in InFlight
  /\ Answer(r, "lost")
  /\ UNCHANGED <<key, lostAcks, execution, job>>
-----------------------------------------------------------------------------
(* The workers, without faults of their own (see WorkflowExecution). *)

Start(e) ==
  /\ job[e] = "waiting"
  /\ job' = [job EXCEPT ![e] = "active"]
  /\ execution' = [execution EXCEPT ![e] = "RUNNING"]
  /\ UNCHANGED <<key, lostAcks, pc, reply, returned>>

Finish(e) ==
  /\ job[e] = "active"
  /\ job' = [job EXCEPT ![e] = "settled"]
  /\ \E status \in {"SUCCEEDED", "FAILED"} :
       execution' = [execution EXCEPT ![e] = status]
  /\ UNCHANGED <<key, lostAcks, pc, reply, returned>>
-----------------------------------------------------------------------------
Handle(r) ==
  \/ Lookup(r) \/ CheckCapacity(r) \/ Create(r) \/ Recover(r) \/ Add(r) \/ Undo(r)
  \/ AddFails(r) \/ CountFails(r) \/ DbFails(r)

Work(e) == Start(e) \/ Finish(e)

\* Every request has been answered and the queue is empty.
Quiet ==
  /\ \A r \in Requests : pc[r] = "done"
  /\ Live = {}
  /\ UNCHANGED vars

Next ==
  \/ \E r \in Requests : Receive(r) \/ Handle(r) \/ Crash(r) \/ Work(r)
  \/ Quiet

\* A live API process goes on with a request it has received, and the workers
\* go on with the jobs.  Clients are not obliged to send anything.
Fairness == \A r \in Requests : WF_vars(Handle(r)) /\ WF_vars(Work(r))

Spec == Init /\ [][Next]_vars /\ Fairness
-----------------------------------------------------------------------------
(* Properties. *)

Settled == {"SUCCEEDED", "FAILED"}

\* Types, and where the handler stands in each row's life: a request that has
\* not reached queue.add has no job, and one before create has no row.
TypeOK ==
  /\ key \in [Requests -> Keys \union {NoKey}]
  /\ execution \in [Requests -> Status]
  /\ job \in [Requests -> JobState]
  /\ pc \in [Requests -> Pc]
  /\ reply \in [Requests -> Reply]
  /\ returned \in [Requests -> Requests \union {NoExecution}]
  /\ lostAcks \subseteq Requests
  /\ \A r \in Requests :
       /\ pc[r] \in {"new", "lookup", "capacity", "create", "recover"} => execution[r] = "ABSENT"
       /\ pc[r] = "add" => execution[r] = "QUEUED" /\ job[r] = "none"
       /\ pc[r] = "undo" => execution[r] # "ABSENT"
       /\ execution[r] = "ABSENT" => job[r] = "none"

\* A request between its capacity check and its queue.add.
Passed == {r \in Requests : pc[r] \in {"create", "add"}}

\* Queue backpressure: the check and the add are not atomic, so the queue can
\* grow past MAX_QUEUE_DEPTH, but, with the requests on their way to queue.add
\* counted in, by less than the number of requests in flight.
OvershootIsBounded ==
  Cardinality(Live) + Cardinality(Passed) <= MaxQueueDepth + MaxInFlight - 1

\* The handlers that are active are no more than the bound on them.
InFlightBounded == Cardinality(InFlight) <= MaxInFlight

\* The unique index at work: one row per key.
KeyIsUnique ==
  \A r, s \in Requests :
    key[r] # NoKey /\ key[r] = key[s] /\ execution[r] # "ABSENT" /\ execution[s] # "ABSENT"
      => r = s

\* An answer with an execution holds a row: the request's own or, for a
\* webhook with a key, the row that has this key.
AnswersExist ==
  \A r \in Requests : reply[r] = "execution" =>
    /\ returned[r] \in Requests
    /\ execution[returned[r]] # "ABSENT"
    /\ returned[r] = r \/ key[returned[r]] = key[r]

\* "Sending the same webhook again with the same key returns the existing
\* execution": all deliveries with one key that are answered with an execution
\* are answered with the same one, and it exists.
SameKeySameExecution ==
  \A r, s \in Requests :
    key[r] # NoKey /\ key[r] = key[s] /\ reply[r] = "execution" /\ reply[s] = "execution"
      => returned[r] = returned[s] /\ execution[returned[r]] # "ABSENT"

\* However often a webhook is delivered, and whatever fails, its key is run
\* at most once.
KeyRunsOnce ==
  \A r, s \in Requests :
    key[r] # NoKey /\ key[r] = key[s] /\ job[r] # "none" /\ job[s] # "none" => r = s

\* "Failed to enqueue execution" and the other refusals are the truth: the
\* request's execution is not in the queue and never was.  The one exception is
\* a queue.add that threw after it had added the job.
RefusedNeverRuns ==
  \A r \in Requests \ lostAcks :
    reply[r] \in {"refused", "busy", "unqueued"} =>
      job[r] = "none" /\ execution[r] \in {"ABSENT", "FAILED"}

\* The end of an execution is never revised by a request that still holds it,
\* with the same exception: a job whose add was not acknowledged runs beside the
\* catch that marks its execution FAILED.  Nor is it by a worker, but that is so
\* of the workers of this module, which have no faults of their own: a job that
\* is handed out again after its SUCCEEDED write reopens the execution, see
\* WorkflowExecution.
SettledIsFinal ==
  [][\A e \in Requests \ lostAcks : execution[e] \in Settled => execution'[e] = execution[e]]_vars

\* An answer with an execution that has come to an end, or for which the
\* request that created it was cut off between its insert and its answer.
EndsOrWasCutOff(r) ==
  \E e \in Requests :
    returned[r] = e /\ (execution[e] \in Settled \/ reply[e] \in {"lost", "error"})

\* "The execution is then queued in BullMQ": a client that was answered with
\* an execution, its own or an existing one, sees it come to an end, except
\* one that was answered with the row of a request that was cut off.  As before,
\* the workers are those of this module; WorkflowExecution says that a job
\* settles whatever fails, and FailedIsReported there what a row may miss then.
AnsweredIsSettled == \A r \in Requests : reply[r] = "execution" ~> EndsOrWasCutOff(r)

\* "Unable to queue workflow execution", without an exception: in whichever order
\* the catch of queue.add and a worker that has got the job after all write the
\* row, what the client was told has failed ends for good, and is not left QUEUED
\* or RUNNING by the one that writes last (the workers without faults again).
UnqueuedSettles == \A r \in Requests : reply[r] = "unqueued" ~> [](execution[r] \in Settled)

\* AnsweredIsSettled without its exception, as the documentation has it.
EveryAnswerSettles ==
  \A r \in Requests :
    reply[r] = "execution" ~> \E e \in Requests : returned[r] = e /\ execution[e] \in Settled
-----------------------------------------------------------------------------
(* The requests, the table and the queue as RequestLedger has them. *)

Created == {e \in Requests : execution[e] # "ABSENT"}
EverQueued == {e \in Requests : job[e] # "none"}
Unanswered == {r \in Requests : reply[r] = "none"}

Ledger == INSTANCE RequestLedger WITH
  created <- Created, queued <- EverQueued, open <- Unanswered, answer <- returned

\* Whatever calls race, fail or are cut off, the handlers do only what
\* RequestLedger allows: they answer with an execution only after they have
\* queued it or found it under their key, and queue only what they created.
ImplementsRequestLedger == Ledger!Spec
=============================================================================

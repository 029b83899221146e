----------------------------- MODULE RelayFlow -----------------------------
(***************************************************************************)
(* One workflow as its owner and its clients see it: Workflows, RateLimit  *)
(* and TriggerApi put together.  A call to the API is an edit, a manual    *)
(* run or a webhook delivery.  A run reads the workflow's row, a delivery  *)
(* is counted by the rate limit, and both then go through TriggerApi's     *)
(* calls with what the row said before, while other calls edit it.         *)
(***************************************************************************)
EXTENDS Workflows, RateLimit, FiniteSets

CONSTANTS Keys, NoKey, NoExecution, MaxQueueDepth

ASSUME CallsAreFinite == IsFiniteSet(Calls)
ASSUME KeysAreDistinct == NoKey \notin Keys /\ NoExecution \notin Calls
ASSUME DepthIsPositive == MaxQueueDepth \in Nat \ {0}

VARIABLES
  key, job, reply, returned, lostAcks,  \* as in TriggerApi
  row,       \* TriggerApi's execution: the status of the row a call created
  at,        \* TriggerApi's pc
  arriving   \* the deliveries that have read the row and not been counted yet

requests == <<key, job, reply, returned, lostAcks, row, at>>
system   == <<vars, limiter, requests, arriving>>

\* The components of this composition do not fail; TriggerApi and
\* WorkflowExecution say what happens when they do.
Api == INSTANCE TriggerApi
  WITH Requests <- Calls, execution <- row, pc <- at,
       MaxInFlight <- Cardinality(Calls) + 1, Faults <- {}

SystemInit == Init /\ LimiterInit /\ Api!Init /\ arriving = {}
-----------------------------------------------------------------------------
\* A call that edits the workflow touches nothing else.  Only a delivery can
\* carry a key.
Edit(c) ==
  /\ at[c] = "new" /\ c \notin arriving /\ key[c] = NoKey
  /\ \/ ReadForUpdate(c) \/ Update(c)
     \/ ReadForActivate(c) \/ Activate(c)
     \/ ReadForPause(c) \/ Pause(c)
  /\ UNCHANGED <<limiter, requests, arriving>>

\* The handler goes on to TriggerApi's calls or refuses, by what it has read.
Decide(c, accepted) ==
  /\ Api!Receive(c)
  /\ accepted <=> at'[c] # "done"

ManualRun(c) ==
  /\ key[c] = NoKey
  /\ ReadForManualRun(c)
  /\ Decide(c, pc'[c] = "create")
  /\ UNCHANGED <<limiter, arriving>>

\* A delivery whose token is unknown is refused before it is counted.
Deliver(c) ==
  /\ \E token \in Token :
       /\ ReadByToken(c, token)
       /\ IF workflow.webhookToken = token
          THEN arriving' = arriving \union {c} /\ UNCHANGED requests
          ELSE Decide(c, FALSE) /\ UNCHANGED arriving
  /\ UNCHANGED limiter

Count(c) ==
  /\ c \in arriving
  /\ Consume
  /\ Decide(c, Allowed /\ pc[c] = "create")
  /\ arriving' = arriving \ {c}
  /\ UNCHANGED vars

\* A delivery by somebody else, which is counted and then refused.
CountOther == Consume /\ UNCHANGED <<vars, requests, arriving>>

\* Mutated: the row is read once more for the snapshot.
InsertOfNow(c) ==
  /\ Api!Create(c)
  /\ IF row' # row
     THEN /\ execution' = [execution EXCEPT ![c] = Snapshot(workflow)]
          /\ Wrote(c)
          /\ UNCHANGED <<workflow, published>>
     ELSE UNCHANGED vars
  /\ UNCHANGED <<limiter, arriving>>

\* execution.create writes the snapshot of the row as the call has read it.
InsertExecution(c) ==
  /\ Api!Create(c)
  /\ IF row' # row THEN CreateExecution(c) ELSE UNCHANGED vars
  /\ UNCHANGED <<limiter, arriving>>

Handle(c) ==
  /\ \/ Api!Lookup(c) \/ Api!CheckCapacity(c) \/ Api!Recover(c)
     \/ Api!Add(c) \/ Api!Work(c)
  /\ UNCHANGED <<vars, limiter, arriving>>

TimePasses == Tick /\ UNCHANGED <<vars, requests, arriving>>

SystemNext ==
  \/ \E c \in Calls :
       Edit(c) \/ ManualRun(c) \/ Deliver(c) \/ Count(c) \/ InsertExecution(c) \/ Handle(c)
  \/ CountOther \/ TimePasses

SystemSpec == SystemInit /\ [][SystemNext]_system
-----------------------------------------------------------------------------
\* What a client is answered with, its own execution or the one that has its
\* key, is an execution of one version of the workflow, and a webhook's key
\* never finds an execution of a definition that has no webhook trigger,
\* however often the trigger was edited between the deliveries.
AnswersAreOfAVersion ==
  \A c \in Calls : reply[c] = "execution" =>
    LET found == execution[returned[c]]
    IN  /\ found # NoSnapshot
        /\ found.definition = published[found.version]
        /\ key[c] # NoKey => found.definition.trigger = "WEBHOOK"
=============================================================================

----------------------------- MODULE Workflows -----------------------------
(***************************************************************************)
(* One Workflow row and the API calls that edit it and start executions    *)
(* from it: WorkflowsService.update, activate and pause, and the first     *)
(* and last database call of runManual and receive.  Every one of them     *)
(* reads the row, decides by what it read, and writes later, without a     *)
(* transaction, so any two of them can interleave.                         *)
(* The workflow's name is left out: nothing here depends on it.            *)
(***************************************************************************)
EXTENDS Naturals, Sequences

CONSTANTS
  Calls,         \* API calls on this workflow
  StepLists,     \* the steps of a definition, told apart as a whole
  NoSteps,       \* the empty list
  InitialToken,  \* the token that WorkflowsService.create has drawn, if any
  NoToken        \* SQL NULL

Trigger == {"MANUAL", "WEBHOOK"}
Definition == [trigger : Trigger, steps : StepLists \union {NoSteps}]

\* randomBytes(32): a token names the call that has drawn it.
Token == Calls \union {InitialToken}

ASSUME TokensAreDistinct == InitialToken \notin Calls /\ NoToken \notin Token
ASSUME StepListsAreDistinct == NoSteps \notin StepLists

VARIABLES
  workflow,   \* the row
  pc,         \* the write each call makes next
  seen,       \* the row as each call has read it
  dto,        \* the definition an update carries
  execution,  \* what the Execution row created by a call says of the workflow
  published   \* history: the definition of each version

vars == <<workflow, pc, seen, dto, execution, published>>

Row == [status : {"DRAFT", "ACTIVE", "PAUSED"}, definition : Definition,
        version : Nat \ {0}, webhookToken : Token \union {NoToken}]

Pc == {"new", "update", "activate", "pause", "create", "done"}

\* The row that WorkflowsService.create inserts.
Created(definition) ==
  [status |-> "DRAFT", definition |-> definition, version |-> 1,
   webhookToken |-> IF definition.trigger = "WEBHOOK" THEN InitialToken ELSE NoToken]

\* What an execution records, here before a call has created one.
Snapshot(row) == [version |-> row.version, definition |-> row.definition]
NoSnapshot == [version |-> 0]

\* The row starts as created or, where activate allows it, activated since.
Init ==
  /\ \E definition \in Definition, status \in {"DRAFT", "ACTIVE"} :
       /\ status = "ACTIVE" => definition.steps # NoSteps
       /\ workflow = [Created(definition) EXCEPT !.status = status]
       /\ dto = [c \in Calls |-> definition]
       /\ published = <<definition>>
  /\ seen = [c \in Calls |-> workflow]
  /\ pc = [c \in Calls |-> "new"]
  /\ execution = [c \in Calls |-> NoSnapshot]
-----------------------------------------------------------------------------
\* findFirst or findUnique: the call keeps the row and goes on to its write, or
\* answers with an error or with the row.
Read(c, write) ==
  /\ pc[c] = "new"
  /\ pc' = [pc EXCEPT ![c] = write]
  /\ seen' = [seen EXCEPT ![c] = workflow]
  /\ UNCHANGED <<workflow, execution, published>>

Wrote(c) == pc' = [pc EXCEPT ![c] = "done"] /\ UNCHANGED <<seen, dto>>

ReadForUpdate(c) ==
  \E definition \in Definition :
    /\ Read(c, IF definition # workflow.definition THEN "update" ELSE "done")
    /\ dto' = [dto EXCEPT ![c] = definition]

\* Mutated: a token once drawn is kept.
KeepToken(c) ==
  IF seen[c].webhookToken = NoToken THEN c ELSE seen[c].webhookToken

\* Decided by the row as it was read, and by the definition of the update.
NextToken(c) ==
  IF dto[c].trigger = "MANUAL" THEN NoToken
  ELSE IF seen[c].webhookToken = NoToken THEN c ELSE seen[c].webhookToken

\* Mutated: the version is computed from the row that was read.
VersionOfSeen(c) == seen[c].version + 1

\* increment: 1, evaluated by the database.
NextVersion(c) == workflow.version + 1

Update(c) ==
  /\ pc[c] = "update"
  /\ workflow' = [workflow EXCEPT !.definition = dto[c], !.version = NextVersion(c),
                                  !.webhookToken = NextToken(c)]
  /\ published' = Append(published, dto[c])
  /\ Wrote(c)
  /\ UNCHANGED execution

ReadForActivate(c) ==
  /\ Read(c, IF workflow.status # "ACTIVE" /\ workflow.definition.steps # NoSteps
             THEN "activate" ELSE "done")
  /\ UNCHANGED dto

Activate(c) ==
  /\ pc[c] = "activate"
  /\ workflow' = [workflow EXCEPT !.status = "ACTIVE"]
  /\ Wrote(c)
  /\ UNCHANGED <<execution, published>>

\* Mutated: pause does not ask for the status.
ReadForPauseUnchecked(c) == Read(c, "pause") /\ UNCHANGED dto

ReadForPause(c) ==
  /\ Read(c, IF workflow.status = "ACTIVE" THEN "pause" ELSE "done")
  /\ UNCHANGED dto

Pause(c) ==
  /\ pc[c] = "pause"
  /\ workflow' = [workflow EXCEPT !.status = "PAUSED"]
  /\ Wrote(c)
  /\ UNCHANGED <<execution, published>>

\* runManual knows the workflow's id; receive knows a token.
ReadForManualRun(c) ==
  /\ Read(c, IF workflow.status = "ACTIVE" /\ workflow.definition.trigger = "MANUAL"
             THEN "create" ELSE "done")
  /\ UNCHANGED dto

ReadByToken(c, token) ==
  /\ Read(c, IF /\ workflow.webhookToken = token
                /\ workflow.status = "ACTIVE"
                /\ workflow.definition.trigger = "WEBHOOK"
             THEN "create" ELSE "done")
  /\ UNCHANGED dto

ReadForWebhook(c) == \E token \in Token : ReadByToken(c, token)

\* Mutated: the version is read again when the row is written.
SnapshotOfNow(c) == [version |-> workflow.version, definition |-> seen[c].definition]

SnapshotTaken(c) == Snapshot(seen[c])

\* The calls between the two are those of TriggerApi.
CreateExecution(c) ==
  /\ pc[c] = "create"
  /\ execution' = [execution EXCEPT ![c] = SnapshotTaken(c)]
  /\ Wrote(c)
  /\ UNCHANGED <<workflow, published>>
-----------------------------------------------------------------------------
Call(c) ==
  \/ ReadForUpdate(c) \/ Update(c)
  \/ ReadForActivate(c) \/ Activate(c)
  \/ ReadForPause(c) \/ Pause(c)
  \/ ReadForManualRun(c) \/ ReadForWebhook(c) \/ CreateExecution(c)

\* Every call has been answered.
Quiet == (\A c \in Calls : pc[c] = "done") /\ UNCHANGED vars

Next == (\E c \in Calls : Call(c)) \/ Quiet

Spec == Init /\ [][Next]_vars
-----------------------------------------------------------------------------
(* Properties. *)

TypeOK ==
  /\ workflow \in Row
  /\ pc \in [Calls -> Pc]
  /\ seen \in [Calls -> Row]
  /\ dto \in [Calls -> Definition]
  /\ execution \in [Calls -> {NoSnapshot} \union [version : Nat \ {0}, definition : Definition]]
  /\ published \in Seq(Definition)

\* The row's version is the number of definitions it has had, and the last of
\* them is its own: concurrent updates never share a version.
VersionCountsUpdates ==
  /\ workflow.version = Len(published)
  /\ workflow.definition = published[workflow.version]

\* "RelayFlow creates an immutable execution snapshot": its version and its
\* definition belong together, also where an update runs between the read and
\* the write, so two executions of one version run the same steps.
SnapshotIsAVersion ==
  \A c \in Calls :
    execution[c] # NoSnapshot =>
      /\ execution[c].version \in 1 .. Len(published)
      /\ execution[c].definition = published[execution[c].version]

\* Also what a call has read, however long ago, was a version.
SeenIsAVersion ==
  \A c \in Calls : /\ seen[c].version \in 1 .. Len(published)
                  /\ seen[c].definition = published[seen[c].version]

\* A call on its way to pause has seen the workflow past DRAFT.
PauseIsPastDraft == \A c \in Calls : pc[c] = "pause" => workflow.status # "DRAFT"

\* A workflow has a webhook token exactly as long as its trigger is WEBHOOK,
\* although the token is chosen by an earlier state of the row.
TokenMatchesTrigger ==
  (workflow.webhookToken # NoToken) <=> (workflow.definition.trigger = "WEBHOOK")

\* The status moves along DRAFT -> ACTIVE <-> PAUSED only: racing calls may
\* repeat a move, but never make one that no single call would.
StatusPath ==
  [][workflow'.status # workflow.status =>
       <<workflow.status, workflow'.status>> \in
         {<<"DRAFT", "ACTIVE">>, <<"ACTIVE", "PAUSED">>, <<"PAUSED", "ACTIVE">>}]_vars

\* "Workflow must have at least one step before activation".
ActivatedHasSteps ==
  [][workflow.status # "ACTIVE" /\ workflow'.status = "ACTIVE" =>
       workflow'.definition.steps # NoSteps]_vars
=============================================================================

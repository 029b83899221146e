-------------------------- MODULE WorkflowsProofs --------------------------
(***************************************************************************)
(* Theorems about Workflows, for any set of concurrent calls.              *)
(***************************************************************************)
EXTENDS Workflows, TLAPS

-----------------------------------------------------------------------------
(* Type correctness. *)

LEMMA TypeInit == Init => TypeOK
<1> SUFFICES ASSUME NEW definition \in Definition, NEW status \in {"DRAFT", "ACTIVE"},
                    workflow = [Created(definition) EXCEPT !.status = status],
                    dto = [c \in Calls |-> definition],
                    published = <<definition>>,
                    seen = [c \in Calls |-> workflow],
                    pc = [c \in Calls |-> "new"],
                    execution = [c \in Calls |-> NoSnapshot]
             PROVE  TypeOK
  BY DEF Init
<1>1. workflow \in Row
  BY DEF Created, Row, Token
<1> QED
  BY <1>1 DEF TypeOK, Pc

\* The row as each write leaves it.
LEMMA RowsAreTyped ==
  ASSUME TypeOK, NEW c \in Calls
  PROVE  /\ Update(c) => workflow' \in Row
         /\ Activate(c) => workflow' \in Row
         /\ Pause(c) => workflow' \in Row
<1>1. workflow \in Row /\ seen[c] \in Row /\ dto[c] \in Definition
  BY DEF TypeOK
<1>2. NextToken(c) \in Token \union {NoToken}
  BY <1>1 DEF NextToken, Row, Token
<1>3. NextVersion(c) \in Nat \ {0}
  BY <1>1 DEF NextVersion, Row
<1>4. Update(c) => workflow' \in Row
  BY <1>1, <1>2, <1>3 DEF Update, Row
<1>5. Activate(c) => workflow' \in Row
  BY <1>1 DEF Activate, Row
<1>6. Pause(c) => workflow' \in Row
  BY <1>1 DEF Pause, Row
<1> QED
  BY <1>4, <1>5, <1>6

LEMMA TypeNext == TypeOK /\ [Next]_vars => TypeOK'
<1> SUFFICES ASSUME TypeOK, [Next]_vars PROVE TypeOK'
  OBVIOUS
<1>1. ASSUME NEW c \in Calls, NEW write \in Pc, Read(c, write),
             dto' \in [Calls -> Definition]
      PROVE  TypeOK'
  BY <1>1 DEF Read, TypeOK
<1>2. ASSUME NEW c \in Calls, ReadForUpdate(c) PROVE TypeOK'
  <2>1. PICK definition \in Definition :
          /\ Read(c, IF definition # workflow.definition THEN "update" ELSE "done")
          /\ dto' = [dto EXCEPT ![c] = definition]
    BY <1>2 DEF ReadForUpdate
  <2>2. dto' \in [Calls -> Definition]
    BY <2>1 DEF TypeOK
  <2> QED
    BY <1>1, <2>1, <2>2 DEF Pc
<1>3. ASSUME NEW c \in Calls,
             ReadForActivate(c) \/ ReadForPause(c) \/ ReadForManualRun(c) \/ ReadForWebhook(c)
      PROVE  TypeOK'
  <2>1. dto' \in [Calls -> Definition]
    BY <1>3 DEF ReadForActivate, ReadForPause, ReadForManualRun, ReadForWebhook, ReadByToken, TypeOK
  <2>2. \E write \in Pc : Read(c, write)
    BY <1>3 DEF ReadForActivate, ReadForPause, ReadForManualRun, ReadForWebhook,
       ReadByToken, Pc
  <2> QED
    BY <1>1, <2>1, <2>2
<1>4. ASSUME NEW c \in Calls, Update(c) PROVE TypeOK'
  <2>1. workflow' \in Row
    BY <1>4, RowsAreTyped
  <2>2. published' \in Seq(Definition)
    BY <1>4 DEF Update, TypeOK
  <2> QED
    BY <1>4, <2>1, <2>2 DEF Update, Wrote, TypeOK, Pc
<1>5. ASSUME NEW c \in Calls, Activate(c) \/ Pause(c) PROVE TypeOK'
  BY <1>5, RowsAreTyped DEF Activate, Pause, Wrote, TypeOK, Pc
<1>6. ASSUME NEW c \in Calls, CreateExecution(c) PROVE TypeOK'
  <2>1. SnapshotTaken(c) \in [version : Nat \ {0}, definition : Definition]
    BY DEF SnapshotTaken, Snapshot, TypeOK, Row
  <2> QED
    BY <1>6, <2>1 DEF CreateExecution, Wrote, TypeOK, Pc
<1>7. ASSUME UNCHANGED vars PROVE TypeOK'
  BY <1>7 DEF vars, TypeOK
<1> QED
  BY <1>2, <1>3, <1>4, <1>5, <1>6, <1>7 DEF Next, Call, Quiet

\* The row and the calls' copies of it keep their types.
THEOREM TypeCorrect == Spec => []TypeOK
BY TypeInit, TypeNext, PTL DEF Spec

-----------------------------------------------------------------------------
(* Versions, tokens and status. *)

\* The parts of the invariant that hold together.
Consistent ==
  VersionCountsUpdates /\ SeenIsAVersion /\ SnapshotIsAVersion /\ TokenMatchesTrigger
    /\ PauseIsPastDraft

LEMMA ConsistentInit == Init => Consistent
<1> SUFFICES ASSUME NEW definition \in Definition, NEW status \in {"DRAFT", "ACTIVE"},
                    workflow = [Created(definition) EXCEPT !.status = status],
                    published = <<definition>>,
                    seen = [c \in Calls |-> workflow],
                    pc = [c \in Calls |-> "new"],
                    execution = [c \in Calls |-> NoSnapshot]
             PROVE  Consistent
  BY DEF Init
<1>1. VersionCountsUpdates /\ SeenIsAVersion
  BY DEF Created, VersionCountsUpdates, SeenIsAVersion
<1>2. SnapshotIsAVersion /\ PauseIsPastDraft
  BY DEF SnapshotIsAVersion, PauseIsPastDraft
<1>3. TokenMatchesTrigger
  BY TokensAreDistinct DEF TokenMatchesTrigger, Created, Token
<1> QED
  BY <1>1, <1>2, <1>3 DEF Consistent

\* A read leaves the row alone, and what is read is the latest version.
LEMMA ReadIsConsistent ==
  ASSUME TypeOK, Consistent, NEW c \in Calls, NEW write \in Pc, Read(c, write),
         write = "pause" => workflow.status # "DRAFT"
  PROVE  Consistent'
<1>1. pc \in [Calls -> Pc] /\ seen \in [Calls -> Row] /\ workflow.version \in Nat \ {0}
  BY DEF TypeOK, Row
<1>2. VersionCountsUpdates' /\ SnapshotIsAVersion' /\ TokenMatchesTrigger'
  BY DEF Read, Consistent, VersionCountsUpdates, SnapshotIsAVersion, TokenMatchesTrigger
<1>3. workflow.version \in 1 .. Len(published)
      /\ workflow.definition = published[workflow.version]
  BY <1>1 DEF Consistent, VersionCountsUpdates
<1>4. SeenIsAVersion'
  BY <1>1, <1>3 DEF Read, Consistent, SeenIsAVersion
<1>5. PauseIsPastDraft'
  BY <1>1 DEF Read, Consistent, PauseIsPastDraft
<1> QED
  BY <1>2, <1>4, <1>5 DEF Consistent

\* An update publishes exactly one version and chooses the token that goes
\* with the definition it writes, whatever happened since its read.
LEMMA UpdateIsConsistent ==
  ASSUME TypeOK, Consistent, NEW c \in Calls, Update(c)
  PROVE  Consistent'
<1>1. /\ workflow \in Row /\ seen[c] \in Row /\ dto[c] \in Definition
      /\ published \in Seq(Definition)
  BY DEF TypeOK
<1>2. /\ Len(published') = Len(published) + 1
      /\ published'[Len(published) + 1] = dto[c]
      /\ \A v \in 1 .. Len(published) : published'[v] = published[v]
      /\ Len(published) \in Nat
  BY <1>1 DEF Update
<1>3. /\ workflow'.definition = dto[c]
      /\ workflow'.version = workflow.version + 1
      /\ workflow'.webhookToken = NextToken(c)
      /\ workflow'.status = workflow.status
  BY <1>1 DEF Update, NextVersion, Row
<1>4. VersionCountsUpdates'
  BY <1>2, <1>3 DEF Consistent, VersionCountsUpdates
<1>5. SeenIsAVersion'
  BY <1>2 DEF Update, Wrote, Consistent, SeenIsAVersion
<1>6. SnapshotIsAVersion'
  BY <1>2 DEF Update, Consistent, SnapshotIsAVersion
<1>7. TokenMatchesTrigger'
  BY <1>1, <1>3, TokensAreDistinct
  DEF NextToken, TokenMatchesTrigger, Definition, Trigger, Token
<1>8. PauseIsPastDraft'
  BY <1>3 DEF Update, Wrote, Consistent, PauseIsPastDraft, TypeOK
<1> QED
  BY <1>4, <1>5, <1>6, <1>7, <1>8 DEF Consistent

LEMMA ConsistentNext == TypeOK /\ Consistent /\ [Next]_vars => Consistent'
<1> SUFFICES ASSUME TypeOK, Consistent, [Next]_vars PROVE Consistent'
  OBVIOUS
<1>1. ASSUME NEW c \in Calls,
             ReadForUpdate(c) \/ ReadForActivate(c) \/ ReadForManualRun(c)
               \/ ReadForWebhook(c)
      PROVE  Consistent'
  <2>1. \E write \in Pc \ {"pause"} : Read(c, write)
    BY <1>1 DEF ReadForUpdate, ReadForActivate, ReadForManualRun, ReadForWebhook,
       ReadByToken, Pc
  <2> QED
    BY <2>1, ReadIsConsistent
<1>2. ASSUME NEW c \in Calls, ReadForPause(c) PROVE Consistent'
  <2>1. \E write \in Pc : Read(c, write) /\ (write = "pause" => workflow.status # "DRAFT")
    BY <1>2 DEF ReadForPause, Pc
  <2> QED
    BY <2>1, ReadIsConsistent
<1>3. ASSUME NEW c \in Calls, Update(c) PROVE Consistent'
  BY <1>3, UpdateIsConsistent
<1>4. ASSUME NEW c \in Calls, Activate(c) \/ Pause(c) PROVE Consistent'
  <2>1. /\ workflow'.definition = workflow.definition
        /\ workflow'.version = workflow.version
        /\ workflow'.webhookToken = workflow.webhookToken
        /\ workflow'.status \in {"ACTIVE", "PAUSED"}
        /\ UNCHANGED <<published, execution, seen>>
    BY <1>4 DEF Activate, Pause, Wrote, TypeOK, Row
  <2> QED
    BY <2>1 DEF Consistent, VersionCountsUpdates, SeenIsAVersion, SnapshotIsAVersion,
       TokenMatchesTrigger, PauseIsPastDraft
<1>5. ASSUME NEW c \in Calls, CreateExecution(c) PROVE Consistent'
  <2>1. SnapshotIsAVersion'
    BY <1>5 DEF CreateExecution, SnapshotTaken, Snapshot, Consistent, SeenIsAVersion,
       SnapshotIsAVersion, TypeOK
  <2>2. PauseIsPastDraft'
    BY <1>5 DEF CreateExecution, Wrote, Consistent, PauseIsPastDraft, TypeOK
  <2> QED
    BY <1>5, <2>1, <2>2 DEF CreateExecution, Wrote, Consistent, VersionCountsUpdates,
       SeenIsAVersion, TokenMatchesTrigger
<1>6. ASSUME UNCHANGED vars PROVE Consistent'
  BY <1>6 DEF vars, Consistent, VersionCountsUpdates, SeenIsAVersion,
     SnapshotIsAVersion, TokenMatchesTrigger, PauseIsPastDraft
<1> QED
  BY <1>1, <1>2, <1>3, <1>4, <1>5, <1>6 DEF Next, Call, Quiet

LEMMA ConsistentInvariant == Spec => [](TypeOK /\ Consistent)
BY TypeCorrect, ConsistentInit, ConsistentNext, PTL DEF Spec

\* However many updates race, every one of them makes a version of its own.
THEOREM VersionsCount == Spec => []VersionCountsUpdates
<1>1. Consistent => VersionCountsUpdates
  BY DEF Consistent
<1> QED
  BY <1>1, ConsistentInvariant, PTL

\* However late an execution is created after its workflow was read, its
\* version and its definition belong together.
THEOREM SnapshotsAreVersions == Spec => []SnapshotIsAVersion
<1>1. Consistent => SnapshotIsAVersion
  BY DEF Consistent
<1> QED
  BY <1>1, ConsistentInvariant, PTL

\* A workflow can be reached by webhook exactly while its trigger says so.
THEOREM TokensMatch == Spec => []TokenMatchesTrigger
<1>1. Consistent => TokenMatchesTrigger
  BY DEF Consistent
<1> QED
  BY <1>1, ConsistentInvariant, PTL

\* Racing calls move the status only as single calls would.
THEOREM StatusMoves == Spec => StatusPath
<1> DEFINE Moves ==
      workflow'.status # workflow.status =>
        <<workflow.status, workflow'.status>> \in
          {<<"DRAFT", "ACTIVE">>, <<"ACTIVE", "PAUSED">>, <<"PAUSED", "ACTIVE">>}
<1>1. TypeOK /\ Consistent /\ [Next]_vars => [Moves]_vars
  <2> SUFFICES ASSUME TypeOK, Consistent, Next PROVE Moves
    OBVIOUS
  <2>1. workflow \in Row
    BY DEF TypeOK
  <2>2. ASSUME NEW c \in Calls, Update(c) PROVE workflow'.status = workflow.status
    BY <2>1, <2>2 DEF Update, Row
  <2>3. ASSUME NEW c \in Calls, Activate(c) PROVE Moves
    BY <2>1, <2>3 DEF Activate, Row
  <2>4. ASSUME NEW c \in Calls, Pause(c) PROVE Moves
    <3>1. workflow.status # "DRAFT" /\ workflow'.status = "PAUSED"
      BY <2>1, <2>4 DEF Pause, Row, Consistent, PauseIsPastDraft
    <3> QED
      BY <2>1, <3>1 DEF Row
  <2>5. CASE UNCHANGED workflow
    BY <2>5
  <2> QED
    BY <2>2, <2>3, <2>4, <2>5 DEF Next, Call, Quiet, vars, Read, ReadForUpdate,
       ReadForActivate, ReadForPause, ReadForManualRun, ReadForWebhook, ReadByToken,
       CreateExecution
<1>2. Spec => [][Moves]_vars
  <2> HIDE DEF Moves
  <2> QED
    BY <1>1, ConsistentInvariant, PTL DEF Spec
<1> QED
  BY <1>2 DEF StatusPath
=============================================================================

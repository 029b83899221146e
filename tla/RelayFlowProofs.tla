-------------------------- MODULE RelayFlowProofs --------------------------
(***************************************************************************)
(* Theorems about RelayFlow: its rate limit keeps what it tells a refused  *)
(* client and how much it lets through, and its answers name executions of *)
(* one version.  The composition is built from the actions of Workflows    *)
(* and TriggerApi; two lemmas say so, and what is proved of them is        *)
(* inherited through these.                                                *)
(***************************************************************************)
EXTENDS RelayFlow, WorkflowsProofs, FiniteSetTheorems

\* A call that is not about to write its execution changes the row of none.
LEMMA EditIsWorkflows ==
  ASSUME NEW c \in Calls, Edit(c) PROVE [Next]_vars
BY DEF Edit, Next, Call

LEMMA SystemStepIsWorkflows == [SystemNext]_system => [Next]_vars
<1> SUFFICES ASSUME [SystemNext]_system PROVE [Next]_vars
  OBVIOUS
<1>1. ASSUME NEW c \in Calls, Edit(c) PROVE [Next]_vars
  BY <1>1, EditIsWorkflows
<1>2. ASSUME NEW c \in Calls, ManualRun(c) PROVE [Next]_vars
  BY <1>2 DEF ManualRun, Next, Call
<1>3. ASSUME NEW c \in Calls, Deliver(c) PROVE [Next]_vars
  BY <1>3 DEF Deliver, Next, Call, ReadForWebhook
<1>4. ASSUME NEW c \in Calls, InsertExecution(c) PROVE [Next]_vars
  BY <1>4 DEF InsertExecution, Next, Call
<1>5. ASSUME NEW c \in Calls, Count(c) \/ Handle(c) PROVE UNCHANGED vars
  BY <1>5 DEF Count, Handle
<1>6. CASE CountOther \/ TimePasses
  BY <1>6 DEF CountOther, TimePasses
<1>7. CASE UNCHANGED system
  BY <1>7 DEF system
<1> QED
  BY <1>1, <1>2, <1>3, <1>4, <1>5, <1>6, <1>7 DEF SystemNext

\* By construction, the composition's steps are steps of Workflows or leave its
\* variables alone.
LEMMA ImplementsWorkflows == SystemSpec => Spec
<1>1. SystemInit => Init
  BY DEF SystemInit
<1> QED
  BY <1>1, SystemStepIsWorkflows, PTL DEF SystemSpec, Spec

\* In the whole system, too, an execution runs the steps of the version it
\* names, whichever edits race with the delivery.
THEOREM SystemSnapshots == SystemSpec => []SnapshotIsAVersion
BY ImplementsWorkflows, SnapshotsAreVersions, PTL

LEMMA SystemStepIsTriggerApi == [SystemNext]_system => [Api!Next]_(Api!vars)
<1> SUFFICES ASSUME [SystemNext]_system PROVE [Api!Next]_(Api!vars)
  OBVIOUS
<1>1. ASSUME UNCHANGED requests PROVE UNCHANGED Api!vars
  BY <1>1 DEF requests, Api!vars
<1>2. ASSUME NEW c \in Calls, Edit(c) PROVE UNCHANGED requests
  BY <1>2 DEF Edit
<1>3. ASSUME NEW c \in Calls, NEW accepted, Decide(c, accepted) PROVE Api!Next
  BY <1>3 DEF Decide, Api!Next
<1>4. ASSUME NEW c \in Calls, ManualRun(c) \/ Deliver(c) \/ Count(c)
      PROVE  Api!Next \/ UNCHANGED requests
  BY <1>3, <1>4 DEF ManualRun, Deliver, Count
<1>5. ASSUME NEW c \in Calls, InsertExecution(c) \/ Handle(c) PROVE Api!Next
  BY <1>5 DEF InsertExecution, Handle, Api!Next, Api!Handle
<1>6. ASSUME CountOther \/ TimePasses PROVE UNCHANGED requests
  BY <1>6 DEF CountOther, TimePasses
<1>7. ASSUME UNCHANGED system PROVE UNCHANGED requests
  BY <1>7 DEF system
<1> QED
  BY <1>1, <1>2, <1>4, <1>5, <1>6, <1>7 DEF SystemNext

\* By construction, the composition's steps are steps of TriggerApi or leave its
\* variables alone.
LEMMA RequestsKeepToTriggerApi == SystemSpec => Api!Init /\ [][Api!Next]_(Api!vars)
<1>1. SystemInit => Api!Init
  BY DEF SystemInit
<1> QED
  BY <1>1, SystemStepIsTriggerApi, PTL DEF SystemSpec

-----------------------------------------------------------------------------
(* The rate limit. *)

\* A refused client waits as long as the window lasts, rounded to a second: no
\* delivery prolongs it.
WaitsForItsWindow ==
  waiting.refused => ttl > 0 /\ 2 * ttl < 2 * waiting.left + TicksPerSecond

LimiterInvariant == LimiterTypeOK /\ CounterExpires /\ WaitsForItsWindow

LEMMA WindowIsPositive == Window \in Nat \ {0}
<1>1. \A m, n \in Nat \ {0} : m * n \in Nat \ {0}
  OBVIOUS
<1> QED
  BY <1>1, LimitsArePositive DEF Window

LEMMA LimiterStarts == LimiterInit => LimiterInvariant
BY LimitsArePositive, CountPassesLimit, WindowIsPositive
DEF LimiterInit, LimiterInvariant, LimiterTypeOK, CounterExpires, WaitsForItsWindow, NotWaiting

LEMMA ConsumeKeeps == LimiterInvariant /\ Consume => LimiterInvariant'
<1> SUFFICES ASSUME LimiterInvariant, Consume PROVE LimiterInvariant'
  OBVIOUS
<1> USE LimitsArePositive, CountPassesLimit, WindowIsPositive
<1>1. count \in 0 .. MaxCount /\ ttl \in 0 .. Window /\ (count > 0 <=> ttl > 0)
  BY DEF LimiterInvariant, LimiterTypeOK, CounterExpires
<1>2. count' = count + 1 /\ count' \in 0 .. MaxCount
  BY <1>1 DEF Consume
<1>3. ttl' \in 1 .. Window /\ (count > 0 => ttl' = ttl)
  BY <1>1 DEF Consume, Expire
<1>4. recent' \in [0 .. Window - 1 -> Nat]
  BY DEF Consume, LimiterInvariant, LimiterTypeOK
<1>5. waiting' \in [refused : BOOLEAN, left : Nat] /\ WaitsForItsWindow'
  <2>1. CASE UNCHANGED waiting
    BY <1>1, <1>3, <2>1 DEF LimiterInvariant, LimiterTypeOK, WaitsForItsWindow
  <2>2. ASSUME NEW seconds \in 0 .. windowSeconds, RoundsTo(ttl', seconds),
               waiting' = [refused |-> TRUE, left |-> seconds * TicksPerSecond]
        PROVE  waiting' \in [refused : BOOLEAN, left : Nat] /\ WaitsForItsWindow'
    <3>1. seconds * TicksPerSecond \in Nat
      <4>1. \A m, n \in Nat : m * n \in Nat
        OBVIOUS
      <4> QED
        BY <4>1
    <3>2. 2 * ttl' < 2 * (seconds * TicksPerSecond) + TicksPerSecond
      BY <2>2 DEF RoundsTo
    <3>3. waiting'.refused = TRUE /\ waiting'.left = seconds * TicksPerSecond
      BY <2>2
    <3>4. WaitsForItsWindow'
      <4>1. ttl' > 0
        BY <1>3
      <4>2. 2 * ttl' < 2 * waiting'.left + TicksPerSecond
        BY <3>2, <3>3
      <4> QED
        BY <4>1, <4>2 DEF WaitsForItsWindow
    <3>5. waiting' \in [refused : BOOLEAN, left : Nat]
      BY <2>2, <3>1, Zenon
    <3> QED
      BY <3>4, <3>5
  <2> QED
    BY <2>1, <2>2 DEF Consume
<1> QED
  BY <1>1, <1>2, <1>3, <1>4, <1>5 DEF LimiterInvariant, LimiterTypeOK, CounterExpires

LEMMA TickKeeps == LimiterInvariant /\ Tick => LimiterInvariant'
<1> SUFFICES ASSUME LimiterInvariant, Tick PROVE LimiterInvariant'
  OBVIOUS
<1> USE LimitsArePositive, CountPassesLimit, WindowIsPositive
<1>1. /\ count \in 0 .. MaxCount /\ ttl \in 0 .. Window /\ (count > 0 <=> ttl > 0)
      /\ waiting \in [refused : BOOLEAN, left : Nat]
      /\ recent \in [0 .. Window - 1 -> Nat]
  BY DEF LimiterInvariant, LimiterTypeOK, CounterExpires
<1>2. count' \in 0 .. MaxCount /\ ttl' \in 0 .. Window /\ (count' > 0 <=> ttl' > 0)
  BY <1>1 DEF Tick
<1>3. recent' \in [0 .. Window - 1 -> Nat]
  BY <1>1 DEF Tick
<1>4. waiting' \in [refused : BOOLEAN, left : Nat]
  BY <1>1 DEF Tick, NotWaiting
<1>5. WaitsForItsWindow'
  <2>1. CASE waiting.left > 0 /\ ttl # 1
    <3>1. waiting'.refused = waiting.refused /\ waiting'.left = waiting.left - 1
      BY <1>1, <2>1 DEF Tick
    <3>2. ttl' = IF ttl = 0 THEN 0 ELSE ttl - 1
      BY DEF Tick
    <3> QED
      BY <1>1, <2>1, <3>1, <3>2 DEF LimiterInvariant, WaitsForItsWindow
  <2>2. CASE ~ (waiting.left > 0 /\ ttl # 1)
    BY <2>2 DEF Tick, NotWaiting, WaitsForItsWindow
  <2> QED
    BY <2>1, <2>2
<1> QED
  BY <1>2, <1>3, <1>4, <1>5 DEF LimiterInvariant, LimiterTypeOK, CounterExpires

LEMMA LimiterSteps == [SystemNext]_system => Consume \/ Tick \/ UNCHANGED limiter
BY DEF SystemNext, Edit, ManualRun, Deliver, Count, InsertExecution, Handle, CountOther,
   TimePasses, system

LEMMA LimiterNext == LimiterInvariant /\ [SystemNext]_system => LimiterInvariant'
<1>1. LimiterInvariant /\ UNCHANGED limiter => LimiterInvariant'
  BY DEF limiter, LimiterInvariant, LimiterTypeOK, CounterExpires, WaitsForItsWindow
<1> QED
  BY <1>1, LimiterSteps, ConsumeKeeps, TickKeeps

LEMMA LimiterInvariantHolds == SystemSpec => []LimiterInvariant
<1>1. SystemInit => LimiterInvariant
  BY LimiterStarts DEF SystemInit
<1> QED
  BY <1>1, LimiterNext, PTL DEF SystemSpec

\* No workflow is locked out for good: a counter always has an expiry.
THEOREM CounterAlwaysExpires == SystemSpec => []CounterExpires
<1>1. LimiterInvariant => CounterExpires
  BY DEF LimiterInvariant
<1> QED
  BY <1>1, LimiterInvariantHolds, PTL

\* However many deliveries arrive meanwhile, a refused client that waits for
\* the seconds it was told meets another window than the one that refused it,
\* or, TTL being rounded, the last half second of that one.
THEOREM RetryAfterIsHonest == SystemSpec => []RetryAfterSuffices
<1>1. LimiterInvariant => RetryAfterSuffices
  BY LimitsArePositive, WindowIsPositive
     DEF LimiterInvariant, LimiterTypeOK, WaitsForItsWindow, RetryAfterSuffices
<1> QED
  BY <1>1, LimiterInvariantHolds, PTL

-----------------------------------------------------------------------------
(* The load. *)

\* The requests the open window has let through, and the age of its first tick.
Used == IF count <= Limit THEN count ELSE Limit
Opened == Window - ttl

\* The most that was let through since a tick: what the open window has let
\* through, but for its first request where the tick is younger, and before it
\* what the last window did, whose own first request is a window's length older.
MostSince(age) ==
  IF ttl = 0 THEN IF age = 0 THEN 0 ELSE Limit - 1
  ELSE IF age < Opened THEN Used - 1
  ELSE IF age = Opened THEN Used ELSE Used + Limit - 1

LoadByWindow == \A age \in 0 .. Window - 1 : recent[age] <= MostSince(age)

LEMMA LoadStarts == LimiterInit => LoadByWindow
BY LimitsArePositive, WindowIsPositive DEF LimiterInit, LoadByWindow, MostSince

LEMMA ConsumeKeepsLoad == LimiterInvariant /\ LoadByWindow /\ Consume => LoadByWindow'
<1> SUFFICES ASSUME LimiterInvariant, LoadByWindow, Consume, NEW age \in 0 .. Window - 1
             PROVE  recent'[age] <= MostSince(age)'
  BY DEF LoadByWindow
<1> USE LimitsArePositive, CountPassesLimit, WindowIsPositive
<1>1. /\ count \in Nat /\ ttl \in 0 .. Window /\ (count > 0 <=> ttl > 0)
      /\ recent \in [0 .. Window - 1 -> Nat]
  BY DEF LimiterInvariant, LimiterTypeOK, CounterExpires
<1>2. count' = count + 1 /\ ttl' = IF count = 0 THEN Window ELSE ttl
  BY DEF Consume, Expire
<1>3. recent'[age] = IF count < Limit THEN recent[age] + 1 ELSE recent[age]
  BY <1>1 DEF Consume, Allowed
<1>4. recent[age] <= MostSince(age)
  BY DEF LoadByWindow
<1> QED
  BY <1>1, <1>2, <1>3, <1>4 DEF MostSince, Used, Opened

LEMMA TickKeepsLoad == LimiterInvariant /\ LoadByWindow /\ Tick => LoadByWindow'
<1> SUFFICES ASSUME LimiterInvariant, LoadByWindow, Tick, NEW age \in 0 .. Window - 1
             PROVE  recent'[age] <= MostSince(age)'
  BY DEF LoadByWindow
<1> USE LimitsArePositive, CountPassesLimit, WindowIsPositive
<1>1. /\ count \in Nat /\ ttl \in 0 .. Window /\ (count > 0 <=> ttl > 0)
      /\ recent \in [0 .. Window - 1 -> Nat]
  BY DEF LimiterInvariant, LimiterTypeOK, CounterExpires
<1>2. /\ count' = IF ttl = 1 THEN 0 ELSE count
      /\ ttl' = IF ttl = 0 THEN 0 ELSE ttl - 1
      /\ recent'[age] = IF age = 0 THEN 0 ELSE recent[age - 1]
  BY DEF Tick
<1>3. CASE age = 0
  BY <1>1, <1>2, <1>3 DEF MostSince, Used, Opened
<1>4. CASE age > 0
  <2>1. age - 1 \in 0 .. Window - 1 /\ recent[age - 1] \in Nat
    BY <1>1, <1>4
  <2>2. recent[age - 1] <= MostSince(age - 1)
    BY <2>1 DEF LoadByWindow
  <2> QED
    BY <1>1, <1>2, <1>4, <2>1, <2>2 DEF MostSince, Used, Opened
<1> QED
  BY <1>3, <1>4

LEMMA LoadNext == LimiterInvariant /\ LoadByWindow /\ [SystemNext]_system => LoadByWindow'
<1>1. LoadByWindow /\ UNCHANGED limiter => LoadByWindow'
  BY DEF limiter, LoadByWindow, MostSince, Used, Opened
<1> QED
  BY <1>1, LimiterSteps, ConsumeKeepsLoad, TickKeepsLoad

\* Whenever the deliveries come, no stretch of time as long as a window lets
\* twice the limit through.
THEOREM LoadStaysBounded == SystemSpec => []LoadIsBounded
<1>1. SystemInit => LoadByWindow
  BY LoadStarts DEF SystemInit
<1>2. LimiterInvariant /\ LoadByWindow => LoadIsBounded
  <2> SUFFICES ASSUME LimiterInvariant, LoadByWindow PROVE LoadIsBounded
    OBVIOUS
  <2> USE LimitsArePositive, CountPassesLimit, WindowIsPositive
  <2>1. /\ count \in Nat /\ ttl \in 0 .. Window
        /\ Window - 1 \in 0 .. Window - 1 /\ recent[Window - 1] \in Nat
    BY DEF LimiterInvariant, LimiterTypeOK
  <2>2. recent[Window - 1] <= MostSince(Window - 1)
    BY <2>1 DEF LoadByWindow
  <2> QED
    BY <2>1, <2>2 DEF LoadIsBounded, MostSince, Used, Opened
<1> QED
  BY <1>1, <1>2, LimiterInvariantHolds, LoadNext, PTL DEF SystemSpec

-----------------------------------------------------------------------------
(* The answers.  What TriggerApiProofs says holds of the requests here. *)

ApiFacts == INSTANCE TriggerApiProofs
  WITH Requests <- Calls, execution <- row, pc <- at,
       MaxInFlight <- Cardinality(Calls) + 1, Faults <- {}

LEMMA RequestAssumptions ==
  /\ ApiFacts!IsFiniteSet(Calls)
  /\ {} \subseteq ApiFacts!FaultKinds
  /\ MaxQueueDepth \in Nat \ {0} /\ Cardinality(Calls) + 1 \in Nat \ {0}
  /\ NoKey \notin Keys /\ NoExecution \notin Calls
<1>1. ApiFacts!IsFiniteSet(Calls)
  BY CallsAreFinite DEF IsFiniteSet, ApiFacts!IsFiniteSet
<1>2. Cardinality(Calls) \in Nat
  BY CallsAreFinite, FS_CardinalityType
<1> QED
  BY <1>1, <1>2, DepthIsPositive, KeysAreDistinct

\* RelayFlow's instance of TriggerApi and that of its proofs are one module.
LEMMA OneApi ==
  /\ Api!Init => ApiFacts!Init
  /\ [Api!Next]_(Api!vars) => [ApiFacts!Next]_(ApiFacts!vars)
  /\ ApiFacts!TypeOK => Api!TypeOK
  /\ ApiFacts!KeyIsUnique /\ ApiFacts!AnswersExist
       => Api!KeyIsUnique /\ Api!AnswersExist
<1>1. Api!Init => ApiFacts!Init
  BY DEF Api!Init, ApiFacts!Init
<1>2. \A S : Api!Cardinality(S) = ApiFacts!Cardinality(S)
  BY DEF Api!Cardinality, ApiFacts!Cardinality
<1>3. ASSUME NEW r \in Calls, Api!Receive(r) PROVE ApiFacts!Receive(r)
  BY <1>2, <1>3 DEF Api!Receive, ApiFacts!Receive, Api!InFlight,
     ApiFacts!InFlight, Api!Answer, ApiFacts!Answer, Api!Goto,
     ApiFacts!Goto
<1>4. ASSUME NEW r \in Calls, Api!Handle(r) PROVE ApiFacts!Handle(r)
  BY <1>2, <1>4 DEF Api!Handle, ApiFacts!Handle, Api!Lookup,
     ApiFacts!Lookup, Api!CheckCapacity, ApiFacts!CheckCapacity,
     Api!Create, ApiFacts!Create, Api!Recover, ApiFacts!Recover,
     Api!Add, ApiFacts!Add, Api!Undo, ApiFacts!Undo, Api!AddFails,
     ApiFacts!AddFails, Api!CountFails, ApiFacts!CountFails,
     Api!DbFails, ApiFacts!DbFails, Api!Goto, ApiFacts!Goto,
     Api!Answer, ApiFacts!Answer, Api!Return, ApiFacts!Return,
     Api!Existing, ApiFacts!Existing, Api!KeyTaken, ApiFacts!KeyTaken,
     Api!Insert, ApiFacts!Insert, Api!Enqueue, ApiFacts!Enqueue,
     Api!MarkUnqueued, ApiFacts!MarkUnqueued, Api!HasCapacity,
     ApiFacts!HasCapacity, Api!Live, ApiFacts!Live, Api!InFlight,
     ApiFacts!InFlight
<1>5. ASSUME NEW r \in Calls, Api!Work(r) PROVE ApiFacts!Work(r)
  BY <1>5 DEF Api!Work, ApiFacts!Work, Api!Start, ApiFacts!Start,
     Api!Finish, ApiFacts!Finish
<1>6. UNCHANGED Api!vars => UNCHANGED ApiFacts!vars
  BY DEF Api!vars, ApiFacts!vars
<1>7. ~ \E r \in Calls : Api!Crash(r)
  BY DEF Api!Crash
<1>8. Api!Quiet => UNCHANGED Api!vars
  BY DEF Api!Quiet
<1>9. [Api!Next]_(Api!vars) => [ApiFacts!Next]_(ApiFacts!vars)
  BY <1>3, <1>4, <1>5, <1>6, <1>7, <1>8 DEF Api!Next, ApiFacts!Next
<1>10. ApiFacts!TypeOK => Api!TypeOK
  BY DEF Api!TypeOK, ApiFacts!TypeOK, Api!Status, ApiFacts!Status,
     Api!JobState, ApiFacts!JobState, Api!Pc, ApiFacts!Pc,
     Api!Reply, ApiFacts!Reply
<1>11. ApiFacts!KeyIsUnique /\ ApiFacts!AnswersExist
         => Api!KeyIsUnique /\ Api!AnswersExist
  BY DEF Api!KeyIsUnique, ApiFacts!KeyIsUnique,
     Api!AnswersExist, ApiFacts!AnswersExist
<1> QED
  BY <1>1, <1>9, <1>10, <1>11

LEMMA RequestInvariantNext ==
  ApiFacts!TypeOK /\ ApiFacts!KeyIsUnique /\ ApiFacts!AnswersExist
  /\ [ApiFacts!Next]_(ApiFacts!vars)
    => (ApiFacts!TypeOK /\ ApiFacts!KeyIsUnique /\ ApiFacts!AnswersExist)'
BY ApiFacts!TypeNext, ApiFacts!KeyNext, RequestAssumptions

LEMMA RequestInvariant ==
  SystemSpec => [](Api!TypeOK /\ Api!KeyIsUnique /\ Api!AnswersExist)
<1>1. ApiFacts!Init =>
        ApiFacts!TypeOK /\ ApiFacts!KeyIsUnique /\ ApiFacts!AnswersExist
  BY ApiFacts!TypeInit, ApiFacts!KeyInit, RequestAssumptions
<1> QED
  BY <1>1, OneApi, RequestInvariantNext, RequestsKeepToTriggerApi, PTL

\* The row of TriggerApi and the snapshot of Workflows are one row, and a call
\* with a key has read a definition with a webhook trigger before it writes one.
RowsAreSnapshots ==
  \A c \in Calls :
    /\ row[c] # "ABSENT" <=> execution[c] # NoSnapshot
    /\ key[c] # NoKey /\ pc[c] = "create" => seen[c].definition.trigger = "WEBHOOK"
    /\ key[c] # NoKey /\ execution[c] # NoSnapshot => execution[c].definition.trigger = "WEBHOOK"

LEMMA RowsInit == SystemInit => RowsAreSnapshots
<1> SUFFICES ASSUME SystemInit, NEW c \in Calls
             PROVE  row[c] = "ABSENT" /\ execution[c] = NoSnapshot /\ pc[c] = "new"
  BY DEF RowsAreSnapshots
<1> QED
  BY DEF SystemInit, Init, Api!Init

LEMMA RowsNext ==
  TypeOK /\ Api!TypeOK /\ RowsAreSnapshots /\ [SystemNext]_system => RowsAreSnapshots'
<1> SUFFICES ASSUME TypeOK, Api!TypeOK, RowsAreSnapshots, [SystemNext]_system
             PROVE  RowsAreSnapshots'
  OBVIOUS
<1>1. /\ pc \in [Calls -> Pc] /\ seen \in [Calls -> Row] /\ workflow \in Row
      /\ row \in [Calls -> Api!Status] /\ at \in [Calls -> Api!Pc]
      /\ key \in [Calls -> Keys \union {NoKey}]
      /\ DOMAIN execution = Calls /\ execution = [c \in Calls |-> execution[c]]
  BY DEF TypeOK, Api!TypeOK
<1>2. ASSUME NEW c \in Calls, Edit(c) PROVE RowsAreSnapshots'
  <2>1. /\ UNCHANGED <<row, key, execution>> /\ key[c] = NoKey
        /\ \A d \in Calls : d # c => pc'[d] = pc[d] /\ seen'[d] = seen[d]
    BY <1>1, <1>2 DEF Edit, requests, ReadForUpdate, ReadForActivate, ReadForPause, Read,
       Update, Activate, Pause, Wrote
  <2> QED
    BY <1>1, <2>1 DEF RowsAreSnapshots
<1>3. ASSUME NEW c \in Calls, ManualRun(c) PROVE RowsAreSnapshots'
  BY <1>1, <1>3 DEF ManualRun, Decide, Api!Receive, ReadForManualRun, Read, RowsAreSnapshots
<1>4. ASSUME NEW c \in Calls, Deliver(c) PROVE RowsAreSnapshots'
  <2>1. UNCHANGED <<row, key, execution>>
    BY <1>4 DEF Deliver, Decide, Api!Receive, requests, ReadByToken, Read
  <2>2. \A d \in Calls : d # c => pc'[d] = pc[d] /\ seen'[d] = seen[d]
    BY <1>1, <1>4 DEF Deliver, ReadByToken, Read
  <2>3. pc'[c] = "create" => seen'[c].definition.trigger = "WEBHOOK"
    BY <1>1, <1>4 DEF Deliver, ReadByToken, Read
  <2> QED
    BY <1>1, <2>1, <2>2, <2>3 DEF RowsAreSnapshots
<1>5. ASSUME NEW c \in Calls, Count(c) PROVE RowsAreSnapshots'
  BY <1>5 DEF Count, Decide, Api!Receive, vars, RowsAreSnapshots
<1>6. ASSUME NEW c \in Calls, InsertExecution(c) PROVE RowsAreSnapshots'
  <2>1. CASE row' = row
    BY <1>1, <1>6, <2>1 DEF InsertExecution, Api!Create, vars, RowsAreSnapshots
  <2>2. CASE row' # row
    <3>1. /\ row[c] = "ABSENT" /\ row' = [row EXCEPT ![c] = "QUEUED"] /\ UNCHANGED key
      BY <1>1, <1>6, <2>2 DEF InsertExecution, Api!Create, Api!Insert, Api!TypeOK
    <3>2. /\ pc[c] = "create" /\ pc' = [pc EXCEPT ![c] = "done"] /\ UNCHANGED seen
          /\ execution' = [execution EXCEPT ![c] = Snapshot(seen[c])]
      BY <1>6, <2>2 DEF InsertExecution, CreateExecution, SnapshotTaken, Wrote
    <3>3. execution'[c] # NoSnapshot /\ execution'[c].definition = seen[c].definition
      BY <1>1, <3>2 DEF Snapshot, NoSnapshot, Row
    <3> QED
      BY <1>1, <3>1, <3>2, <3>3 DEF RowsAreSnapshots
  <2> QED
    BY <2>1, <2>2
<1>7. ASSUME NEW c \in Calls, Handle(c) PROVE RowsAreSnapshots'
  <2>1. UNCHANGED <<vars, key>>
    BY <1>7 DEF Handle, Api!Lookup, Api!CheckCapacity, Api!Recover, Api!Add,
       Api!Work, Api!Start, Api!Finish
  <2>2. \A d \in Calls : row'[d] # "ABSENT" <=> row[d] # "ABSENT"
    BY <1>1, <1>7 DEF Handle, Api!Lookup, Api!CheckCapacity, Api!Recover,
       Api!Add, Api!Work, Api!Start, Api!Finish, Api!TypeOK
  <2> QED
    BY <2>1, <2>2 DEF vars, RowsAreSnapshots
<1>8. CASE CountOther \/ TimePasses \/ UNCHANGED system
  BY <1>8 DEF CountOther, TimePasses, system, vars, requests, RowsAreSnapshots
<1> QED
  BY <1>2, <1>3, <1>4, <1>5, <1>6, <1>7, <1>8 DEF SystemNext

\* Whatever edits, deliveries and workers run in between: an answer names an
\* execution of one version of the workflow, and a key finds none of a
\* definition without a webhook trigger.
THEOREM AnswersKeepToVersions == SystemSpec => []AnswersAreOfAVersion
<1>1. TypeOK /\ SnapshotIsAVersion /\ Api!TypeOK /\ Api!AnswersExist /\ RowsAreSnapshots
        => AnswersAreOfAVersion
  <2> SUFFICES ASSUME SnapshotIsAVersion, Api!AnswersExist, RowsAreSnapshots,
                      NEW c \in Calls, reply[c] = "execution"
               PROVE  /\ execution[returned[c]] # NoSnapshot
                      /\ execution[returned[c]].definition = published[execution[returned[c]].version]
                      /\ key[c] # NoKey => execution[returned[c]].definition.trigger = "WEBHOOK"
    BY DEF AnswersAreOfAVersion
  <2>1. /\ returned[c] \in Calls /\ row[returned[c]] # "ABSENT"
        /\ key[returned[c]] = key[c]
    BY DEF Api!AnswersExist
  <2> QED
    BY <2>1 DEF SnapshotIsAVersion, RowsAreSnapshots
<1>2. SystemSpec => []TypeOK
  BY ImplementsWorkflows, TypeCorrect, PTL
<1> QED
  BY <1>1, <1>2, RowsInit, RowsNext, RequestInvariant, SystemSnapshots, PTL DEF SystemSpec

\* In the whole system, too, the deliveries of a key are answered with one
\* execution and run at most once, while the limit counts them and the workflow
\* is edited, paused and given another trigger between them.
THEOREM SystemIdempotence == SystemSpec => [](Api!SameKeySameExecution /\ Api!KeyRunsOnce)
<1>1. Api!TypeOK /\ Api!KeyIsUnique /\ Api!AnswersExist
        => Api!SameKeySameExecution /\ Api!KeyRunsOnce
  BY DEF Api!TypeOK, Api!KeyIsUnique, Api!AnswersExist,
     Api!SameKeySameExecution, Api!KeyRunsOnce
<1> QED
  BY <1>1, RequestInvariant, PTL
=============================================================================

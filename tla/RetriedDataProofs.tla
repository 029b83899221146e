------------------------- MODULE RetriedDataProofs -------------------------
(***************************************************************************)
(* Theorems about RetriedData: for any definitions, payloads, responses    *)
(* and orders of keys, a retry that reads data back from JSONB changes no  *)
(* decision and no result but the order of a response's keys.              *)
(***************************************************************************)
EXTENDS RetriedData, SequenceTheorems, TLAPS

-----------------------------------------------------------------------------
(* What a JSONB column does to a value. *)

LEMMA JsonbAtPath ==
  ASSUME NEW value, NEW path \in DOMAIN value
  PROVE  /\ Jsonb(value)[path].kind = value[path].kind
         /\ value[path].kind = "object" =>
              /\ Jsonb(value)[path] = Object(JsonbOrder[ToSet(value[path].keys)])
              /\ Jsonb(value)[path].keys = JsonbOrder[ToSet(value[path].keys)]
         /\ value[path].kind # "object" => Jsonb(value)[path] = value[path]
<1>1. \A keys : Object(keys).kind = "object" /\ Object(keys).keys = keys
  BY DEF Object
<1> QED
  BY <1>1 DEF Jsonb

LEMMA JsonbKeepsData ==
  ASSUME NEW value, workflowData(value)
  PROVE  workflowData(Jsonb(value))
<1>1. DOMAIN Jsonb(value) = DOMAIN value /\ Jsonb(value) = [path \in DOMAIN value |-> Jsonb(value)[path]]
  BY DEF Jsonb
<1>2. \A path : Parts(Jsonb(value), path) = Parts(value, path)
  BY <1>1 DEF Parts
<1>3. <<>> \in DOMAIN value /\ Kind(Jsonb(value)) = "object"
  BY JsonbAtPath DEF workflowData, Kind
<1>4. ASSUME NEW path \in DOMAIN value, value[path].kind = "object"
      PROVE  ToSet(Jsonb(value)[path].keys) = Parts(value, path)
  <2>1. ToSet(value[path].keys) = Parts(value, path) /\ Parts(value, path) \in DOMAIN JsonbOrder
    BY <1>4 DEF workflowData
  <2>2. Jsonb(value)[path].keys = JsonbOrder[Parts(value, path)]
    BY <1>4, <2>1, JsonbAtPath
  <2> QED
    BY <2>1, <2>2, OrderKeepsKeys
<1>5. \A path \in DOMAIN value : Jsonb(value)[path].kind = value[path].kind
  BY JsonbAtPath
<1>6. ASSUME NEW path \in DOMAIN value
      PROVE  CASE Jsonb(value)[path].kind = "object" ->
                    /\ ToSet(Jsonb(value)[path].keys) = Parts(Jsonb(value), path)
                    /\ Parts(Jsonb(value), path) \in DOMAIN JsonbOrder
               [] Jsonb(value)[path].kind = "array" -> TRUE
               [] OTHER -> Parts(Jsonb(value), path) = {}
  BY <1>2, <1>4, <1>5 DEF workflowData
<1>7. DOMAIN Jsonb(value) \subseteq Seq(STRING)
  BY <1>1 DEF workflowData
<1> QED
  BY <1>1, <1>3, <1>6, <1>7 DEF workflowData

LEMMA JsonbIsIdempotent ==
  ASSUME NEW value, workflowData(value)
  PROVE  Jsonb(Jsonb(value)) = Jsonb(value)
<1>1. DOMAIN Jsonb(value) = DOMAIN value
  BY DEF Jsonb
<1> SUFFICES ASSUME NEW path \in DOMAIN value
             PROVE  Jsonb(Jsonb(value))[path] = Jsonb(value)[path]
  BY <1>1 DEF Jsonb
<1>2. CASE value[path].kind = "object"
  <2>1. ToSet(value[path].keys) \in DOMAIN JsonbOrder
    BY <1>2 DEF workflowData
  <2>2. Jsonb(value)[path].kind = "object"
        /\ Jsonb(value)[path].keys = JsonbOrder[ToSet(value[path].keys)]
    BY <1>2, JsonbAtPath
  <2>3. ToSet(Jsonb(value)[path].keys) = ToSet(value[path].keys)
    BY <2>1, <2>2, OrderKeepsKeys
  <2>4. Jsonb(Jsonb(value))[path] = Object(JsonbOrder[ToSet(Jsonb(value)[path].keys)])
    BY <1>1, <2>2, JsonbAtPath
  <2> QED
    BY <1>2, <2>3, <2>4, JsonbAtPath
<1>3. CASE value[path].kind # "object"
  BY <1>1, <1>3, JsonbAtPath
<1> QED
  BY <1>2, <1>3

\* Following a path and reading a value back commute.
LEMMA ResolveCommutes ==
  ASSUME NEW value, NEW path
  PROVE  resolveInputPath(Jsonb(value), path) = Jsonb(resolveInputPath(value, path))
<1>1. DOMAIN Jsonb(value) = DOMAIN value
  BY DEF Jsonb
<1>2. Jsonb(Undefined) = Undefined
  BY DEF Jsonb, Undefined
<1>3. CASE path \notin DOMAIN value
  BY <1>1, <1>2, <1>3 DEF resolveInputPath
<1>4. CASE path \in DOMAIN value
  <2> DEFINE Inside == {q \in {SubSeq(p, Len(path) + 1, Len(p)) : p \in DOMAIN value} :
                          path \o q \in DOMAIN value}
  <2>1. resolveInputPath(value, path) = [p \in Inside |-> value[path \o p]]
    BY <1>4 DEF resolveInputPath
  <2>2. resolveInputPath(Jsonb(value), path) = [p \in Inside |-> Jsonb(value)[path \o p]]
    BY <1>1, <1>4 DEF resolveInputPath
  <2>3. \A p \in Inside : path \o p \in DOMAIN value
    OBVIOUS
  <2> HIDE DEF Inside
  <2>4. \A p \in Inside : Jsonb(value)[path \o p] = Jsonb([q \in Inside |-> value[path \o q]])[p]
    BY <2>3 DEF Jsonb
  <2>5. Jsonb([q \in Inside |-> value[path \o q]])
          = [p \in Inside |-> Jsonb([q \in Inside |-> value[path \o q]])[p]]
    BY DEF Jsonb
  <2> QED
    BY <2>1, <2>2, <2>4, <2>5
<1> QED
  BY <1>3, <1>4

LEMMA ResolvedHasRoot ==
  ASSUME NEW value, workflowData(value), NEW path
  PROVE  <<>> \in DOMAIN resolveInputPath(value, path)
<1>1. CASE path \notin DOMAIN value
  BY <1>1 DEF resolveInputPath, Undefined
<1>2. CASE path \in DOMAIN value
  <2>1. path \in Seq(STRING)
    BY <1>2 DEF workflowData
  <2>2. SubSeq(path, Len(path) + 1, Len(path)) = <<>> /\ path \o <<>> = path
    BY <2>1
  <2> QED
    BY <1>2, <2>2 DEF resolveInputPath
<1> QED
  BY <1>1, <1>2

-----------------------------------------------------------------------------
(* What the steps make of data that was and that was not read back. *)

LEMMA TransformAtPath ==
  ASSUME NEW template, NEW input, NEW path \in DOMAIN template
  PROVE  /\ executeTransform(template, input)[path].kind = template[path].kind
         /\ template[path].kind # "string" =>
              executeTransform(template, input)[path] = template[path]
<1>1. \A text : String(text).kind = "string"
  BY DEF String
<1> QED
  BY <1>1 DEF executeTransform

LEMMA TransformIsData ==
  ASSUME NEW template, workflowData(template), NEW input
  PROVE  workflowData(executeTransform(template, input))
<1> DEFINE output == executeTransform(template, input)
<1>1. DOMAIN output = DOMAIN template /\ output = [path \in DOMAIN template |-> output[path]]
  BY DEF executeTransform
<1>2. \A path : Parts(output, path) = Parts(template, path)
  BY <1>1 DEF Parts
<1>3. \A path \in DOMAIN template :
        /\ output[path].kind = template[path].kind
        /\ template[path].kind = "object" => output[path] = template[path]
  BY TransformAtPath
<1> QED
  BY <1>1, <1>2, <1>3 DEF workflowData, Kind

LEMMA TransformIsOrdered ==
  ASSUME NEW template, Jsonb(template) = template, NEW input
  PROVE  Jsonb(executeTransform(template, input)) = executeTransform(template, input)
<1> DEFINE output == executeTransform(template, input)
<1>1. /\ DOMAIN output = DOMAIN template /\ output = [path \in DOMAIN template |-> output[path]]
      /\ Jsonb(output) = [path \in DOMAIN template |-> Jsonb(output)[path]]
  BY DEF executeTransform, Jsonb
<1> SUFFICES ASSUME NEW path \in DOMAIN template PROVE Jsonb(output)[path] = output[path]
  BY <1>1
<1>2. CASE template[path].kind = "object"
  BY <1>1, <1>2, TransformAtPath, JsonbAtPath
<1>3. CASE template[path].kind # "object"
  BY <1>1, <1>3, TransformAtPath, JsonbAtPath
<1> QED
  BY <1>2, <1>3

\* A template that puts no order into a string renders both alike.
LEMMA TransformIsBlind ==
  ASSUME NEW template, NEW input, ~ RendersOrder(template, input)
  PROVE  executeTransform(template, Jsonb(input)) = executeTransform(template, input)
<1> SUFFICES ASSUME NEW p \in DOMAIN template, Len(p) = 1, template[p].kind = "string"
             PROVE  Render(Jsonb(input), template[p].text) = Render(input, template[p].text)
  BY DEF executeTransform
<1> DEFINE text == template[p].text
<1>1. ASSUME NEW i \in DOMAIN text, "path" \in DOMAIN text[i]
      PROVE  resolveInputPath(Jsonb(input), text[i].path) = resolveInputPath(input, text[i].path)
  <2>1. Jsonb(resolveInputPath(input, text[i].path)) = resolveInputPath(input, text[i].path)
    BY <1>1 DEF RendersOrder
  <2> QED
    BY <2>1, ResolveCommutes
<1>2. ASSUME NEW i \in DOMAIN text, "path" \in DOMAIN text[i]
      PROVE  Replacement(Jsonb(input), text[i]) = Replacement(input, text[i])
  BY <1>1, <1>2 DEF Replacement
<1>3. [i \in DOMAIN text |-> IF "path" \in DOMAIN text[i]
                             THEN Replacement(Jsonb(input), text[i]) ELSE <<text[i]>>]
        = [i \in DOMAIN text |-> IF "path" \in DOMAIN text[i]
                                 THEN Replacement(input, text[i]) ELSE <<text[i]>>]
  BY <1>2
<1> QED
  BY <1>3 DEF Render

\* A filter never sees the order.
LEMMA FilterIsBlind ==
  ASSUME NEW config, NEW input, workflowData(input)
  PROVE  executeFilter(config, Jsonb(input)) = executeFilter(config, input)
<1> DEFINE actual == resolveInputPath(input, config.field)
<1>1. resolveInputPath(Jsonb(input), config.field) = Jsonb(actual)
  BY ResolveCommutes
<1>2. <<>> \in DOMAIN actual
  BY ResolvedHasRoot
<1>3. Kind(Jsonb(actual)) = Kind(actual)
  BY <1>2, JsonbAtPath DEF Kind
<1>4. Kind(actual) # "object" => Jsonb(actual)[<<>>] = actual[<<>>]
  BY <1>2, JsonbAtPath DEF Kind
<1> HIDE DEF actual
<1>5. Identical(Jsonb(actual), config.value) = Identical(actual, config.value)
  BY <1>3, <1>4 DEF Identical
<1>6. CASE Kind(actual) = "object"
  BY <1>1, <1>3, <1>5, <1>6 DEF executeFilter, actual
<1>7. CASE Kind(actual) # "object"
  BY <1>1, <1>3, <1>4, <1>5, <1>7 DEF executeFilter, actual
<1> QED
  BY <1>6, <1>7

-----------------------------------------------------------------------------
(* The two executions. *)

\* The retried execution's data is the other one's, read back or not.
SameData ==
  ~ orderRendered => retried \in {unretried, Jsonb(unretried)} /\ passed[1] = passed[2]

Invariant == TypeOK /\ SameData /\ OrderIsFetched

LEMMA InvariantInit == Init => Invariant
<1> SUFFICES ASSUME Init PROVE Invariant
  OBVIOUS
<1>1. workflowData(unretried) /\ Jsonb(unretried) = unretried /\ retried = unretried
  BY PayloadsAreJsonb DEF Init
<1>2. TypeOK
  <2>1. index \in 1 .. MaxSteps + 1
    BY StepsAreBounded DEF Init
  <2>2. passed \in BOOLEAN \X BOOLEAN /\ fetched \in BOOLEAN /\ orderRendered \in BOOLEAN
    BY DEF Init
  <2> QED
    BY <1>1, <2>1, <2>2 DEF TypeOK
<1>3. SameData
  BY <1>1 DEF Init, SameData
<1> QED
  BY <1>1, <1>2, <1>3 DEF Invariant, OrderIsFetched

LEMMA FilterIsBoolean ==
  ASSUME NEW step \in Steps, step.type = "FILTER", NEW input
  PROVE  executeFilter(step, input) \in BOOLEAN
BY StepTypesAreKnown DEF executeFilter, Identical

LEMMA StepKeeps ==
  ASSUME Invariant, NEW step \in Steps, NEW response \in Responses, ExecuteStep(step, response)
  PROVE  Invariant'
<1> DEFINE one == executeStep(step, unretried, response)
           two == executeStep(step, retried, response)
<1>1. /\ unretried' = one.output
      /\ retried' \in {two.output, Jsonb(two.output)}
      /\ passed' = <<one.shouldContinue, two.shouldContinue>>
      /\ fetched' = (step.type = "HTTP_REQUEST" \/ (fetched /\ step.type = "FILTER"))
      /\ orderRendered' = (orderRendered
           \/ (step.type = "TRANSFORM" /\ RendersOrder(step.template, unretried)))
      /\ index' \in 1 .. MaxSteps + 1
  BY StepsAreBounded DEF ExecuteStep, Invariant, TypeOK
<1>2. workflowData(unretried) /\ workflowData(retried)
  BY DEF Invariant, TypeOK
<1>3. /\ workflowData(one.output) /\ workflowData(two.output)
      /\ one.shouldContinue \in BOOLEAN /\ two.shouldContinue \in BOOLEAN
  <2>1. CASE step.type = "TRANSFORM"
    BY <2>1, TemplatesAreJsonb, TransformIsData DEF executeStep
  <2>2. CASE step.type = "FILTER"
    BY <1>2, <2>2, FilterIsBoolean DEF executeStep
  <2>3. CASE step.type = "HTTP_REQUEST"
    BY <2>3, ResponsesAreData DEF executeStep
  <2> QED
    BY <2>1, <2>2, <2>3, StepTypesAreKnown
<1>4. ~ orderRendered' =>
        two.output \in {one.output, Jsonb(one.output)} /\ one.shouldContinue = two.shouldContinue
  <2> SUFFICES ASSUME ~ orderRendered'
               PROVE  /\ two.output \in {one.output, Jsonb(one.output)}
                      /\ one.shouldContinue = two.shouldContinue
    OBVIOUS
  <2>1. retried \in {unretried, Jsonb(unretried)}
    BY <1>1 DEF Invariant, SameData
  <2>2. CASE step.type = "TRANSFORM"
    BY <1>1, <2>1, <2>2, TransformIsBlind DEF executeStep
  <2>3. CASE step.type = "FILTER"
    BY <1>2, <2>1, <2>3, FilterIsBlind DEF executeStep
  <2>4. CASE step.type = "HTTP_REQUEST"
    BY <2>4 DEF executeStep
  <2> QED
    BY <2>2, <2>3, <2>4, StepTypesAreKnown
<1>5. ~ fetched' => Jsonb(one.output) = one.output
  <2>1. CASE step.type = "TRANSFORM"
    BY <2>1, TemplatesAreJsonb, TransformIsOrdered DEF executeStep
  <2>2. CASE step.type = "FILTER"
    BY <1>1, <2>2 DEF executeStep, Invariant, OrderIsFetched
  <2>3. CASE step.type = "HTTP_REQUEST"
    BY <1>1, <2>3
  <2> QED
    BY <2>1, <2>2, <2>3, StepTypesAreKnown
<1>6. Jsonb(Jsonb(one.output)) = Jsonb(one.output)
  BY <1>3, JsonbIsIdempotent
<1>7. workflowData(retried')
  BY <1>1, <1>3, JsonbKeepsData
<1> HIDE DEF one, two
<1>8. TypeOK'
  <2>1. fetched' \in BOOLEAN /\ orderRendered' \in BOOLEAN
    BY <1>1 DEF Invariant, TypeOK
  <2> QED
    BY <1>1, <1>3, <1>7, <2>1 DEF TypeOK
<1>9. SameData'
  BY <1>1, <1>4, <1>6 DEF SameData
<1>10. OrderIsFetched'
  BY <1>1, <1>5 DEF OrderIsFetched
<1> QED
  BY <1>8, <1>9, <1>10 DEF Invariant

LEMMA InvariantNext == Invariant /\ [Next]_vars => Invariant'
<1>1. Invariant /\ UNCHANGED vars => Invariant'
  BY DEF vars, Invariant, TypeOK, SameData, OrderIsFetched
<1> QED
  BY <1>1, StepKeeps DEF Next, Finished

LEMMA InvariantHolds == Spec => []Invariant
BY InvariantInit, InvariantNext, PTL DEF Spec

\* What a step stores is always accepted by the attempt that reads it.
THEOREM DataIsAlwaysValid == Spec => []TypeOK
<1>1. Invariant => TypeOK
  BY DEF Invariant
<1> QED
  BY <1>1, InvariantHolds, PTL

\* A retry shows in rendered text only.  As long as no template has put an object
\* or array whose order JSONB changes into a string: however often an execution
\* is retried, its filters decide, and its outputs are but for their order, as
\* if it had not been.  Once a template has, nothing is said of what follows.
THEOREM RetryShowsInTextOnly == Spec => []RetryIsInvisible
<1>1. Invariant => RetryIsInvisible
  BY JsonbIsIdempotent DEF Invariant, TypeOK, SameData, RetryIsInvisible
<1> QED
  BY <1>1, InvariantHolds, PTL

\* Only responses bring in an order of keys that a column does not keep.
THEOREM OrderIsAlwaysFetched == Spec => []OrderIsFetched
<1>1. Invariant => OrderIsFetched
  BY DEF Invariant
<1> QED
  BY <1>1, InvariantHolds, PTL
=============================================================================

---------------------------- MODULE RetriedData ----------------------------
(***************************************************************************)
(* Two executions of one snapshot that get the same responses: one is      *)
(* never retried and hands every output on in memory, the other one is     *)
(* retried at will, and reads the output of the step before a retry back   *)
(* from its JSONB column (a step with a recorded result is not run again). *)
(***************************************************************************)
EXTENDS StepFunctions

CONSTANTS
  Steps,      \* the steps a definition is made of, as read from its column
  MaxSteps,   \* bound on their number (20)
  Payloads,   \* trigger payloads, as read from their column
  Responses   \* parsed bodies of HTTP responses, as the servers order them

ASSUME StepTypesAreKnown ==
  \A step \in Steps :
    /\ step.type \in {"TRANSFORM", "FILTER", "HTTP_REQUEST"}
    /\ step.type = "FILTER" =>
         step.operator \in {"EQUALS", "NOT_EQUALS", "GREATER_THAN", "LESS_THAN"}
ASSUME StepsAreBounded == MaxSteps \in Nat
ASSUME PayloadsAreJsonb ==
  \A payload \in Payloads : workflowData(payload) /\ Jsonb(payload) = payload
ASSUME TemplatesAreJsonb ==
  \A step \in Steps : step.type = "TRANSFORM" =>
    workflowData(step.template) /\ Jsonb(step.template) = step.template
ASSUME ResponsesAreData == \A response \in Responses : workflowData(response)

VARIABLES
  index,         \* the next step of both
  unretried,     \* currentData of the execution that is never retried
  retried,       \* currentData of the other one
  passed,        \* what the last step said to go on: <<unretried, retried>>
  fetched,       \* history: the data comes from a response, no transform since
  orderRendered  \* history: a template has rendered a value whose order JSONB changes

vars == <<index, unretried, retried, passed, fetched, orderRendered>>

Init ==
  /\ index = 1
  /\ unretried \in Payloads
  /\ retried = unretried
  /\ passed = <<TRUE, TRUE>>
  /\ fetched = FALSE
  /\ orderRendered = FALSE

\* The template replaces a placeholder by a value that JSONB would reorder.
RendersOrder(template, input) ==
  \E p \in DOMAIN template :
    /\ Len(p) = 1 /\ template[p].kind = "string"
    /\ \E i \in DOMAIN template[p].text :
         LET piece == template[p].text[i]
             value == resolveInputPath(input, piece.path)
         IN  "path" \in DOMAIN piece /\ Jsonb(value) # value

\* Both executions run the same step, any of the definition's.  The retried one
\* goes on with its result, or with what a later attempt reads.
ExecuteStep(step, response) ==
  /\ index <= MaxSteps /\ passed = <<TRUE, TRUE>>
  /\ LET one == executeStep(step, unretried, response)
         two == executeStep(step, retried, response)
     IN  /\ unretried' = one.output
         /\ retried' \in {two.output, Jsonb(two.output)}
         /\ passed' = <<one.shouldContinue, two.shouldContinue>>
  /\ fetched' = (step.type = "HTTP_REQUEST" \/ (fetched /\ step.type = "FILTER"))
  /\ orderRendered' =
       (orderRendered \/ (step.type = "TRANSFORM" /\ RendersOrder(step.template, unretried)))
  /\ index' = index + 1

\* The last step has been run, or a filter has stopped one of the two.
Finished == (index > MaxSteps \/ passed # <<TRUE, TRUE>>) /\ UNCHANGED vars

Next ==
  \/ \E step \in Steps, response \in Responses : ExecuteStep(step, response)
  \/ Finished

Spec == Init /\ [][Next]_vars
-----------------------------------------------------------------------------
\* What a step hands on is always a WorkflowData, an object and a proper tree, so
\* that a later attempt never finds its "Stored output ... is invalid".
TypeOK ==
  /\ index \in 1 .. MaxSteps + 1
  /\ workflowData(unretried) /\ workflowData(retried)
  /\ passed \in BOOLEAN \X BOOLEAN
  /\ fetched \in BOOLEAN /\ orderRendered \in BOOLEAN

\* A retry is invisible: although a retried execution works on reordered data,
\* its filters decide as if it had not been retried, and its results are the
\* same but for the order of entries.  The exception is a template that puts
\* an object or array out of a response into a string.
RetryIsInvisible ==
  ~ orderRendered => /\ Jsonb(unretried) = Jsonb(retried)
                     /\ passed[1] = passed[2]

\* Only responses bring in an order of their own: what transforms make of them
\* is the same in memory and in the column, so a step behind a transform sees
\* the same input whether or not there was a retry in between.
OrderIsFetched == ~ fetched => Jsonb(unretried) = unretried
=============================================================================

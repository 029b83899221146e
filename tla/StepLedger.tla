----------------------------- MODULE StepLedger -----------------------------
(***************************************************************************)
(* What an execution promises, with rows, retries and the queue left out:  *)
(* the results of the steps are recorded once each and in order, every     *)
(* result is computed from the one before it, and the job is completed     *)
(* only when the results say that the workflow is at its end.              *)
(***************************************************************************)
EXTENDS Naturals, Sequences

CONSTANTS Values, NoData, Definitions

VARIABLES
  steps,    \* the definition
  payload,  \* the trigger's payload
  results,  \* the result recorded for each step, or NoData
  outcome   \* what the queue has made of the job

vars == <<steps, payload, results, outcome>>

Recorded(i) == results[i] # NoData

Input(i) == IF i = 1 THEN payload ELSE results[i - 1]

PossibleResults(i) ==
  CASE steps[i].type = "TRANSFORM"    -> {steps[i].template[Input(i)]}
    [] steps[i].type = "FILTER"       -> {Input(i)}
    [] steps[i].type = "HTTP_REQUEST" -> Values

Stops(i) == steps[i].type = "FILTER" /\ Recorded(i) /\ ~ steps[i].passes[results[i]]

\* Exactly the first n results are recorded.
RecordedUpTo(n) == \A i \in 1 .. Len(steps) : Recorded(i) <=> i <= n

Init ==
  /\ steps \in Definitions
  /\ payload \in Values
  /\ results = [i \in 1 .. Len(steps) |-> NoData]
  /\ outcome = "open"

Record(i) ==
  /\ outcome = "open"
  /\ RecordedUpTo(i - 1)
  /\ \E result \in PossibleResults(i) : results' = [results EXCEPT ![i] = result]
  /\ UNCHANGED <<steps, payload, outcome>>

\* A filter that stops the workflow may have to be evaluated again.
Withdraw(i) ==
  /\ outcome = "open"
  /\ RecordedUpTo(i)
  /\ Stops(i)
  /\ results' = [results EXCEPT ![i] = NoData]
  /\ UNCHANGED <<steps, payload, outcome>>

Succeed ==
  /\ outcome = "open"
  /\ \E n \in 0 .. Len(steps) :
       /\ RecordedUpTo(n)
       /\ n = Len(steps) \/ (n > 0 /\ Stops(n))
  /\ outcome' = "succeeded"
  /\ UNCHANGED <<steps, payload, results>>

Fail ==
  /\ outcome = "open"
  /\ outcome' = "failed"
  /\ UNCHANGED <<steps, payload, results>>

Next ==
  \/ \E i \in 1 .. Len(steps) : Record(i) \/ Withdraw(i)
  \/ Succeed \/ Fail

Spec == Init /\ [][Next]_vars
=============================================================================

------------------------ MODULE MCWorkflowExecution ------------------------
(***************************************************************************)
(* Small instances of WorkflowExecution: data is 0 or 1, a transform swaps *)
(* them, a filter passes 1, and a request may return either.               *)
(***************************************************************************)
EXTENDS WorkflowExecution, TLC

MCValues == {0, 1}

MCStep(id, type) ==
  [id |-> id, type |-> type, template |-> [v \in MCValues |-> 1 - v],
   passes |-> [v \in MCValues |-> v = 1]]

\* All definitions of n steps with the ids given by ids[1 .. n].
OfLength(n, ids) ==
  {[i \in 1 .. n |-> MCStep(ids[i], type[i])] : type \in [1 .. n -> StepTypes]}

\* No step at all, one, and two: a first and a last step.
UpToTwoSteps == UNION {OfLength(n, <<"a", "b">>) : n \in 0 .. 2}

\* Three: a first step, one with both neighbours, and a last step.
UpToThreeSteps == UNION {OfLength(n, <<"a", "b", "c">>) : n \in 0 .. 3}

\* A lone request, and a transform and a filter in either order.
RequestOrPure ==
  {<<MCStep("a", "HTTP_REQUEST")>>}
    \union {d \in OfLength(2, <<"a", "b">>) : {d[1].type, d[2].type} = {"TRANSFORM", "FILTER"}}

\* Two steps that share an id.
SharedId == OfLength(2, <<"a", "a">>)

Interchangeable == Permutations(Workers)
=============================================================================

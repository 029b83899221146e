---------------------------- MODULE RequestLedger ----------------------------
(***************************************************************************)
(* What triggering a workflow promises, with the calls of the handlers,    *)
(* the failures and the workers left out: an idempotency key has one       *)
(* execution, an execution is queued once, by the request that created it, *)
(* and whoever is told of an execution without having queued it is told of *)
(* the one that has its key.                                               *)
(***************************************************************************)
CONSTANTS Requests, Keys, NoKey, NoExecution

VARIABLES
  key,      \* the key of each request
  created,  \* the requests that have created their execution
  queued,   \* the executions that were queued
  open,     \* the requests that have not been answered
  answer    \* the execution that each request was told of

vars == <<key, created, queued, open, answer>>

Init ==
  /\ key \in [Requests -> Keys \union {NoKey}]
  /\ created = {}
  /\ queued = {}
  /\ open = Requests
  /\ answer = [r \in Requests |-> NoExecution]

\* The executions that have the key of the request.
Holders(r) == {e \in created : key[r] # NoKey /\ key[e] = key[r]}

Close(r) == open' = open \ {r} /\ UNCHANGED answer
Tell(r, e) == open' = open \ {r} /\ answer' = [answer EXCEPT ![r] = e]
Go == UNCHANGED <<open, answer>>

Create(r) ==
  /\ r \in open \ created
  /\ Holders(r) = {}
  /\ created' = created \union {r}
  /\ Go \/ Close(r)
  /\ UNCHANGED <<key, queued>>

Queue(r) ==
  /\ r \in open \intersect (created \ queued)
  /\ queued' = queued \union {r}
  /\ Go \/ Tell(r, r)
  /\ UNCHANGED <<key, created>>

Find(r) ==
  /\ r \in open \ created
  /\ \E e \in Holders(r) : Tell(r, e)
  /\ UNCHANGED <<key, created, queued>>

Refuse(r) ==
  /\ r \in open
  /\ Close(r)
  /\ UNCHANGED <<key, created, queued>>

Next == \E r \in Requests : Create(r) \/ Queue(r) \/ Find(r) \/ Refuse(r)

Spec == Init /\ [][Next]_vars
=============================================================================

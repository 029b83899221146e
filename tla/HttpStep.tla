------------------------------ MODULE HttpStep ------------------------------
(***************************************************************************)
(* The attempts of one HTTP_REQUEST step: executeHttpRequest, safeFetch    *)
(* and validateHttpUrl, against the Credential table, the name servers and *)
(* the servers of the step's URL, which answer what they like.  An attempt *)
(* that fails is followed by another one when the job is retried.          *)
(* The addresses that fetch connects to are not modelled.                  *)
(***************************************************************************)
EXTENDS Credentials

CONSTANTS
  Origins,       \* origins that a URL or a Location header may have
  Refused,       \* those validateHttpUrl refuses without a lookup
  NoStep,        \* before the execution has started
  NoUrl,         \* before validateHttpUrl has returned
  MAX_REDIRECTS, \* 5
  MaxAttempts    \* bound on the attempts

ASSUME RefusedAreOrigins == Refused \subseteq Origins
ASSUME AttemptsArePositive == MAX_REDIRECTS \in Nat /\ MaxAttempts \in Nat \ {0}

Methods == {"GET", "POST"}  \* POST stands for PUT, PATCH and DELETE, too

HttpRequestStep == [userId : Calls, method : Methods, origin : Origins,
                    credentialId : CredentialIds \union {NoCredential}]

VARIABLES
  step,           \* the step's config, and the execution's userId
  attempt,        \* how many attempts have begun
  at,             \* the next call of the attempt
  bearer,         \* the credential whose token is in requestHeaders
  currentUrl,     \* its origin
  redirectCount,
  sent,           \* history: the requests of this attempt
  goneBefore      \* history: the credentials removed before this attempt

httpStep == <<step, attempt, at, bearer, currentUrl, redirectCount, sent, goneBefore>>

NothingSent == [requests |-> 0, origins |-> {}, tokens |-> {}]

HttpInit ==
  /\ step = NoStep
  /\ attempt = 0
  /\ at = "idle"
  /\ bearer = NoCredential
  /\ currentUrl = NoUrl
  /\ redirectCount = 0
  /\ sent = NothingSent
  /\ goneBefore = {}

Goto(call) == at' = call
Idle == at \in {"idle", "failed"}
-----------------------------------------------------------------------------
\* The first call of an attempt: the credential, if the step has one.
FirstCall(config) == IF config.credentialId = NoCredential THEN "validate" ELSE "credential"

\* executeStep is called for a step without a recorded result.
Begin(config) ==
  /\ Idle /\ attempt < MaxAttempts
  /\ step \in {NoStep, config}
  /\ me(config.userId)
  /\ step' = config
  /\ attempt' = attempt + 1
  /\ Goto(FirstCall(config))
  /\ bearer' = NoCredential
  /\ currentUrl' = NoUrl /\ redirectCount' = 0
  /\ sent' = NothingSent
  /\ goneBefore' = {id \in CredentialIds : credential[id].status = "removed"}

\* Mutated: the credential is found by its id alone.
FoundById == Stored(step.credentialId)

\* findFirst by id and owner.
Found == Stored(step.credentialId) /\ credential[step.credentialId].owner = step.userId

\* Not found, not a bearer token, data that is not one, or a call that fails:
\* the attempt fails.
ReadCredential ==
  /\ at = "credential"
  /\ \/ /\ Found /\ credential[step.credentialId].usable
        /\ bearer' = step.credentialId
        /\ Goto("validate")
     \/ Goto("failed") /\ UNCHANGED bearer
  /\ UNCHANGED <<step, attempt, currentUrl, redirectCount, sent, goneBefore>>

\* validateHttpUrl throws for what it refuses at sight, and for a name that
\* does not resolve, or resolves to a private address.
Validate ==
  /\ at = "validate"
  /\ \/ step.origin \notin Refused /\ currentUrl' = step.origin /\ Goto("fetch")
     \/ UNCHANGED currentUrl /\ Goto("failed")
  /\ UNCHANGED <<step, attempt, bearer, redirectCount, sent, goneBefore>>

\* Bound: requests are counted up to one more than an attempt may make.
MaxRequests == MAX_REDIRECTS + 2

Send ==
  sent' = [requests |-> IF sent.requests < MaxRequests THEN sent.requests + 1 ELSE MaxRequests,
           origins |-> sent.origins \union {currentUrl},
           tokens |-> sent.tokens \union ({bearer} \ {NoCredential})]

\* fetch sends the request.  It throws, with or without the request having been
\* handled, or returns a response that is no redirect: one that is not ok, or
\* has a body that is no WorkflowData, fails the attempt.
Respond ==
  /\ at = "fetch"
  /\ Send
  /\ Goto("failed") \/ Goto("succeeded")
  /\ UNCHANGED <<step, attempt, bearer, currentUrl, redirectCount, goneBefore>>

\* Mutated: the method is not looked at.
AnyMethod == redirectCount < MAX_REDIRECTS
MayFollow == redirectCount < MAX_REDIRECTS /\ step.method = "GET"

\* Mutated: validateHttpUrl is the only check of a Location.
AnyOrigin(location) == location \notin Refused
Acceptable(location) == location \notin Refused /\ location = currentUrl

\* Mutated: the count starts again with every redirect.
SameCount == redirectCount
NextCount == redirectCount + 1

\* A redirect ends the attempt, unless it may be followed and has a Location.
Redirect ==
  /\ at = "fetch"
  /\ Send
  /\ Goto("failed") \/ (MayFollow /\ Goto("redirect"))
  /\ UNCHANGED <<step, attempt, bearer, currentUrl, redirectCount, goneBefore>>

\* The Location is validated, lookup included, and compared with the current
\* URL, whose origin a relative one has.
Follow ==
  /\ at = "redirect"
  /\ \/ Goto("failed") /\ UNCHANGED <<currentUrl, redirectCount>>
     \/ /\ \E location \in Origins : Acceptable(location) /\ currentUrl' = location
        /\ redirectCount' = NextCount
        /\ Goto("fetch")
  /\ UNCHANGED <<step, attempt, bearer, sent, goneBefore>>

Attempt == ReadCredential \/ Validate \/ Respond \/ Redirect \/ Follow
-----------------------------------------------------------------------------
HttpTypeOK ==
  /\ step \in HttpRequestStep \union {NoStep}
  /\ attempt \in 0 .. MaxAttempts
  /\ at \in {"idle", "credential", "validate", "fetch", "redirect", "failed", "succeeded"}
  /\ bearer \in CredentialIds \union {NoCredential}
  /\ currentUrl \in Origins \union {NoUrl}
  /\ redirectCount \in 0 .. MAX_REDIRECTS
  /\ sent \in [requests : 0 .. MaxRequests, origins : SUBSET Origins, tokens : SUBSET CredentialIds]
  /\ goneBefore \subseteq CredentialIds

\* A token is sent for its owner's executions only, and not by an attempt that
\* begins after its removal, although it may be sent by the redirects of one
\* that read it before.
TokensStayWithTheirOwner ==
  \A id \in sent.tokens : credential[id].owner = step.userId /\ id \notin goneBefore

\* "Cross-origin redirects are rejected": however often it is redirected, an
\* attempt sends its headers and its token to the step's own origin only.
RequestsStayAtOrigin ==
  \A origin \in sent.origins : origin = step.origin /\ origin \notin Refused

\* A request with an effect is made at most once by an attempt, and a GET is
\* repeated by redirects at most MAX_REDIRECTS times.
EffectsHappenOnce ==
  sent.requests > 0 => sent.requests <= IF step.method = "GET" THEN MAX_REDIRECTS + 1 ELSE 1

\* Every attempt ends, also where a server redirects it forever.
AttemptsEnd == []<>(at \in {"idle", "failed", "succeeded"})
=============================================================================

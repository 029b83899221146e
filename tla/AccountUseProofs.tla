-------------------------- MODULE AccountUseProofs --------------------------
(***************************************************************************)
(* What AccountUse promises, for any number of registrations, users,       *)
(* credentials, origins, attempts and redirects.                           *)
(***************************************************************************)
EXTENDS AccountUse, TLAPS

\* A registration that was acknowledged owns the row of its address.
OwnsItsRow ==
  \A c \in Calls : answer[c] = "registered" =>
    user[email(c)] = [id |-> c, password |-> form[c].password]

AccountsInv == AccountsTypeOK /\ OwnsItsRow

\* What an attempt holds while it runs: its step, and the token of a credential
\* that was there, as its owner's, when the attempt began.
TokenHeld ==
  /\ at # "idle" => step \in HttpRequestStep
  /\ at = "credential" => step.credentialId # NoCredential /\ bearer = NoCredential
  /\ sent.tokens \subseteq {bearer} \ {NoCredential}
  /\ bearer # NoCredential => /\ credential[bearer].owner = step.userId
                              /\ credential[bearer].status # "none"
                              /\ bearer \notin goneBefore
  /\ \A id \in goneBefore : credential[id].status = "removed"

TokensInv == CredentialsTypeOK /\ HttpTypeOK /\ TokenHeld

\* Where the loop of safeFetch stands: at the step's own origin, and with as many
\* requests sent as it has followed redirects.
LoopPosition ==
  /\ at \in {"fetch", "redirect"} => currentUrl = step.origin /\ step.origin \notin Refused
  /\ at \in {"credential", "validate"} => sent.requests = 0 /\ redirectCount = 0
  /\ at = "fetch" => sent.requests = redirectCount
  /\ at = "redirect" => sent.requests = redirectCount + 1 /\ MayFollow
  /\ redirectCount > 0 => step.method = "GET"

LoopInv == LoopPosition /\ RequestsStayAtOrigin /\ EffectsHappenOnce
-----------------------------------------------------------------------------
\* Every row belongs to a registration; login knows the one of an address.
LEMMA LoginFindsItsRow ==
  ASSUME AccountsInv
  PROVE  RegistrationSticks
<1> SUFFICES ASSUME NEW c \in Calls, answer[c] = "registered",
                    NEW spelling \in Spellings, Normalised[spelling] = email(c)
             PROVE  login(spelling, form[c].password) = c
  BY DEF RegistrationSticks
<1>1. user[email(c)] = [id |-> c, password |-> form[c].password]
  BY DEF AccountsInv, OwnsItsRow
<1>2. form[c].password \in Passwords
  BY DEF AccountsInv, AccountsTypeOK, Form
<1>3. user[email(c)] # NoUser
  BY <1>1, <1>2, NoUserIsDistinct
<1> QED
  BY <1>1, <1>3 DEF login

\* An address belongs to a spelling that somebody may send.
LEMMA FormHasAnAddress ==
  ASSUME AccountsTypeOK, NEW c \in Calls
  PROVE  email(c) \in Addresses /\ form[c].password \in Passwords
BY DEF AccountsTypeOK, Form, email, Spellings, Addresses, Range

\* Initially nobody is registered.
LEMMA AccountsStart == Init => AccountsInv
BY DEF Init, AccountsInit, AccountsInv, AccountsTypeOK, OwnsItsRow

\* The insert of one call leaves the row of every other one as it is.
LEMMA AccountsStep == AccountsInv /\ [Next]_vars => AccountsInv'
<1> SUFFICES ASSUME AccountsInv, [Next]_vars PROVE AccountsInv'
  OBVIOUS
<1> USE DEF AccountsInv
<1>1. ASSUME NEW c \in Calls, FindExisting(c) PROVE AccountsInv'
  <2>1. AccountsTypeOK'
    BY <1>1 DEF FindExisting, Answer, AccountsTypeOK
  <2>2. \A d \in Calls : answer'[d] = "registered" => answer[d] = "registered"
    BY <1>1 DEF FindExisting, Answer, AccountsTypeOK
  <2> QED
    BY <1>1, <2>1, <2>2 DEF FindExisting, OwnsItsRow, email
<1>2. ASSUME NEW c \in Calls, CreateUser(c) PROVE AccountsInv'
  <2> DEFINE row == [id |-> c, password |-> form[c].password]
  <2>1. email(c) \in Addresses /\ form[c].password \in Passwords
    BY FormHasAnAddress
  <2>2. row \in [id : Calls, password : Passwords]
    BY <2>1
  <2>3. AccountsTypeOK'
    BY <1>2, <2>1, <2>2 DEF CreateUser, Insert, Answer, AccountsTypeOK
  <2>4. ASSUME NEW d \in Calls, answer'[d] = "registered"
        PROVE  user'[email(d)] = [id |-> d, password |-> form[d].password]
    <3>1. CASE d = c
      BY <1>2, <2>1, <2>4, <3>1 DEF CreateUser, Insert, Answer, AccountsTypeOK
    <3>2. CASE d # c
      <4>1. user[email(d)] = [id |-> d, password |-> form[d].password]
        BY <1>2, <2>4, <3>2 DEF CreateUser, Answer, AccountsTypeOK, OwnsItsRow
      <4>2. user[email(d)] # NoUser
        BY <4>1, FormHasAnAddress, NoUserIsDistinct
      <4>3. user'[email(d)] = user[email(d)]
        BY <1>2, <4>2, FormHasAnAddress DEF CreateUser, Insert, AccountsTypeOK
      <4> QED
        BY <4>1, <4>3
    <3> QED
      BY <3>1, <3>2
  <2> QED
    BY <1>2, <2>3, <2>4 DEF CreateUser, OwnsItsRow, email
<1>3. CASE UNCHANGED accounts
  BY <1>3 DEF accounts, AccountsTypeOK, OwnsItsRow, email
<1> QED
  BY <1>1, <1>2, <1>3
     DEF Next, vars, UserRegisters, RegisterUser, UserManagesCredentials, WorkerBegins, WorkerGoesOn, Quiet
-----------------------------------------------------------------------------
\* Initially there are no credentials, and nothing was sent.
LEMMA TokensStart == Init => TokensInv
BY AttemptsArePositive
   DEF Init, CredentialsInit, HttpInit, TokensInv, CredentialsTypeOK, CredentialRow, HttpTypeOK,
       TokenHeld, NothingSent, MaxRequests

\* The credential of an attempt keeps its owner, and is not created anew.
LEMMA TokensStep == AccountsInv /\ TokensInv /\ LoopInv /\ [Next]_vars => TokensInv'
<1> SUFFICES ASSUME AccountsInv, TokensInv, LoopInv, [Next]_vars PROVE TokensInv'
  OBVIOUS
<1> USE AttemptsArePositive DEF TokensInv
<1>1. ASSUME NEW userId \in Calls, NEW id \in CredentialIds,
             CreateCredential(userId, id), UNCHANGED httpStep
      PROVE  TokensInv'
  <2>1. CredentialsTypeOK'
    BY <1>1 DEF CreateCredential, CredentialsTypeOK, CredentialRow
  <2>2. HttpTypeOK'
    BY <1>1 DEF httpStep, HttpTypeOK, MaxRequests
  <2>3. \A other \in CredentialIds :
          credential[other].status # "none" => credential'[other] = credential[other]
    BY <1>1 DEF CreateCredential, CredentialsTypeOK
  <2>4. bearer # NoCredential => bearer \in CredentialIds
    BY DEF HttpTypeOK
  <2>5. TokenHeld'
    BY <1>1, <2>3, <2>4, Zenon DEF httpStep, TokenHeld, HttpTypeOK
  <2> QED
    BY <2>1, <2>2, <2>5
<1>2. ASSUME NEW userId \in Calls, NEW id \in CredentialIds,
             RemoveCredential(userId, id), UNCHANGED httpStep
      PROVE  TokensInv'
  <2>1. CredentialsTypeOK'
    BY <1>2 DEF RemoveCredential, Stored, CredentialsTypeOK, CredentialRow
  <2>2. HttpTypeOK'
    BY <1>2 DEF httpStep, HttpTypeOK, MaxRequests
  <2>3. \A other \in CredentialIds :
          /\ credential'[other].owner = credential[other].owner
          /\ credential'[other].status \in {credential[other].status, "removed"}
    BY <1>2 DEF RemoveCredential, CredentialsTypeOK, CredentialRow
  <2>4. TokenHeld'
    BY <1>2, <2>3 DEF httpStep, TokenHeld, HttpTypeOK
  <2> QED
    BY <2>1, <2>2, <2>4
<1>3. ASSUME NEW config \in HttpRequestStep, Begin(config), UNCHANGED credential
      PROVE  TokensInv'
  <2>1. CredentialsTypeOK'
    BY <1>3 DEF CredentialsTypeOK
  <2>2. HttpTypeOK'
    BY <1>3 DEF Begin, Goto, FirstCall, NothingSent, HttpTypeOK, MaxRequests
  <2>3. TokenHeld'
    BY <1>3 DEF Begin, Goto, FirstCall, NothingSent, TokenHeld
  <2> QED
    BY <2>1, <2>2, <2>3
<1>4. ASSUME ReadCredential, UNCHANGED credential PROVE TokensInv'
  <2>1. CredentialsTypeOK'
    BY <1>4 DEF CredentialsTypeOK
  <2>2. step \in HttpRequestStep /\ step.credentialId # NoCredential /\ bearer = NoCredential
    BY <1>4 DEF ReadCredential, TokenHeld
  <2>3. step.credentialId \in CredentialIds
    BY <2>2 DEF HttpRequestStep
  <2>4. sent.tokens = {}
    BY <2>2 DEF TokenHeld
  <2>5. CASE Found /\ bearer' = step.credentialId /\ Goto("validate")
    <3>1. HttpTypeOK'
      BY <1>4, <2>3, <2>5 DEF ReadCredential, Goto, HttpTypeOK, MaxRequests
    <3>2. step.credentialId \notin goneBefore
      BY <2>5 DEF Found, Stored, TokenHeld
    <3>3. TokenHeld'
      BY <1>4, <2>2, <2>4, <2>5, <3>2 DEF ReadCredential, Goto, Found, Stored, TokenHeld
    <3> QED
      BY <2>1, <3>1, <3>3
  <2>6. CASE Goto("failed") /\ UNCHANGED bearer
    <3>1. HttpTypeOK'
      BY <1>4, <2>6 DEF ReadCredential, Goto, HttpTypeOK, MaxRequests
    <3>2. TokenHeld'
      BY <1>4, <2>2, <2>6 DEF ReadCredential, Goto, TokenHeld
    <3> QED
      BY <2>1, <3>1, <3>2
  <2> QED
    BY <1>4, <2>5, <2>6 DEF ReadCredential
<1>5. ASSUME Validate, UNCHANGED credential PROVE TokensInv'
  <2>1. CredentialsTypeOK'
    BY <1>5 DEF CredentialsTypeOK
  <2>2. step \in HttpRequestStep
    BY <1>5 DEF Validate, TokenHeld
  <2>3. HttpTypeOK'
    BY <1>5, <2>2 DEF Validate, Goto, HttpTypeOK, HttpRequestStep, MaxRequests
  <2>4. TokenHeld'
    BY <1>5, <2>2 DEF Validate, Goto, TokenHeld
  <2> QED
    BY <2>1, <2>3, <2>4
<1>6. ASSUME Respond \/ Redirect, UNCHANGED credential PROVE TokensInv'
  <2>1. CredentialsTypeOK'
    BY <1>6 DEF CredentialsTypeOK
  <2>2. step \in HttpRequestStep /\ currentUrl \in Origins
    BY <1>6 DEF Respond, Redirect, TokenHeld, LoopInv, LoopPosition, HttpRequestStep
  <2>3. HttpTypeOK'
    BY <1>6, <2>2 DEF Respond, Redirect, Send, Goto, HttpTypeOK, MaxRequests
  <2>4. TokenHeld'
    BY <1>6, <2>2 DEF Respond, Redirect, Send, Goto, TokenHeld
  <2> QED
    BY <2>1, <2>3, <2>4
<1>7. ASSUME Follow, UNCHANGED credential PROVE TokensInv'
  <2>1. CredentialsTypeOK'
    BY <1>7 DEF CredentialsTypeOK
  <2>2. HttpTypeOK'
    BY <1>7 DEF Follow, Goto, NextCount, HttpTypeOK, MaxRequests, LoopInv, LoopPosition, MayFollow
  <2>3. TokenHeld'
    BY <1>7 DEF Follow, Goto, TokenHeld
  <2> QED
    BY <2>1, <2>2, <2>3
<1>8. CASE UNCHANGED <<credential, httpStep>>
  <2>1. CredentialsTypeOK'
    BY <1>8 DEF CredentialsTypeOK
  <2>2. HttpTypeOK'
    BY <1>8 DEF httpStep, HttpTypeOK, MaxRequests
  <2>3. TokenHeld'
    BY <1>8 DEF httpStep, TokenHeld
  <2> QED
    BY <2>1, <2>2, <2>3
<1> QED
  BY <1>1, <1>2, <1>3, <1>4, <1>5, <1>6, <1>7, <1>8
     DEF Next, vars, UserRegisters, UserManagesCredentials, WorkerBegins, WorkerGoesOn, Quiet,
         Attempt
-----------------------------------------------------------------------------
\* Initially nothing was sent.
LEMMA LoopStart == Init => LoopInv
BY AttemptsArePositive
   DEF Init, HttpInit, NothingSent, LoopInv, LoopPosition, RequestsStayAtOrigin, EffectsHappenOnce

\* A redirect is followed for a GET, within the origin, up to MAX_REDIRECTS times.
LEMMA LoopStep == TokensInv /\ LoopInv /\ [Next]_vars => LoopInv'
<1> SUFFICES ASSUME HttpTypeOK, TokenHeld, LoopInv, [Next]_vars PROVE LoopInv'
  BY DEF TokensInv
<1> USE AttemptsArePositive DEF LoopInv
<1>1. CASE UNCHANGED httpStep
  BY <1>1 DEF httpStep, LoopPosition, MayFollow, RequestsStayAtOrigin, EffectsHappenOnce
<1>2. ASSUME NEW config \in HttpRequestStep, Begin(config) PROVE LoopInv'
  BY <1>2 DEF Begin, Goto, FirstCall, NothingSent, LoopPosition, RequestsStayAtOrigin, EffectsHappenOnce
<1>3. CASE ReadCredential
  BY <1>3 DEF ReadCredential, Goto, LoopPosition, RequestsStayAtOrigin, EffectsHappenOnce
<1>4. CASE Validate
  BY <1>4 DEF Validate, Goto, LoopPosition, RequestsStayAtOrigin, EffectsHappenOnce
<1>5. CASE Respond \/ Redirect
  <2>1. redirectCount \in 0 .. MAX_REDIRECTS /\ sent.requests = redirectCount
    BY <1>5 DEF Respond, Redirect, LoopPosition, HttpTypeOK
  <2>2. sent'.requests = redirectCount + 1 /\ sent'.origins = sent.origins \union {currentUrl}
    BY <1>5, <2>1 DEF Respond, Redirect, Send, MaxRequests
  <2>3. step' = step /\ redirectCount' = redirectCount /\ currentUrl' = currentUrl
    BY <1>5 DEF Respond, Redirect
  <2>4. at' \in {"failed", "succeeded"} \/ (at' = "redirect" /\ MayFollow)
    BY <1>5 DEF Respond, Redirect, Goto
  <2>5. LoopPosition'
    BY <1>5, <2>2, <2>3, <2>4 DEF Respond, Redirect, LoopPosition, MayFollow
  <2>6. RequestsStayAtOrigin'
    BY <1>5, <2>2, <2>3 DEF Respond, Redirect, LoopPosition, RequestsStayAtOrigin
  <2>7. EffectsHappenOnce'
    <3>1. redirectCount > 0 => step.method = "GET"
      BY DEF LoopPosition
    <3> QED
      BY <2>1, <2>2, <2>3, <3>1 DEF EffectsHappenOnce
  <2> QED
    BY <2>5, <2>6, <2>7
<1>6. CASE Follow
  <2>1. \/ at' = "failed" /\ UNCHANGED <<currentUrl, redirectCount>>
        \/ at' = "fetch" /\ currentUrl' = currentUrl /\ redirectCount' = redirectCount + 1
    BY <1>6 DEF Follow, Goto, Acceptable, NextCount
  <2>2. UNCHANGED <<step, sent>> /\ at = "redirect"
    BY <1>6 DEF Follow
  <2>3. redirectCount \in Nat
    BY DEF HttpTypeOK
  <2> QED
    BY <2>1, <2>2, <2>3 DEF LoopPosition, MayFollow, RequestsStayAtOrigin, EffectsHappenOnce
<1> QED
  BY <1>1, <1>2, <1>3, <1>4, <1>5, <1>6
     DEF Next, vars, UserRegisters, UserManagesCredentials, WorkerBegins, WorkerGoesOn, Quiet,
         Attempt
-----------------------------------------------------------------------------
\* The three parts hold together.
LEMMA AccountUseInvariant == Spec => [](AccountsInv /\ TokensInv /\ LoopInv)
<1>1. Init => AccountsInv /\ TokensInv /\ LoopInv
  BY AccountsStart, TokensStart, LoopStart
<1>2. AccountsInv /\ TokensInv /\ LoopInv /\ [Next]_vars => (AccountsInv /\ TokensInv /\ LoopInv)'
  BY AccountsStep, TokensStep, LoopStep
<1> QED
  BY <1>1, <1>2, PTL DEF Spec

\* Who was told that it is registered stays registered: the unique index and the
\* insert of register, whatever was read before.
THEOREM RegistrationAlwaysSticks == Spec => []RegistrationSticks
BY AccountUseInvariant, LoginFindsItsRow, PTL

\* No step sends a token of another user, or one that was removed before its
\* attempt began: the where clause of executeHttpRequest's findFirst.
THEOREM TokensAlwaysStay == Spec => []TokensStayWithTheirOwner
<1>1. TokensInv => TokensStayWithTheirOwner
  BY DEF TokensInv, TokenHeld, TokensStayWithTheirOwner
<1> QED
  BY <1>1, AccountUseInvariant, PTL

\* No chain of redirects leaves the origin that validateHttpUrl has accepted.
THEOREM RequestsAlwaysStay == Spec => []RequestsStayAtOrigin
<1>1. LoopInv => RequestsStayAtOrigin
  BY DEF LoopInv
<1> QED
  BY <1>1, AccountUseInvariant, PTL

\* No redirect repeats a request that has an effect, and GETs are bounded.
THEOREM EffectsAlwaysHappenOnce == Spec => []EffectsHappenOnce
<1>1. LoopInv => EffectsHappenOnce
  BY DEF LoopInv
<1> QED
  BY <1>1, AccountUseInvariant, PTL
=============================================================================

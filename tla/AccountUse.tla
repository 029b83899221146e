---------------------------- MODULE AccountUse ----------------------------
(***************************************************************************)
(* From the registration of users to what is sent in their name: Accounts, *)
(* Credentials and HttpStep put together.                                  *)
(***************************************************************************)
EXTENDS HttpStep

vars == <<accounts, credential, httpStep>>

Init == AccountsInit /\ CredentialsInit /\ HttpInit

UserRegisters ==
  /\ \E c \in Calls : RegisterUser(c)
  /\ UNCHANGED <<credential, httpStep>>

\* A request that JwtAuthGuard lets pass acts for the token's user.
UserManagesCredentials ==
  /\ \E userId \in Calls, id \in CredentialIds :
       CreateCredential(userId, id) \/ RemoveCredential(userId, id)
  /\ UNCHANGED <<accounts, httpStep>>

WorkerBegins ==
  /\ \E config \in HttpRequestStep : Begin(config)
  /\ UNCHANGED <<accounts, credential>>

WorkerGoesOn ==
  /\ Attempt
  /\ UNCHANGED <<accounts, credential>>

\* Every registration was answered, every credential was removed, and the step
\* has succeeded or used up its attempts.
Quiet ==
  /\ \A c \in Calls : pc[c] = "done"
  /\ \/ Registered = {}
     \/ /\ \A id \in CredentialIds : credential[id].status = "removed"
        /\ at = "succeeded" \/ (at = "failed" /\ attempt = MaxAttempts)
  /\ UNCHANGED vars

Next == UserRegisters \/ UserManagesCredentials \/ WorkerBegins \/ WorkerGoesOn \/ Quiet

\* A live worker goes on with its call.  fetch comes to an end: it has no
\* timeout of its own, but Node's waits for the headers for a limited time.
Spec == Init /\ [][Next]_vars /\ WF_httpStep(WorkerGoesOn)
=============================================================================

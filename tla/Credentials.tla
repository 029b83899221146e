---------------------------- MODULE Credentials ----------------------------
(***************************************************************************)
(* The Credential table: CredentialsService for users that have logged in. *)
(* A row holds the sealed data; only decrypt, in the worker, opens it.     *)
(***************************************************************************)
EXTENDS Accounts

CONSTANTS
  CredentialIds,  \* ids of the rows that are created
  NoCredential    \* a step without a credentialId

ASSUME NoCredentialIsDistinct == NoCredential \notin CredentialIds

VARIABLE credential  \* the row of each id

\* Neither type nor data is validated when a row is created; usable says that
\* the type is BEARER_TOKEN and that the sealed data holds a token.
CredentialRow == [status : {"none", "stored", "removed"},
                  owner : Calls \union {NoUser}, usable : BOOLEAN]

CredentialsInit ==
  credential = [id \in CredentialIds |-> [status |-> "none", owner |-> NoUser, usable |-> FALSE]]

Stored(id) == credential[id].status = "stored"

\* create: encrypt, and one insert under a new id.
CreateCredential(userId, id) ==
  /\ me(userId)
  /\ credential[id].status = "none"
  /\ \E usable \in BOOLEAN :
       credential' = [credential EXCEPT ![id] =
                        [status |-> "stored", owner |-> userId, usable |-> usable]]

\* remove: found among the owner's rows, and deleted by id.  Of two removals
\* that have both found the row, the second one fails and changes nothing.
RemoveCredential(userId, id) ==
  /\ me(userId)
  /\ Stored(id) /\ credential[id].owner = userId
  /\ credential' = [credential EXCEPT ![id].status = "removed"]

CredentialsTypeOK ==
  /\ credential \in [CredentialIds -> CredentialRow]
  /\ \A id \in CredentialIds : credential[id].status # "none" => credential[id].owner \in Calls
=============================================================================

------------------------------ MODULE Accounts ------------------------------
(***************************************************************************)
(* The User table: AuthService.register by any number of calls at once,    *)
(* and what login and me answer.  A user's id names the call that created  *)
(* it.  A hash stands for the password it was made of, because argon2      *)
(* verifies that password and no other one.                                *)
(***************************************************************************)
EXTENDS Naturals, Functions

CONSTANTS
  Calls,       \* registrations
  Passwords,
  Normalised,  \* the address that trim and toLowerCase make of each spelling
  NoUser       \* findUnique has found nothing

Spellings == DOMAIN Normalised
Addresses == Range(Normalised)

ASSUME NoUserIsDistinct == NoUser \notin [id : Calls, password : Passwords]

VARIABLES
  user,    \* the row of each address
  pc,      \* the next call of each registration
  form,    \* what each registration was sent
  answer   \* what its client was told

accounts == <<user, pc, form, answer>>

Form == [email : Spellings, password : Passwords]

\* The address of a registration, once it has been sent.
email(c) == Normalised[form[c].email]

AccountsInit ==
  /\ user = [address \in Addresses |-> NoUser]
  /\ pc = [c \in Calls |-> "new"]
  /\ form \in [Calls -> Form]
  /\ answer = [c \in Calls |-> "none"]

Registered == {user[address].id : address \in {a \in Addresses : user[a] # NoUser}}
-----------------------------------------------------------------------------
Answer(c, what) ==
  /\ pc' = [pc EXCEPT ![c] = "done"]
  /\ answer' = [answer EXCEPT ![c] = what]

\* findUnique: an address that is taken is a conflict.  The password is hashed
\* between this call and the next.
FindExisting(c) ==
  /\ pc[c] = "new"
  /\ \/ user[email(c)] # NoUser /\ Answer(c, "conflict")
     \/ user[email(c)] = NoUser /\ pc' = [pc EXCEPT ![c] = "create"] /\ UNCHANGED answer
  /\ UNCHANGED <<user, form>>

Insert(c) == user' = [user EXCEPT ![email(c)] = [id |-> c, password |-> form[c].password]]

\* Mutated: an upsert instead of an insert.
UpsertUser(c) ==
  /\ pc[c] = "create"
  /\ Insert(c) /\ Answer(c, "registered")
  /\ UNCHANGED form

\* user.create: the unique index on the address lets one of several calls
\* insert its row; P2002 is not caught, so it is answered with a 500, as is a
\* call that fails before or after its row was committed.
CreateUser(c) ==
  /\ pc[c] = "create"
  /\ \/ user[email(c)] = NoUser /\ Insert(c) /\ Answer(c, "registered")
     \/ user[email(c)] = NoUser /\ Insert(c) /\ Answer(c, "error")
     \/ UNCHANGED user /\ Answer(c, "error")
  /\ UNCHANGED form

\* login: the id in the access token, or no token.
login(spelling, password) ==
  LET row == user[Normalised[spelling]]
  IN  IF row # NoUser /\ row.password = password THEN row.id ELSE NoUser

\* JwtAuthGuard and me: the owner of a token that was signed and has not
\* expired is a user for as long as there is a row, and rows are not deleted.
me(id) == id \in Registered

RegisterUser(c) == FindExisting(c) \/ CreateUser(c)
-----------------------------------------------------------------------------
AccountsTypeOK ==
  /\ user \in [Addresses -> [id : Calls, password : Passwords] \union {NoUser}]
  /\ pc \in [Calls -> {"new", "create", "done"}]
  /\ form \in [Calls -> Form]
  /\ answer \in [Calls -> {"none", "registered", "conflict", "error"}]

\* A client that was told that it is registered can log in from then on, with
\* every spelling of its address and its password, and is itself: no racing
\* registration of the address replaces its row or gets one of its own.
RegistrationSticks ==
  \A c \in Calls : answer[c] = "registered" =>
    \A spelling \in Spellings :
      Normalised[spelling] = email(c) => login(spelling, form[c].password) = c
=============================================================================

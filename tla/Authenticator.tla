----------------------------- MODULE Authenticator -----------------------------
(***************************************************************************)
(* The table of users that decides who may connect: class                  *)
(* SQLite3Authenticator of authentication/sqlite3Authenticator.cpp, with   *)
(* what it asks of SQLite.  The services of a program ask it, under its    *)
(* mutex, about the keys of clients; at the same time administrators add,  *)
(* update and delete users, through the same object or, with the program   *)
(* userTable, in a process of their own that opens the same file.          *)
(***************************************************************************)
EXTENDS Naturals, FiniteSets, FiniteSetsExt

CONSTANTS
  Admins,     (* threads that change the table                             *)
  Users,      (* [name, key, password, privileges] of the users they know  *)
  NoKey,      (* a user without public key                                 *)
  MinimumUserPrivileges   (* mPrivileges                                   *)

ASSUME PrivilegesAssumption == MinimumUserPrivileges \in Nat

VARIABLES
  use,        (* how the program of this behaviour uses its service        *)
  rows,       (* the rows of the table                                     *)
  lastId,     (* the last identifier that was given to a row               *)
  holder,     (* who holds mMutex                                          *)
  admin,      (* where each administrator is                               *)
  operations  (* how many calls they have made                             *)

tableVars == <<rows, lastId>>
authenticatorVars == <<rows, lastId, holder, admin, operations>>

Nobody == "nobody"
Idle == [at |-> "idle"]
Calls == {"addUser", "updateUser", "deleteUser"}

Row(id, user) == [id |-> id, user |-> user]
Ids == {r.id : r \in rows}

AuthenticatorTypeOK ==
  /\ \A r \in rows : r.id \in 1 .. lastId /\ r.user \in Users
  /\ \A r, s \in rows : r.id = s.id => r = s
  /\ lastId \in Nat
  /\ holder \in Admins \cup {Nobody}
  /\ admin \in [Admins ->
       {Idle} \cup [at : {"querying", "writing", "checking"}, call : Calls,
                    user : Users, id : 0 .. lastId]]
  /\ operations \in 0 .. use.operations

AuthenticatorInit ==
  /\ rows = {Row(1, user) : user \in use.users}
  /\ lastId = 1
  /\ holder = Nobody
  /\ admin = [a \in Admins |-> Idle]
  /\ operations = 0

-----------------------------------------------------------------------------
(* What SQLite promises: a statement is atomic, a name and a key are in at *)
(* most one row, and an identifier is not given twice.                     *)

Named(name) == {r \in rows : r.user.name = name}
Keyed(key) == {r \in rows : r.user.key = key}

Violates(user, others) ==
  \E r \in others :
    r.user.name = user.name \/ (user.key # NoKey /\ r.user.key = user.key)

(* Mutant: an identifier is reused once its row is deleted (the column is  *)
(* a primary key without AUTOINCREMENT).                                   *)
InsertReusing(user) ==
  LET id == Max(Ids \cup {0}) + 1 IN
  /\ ~Violates(user, rows)
  /\ rows' = rows \cup {Row(id, user)}
  /\ lastId' = Max({id, lastId})

(* Mutant: a row gets the identifier of the last one.                      *)
InsertSame(user) ==
  /\ ~Violates(user, rows)
  /\ rows' = rows \cup {Row(lastId, user)}
  /\ UNCHANGED lastId

Insert(user) ==
  /\ ~Violates(user, rows)
  /\ rows' = rows \cup {Row(lastId + 1, user)}
  /\ lastId' = lastId + 1

(* UPDATE ... WHERE id: nothing happens when the row is gone.              *)
Update(id, user) ==
  LET others == {r \in rows : r.id # id} IN
  /\ ~Violates(user, others)
  /\ rows' = IF id \in Ids THEN others \cup {Row(id, user)} ELSE rows
  /\ UNCHANGED lastId

Delete(id) ==
  /\ rows' = {r \in rows : r.id # id}
  /\ UNCHANGED lastId

(* An administrator with its own process has its own mutex, and its        *)
(* connection finds the file locked while another process writes.          *)
Shares(a) == a \in use.sharing
Process(a) == IF Shares(a) THEN "program" ELSE a
Locked(process) ==
  \E a \in Admins : admin[a].at = "writing" /\ Process(a) # process

(* queryFromUsersTable() stops at the first step that is not a row: a      *)
(* locked file looks like an empty table.                                  *)
Queried(process, found) == {found} \cup IF Locked(process) THEN {{}} ELSE {}

IdOf(found) == IF found = {} THEN 0 ELSE (CHOOSE r \in found : TRUE).id

-----------------------------------------------------------------------------
(* addUser(), updateUser() and deleteUser().  Only the first takes the     *)
(* mutex; each queries the table by name and then writes to it.            *)

Calling(a, call, user) ==
  /\ admin[a] = Idle
  /\ operations < use.operations
  /\ operations' = operations + 1
  /\ admin' = [admin EXCEPT ![a] =
                 [at |-> "querying", call |-> call, user |-> user, id |-> 0]]
  /\ UNCHANGED <<tableVars, holder>>

Returns(a) == admin' = [admin EXCEPT ![a] = Idle]

(* Unless a user is added who exists, or deleted who does not: these       *)
(* calls throw.                                                            *)
MayWrite(call, found) ==
  \/ call = "addUser" /\ found = {}
  \/ call = "updateUser"
  \/ call = "deleteUser" /\ found # {}

Queries(a) ==
  LET call == admin[a].call
      locks == call = "addUser" /\ Shares(a)
  IN
  /\ admin[a].at = "querying"
  /\ locks => holder = Nobody
  /\ \E found \in Queried(Process(a), Named(admin[a].user.name)) :
       IF MayWrite(call, found)
         THEN /\ admin' = [admin EXCEPT ![a].at = "writing", ![a].id = IdOf(found)]
              /\ holder' = IF locks THEN a ELSE holder
         ELSE Returns(a) /\ UNCHANGED holder
  /\ UNCHANGED <<tableVars, operations>>

(* A statement that SQLite refuses makes the call throw.                   *)
Statement(a) ==
  LET user == admin[a].user
      id == admin[a].id
  IN IF admin[a].call = "deleteUser" THEN Delete(id)
     ELSE IF id = 0 THEN Insert(user)
     ELSE Update(id, user)

Refuses(a) ==
  \/ Locked(Process(a))
  \/ /\ admin[a].call # "deleteUser"
     /\ Violates(admin[a].user, {r \in rows : r.id # admin[a].id})

Writes(a) ==
  /\ admin[a].at = "writing"
  /\ \/ /\ Statement(a)
        /\ IF admin[a].call = "deleteUser"
             THEN admin' = [admin EXCEPT ![a].at = "checking"]
             ELSE Returns(a)
     \/ Refuses(a) /\ Returns(a) /\ UNCHANGED tableVars
  /\ holder' = IF holder = a THEN Nobody ELSE holder
  /\ UNCHANGED operations

(* After a deletion a debug build asserts that the user is gone.           *)
FindsDeleted(a) == admin[a].at = "checking" /\ Named(admin[a].user.name) # {}

Checks(a) ==
  /\ admin[a].at = "checking"
  /\ Returns(a)
  /\ UNCHANGED <<tableVars, holder, operations>>

-----------------------------------------------------------------------------
(* isValid(): the answers to a client with a key, or with a name and a     *)
(* password.  The mutex is taken for the look-up.                          *)

OK == "200"
ClientError == "400"

Suffices(user) == user.privileges >= MinimumUserPrivileges

(* Mutant: everybody whose key is in the table may connect.                *)
KeyAnswersAny(key) ==
  {IF found # {} THEN OK ELSE ClientError : found \in Queried("program", Keyed(key))}

KeyAnswers(key) ==
  {IF \E r \in found : Suffices(r.user) THEN OK ELSE ClientError :
     found \in Queried("program", Keyed(key))}

PasswordAnswers(name, password) ==
  {IF \E r \in found : Suffices(r.user) /\ r.user.password = password
     THEN OK ELSE ClientError :
     found \in Queried("program", Named(name))}

(* Who may connect, as the table is.                                       *)
Entitled(key) == \E r \in Keyed(key) : Suffices(r.user)
=============================================================================

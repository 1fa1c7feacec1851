------------------------ MODULE GuardedService_proofs ------------------------
(***************************************************************************)
(* Theorems about services of every kind with the threads that they make,  *)
(* and about the table of users that guards them, for any number of        *)
(* administrators, in this process or in others, any users and clients, and*)
(* any bounds on the calls.                                                *)
(*                                                                         *)
(* updateUser() and deleteUser() look the identifier of a row up and write *)
(* to that row later, without the mutex.  In between the row may have been *)
(* deleted, and its user added again.  What saves the others is that an    *)
(* identifier is not given twice: RowsFit says that the row with the       *)
(* identifier that an administrator holds, if it is still there, is one of *)
(* the user of its call.  For the handshake it matters where a client that *)
(* asks can be (WaitingOK), and for the causes of a bad end where a thread *)
(* is for each place of its owner (WorkerOK, SidesOK) and what stop() has  *)
(* reached once it joins (StoppedOK, DismissedOK).                         *)
(***************************************************************************)
EXTENDS GuardedService, TLAPS

Positions ==
  {Idle} \cup [at : {"querying", "writing", "checking"}, call : Calls,
               user : Users, id : Nat]

AdminOK == admin \in [Admins -> Positions] /\ lastId \in Nat

(* Identifiers are those that were given so far, and each is in one row.   *)
RowsOK ==
  /\ \A r \in rows : r.id \in 1 .. lastId
  /\ \A r, s \in rows : r.id = s.id => r = s

RowsFit ==
  \A a \in Admins :
    admin[a].at = "writing" =>
      /\ admin[a].id <= lastId
      /\ \A r \in rows : r.id = admin[a].id => r.user.name = admin[a].user.name

Inv == AdminOK /\ RowsOK /\ RowsFit

-----------------------------------------------------------------------------
(* What the operators of the table do.                                     *)

LEMMA TableInit == Init => Inv
<1> SUFFICES ASSUME Init PROVE Inv
  OBVIOUS
<1> USE DEF Init, AuthenticatorInit
<1>1. AdminOK
  BY DEF AdminOK, Positions
<1>2. RowsOK
  <2>1. \A r \in rows : \E user \in use.users : r = Row(1, user)
    OBVIOUS
  <2>2. \A x, y \in use.users : x = y
    BY OneUserAssumption
  <2> QED BY <2>1, <2>2 DEF RowsOK, Row
<1>3. RowsFit
  BY DEF RowsFit, Idle
<1> QED BY <1>1, <1>2, <1>3 DEF Inv

(* A look-up finds a row of the name, or none.                             *)
LEMMA FoundFits ==
  ASSUME Inv, NEW name, NEW process, NEW found \in Queried(process, Named(name))
  PROVE  /\ IdOf(found) \in Nat /\ IdOf(found) <= lastId
         /\ \A r \in rows : r.id = IdOf(found) => r.user.name = name
<1>1. found = {} \/ found = Named(name)
  BY DEF Queried
<1>2. CASE found = {}
  BY <1>2 DEF IdOf, Inv, RowsOK, AdminOK
<1>3. CASE found = Named(name) /\ found # {}
  <2>1. PICK row \in found : IdOf(found) = row.id
    BY <1>3 DEF IdOf
  <2>2. row \in rows /\ row.user.name = name
    BY <1>3 DEF Named
  <2>3. row.id \in 1 .. lastId /\ lastId \in Nat /\ \A r \in rows : r.id = row.id => r = row
    BY <2>2 DEF Inv, RowsOK, AdminOK
  <2> QED BY <2>1, <2>2, <2>3
<1> QED BY <1>1, <1>2, <1>3

(* A call begins.                                                          *)
LEMMA CallingKeeps ==
  ASSUME Inv, NEW a \in Admins, NEW c \in Calls, NEW user \in Users,
         Calling(a, c, user)
  PROVE  Inv'
<1>1. AdminOK'
  BY DEF Inv, AdminOK, Calling, Positions, tableVars
<1>2. RowsOK' /\ RowsFit'
  BY DEF Inv, AdminOK, RowsOK, RowsFit, Calling, tableVars
<1> QED BY <1>1, <1>2 DEF Inv

(* The look-up: an administrator goes on to write what it has found.       *)
LEMMA QueriesKeeps ==
  ASSUME Inv, NEW a \in Admins, Queries(a)
  PROVE  Inv'
<1> DEFINE name == admin[a].user.name
<1>1. PICK found \in Queried(Process(a), Named(name)) :
        IF MayWrite(admin[a].call, found)
          THEN admin' = [admin EXCEPT ![a].at = "writing", ![a].id = IdOf(found)]
          ELSE Returns(a)
  BY DEF Queries
<1>2. /\ IdOf(found) \in Nat /\ IdOf(found) <= lastId
      /\ \A r \in rows : r.id = IdOf(found) => r.user.name = name
  BY FoundFits
<1>3. UNCHANGED <<rows, lastId>>
  BY DEF Queries, tableVars
<1>4. admin[a] \in Positions \ {Idle}
  BY DEF Inv, AdminOK, Queries, Idle
<1>5. CASE admin' = [admin EXCEPT ![a].at = "writing", ![a].id = IdOf(found)]
  <2>1. AdminOK'
    BY <1>2, <1>3, <1>4, <1>5 DEF Inv, AdminOK, Positions
  <2>2. /\ admin'[a].id = IdOf(found) /\ admin'[a].user = admin[a].user
        /\ \A b \in Admins \ {a} : admin'[b] = admin[b]
    BY <1>4, <1>5 DEF Inv, AdminOK, Positions
  <2>3. RowsOK' /\ RowsFit'
    BY <1>2, <1>3, <2>2 DEF Inv, RowsOK, RowsFit
  <2> QED BY <2>1, <2>3 DEF Inv
<1>6. CASE Returns(a)
  BY <1>3, <1>6 DEF Inv, AdminOK, RowsOK, RowsFit, Returns, Positions, Idle
<1> QED BY <1>1, <1>5, <1>6

(* A step that changes a table changes it by a call's statement, to rows   *)
(* that fit whoever is still at its look-up's identifier.                  *)
LEMMA StatementFits ==
  ASSUME Inv, NEW a \in Admins, admin[a].at = "writing", Statement(a)
  PROVE  /\ RowsOK' /\ lastId' \in Nat /\ lastId <= lastId'
         /\ \A b \in Admins : admin[b].at = "writing" =>
              \A r \in rows' : r.id = admin[b].id => r.user.name = admin[b].user.name
         /\ \A name : name # admin[a].user.name => Named(name)' = Named(name)
<1> DEFINE user == admin[a].user
           id == admin[a].id
<1>0. lastId \in Nat /\ \A b \in Admins : admin[b].at = "writing" => admin[b].id \in Nat
  BY DEF Inv, AdminOK, Positions, Idle
<1>1. CASE Delete(id) /\ admin[a].call = "deleteUser"
  <2>1. rows' \subseteq rows /\ \A r \in rows \ rows' : r.user.name = user.name
    BY <1>1 DEF Delete, Inv, RowsFit
  <2>2. lastId' = lastId
    BY <1>1 DEF Delete
  <2> QED BY <1>0, <2>1, <2>2 DEF Inv, RowsOK, RowsFit, Named
<1>2. CASE Insert(user)
  <2>1. rows' = rows \cup {Row(lastId + 1, user)} /\ lastId' = lastId + 1
    BY <1>2 DEF Insert
  <2>2. \A r \in rows : r.id \in Nat /\ r.id < lastId + 1
    BY <1>0 DEF Inv, RowsOK
  <2>3. \A b \in Admins : admin[b].at = "writing" => admin[b].id < lastId + 1
    BY <1>0 DEF Inv, RowsFit
  <2> QED BY <1>0, <2>1, <2>2, <2>3 DEF Inv, RowsOK, RowsFit, Named, Row
<1>3. CASE Update(id, user)
  <2>1. CASE id \notin Ids
    <3>1. UNCHANGED <<rows, lastId>>
      BY <1>3, <2>1 DEF Update
    <3> QED BY <1>0, <3>1 DEF Inv, RowsOK, RowsFit, Named
  <2>2. CASE id \in Ids
    <3>1. PICK old \in rows : old.id = id
      BY <2>2 DEF Ids
    <3>2. rows' = {r \in rows : r.id # id} \cup {Row(id, user)} /\ lastId' = lastId
      BY <1>3, <2>2 DEF Update
    <3>3. old.user.name = user.name
      BY <3>1 DEF Inv, RowsFit
    <3>4. \A b \in Admins : admin[b].at = "writing" /\ admin[b].id = id =>
            admin[b].user.name = user.name
      BY <3>1, <3>3 DEF Inv, RowsFit
    <3>5. RowsOK'
      BY <3>1, <3>2 DEF Inv, RowsOK, Row
    <3>6. \A r \in rows : r.id = id => r = old
      BY <3>1 DEF Inv, RowsOK
    <3> QED BY <1>0, <3>2, <3>3, <3>4, <3>5, <3>6 DEF Inv, RowsFit, Named, Row
  <2> QED BY <2>1, <2>2
<1> QED BY <1>1, <1>2, <1>3 DEF Statement

(* The writing: the statement, or an error that leaves the table alone.    *)
LEMMA WritesKeeps ==
  ASSUME Inv, NEW a \in Admins, Writes(a)
  PROVE  /\ Inv'
         /\ \A name : Named(name)' # Named(name) =>
              admin[a].at = "writing" /\ admin[a].user.name = name
<1>1. admin[a].at = "writing"
  BY DEF Writes
<1>2. admin[a] \in Positions \ {Idle}
  BY <1>1 DEF Inv, AdminOK, Idle
<1>3. /\ RowsOK' /\ lastId' \in Nat /\ lastId <= lastId'
      /\ \A b \in Admins : admin[b].at = "writing" =>
           \A r \in rows' : r.id = admin[b].id => r.user.name = admin[b].user.name
      /\ \A name : name # admin[a].user.name => Named(name)' = Named(name)
  <2>1. CASE Statement(a)
    BY <1>1, <2>1, StatementFits
  <2>2. CASE UNCHANGED tableVars
    BY <2>2 DEF Inv, AdminOK, RowsOK, RowsFit, Named, tableVars
  <2> QED BY <2>1, <2>2 DEF Writes
<1>4. \/ admin' = [admin EXCEPT ![a].at = "checking"]
      \/ admin' = [admin EXCEPT ![a] = Idle]
  BY DEF Writes, Returns
<1>5. /\ admin' \in [Admins -> Positions]
      /\ admin'[a].at # "writing"
      /\ \A b \in Admins \ {a} : admin'[b] = admin[b]
  BY <1>2, <1>4 DEF Inv, AdminOK, Positions, Idle
<1>6. \A b \in Admins : admin[b].at = "writing" => admin[b].id \in Nat
  BY DEF Inv, AdminOK, Positions, Idle
<1>7. RowsFit'
  BY <1>3, <1>5, <1>6 DEF Inv, RowsFit, AdminOK
<1> QED BY <1>1, <1>3, <1>5, <1>7 DEF Inv, AdminOK

(* The check after a deletion.                                             *)
LEMMA ChecksKeeps ==
  ASSUME Inv, NEW a \in Admins, Checks(a)
  PROVE  Inv'
BY DEF Inv, AdminOK, RowsOK, RowsFit, Checks, Returns, Positions, Idle, tableVars

-----------------------------------------------------------------------------
(* Everybody else leaves the table and the administrators alone.           *)

LEMMA OthersKeep ==
  ASSUME Inv, UNCHANGED <<rows, lastId, admin>>
  PROVE  Inv' /\ \A name : Named(name)' = Named(name)
BY DEF Inv, AdminOK, RowsOK, RowsFit, Named

LEMMA OtherSteps ==
  ASSUME \/ OwnerCalls \/ OwnerActs \/ WorkerActs \/ ClientAsks
         \/ \E s \in AllSides : GuardActs(s)
         \/ UNCHANGED vars
  PROVE  UNCHANGED <<rows, lastId, admin>>
<1> USE DEF authenticatorVars
<1>1. CASE OwnerCalls
  BY <1>1 DEF OwnerCalls, CallsTo, Allows, Pauses
<1>2. CASE OwnerActs
  BY <1>2 DEF OwnerActs, Opens, Looks, Told, Cuts, TellsGuards, Joins, JoinsGuards,
              Binds, Spawns, Rests
<1>3. CASE WorkerActs
  BY <1>3 DEF WorkerActs, WorkerBegins, WorkerReady, WorkerLeaves, WorkerObeys,
              WorkerFinishes
<1>4. CASE ClientAsks
  BY <1>4 DEF ClientAsks
<1>5. CASE \E s \in AllSides : GuardActs(s)
  BY <1>5 DEF GuardActs
<1>6. CASE UNCHANGED vars
  BY <1>6 DEF vars
<1> QED BY <1>1, <1>2, <1>3, <1>4, <1>5, <1>6

LEMMA StepKeeps ==
  ASSUME Inv, [Next]_vars
  PROVE  /\ Inv'
         /\ \A name : Named(name)' # Named(name) =>
              \E a \in Admins : admin[a].at = "writing" /\ admin[a].user.name = name
<1>1. CASE \/ OwnerCalls \/ OwnerActs \/ WorkerActs \/ ClientAsks
           \/ \E s \in AllSides : GuardActs(s)
           \/ UNCHANGED vars
  BY <1>1, OtherSteps, OthersKeep
<1>2. CASE AdminCalls
  <2>1. PICK a \in Admins, c \in Calls, user \in Users : Calling(a, c, user)
    BY <1>2 DEF AdminCalls
  <2>2. rows' = rows
    BY <2>1 DEF Calling, tableVars
  <2> QED BY <2>1, <2>2, CallingKeeps DEF Named
<1>3. ASSUME NEW a \in Admins, AdminActs(a)
      PROVE  /\ Inv'
             /\ \A name : Named(name)' # Named(name) =>
                  admin[a].at = "writing" /\ admin[a].user.name = name
  <2>1. Queries(a) \/ Writes(a) \/ Checks(a)
    BY <1>3 DEF AdminActs, AdminStep
  <2>2. CASE Queries(a)
    BY <2>2, QueriesKeeps DEF Queries, Named, tableVars
  <2>3. CASE Writes(a)
    BY <2>3, WritesKeeps
  <2>4. CASE Checks(a)
    BY <2>4, ChecksKeeps DEF Checks, Named, tableVars
  <2> QED BY <2>1, <2>2, <2>3, <2>4
<1> QED BY <1>1, <1>2, <1>3 DEF Next

(* A user's row is changed only by a call about that user, whoever changes *)
(* the table and however the calls of updateUser() and deleteUser(), which *)
(* do not take the mutex, come between one another.                        *)
THEOREM UpdatesTheNamedTheorem == Spec => UpdatesTheNamed
<1>1. Init => Inv
  BY TableInit
<1>2. Inv /\ [Next]_vars => Inv'
  BY StepKeeps
<1>3. Inv /\ [Next]_vars =>
        [\A user \in Users :
           Named(user.name)' # Named(user.name) =>
             \E a \in Admins : admin[a].at = "writing" /\ admin[a].user.name = user.name]_vars
  BY StepKeeps
<1> QED BY <1>1, <1>2, <1>3, PTL DEF Spec, UpdatesTheNamed

-----------------------------------------------------------------------------
(* Types.  The owner's thread is within a call unless it waits for one or  *)
(* is at an end: JoinsGuards goes on where the call says.                  *)

CallOK ==
  owner \in {"looking", "telling", "cutting", "guards", "joining", "joiningGuards"} =>
    call # "none"

OwnerTypeOK ==
  /\ use \in Uses
  /\ owner \in {"opening", "idle", "looking", "telling", "cutting", "guards",
                "joining", "joiningGuards", "binding", "spawning", "resting",
                "left", "failed", "aborted", "hung"}
  /\ call \in {"none", "initialize", "start", "stop", "leave"}
  /\ side \in 1 .. 3
  /\ starts \in 0 .. use.starts
  /\ {ready, initialized, running, pending, paused} \subseteq BOOLEAN
  /\ worker \in {"none", "begun", "readied", "working", "resting", "steered", "left"}
  /\ control \in Seq({"PAUSE", "RESUME", "TERMINATE"})
  /\ blame \subseteq {"creation", "early", "restart", "deaf", "crossed", "readded"}
  /\ CallOK

LEMMA SidesFact ==
  ASSUME use.kind \in ServiceKinds
  PROVE  Sides \in Seq(AllSides) /\ Len(Sides) <= 2
BY SidesAssumption DEF Sides, ServiceKinds

LEMMA OwnerTypesKept ==
  ASSUME OwnerTypeOK, [Next]_vars
  PROVE  OwnerTypeOK'
<1> USE DEF OwnerTypeOK, CallOK
<1>0. use \in Uses /\ use.kind \in ServiceKinds /\ use.starts \in Nat
  BY UsesAssumption
<1>1. CASE UNCHANGED vars
  BY <1>1 DEF vars, ownerVars, workerVars
<1>2. ASSUME NEW c \in {"initialize", "start", "stop", "leave"}, CallsTo(c)
      PROVE  OwnerTypeOK'
  BY <1>0, <1>2 DEF CallsTo, workerVars
<1>3. CASE Allows \/ AdminCalls \/ ClientAsks \/ \E s \in AllSides : GuardActs(s)
  BY <1>3 DEF Allows, AdminCalls, ClientAsks, GuardActs, ownerVars, workerVars
<1>4. CASE Pauses
  BY <1>4 DEF Pauses, Commands, ownerVars
<1>5. CASE Opens \/ Looks
  BY <1>5 DEF Opens, Looks, OwnerGoes, Blames, workerVars
<1>6. CASE Told
  <2>1. control' \in Seq({"PAUSE", "RESUME", "TERMINATE"}) /\ pending' \in BOOLEAN
    <3>1. CASE Commands("TERMINATE")
      BY <3>1 DEF Commands
    <3>2. CASE UNCHANGED <<control, pending>>
      BY <3>2
    <3> QED BY <1>6, <3>1, <3>2 DEF Told
  <2>2. /\ owner' \in {"guards", "cutting"} /\ call # "none"
        /\ running' \in BOOLEAN /\ initialized' \in BOOLEAN
    BY <1>6 DEF Told
  <2>3. blame' \subseteq {"creation", "early", "restart", "deaf", "crossed", "readded"}
    BY <1>6 DEF Told, Blames
  <2>4. UNCHANGED <<use, call, side, starts, ready, worker, paused>>
    BY <1>6 DEF Told
  <2> QED BY <2>1, <2>2, <2>3, <2>4
<1>7. CASE Cuts \/ Joins
  BY <1>7 DEF Cuts, Joins, OwnerGoes, Blames
<1>8. CASE TellsGuards
  <2>1. side' \in 1 .. 3
    BY <1>0, <1>8, SidesFact DEF TellsGuards
  <2>2. owner' \in {owner, "joining"} /\ call # "none"
    BY <1>8 DEF TellsGuards
  <2>3. blame' \subseteq {"creation", "early", "restart", "deaf", "crossed", "readded"}
    BY <1>8 DEF TellsGuards, Blames
  <2>4. UNCHANGED <<use, call, starts, ready, workerVars>>
    BY <1>8 DEF TellsGuards
  <2> QED BY <2>1, <2>2, <2>3, <2>4 DEF workerVars
<1>9. CASE JoinsGuards
  BY <1>9 DEF JoinsGuards, OwnerGoes, workerVars
<1>10. CASE Binds \/ Rests
  <2>1. CASE Binds
    <3>1. control' \in Seq({"PAUSE", "RESUME", "TERMINATE"})
      BY <2>1 DEF Binds
    <3> QED BY <2>1, <3>1 DEF Binds, OwnerGoes
  <2>2. CASE Rests
    BY <2>2 DEF Rests, OwnerGoes
  <2> QED BY <1>10, <2>1, <2>2
<1>11. CASE Spawns
  BY <1>11 DEF Spawns, OwnerGoes, Blames
<1>12. CASE WorkerBegins \/ WorkerReady \/ WorkerLeaves \/ WorkerFinishes
  BY <1>12 DEF WorkerBegins, WorkerReady, WorkerLeaves, WorkerFinishes, WorkerGoes, Aborts,
               ownerVars
<1>13. CASE WorkerObeys
  BY <1>13 DEF WorkerObeys, ownerVars
<1>14. ASSUME NEW a \in Admins, AdminActs(a)
       PROVE  OwnerTypeOK'
  BY <1>14 DEF AdminActs, AdminStep, Blames, workerVars
<1> QED
  BY <1>1, <1>2, <1>3, <1>4, <1>5, <1>6, <1>7, <1>8, <1>9, <1>10, <1>11, <1>12, <1>13, <1>14
     DEF Next, OwnerCalls, OwnerActs, WorkerActs

LEMMA UseKept == [Next]_vars => use' = use
BY DEF Next, vars, OwnerCalls, CallsTo, Allows, Pauses, OwnerActs, Opens, Looks, Told,
       Cuts, TellsGuards, Joins, JoinsGuards, Binds, Spawns, Rests, WorkerActs,
       WorkerBegins, WorkerReady, WorkerLeaves, WorkerObeys, WorkerFinishes,
       GuardActs, AdminCalls, AdminActs, ClientAsks

(* The authenticator's part: what is in the rows comes from the users that *)
(* calls are about.                                                        *)
LEMMA AuthenticatorTypesKept ==
  ASSUME OwnerTypeOK, AuthenticatorTypeOK, Inv, Inv', [Next]_vars
  PROVE  AuthenticatorTypeOK'
<1> DEFINE At(last) == [at : {"querying", "writing", "checking"}, call : Calls,
                        user : Users, id : 0 .. last]
<1>0. use \in Uses /\ use.operations \in Nat /\ use' = use
  <2>1. use \in Uses /\ use.operations \in Nat
    BY UsesAssumption DEF OwnerTypeOK
  <2> QED BY <2>1, UseKept
<1>1. SUFFICES /\ \A r \in rows' : r.user \in Users
               /\ holder' \in Admins \cup {Nobody}
               /\ admin' \in [Admins -> {Idle} \cup At(lastId')]
               /\ operations' \in 0 .. use.operations
  BY <1>0 DEF Inv, RowsOK, AdminOK, AuthenticatorTypeOK
<1>2. CASE UNCHANGED authenticatorVars
  BY <1>2 DEF AuthenticatorTypeOK, authenticatorVars
<1>3. ASSUME NEW a \in Admins, NEW c \in Calls, NEW user \in Users, Calling(a, c, user)
      PROVE  /\ \A r \in rows' : r.user \in Users
             /\ holder' \in Admins \cup {Nobody}
             /\ admin' \in [Admins -> {Idle} \cup At(lastId')]
             /\ operations' \in 0 .. use.operations
  <2>1. [at |-> "querying", call |-> c, user |-> user, id |-> 0] \in At(lastId)
    BY DEF Inv, AdminOK
  <2> QED BY <1>0, <1>3, <2>1 DEF AuthenticatorTypeOK, Calling, tableVars
<1>4. ASSUME NEW a \in Admins, Queries(a)
      PROVE  /\ \A r \in rows' : r.user \in Users
             /\ holder' \in Admins \cup {Nobody}
             /\ admin' \in [Admins -> {Idle} \cup At(lastId')]
             /\ operations' \in 0 .. use.operations
  <2>1. PICK found \in Queried(Process(a), Named(admin[a].user.name)) :
          \/ admin' = [admin EXCEPT ![a].at = "writing", ![a].id = IdOf(found)]
          \/ Returns(a)
    BY <1>4 DEF Queries
  <2>2. IdOf(found) \in 0 .. lastId
    BY FoundFits DEF Inv, AdminOK
  <2>3. admin[a] \in At(lastId) /\ rows' = rows /\ lastId' = lastId
    BY <1>4 DEF Queries, tableVars, AuthenticatorTypeOK, Idle
  <2>4. [admin[a] EXCEPT !.at = "writing", !.id = IdOf(found)] \in At(lastId)
    BY <2>2, <2>3
  <2>5. admin' \in [Admins -> {Idle} \cup At(lastId')]
    BY <2>1, <2>3, <2>4 DEF AuthenticatorTypeOK, Returns
  <2>6. holder' \in Admins \cup {Nobody} /\ operations' = operations
    BY <1>4 DEF Queries, AuthenticatorTypeOK
  <2> QED BY <2>3, <2>5, <2>6 DEF AuthenticatorTypeOK
<1>5. ASSUME NEW a \in Admins, Writes(a)
      PROVE  /\ \A r \in rows' : r.user \in Users
             /\ holder' \in Admins \cup {Nobody}
             /\ admin' \in [Admins -> {Idle} \cup At(lastId')]
             /\ operations' \in 0 .. use.operations
  <2>1. admin[a] \in At(lastId) /\ admin[a].at = "writing"
    BY <1>5 DEF Writes, AuthenticatorTypeOK, Idle
  <2>2. /\ lastId \in Nat /\ lastId' \in Nat /\ lastId <= lastId'
        /\ rows' \subseteq rows \cup {Row(id, admin[a].user) : id \in Nat}
    <3>1. CASE Statement(a)
      <4>1. lastId \in Nat /\ lastId' \in Nat /\ lastId <= lastId'
        BY <2>1, <3>1, StatementFits DEF Inv, AdminOK
      <4> QED BY <2>1, <3>1, <4>1 DEF Statement, Insert, Update, Delete
    <3>2. CASE UNCHANGED tableVars
      BY <3>2 DEF tableVars, Inv, AdminOK
    <3> QED BY <1>5, <3>1, <3>2 DEF Writes
  <2>3. \A r \in rows' : r.user \in Users
    BY <2>1, <2>2 DEF AuthenticatorTypeOK, Row
  <2>4. At(lastId) \subseteq At(lastId')
    BY <2>2
  <2>5. [admin[a] EXCEPT !.at = "checking"] \in At(lastId)
    BY <2>1
  <2>6. admin' \in [Admins -> {Idle} \cup At(lastId)]
    BY <1>5, <2>5 DEF Writes, Returns, AuthenticatorTypeOK
  <2>7. holder' \in Admins \cup {Nobody} /\ operations' = operations
    BY <1>5 DEF Writes, AuthenticatorTypeOK
  <2> QED BY <2>3, <2>4, <2>6, <2>7 DEF AuthenticatorTypeOK
<1>6. ASSUME NEW a \in Admins, Checks(a)
      PROVE  /\ \A r \in rows' : r.user \in Users
             /\ holder' \in Admins \cup {Nobody}
             /\ admin' \in [Admins -> {Idle} \cup At(lastId')]
             /\ operations' \in 0 .. use.operations
  BY <1>6 DEF Checks, Returns, tableVars, AuthenticatorTypeOK
<1>7. CASE \/ OwnerCalls \/ OwnerActs \/ WorkerActs \/ ClientAsks
           \/ \E s \in AllSides : GuardActs(s)
           \/ UNCHANGED vars
  BY <1>2, <1>7
     DEF vars, OwnerCalls, CallsTo, Allows, Pauses, OwnerActs, Opens, Looks, Told,
         Cuts, TellsGuards, Joins, JoinsGuards, Binds, Spawns, Rests, WorkerActs,
         WorkerBegins, WorkerReady, WorkerLeaves, WorkerObeys, WorkerFinishes,
         GuardActs, ClientAsks
<1>8. CASE AdminCalls
  BY <1>3, <1>8 DEF AdminCalls
<1>9. ASSUME NEW a \in Admins, AdminActs(a)
      PROVE  Queries(a) \/ Writes(a) \/ Checks(a)
  BY <1>9 DEF AdminActs, AdminStep
<1> HIDE DEF At
<1> QED BY <1>1, <1>4, <1>5, <1>6, <1>7, <1>8, <1>9 DEF Next

(* The service's part: a client that is asked about came from a queue.     *)
LEMMA ServiceTypesKept ==
  ASSUME ServiceTypeOK, [Next]_vars
  PROVE  ServiceTypeOK'
<1> USE DEF ServiceTypeOK
<1>1. CASE UNCHANGED <<serviceVars, clientVars>>
  BY <1>1 DEF serviceVars, clientVars
<1>2. ASSUME NEW s \in AllSides, NEW command \in {"ALLOW", "TERMINATE"}, Tells(s, command),
             UNCHANGED clientVars
      PROVE  ServiceTypeOK'
  <2>1. pipe' \in [AllSides -> Seq({"ALLOW", "TERMINATE"})]
    BY <1>2 DEF Tells
  <2> QED BY <1>2, <2>1 DEF Tells, clientVars
<1>4. Remembers => moments' \in [Clients -> SUBSET BOOLEAN]
  <2>1. \A k : Entitled(k)' \in BOOLEAN
    BY DEF Entitled
  <2> QED BY <2>1 DEF Remembers
<1>5. ASSUME NEW c \in Clients, NEW s \in AllSides, Asks(c, s), Remembers
      PROVE  ServiceTypeOK'
  <2>1. zap' \in [AllSides -> Seq(Clients)]
    BY <1>5 DEF Asks
  <2> QED BY <1>4, <1>5, <2>1 DEF Asks
<1>6. ASSUME NEW s \in AllSides, GuardBinds(s) \/ GuardReady(s)
      PROVE  ServiceTypeOK'
  BY <1>6 DEF GuardBinds, GuardReady, Goes, clientVars
<1>7. ASSUME NEW s \in AllSides, GuardPolls(s), Remembers
      PROVE  ServiceTypeOK'
  <2>1. pipe' \in [AllSides -> Seq({"ALLOW", "TERMINATE"})]
    BY <1>7 DEF GuardPolls
  <2>2. guarding' \in [AllSides -> BOOLEAN] /\ parting' \in [AllSides -> BOOLEAN]
    BY <1>7 DEF GuardPolls
  <2>3. /\ guard' \in [AllSides -> {"none", "begun", "bound", "polling", "answering", "left"}]
        /\ zap' \in [AllSides -> Seq(Clients)]
        /\ asked' \in [AllSides -> Clients \cup {NoClient}]
        /\ client' \in [Clients -> {"away", "asking", "admitted", "refused", "dropped"}]
    <3>1. CASE zap[s] # << >>
      <4>1. Head(zap[s]) \in Clients /\ Tail(zap[s]) \in Seq(Clients)
        BY <3>1
      <4> QED BY <1>7, <3>1, <4>1 DEF GuardPolls
    <3>2. CASE zap[s] = << >>
      <4>1. GuardLeaves(s) \/ UNCHANGED <<guard, zap, asked, client>>
        BY <1>7, <3>2 DEF GuardPolls
      <4>2. CASE GuardLeaves(s)
        <5>1. client' \in [Clients -> {"away", "asking", "admitted", "refused", "dropped"}]
          BY <4>2 DEF GuardLeaves
        <5>2. zap' \in [AllSides -> Seq(Clients)]
          BY <4>2 DEF GuardLeaves
        <5> QED BY <4>2, <5>1, <5>2 DEF GuardLeaves
      <4> QED BY <4>1, <4>2
    <3> QED BY <3>1, <3>2
  <2> QED BY <1>4, <1>7, <2>1, <2>2, <2>3
<1>8. ASSUME NEW s \in AllSides, GuardAnswers(s), Remembers
      PROVE  ServiceTypeOK'
  <2>1. PICK answer \in Answers(asked[s]) :
          LET answered == [client EXCEPT ![asked[s]] =
                             IF answer = OK THEN "admitted" ELSE "refused"]
          IN IF parting[s]
               THEN /\ guard' = [guard EXCEPT ![s] = "left"]
                    /\ zap' = [zap EXCEPT ![s] = << >>]
                    /\ client' = [c \in Clients |->
                                    IF c \in {zap[s][i] : i \in DOMAIN zap[s]}
                                      THEN "dropped" ELSE answered[c]]
               ELSE /\ guard' = [guard EXCEPT ![s] = "polling"]
                    /\ client' = answered
                    /\ UNCHANGED zap
    BY <1>8 DEF GuardAnswers
  <2>2. [client EXCEPT ![asked[s]] = IF answer = OK THEN "admitted" ELSE "refused"]
          \in [Clients -> {"away", "asking", "admitted", "refused", "dropped"}]
    OBVIOUS
  <2>3. client' \in [Clients -> {"away", "asking", "admitted", "refused", "dropped"}]
    BY <2>1, <2>2
  <2>4. guard' \in [AllSides -> {"none", "begun", "bound", "polling", "answering", "left"}]
    BY <2>1
  <2>5. zap' \in [AllSides -> Seq(Clients)]
    <3>1. zap' = [zap EXCEPT ![s] = << >>] \/ zap' = zap
      BY <2>1
    <3>2. << >> \in Seq(Clients)
      OBVIOUS
    <3> QED BY <3>1, <3>2
  <2>6. asked' \in [AllSides -> Clients \cup {NoClient}] /\ UNCHANGED <<guarding, pipe, parting>>
    BY <1>8 DEF GuardAnswers
  <2> QED BY <1>4, <1>8, <2>3, <2>4, <2>5, <2>6
<1>9. CASE OwnerCalls
  BY <1>1, <1>2, <1>9 DEF OwnerCalls, CallsTo, Allows, Pauses
<1>10. CASE TellsGuards
  <2>1. CASE side <= Len(Sides)
    <3>1. UNCHANGED <<guard, guarding, zap, asked, parting, clientVars>>
      BY <1>10, <2>1 DEF TellsGuards, Tells
    <3>2. pipe' = [pipe EXCEPT ![Sides[side]] =
                     IF guarding[Sides[side]] THEN Append(@, "TERMINATE") ELSE @]
      BY <1>10, <2>1 DEF TellsGuards, Tells
    <3>3. pipe' \in [AllSides -> Seq({"ALLOW", "TERMINATE"})]
      <4>1. \A q \in Seq({"ALLOW", "TERMINATE"}) :
              Append(q, "TERMINATE") \in Seq({"ALLOW", "TERMINATE"})
        OBVIOUS
      <4> QED BY <3>2, <4>1
    <3> QED BY <3>1, <3>3 DEF clientVars
  <2>2. CASE ~(side <= Len(Sides))
    BY <1>1, <1>10, <2>2 DEF TellsGuards
  <2> QED BY <2>1, <2>2
<1>11. CASE JoinsGuards \/ Spawns \/ Rests
  BY <1>11 DEF JoinsGuards, Spawns, Rests, BeginsGuards, clientVars
<1>12. CASE Opens \/ Looks \/ Told \/ Cuts \/ Joins \/ Binds
  BY <1>1, <1>12 DEF Opens, Looks, Told, Cuts, Joins, Binds
<1>13. CASE WorkerActs
  BY <1>1, <1>13 DEF WorkerActs, WorkerBegins, WorkerReady, WorkerLeaves, WorkerObeys,
                     WorkerFinishes
<1>14. CASE ClientAsks
  <2>1. PICK c \in Clients, s \in AllSides : Asks(c, s)
    BY <1>14 DEF ClientAsks
  <2> QED BY <1>5, <1>14, <2>1 DEF ClientAsks
<1>15. CASE \E s \in AllSides : GuardActs(s)
  BY <1>6, <1>7, <1>8, <1>15 DEF GuardActs, GuardStep
<1>16. CASE AdminCalls
  BY <1>1, <1>16 DEF AdminCalls
<1>17. ASSUME NEW a \in Admins, AdminActs(a)
       PROVE  ServiceTypeOK'
  BY <1>4, <1>17 DEF AdminActs, serviceVars
<1>18. CASE UNCHANGED vars
  BY <1>1, <1>18 DEF vars
<1> QED
  BY <1>9, <1>10, <1>11, <1>12, <1>13, <1>14, <1>15, <1>16, <1>17, <1>18 DEF Next, OwnerActs

LEMMA TypesInit == Init => OwnerTypeOK /\ AuthenticatorTypeOK /\ ServiceTypeOK
<1> SUFFICES ASSUME Init PROVE OwnerTypeOK /\ AuthenticatorTypeOK /\ ServiceTypeOK
  OBVIOUS
<1>1. use \in Uses /\ use.starts \in Nat /\ use.operations \in Nat /\ use.users \subseteq Users
  BY UsesAssumption DEF Init
<1>2. OwnerTypeOK
  <2>1. control \in Seq({"PAUSE", "RESUME", "TERMINATE"})
    BY DEF Init
  <2>2. side \in 1 .. 3 /\ starts \in 0 .. use.starts
    BY <1>1 DEF Init
  <2>3. {ready, initialized, running, pending, paused} \subseteq BOOLEAN
    BY DEF Init
  <2> QED BY <1>1, <2>1, <2>2, <2>3, Zenon DEF Init, OwnerTypeOK, CallOK
<1>3. AuthenticatorTypeOK
  <2>1. RowsOK
    BY TableInit DEF Inv
  <2> QED BY <1>1, <2>1 DEF Init, AuthenticatorInit, AuthenticatorTypeOK, RowsOK, Row
<1>4. ServiceTypeOK
  BY DEF Init, ServiceInit, ServiceTypeOK
<1> QED BY <1>2, <1>3, <1>4

(* Every variable keeps its type, for any uses of any kinds of service:    *)
(* the owner is at a step of some call, an administrator between its look- *)
(* up and its writing holds an identifier that was given, and the queues   *)
(* hold what the code puts there.                                          *)
THEOREM TypeInvariant == Spec => []TypeOK
<1>1. Init => Inv /\ OwnerTypeOK /\ AuthenticatorTypeOK /\ ServiceTypeOK
  BY TableInit, TypesInit
<1>2. Inv /\ [Next]_vars => Inv'
  BY StepKeeps
<1>3. Inv /\ Inv' /\ OwnerTypeOK /\ AuthenticatorTypeOK /\ ServiceTypeOK /\ [Next]_vars =>
        OwnerTypeOK' /\ AuthenticatorTypeOK' /\ ServiceTypeOK'
  BY OwnerTypesKept, AuthenticatorTypesKept, ServiceTypesKept
<1>4. OwnerTypeOK /\ AuthenticatorTypeOK /\ ServiceTypeOK => TypeOK
  BY DEF OwnerTypeOK, TypeOK
<1> QED BY <1>1, <1>2, <1>3, <1>4, PTL DEF Spec

-----------------------------------------------------------------------------
(* Clients.  A client waits at one side at most, once in its queue or with *)
(* its thread; and whoever waits has the present state of the table among  *)
(* its moments.                                                            *)

Elements(q) == {q[i] : i \in DOMAIN q}
Distinct(q) == \A i, j \in DOMAIN q : q[i] = q[j] => i = j

Waiting(s) ==
  Elements(zap[s]) \cup (IF guard[s] = "answering" THEN {asked[s]} ELSE {})

WaitingOK ==
  /\ \A s \in AllSides :
       /\ guard[s] = "answering" => asked[s] \in Clients /\ asked[s] \notin Elements(zap[s])
       /\ Distinct(zap[s])
       /\ \A c \in Waiting(s) : client[c] = "asking"
  /\ \A s, t \in AllSides : \A c \in Waiting(s) \cap Waiting(t) : s = t

MomentsOK == \A c \in Clients : client[c] = "asking" => Entitled(c.key) \in moments[c]

LEMMA AppendElements ==
  ASSUME NEW S, NEW q \in Seq(S), NEW x \in S
  PROVE  /\ Elements(Append(q, x)) = Elements(q) \cup {x}
         /\ Distinct(q) /\ x \notin Elements(q) => Distinct(Append(q, x))
<1>1. /\ DOMAIN Append(q, x) = DOMAIN q \cup {Len(q) + 1} /\ Len(q) + 1 \notin DOMAIN q
      /\ \A i \in DOMAIN q : Append(q, x)[i] = q[i]
      /\ Append(q, x)[Len(q) + 1] = x
  OBVIOUS
<1>2. Elements(Append(q, x)) = Elements(q) \cup {x}
  BY <1>1, Zenon DEF Elements
<1>3. Distinct(q) /\ x \notin Elements(q) => Distinct(Append(q, x))
  BY <1>1, Zenon DEF Elements, Distinct
<1> QED BY <1>2, <1>3

LEMMA TailElements ==
  ASSUME NEW S, NEW q \in Seq(S), q # << >>, Distinct(q)
  PROVE  /\ Elements(q) = {Head(q)} \cup Elements(Tail(q))
         /\ Head(q) \notin Elements(Tail(q)) /\ Distinct(Tail(q))
<1>1. /\ Len(q) \in Nat \ {0} /\ DOMAIN q = 1 .. Len(q) /\ DOMAIN Tail(q) = 1 .. Len(q) - 1
      /\ Head(q) = q[1] /\ \A i \in DOMAIN Tail(q) : Tail(q)[i] = q[i + 1]
  OBVIOUS
<1>2. \A i \in DOMAIN q : i = 1 \/ (i - 1 \in DOMAIN Tail(q) /\ q[i] = Tail(q)[i - 1])
  BY <1>1
<1>3. \A i \in DOMAIN Tail(q) : i + 1 \in DOMAIN q /\ i + 1 # 1 /\ 1 \in DOMAIN q
  BY <1>1
<1>4. Elements(q) = {Head(q)} \cup Elements(Tail(q))
  <2>1. Elements(q) \subseteq {Head(q)} \cup Elements(Tail(q))
    BY <1>1, <1>2 DEF Elements
  <2>2. {Head(q)} \cup Elements(Tail(q)) \subseteq Elements(q)
    BY <1>1, <1>3 DEF Elements
  <2> QED BY <2>1, <2>2
<1>5. Head(q) \notin Elements(Tail(q))
  BY <1>1, <1>3 DEF Elements, Distinct
<1>6. Distinct(Tail(q))
  BY <1>1, <1>3 DEF Distinct
<1> QED BY <1>4, <1>5, <1>6

(* When fewer wait, and who still does is asking as before.                *)
LEMMA FewerWait ==
  ASSUME WaitingOK,
         \A s \in AllSides :
           /\ guard'[s] = "answering" => asked'[s] \in Clients /\ asked'[s] \notin Elements(zap'[s])
           /\ Distinct(zap'[s])
           /\ Waiting(s)' \subseteq Waiting(s)
           /\ \A c \in Waiting(s)' : client'[c] = client[c]
  PROVE  WaitingOK'
BY DEF WaitingOK

(* A step in which nobody moves, though a thread may start or end.         *)
LEMMA NobodyMoves ==
  ASSUME WaitingOK, UNCHANGED <<zap, asked, client>>,
         \A s \in AllSides : guard'[s] = "answering" => guard[s] = "answering"
  PROVE  WaitingOK'
<1>1. \A s \in AllSides : Waiting(s)' \subseteq Waiting(s)
  BY DEF Waiting
<1> QED BY <1>1, FewerWait DEF WaitingOK

LEMMA AsksKeeps ==
  ASSUME WaitingOK, ServiceTypeOK, NEW c \in Clients, NEW s \in AllSides, Asks(c, s)
  PROVE  WaitingOK'
<1>1. /\ zap' = [zap EXCEPT ![s] = Append(zap[s], c)] /\ zap[s] \in Seq(Clients)
      /\ client' = [client EXCEPT ![c] = "asking"] /\ client[c] = "away"
      /\ UNCHANGED <<guard, asked>>
  BY DEF Asks, ServiceTypeOK
<1>2. \A t \in AllSides : c \notin Waiting(t)
  BY <1>1 DEF WaitingOK
<1>3. c \notin Elements(zap[s])
  BY <1>2 DEF Waiting
<1>4. Elements(zap'[s]) = Elements(zap[s]) \cup {c} /\ Distinct(zap'[s])
  BY <1>1, <1>3, AppendElements DEF WaitingOK, ServiceTypeOK
<1>5. \A t \in AllSides \ {s} : zap'[t] = zap[t] /\ Waiting(t)' = Waiting(t)
  BY <1>1 DEF Waiting, ServiceTypeOK
<1>6. Waiting(s)' = Waiting(s) \cup {c}
  BY <1>1, <1>4 DEF Waiting
<1>7. \A t \in AllSides :
        /\ guard'[t] = "answering" => asked'[t] \in Clients /\ asked'[t] \notin Elements(zap'[t])
        /\ Distinct(zap'[t])
  BY <1>1, <1>2, <1>4, <1>5 DEF WaitingOK, Waiting
<1>8. \A d : client[d] = "asking" => client'[d] = "asking"
  BY <1>1 DEF ServiceTypeOK
<1>9. \A t \in AllSides : \A d \in Waiting(t)' : client'[d] = "asking"
  <2>1. client'[c] = "asking"
    BY <1>1 DEF ServiceTypeOK
  <2>2. \A t \in AllSides : \A d \in Waiting(t)' : d = c \/ client[d] = "asking"
    BY <1>5, <1>6 DEF WaitingOK
  <2> QED BY <1>8, <2>1, <2>2
<1>10. \A t, u \in AllSides : \A d \in Waiting(t)' \cap Waiting(u)' : t = u
  BY <1>2, <1>5, <1>6 DEF WaitingOK
<1> QED BY <1>7, <1>9, <1>10 DEF WaitingOK

LEMMA PollsKeeps ==
  ASSUME WaitingOK, ServiceTypeOK, NEW s \in AllSides, GuardPolls(s)
  PROVE  /\ WaitingOK'
         /\ \A c \in Clients : client'[c] = client[c] \/ client'[c] = "dropped"
<1>1. guard[s] = "polling" /\ Waiting(s) = Elements(zap[s]) /\ zap[s] \in Seq(Clients)
  BY DEF GuardPolls, Waiting, ServiceTypeOK
<1>2. CASE zap[s] # << >>
  <2>1. /\ guard' = [guard EXCEPT ![s] = "answering"]
        /\ asked' = [asked EXCEPT ![s] = Head(zap[s])]
        /\ zap' = [zap EXCEPT ![s] = Tail(zap[s])]
        /\ client' = client
    BY <1>2 DEF GuardPolls
  <2>2. /\ Elements(zap[s]) = {Head(zap[s])} \cup Elements(Tail(zap[s]))
        /\ Head(zap[s]) \notin Elements(Tail(zap[s])) /\ Distinct(Tail(zap[s]))
    BY <1>1, <1>2, TailElements DEF WaitingOK
  <2>3. /\ guard'[s] = "answering" /\ asked'[s] = Head(zap[s]) /\ zap'[s] = Tail(zap[s])
        /\ Head(zap[s]) \in Clients
    BY <1>1, <1>2, <2>1 DEF ServiceTypeOK
  <2>4. Waiting(s)' = Waiting(s)
    BY <1>1, <2>2, <2>3 DEF Waiting
  <2>5. \A t \in AllSides \ {s} :
          zap'[t] = zap[t] /\ guard'[t] = guard[t] /\ asked'[t] = asked[t] /\ Waiting(t)' = Waiting(t)
    BY <2>1 DEF Waiting, ServiceTypeOK
  <2>6. \A t \in AllSides :
          /\ guard'[t] = "answering" => asked'[t] \in Clients /\ asked'[t] \notin Elements(zap'[t])
          /\ Distinct(zap'[t])
    BY <2>2, <2>3, <2>5 DEF WaitingOK
  <2> QED BY <2>1, <2>4, <2>5, <2>6, FewerWait
<1>3. CASE zap[s] = << >> /\ GuardLeaves(s)
  <2>1. Elements(zap[s]) = {} /\ client' = client
    BY <1>3 DEF Elements, GuardLeaves, ServiceTypeOK
  <2>2. zap' = zap /\ asked' = asked /\ guard' = [guard EXCEPT ![s] = "left"]
    BY <1>3 DEF GuardLeaves, ServiceTypeOK
  <2> QED BY <2>1, <2>2, NobodyMoves DEF ServiceTypeOK
<1>4. CASE UNCHANGED <<guard, zap, asked, client>>
  BY <1>4, NobodyMoves
<1> QED BY <1>2, <1>3, <1>4 DEF GuardPolls

(* The answer: the client was asking, and the others that lose their place *)
(* were in the queue of the same thread.                                   *)
LEMMA AnswersKeeps ==
  ASSUME WaitingOK, ServiceTypeOK, NEW s \in AllSides, GuardAnswers(s)
  PROVE  /\ WaitingOK'
         /\ asked[s] \in Clients /\ client[asked[s]] = "asking"
         /\ \E answer \in Answers(asked[s]) :
              /\ client'[asked[s]] = (IF answer = OK THEN "admitted" ELSE "refused")
              /\ \A c \in Clients \ {asked[s]} : client'[c] = client[c] \/ client'[c] = "dropped"
<1>1. /\ guard[s] = "answering" /\ asked[s] \in Clients /\ asked[s] \notin Elements(zap[s])
      /\ Waiting(s) = Elements(zap[s]) \cup {asked[s]} /\ client[asked[s]] = "asking"
  BY DEF GuardAnswers, WaitingOK, Waiting
<1>2. PICK answer \in Answers(asked[s]) :
        LET answered == [client EXCEPT ![asked[s]] =
                           IF answer = OK THEN "admitted" ELSE "refused"]
        IN IF parting[s]
             THEN /\ guard' = [guard EXCEPT ![s] = "left"]
                  /\ zap' = [zap EXCEPT ![s] = << >>]
                  /\ client' = [c \in Clients |->
                                  IF c \in {zap[s][i] : i \in DOMAIN zap[s]}
                                    THEN "dropped" ELSE answered[c]]
             ELSE /\ guard' = [guard EXCEPT ![s] = "polling"]
                  /\ client' = answered
                  /\ UNCHANGED zap
  BY DEF GuardAnswers
<1> DEFINE result == IF answer = OK THEN "admitted" ELSE "refused"
<1>3. asked' = [asked EXCEPT ![s] = NoClient]
  BY DEF GuardAnswers
<1>4. \A t \in AllSides \ {s} :
        zap'[t] = zap[t] /\ guard'[t] = guard[t] /\ asked'[t] = asked[t] /\ Waiting(t)' = Waiting(t)
  <2>1. /\ zap' = [zap EXCEPT ![s] = << >>] \/ zap' = zap
        /\ guard' = [guard EXCEPT ![s] = "left"] \/ guard' = [guard EXCEPT ![s] = "polling"]
    BY <1>2
  <2> QED BY <1>3, <2>1 DEF Waiting, ServiceTypeOK
<1>5. guard'[s] # "answering"
  BY <1>2 DEF ServiceTypeOK
<1>6. Waiting(s)' = Elements(zap'[s])
  BY <1>5 DEF Waiting
<1>7. \A t \in AllSides \ {s} : Waiting(t) \cap Waiting(s) = {}
  BY DEF WaitingOK
<1>8. CASE parting[s]
  <2>1. /\ zap' = [zap EXCEPT ![s] = << >>]
        /\ client' = [c \in Clients |->
                        IF c \in Elements(zap[s]) THEN "dropped"
                        ELSE [client EXCEPT ![asked[s]] = result][c]]
    BY <1>2, <1>8 DEF Elements
  <2>2. zap'[s] = << >> /\ Waiting(s)' = {} /\ Distinct(zap'[s])
    BY <1>6, <2>1 DEF ServiceTypeOK, Elements, Distinct
  <2>3. /\ \A c \in Clients \ Waiting(s) : client'[c] = client[c]
        /\ client'[asked[s]] = result
        /\ \A c \in Clients \ {asked[s]} : client'[c] = client[c] \/ client'[c] = "dropped"
    BY <1>1, <2>1 DEF ServiceTypeOK
  <2>4. \A t \in AllSides : Waiting(t) \subseteq Clients
    BY DEF Waiting, WaitingOK, ServiceTypeOK, Elements
  <2>5. \A t \in AllSides :
          /\ guard'[t] = "answering" => asked'[t] \in Clients /\ asked'[t] \notin Elements(zap'[t])
          /\ Distinct(zap'[t])
          /\ Waiting(t)' \subseteq Waiting(t)
          /\ \A c \in Waiting(t)' : client'[c] = client[c]
    BY <1>4, <1>5, <1>7, <2>2, <2>3, <2>4 DEF WaitingOK
  <2> QED BY <1>1, <2>3, <2>5, FewerWait
<1>9. CASE ~parting[s]
  <2>1. zap' = zap /\ client' = [client EXCEPT ![asked[s]] = result]
    BY <1>2, <1>9
  <2>2. /\ \A c \in Clients \ {asked[s]} : client'[c] = client[c]
        /\ client'[asked[s]] = result
    BY <1>1, <2>1 DEF ServiceTypeOK
  <2>3. \A t \in AllSides : Waiting(t) \subseteq Clients
    BY DEF Waiting, WaitingOK, ServiceTypeOK, Elements
  <2>4. Waiting(s)' = Waiting(s) \ {asked[s]}
    BY <1>1, <1>6, <2>1
  <2>5. \A t \in AllSides :
          /\ guard'[t] = "answering" => asked'[t] \in Clients /\ asked'[t] \notin Elements(zap'[t])
          /\ Distinct(zap'[t])
          /\ Waiting(t)' \subseteq Waiting(t)
          /\ \A c \in Waiting(t)' : client'[c] = client[c]
    BY <1>1, <1>4, <1>5, <1>7, <2>1, <2>2, <2>3, <2>4 DEF WaitingOK
  <2> QED BY <1>1, <2>2, <2>5, FewerWait
<1> QED BY <1>8, <1>9

(* What a step does to the clients, to the table and to their moments.     *)
LEMMA ClientSteps ==
  ASSUME WaitingOK, ServiceTypeOK, [Next]_vars
  PROVE  /\ WaitingOK'
         /\ use' = use
         /\ UNCHANGED <<rows, client, moments>> \/ Remembers
         /\ \/ \A c \in Clients :
                 client'[c] = client[c] \/ client'[c] \in {"asking", "dropped"}
            \/ \E s \in AllSides :
                 /\ asked[s] \in Clients /\ client[asked[s]] = "asking"
                 /\ \E answer \in Answers(asked[s]) :
                      client'[asked[s]] = (IF answer = OK THEN "admitted" ELSE "refused")
                 /\ \A c \in Clients \ {asked[s]} :
                      client'[c] = client[c] \/ client'[c] = "dropped"
<1> DEFINE Moves ==
      \/ \A c \in Clients : client'[c] = client[c] \/ client'[c] \in {"asking", "dropped"}
      \/ \E s \in AllSides :
           /\ asked[s] \in Clients /\ client[asked[s]] = "asking"
           /\ \E answer \in Answers(asked[s]) :
                client'[asked[s]] = (IF answer = OK THEN "admitted" ELSE "refused")
           /\ \A c \in Clients \ {asked[s]} :
                client'[c] = client[c] \/ client'[c] = "dropped"
<1> SUFFICES /\ WaitingOK' /\ use' = use /\ Moves
             /\ UNCHANGED <<rows, client, moments>> \/ Remembers
  OBVIOUS
<1>1. ASSUME UNCHANGED <<use, zap, asked, client>>,
             UNCHANGED <<rows, moments>> \/ Remembers,
             \A s \in AllSides : guard'[s] = "answering" => guard[s] = "answering"
      PROVE  /\ WaitingOK' /\ use' = use /\ Moves
             /\ UNCHANGED <<rows, client, moments>> \/ Remembers
  BY <1>1, NobodyMoves
<1>2. CASE OwnerCalls
  BY <1>1, <1>2 DEF OwnerCalls, CallsTo, Allows, Pauses, Tells, serviceVars, clientVars,
                    authenticatorVars
<1>3. CASE Opens \/ Looks \/ Told \/ Cuts \/ Joins \/ Binds
  BY <1>1, <1>3 DEF Opens, Looks, Told, Cuts, Joins, Binds, serviceVars, clientVars,
                    authenticatorVars
<1>4. CASE TellsGuards
  BY <1>1, <1>4 DEF TellsGuards, Tells, serviceVars, clientVars, authenticatorVars
<1>5. CASE JoinsGuards \/ Spawns \/ Rests
  <2>1. \A s \in AllSides : guard'[s] = "answering" => guard[s] = "answering"
    BY <1>5 DEF JoinsGuards, Spawns, Rests, BeginsGuards
  <2>2. UNCHANGED <<use, zap, asked, client, rows, moments>>
    BY <1>5 DEF JoinsGuards, Spawns, Rests, clientVars, authenticatorVars
  <2> QED BY <1>1, <2>1, <2>2
<1>6. CASE WorkerActs
  BY <1>1, <1>6 DEF WorkerActs, WorkerBegins, WorkerReady, WorkerLeaves, WorkerObeys,
                    WorkerFinishes, serviceVars, clientVars, authenticatorVars
<1>7. CASE AdminCalls
  BY <1>1, <1>7 DEF AdminCalls, Calling, tableVars, serviceVars, clientVars
<1>8. CASE \E a \in Admins : AdminActs(a)
  BY <1>1, <1>8 DEF AdminActs, serviceVars
<1>9. CASE UNCHANGED vars
  BY <1>1, <1>9 DEF vars, serviceVars, clientVars, authenticatorVars
<1>10. CASE ClientAsks
  <2>1. PICK c \in Clients, s \in AllSides : Asks(c, s)
    BY <1>10 DEF ClientAsks
  <2>2. Moves
    BY <2>1 DEF Asks, ServiceTypeOK
  <2> QED BY <1>10, <2>1, <2>2, AsksKeeps DEF ClientAsks
<1>11. ASSUME NEW s \in AllSides, GuardActs(s)
       PROVE  /\ WaitingOK' /\ use' = use /\ Moves
              /\ UNCHANGED <<rows, client, moments>> \/ Remembers
  <2>1. use' = use /\ rows' = rows
    BY <1>11 DEF GuardActs, authenticatorVars
  <2>2. CASE GuardBinds(s) \/ GuardReady(s)
    <3>1. UNCHANGED <<zap, asked, client, moments>>
      BY <2>2 DEF GuardBinds, GuardReady, clientVars
    <3>2. \A t \in AllSides : guard'[t] = "answering" => guard[t] = "answering"
      BY <2>2 DEF GuardBinds, GuardReady, Goes, ServiceTypeOK
    <3> QED BY <1>1, <2>1, <3>1, <3>2
  <2>3. CASE GuardPolls(s) /\ Remembers
    BY <2>1, <2>3, PollsKeeps
  <2>4. CASE GuardAnswers(s) /\ Remembers
    BY <2>1, <2>4, AnswersKeeps
  <2> QED BY <1>11, <2>2, <2>3, <2>4 DEF GuardActs, GuardStep
<1> HIDE DEF Moves
<1> QED
  BY <1>2, <1>3, <1>4, <1>5, <1>6, <1>7, <1>8, <1>9, <1>10, <1>11 DEF Next, OwnerActs

(* The answer of a table with keys is 200 when the client is entitled at   *)
(* that moment, unless somebody else's process has the file locked.        *)
LEMMA KeyAnswersFit ==
  ASSUME NEW key, NEW answer \in KeyAnswers(key)
  PROVE  /\ answer = OK => Entitled(key)
         /\ answer # OK => ~Entitled(key) \/ \E a \in Admins : ~Shares(a)
<1>1. PICK found \in Queried("program", Keyed(key)) :
        answer = IF \E r \in found : Suffices(r.user) THEN OK ELSE ClientError
  BY DEF KeyAnswers
<1>2. found = Keyed(key) \/ (found = {} /\ Locked("program"))
  BY DEF Queried
<1>3. Locked("program") => \E a \in Admins : ~Shares(a)
  BY DEF Locked, Process
<1>4. OK # ClientError
  BY DEF OK, ClientError
<1> QED BY <1>1, <1>2, <1>3, <1>4 DEF Entitled

MayWait == WaitingOK /\ MomentsOK /\ HandshakeFits

LEMMA HandshakeKept ==
  ASSUME MayWait, ServiceTypeOK, [Next]_vars
  PROVE  MayWait'
<1>1. WaitingOK' /\ use' = use
  BY ClientSteps DEF MayWait
<1>2. CASE UNCHANGED <<rows, client, moments>>
  <2>1. MomentsOK'
    BY <1>2 DEF MayWait, MomentsOK, Entitled, Keyed
  <2>2. HandshakeFits'
    BY <1>1, <1>2 DEF MayWait, HandshakeFits, Shares
  <2> QED BY <1>1, <2>1, <2>2 DEF MayWait
<1>3. CASE Remembers
  <2>1. \A c \in Clients : moments[c] \subseteq moments'[c]
    BY <1>3 DEF Remembers
  <2>2. MomentsOK'
    BY <1>3 DEF Remembers, MomentsOK
  <2>3. ASSUME use.level = "Stonehouse", use.table # "none", NEW c \in Clients
        PROVE  /\ client'[c] = "admitted" => TRUE \in moments'[c]
               /\ client'[c] = "refused" =>
                    FALSE \in moments'[c] \/ \E a \in Admins : ~Shares(a)
    <3>1. CASE client'[c] = client[c] \/ client'[c] \in {"asking", "dropped"}
      BY <2>1, <2>3, <3>1 DEF MayWait, HandshakeFits
    <3>2. ASSUME NEW s \in AllSides, c = asked[s], client[c] = "asking",
                 NEW answer \in Answers(c),
                 client'[c] = (IF answer = OK THEN "admitted" ELSE "refused")
          PROVE  /\ client'[c] = "admitted" => TRUE \in moments'[c]
                 /\ client'[c] = "refused" =>
                      FALSE \in moments'[c] \/ \E a \in Admins : ~Shares(a)
      <4>1. answer \in KeyAnswers(c.key)
        BY <2>3, <3>2 DEF Answers
      <4>2. Entitled(c.key) \in moments'[c]
        BY <2>1, <3>2 DEF MayWait, MomentsOK
      <4>3. Entitled(c.key) \in BOOLEAN
        BY DEF Entitled
      <4>4. /\ answer = OK => Entitled(c.key)
            /\ answer # OK => ~Entitled(c.key) \/ \E a \in Admins : ~Shares(a)
        BY <4>1, KeyAnswersFit
      <4>5. CASE answer = OK
        <5>1. TRUE \in moments'[c]
          BY <4>2, <4>3, <4>4, <4>5
        <5> QED BY <3>2, <4>5, <5>1
      <4>6. CASE answer # OK
        <5>1. FALSE \in moments'[c] \/ \E a \in Admins : ~Shares(a)
          BY <4>2, <4>3, <4>4, <4>6
        <5> QED BY <3>2, <4>6, <5>1
      <4> QED BY <4>5, <4>6
    <3> QED BY <3>1, <3>2, ClientSteps DEF MayWait
  <2>4. HandshakeFits'
    BY <1>1, <2>3 DEF HandshakeFits, Shares
  <2> QED BY <1>1, <2>2, <2>4 DEF MayWait
<1>4. UNCHANGED <<rows, client, moments>> \/ Remembers
  BY ClientSteps DEF MayWait
<1> QED BY <1>2, <1>3, <1>4

LEMMA HandshakeInit == Init => MayWait
<1> SUFFICES ASSUME Init PROVE MayWait
  OBVIOUS
<1> USE DEF Init, ServiceInit
<1>1. \A s \in AllSides : Waiting(s) = {} /\ Distinct(zap[s])
  BY DEF Waiting, Elements, Distinct
<1>2. WaitingOK
  BY <1>1 DEF WaitingOK
<1>3. MomentsOK /\ HandshakeFits
  BY DEF MomentsOK, HandshakeFits
<1> QED BY <1>2, <1>3 DEF MayWait

(* With keys, who is let in was entitled at some moment of the waiting,    *)
(* and who is sent away was not at some moment (or another process held    *)
(* the file), for any clients, users, sides and administrators: the thread *)
(* of GuardAnswers asks about a client that still waits, and about nobody  *)
(* else's.                                                                 *)
THEOREM HandshakeFitsInvariant == Spec => []HandshakeFits
<1>1. Init => MayWait /\ ServiceTypeOK
  BY HandshakeInit, TypesInit
<1>2. ServiceTypeOK /\ [Next]_vars => ServiceTypeOK'
  BY ServiceTypesKept
<1>3. MayWait /\ ServiceTypeOK /\ [Next]_vars => MayWait'
  BY HandshakeKept
<1>4. MayWait => HandshakeFits
  BY DEF MayWait
<1> QED BY <1>1, <1>2, <1>3, <1>4, PTL DEF Spec

-----------------------------------------------------------------------------
(* Causes.  WorkerOK says where the worker can be for each place of its    *)
(* owner: a thread that runs has its flag set, a place that makes threads  *)
(* has none yet, and a thread that has not begun its work will find its    *)
(* object initialized, unless the owner is to blame.  StoppedOK says what  *)
(* stop() has reached once it goes on to the joins: a thread without its   *)
(* flag, or with TERMINATE to read.                                        *)

Stopping == {"cutting", "guards", "joining"}

WorkerOK ==
  /\ running => worker \in {"working", "resting", "steered"}
  /\ owner = "telling" /\ use.kind # "raw" => ~Unborn
  /\ owner = "cutting" => ~Unborn
  /\ worker = "begun" => initialized \/ blame \cap {"restart", "early"} # {}
  /\ owner = "resting" /\ use.kind # "directory" =>
       worker = "none" /\ (initialized \/ "restart" \in blame)
  /\ owner \in {"opening", "binding", "spawning", "joiningGuards"} => worker = "none"
  /\ worker \in {"working", "resting"} => running \/ owner \in Stopping \cup {"aborted"}
  /\ ~pending => control = << >>
  /\ owner = "aborted" =>
       paused \/ blame \cap {"restart", "early", "crossed", "readded"} # {}
  /\ owner = "hung" => "creation" \in blame

StoppedOK ==
  owner \in Stopping /\ "early" \notin blame =>
    /\ ~Unborn
    /\ ~Steerable => ~running
    /\ Steerable /\ "deaf" \notin blame /\ worker \in {"working", "resting"} =>
         control = <<"TERMINATE">>

LEMMA WorkerKept ==
  ASSUME OwnerTypeOK, WorkerOK, StoppedOK, [Next]_vars
  PROVE  WorkerOK' /\ StoppedOK'
<1> USE DEF WorkerOK, StoppedOK, Unborn, Steerable, Stopping
<1>0. use' = use /\ use.kind \in ServiceKinds
  BY UseKept, UsesAssumption DEF OwnerTypeOK
<1>1. CASE UNCHANGED <<owner, blame, workerVars>>
  BY <1>0, <1>1 DEF workerVars
<1>2. ASSUME NEW c \in {"initialize", "start", "stop", "leave"}, CallsTo(c)
      PROVE  WorkerOK' /\ StoppedOK'
  <2>1. UNCHANGED <<blame, worker, initialized, running, control, pending, paused>>
    BY <1>2 DEF CallsTo, workerVars
  <2>2. CASE use.kind # "raw"
    <3>1. owner = "idle" /\ owner' = "looking"
      BY <1>2, <2>2 DEF CallsTo
    <3> QED BY <1>0, <2>1, <3>1
  <2>3. CASE use.kind = "raw" /\ c \in {"initialize", "start"}
    <3>1. owner' \in {"binding", "spawning"} /\ worker = "none"
      BY <1>2, <2>3 DEF CallsTo
    <3> QED BY <1>0, <2>1, <3>1
  <2>4. CASE use.kind = "raw" /\ c \notin {"initialize", "start"}
    <3>1. owner = "idle" /\ owner' = "telling"
      BY <1>2, <2>4 DEF CallsTo
    <3> QED BY <1>0, <2>1, <2>4, <3>1
  <2> QED BY <2>2, <2>3, <2>4
<1>3. CASE Pauses
  BY <1>0, <1>3 DEF Pauses, Commands, ownerVars
<1>4. CASE Opens
  BY <1>0, <1>4 DEF Opens, OwnerGoes, Blames, workerVars
<1>5. CASE Looks
  BY <1>0, <1>5 DEF Looks, OwnerGoes, Blames, workerVars
<1>6. CASE Told
  <2>1. CASE ~Steerable
    BY <1>0, <1>6, <2>1 DEF Told, ServiceKinds
  <2>2. CASE Steerable /\ running
    <3>1. control' = IF pending THEN control ELSE <<"TERMINATE">>
      <4>1. Append(<< >>, "TERMINATE") = <<"TERMINATE">>
        OBVIOUS
      <4>2. control' = IF pending THEN control ELSE Append(control, "TERMINATE")
        BY <1>6, <2>2 DEF Told, Commands
      <4> QED BY <4>1, <4>2
    <3>2. /\ owner' = "cutting" /\ pending' = TRUE /\ Blames("deaf", pending)
          /\ UNCHANGED <<running, initialized, worker, paused>>
      BY <1>6, <2>2 DEF Told, Commands
    <3> QED BY <1>0, <2>2, <3>1, <3>2 DEF Blames
  <2>3. CASE Steerable /\ ~running
    BY <1>0, <1>6, <2>3 DEF Told, Blames
  <2> QED BY <2>1, <2>2, <2>3
<1>7. CASE Cuts
  BY <1>0, <1>7 DEF Cuts, OwnerGoes, Blames
<1>8. CASE TellsGuards
  BY <1>0, <1>8 DEF TellsGuards, Blames, workerVars
<1>9. CASE Joins
  BY <1>0, <1>9 DEF Joins, OwnerGoes
<1>10. CASE JoinsGuards
  BY <1>0, <1>10 DEF JoinsGuards, OwnerGoes, OwnerTypeOK, CallOK, workerVars
<1>11. CASE Binds
  BY <1>0, <1>11 DEF Binds, OwnerGoes
<1>12. CASE Spawns
  BY <1>0, <1>12 DEF Spawns, OwnerGoes, Blames
<1>13. CASE Rests
  BY <1>0, <1>13 DEF Rests, OwnerGoes
<1>14. CASE WorkerBegins
  BY <1>0, <1>14 DEF WorkerBegins, Aborts
<1>15. CASE WorkerReady
  BY <1>0, <1>15 DEF WorkerReady, WorkerGoes, ownerVars
<1>16. CASE WorkerLeaves \/ WorkerFinishes
  BY <1>0, <1>16 DEF WorkerLeaves, WorkerFinishes, WorkerGoes, ownerVars
<1>17. CASE WorkerObeys
  BY <1>0, <1>17 DEF WorkerObeys, ownerVars
<1>18. ASSUME NEW a \in Admins, AdminActs(a)
       PROVE  WorkerOK' /\ StoppedOK'
  <2>1. UNCHANGED workerVars
    BY <1>18 DEF AdminActs
  <2>2. CASE UNCHANGED <<owner, blame>>
    BY <1>1, <2>1, <2>2
  <2>3. CASE owner' = "aborted" /\ Blames("readded", TRUE)
    BY <1>0, <2>1, <2>3 DEF Blames, workerVars
  <2> QED BY <1>18, <2>2, <2>3 DEF AdminActs, AdminStep
<1>19. CASE Allows \/ AdminCalls \/ ClientAsks \/ \E s \in AllSides : GuardActs(s)
  BY <1>1, <1>19 DEF Allows, AdminCalls, ClientAsks, GuardActs, ownerVars
<1>20. CASE UNCHANGED vars
  BY <1>1, <1>20 DEF vars, ownerVars
<1> QED
  BY <1>2, <1>3, <1>4, <1>5, <1>6, <1>7, <1>8, <1>9, <1>10, <1>11, <1>12, <1>13, <1>14,
     <1>15, <1>16, <1>17, <1>18, <1>19, <1>20 DEF Next, OwnerCalls, OwnerActs, WorkerActs

(* SidesOK says when a guard has its flag set: before it has read          *)
(* TERMINATE.  DismissedOK says what stop() has reached for the guards it  *)
(* has told, unless one of them was not ready: each has TERMINATE to read  *)
(* or has read it.                                                         *)

SidesOK ==
  /\ \A s \in AllSides :
       /\ guarding[s] <=> guard[s] = "polling" \/ (guard[s] = "answering" /\ ~parting[s])
       /\ (\A i \in DOMAIN Sides : s # Sides[i]) => guard[s] = "none"
  /\ owner = "spawning" => \A s \in AllSides : guard[s] = "none"
  /\ owner = "resting" /\ use.kind = "directory" => \A s \in AllSides : guard[s] = "none"
  /\ owner \notin {"guards", "aborted"} => side = 1

Dismissed(s) ==
  /\ guard[s] \notin {"begun", "bound"}
  /\ guarding[s] => \E k \in DOMAIN pipe[s] : pipe[s][k] = "TERMINATE"

DismissedOK ==
  "early" \notin blame =>
    /\ owner = "guards" => \A i \in DOMAIN Sides : i < side => Dismissed(Sides[i])
    /\ owner \in {"joining", "joiningGuards"} => \A s \in AllSides : Dismissed(s)

LEMMA SidesFunction ==
  ASSUME OwnerTypeOK
  PROVE  \A i \in DOMAIN Sides : Sides[i] \in AllSides
BY SidesFact, UsesAssumption DEF OwnerTypeOK

(* The guards are left alone and the owner, if it moves, goes where        *)
(* nothing is promised, or says less.                                      *)
LEMMA GuardsAlone ==
  ASSUME SidesOK, DismissedOK, UNCHANGED <<use, guard, guarding, parting, pipe>>,
         blame \subseteq blame',
         \/ UNCHANGED <<owner, side>>
         \/ owner' \notin {"spawning", "resting", "guards", "joining", "joiningGuards"}
              /\ (side' = 1 \/ owner' = "aborted")
         \/ owner' = "guards" /\ side' = 1
         \/ owner' = "joiningGuards" /\ owner = "joining" /\ side' = side
         \/ owner' \in {"spawning", "resting"} /\ side' = 1 /\ \A s \in AllSides : guard[s] = "none"
  PROVE  SidesOK' /\ DismissedOK'
<1>1. Sides' = Sides /\ \A s : Dismissed(s)' = Dismissed(s)
  BY DEF Sides, Dismissed
<1>2. \A i \in DOMAIN Sides : i \in Nat \ {0}
  BY DEF Sides
<1>3. SidesOK'
  BY <1>1 DEF SidesOK
<1>4. DismissedOK'
  BY <1>1, <1>2 DEF DismissedOK
<1> QED BY <1>3, <1>4

LEMMA GuardStepKeeps ==
  ASSUME OwnerTypeOK, ServiceTypeOK, SidesOK, DismissedOK, NEW s \in AllSides, GuardActs(s)
  PROVE  SidesOK' /\ DismissedOK'
<1>1. UNCHANGED <<use, owner, side, blame>> /\ Sides' = Sides
  BY DEF GuardActs, ownerVars, Sides
<1>2. CASE GuardBinds(s)
  BY <1>1, <1>2, SidesFunction
     DEF GuardBinds, Goes, SidesOK, Dismissed, DismissedOK, ServiceTypeOK
<1>3. CASE GuardReady(s)
  BY <1>1, <1>3, SidesFunction
     DEF GuardReady, Goes, SidesOK, Dismissed, DismissedOK, ServiceTypeOK
<1>4. CASE GuardAnswers(s)
  <2>1. /\ guard[s] = "answering"
        /\ guard' = [guard EXCEPT ![s] = IF parting[s] THEN "left" ELSE "polling"]
        /\ UNCHANGED <<guarding, pipe, parting>>
    BY <1>4 DEF GuardAnswers
  <2>2. SidesOK'
    BY <1>1, <2>1 DEF SidesOK, ServiceTypeOK
  <2>3. \A t \in AllSides : Dismissed(t) => Dismissed(t)'
    BY <2>1 DEF Dismissed, ServiceTypeOK
  <2>4. DismissedOK'
    BY <1>1, <2>3, SidesFunction DEF DismissedOK
  <2> QED BY <2>2, <2>4
<1>5. CASE GuardPolls(s)
  <2> DEFINE ends == pipe[s] # << >> /\ Head(pipe[s]) = "TERMINATE"
  <2>1. /\ guard[s] = "polling"
        /\ pipe' = [pipe EXCEPT ![s] = IF pipe[s] = << >> THEN pipe[s] ELSE Tail(pipe[s])]
        /\ guarding' = [guarding EXCEPT ![s] = guarding[s] /\ ~ends]
        /\ parting' = [parting EXCEPT ![s] = ends]
    BY <1>5 DEF GuardPolls
  <2>2. \/ guard' = [guard EXCEPT ![s] = "answering"]
        \/ guard' = [guard EXCEPT ![s] = "left"] /\ ends
        \/ guard' = guard /\ ~ends
    BY <1>5 DEF GuardPolls, GuardLeaves
  <2>3. \A t \in AllSides \ {s} :
          UNCHANGED <<guard[t], guarding[t], pipe[t], parting[t]>>
    BY <2>1, <2>2 DEF ServiceTypeOK
  <2>4. /\ guarding[s] /\ guarding'[s] = ~ends /\ parting'[s] = ends
        /\ pipe'[s] = IF pipe[s] = << >> THEN pipe[s] ELSE Tail(pipe[s])
    BY <2>1 DEF SidesOK, ServiceTypeOK
  <2>5. /\ guard'[s] \in {"answering", "left", "polling"}
        /\ guard'[s] = "left" => ends
        /\ guard'[s] = "polling" => ~ends
    BY <2>1, <2>2 DEF ServiceTypeOK
  <2>6. SidesOK'
    <3>1. \A t \in AllSides \ {s} :
            guarding'[t] <=> guard'[t] = "polling" \/ (guard'[t] = "answering" /\ ~parting'[t])
      BY <2>3 DEF SidesOK
    <3>2. guarding'[s] <=> guard'[s] = "polling" \/ (guard'[s] = "answering" /\ ~parting'[s])
      BY <2>4, <2>5
    <3>3. /\ guard[s] # "none"
          /\ \A t \in AllSides \ {s} : guard'[t] = guard[t]
      BY <2>1, <2>3
    <3>4. \A t \in AllSides : (\A i \in DOMAIN Sides' : t # Sides'[i]) => guard'[t] = "none"
      BY <1>1, <3>3 DEF SidesOK
    <3>5. /\ owner' # "spawning" /\ ~(owner' = "resting" /\ use'.kind = "directory")
          /\ owner' \notin {"guards", "aborted"} => side' = 1
      BY <1>1, <3>3 DEF SidesOK
    <3> QED BY <3>1, <3>2, <3>4, <3>5 DEF SidesOK
  <2>7. ASSUME NEW k \in DOMAIN pipe[s], pipe[s][k] = "TERMINATE", ~ends
        PROVE  \E j \in DOMAIN pipe'[s] : pipe'[s][j] = "TERMINATE"
    <3>1. pipe[s] \in Seq({"ALLOW", "TERMINATE"}) /\ pipe[s] # << >>
      BY <2>7 DEF ServiceTypeOK
    <3>2. k # 1 /\ pipe'[s] = Tail(pipe[s])
      BY <2>4, <2>7, <3>1
    <3>3. k - 1 \in DOMAIN Tail(pipe[s]) /\ Tail(pipe[s])[k - 1] = pipe[s][k]
      BY <3>1, <3>2
    <3> QED BY <2>7, <3>2, <3>3
  <2>8. Dismissed(s) => Dismissed(s)'
    BY <2>4, <2>5, <2>7 DEF Dismissed
  <2>9. \A t \in AllSides : Dismissed(t) => Dismissed(t)'
    BY <2>3, <2>8 DEF Dismissed
  <2>10. DismissedOK'
    BY <1>1, <2>9, SidesFunction DEF DismissedOK
  <2> QED BY <2>6, <2>10
<1> QED BY <1>2, <1>3, <1>4, <1>5 DEF GuardActs, GuardStep

LEMMA TellsGuardsKeeps ==
  ASSUME OwnerTypeOK, ServiceTypeOK, SidesOK, DismissedOK, TellsGuards
  PROVE  SidesOK' /\ DismissedOK'
<1>1. owner = "guards" /\ use' = use /\ Sides' = Sides /\ side \in 1 .. 3
  BY DEF TellsGuards, Sides, OwnerTypeOK
<1>2. \A i \in DOMAIN Sides : Sides[i] \in AllSides /\ i \in 1 .. Len(Sides)
  BY SidesFunction, SidesFact, UsesAssumption DEF OwnerTypeOK
<1>3. CASE side <= Len(Sides)
  <2>0. side \in DOMAIN Sides
    BY <1>1, <1>2, <1>3, SidesFact, UsesAssumption DEF OwnerTypeOK
  <2>1. PICK s \in AllSides : s = Sides[side]
    BY <1>2, <2>0
  <2>2. /\ side' = side + 1 /\ owner' = owner
        /\ UNCHANGED <<guard, guarding, parting>>
        /\ pipe' = [pipe EXCEPT ![s] =
                      IF guarding[s] THEN Append(pipe[s], "TERMINATE") ELSE pipe[s]]
        /\ Blames("early", ~guarding[s] /\ guard[s] \in {"begun", "bound"})
    BY <1>3, <2>1 DEF TellsGuards, Tells
  <2>3. SidesOK'
    BY <1>1, <2>2 DEF SidesOK
  <2>4. \A t \in AllSides \ {s} : Dismissed(t) => Dismissed(t)'
    BY <2>2 DEF Dismissed, ServiceTypeOK
  <2>5. pipe[s] \in Seq({"ALLOW", "TERMINATE"})
    BY <2>0 DEF ServiceTypeOK
  <2>6. ASSUME guarding[s] PROVE Dismissed(s)'
    <3>1. pipe'[s] = Append(pipe[s], "TERMINATE")
      BY <2>0, <2>2, <2>6 DEF ServiceTypeOK
    <3>2. Len(pipe[s]) + 1 \in DOMAIN pipe'[s] /\ pipe'[s][Len(pipe[s]) + 1] = "TERMINATE"
      BY <2>5, <3>1
    <3>3. guard[s] \notin {"begun", "bound"}
      BY <2>0, <2>6 DEF SidesOK
    <3> QED BY <2>2, <3>2, <3>3 DEF Dismissed
  <2>7. ASSUME ~guarding[s], "early" \notin blame' PROVE Dismissed(s)'
    BY <2>2, <2>7 DEF Blames, Dismissed
  <2>8. blame \subseteq blame'
    BY <2>2 DEF Blames
  <2>9. "early" \notin blame' => Dismissed(s)'
    BY <2>6, <2>7
  <2>10. ASSUME "early" \notin blame', NEW i \in DOMAIN Sides, NEW t \in AllSides,
                t = Sides[i], i < side + 1
         PROVE  Dismissed(t)'
    <3>1. CASE i = side
      BY <2>1, <2>9, <2>10, <3>1
    <3>2. CASE i < side
      <4>1. Dismissed(t)
        BY <1>1, <2>8, <2>10, <3>2 DEF DismissedOK
      <4> QED BY <2>4, <2>9, <2>10, <4>1
    <3> QED BY <1>1, <1>2, <2>10, <3>1, <3>2
  <2>11. DismissedOK'
    <3>1. "early" \notin blame' =>
            \A i \in DOMAIN Sides : i < side' => \A t \in AllSides : t = Sides[i] => Dismissed(t)'
      BY <2>2, <2>10
    <3>2. "early" \notin blame' =>
            \A i \in DOMAIN Sides' : i < side' => Dismissed(Sides[i])'
      BY <1>1, <1>2, <3>1 DEF Dismissed
    <3> QED BY <1>1, <2>2, <3>2 DEF DismissedOK
  <2> QED BY <2>3, <2>11
<1>4. CASE ~(side <= Len(Sides))
  <2>1. /\ owner' = "joining" /\ side' = 1
        /\ UNCHANGED <<blame, guard, guarding, parting, pipe>>
    BY <1>4 DEF TellsGuards, serviceVars
  <2>2. SidesOK'
    BY <1>1, <2>1 DEF SidesOK
  <2>3. \A i \in DOMAIN Sides : i < side
    BY <1>1, <1>2, <1>4, SidesFact, UsesAssumption DEF OwnerTypeOK
  <2>4. ASSUME "early" \notin blame, NEW s \in AllSides
        PROVE  Dismissed(s)
    <3>1. CASE \E i \in DOMAIN Sides : s = Sides[i]
      BY <1>1, <2>3, <2>4, <3>1 DEF DismissedOK
    <3>2. CASE \A i \in DOMAIN Sides : s # Sides[i]
      BY <2>4, <3>2 DEF SidesOK, Dismissed
    <3> QED BY <3>1, <3>2
  <2>5. \A s \in AllSides : Dismissed(s) => Dismissed(s)'
    BY <2>1 DEF Dismissed
  <2>6. DismissedOK'
    BY <2>1, <2>4, <2>5 DEF DismissedOK
  <2> QED BY <2>2, <2>6
<1> QED BY <1>3, <1>4

(* The threads that are made when there are none.                          *)
LEMMA BeginsKeeps ==
  ASSUME OwnerTypeOK, ServiceTypeOK, SidesOK, DismissedOK, BeginsGuards,
         \A s \in AllSides : guard[s] = "none", use' = use,
         UNCHANGED <<guarding, parting, pipe, side>>, side = 1,
         \/ owner' \notin {"spawning", "resting", "guards", "joining", "joiningGuards"}
         \/ owner' = "resting" /\ use.kind # "directory"
  PROVE  SidesOK' /\ DismissedOK'
<1>1. Sides' = Sides
  BY DEF Sides
<1>2. \A s \in AllSides :
        guard'[s] = IF \E i \in DOMAIN Sides : s = Sides[i] THEN "begun" ELSE "none"
  BY DEF BeginsGuards
<1>3. SidesOK'
  BY <1>1, <1>2 DEF SidesOK
<1>4. DismissedOK'
  BY DEF DismissedOK
<1> QED BY <1>3, <1>4

LEMMA GuardsKept ==
  ASSUME OwnerTypeOK, ServiceTypeOK, WorkerOK, SidesOK, DismissedOK, [Next]_vars
  PROVE  SidesOK' /\ DismissedOK'
<1>0. use' = use /\ use.kind \in ServiceKinds
  BY UseKept, UsesAssumption DEF OwnerTypeOK
<1>1. ASSUME UNCHANGED <<owner, side, blame, guard, guarding, parting, pipe>>
      PROVE  SidesOK' /\ DismissedOK'
  BY <1>0, <1>1, GuardsAlone
<1>2. ASSUME NEW c \in {"initialize", "start", "stop", "leave"}, CallsTo(c)
      PROVE  SidesOK' /\ DismissedOK'
  <2>1. UNCHANGED <<side, blame, guard, guarding, parting, pipe>> /\ owner = "idle"
    BY <1>2 DEF CallsTo, serviceVars
  <2>2. owner' \in {"looking", "binding", "spawning", "telling"}
    BY <1>2 DEF CallsTo
  <2>3. owner' = "spawning" => use.kind = "raw"
    BY <1>2 DEF CallsTo
  <2>4. use.kind = "raw" => \A s \in AllSides : guard[s] = "none"
    BY DEF SidesOK, Sides
  <2>5. side = 1
    BY <2>1 DEF SidesOK
  <2> QED BY <1>0, <2>1, <2>2, <2>3, <2>4, <2>5, GuardsAlone
<1>3. CASE Allows
  <2>1. PICK s \in AllSides : guarding[s] /\ pipe[s] = << >> /\ Tells(s, "ALLOW")
    BY <1>3 DEF Allows
  <2>2. owner = "idle" /\ UNCHANGED <<owner, side, blame, guard, guarding, parting>>
    BY <1>3, <2>1 DEF Allows, Tells, ownerVars
  <2>3. SidesOK' /\ DismissedOK'
    BY <1>0, <2>2 DEF SidesOK, DismissedOK, Sides
  <2> QED BY <2>3
<1>4. CASE Pauses \/ AdminCalls \/ ClientAsks
  BY <1>1, <1>4 DEF Pauses, AdminCalls, ClientAsks, Asks, ownerVars, serviceVars
<1>5. CASE Opens \/ Looks \/ Told \/ Cuts
  <2>1. UNCHANGED <<side, guard, guarding, parting, pipe>> /\ blame \subseteq blame'
    BY <1>5 DEF Opens, Looks, Told, Cuts, Blames, serviceVars
  <2>2. owner' \in {"idle", "failed", "hung", "telling", "guards", "cutting", "aborted"}
    BY <1>5 DEF Opens, Looks, Told, Cuts, OwnerGoes
  <2>3. owner \notin {"guards", "aborted"}
    BY <1>5 DEF Opens, Looks, Told, Cuts, OwnerGoes
  <2>4. side = 1
    BY <2>3 DEF SidesOK
  <2> QED BY <1>0, <2>1, <2>2, <2>4, GuardsAlone
<1>6. CASE TellsGuards
  BY <1>6, TellsGuardsKeeps
<1>7. CASE Joins
  BY <1>0, <1>7, GuardsAlone DEF Joins, OwnerGoes, serviceVars
<1>8. CASE JoinsGuards
  <2>1. /\ owner = "joiningGuards" /\ owner' \in {"binding", "spawning", "idle", "left"}
        /\ UNCHANGED <<side, blame, guarding, pipe, parting>>
        /\ \A s \in AllSides : guard[s] \in {"none", "left"} /\ guard'[s] = "none"
    BY <1>8 DEF JoinsGuards, OwnerGoes, OwnerTypeOK, CallOK
  <2>2. SidesOK'
    BY <1>0, <2>1 DEF SidesOK, Sides
  <2>3. DismissedOK'
    BY <2>1 DEF DismissedOK
  <2> QED BY <2>2, <2>3
<1>9. CASE Binds
  <2>1. UNCHANGED <<side, blame, guard, guarding, parting, pipe>> /\ owner' = "idle" /\ side = 1
    BY <1>9 DEF Binds, OwnerGoes, serviceVars, SidesOK
  <2> QED BY <1>0, <2>1, GuardsAlone
<1>10. CASE Spawns
  <2>1. /\ owner = "spawning" /\ UNCHANGED <<side, guarding, pipe, parting>> /\ side = 1
        /\ blame \subseteq blame' /\ \A s \in AllSides : guard[s] = "none"
    BY <1>10 DEF Spawns, OwnerGoes, Blames, SidesOK
  <2>2. CASE guard' = guard
    <3>1. owner' \in {"idle", "resting", "aborted"}
      BY <1>10 DEF Spawns, OwnerGoes
    <3> QED BY <1>0, <2>1, <2>2, <3>1, GuardsAlone
  <2>3. CASE BeginsGuards /\ owner' = "resting" /\ use.kind # "directory"
    BY <1>0, <2>1, <2>3, BeginsKeeps
  <2>4. \/ guard' = guard
        \/ BeginsGuards /\ owner' = "resting" /\ use.kind # "directory"
    BY <1>10 DEF Spawns, OwnerGoes
  <2> QED BY <2>2, <2>3, <2>4
<1>11. CASE Rests
  <2>1. /\ owner = "resting" /\ owner' = "idle" /\ side = 1
        /\ UNCHANGED <<side, blame, guarding, pipe, parting>>
    BY <1>11 DEF Rests, OwnerGoes, SidesOK
  <2>2. CASE use.kind = "directory"
    BY <1>0, <1>11, <2>1, <2>2, BeginsKeeps DEF Rests, SidesOK
  <2>3. CASE use.kind # "directory"
    BY <1>0, <1>11, <2>1, <2>3, GuardsAlone DEF Rests
  <2> QED BY <2>2, <2>3
<1>12. CASE WorkerActs
  <2>1. /\ UNCHANGED <<side, blame, guard, guarding, parting, pipe>>
        /\ owner' = owner \/ owner' = "aborted"
    BY <1>12 DEF WorkerActs, WorkerBegins, WorkerReady, WorkerLeaves, WorkerObeys,
                 WorkerFinishes, Aborts, ownerVars, serviceVars
  <2> QED BY <1>0, <2>1, GuardsAlone
<1>13. ASSUME NEW a \in Admins, AdminActs(a)
       PROVE  SidesOK' /\ DismissedOK'
  <2>1. UNCHANGED <<side, guard, guarding, parting, pipe>>
    BY <1>13 DEF AdminActs, serviceVars
  <2>2. blame \subseteq blame' /\ (owner' = owner \/ owner' = "aborted")
    BY <1>13 DEF AdminActs, AdminStep, Blames
  <2> QED BY <1>0, <2>1, <2>2, GuardsAlone
<1>14. CASE \E s \in AllSides : GuardActs(s)
  BY <1>14, GuardStepKeeps
<1>15. CASE UNCHANGED vars
  BY <1>1, <1>15 DEF vars, ownerVars, serviceVars
<1> QED
  BY <1>2, <1>3, <1>4, <1>5, <1>6, <1>7, <1>8, <1>9, <1>10, <1>11, <1>12, <1>13, <1>14, <1>15
     DEF Next, OwnerCalls, OwnerActs

LEMMA CausesInit == Init => WorkerOK /\ StoppedOK /\ SidesOK /\ DismissedOK
<1> SUFFICES ASSUME Init PROVE WorkerOK /\ StoppedOK /\ SidesOK /\ DismissedOK
  OBVIOUS
<1> USE DEF Init, ServiceInit
<1>1. WorkerOK /\ StoppedOK
  BY DEF WorkerOK, StoppedOK, Stopping
<1>2. SidesOK /\ DismissedOK
  BY DEF SidesOK, DismissedOK
<1> QED BY <1>1, <1>2

LEMMA CausesSuffice ==
  ASSUME OwnerTypeOK, WorkerOK, StoppedOK, SidesOK, DismissedOK
  PROVE  EndsForCause
<1>1. owner = "hung" => "creation" \in blame
  BY DEF WorkerOK
<1>2. ASSUME owner = "joining", worker \in {"working", "resting"},
             IF Steerable THEN control = << >> ELSE running
      PROVE  blame \cap {"early", "deaf"} # {}
  <2>1. << >> # <<"TERMINATE">>
    OBVIOUS
  <2> QED BY <1>2, <2>1 DEF StoppedOK, Stopping
<1>3. ASSUME owner = "joiningGuards", NEW s \in AllSides, guard[s] = "polling", pipe[s] = << >>
      PROVE  "early" \in blame
  BY <1>3 DEF SidesOK, DismissedOK, Dismissed
<1>4. Stuck => blame \cap {"early", "deaf", "creation"} # {}
  BY <1>1, <1>2, <1>3 DEF Stuck
<1> QED BY <1>4 DEF EndsForCause, WorkerOK

(* The program ends by itself, and a call of the owner waits for a thread  *)
(* that nothing will end, only for the causes that are listed: whatever    *)
(* the kind of service, the number of starts and the interleaving of the   *)
(* owner, the worker, the guards and the administrators.  Where stop()     *)
(* finds the flags of the threads set, each thread has its flag cleared or *)
(* TERMINATE to read by the time it is joined.                             *)
THEOREM EndsForCauseInvariant == Spec => []EndsForCause
<1>1. Init => /\ OwnerTypeOK /\ ServiceTypeOK
              /\ WorkerOK /\ StoppedOK /\ SidesOK /\ DismissedOK
  BY TypesInit, CausesInit
<1>2. OwnerTypeOK /\ ServiceTypeOK /\ [Next]_vars => OwnerTypeOK' /\ ServiceTypeOK'
  BY OwnerTypesKept, ServiceTypesKept
<1>3. OwnerTypeOK /\ WorkerOK /\ StoppedOK /\ [Next]_vars => WorkerOK' /\ StoppedOK'
  BY WorkerKept
<1>4. OwnerTypeOK /\ ServiceTypeOK /\ WorkerOK /\ SidesOK /\ DismissedOK /\ [Next]_vars =>
        SidesOK' /\ DismissedOK'
  BY GuardsKept
<1>5. OwnerTypeOK /\ WorkerOK /\ StoppedOK /\ SidesOK /\ DismissedOK => EndsForCause
  BY CausesSuffice
<1> QED BY <1>1, <1>2, <1>3, <1>4, <1>5, PTL DEF Spec

-----------------------------------------------------------------------------
(* The promise.  A thread ends only while the owner stops the service:     *)
(* WorkerEndsOK and GuardsEndOK say that nothing else makes a thread leave,*)
(* that is, where the owner is when a thread has read TERMINATE or will.   *)
(* TeamOK says that the owner is idle with all of the threads or with none,*)
(* and PlacesOK that who asks has a place with a thread that is there.     *)

WorkerEndsOK ==
  /\ worker \in {"steered", "left"} => owner \in Stopping \cup {"aborted"}
  /\ control \in {<< >>, <<"PAUSE">>, <<"TERMINATE">>}
  /\ control = <<"TERMINATE">> =>
       Steerable /\ worker \in {"working", "resting"} /\ owner \in Stopping \cup {"aborted"}

Holds(q, command) == \E k \in DOMAIN q : q[k] = command

GuardEnds(s) ==
  \/ guard[s] = "left"
  \/ guard[s] = "answering" /\ parting[s]
  \/ Holds(pipe[s], "TERMINATE")

Dismissing == {"guards", "joining", "joiningGuards", "aborted"}

GuardsEndOK ==
  /\ \A s \in AllSides :
       /\ GuardEnds(s) => owner \in Dismissing
       /\ \A k \in DOMAIN pipe[s] :
            pipe[s][k] = "TERMINATE" => k = Len(pipe[s]) /\ guarding[s]
  /\ owner = "guards" =>
       \A i \in DOMAIN Sides : i >= side => ~Holds(pipe[Sides[i]], "TERMINATE")

NoThreads == worker = "none" /\ \A s \in AllSides : guard[s] = "none"
GuardsMade == \A i \in DOMAIN Sides : guard[Sides[i]] # "none"

TeamOK ==
  /\ owner \in {"opening", "hung", "binding"} => NoThreads
  /\ owner = "resting" =>
       IF use.kind = "directory" THEN worker # "none" ELSE GuardsMade
  /\ owner = "idle" => NoThreads \/ (worker # "none" /\ GuardsMade)

PlacesOK ==
  /\ \A c \in Clients : client[c] = "asking" => \E s \in AllSides : c \in Waiting(s)
  /\ \A s \in AllSides : zap[s] # << >> => guard[s] \in {"bound", "polling", "answering"}

LEMMA ShortSequences ==
  /\ << >> # <<"PAUSE">> /\ << >> # <<"TERMINATE">> /\ <<"PAUSE">> # <<"TERMINATE">>
  /\ Append(<< >>, "PAUSE") = <<"PAUSE">> /\ Append(<< >>, "TERMINATE") = <<"TERMINATE">>
  /\ Tail(<<"PAUSE">>) = << >> /\ Tail(<<"TERMINATE">>) = << >>
  /\ Head(<<"PAUSE">>) = "PAUSE" /\ Head(<<"TERMINATE">>) = "TERMINATE"
OBVIOUS

LEMMA WorkerEndsKept ==
  ASSUME OwnerTypeOK, WorkerOK, WorkerEndsOK, [Next]_vars
  PROVE  WorkerEndsOK'
<1>0. Steerable' = Steerable
  BY UseKept DEF Steerable
<1> USE <1>0 DEF WorkerEndsOK, Stopping
<1>1. CASE UNCHANGED <<owner, worker, control>>
  BY <1>1
<1>2. ASSUME NEW c \in {"initialize", "start", "stop", "leave"}, CallsTo(c)
      PROVE  WorkerEndsOK'
  BY <1>2 DEF CallsTo, workerVars
<1>3. CASE Pauses
  <2>1. control = << >> /\ control' = Append(control, "PAUSE") /\ worker' = worker
        /\ owner' = owner
    BY <1>3 DEF Pauses, Commands, WorkerOK, ownerVars
  <2> QED BY <2>1, ShortSequences
<1>4. CASE Opens \/ Looks \/ TellsGuards
  BY <1>4 DEF Opens, Looks, TellsGuards, OwnerGoes, workerVars
<1>5. CASE Told
  <2>1. CASE Steerable /\ running
    <3>1. worker \in {"working", "resting"} /\ worker' = worker /\ owner' = "cutting"
      BY <1>5, <2>1 DEF Told, WorkerOK
    <3>2. control' = control \/ (control = << >> /\ control' = Append(control, "TERMINATE"))
      BY <1>5, <2>1 DEF Told, Commands, WorkerOK
    <3>3. control' = control \/ control' = <<"TERMINATE">>
      BY <3>2, ShortSequences
    <3> QED BY <2>1, <3>1, <3>3
  <2>2. CASE ~(Steerable /\ running)
    BY <1>5, <2>2 DEF Told
  <2> QED BY <2>1, <2>2
<1>6. CASE Cuts
  BY <1>6 DEF Cuts, OwnerGoes
<1>7. CASE Joins
  BY <1>7 DEF Joins, OwnerGoes
<1>8. CASE JoinsGuards \/ Binds
  BY <1>8, ShortSequences DEF JoinsGuards, Binds, OwnerGoes, WorkerOK, workerVars
<1>9. CASE Spawns \/ Rests
  BY <1>9 DEF Spawns, Rests, OwnerGoes, WorkerOK
<1>10. CASE WorkerBegins
  BY <1>10 DEF WorkerBegins, Aborts
<1>11. CASE WorkerReady
  BY <1>11 DEF WorkerReady, WorkerGoes, ownerVars
<1>12. CASE WorkerLeaves
  <2>1. owner \in Stopping \cup {"aborted"} /\ owner' = owner /\ control' = control
        /\ worker' = "left"
    BY <1>12 DEF WorkerLeaves, WorkerGoes, WorkerOK, ownerVars
  <2>2. control # <<"TERMINATE">>
    BY <1>12 DEF WorkerLeaves
  <2> QED BY <2>1, <2>2
<1>13. CASE WorkerObeys
  <2>1. owner' = owner /\ control' = Tail(control) /\ control # << >>
        /\ worker \in {"working", "resting"}
        /\ worker' = CASE Head(control) = "PAUSE" -> "resting"
                       [] Head(control) = "RESUME" -> "working"
                       [] OTHER -> "steered"
    BY <1>13 DEF WorkerObeys, ownerVars
  <2>2. CASE control = <<"PAUSE">>
    BY <2>1, <2>2, ShortSequences
  <2>3. CASE control = <<"TERMINATE">>
    BY <2>1, <2>3, ShortSequences
  <2> QED BY <2>1, <2>2, <2>3
<1>14. CASE WorkerFinishes
  BY <1>14 DEF WorkerFinishes, WorkerGoes, ownerVars
<1>15. ASSUME NEW a \in Admins, AdminActs(a)
       PROVE  WorkerEndsOK'
  BY <1>15 DEF AdminActs, AdminStep, workerVars
<1>16. CASE Allows \/ AdminCalls \/ ClientAsks \/ \E s \in AllSides : GuardActs(s)
  BY <1>1, <1>16 DEF Allows, AdminCalls, ClientAsks, GuardActs, ownerVars, workerVars
<1>17. CASE UNCHANGED vars
  BY <1>1, <1>17 DEF vars, ownerVars, workerVars
<1> QED
  BY <1>2, <1>3, <1>4, <1>5, <1>6, <1>7, <1>8, <1>9, <1>10, <1>11, <1>12, <1>13, <1>14,
     <1>15, <1>16, <1>17 DEF Next, OwnerCalls, OwnerActs, WorkerActs

(* When the guards are left alone, the owner may go where they may end, or *)
(* where it was; and anywhere when none of them is to end.                 *)
LEMMA EndsAlone ==
  ASSUME GuardsEndOK, UNCHANGED <<use, guarding, parting, pipe>>,
         \A s \in AllSides : guard'[s] \in {guard[s], "none", "begun"},
         \/ UNCHANGED <<owner, side>>
         \/ owner' \in Dismissing \ {"guards"}
         \/ owner \notin Dismissing
         \/ \A s \in AllSides : ~Holds(pipe[s], "TERMINATE") /\ guard'[s] \in {"none", "begun"},
         \A i \in DOMAIN Sides : Sides[i] \in AllSides
  PROVE  GuardsEndOK'
<1>1. Sides' = Sides
  BY DEF Sides
<1>2. \A s \in AllSides : GuardEnds(s)' => GuardEnds(s)
  BY DEF GuardEnds, Holds
<1>3. \A s \in AllSides : \A k \in DOMAIN pipe'[s] :
        pipe'[s][k] = "TERMINATE" => k = Len(pipe'[s]) /\ guarding'[s]
  BY DEF GuardsEndOK
<1>4. CASE UNCHANGED <<owner, side>>
  BY <1>1, <1>2, <1>3, <1>4 DEF GuardsEndOK, Holds
<1>5. CASE owner' \in Dismissing \ {"guards"}
  BY <1>3, <1>5 DEF GuardsEndOK
<1>6. CASE owner \notin Dismissing
  <2>1. \A s \in AllSides : ~GuardEnds(s)' /\ ~Holds(pipe[s], "TERMINATE")
    BY <1>2, <1>6 DEF GuardsEndOK, GuardEnds
  <2>2. \A i \in DOMAIN Sides' : ~Holds(pipe'[Sides'[i]], "TERMINATE")
    BY <1>1, <2>1 DEF Holds
  <2> QED BY <1>3, <2>1, <2>2 DEF GuardsEndOK
<1>7. CASE \A s \in AllSides : ~Holds(pipe[s], "TERMINATE") /\ guard'[s] \in {"none", "begun"}
  <2>1. \A s \in AllSides : ~GuardEnds(s)'
    BY <1>7 DEF GuardEnds, Holds
  <2>2. \A i \in DOMAIN Sides' : ~Holds(pipe'[Sides'[i]], "TERMINATE")
    BY <1>1, <1>7 DEF Holds
  <2> QED BY <1>3, <2>1, <2>2 DEF GuardsEndOK
<1> QED BY <1>4, <1>5, <1>6, <1>7

(* A guard reads what the owner wrote: what it leaves in the pipe comes    *)
(* after what it read, and nothing comes after TERMINATE.                  *)
LEMMA GuardEndsKept ==
  ASSUME OwnerTypeOK, ServiceTypeOK, SidesOK, GuardsEndOK, NEW s \in AllSides, GuardActs(s)
  PROVE  GuardsEndOK'
<1>1. UNCHANGED <<use, owner, side>> /\ Sides' = Sides
  BY DEF GuardActs, ownerVars, Sides
<1>2. CASE GuardBinds(s) \/ GuardReady(s)
  <2>1. /\ UNCHANGED <<pipe, parting>>
        /\ \A t \in AllSides : guard'[t] = guard[t] \/ guard'[t] \in {"bound", "polling"}
        /\ \A t \in AllSides : guarding[t] => guarding'[t]
    BY <1>2 DEF GuardBinds, GuardReady, Goes, ServiceTypeOK
  <2>2. \A t \in AllSides : GuardEnds(t)' => GuardEnds(t)
    BY <2>1 DEF GuardEnds, Holds
  <2> QED BY <1>1, <2>1, <2>2 DEF GuardsEndOK, Holds
<1>3. CASE GuardAnswers(s)
  <2>1. /\ guard[s] = "answering" /\ UNCHANGED <<guarding, pipe, parting>>
        /\ guard' = [guard EXCEPT ![s] = IF parting[s] THEN "left" ELSE "polling"]
    BY <1>3 DEF GuardAnswers
  <2>2. \A t \in AllSides : GuardEnds(t)' => GuardEnds(t)
    BY <2>1 DEF GuardEnds, Holds, ServiceTypeOK
  <2> QED BY <1>1, <2>1, <2>2 DEF GuardsEndOK, Holds
<1>4. CASE GuardPolls(s)
  <2> DEFINE ends == pipe[s] # << >> /\ Head(pipe[s]) = "TERMINATE"
  <2>1. /\ guard[s] = "polling"
        /\ pipe' = [pipe EXCEPT ![s] = IF pipe[s] = << >> THEN pipe[s] ELSE Tail(pipe[s])]
        /\ guarding' = [guarding EXCEPT ![s] = guarding[s] /\ ~ends]
        /\ parting' = [parting EXCEPT ![s] = ends]
    BY <1>4 DEF GuardPolls
  <2>2. \/ guard' = [guard EXCEPT ![s] = "answering"]
        \/ guard' = [guard EXCEPT ![s] = "left"] /\ ends
        \/ guard' = guard
    BY <1>4 DEF GuardPolls, GuardLeaves
  <2>3. \A t \in AllSides \ {s} :
          UNCHANGED <<guard[t], guarding[t], pipe[t], parting[t]>>
    BY <2>1, <2>2 DEF ServiceTypeOK
  <2>4. /\ guarding[s] /\ guarding'[s] = ~ends /\ parting'[s] = ends
        /\ pipe'[s] = IF pipe[s] = << >> THEN pipe[s] ELSE Tail(pipe[s])
    BY <2>1 DEF SidesOK, ServiceTypeOK
  <2>5. pipe[s] \in Seq({"ALLOW", "TERMINATE"})
    BY DEF ServiceTypeOK
  <2>6. ends => Holds(pipe[s], "TERMINATE")
    BY <2>5 DEF Holds
  <2>7. ASSUME NEW k \in DOMAIN pipe'[s], pipe'[s][k] = "TERMINATE"
        PROVE  k = Len(pipe'[s]) /\ ~ends /\ Holds(pipe[s], "TERMINATE")
    <3>1. pipe[s] # << >> /\ pipe'[s] = Tail(pipe[s])
      BY <2>4, <2>7
    <3>2. /\ k \in Nat \ {0} /\ k + 1 \in DOMAIN pipe[s]
          /\ pipe[s][k + 1] = "TERMINATE" /\ 1 \in DOMAIN pipe[s]
          /\ Len(pipe'[s]) = Len(pipe[s]) - 1 /\ Head(pipe[s]) = pipe[s][1]
      BY <2>5, <2>7, <3>1
    <3>3. k + 1 = Len(pipe[s])
      BY <3>2 DEF GuardsEndOK
    <3>4. Len(pipe[s]) # 1
      BY <3>2, <3>3
    <3>5. pipe[s][1] # "TERMINATE"
      BY <3>2, <3>4 DEF GuardsEndOK
    <3>6. Len(pipe[s]) \in Nat
      BY <2>5
    <3> QED BY <3>2, <3>3, <3>5, <3>6 DEF Holds
  <2>8. guard'[s] = "left" => ends
    BY <2>1, <2>2 DEF ServiceTypeOK
  <2>9. GuardEnds(s)' => GuardEnds(s)
    BY <2>4, <2>6, <2>7, <2>8 DEF GuardEnds, Holds
  <2>10. \A t \in AllSides : GuardEnds(t)' => GuardEnds(t)
    BY <2>3, <2>9 DEF GuardEnds, Holds
  <2>11. \A t \in AllSides : \A k \in DOMAIN pipe'[t] :
           pipe'[t][k] = "TERMINATE" => k = Len(pipe'[t]) /\ guarding'[t]
    <3>1. ASSUME NEW k \in DOMAIN pipe'[s], pipe'[s][k] = "TERMINATE"
          PROVE  k = Len(pipe'[s]) /\ guarding'[s]
      BY <2>4, <2>7, <3>1
    <3>2. ASSUME NEW t \in AllSides \ {s}, NEW k \in DOMAIN pipe[t], pipe[t][k] = "TERMINATE"
          PROVE  k = Len(pipe[t]) /\ guarding[t]
      BY <3>2 DEF GuardsEndOK
    <3> QED BY <2>3, <3>1, <3>2
  <2>12. \A t \in AllSides : Holds(pipe'[t], "TERMINATE") => Holds(pipe[t], "TERMINATE")
    BY <2>3, <2>7 DEF Holds
  <2>13. owner' = "guards" =>
           \A i \in DOMAIN Sides' : i >= side' => ~Holds(pipe'[Sides'[i]], "TERMINATE")
    BY <1>1, <2>12, SidesFunction DEF GuardsEndOK
  <2> QED BY <1>1, <2>10, <2>11, <2>13 DEF GuardsEndOK
<1> QED BY <1>2, <1>3, <1>4 DEF GuardActs, GuardStep

(* TERMINATE is written once to each of the sides, behind all else.        *)
LEMMA TellingKept ==
  ASSUME OwnerTypeOK, ServiceTypeOK, SidesOK, GuardsEndOK, TellsGuards
  PROVE  GuardsEndOK'
<1>1. owner = "guards" /\ use' = use /\ Sides' = Sides /\ side \in 1 .. 3
  BY DEF TellsGuards, Sides, OwnerTypeOK
<1>2. /\ \A i \in DOMAIN Sides : Sides[i] \in AllSides /\ i \in 1 .. Len(Sides)
      /\ Len(Sides) \in Nat
  BY SidesFunction, SidesFact, UsesAssumption DEF OwnerTypeOK
<1>3. CASE side <= Len(Sides)
  <2>0. side \in DOMAIN Sides
    BY <1>1, <1>2, <1>3, SidesFact, UsesAssumption DEF OwnerTypeOK
  <2>1. PICK s \in AllSides : s = Sides[side]
    BY <1>2, <2>0
  <2>2. /\ side' = side + 1 /\ owner' = owner
        /\ UNCHANGED <<guard, guarding, parting>>
        /\ pipe' = [pipe EXCEPT ![s] =
                      IF guarding[s] THEN Append(pipe[s], "TERMINATE") ELSE pipe[s]]
    BY <1>3, <2>1 DEF TellsGuards, Tells
  <2>3. \A t \in AllSides \ {s} : pipe'[t] = pipe[t]
    BY <2>2 DEF ServiceTypeOK
  <2>4. /\ pipe[s] \in Seq({"ALLOW", "TERMINATE"})
        /\ pipe'[s] = IF guarding[s] THEN Append(pipe[s], "TERMINATE") ELSE pipe[s]
    BY <2>2 DEF ServiceTypeOK
  <2>5. ~Holds(pipe[s], "TERMINATE")
    BY <1>1, <2>0, <2>1 DEF GuardsEndOK
  <2>6. ASSUME NEW k \in DOMAIN pipe'[s], pipe'[s][k] = "TERMINATE"
        PROVE  k = Len(pipe'[s]) /\ guarding'[s]
    <3>1. guarding[s] /\ pipe'[s] = Append(pipe[s], "TERMINATE")
      BY <2>4, <2>5, <2>6 DEF Holds
    <3>2. k \in DOMAIN pipe[s] => pipe'[s][k] = pipe[s][k]
      BY <2>4, <3>1
    <3>3. k \notin DOMAIN pipe[s]
      BY <2>5, <2>6, <3>2 DEF Holds
    <3>4. k = Len(pipe'[s])
      BY <2>4, <3>1, <3>3
    <3> QED BY <2>2, <3>1, <3>4
  <2>7. \A t \in AllSides : \A k \in DOMAIN pipe'[t] :
          pipe'[t][k] = "TERMINATE" => k = Len(pipe'[t]) /\ guarding'[t]
    BY <2>2, <2>3, <2>6 DEF GuardsEndOK
  <2>8. ASSUME NEW i \in DOMAIN Sides, i >= side + 1
        PROVE  ~Holds(pipe'[Sides[i]], "TERMINATE")
    <3>1. Sides[i] # Sides[side]
      BY <1>1, <1>2, <2>0, <2>8 DEF Sides
    <3>2. ~Holds(pipe[Sides[i]], "TERMINATE")
      BY <1>1, <1>2, <2>8 DEF GuardsEndOK
    <3> QED BY <1>2, <2>1, <2>3, <2>8, <3>1, <3>2
  <2> QED BY <1>1, <2>2, <2>7, <2>8 DEF GuardsEndOK, Dismissing
<1>4. CASE ~(side <= Len(Sides))
  BY <1>1, <1>2, <1>4, EndsAlone DEF TellsGuards, serviceVars, Dismissing
<1> QED BY <1>3, <1>4

LEMMA GuardsEndKept ==
  ASSUME OwnerTypeOK, ServiceTypeOK, SidesOK, GuardsEndOK, [Next]_vars
  PROVE  GuardsEndOK'
<1>0. use' = use /\ \A i \in DOMAIN Sides : Sides[i] \in AllSides
  BY UseKept, SidesFunction
<1>1. ASSUME UNCHANGED <<owner, side, guard, guarding, parting, pipe>>
      PROVE  GuardsEndOK'
  BY <1>0, <1>1, EndsAlone
<1>2. ASSUME NEW c \in {"initialize", "start", "stop", "leave"}, CallsTo(c)
      PROVE  GuardsEndOK'
  BY <1>0, <1>2, EndsAlone DEF CallsTo, serviceVars, Dismissing
<1>3. CASE Allows
  <2>1. PICK s \in AllSides : guarding[s] /\ pipe[s] = << >> /\ Tells(s, "ALLOW")
    BY <1>3 DEF Allows
  <2>2. /\ owner = "idle" /\ UNCHANGED <<owner, side, guard, guarding, parting>>
        /\ pipe' = [pipe EXCEPT ![s] = Append(<< >>, "ALLOW")]
    BY <1>3, <2>1 DEF Allows, Tells, ownerVars
  <2>3. \A t \in AllSides : ~Holds(pipe[t], "TERMINATE")
    BY <2>2 DEF GuardsEndOK, GuardEnds, Dismissing
  <2>4. \A k \in DOMAIN Append(<< >>, "ALLOW") : Append(<< >>, "ALLOW")[k] # "TERMINATE"
    OBVIOUS
  <2>5. \A t \in AllSides : ~Holds(pipe'[t], "TERMINATE")
    BY <2>2, <2>3, <2>4 DEF Holds, ServiceTypeOK
  <2>6. \A t \in AllSides : GuardEnds(t)' => GuardEnds(t)
    BY <2>2, <2>5 DEF GuardEnds
  <2> QED BY <2>2, <2>5, <2>6 DEF GuardsEndOK, Holds
<1>4. CASE Pauses \/ AdminCalls \/ ClientAsks
  BY <1>1, <1>4 DEF Pauses, AdminCalls, ClientAsks, Asks, ownerVars, serviceVars
<1>5. CASE Opens \/ Looks \/ Told \/ Cuts
  <2>1. UNCHANGED <<side, guard, guarding, parting, pipe>>
    BY <1>5 DEF Opens, Looks, Told, Cuts, serviceVars
  <2>2. owner \notin Dismissing
    BY <1>5 DEF Opens, Looks, Told, Cuts, OwnerGoes, Dismissing
  <2> QED BY <1>0, <2>1, <2>2, EndsAlone
<1>6. CASE TellsGuards
  BY <1>6, TellingKept
<1>7. CASE Joins
  BY <1>0, <1>7, EndsAlone DEF Joins, OwnerGoes, serviceVars, Dismissing
<1>8. CASE JoinsGuards
  <2>1. /\ UNCHANGED <<guarding, pipe, parting>>
        /\ \A s \in AllSides : guard[s] \in {"none", "left"} /\ guard'[s] = "none"
    BY <1>8 DEF JoinsGuards
  <2>2. \A s \in AllSides : ~Holds(pipe[s], "TERMINATE")
    BY <2>1 DEF GuardsEndOK, Holds, SidesOK
  <2> QED BY <1>0, <2>1, <2>2, EndsAlone
<1>9. CASE Binds \/ Spawns \/ Rests
  <2>1. owner \notin Dismissing /\ UNCHANGED <<guarding, parting, pipe>>
    BY <1>9 DEF Binds, Spawns, Rests, OwnerGoes, serviceVars, Dismissing
  <2>2. \A s \in AllSides : guard'[s] \in {guard[s], "none", "begun"}
    BY <1>9 DEF Binds, Spawns, Rests, BeginsGuards, serviceVars
  <2> QED BY <1>0, <2>1, <2>2, EndsAlone
<1>10. CASE WorkerActs
  <2>1. /\ UNCHANGED <<side, guard, guarding, parting, pipe>>
        /\ owner' = owner \/ owner' = "aborted"
    BY <1>10 DEF WorkerActs, WorkerBegins, WorkerReady, WorkerLeaves, WorkerObeys,
                 WorkerFinishes, Aborts, ownerVars, serviceVars
  <2> QED BY <1>0, <2>1, EndsAlone DEF Dismissing
<1>11. ASSUME NEW a \in Admins, AdminActs(a)
       PROVE  GuardsEndOK'
  <2>1. UNCHANGED <<side, guard, guarding, parting, pipe>>
    BY <1>11 DEF AdminActs, serviceVars
  <2>2. owner' = owner \/ owner' = "aborted"
    BY <1>11 DEF AdminActs, AdminStep
  <2> QED BY <1>0, <2>1, <2>2, EndsAlone DEF Dismissing
<1>12. CASE \E s \in AllSides : GuardActs(s)
  BY <1>12, GuardEndsKept
<1>13. CASE UNCHANGED vars
  BY <1>1, <1>13 DEF vars, ownerVars, serviceVars
<1> QED
  BY <1>2, <1>3, <1>4, <1>5, <1>6, <1>7, <1>8, <1>9, <1>10, <1>11, <1>12, <1>13
     DEF Next, OwnerCalls, OwnerActs

LEMMA TeamKept ==
  ASSUME OwnerTypeOK, ServiceTypeOK, WorkerOK, SidesOK, TeamOK, [Next]_vars
  PROVE  TeamOK'
<1>0. use' = use /\ Sides' = Sides /\ \A i \in DOMAIN Sides : Sides[i] \in AllSides
  BY UseKept, SidesFunction DEF Sides
<1>1. ASSUME owner' = owner, worker' = "none" <=> worker = "none",
             \A s \in AllSides : guard'[s] = "none" <=> guard[s] = "none"
      PROVE  TeamOK'
  BY <1>0, <1>1 DEF TeamOK, NoThreads, GuardsMade
<1>2. CASE owner' \notin {"opening", "hung", "binding", "resting", "idle"}
  BY <1>2 DEF TeamOK
<1>3. ASSUME NEW c \in {"initialize", "start", "stop", "leave"}, CallsTo(c)
      PROVE  TeamOK'
  <2>1. CASE owner' = "binding"
    <3>1. owner = "idle" /\ worker = "none" /\ UNCHANGED <<worker, guard>>
      BY <1>3, <2>1 DEF CallsTo, workerVars, serviceVars
    <3> QED BY <2>1, <3>1 DEF TeamOK, NoThreads
  <2>2. owner' \in {"looking", "binding", "spawning", "telling"}
    BY <1>3 DEF CallsTo
  <2> QED BY <1>2, <2>1, <2>2
<1>4. CASE Opens
  BY <1>0, <1>4 DEF Opens, OwnerGoes, workerVars, serviceVars, TeamOK, NoThreads
<1>5. CASE Looks \/ Told \/ Cuts \/ TellsGuards \/ Joins
  <2>1. owner' \in {"telling", "guards", "cutting", "aborted", "joining", "joiningGuards"}
    BY <1>5 DEF Looks, Told, Cuts, TellsGuards, Joins, OwnerGoes
  <2> QED BY <1>2, <2>1
<1>6. CASE JoinsGuards
  <2>1. worker' = "none" /\ \A s \in AllSides : guard'[s] = "none"
    BY <1>6 DEF JoinsGuards, OwnerGoes, WorkerOK, workerVars
  <2>2. owner' # "resting"
    BY <1>6 DEF JoinsGuards, OwnerGoes, OwnerTypeOK, CallOK
  <2> QED BY <2>1, <2>2 DEF TeamOK, NoThreads
<1>7. CASE Binds
  BY <1>7 DEF Binds, OwnerGoes, serviceVars, TeamOK, NoThreads
<1>8. BeginsGuards => GuardsMade'
  <2>1. \A i \in DOMAIN Sides : Sides[i] \in {Sides[j] : j \in DOMAIN Sides}
    OBVIOUS
  <2> QED BY <1>0, <2>1 DEF BeginsGuards, GuardsMade
<1>9. CASE Spawns
  <2>1. CASE owner' = "idle"
    <3>1. use.kind = "raw" /\ worker' = "begun" /\ Sides' = << >>
      BY <1>0, <1>9, <2>1 DEF Spawns, OwnerGoes, Sides
    <3> QED BY <2>1, <3>1 DEF TeamOK, GuardsMade
  <2>2. CASE owner' = "resting"
    <3>1. IF use.kind = "directory" THEN worker' = "begun" ELSE BeginsGuards
      BY <1>9, <2>2 DEF Spawns, OwnerGoes
    <3> QED BY <1>0, <1>8, <2>2, <3>1 DEF TeamOK
  <2>3. owner' \in {"idle", "resting", "aborted"}
    BY <1>9 DEF Spawns, OwnerGoes
  <2> QED BY <1>2, <2>1, <2>2, <2>3
<1>10. CASE Rests
  <2>1. owner = "resting" /\ owner' = "idle"
    BY <1>10 DEF Rests, OwnerGoes
  <2>2. CASE use.kind = "directory"
    BY <1>8, <1>10, <2>1, <2>2 DEF Rests, TeamOK
  <2>3. CASE use.kind # "directory"
    <3>1. GuardsMade' /\ worker' = "begun"
      BY <1>0, <1>10, <2>1, <2>3 DEF Rests, TeamOK, GuardsMade
    <3> QED BY <2>1, <3>1 DEF TeamOK
  <2> QED BY <2>2, <2>3
<1>11. CASE WorkerActs
  <2>1. guard' = guard /\ (worker' = "none" <=> worker = "none")
    BY <1>11 DEF WorkerActs, WorkerBegins, WorkerReady, WorkerLeaves, WorkerObeys,
                 WorkerFinishes, WorkerGoes, Aborts, serviceVars
  <2>2. owner' = owner \/ owner' = "aborted"
    BY <1>11 DEF WorkerActs, WorkerBegins, WorkerReady, WorkerLeaves, WorkerObeys,
                 WorkerFinishes, Aborts, ownerVars
  <2> QED BY <1>1, <1>2, <2>1, <2>2
<1>12. ASSUME NEW a \in Admins, AdminActs(a)
       PROVE  TeamOK'
  <2>1. UNCHANGED <<worker, guard>> /\ (owner' = owner \/ owner' = "aborted")
    BY <1>12 DEF AdminActs, AdminStep, workerVars, serviceVars
  <2> QED BY <1>1, <1>2, <2>1
<1>13. ASSUME NEW s \in AllSides, GuardActs(s)
       PROVE  TeamOK'
  <2>1. UNCHANGED <<owner, worker>>
    BY <1>13 DEF GuardActs, ownerVars, workerVars
  <2>2. /\ guard[s] # "none"
        /\ \/ guard' = guard
           \/ \E to \in {"bound", "polling", "answering", "left"} :
                guard' = [guard EXCEPT ![s] = to]
    BY <1>13 DEF GuardActs, GuardStep, GuardBinds, GuardReady, GuardPolls, GuardLeaves,
                 GuardAnswers, Goes
  <2>3. \A t \in AllSides : guard'[t] = "none" <=> guard[t] = "none"
    BY <2>2 DEF ServiceTypeOK
  <2> QED BY <1>1, <2>1, <2>3
<1>14. CASE Allows \/ Pauses \/ AdminCalls \/ ClientAsks
  BY <1>1, <1>14 DEF Allows, Pauses, AdminCalls, ClientAsks, Asks, Tells, ownerVars,
                     workerVars, serviceVars
<1>15. CASE UNCHANGED vars
  BY <1>1, <1>15 DEF vars, ownerVars, workerVars, serviceVars
<1> QED
  BY <1>3, <1>4, <1>5, <1>6, <1>7, <1>9, <1>10, <1>11, <1>12, <1>13, <1>14, <1>15
     DEF Next, OwnerCalls, OwnerActs

(* Who keeps its place, or loses it and is told so.                        *)
LEMMA PlacesStay ==
  ASSUME PlacesOK,
         \A s \in AllSides : zap'[s] # << >> => guard'[s] \in {"bound", "polling", "answering"},
         \A c \in Clients : client'[c] = "asking" =>
           /\ client[c] = "asking"
           /\ \A s \in AllSides : c \in Waiting(s) => c \in Waiting(s)'
  PROVE  PlacesOK'
BY DEF PlacesOK

LEMMA PlacesKept ==
  ASSUME OwnerTypeOK, ServiceTypeOK, SidesOK, WaitingOK, PlacesOK, [Next]_vars
  PROVE  PlacesOK'
<1>1. ASSUME UNCHANGED <<guard, zap, asked, client>>
      PROVE  PlacesOK'
  BY <1>1 DEF PlacesOK, Waiting
<1>2. ASSUME UNCHANGED <<zap, asked, client>>, \A s \in AllSides : guard[s] \in {"none", "left"},
             \A s \in AllSides : guard'[s] # "answering"
      PROVE  PlacesOK'
  <2>1. \A s \in AllSides : zap[s] = << >> /\ Waiting(s) = {}
    BY <1>2 DEF PlacesOK, Waiting, Elements
  <2> QED BY <1>2, <2>1, PlacesStay DEF PlacesOK
<1>3. CASE OwnerCalls \/ Opens \/ Looks \/ Told \/ Cuts \/ TellsGuards \/ Joins \/ Binds
  <2>1. CASE OwnerCalls
    BY <1>1, <2>1 DEF OwnerCalls, CallsTo, Allows, Pauses, Tells, serviceVars, clientVars
  <2>2. CASE Opens \/ Looks \/ Told \/ Cuts \/ TellsGuards \/ Joins \/ Binds
    BY <1>1, <2>2 DEF Opens, Looks, Told, Cuts, TellsGuards, Joins, Binds, Tells,
                      serviceVars, clientVars
  <2> QED BY <1>3, <2>1, <2>2
<1>4. CASE JoinsGuards
  BY <1>2, <1>4 DEF JoinsGuards, clientVars
<1>5. CASE Spawns \/ Rests
  <2>1. UNCHANGED <<zap, asked, client>>
    BY <1>5 DEF Spawns, Rests, clientVars
  <2>2. CASE guard' = guard
    BY <1>1, <2>1, <2>2
  <2>3. CASE BeginsGuards /\ (Spawns \/ use.kind = "directory")
    <3>1. \A s \in AllSides : guard[s] = "none"
      BY <1>5, <2>3 DEF Spawns, Rests, OwnerGoes, SidesOK
    <3>2. \A s \in AllSides : guard'[s] # "answering"
      BY <2>3, <3>1 DEF BeginsGuards
    <3> QED BY <1>2, <2>1, <3>1, <3>2
  <2> QED BY <1>5, <2>2, <2>3 DEF Spawns, Rests
<1>6. CASE WorkerActs
  BY <1>1, <1>6 DEF WorkerActs, WorkerBegins, WorkerReady, WorkerLeaves, WorkerObeys,
                    WorkerFinishes, serviceVars, clientVars
<1>7. CASE AdminCalls \/ \E a \in Admins : AdminActs(a)
  BY <1>1, <1>7 DEF AdminCalls, AdminActs, serviceVars, clientVars
<1>8. CASE ClientAsks
  <2>1. PICK c \in Clients, s \in AllSides : Asks(c, s)
    BY <1>8 DEF ClientAsks
  <2>2. /\ zap' = [zap EXCEPT ![s] = Append(zap[s], c)] /\ zap[s] \in Seq(Clients)
        /\ client' = [client EXCEPT ![c] = "asking"] /\ UNCHANGED <<guard, asked>>
        /\ guard[s] \in {"bound", "polling", "answering"}
    BY <2>1 DEF Asks, ServiceTypeOK
  <2>3. Elements(zap'[s]) = Elements(zap[s]) \cup {c}
    BY <2>2, AppendElements DEF ServiceTypeOK
  <2>4. /\ \A t \in AllSides : Waiting(t) \subseteq Waiting(t)'
        /\ c \in Waiting(s)'
    BY <2>2, <2>3 DEF Waiting, ServiceTypeOK
  <2>5. \A d \in Clients : client'[d] = "asking" => d = c \/ client[d] = "asking"
    BY <2>2 DEF ServiceTypeOK
  <2>6. \A t \in AllSides : zap'[t] # << >> => guard'[t] \in {"bound", "polling", "answering"}
    BY <2>2 DEF ServiceTypeOK, PlacesOK
  <2> QED BY <2>4, <2>5, <2>6 DEF PlacesOK
<1>9. ASSUME NEW s \in AllSides, GuardActs(s)
      PROVE  PlacesOK'
  <2>1. CASE GuardBinds(s) \/ GuardReady(s)
    <3>1. /\ UNCHANGED <<zap, asked, client>>
          /\ \A t \in AllSides : guard'[t] = guard[t] \/ guard'[t] \in {"bound", "polling"}
          /\ \A t \in AllSides : guard[t] = "answering" => guard'[t] = "answering"
      BY <2>1 DEF GuardBinds, GuardReady, Goes, clientVars, ServiceTypeOK
    <3>2. \A t \in AllSides : Waiting(t) \subseteq Waiting(t)'
      BY <3>1 DEF Waiting
    <3> QED BY <3>1, <3>2, PlacesStay DEF PlacesOK
  <2>2. CASE GuardPolls(s)
    <3>0. guard[s] = "polling" /\ Waiting(s) = Elements(zap[s]) /\ zap[s] \in Seq(Clients)
      BY <2>2 DEF GuardPolls, Waiting, ServiceTypeOK
    <3>1. CASE zap[s] # << >>
      <4>1. /\ guard' = [guard EXCEPT ![s] = "answering"]
            /\ asked' = [asked EXCEPT ![s] = Head(zap[s])]
            /\ zap' = [zap EXCEPT ![s] = Tail(zap[s])]
            /\ client' = client
        BY <2>2, <3>1 DEF GuardPolls
      <4>2. Elements(zap[s]) = {Head(zap[s])} \cup Elements(Tail(zap[s]))
        BY <3>0, <3>1, TailElements DEF WaitingOK
      <4>3. guard'[s] = "answering" /\ asked'[s] = Head(zap[s]) /\ zap'[s] = Tail(zap[s])
        BY <4>1 DEF ServiceTypeOK
      <4>4. Waiting(s)' = Waiting(s)
        BY <3>0, <4>2, <4>3 DEF Waiting
      <4>5. \A t \in AllSides \ {s} :
              zap'[t] = zap[t] /\ guard'[t] = guard[t] /\ Waiting(t)' = Waiting(t)
        BY <4>1 DEF Waiting, ServiceTypeOK
      <4> QED BY <4>1, <4>3, <4>4, <4>5, PlacesStay DEF PlacesOK
    <3>2. CASE zap[s] = << >> /\ GuardLeaves(s)
      <4>1. UNCHANGED <<zap, asked, client>> /\ Waiting(s) = {}
        BY <3>0, <3>2 DEF Elements, GuardLeaves, ServiceTypeOK
      <4>2. \A t \in AllSides \ {s} : guard'[t] = guard[t] /\ Waiting(t)' = Waiting(t)
        BY <3>2, <4>1 DEF GuardLeaves, Waiting, ServiceTypeOK
      <4> QED BY <3>2, <4>1, <4>2, PlacesStay DEF PlacesOK
    <3>3. CASE UNCHANGED <<guard, zap, asked, client>>
      BY <1>1, <3>3
    <3> QED BY <2>2, <3>1, <3>2, <3>3 DEF GuardPolls
  <2>3. CASE GuardAnswers(s)
    <3>1. PICK answer \in {"admitted", "refused"} :
            LET answered == [client EXCEPT ![asked[s]] = answer]
            IN IF parting[s]
                 THEN /\ guard' = [guard EXCEPT ![s] = "left"]
                      /\ zap' = [zap EXCEPT ![s] = << >>]
                      /\ client' = [c \in Clients |->
                                      IF c \in {zap[s][i] : i \in DOMAIN zap[s]}
                                        THEN "dropped" ELSE answered[c]]
                 ELSE /\ guard' = [guard EXCEPT ![s] = "polling"]
                      /\ client' = answered
                      /\ UNCHANGED zap
      BY <2>3 DEF GuardAnswers
    <3>2. /\ guard[s] = "answering" /\ asked' = [asked EXCEPT ![s] = NoClient]
          /\ asked[s] \in Clients
      BY <2>3 DEF GuardAnswers, WaitingOK
    <3>3. \A t \in AllSides \ {s} :
            zap'[t] = zap[t] /\ guard'[t] = guard[t] /\ Waiting(t)' = Waiting(t)
      <4>1. /\ zap' = [zap EXCEPT ![s] = << >>] \/ zap' = zap
            /\ guard' = [guard EXCEPT ![s] = "left"] \/ guard' = [guard EXCEPT ![s] = "polling"]
        BY <3>1
      <4> QED BY <3>2, <4>1 DEF Waiting, ServiceTypeOK
    <3>4. /\ guard'[s] \in {"left", "polling"}
          /\ guard'[s] = "left" => zap'[s] = << >>
      BY <3>1 DEF ServiceTypeOK
    <3>5. ASSUME NEW c \in Clients, client'[c] = "asking"
          PROVE  /\ client[c] = "asking"
                 /\ c \in Waiting(s) => c \in Waiting(s)'
      <4>1. CASE parting[s]
        <5>1. /\ c \notin Elements(zap[s])
              /\ client'[c] = [client EXCEPT ![asked[s]] = answer][c]
          BY <3>1, <3>5, <4>1 DEF Elements
        <5>2. c # asked[s] /\ client[c] = "asking"
          BY <3>2, <3>5, <5>1 DEF ServiceTypeOK
        <5> QED BY <5>1, <5>2 DEF Waiting
      <4>2. CASE ~parting[s]
        <5>1. client' = [client EXCEPT ![asked[s]] = answer] /\ zap' = zap
          BY <3>1, <4>2
        <5>2. c # asked[s] /\ client[c] = "asking"
          BY <3>2, <3>5, <5>1 DEF ServiceTypeOK
        <5> QED BY <5>1, <5>2 DEF Waiting
      <4> QED BY <4>1, <4>2
    <3> QED BY <3>3, <3>4, <3>5, PlacesStay DEF PlacesOK
  <2> QED BY <1>9, <2>1, <2>2, <2>3 DEF GuardActs, GuardStep
<1>10. CASE UNCHANGED vars
  BY <1>1, <1>10 DEF vars, serviceVars, clientVars
<1> QED
  BY <1>3, <1>4, <1>5, <1>6, <1>7, <1>8, <1>9, <1>10 DEF Next, OwnerActs

(* Which threads run, before a step and after it.                          *)
LEMMA ThreadsNow ==
  /\ Worker \in Threads <=> Lives /\ worker \notin {"none", "left"}
  /\ \A s \in AllSides : Guard(s) \in Threads <=> Lives /\ guard[s] \notin {"none", "left"}
  /\ \A t \in Threads : t = Worker \/ \E s \in AllSides : t = Guard(s)
  /\ \A s \in AllSides : Guard(s) # Worker /\ Guard(s).role = "guard"
  /\ \A s, u \in AllSides : Guard(s) = Guard(u) => s = u
  /\ \A t : t \in Team <=> t = Worker \/ \E i \in DOMAIN Sides : t = Guard(Sides[i])
<1>1. \A s : Guard(s) # Worker /\ Guard(s).role = "guard" /\ Guard(s).side = s
  BY DEF Guard, Worker
<1> QED BY <1>1 DEF Threads, Team

LEMMA ThreadsNext ==
  /\ (Worker \in Threads)' <=> Lives' /\ worker' \notin {"none", "left"}
  /\ \A s \in AllSides :
       (Guard(s) \in Threads)' <=> Lives' /\ guard'[s] \notin {"none", "left"}
  /\ \A t \in Threads' : t = Worker \/ \E s \in AllSides : t = Guard(s)
<1>1. Worker' = Worker /\ \A s : Guard(s)' = Guard(s)
  BY DEF Guard, Worker
<1>2. \A s : Guard(s) # Worker /\ Guard(s).role = "guard" /\ Guard(s).side = s
  BY DEF Guard, Worker
<1> QED BY <1>1, <1>2 DEF Threads

LEMMA SameThreads ==
  ASSUME Lives' <=> Lives,
         worker' \in {"none", "left"} <=> worker \in {"none", "left"},
         \A s \in AllSides : guard'[s] \in {"none", "left"} <=> guard[s] \in {"none", "left"}
  PROVE  Threads' = Threads
<1>1. Worker' = Worker /\ \A s : Guard(s)' = Guard(s)
  BY DEF Guard, Worker
<1>2. \A s : Guard(s) # Worker /\ Guard(s).side = s
  BY DEF Guard, Worker
<1> QED BY <1>1, <1>2 DEF Threads

LEMMA PhaseNow ==
  /\ owner \in {"opening", "hung", "binding"} => Phase = "down"
  /\ owner = "idle" => Phase = IF Threads = {} THEN "down" ELSE "up"
  /\ owner \in {"looking", "telling", "cutting", "guards", "joining", "joiningGuards"} =>
       Phase = "stopping"
  /\ owner \in {"spawning", "resting"} => Phase = "starting"
  /\ owner \in {"failed", "aborted", "left"} => Phase = "over"
BY DEF Phase

LEMMA PhaseNext ==
  /\ owner' \in {"opening", "hung", "binding"} => Phase' = "down"
  /\ owner' = "idle" => Phase' = IF Threads' = {} THEN "down" ELSE "up"
  /\ owner' \in {"looking", "telling", "cutting", "guards", "joining", "joiningGuards"} =>
       Phase' = "stopping"
  /\ owner' \in {"spawning", "resting"} => Phase' = "starting"
  /\ owner' \in {"failed", "aborted", "left"} => Phase' = "over"
BY DEF Phase

(* The invariant that the refinement rests on.                             *)
PromiseInv ==
  /\ OwnerTypeOK /\ ServiceTypeOK /\ WorkerOK /\ SidesOK /\ WaitingOK
  /\ WorkerEndsOK /\ GuardsEndOK /\ TeamOK /\ PlacesOK

(* No thread starts or ends, no client moves, and the owner, if it goes on,*)
(* stays within its phase.                                                 *)
LEMMA Stutters ==
  ASSUME use' = use, client' = client, Threads' = Threads, Phase' = Phase
  PROVE  UNCHANGED Promise!vars
<1>1. Team' = Team
  BY DEF Team, Sides, Guard, Worker
<1> QED BY <1>1 DEF Promise!vars

LEMMA TeamStays == ASSUME use' = use PROVE Team' = Team
BY DEF Team, Sides, Guard, Worker

(* The program ends.                                                       *)
LEMMA EndsProgram ==
  ASSUME OwnerTypeOK, use' = use, client' = client, Lives,
         owner' \in {"failed", "aborted"}
  PROVE  Promise!Next
<1>1. Threads' = {}
  BY DEF Threads, Lives
<1>2. Phase' = "over" /\ Phase # "over"
  BY PhaseNow, PhaseNext DEF Lives, OwnerTypeOK
<1> QED BY <1>1, <1>2, TeamStays DEF Promise!Next, Promise!ProgramEnds

LEMMA OwnerStays ==
  ASSUME use' = use, client' = client, owner' = owner,
         worker' \in {"none", "left"} <=> worker \in {"none", "left"},
         \A s \in AllSides : guard'[s] \in {"none", "left"} <=> guard[s] \in {"none", "left"}
  PROVE  UNCHANGED Promise!vars
<1>1. Threads' = Threads
  BY SameThreads DEF Lives
<1>2. Phase' = Phase
  BY <1>1 DEF Phase
<1> QED BY <1>1, <1>2, Stutters

(* The owner goes on within stop().                                        *)
LEMMA StopGoesOn ==
  ASSUME use' = use, client' = client,
         {owner, owner'} \subseteq {"looking", "telling", "cutting", "guards", "joining",
                                    "joiningGuards"},
         worker' \in {"none", "left"} <=> worker \in {"none", "left"}, guard' = guard
  PROVE  UNCHANGED Promise!vars
<1>1. Threads' = Threads
  BY SameThreads DEF Lives
<1>2. Phase' = "stopping" /\ Phase = "stopping"
  BY PhaseNow, PhaseNext
<1> QED BY <1>1, <1>2, Stutters

(* An owner that is idle has no thread, or the service's team.             *)
LEMMA NoThreadsNow == NoThreads => Threads = {}
BY ThreadsNow DEF NoThreads

LEMMA PromiseCalls ==
  ASSUME PromiseInv, Lives, use' = use, NEW c \in {"initialize", "start", "stop", "leave"}, CallsTo(c)
  PROVE  [Promise!Next]_(Promise!vars)
<1>1. /\ owner = "idle" /\ UNCHANGED <<worker, guard, client>>
      /\ owner' \in {"looking", "telling", "binding", "spawning"}
      /\ owner' \in {"binding", "spawning"} => use.kind = "raw" /\ worker = "none"
  BY DEF CallsTo, workerVars, serviceVars, clientVars
<1>2. Threads' = Threads
  BY <1>1, SameThreads DEF Lives
<1>3. Phase \in {"down", "up"} /\ (Threads = {} => Phase = "down")
  BY <1>1, PhaseNow
<1>4. CASE owner' \in {"looking", "telling"}
  <2>1. Phase' = "stopping"
    BY <1>4, PhaseNext
  <2> QED BY <1>1, <1>2, <1>3, <2>1, TeamStays DEF Promise!Next, Promise!BeginsStop
<1>5. CASE owner' \in {"binding", "spawning"}
  <2>1. NoThreads
    BY <1>1, <1>5 DEF NoThreads, PromiseInv, SidesOK, Sides
  <2>2. Phase = "down"
    BY <1>3, <2>1, NoThreadsNow
  <2>3. CASE owner' = "binding"
    BY <1>1, <1>2, <2>2, <2>3, PhaseNext, Stutters
  <2>4. CASE owner' = "spawning"
    BY <1>1, <1>2, <2>2, <2>4, PhaseNext, TeamStays DEF Promise!Next, Promise!BeginsStart
  <2> QED BY <1>5, <2>3, <2>4
<1> QED BY <1>1, <1>4, <1>5

(* stop() comes back from its joins.                                       *)
LEMMA PromiseJoins ==
  ASSUME PromiseInv, Lives, use' = use, JoinsGuards
  PROVE  [Promise!Next]_(Promise!vars)
<1>1. /\ owner = "joiningGuards" /\ owner' \in {"binding", "spawning", "idle", "left"}
      /\ worker = "none" /\ worker' = "none" /\ client' = client
      /\ \A s \in AllSides : guard[s] \in {"none", "left"} /\ guard'[s] = "none"
  BY DEF JoinsGuards, OwnerGoes, PromiseInv, OwnerTypeOK, CallOK, WorkerOK, workerVars, clientVars
<1>2. Threads = {} /\ Threads' = {}
  BY <1>1, ThreadsNow, ThreadsNext
<1>3. Phase = "stopping" /\ Phase' \in {"down", "starting", "over"}
  BY <1>1, <1>2, PhaseNow, PhaseNext
<1>4. \A s \in AllSides : Waiting(s) = {}
  BY <1>1 DEF PromiseInv, PlacesOK, Waiting, Elements
<1>5. \A c \in Clients : client[c] # "asking"
  BY <1>4 DEF PromiseInv, PlacesOK
<1> QED BY <1>1, <1>2, <1>3, <1>5, TeamStays DEF Promise!Next, Promise!Returns

(* start() makes threads.                                                  *)
LEMMA MakesThreads ==
  ASSUME use' = use, client' = client, Phase = "starting",
         NEW made, made # {}, made \subseteq Team, made \cap Threads = {},
         Threads' = Threads \cup made,
         Phase' = IF Threads' = Team THEN "up" ELSE "starting"
  PROVE  Promise!Next
<1>1. made \in (SUBSET (Team \ Threads)) \ {{}}
  OBVIOUS
<1> QED BY <1>1, TeamStays DEF Promise!Next, Promise!Makes

LEMMA PromiseSpawns ==
  ASSUME PromiseInv, Lives, use' = use, Spawns
  PROVE  [Promise!Next]_(Promise!vars)
<1>1. /\ owner = "spawning" /\ worker = "none" /\ client' = client
      /\ \A s \in AllSides : guard[s] = "none"
      /\ owner' \in {"idle", "resting", "aborted"}
  BY DEF Spawns, OwnerGoes, PromiseInv, WorkerOK, SidesOK, clientVars
<1>2. Threads = {} /\ Phase = "starting"
  BY <1>1, ThreadsNow, PhaseNow
<1>3. \A i \in DOMAIN Sides : Sides[i] \in AllSides
  BY SidesFunction DEF PromiseInv
<1>4. use.kind = "raw" => DOMAIN Sides = {}
  BY DEF Sides
<1>5. use.kind # "raw" => 1 \in DOMAIN Sides
  BY DEF Sides
<1>6. CASE owner' = "aborted"
  BY <1>1, <1>6, EndsProgram DEF PromiseInv
<1>7. CASE owner' # "aborted" /\ use.kind \in {"raw", "directory"}
  <2>1. /\ worker' = "begun" /\ guard' = guard
        /\ owner' = IF use.kind = "raw" THEN "idle" ELSE "resting"
    BY <1>7 DEF Spawns, OwnerGoes
  <2>2. Lives'
    BY <2>1 DEF Lives
  <2>3. Threads' = {Worker}
    BY <1>1, <2>1, <2>2, ThreadsNext
  <2>4. Worker \in Team
    BY ThreadsNow
  <2>5. Phase' = IF Threads' = Team THEN "up" ELSE "starting"
    <3>1. CASE use.kind = "raw"
      <4>1. Team = {Worker} /\ Threads' # {}
        BY <1>4, <2>3, <3>1, ThreadsNow
      <4> QED BY <2>1, <2>3, <3>1, <4>1, PhaseNext
    <3>2. CASE use.kind = "directory"
      <4>1. Guard(Sides[1]) \in Team /\ Guard(Sides[1]) # Worker
        BY <1>3, <1>5, <3>2, ThreadsNow
      <4> QED BY <2>1, <2>3, <3>2, <4>1, PhaseNext
    <3> QED BY <1>7, <3>1, <3>2
  <2>6. Promise!Next
    BY <1>1, <1>2, <2>3, <2>4, <2>5, MakesThreads
  <2> QED BY <2>6
<1>8. CASE owner' # "aborted" /\ use.kind \notin {"raw", "directory"}
  <2>1. worker' = worker /\ BeginsGuards /\ owner' = "resting"
    BY <1>8 DEF Spawns, OwnerGoes
  <2>2. Lives'
    BY <2>1 DEF Lives
  <2>3. \A s \in AllSides :
          guard'[s] = IF \E i \in DOMAIN Sides : s = Sides[i] THEN "begun" ELSE "none"
    BY <1>1, <2>1 DEF BeginsGuards
  <2>4. Threads' = Team \ {Worker}
    <3>1. \A t \in Threads' : t \in Team \ {Worker}
      BY <1>1, <2>1, <2>3, ThreadsNow, ThreadsNext
    <3>2. \A t \in Team \ {Worker} : t \in Threads'
      <4>1. ASSUME NEW i \in DOMAIN Sides PROVE Guard(Sides[i]) \in Threads'
        <5>1. guard'[Sides[i]] = "begun"
          BY <1>3, <2>3
        <5>2. (Guard(Sides[i]) \in Threads)' = (Guard(Sides[i]) \in Threads')
          BY DEF Guard, Sides
        <5>3. Sides[i] \in AllSides /\ \A s : Guard(s)' = Guard(s)
          BY <1>3 DEF Guard
        <5> QED BY <2>2, <5>1, <5>3, ThreadsNext
      <4> QED BY <4>1, ThreadsNow
    <3> QED BY <3>1, <3>2
  <2>5. Guard(Sides[1]) \in Team \ {Worker} /\ Worker \in Team
    BY <1>3, <1>5, <1>8, ThreadsNow
  <2>6. Phase' = "starting" /\ Threads' # Team /\ Threads' # {}
    BY <2>1, <2>4, <2>5, PhaseNext
  <2>7. Promise!Next
    BY <1>1, <1>2, <2>4, <2>6, MakesThreads
  <2> QED BY <2>7
<1> QED BY <1>6, <1>7, <1>8

LEMMA PromiseRests ==
  ASSUME PromiseInv, Lives, use' = use, Rests
  PROVE  [Promise!Next]_(Promise!vars)
<1>1. owner = "resting" /\ owner' = "idle" /\ Lives' /\ client' = client
  BY DEF Rests, OwnerGoes, Lives, clientVars
<1>2. \A i \in DOMAIN Sides : Sides[i] \in AllSides
  BY SidesFunction DEF PromiseInv
<1>3. use.kind \in {"directory", "service", "broadcast", "split", "raw"} /\ Phase = "starting"
  BY <1>1, PhaseNow, UsesAssumption DEF PromiseInv, OwnerTypeOK, ServiceKinds
<1>4. worker # "left" /\ \A s \in AllSides : guard[s] # "left"
  BY <1>1 DEF PromiseInv, WorkerEndsOK, GuardsEndOK, GuardEnds, Dismissing, Stopping
<1>5. \A s \in AllSides : guard[s] # "none" => \E i \in DOMAIN Sides : s = Sides[i]
  BY DEF PromiseInv, SidesOK
<1>6. /\ worker' \notin {"none", "left"}
      /\ \A s \in AllSides : guard'[s] \notin {"none", "left"} <=> \E i \in DOMAIN Sides : s = Sides[i]
      /\ use.kind = "directory" => worker # "none" /\ \A s \in AllSides : guard[s] = "none"
      /\ use.kind # "directory" => worker = "none" /\ guard' = guard
  <2>1. CASE use.kind = "directory"
    <3>1. worker' = worker /\ worker # "none" /\ BeginsGuards /\ \A s \in AllSides : guard[s] = "none"
      BY <1>1, <2>1 DEF Rests, PromiseInv, TeamOK, SidesOK
    <3>2. \A s \in AllSides :
            guard'[s] = IF \E i \in DOMAIN Sides : s = Sides[i] THEN "begun" ELSE "none"
      BY <3>1 DEF BeginsGuards
    <3> QED BY <1>4, <2>1, <3>1, <3>2
  <2>2. CASE use.kind # "directory"
    <3>1. worker' = "begun" /\ worker = "none" /\ guard' = guard /\ GuardsMade
      BY <1>1, <2>2 DEF Rests, PromiseInv, TeamOK, WorkerOK
    <3> QED BY <1>2, <1>4, <1>5, <2>2, <3>1 DEF GuardsMade
  <2> QED BY <2>1, <2>2
<1>7. Threads' = Team
  <2>1. \A s : Guard(s)' = Guard(s)
    BY DEF Guard
  <2>2. \A t \in Threads' : t \in Team
    BY <1>6, ThreadsNow, ThreadsNext
  <2>3. ASSUME NEW i \in DOMAIN Sides PROVE Guard(Sides[i]) \in Threads'
    <3>1. Sides[i] \in AllSides /\ guard'[Sides[i]] \notin {"none", "left"}
      BY <1>2, <1>6
    <3> QED BY <1>1, <2>1, <3>1, ThreadsNext
  <2>4. Worker \in Threads'
    BY <1>1, <1>6, ThreadsNext DEF Worker
  <2>5. \A t \in Team : t \in Threads'
    BY <2>3, <2>4, ThreadsNow
  <2> QED BY <2>2, <2>5
<1>8. Worker \in Team
  BY ThreadsNow
<1>9. Threads \subseteq Team
  BY <1>5, ThreadsNow
<1>10. Phase' = "up"
  BY <1>1, <1>7, <1>8, PhaseNext
<1>11. Team \ Threads # {}
  <2>1. CASE use.kind = "directory"
    <3>1. 1 \in DOMAIN Sides
      BY <2>1 DEF Sides
    <3>2. Guard(Sides[1]) \in Team /\ Guard(Sides[1]) \notin Threads
      BY <1>2, <1>6, <2>1, <3>1, ThreadsNow
    <3> QED BY <3>2
  <2>2. CASE use.kind # "directory"
    BY <1>6, <1>8, <2>2, ThreadsNow
  <2> QED BY <2>1, <2>2
<1>12. Promise!Next
  <2> DEFINE made == Team \ Threads
  <2>1. made # {} /\ made \subseteq Team /\ made \cap Threads = {} /\ Threads' = Threads \cup made
    BY <1>7, <1>9, <1>11
  <2>2. Phase' = IF Threads' = Team THEN "up" ELSE "starting"
    BY <1>7, <1>10
  <2> HIDE DEF made
  <2> QED BY <1>1, <1>3, <2>1, <2>2, MakesThreads
<1> QED BY <1>12

(* A thread leaves, which it does only while the owner stops the service.  *)
LEMMA ThreadEnds ==
  ASSUME use' = use, Phase = "stopping", Phase' = Phase, NEW t \in Threads,
         Threads' = Threads \ {t}, client' \in [Clients -> Promise!Fates],
         \A c \in Clients : client'[c] # client[c] =>
           /\ t.role = "guard" /\ client[c] = "asking"
           /\ client'[c] \in {"admitted", "refused", "dropped"}
  PROVE  Promise!Next
BY TeamStays DEF Promise!Next, Promise!Ends

LEMMA PromiseWorker ==
  ASSUME PromiseInv, WorkerEndsOK', Lives, use' = use, WorkerActs
  PROVE  [Promise!Next]_(Promise!vars)
<1>1. UNCHANGED <<guard, client>>
  BY DEF WorkerActs, WorkerBegins, WorkerReady, WorkerLeaves, WorkerObeys,
         WorkerFinishes, serviceVars, clientVars
<1>2. CASE WorkerBegins
  <2>1. CASE owner' = owner
    <3>1. worker = "begun" /\ worker' \in {"readied", "begun"}
      BY <1>2, <2>1 DEF WorkerBegins, Aborts
    <3> QED BY <1>1, <2>1, <3>1, OwnerStays
  <2>2. CASE owner' = "aborted"
    BY <1>1, <2>2, EndsProgram DEF PromiseInv
  <2> QED BY <1>2, <2>1, <2>2 DEF WorkerBegins, Aborts
<1>3. CASE WorkerReady \/ WorkerObeys
  <2>1. owner' = owner /\ worker \notin {"none", "left"} /\ worker' \notin {"none", "left"}
    <3>1. CASE WorkerReady
      BY <3>1 DEF WorkerReady, WorkerGoes, ownerVars
    <3>2. CASE WorkerObeys
      BY <3>2 DEF WorkerObeys, ownerVars
    <3> QED BY <1>3, <3>1, <3>2
  <2> QED BY <1>1, <2>1, OwnerStays
<1>4. CASE WorkerLeaves \/ WorkerFinishes
  <2>1. /\ owner' = owner /\ worker \in {"working", "steered"} /\ worker' = "left"
    BY <1>4 DEF WorkerLeaves, WorkerFinishes, WorkerGoes, ownerVars
  <2>2. owner \in Stopping
    BY <2>1 DEF WorkerEndsOK, Lives
  <2>3. Phase = "stopping" /\ Phase' = Phase
    BY <2>1, <2>2, PhaseNow, PhaseNext DEF Stopping
  <2>4. Lives' /\ Worker' = Worker /\ \A s : Guard(s)' = Guard(s)
    BY <2>1 DEF Lives, Worker, Guard
  <2>5. Worker \in Threads /\ Worker \notin Threads'
    BY <2>1, <2>4, ThreadsNow, ThreadsNext
  <2>6. \A s \in AllSides : Guard(s) \in Threads' <=> Guard(s) \in Threads
    BY <1>1, <2>4, ThreadsNow, ThreadsNext
  <2>7. Threads' = Threads \ {Worker}
    BY <2>5, <2>6, ThreadsNow, ThreadsNext
  <2>8. client' \in [Clients -> Promise!Fates] /\ client' = client
    BY <1>1 DEF PromiseInv, ServiceTypeOK, Promise!Fates
  <2>9. Promise!Next
    BY <2>3, <2>5, <2>7, <2>8, ThreadEnds
  <2> QED BY <2>9
<1> QED BY <1>2, <1>3, <1>4 DEF WorkerActs

(* A guard that leaves: what is true of its place, its owner and the       *)
(* clients that it leaves behind.                                          *)
LEMMA PromiseGuardLeaves ==
  ASSUME PromiseInv, Lives, use' = use, NEW s \in AllSides,
         UNCHANGED <<owner, worker>>, GuardEnds(s),
         guard[s] \notin {"none", "left"}, guard' = [guard EXCEPT ![s] = "left"],
         \A c \in Clients : client'[c] # client[c] =>
           client[c] = "asking" /\ client'[c] \in {"admitted", "refused", "dropped"},
         ServiceTypeOK'
  PROVE  Promise!Next
<1>1. owner \in {"guards", "joining", "joiningGuards"}
  BY DEF PromiseInv, GuardsEndOK, Dismissing, Lives
<1>2. Phase = "stopping" /\ Phase' = Phase
  BY <1>1, PhaseNow, PhaseNext
<1>3. Lives' /\ Worker' = Worker /\ \A t : Guard(t)' = Guard(t)
  BY DEF Lives, Worker, Guard
<1>4. guard'[s] = "left" /\ \A t \in AllSides \ {s} : guard'[t] = guard[t]
  BY DEF PromiseInv, ServiceTypeOK
<1>5. Guard(s) \in Threads /\ Guard(s) \notin Threads' /\ Guard(s).role = "guard"
  BY <1>3, <1>4, ThreadsNow, ThreadsNext
<1>6. \A t \in AllSides \ {s} : Guard(t) \in Threads' <=> Guard(t) \in Threads
  BY <1>3, <1>4, ThreadsNow, ThreadsNext
<1>7. Worker \in Threads' <=> Worker \in Threads
  BY <1>3, ThreadsNow, ThreadsNext
<1>8. Threads' = Threads \ {Guard(s)}
  BY <1>5, <1>6, <1>7, ThreadsNow, ThreadsNext
<1>9. client' \in [Clients -> Promise!Fates]
  BY DEF ServiceTypeOK, Promise!Fates
<1> QED BY <1>2, <1>5, <1>8, <1>9, ThreadEnds

LEMMA PromiseGuards ==
  ASSUME PromiseInv, ServiceTypeOK', Lives, use' = use, NEW s \in AllSides, GuardActs(s)
  PROVE  [Promise!Next]_(Promise!vars)
<1>1. UNCHANGED <<owner, worker>>
  BY DEF GuardActs, ownerVars, workerVars
<1>2. guard \in [AllSides -> {"none", "begun", "bound", "polling", "answering", "left"}]
  BY DEF PromiseInv, ServiceTypeOK
<1>3. ASSUME client' = client, guard[s] \notin {"none", "left"},
             NEW to \in {"bound", "polling", "answering"}, guard' = [guard EXCEPT ![s] = to]
      PROVE  [Promise!Next]_(Promise!vars)
  <2>1. \A t \in AllSides : guard'[t] \in {"none", "left"} <=> guard[t] \in {"none", "left"}
    BY <1>2, <1>3
  <2> QED BY <1>1, <1>3, <2>1, OwnerStays
<1>4. CASE GuardBinds(s) \/ GuardReady(s)
  BY <1>3, <1>4 DEF GuardBinds, GuardReady, Goes, clientVars
<1>5. CASE GuardPolls(s)
  <2>1. guard[s] = "polling"
    BY <1>5 DEF GuardPolls
  <2>2. CASE zap[s] # << >>
    BY <1>3, <1>5, <2>1, <2>2 DEF GuardPolls
  <2>3. CASE zap[s] = << >> /\ pipe[s] # << >> /\ Head(pipe[s]) = "TERMINATE" /\ GuardLeaves(s)
    <3>1. pipe[s] \in Seq({"ALLOW", "TERMINATE"})
      BY DEF PromiseInv, ServiceTypeOK
    <3>2. GuardEnds(s)
      BY <2>3, <3>1 DEF GuardEnds, Holds
    <3>3. guard' = [guard EXCEPT ![s] = "left"] /\ client' = client
      BY <2>3 DEF GuardLeaves, PromiseInv, ServiceTypeOK
    <3>4. Promise!Next
      BY <1>1, <2>1, <3>2, <3>3, PromiseGuardLeaves
    <3> QED BY <3>4
  <2>4. CASE UNCHANGED <<guard, client>>
    BY <1>1, <2>4, OwnerStays
  <2> QED BY <1>5, <2>2, <2>3, <2>4 DEF GuardPolls
<1>6. CASE GuardAnswers(s)
  <2>1. /\ guard[s] = "answering" /\ asked[s] \in Clients
        /\ \A c \in Elements(zap[s]) \cup {asked[s]} : client[c] = "asking"
    BY <1>6 DEF GuardAnswers, PromiseInv, WaitingOK, Waiting
  <2>2. PICK answer \in {"admitted", "refused"} :
          LET answered == [client EXCEPT ![asked[s]] = answer]
          IN IF parting[s]
               THEN /\ guard' = [guard EXCEPT ![s] = "left"]
                    /\ zap' = [zap EXCEPT ![s] = << >>]
                    /\ client' = [c \in Clients |->
                                    IF c \in {zap[s][i] : i \in DOMAIN zap[s]}
                                      THEN "dropped" ELSE answered[c]]
               ELSE /\ guard' = [guard EXCEPT ![s] = "polling"]
                    /\ client' = answered
                    /\ UNCHANGED zap
    BY <1>6 DEF GuardAnswers
  <2>3. CASE parting[s]
    <3>1. /\ guard' = [guard EXCEPT ![s] = "left"]
          /\ client' = [c \in Clients |->
                          IF c \in Elements(zap[s]) THEN "dropped"
                          ELSE [client EXCEPT ![asked[s]] = answer][c]]
      BY <2>2, <2>3 DEF Elements
    <3>2. \A c \in Clients : client'[c] # client[c] =>
            client[c] = "asking" /\ client'[c] \in {"admitted", "refused", "dropped"}
      BY <2>1, <3>1 DEF PromiseInv, ServiceTypeOK
    <3>3. GuardEnds(s)
      BY <2>1, <2>3 DEF GuardEnds
    <3>4. Promise!Next
      BY <1>1, <2>1, <3>1, <3>2, <3>3, PromiseGuardLeaves
    <3> QED BY <3>4
  <2>4. CASE ~parting[s]
    <3>1. guard' = [guard EXCEPT ![s] = "polling"] /\ client' = [client EXCEPT ![asked[s]] = answer]
      BY <2>2, <2>4
    <3>2. \A t \in AllSides : guard'[t] \in {"none", "left"} <=> guard[t] \in {"none", "left"}
      BY <1>2, <2>1, <3>1
    <3>3. Lives' <=> Lives
      BY <1>1 DEF Lives
    <3>4. Threads' = Threads
      BY <1>1, <3>2, <3>3, SameThreads
    <3>5. Phase' = Phase
      BY <1>1, <3>4 DEF Phase
    <3>6. Promise!Guarded
      BY <2>1, ThreadsNow DEF Promise!Guarded
    <3>7. Promise!Answered(asked[s])
      BY <2>1, <3>1, <3>4, <3>5, <3>6 DEF Promise!Answered
    <3>8. Promise!Next
      BY <2>1, <3>7, TeamStays DEF Promise!Next
    <3> QED BY <3>8
  <2> QED BY <2>3, <2>4
<1> QED BY <1>4, <1>5, <1>6 DEF GuardActs, GuardStep

LEMMA PromiseClients ==
  ASSUME PromiseInv, Lives, use' = use, ClientAsks
  PROVE  [Promise!Next]_(Promise!vars)
<1>1. PICK c \in Clients, s \in AllSides : Asks(c, s)
  BY DEF ClientAsks
<1>2. UNCHANGED <<owner, worker, guard>> /\ guard[s] \notin {"none", "left"}
  BY <1>1 DEF ClientAsks, Asks, ownerVars, workerVars
<1>3. Lives' <=> Lives
  BY <1>2 DEF Lives
<1>4. Threads' = Threads
  BY <1>2, <1>3, SameThreads
<1>5. Phase' = Phase
  BY <1>2, <1>4 DEF Phase
<1>6. Promise!Guarded
  BY <1>2, ThreadsNow DEF Promise!Guarded
<1>7. Promise!Connects(c)
  BY <1>1, <1>4, <1>5, <1>6 DEF Asks, Promise!Connects
<1> QED BY <1>7, TeamStays DEF Promise!Next

(* Each step of the service is one of its promise, or none.                *)
LEMMA PromiseStep ==
  ASSUME PromiseInv, PromiseInv', [Next]_vars
  PROVE  [Promise!Next]_(Promise!vars)
<1>0. use' = use
  BY UseKept
<1>1. CASE UNCHANGED vars
  BY <1>1, OwnerStays DEF vars, ownerVars, workerVars, serviceVars, clientVars
<1> SUFFICES ASSUME Next PROVE [Promise!Next]_(Promise!vars)
  BY <1>1
<1>2. Lives
  BY DEF Next
<1>3. ASSUME NEW c \in {"initialize", "start", "stop", "leave"}, CallsTo(c)
      PROVE  [Promise!Next]_(Promise!vars)
  BY <1>0, <1>2, <1>3, PromiseCalls
<1>4. CASE Allows \/ Pauses \/ AdminCalls
  BY <1>0, <1>4, OwnerStays
     DEF Allows, Pauses, AdminCalls, Tells, ownerVars, workerVars, serviceVars, clientVars
<1>5. CASE Opens
  <2>1. owner = "opening" /\ owner' \in {"idle", "failed", "hung"} /\ UNCHANGED <<worker, guard, client>>
    BY <1>5 DEF Opens, OwnerGoes, workerVars, serviceVars, clientVars
  <2>2. CASE owner' = "failed"
    BY <1>0, <1>2, <2>1, <2>2, EndsProgram DEF PromiseInv
  <2>3. CASE owner' \in {"idle", "hung"}
    <3>1. Threads = {} /\ Threads' = Threads
      BY <1>2, <2>1, <2>3, NoThreadsNow, SameThreads DEF PromiseInv, TeamOK, Lives
    <3>2. Phase = "down" /\ Phase' = "down"
      BY <2>1, <2>3, <3>1, PhaseNow, PhaseNext
    <3> QED BY <1>0, <2>1, <3>1, <3>2, Stutters
  <2> QED BY <2>1, <2>2, <2>3
<1>6. CASE Looks \/ Told \/ TellsGuards \/ Joins
  <2>1. /\ client' = client /\ guard' = guard
        /\ worker' \in {"none", "left"} <=> worker \in {"none", "left"}
        /\ owner \in {"looking", "telling", "guards", "joining"}
        /\ owner' \in {"telling", "guards", "cutting", "joining", "joiningGuards"}
    <3>1. CASE Looks \/ Told
      BY <3>1 DEF Looks, Told, OwnerGoes, workerVars, serviceVars, clientVars
    <3>2. CASE TellsGuards
      BY <3>2 DEF TellsGuards, Tells, workerVars, serviceVars, clientVars
    <3>3. CASE Joins
      BY <3>3 DEF Joins, OwnerGoes, serviceVars, clientVars
    <3> QED BY <1>6, <3>1, <3>2, <3>3
  <2> QED BY <1>0, <2>1, StopGoesOn
<1>7. CASE Cuts
  <2>1. owner = "cutting" /\ owner' \in {"guards", "aborted"} /\ UNCHANGED <<worker, guard, client>>
    BY <1>7 DEF Cuts, OwnerGoes, serviceVars, clientVars
  <2>2. CASE owner' = "aborted"
    BY <1>0, <1>2, <2>1, <2>2, EndsProgram DEF PromiseInv
  <2>3. CASE owner' = "guards"
    BY <1>0, <2>1, <2>3, StopGoesOn
  <2> QED BY <2>1, <2>2, <2>3
<1>8. CASE JoinsGuards
  BY <1>0, <1>2, <1>8, PromiseJoins
<1>9. CASE Binds
  <2>1. owner = "binding" /\ owner' = "idle" /\ UNCHANGED <<worker, guard, client>>
    BY <1>9 DEF Binds, OwnerGoes, serviceVars, clientVars
  <2>2. Threads = {} /\ Threads' = Threads
    BY <2>1, NoThreadsNow, SameThreads DEF PromiseInv, TeamOK, Lives
  <2>3. Phase = "down" /\ Phase' = "down"
    BY <2>1, <2>2, PhaseNow, PhaseNext
  <2> QED BY <1>0, <2>1, <2>2, <2>3, Stutters
<1>10. CASE Spawns
  BY <1>0, <1>2, <1>10, PromiseSpawns
<1>11. CASE Rests
  BY <1>0, <1>2, <1>11, PromiseRests
<1>12. CASE WorkerActs
  BY <1>0, <1>2, <1>12, PromiseWorker DEF PromiseInv
<1>13. ASSUME NEW s \in AllSides, GuardActs(s)
       PROVE  [Promise!Next]_(Promise!vars)
  BY <1>0, <1>2, <1>13, PromiseGuards DEF PromiseInv
<1>14. ASSUME NEW a \in Admins, AdminActs(a)
       PROVE  [Promise!Next]_(Promise!vars)
  <2>1. UNCHANGED <<worker, guard, client>>
    BY <1>14 DEF AdminActs, workerVars, serviceVars
  <2>2. CASE owner' = owner
    BY <1>0, <2>1, <2>2, OwnerStays
  <2>3. CASE owner' = "aborted"
    BY <1>0, <1>2, <2>1, <2>3, EndsProgram DEF PromiseInv
  <2> QED BY <1>14, <2>2, <2>3 DEF AdminActs, AdminStep
<1>15. CASE ClientAsks
  BY <1>0, <1>2, <1>15, PromiseClients
<1> QED
  BY <1>3, <1>4, <1>5, <1>6, <1>7, <1>8, <1>9, <1>10, <1>11, <1>12, <1>13, <1>14, <1>15
     DEF Next, OwnerCalls, OwnerActs

LEMMA PromiseInit ==
  Init => PromiseInv /\ StoppedOK /\ DismissedOK /\ Promise!Init
<1> SUFFICES ASSUME Init PROVE PromiseInv /\ StoppedOK /\ DismissedOK /\ Promise!Init
  OBVIOUS
<1>1. OwnerTypeOK /\ ServiceTypeOK /\ WorkerOK /\ StoppedOK /\ SidesOK /\ DismissedOK
  BY TypesInit, CausesInit
<1>2. WaitingOK
  BY HandshakeInit DEF MayWait
<1>3. /\ owner = "opening" /\ NoThreads /\ control = << >>
      /\ \A s \in AllSides : guard[s] = "none" /\ zap[s] = << >> /\ pipe[s] = << >>
      /\ client = [c \in Clients |-> "away"]
  BY DEF Init, ServiceInit, NoThreads
<1>4. WorkerEndsOK /\ TeamOK /\ PlacesOK
  BY <1>1, <1>3, ShortSequences DEF WorkerEndsOK, TeamOK, PlacesOK, NoThreads
<1>5. \A s \in AllSides : ~Holds(pipe[s], "TERMINATE") /\ ~GuardEnds(s)
  BY <1>3 DEF Holds, GuardEnds
<1>6. GuardsEndOK
  BY <1>3, <1>5 DEF GuardsEndOK, Holds
<1>7. Threads = {} /\ Phase = "down"
  BY <1>3, NoThreadsNow, PhaseNow
<1>8. Promise!Init
  BY <1>3, <1>7 DEF Promise!Init
<1> QED BY <1>1, <1>2, <1>4, <1>6, <1>8 DEF PromiseInv

(* A service of any kind keeps its promise: it is up with all of its       *)
(* threads from a start() that returned to the call that stops it; a       *)
(* thread ends, and a client loses its place, only during that call; and   *)
(* when it returns there is no thread, and nobody waits.  Flags that come  *)
(* late, commands that are not sent, restarts without initialize() and     *)
(* sockets that are cut make the program end or the call not return, but   *)
(* break nothing of this.                                                  *)
THEOREM ImplementsPromise == Spec => PromiseSpec
<1>1. Init => PromiseInv /\ DismissedOK /\ StoppedOK /\ Promise!Init
  BY PromiseInit
<1>2. PromiseInv /\ DismissedOK /\ StoppedOK /\ [Next]_vars =>
        PromiseInv' /\ DismissedOK' /\ StoppedOK'
  <2> SUFFICES ASSUME PromiseInv, DismissedOK, StoppedOK, [Next]_vars
               PROVE  PromiseInv' /\ DismissedOK' /\ StoppedOK'
    OBVIOUS
  <2>1. OwnerTypeOK' /\ ServiceTypeOK'
    BY OwnerTypesKept, ServiceTypesKept DEF PromiseInv
  <2>2. WorkerOK' /\ StoppedOK' /\ SidesOK' /\ DismissedOK'
    BY WorkerKept, GuardsKept DEF PromiseInv
  <2>3. WaitingOK'
    BY ClientSteps DEF PromiseInv
  <2>4. WorkerEndsOK' /\ GuardsEndOK' /\ TeamOK' /\ PlacesOK'
    BY WorkerEndsKept, GuardsEndKept, TeamKept, PlacesKept DEF PromiseInv
  <2> QED BY <2>1, <2>2, <2>3, <2>4 DEF PromiseInv
<1>3. PromiseInv /\ PromiseInv' /\ [Next]_vars => [Promise!Next]_(Promise!vars)
  BY PromiseStep
<1> QED BY <1>1, <1>2, <1>3, PTL DEF Spec, PromiseSpec, Promise!Spec

-----------------------------------------------------------------------------
(* What an owner can rely on, from the promise alone.                      *)

Whole ==
  /\ Threads \subseteq Team
  /\ Phase = "up" => Threads = Team
  /\ Phase = "down" => Threads = {} /\ \A c \in Clients : client[c] # "asking"

LEMMA WholeKept ==
  ASSUME Whole, [Promise!Next]_(Promise!vars)
  PROVE  Whole'
<1>1. CASE UNCHANGED Promise!vars
  BY <1>1 DEF Whole, Promise!vars
<1>2. CASE UNCHANGED Team /\ (Promise!BeginsStart \/ Promise!BeginsStop \/ Promise!ProgramEnds)
  <2>1. /\ Phase' \in {"starting", "stopping", "over"}
        /\ Threads' \in {Threads, {}}
    BY <1>2 DEF Promise!BeginsStart, Promise!BeginsStop, Promise!ProgramEnds
  <2> QED BY <1>2, <2>1 DEF Whole
<1>3. CASE UNCHANGED Team /\ Promise!Makes
  <2>1. PICK made \in SUBSET (Team \ Threads) : Threads' = Threads \cup made
    BY <1>3 DEF Promise!Makes
  <2>2. Phase' = IF Threads' = Team THEN "up" ELSE "starting"
    BY <1>3 DEF Promise!Makes
  <2> QED BY <1>3, <2>1, <2>2 DEF Whole
<1>4. CASE UNCHANGED Team /\ Promise!Returns
  BY <1>4 DEF Whole, Promise!Returns
<1>5. CASE UNCHANGED Team /\ \E t \in Threads : Promise!Ends(t)
  <2>1. Phase' = "stopping" /\ Threads' \subseteq Threads
    BY <1>5 DEF Promise!Ends
  <2> QED BY <1>5, <2>1 DEF Whole
<1>6. CASE UNCHANGED Team /\ \E c \in Clients : Promise!Connects(c) \/ Promise!Answered(c)
  <2>1. Threads # {} /\ UNCHANGED <<Phase, Threads>>
    BY <1>6 DEF Promise!Connects, Promise!Answered, Promise!Guarded
  <2> QED BY <1>6, <2>1 DEF Whole
<1> QED BY <1>1, <1>2, <1>3, <1>4, <1>5, <1>6 DEF Promise!Next

(* When initialize(), start() or stop() has returned, a service has all of *)
(* its threads, or none of them and no client that waits: not a worker   *)
(* without the guards that should stand before it, and no guard that was   *)
(* forgotten.                                                              *)
THEOREM WholeInvariant == Spec => []Whole
<1>1. Promise!Init => Whole
  BY DEF Promise!Init, Whole
<1>2. Whole /\ [Promise!Next]_(Promise!vars) => Whole'
  BY WholeKept
<1> QED BY <1>1, <1>2, ImplementsPromise, PTL DEF PromiseSpec, Promise!Spec
=============================================================================

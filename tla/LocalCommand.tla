---------------------------- MODULE LocalCommand ----------------------------
(***************************************************************************)
(* Local command: modules on one machine offer a command service over an   *)
(* IPC file and list themselves in the table of local modules; a user's    *)
(* uLocalCommand finds them there.  Class Service of                       *)
(* services/command/service.cpp with the router it runs, seen from the     *)
(* processes that share the table and the directory of IPC files.          *)
(*                                                                         *)
(* A process runs one service: it initializes it (opens the table, binds   *)
(* the IPC file), starts it (claims the row of its name, spawns the        *)
(* router's thread), stops it and destroys it (frees the row and the       *)
(* file).  A step is one SQL statement, one change of the file system or   *)
(* one step of the router's thread.                                        *)
(***************************************************************************)
EXTENDS ModuleTable

CONSTANTS
  NameOf,      (* the module that a process runs                           *)
  Clients,     (* sessions of uLocalCommand                                *)
  NoFile,      (* no IPC file of a name exists                             *)
  NoClient

ASSUME NameAssumption == NameOf \in [Processes -> Names]

ASSUME FileAssumption == NoFile \notin Processes /\ NoClient \notin Clients

VARIABLES
  table,          (* the rows of local_modules                             *)
  endpoint,       (* endpoint[n]: who bound the IPC file of n last         *)
  place,          (* how far each process is                               *)
  seen,           (* seen[p]: the process in the row that p's start read   *)
  router,         (* router[p]: where p's router thread is                 *)
  handling,       (* handling[p]: the client whose request is in callback  *)
  stopRequested,  (* processes whose main thread was asked to stop         *)
  recycled,       (* dead processes whose identifier the system gave away  *)
  overlapped,     (* names of which two processes were alive at once: kept *)
                  (* for the properties, no step depends on it             *)
  client,         (* how far each client is                                *)
  kind,           (* kind[c]: what c asks or asked last                    *)
  connection      (* connection[c]: the process c connected to             *)

processVars == <<place, seen, stopRequested, recycled, overlapped>>
routerVars == <<router, handling>>
clientVars == <<client, kind, connection>>
vars == <<table, endpoint, processVars, routerVars, clientVars>>

Places ==
  {"absent", "hung", "initialized", "querying", "checking",
   "updating", "overwriting", "adding", "refused", "running", "joining",
   "deleting", "dropping", "closing", "gone", "crashed"}

TypeOK ==
  /\ table \in Tables
  /\ endpoint \in [Names -> Processes \cup {NoFile}]
  /\ place \in [Processes -> Places]
  /\ seen \in [Processes -> Processes \cup {NoRow}]
  /\ router \in [Processes -> {"none", "spawned", "serving", "stopping", "left"}]
  /\ handling \in [Processes -> Clients \cup {NoClient}]
  /\ stopRequested \subseteq Processes
  /\ recycled \subseteq Processes
  /\ overlapped \subseteq Names
  /\ client \in [Clients -> {"outside", "asking", "taken", "inside", "left", "crashed"}]
  /\ kind \in [Clients -> {"commands", "terminate"}]
  /\ connection \in [Clients -> Processes \cup {NoFile}]
  /\ \A p \in Processes : place[p] = "checking" => seen[p] # NoRow

Init ==
  /\ table = EmptyTable
  /\ endpoint = [n \in Names |-> NoFile]
  /\ place = [p \in Processes |-> "absent"]
  /\ seen = [p \in Processes |-> NoRow]
  /\ router = [p \in Processes |-> "none"]
  /\ handling = [p \in Processes |-> NoClient]
  /\ stopRequested = {}
  /\ recycled = {}
  /\ overlapped = {}
  /\ client = [c \in Clients |-> "outside"]
  /\ kind = [c \in Clients |-> "commands"]
  /\ connection = [c \in Clients |-> NoFile]

Ended(p) == place[p] \in {"gone", "crashed"}

Alive(p) == place[p] # "absent" /\ ~Ended(p)

Goes(p, from, to) == place[p] = from /\ place' = [place EXCEPT ![p] = to]

(* Somebody else may be in the middle of a statement (one that is absent   *)
(* may be opening the table); no busy handler is set, so a statement that  *)
(* finds the file locked fails at once.                                    *)
Busy(p) ==
  \/ \E q \in Processes \ {p} :
       \/ place[q] \in {"absent", "initialized", "querying", "updating",
                        "overwriting", "adding", "deleting", "dropping"}
       \/ place[q] = "joining" /\ router[q] \in {"none", "left"}
  \/ \E c \in Clients : client[c] = "outside"

-----------------------------------------------------------------------------
(* Initialization: the service's table, then the router's IPC file.        *)

Overlaps(p) ==
  overlapped' = overlapped \cup
    {n \in {NameOf[p]} : \E q \in Processes : NameOf[q] = n /\ Alive(q)}

(* The table is opened, then the file bound; binding replaces whatever     *)
(* file is there.                                                          *)
Initializes(p) ==
  /\ Goes(p, "absent", "initialized")
  /\ endpoint' = [endpoint EXCEPT ![NameOf[p]] = p]
  /\ Overlaps(p)
  /\ UNCHANGED <<table, seen, stopRequested, recycled, routerVars, clientVars>>

(* CREATE TABLE fails: the table is closed under the mutex that open       *)
(* holds already, and the thread waits for itself.                         *)
OpenTableFails(p) ==
  /\ Goes(p, "absent", "hung")
  /\ Busy(p)
  /\ Overlaps(p)
  /\ UNCHANGED <<table, endpoint, seen, stopRequested, recycled, routerVars, clientVars>>

-----------------------------------------------------------------------------
(* start(): claims the row.  An exception is caught by the process         *)
(* manager, and the process carries on without a service ("refused").      *)

StartUnchanged == UNCHANGED <<endpoint, stopRequested, recycled, overlapped, clientVars>>

StartLooks(p) ==
  /\ Goes(p, "initialized", IF HaveModule(table, NameOf[p]) THEN "querying" ELSE "adding")
  /\ UNCHANGED <<table, seen, routerVars>>
  /\ StartUnchanged

(* Mutant: a row that is gone is read as an empty one. *)
StartQueriesBlindly(p) ==
  /\ Goes(p, "querying", "checking")
  /\ seen' = [seen EXCEPT ![p] = table[NameOf[p]]]
  /\ UNCHANGED <<table, routerVars>>
  /\ StartUnchanged

StartQueries(p) ==
  /\ Goes(p, "querying", IF HaveModule(table, NameOf[p]) THEN "checking" ELSE "refused")
  /\ seen' = [seen EXCEPT ![p] = table[NameOf[p]]]
  /\ UNCHANGED <<table, routerVars>>
  /\ StartUnchanged

(* kill(pid, 0) succeeds for whoever has the identifier now. *)
Exists(p) == Alive(p) \/ p \in recycled

(* Mutant: the return code is not looked at. *)
StartChecksNothing(p) ==
  /\ Goes(p, "checking", "updating")
  /\ UNCHANGED <<table, seen, routerVars>>
  /\ StartUnchanged

(* Mutant: the return code is read the wrong way round. *)
StartChecksInverted(p) ==
  /\ Goes(p, "checking", IF Exists(seen[p]) THEN "updating" ELSE "refused")
  /\ seen' = [seen EXCEPT ![p] = IF Exists(@) THEN @ ELSE NoRow]
  /\ UNCHANGED <<table, routerVars>>
  /\ StartUnchanged

StartChecks(p) ==
  /\ Goes(p, "checking", IF Exists(seen[p]) THEN "refused" ELSE "updating")
  /\ seen' = [seen EXCEPT ![p] = IF Exists(@) THEN NoRow ELSE @]
  /\ UNCHANGED <<table, routerVars>>
  /\ StartUnchanged

StartUpdates(p) ==
  /\ Goes(p, "updating",
          IF HaveModule(table, NameOf[p]) THEN "overwriting" ELSE "adding")
  /\ UNCHANGED <<table, seen, routerVars>>
  /\ StartUnchanged

(* The row is claimed, and the router's thread spun off. *)
Spawns(p) ==
  /\ router' = [router EXCEPT ![p] = "spawned"]
  /\ seen' = [seen EXCEPT ![p] = NoRow]
  /\ UNCHANGED handling

(* Mutant: the row keeps the identifier of the dead process. *)
StartKeepsRow(p) ==
  /\ Goes(p, "overwriting", "running")
  /\ Spawns(p)
  /\ UNCHANGED table
  /\ StartUnchanged

StartOverwrites(p) ==
  /\ Goes(p, "overwriting", "running")
  /\ table' = Updated(table, NameOf[p], p)
  /\ Spawns(p)
  /\ StartUnchanged

(* The name is looked up again; between that and the INSERT the key keeps  *)
(* a second row out.                                                       *)
StartAdds(p) ==
  /\ ~HaveModule(table, NameOf[p])
  /\ Goes(p, "adding", "running")
  /\ table' = Added(table, NameOf[p], p)
  /\ Spawns(p)
  /\ StartUnchanged

StartFindsRow(p) ==
  /\ HaveModule(table, NameOf[p])
  /\ Goes(p, "adding", "refused")
  /\ seen' = [seen EXCEPT ![p] = NoRow]
  /\ UNCHANGED <<table, routerVars>>
  /\ StartUnchanged

StartFails(p) ==
  /\ place[p] \in {"initialized", "querying", "updating", "overwriting", "adding"}
  /\ Busy(p)
  /\ Goes(p, place[p], "refused")
  /\ seen' = [seen EXCEPT ![p] = NoRow]
  /\ UNCHANGED <<table, routerVars>>
  /\ StartUnchanged

-----------------------------------------------------------------------------
(* The router's thread, Router::start.                                     *)

RouterUnchanged == UNCHANGED <<table, endpoint, place, seen, recycled, overlapped>>

(* The thread sets the running flag itself, whatever happened before. *)
RouterServes(p) ==
  /\ router[p] = "spawned"
  /\ router' = [router EXCEPT ![p] = "serving"]
  /\ UNCHANGED <<handling, stopRequested, clientVars>>
  /\ RouterUnchanged

(* A client stays with the process it connected to; when that one is dead, *)
(* its socket reconnects to whoever bound the file since.                  *)
Reaches(c, p) ==
  \/ connection[c] = p
  \/ Ended(connection[c]) /\ endpoint[NameOf[connection[c]]] = p

(* The callback runs; on a terminate request it asks the main thread to    *)
(* stop, before the answer is sent.                                        *)
RouterTakes(p, c) ==
  /\ router[p] \in {"serving"} /\ handling[p] = NoClient
  /\ client[c] = "asking" /\ Reaches(c, p)
  /\ handling' = [handling EXCEPT ![p] = c]
  /\ client' = [client EXCEPT ![c] = "taken"]
  /\ connection' = [connection EXCEPT ![c] = p]
  /\ stopRequested' = IF kind[c] = "terminate" THEN stopRequested \cup {p}
                      ELSE stopRequested
  /\ UNCHANGED <<router, kind>>
  /\ RouterUnchanged

(* The answer to a client that is gone is dropped. *)
Answers(p) ==
  /\ handling[p] # NoClient
  /\ handling' = [handling EXCEPT ![p] = NoClient]
  /\ client' = [c \in Clients |->
       IF c # handling[p] \/ client[c] # "taken" THEN client[c]
       ELSE IF kind[c] = "terminate" THEN "left" ELSE "inside"]
  /\ connection' = [c \in Clients |->
       IF client'[c] = "left" THEN NoFile ELSE connection[c]]
  /\ UNCHANGED <<router, stopRequested, kind>>
  /\ RouterUnchanged

(* Mutant: an answer that comes while the router is stopped is not sent. *)
RepliesWhileServing(p) == router[p] = "serving" /\ Answers(p)

RouterReplies(p) == Answers(p)

RouterLeaves(p) ==
  /\ router[p] = "stopping" /\ handling[p] = NoClient
  /\ router' = [router EXCEPT ![p] = "left"]
  /\ UNCHANGED <<handling, stopRequested, clientVars>>
  /\ RouterUnchanged

-----------------------------------------------------------------------------
(* The end of a process: the service is stopped and destroyed.             *)

EndUnchanged == UNCHANGED <<seen, stopRequested, recycled, overlapped, clientVars>>

(* The flag is cleared when it is set; a thread that did not set it yet    *)
(* will do so later.                                                       *)
Stops(p) ==
  /\ \E from \in {"initialized", "refused", "running"} : Goes(p, from, "joining")
  /\ router' = [router EXCEPT ![p] = IF @ = "serving" THEN "stopping" ELSE @]
  /\ UNCHANGED <<table, endpoint, handling>>
  /\ EndUnchanged

(* The thread is joined.  Then the destructor asks for the name, not for   *)
(* the process in the row.                                                 *)
Unlists(p) ==
  /\ Goes(p, "joining", IF HaveModule(table, NameOf[p]) THEN "deleting" ELSE "closing")
  /\ UNCHANGED <<table, endpoint, routerVars>>
  /\ EndUnchanged

Joined(p) == router[p] \in {"none", "left"}

(* Mutant: the thread is let go instead of joined. *)
Detaches(p) == Unlists(p)

Joins(p) == Joined(p) /\ Unlists(p)

DeleteLooks(p) ==
  /\ HaveModule(table, NameOf[p])
  /\ Goes(p, "deleting", "dropping")
  /\ UNCHANGED <<table, endpoint, routerVars>>
  /\ EndUnchanged

(* Mutant: the row stays. *)
KeepsRow(p) ==
  /\ Goes(p, "dropping", "closing")
  /\ UNCHANGED <<table, endpoint, routerVars>>
  /\ EndUnchanged

Drops(p) ==
  /\ Goes(p, "dropping", "closing")
  /\ table' = Deleted(table, NameOf[p])
  /\ UNCHANGED <<endpoint, routerVars>>
  /\ EndUnchanged

(* The router's destructor removes the file, whoever bound it. *)
Leaves(p) ==
  /\ Goes(p, "closing", "gone")
  /\ endpoint' = [endpoint EXCEPT ![NameOf[p]] = NoFile]
  /\ UNCHANGED <<table, routerVars>>
  /\ EndUnchanged

(* A killed process leaves its row and its file.                           *)
Dies(p) ==
  /\ place' = [place EXCEPT ![p] = "crashed"]
  /\ router' = [router EXCEPT ![p] = "none"]
  /\ handling' = [handling EXCEPT ![p] = NoClient]
  /\ seen' = [seen EXCEPT ![p] = NoRow]
  /\ UNCHANGED <<table, endpoint, stopRequested, recycled, overlapped, clientVars>>

Crashes(p) == Alive(p) /\ Dies(p)

(* An exception that leaves a destructor ends the process: the row went    *)
(* away after it was seen, or a statement found the file locked.           *)
DestructorThrows(p) ==
  /\ \/ place[p] = "deleting" /\ ~HaveModule(table, NameOf[p])
     \/ place[p] = "joining" /\ Joined(p) /\ Busy(p)
     \/ place[p] \in {"deleting", "dropping"} /\ Busy(p)
  /\ Dies(p)

(* Only an identifier that a row or a start holds matters. *)
Recycles(p) ==
  /\ Ended(p)
  /\ table[NameOf[p]] = p \/ \E q \in Processes : seen[q] = p
  /\ recycled' = recycled \cup {p}
  /\ UNCHANGED <<table, endpoint, place, seen, stopRequested, overlapped, routerVars, clientVars>>

-----------------------------------------------------------------------------
(* A session of uLocalCommand.                                             *)

ClientUnchanged == UNCHANGED <<table, endpoint, processVars, routerVars>>

(* "connect": the module is listed and its file exists; the first request  *)
(* asks for the commands.                                                  *)
Connects(c, n) ==
  /\ client[c] = "outside"
  /\ n \in ListedModules(table) /\ endpoint[n] # NoFile
  /\ client' = [client EXCEPT ![c] = "asking"]
  /\ connection' = [connection EXCEPT ![c] = endpoint[n]]
  /\ UNCHANGED kind
  /\ ClientUnchanged

(* A command of the module. *)
Issues(c) ==
  /\ client[c] = "inside"
  /\ client' = [client EXCEPT ![c] = "asking"]
  /\ UNCHANGED <<kind, connection>>
  /\ ClientUnchanged

(* "quit" *)
Quits(c) ==
  /\ client[c] = "inside"
  /\ client' = [client EXCEPT ![c] = "asking"]
  /\ kind' = [kind EXCEPT ![c] = "terminate"]
  /\ UNCHANGED connection
  /\ ClientUnchanged

HangsUp(c) ==
  /\ client[c] = "inside"
  /\ client' = [client EXCEPT ![c] = "left"]
  /\ connection' = [connection EXCEPT ![c] = NoFile]
  /\ UNCHANGED kind
  /\ ClientUnchanged

(* The requestor returns a null pointer, which every caller dereferences. *)
TimesOut(c) ==
  /\ client[c] \in {"asking", "taken"}
  /\ client' = [client EXCEPT ![c] = "crashed"]
  /\ connection' = [connection EXCEPT ![c] = NoFile]
  /\ UNCHANGED kind
  /\ ClientUnchanged

-----------------------------------------------------------------------------
(* What a living process does by itself, its router's thread apart. *)
Proceeds(p) ==
  \/ StartLooks(p) \/ StartQueries(p) \/ StartChecks(p) \/ StartUpdates(p)
  \/ StartOverwrites(p) \/ StartAdds(p) \/ StartFindsRow(p) \/ StartFails(p)
  \/ Joins(p) \/ DeleteLooks(p) \/ Drops(p) \/ Leaves(p)
  \/ DestructorThrows(p)

RouterRuns(p) ==
  \/ RouterServes(p)
  \/ \E c \in Clients : RouterTakes(p, c)
  \/ RouterReplies(p)
  \/ RouterLeaves(p)

Next ==
  \/ \E p \in Processes :
       \/ Initializes(p) \/ OpenTableFails(p) \/ Proceeds(p) \/ RouterRuns(p)
       \/ Stops(p) \/ Crashes(p) \/ Recycles(p)
  \/ \E c \in Clients :
       \/ \E n \in Names : Connects(c, n)
       \/ Issues(c) \/ Quits(c) \/ HangsUp(c) \/ TimesOut(c)

Spec == Init /\ [][Next]_vars

MainThread(p) == Proceeds(p) \/ (p \in stopRequested /\ Stops(p))

(* Both threads of a process run; the main thread, once started, waits     *)
(* until it is asked to stop.                                              *)
Fairness ==
  \A p \in Processes : WF_vars(MainThread(p)) /\ WF_vars(RouterRuns(p))

FairSpec == Spec /\ Fairness

-----------------------------------------------------------------------------
(* Properties. *)

Running(p) == place[p] = "running"

Listed(p) == table[NameOf[p]] = p

(* A user finds a running module under its name: the row has its process   *)
(* identifier, and its IPC file is its own.                                *)
ReachableIn(names) ==
  \A p \in Processes :
    Running(p) /\ NameOf[p] \in names => Listed(p) /\ endpoint[NameOf[p]] = p

(* That holds for a name whose processes succeeded one another, whatever   *)
(* died in the middle of starting or leaving and was succeeded: stale rows *)
(* and stale files are taken over.                                         *)
ReachableIfExclusive == ReachableIn(Names \ overlapped)

(* When all processes of a name left in an orderly way, however their      *)
(* starts and their ends overlapped, neither row nor file is left behind.  *)
CleanExitLeavesNothing ==
  \A n \in Names :
    (\A p \in Processes : NameOf[p] = n => place[p] \in {"absent", "gone"}) =>
      table[n] = NoRow /\ endpoint[n] = NoFile

(* A client that asks a module to terminate gets its answer, though the    *)
(* module stops because of the request that it has yet to answer.          *)
TerminateIsAnswered ==
  \A p \in Processes : place[p] = "gone" => handling[p] = NoClient

(* Where the processes of a name succeed one another, start is refused     *)
(* only when the table is locked or the identifier in a stale row was      *)
(* given away: a crash does not block the module's return.                 *)
RefusedForCause ==
  [][\A p \in Processes :
       NameOf[p] \notin overlapped /\ place'[p] = "refused" /\ place[p] # "refused" =>
         Busy(p) \/ seen[p] \in recycled]_vars

(* A running module loses its row to itself, to a process of its name that *)
(* ends without having been the owner, or to one that is taking over from  *)
(* an earlier, dead owner; never to one whose start looked at it.          *)
DisplacedByStaleStart ==
  [][\A p \in Processes :
       Running(p) /\ Listed(p) /\ ~Listed(p)' =>
         \E q \in Processes \ {p} :
           \/ place[q] = "dropping"
           \/ place[q] = "overwriting" /\ seen[q] # p]_vars

(* A stop request is carried out, unless it overtakes the router's thread: *)
(* one that is not in its loop yet sets the flag that stop cleared, and is *)
(* waited for in vain.                                                     *)
StopOvertook(p) == place[p] = "joining" /\ router[p] = "serving"

StopEnds ==
  stopRequested # {} ~> \A p \in stopRequested : Ended(p) \/ StopOvertook(p)

(* The service's documentation: a user queries the table and makes         *)
(* requests directly to the application, whenever it runs.                 *)
ReachableWhileRunning == ReachableIn(Names)
=============================================================================

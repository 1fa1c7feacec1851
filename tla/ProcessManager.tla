--------------------------- MODULE ProcessManager ---------------------------
(***************************************************************************)
(* The life of a program of the system from its processes' point of view:  *)
(* class ProcessManager of modules/processManager.cpp starts the processes *)
(* of the program, keeps the main thread until one of them, or a signal,   *)
(* asks the program to stop, and stops them.                               *)
(*                                                                         *)
(* The processes are the heartbeat and a process that answers commands:    *)
(* the operator's local command service (class Operator of                 *)
(* modules/operator/operator.cpp) or a module's replier.  Processes are    *)
(* started and stopped in the order of their names in mProcesses.          *)
(***************************************************************************)
EXTENDS Heartbeat

VARIABLES
  main,           (* where the main thread is                              *)
  next,           (* position of the process to be started or stopped      *)
  managed,        (* the processes in mProcesses                           *)
  watched,        (* those that were given the stop callback               *)
  managing,       (* mRunning                                              *)
  stopRequested,  (* mStopRequested                                        *)
  catching,       (* the signal handlers are installed                     *)
  interrupted,    (* __interrupted                                         *)
  answering,      (* the flag of the process that answers commands         *)
  commands,       (* the thread of that process                            *)
  heard,          (* a process asked to stop through the callback          *)
  unheard,        (* a process asked before it had the callback            *)
  untold          (* stop() found the flag of a started thread not yet set *)

managerVars == <<next, managed, watched, managing, stopRequested, catching,
                 interrupted>>
commandVars == <<answering, commands, heard, unheard, untold>>

(* "Heartbeat" comes before "uOperator" and before a replier's name.       *)
Order == <<"heartbeat", "commands">>

Processes == {"heartbeat", "commands"}

ManagerPlaces ==
  {"processes", "resetting", "starting", "installing", "looking", "waiting",
   "stopping", "joining", "managed", "linking"}

Over == {"left", "aborted", "killed", "failed", "hung"}

ManagerTypeOK ==
  /\ next \in 1 .. 3
  /\ managed \subseteq Processes
  /\ watched \subseteq Processes
  /\ managing \in BOOLEAN
  /\ stopRequested \in BOOLEAN
  /\ catching \in BOOLEAN
  /\ interrupted \in BOOLEAN
  /\ answering \in BOOLEAN
  /\ commands \in {"none", "spawned", "serving", "asking", "left"}
  /\ heard \in BOOLEAN
  /\ unheard \in BOOLEAN
  /\ untold \in BOOLEAN

ManagerInit ==
  /\ next = 1
  /\ managed = {}
  /\ watched = {}
  /\ managing = FALSE
  /\ stopRequested = FALSE
  /\ catching = FALSE
  /\ interrupted = FALSE
  /\ answering = FALSE
  /\ commands = "none"
  /\ heard = FALSE
  /\ unheard = FALSE
  /\ untold = FALSE

MainGoes(from, to) == main = from /\ main' = to

(* A program that crashed or was killed has no threads left.               *)
Lives == main \notin {"aborted", "killed", "failed"}

-----------------------------------------------------------------------------
(* insert(): the process is stopped, started if the manager runs, and only *)
(* then given the callback.                                                *)

(* The process that answers commands is started.  A module's replier sets  *)
(* its flag before it has a thread; in the operator the thread sets the    *)
(* flag of the router, some time after it was started.                     *)
CommandsStart(flagged) ==
  /\ answering' = flagged
  /\ commands' = IF flagged THEN "serving" ELSE "spawned"
  /\ UNCHANGED <<heartbeatVars, heard, unheard, untold>>

(* The exception of a process that refuses leaves insert() and the program. *)
InsertsLate ==
  /\ "commands" \notin managed
  /\ managing
  /\ \/ MainGoes("installing", "linking") /\ CommandsStart(TRUE)
     \/ MainGoes("installing", "aborted") /\ UNCHANGED <<commandVars, heartbeatVars>>
  /\ UNCHANGED managerVars

LinksLate ==
  /\ MainGoes("linking", "installing")
  /\ managed' = managed \cup {"commands"}
  /\ watched' = watched \cup {"commands"}
  /\ UNCHANGED <<next, managing, stopRequested, catching, interrupted,
                 heartbeatVars, commandVars>>

-----------------------------------------------------------------------------
(* start()                                                                 *)

(* stop() first: nothing runs yet, the stop request is cleared.            *)
ManagerResets ==
  /\ MainGoes("resetting", "starting")
  /\ stopRequested' = FALSE
  /\ managing' = FALSE
  /\ next' = 1
  /\ UNCHANGED <<managed, watched, catching, interrupted, heartbeatVars, commandVars>>

(* The process starts, or its service refuses to.                          *)
StartsNext(flagged) ==
  /\ MainGoes("starting", "starting")
  /\ next <= Len(Order)
  /\ next' = next + 1
  /\ \/ Order[next] \notin managed /\ UNCHANGED <<heartbeatVars, commandVars>>
     \/ /\ Order[next] \in managed
        /\ Order[next] = "heartbeat"
        /\ HeartbeatStarts
        /\ UNCHANGED commandVars
     \/ /\ Order[next] \in managed
        /\ Order[next] = "commands"
        /\ CommandsStart(flagged) \/ UNCHANGED <<heartbeatVars, commandVars>>
  /\ UNCHANGED <<managed, watched, managing, stopRequested, catching, interrupted>>

(* Mutant: the stop request is cleared when the processes run already.     *)
ManagerForgets ==
  /\ next > Len(Order)
  /\ MainGoes("starting", "installing")
  /\ managing' = TRUE
  /\ stopRequested' = FALSE
  /\ UNCHANGED <<next, managed, watched, catching, interrupted,
                 heartbeatVars, commandVars>>

ManagerRuns ==
  /\ next > Len(Order)
  /\ MainGoes("starting", "installing")
  /\ managing' = TRUE
  /\ UNCHANGED <<next, managed, watched, stopRequested, catching, interrupted,
                 heartbeatVars, commandVars>>

-----------------------------------------------------------------------------
(* handleMainThread()                                                      *)

CatchesSignals ==
  /\ MainGoes("installing", "looking")
  /\ catching' = TRUE
  /\ UNCHANGED <<next, managed, watched, managing, stopRequested, interrupted,
                 heartbeatVars, commandVars>>

(* The request, then the signal, are looked at without a lock.             *)
MainLooks ==
  /\ \/ /\ ~stopRequested /\ ~interrupted
        /\ MainGoes("looking", "waiting")
        /\ UNCHANGED <<next, stopRequested>>
     \/ /\ stopRequested \/ interrupted
        /\ MainGoes("looking", "stopping")
        /\ stopRequested' = TRUE
        /\ next' = 1
  /\ UNCHANGED <<managed, watched, managing, catching, interrupted,
                 heartbeatVars, commandVars>>

(* Notified, or a tenth of a second later.                                 *)
MainWakes ==
  /\ MainGoes("waiting", "looking")
  /\ UNCHANGED <<managerVars, heartbeatVars, commandVars>>

-----------------------------------------------------------------------------
(* stop()                                                                  *)

StopsHeartbeat ==
  /\ MainGoes("stopping", "joining")
  /\ next <= Len(Order) /\ Order[next] = "heartbeat"
  /\ IF "heartbeat" \in managed THEN HeartbeatStops ELSE UNCHANGED heartbeatVars
  /\ UNCHANGED <<managerVars, commandVars>>

(* Mutant: the thread is told to stop but not joined.                      *)
TellsCommandsOnly ==
  /\ main = "stopping" /\ UNCHANGED main
  /\ next <= Len(Order) /\ Order[next] = "commands"
  /\ answering' = FALSE
  /\ next' = next + 1
  /\ untold' = (commands = "spawned")
  /\ UNCHANGED <<managed, watched, managing, stopRequested, catching, interrupted,
                 heartbeatVars, commands, heard, unheard>>

(* The process that answers commands is told to stop, and joined, only if  *)
(* its flag is set.                                                        *)
StopsCommands ==
  /\ main = "stopping"
  /\ next <= Len(Order) /\ Order[next] = "commands"
  /\ answering' = FALSE
  /\ IF answering THEN main' = "joining" /\ UNCHANGED <<next, untold>>
     ELSE UNCHANGED main /\ next' = next + 1 /\ untold' = (commands = "spawned")
  /\ UNCHANGED <<managed, watched, managing, stopRequested, catching, interrupted,
                 heartbeatVars, commands, heard, unheard>>

(* The threads of the process are joined; one that is in the callback has  *)
(* to come back from it first.                                             *)
JoinsNext ==
  /\ MainGoes("joining", "stopping")
  /\ next' = next + 1
  /\ IF Order[next] = "heartbeat"
       THEN HeartbeatJoined /\ UNCHANGED commandVars
       ELSE /\ commands \in {"none", "left"}
            /\ commands' = "none"
            /\ UNCHANGED <<heartbeatVars, answering, heard, unheard, untold>>
  /\ UNCHANGED <<managed, watched, managing, stopRequested, catching, interrupted>>

ManagerStopped ==
  /\ next > Len(Order)
  /\ MainGoes("stopping", "managed")
  /\ managing' = FALSE
  /\ stopRequested' = FALSE
  /\ UNCHANGED <<next, managed, watched, catching, interrupted,
                 heartbeatVars, commandVars>>

-----------------------------------------------------------------------------
(* The destructors of the operator's processes when its main() returns.    *)

(* ~Operator() and the service's own destructor look at the flag again;    *)
(* the latter joins the thread in any case, and waits forever for one that *)
(* has not set its flag and so was not told.  A thread that nobody told    *)
(* may still call back: nobody waits on the condition that it notifies.    *)
Destroys ==
  /\ MainGoes("destroying", IF commands = "spawned" THEN "hung" ELSE "releasing")
  /\ answering' = FALSE
  /\ UNCHANGED <<managerVars, heartbeatVars, commands, heard, unheard, untold>>

Releases ==
  /\ MainGoes("releasing", "left")
  /\ commands \in {"none", "left"}
  /\ commands' = "none"
  /\ UNCHANGED <<managerVars, heartbeatVars, answering, heard, unheard, untold>>

-----------------------------------------------------------------------------
(* The thread that answers commands, and signals.                          *)

(* The operator's router: start() sets the flag in the thread itself.      *)
CommandsServe ==
  /\ commands = "spawned"
  /\ commands' = "serving"
  /\ answering' = TRUE
  /\ UNCHANGED <<main, managerVars, heartbeatVars, heard, unheard, untold>>

(* A terminate request, or the command "quit": the callback of the process *)
(* sets the request and wakes the main thread.                             *)
AskedToStop ==
  /\ commands = "serving" /\ ~heard /\ ~unheard
  /\ commands' = "asking"
  /\ UNCHANGED <<main, managerVars, heartbeatVars, answering, heard, unheard, untold>>

IssuesStop ==
  /\ commands = "asking"
  /\ commands' = "serving"
  /\ IF "commands" \in watched
       THEN stopRequested' = TRUE /\ heard' = TRUE /\ UNCHANGED unheard
       ELSE unheard' = TRUE /\ UNCHANGED <<stopRequested, heard>>
  /\ UNCHANGED <<main, next, managed, watched, managing, catching, interrupted,
                 heartbeatVars, answering, untold>>

CommandsLeave ==
  /\ commands = "serving" /\ ~answering
  /\ commands' = "left"
  /\ UNCHANGED <<main, managerVars, heartbeatVars, answering, heard, unheard, untold>>

(* SIGINT or SIGTERM; without the handlers it kills the program.           *)
Signalled ==
  /\ IF catching THEN interrupted' = TRUE /\ UNCHANGED main
                 ELSE main' = "killed" /\ UNCHANGED interrupted
  /\ UNCHANGED <<next, managed, watched, managing, stopRequested, catching,
                 heartbeatVars, commandVars>>
=============================================================================

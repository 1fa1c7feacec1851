--------------------------------- MODULE Hub ---------------------------------
(***************************************************************************)
(* The operator from its initialization file to its exit, main() of        *)
(* modules/operator/operator.cpp: addresses are given out, the connection  *)
(* information service, the module registry and the proxies are            *)
(* initialized and started, the processes run until the program is asked   *)
(* to stop, and everything is taken down again.  What a proxy does inside  *)
(* is in GuardedService and CommandProxy; here it is initialized, its      *)
(* thread comes up some time after start(), and stop() joins it.           *)
(*                                                                         *)
(* A module is a program with the same processes and no proxies; its       *)
(* main() goes straight to the process manager.                            *)
(***************************************************************************)
EXTENDS ProcessManager, OperatorPorts

CONSTANTS
  Inis,       (* the initialization files, and the programs that read them *)
  MaxProxies  (* the proxies of the largest file                           *)

ASSUME ProxyAssumption == MaxProxies \in Nat

(* A file gives ports, and the sections with the names and the addresses   *)
(* that they propose, if any.                                              *)
ASSUME IniAssumption ==
  LET SectionRecords == [section : STRING, name : STRING, front : Nat, back : Nat] IN
  \A file \in Inis :
    /\ file.program \in {"operator", "module"}
    /\ file.portStart \in Nat \ {NoAddress} /\ file.portEnd \in Nat
    /\ file.registry \in SectionRecords
    /\ file.broadcasts \in Seq(SectionRecords) /\ file.services \in Seq(SectionRecords)

VARIABLES
  ini,        (* the file of this run                                      *)
  options,    (* ports, addresses and options of the proxies: ProgramOptions *)
  at,         (* position of the proxy that main is busy with              *)
  proxies,    (* how far each proxy is                                     *)
  bound,      (* the addresses that sockets of the operator are bound to   *)
  listed,     (* names in mConnections of the connection information       *)
  directory   (* the router's thread of the connection information         *)

hubVars == <<ini, options, at, proxies, bound, listed, directory>>
processVars == <<heartbeatVars, managerVars, commandVars>>
vars == <<main, hubVars, processVars>>

CIName == "ConnectionInformation"

(* The options of the proxies, the module registry's first.                *)
given == options.given

HubPlaces ==
  {"parsing", "authenticators", "directory", "binding", "launching", "listing",
   "closing", "halting", "destroying", "releasing"}

TypeOK ==
  /\ main \in HubPlaces \cup ManagerPlaces \cup Over
  /\ ini \in Inis
  /\ at \in 1 .. (Len(given) + 1)
  /\ options.available \cup options.used \subseteq Nat
  /\ \A i \in DOMAIN given : {given[i].front, given[i].back} \subseteq Nat \ {NoAddress}
  /\ DOMAIN proxies \in {{}, DOMAIN given}
  /\ \A i \in DOMAIN proxies :
       proxies[i] \in {"none", "bound", "spawned", "up", "stopped"}
  /\ bound \subseteq Nat
  /\ directory \in {"none", "spawned", "serving", "reading", "left"}
  /\ HeartbeatTypeOK
  /\ ManagerTypeOK

Init ==
  /\ ini \in Inis
  /\ main = IF ini.program = "operator" THEN "parsing" ELSE "processes"
  /\ options = Start(ini)
  /\ at = 1
  /\ proxies = << >>
  /\ bound = {}
  /\ listed = {}
  /\ directory = "none"
  /\ HeartbeatInit
  /\ ManagerInit

-----------------------------------------------------------------------------
(* Start-up.                                                               *)

(* parseIniFile(), one section after the other; any exception ends the     *)
(* program.                                                                *)
Parses ==
  /\ main = "parsing"
  /\ options.visited < Len(Visits(ini))
  /\ LET visit == Visits(ini)[options.visited + 1] IN
     IF ~visit.wanted
       THEN options' = [options EXCEPT !.visited = @ + 1] /\ UNCHANGED main
     ELSE IF Readable(ini) /\ Accepts(visit, options)
       THEN options' = addProxy(visit, options) /\ UNCHANGED main
     ELSE main' = "failed" /\ UNCHANGED options
  /\ UNCHANGED <<ini, at, proxies, bound, listed, directory, processVars>>

HasParsed ==
  /\ options.visited = Len(Visits(ini))
  /\ MainGoes("parsing", "authenticators")
  /\ proxies' = [i \in DOMAIN given |-> "none"]
  /\ UNCHANGED <<ini, options, at, bound, listed, directory, processVars>>

(* Grasslands asks for nothing; else the table of users is opened four     *)
(* times, and only the first is in a try block.                            *)
OpensUsers ==
  /\ \/ MainGoes("authenticators", "directory")
     \/ ini.guarded /\ MainGoes("authenticators", "failed")
     \/ ini.guarded /\ MainGoes("authenticators", "aborted")
  /\ UNCHANGED <<hubVars, processVars>>

Bindable(addresses) == addresses \cap (bound \cup ini.occupied) = {}

InitializesDirectory ==
  LET address == ClientAccessAddress(ini) IN
  /\ MainGoes("directory", IF Bindable({address}) THEN "binding" ELSE "aborted")
  /\ bound' = IF Bindable({address}) THEN {address} ELSE bound
  /\ listed' = {CIName}
  /\ UNCHANGED <<ini, options, at, proxies, directory, processVars>>

(* The first proxy that was entered under the key of the proxy at i.       *)
First(i) ==
  Min({j \in 1 .. i : given[j].kind = given[i].kind /\ given[j].name = given[i].name})

(* What main does with the proxy at hand after this place: the module      *)
(* registry is listed before it is started, every other proxy after.       *)
Following(place) ==
  CASE place = "binding" -> IF at = 1 THEN "listing" ELSE "launching"
    [] place = "launching" -> IF at = 1 THEN "binding" ELSE "listing"
    [] place = "listing" -> IF at = 1 THEN "launching" ELSE "binding"

GoesOn(place) ==
  /\ MainGoes(place, Following(place))
  /\ at' = IF Following(place) = "binding" THEN at + 1 ELSE at

(* initialize() binds both sockets; its exception is not caught.  A proxy  *)
(* whose key is taken is destroyed and its sockets are closed.             *)
InitializesNext ==
  /\ main = "binding" /\ at <= Len(given)
  /\ LET front == given[at].front
         back == given[at].back
     IN IF front # back /\ Bindable({front, back})
          THEN /\ GoesOn("binding")
               /\ IF First(at) = at
                    THEN /\ bound' = bound \cup {front, back}
                         /\ proxies' = [proxies EXCEPT ![at] = "bound"]
                    ELSE UNCHANGED <<bound, proxies>>
          ELSE main' = "aborted" /\ UNCHANGED <<at, bound, proxies>>
  /\ UNCHANGED <<ini, options, listed, directory, processVars>>

(* A proxy under whose key another one was entered is started a second     *)
(* time, though it was initialized once: stop() clears what initialize()   *)
(* set and the new thread's exception ends the program; or the thread of   *)
(* the first start is not up yet, and main waits for it forever.           *)
LaunchesNext ==
  /\ main = "launching"
  /\ IF First(at) = at
       THEN GoesOn("launching") /\ proxies' = [proxies EXCEPT ![at] = "spawned"]
       ELSE /\ main' = IF proxies[First(at)] = "up" THEN "aborted" ELSE "hung"
            /\ UNCHANGED <<at, proxies>>
  /\ UNCHANGED <<ini, options, bound, listed, directory, processVars>>

(* Mutant: the proxy is not added to the connections.                      *)
StaysUnlisted ==
  /\ GoesOn("listing")
  /\ UNCHANGED <<ini, options, proxies, bound, listed, directory, processVars>>

(* A name that is listed already is refused; only the module registry's    *)
(* exception is not caught.                                                *)
ListsNext ==
  /\ main = "listing"
  /\ IF at = 1 /\ given[at].name \in listed
       THEN main' = "aborted" /\ UNCHANGED <<at, listed>>
       ELSE GoesOn("listing") /\ listed' = listed \cup {given[at].name}
  /\ UNCHANGED <<ini, options, proxies, bound, directory, processVars>>

OpensDirectory ==
  /\ at > Len(given)
  /\ MainGoes("binding", "processes")
  /\ directory' = "spawned"
  /\ UNCHANGED <<ini, options, at, proxies, bound, listed, processVars>>

HasHeartbeat ==
  \E i \in DOMAIN given : given[i].kind = "broadcast" /\ given[i].name = "Heartbeat"

(* The operator needs a broadcast of its own for its heartbeat, and its    *)
(* command service may fail to initialize; a module starts its replier     *)
(* with the heartbeat or later.                                            *)
CreatesProcesses ==
  /\ main = "processes"
  /\ \/ main' = "resetting" /\ ini.program = "operator" /\ HasHeartbeat
        /\ managed' = Processes
     \/ main' = "resetting" /\ ini.program = "module"
        /\ managed' \in {Processes, {"heartbeat"}}
     \/ main' = "failed" /\ ini.program = "operator"
        /\ UNCHANGED managed
  /\ watched' = managed'
  /\ UNCHANGED <<next, managing, stopRequested, catching, interrupted, hubVars,
                 heartbeatVars, commandVars>>

-----------------------------------------------------------------------------
(* The threads of the proxies and of the connection information.           *)

ProxyRuns(i) ==
  /\ proxies[i] = "spawned"
  /\ proxies' = [proxies EXCEPT ![i] = "up"]
  /\ UNCHANGED <<main, ini, options, at, bound, listed, directory, processVars>>

DirectoryGoes(from, to) ==
  /\ directory = from
  /\ directory' = to
  /\ UNCHANGED <<main, ini, options, at, proxies, bound, listed, processVars>>

(* callback(): a client asks for the connections, which are read without a *)
(* lock.                                                                   *)
DirectoryRuns == DirectoryGoes("spawned", "serving")
DirectoryReads == DirectoryGoes("serving", "reading")
DirectoryAnswers == DirectoryGoes("reading", "serving")

-----------------------------------------------------------------------------
(* Shutdown.                                                               *)

(* The module registry first; it stays listed.  Its authenticators are     *)
(* told to leave if they are up, and joined.  A module has no proxies.     *)
StopsRegistry ==
  /\ main = "managed"
  /\ \/ /\ ini.program = "operator" /\ proxies[1] = "up"
        /\ main' = "closing"
        /\ proxies' = [proxies EXCEPT ![1] = "stopped"]
        /\ at' = 2
     \/ /\ ini.program = "operator" /\ proxies[1] # "up"
        /\ main' = "hung"
        /\ UNCHANGED <<proxies, at>>
     \/ /\ ini.program = "module"
        /\ main' = "left"
        /\ UNCHANGED <<proxies, at>>
  /\ UNCHANGED <<ini, options, bound, listed, directory, processVars>>

(* Mutant: the connection is left in the list.                             *)
StopsWithoutUnlisting ==
  /\ main = "closing" /\ at <= Len(given)
  /\ MainGoes("closing", "halting")
  /\ UNCHANGED <<ini, options, at, proxies, bound, listed, directory, processVars>>

(* removeConnection() throws if the name is not listed, which nobody       *)
(* catches; it changes the map under the eyes of the router's thread.      *)
UnlistsNext ==
  /\ main = "closing" /\ at <= Len(given)
  /\ \/ /\ given[at].name \in listed
        /\ MainGoes("closing", "halting")
        /\ listed' = listed \ {given[at].name}
     \/ /\ given[at].name \notin listed \/ directory = "reading"
        /\ MainGoes("closing", "aborted")
        /\ UNCHANGED listed
  /\ UNCHANGED <<ini, options, at, proxies, bound, directory, processVars>>

(* stop(): a thread that is not up is not told to leave, but joined.       *)
HaltsNext ==
  /\ main = "halting"
  /\ MainGoes("halting", IF proxies[at] = "up" THEN "closing" ELSE "hung")
  /\ proxies' = IF proxies[at] = "up" THEN [proxies EXCEPT ![at] = "stopped"] ELSE proxies
  /\ at' = IF proxies[at] = "up" THEN at + 1 ELSE at
  /\ UNCHANGED <<ini, options, bound, listed, directory, processVars>>

StopsDirectory ==
  /\ at > Len(given)
  /\ directory # "reading"
  /\ MainGoes("closing", IF directory = "serving" THEN "destroying" ELSE "hung")
  /\ directory' = IF directory = "serving" THEN "left" ELSE directory
  /\ UNCHANGED <<ini, options, at, proxies, bound, listed, processVars>>
-----------------------------------------------------------------------------
MainStep ==
  \/ Parses \/ HasParsed \/ OpensUsers \/ InitializesDirectory \/ InitializesNext
  \/ LaunchesNext \/ ListsNext \/ OpensDirectory \/ CreatesProcesses
  \/ StopsRegistry \/ UnlistsNext \/ HaltsNext \/ StopsDirectory
  \/ /\ \/ ManagerResets \/ StartsNext(ini.program = "module") \/ ManagerRuns
        \/ ini.program = "module" /\ (InsertsLate \/ LinksLate)
        \/ CatchesSignals \/ MainLooks \/ MainWakes
        \/ StopsHeartbeat \/ StopsCommands \/ JoinsNext \/ ManagerStopped
        \/ Destroys \/ Releases
     /\ UNCHANGED hubVars

ProxyStep == Lives /\ \E i \in DOMAIN proxies : ProxyRuns(i)

DirectoryStep == Lives /\ (DirectoryRuns \/ DirectoryAnswers)

DirectoryAsked == Lives /\ DirectoryReads

CommandsStep ==
  Lives /\ (CommandsServe \/ IssuesStop \/ CommandsLeave) /\ UNCHANGED hubVars

HeartbeatUnchanged == UNCHANGED <<main, hubVars, managerVars, commandVars>>

PublisherRuns == Lives /\ PublisherStep /\ HeartbeatUnchanged

StamperRuns == Lives /\ StamperStep /\ HeartbeatUnchanged

(* Nobody in the operator uses the interface of its heartbeat.             *)
OwnerBegins ==
  /\ Lives /\ ini.program = "module"
  /\ OwnerSetsStatus \/ OwnerSendsStatus
  /\ HeartbeatUnchanged

OwnerEnds == Lives /\ OwnerIsDone /\ HeartbeatUnchanged

CopyCrashes ==
  /\ Lives /\ CopiesFreedStatus
  /\ main' = "aborted"
  /\ UNCHANGED <<hubVars, processVars>>

(* The user, or the system, may do this or not.                            *)
Outside ==
  \/ Lives /\ main # "left" /\ (AskedToStop \/ Signalled) /\ UNCHANGED hubVars
  \/ DirectoryAsked
  \/ OwnerBegins
  \/ CopyCrashes

Next ==
  \/ MainStep \/ ProxyStep \/ DirectoryStep \/ CommandsStep
  \/ PublisherRuns \/ StamperRuns \/ OwnerEnds \/ Outside

(* The threads of a program all get to run, and one that waits for a mutex *)
(* that others take and give back again and again gets it some time (SF).  *)
(* Nobody has to send the program a signal, a command or a request.        *)
Spec == Init /\ [][Next]_vars

FairSpec ==
  /\ Spec
  /\ SF_vars(MainStep)
  /\ \A i \in 1 .. MaxProxies : WF_vars(Lives /\ i \in DOMAIN proxies /\ ProxyRuns(i))
  /\ WF_vars(DirectoryStep)
  /\ WF_vars(CommandsStep)
  /\ SF_vars(PublisherRuns)
  /\ SF_vars(StamperRuns)
  /\ WF_vars(OwnerEnds)

-----------------------------------------------------------------------------
(* Properties.                                                             *)

NamesDiffer(file) ==
  LET names == <<file.registry.name, CIName>>
                 \o [i \in DOMAIN file.broadcasts |-> file.broadcasts[i].name]
                 \o [i \in DOMAIN file.services |-> file.services[i].name]
  IN IsInjective(names)

(* A service whose backend address is proposed but that leaves its         *)
(* frontend to the operator: the setter refuses the port if it is the one  *)
(* that the backend wants.  Or the module registry, or a service, whose    *)
(* two addresses are proposed to be the same.                              *)
HalfProposed(file) ==
  \/ \E s \in ToSet(file.services) : s.back # NoAddress
  \/ file.registry.front # NoAddress /\ file.registry.front = file.registry.back

(* No two sockets of the operator get one address, in every file that      *)
(* leaves the block enough ports and the connection information its own    *)
(* (makeNextAvailableAddress and what passes its arguments along).         *)
AddressesDistinct ==
  LeavesRoom(ini) =>
    /\ \A s, t \in SocketsOf(given) : s # t => AddressOf(given, s) # AddressOf(given, t)
    /\ \A s \in SocketsOf(given) : AddressOf(given, s) # ClientAccessAddress(ini)

(* A program ends in an error only for a reason that lies in its file, in  *)
(* the machine it runs on, or in one of the races this code has: the users' *)
(* table, addresses that clash, names given twice, the list of connections *)
(* read while an entry is removed, the status copied while it is replaced, *)
(* a command service that refuses.                                         *)
EndsForCause ==
  [][main' \in {"aborted", "failed"} /\ main' # main =>
       \/ main = "parsing" /\ (~Readable(ini) \/ ~LeavesRoom(ini) \/ HalfProposed(ini))
       \/ main = "authenticators" /\ ini.guarded
       \/ main \in {"directory", "binding"} /\ (~LeavesRoom(ini) \/ ini.occupied # {})
       \/ main \in {"launching", "listing"} /\ ~NamesDiffer(ini)
       \/ main = "processes"
       \/ main = "closing" /\ (directory = "reading" \/ ~NamesDiffer(ini))
       \/ main = "installing" /\ managing
       \/ CopiesFreedStatus]_vars

(* What a client reads in the list of connections is a proxy whose thread  *)
(* was started and has not been joined (the module registry apart, which   *)
(* stays listed when it stops): addConnection() comes after start() and    *)
(* removeConnection() before stop().                                       *)
ListedIsServed ==
  Lives /\ directory \in {"serving", "reading"} =>
    \A name \in listed \ {CIName, ini.registry.name} :
      \E i \in DOMAIN given : given[i].name = name /\ proxies[i] \in {"spawned", "up"}

(* Once the process manager has stopped, the threads of the heartbeat are  *)
(* joined and the last word it handed to its broadcast was "Disconnected"; *)
(* the thread that answers commands is joined as well, unless the stop     *)
(* came before that thread had set its flag.  When main() has come to its  *)
(* end, nothing of the program runs: such a thread too was told and joined *)
(* (the stops of processManager.cpp, publisherProcess.cpp and operator.cpp *)
(* and the destructors that follow).                                       *)
NothingOutlives ==
  /\ main \in {"managed", "closing", "halting", "destroying", "releasing", "left"} =>
       /\ publisher = "none" /\ stamper = "none"
       /\ wire # << >> /\ Last(wire) = Disconnected
       /\ commands = "none" \/ untold
  /\ main = "left" =>
       /\ commands = "none"
       /\ directory \notin {"spawned", "serving", "reading"}
       /\ \A i \in DOMAIN proxies : proxies[i] = "stopped"

(* The heartbeat broadcast reads Alive, then statuses in the order in      *)
(* which they were pushed, none twice, then Disconnected and nothing more  *)
(* (publishStatus() and the queue of publisherProcess.cpp).                *)
WireGrammar ==
  LET Rank(m) == CASE m.kind = "Alive" -> 0
                   [] m.kind = "Status" -> m.number
                   [] OTHER -> MaxStatuses + 1
  IN /\ wire # << >> => Head(wire) = Alive
     /\ \A i, j \in DOMAIN wire : i < j => Rank(wire[i]) < Rank(wire[j])

(* A request to stop that reached the process manager takes main() to its  *)
(* end, whenever it came, or to the join of a thread that the stop         *)
(* overtook (issueStopNotification() against start(), the unlocked reads   *)
(* of handleMainThread() and stop()).                                      *)
StopRequestHeeded == heard ~> main \in Over
=============================================================================

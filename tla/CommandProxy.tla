---------------------------- MODULE CommandProxy ----------------------------
(***************************************************************************)
(* The command proxy: class Proxy::ProxyImpl of                            *)
(* proxyServices/command/proxy.cpp.  Three threads share it:               *)
(*   - the poller moves messages between the frontend and the backend,     *)
(*     answers registrations, and sends what the pinger queued;            *)
(*   - the pinger watches how long ago each module answered, queues pings  *)
(*     up a ladder of intervals and evicts the modules that stay silent;   *)
(*   - the owner starts and stops it.                                      *)
(* A step is what one thread does between two points where another thread  *)
(* can see the difference.  The threads that authenticate its peers, which *)
(* start() makes and stop() joins too, are in GuardedService.              *)
(***************************************************************************)
EXTENDS CommandNetwork

CONSTANT MaxStarts   (* bound: calls of start() *)

ASSUME MaxStartsAssumption == MaxStarts \in Nat

VARIABLES
  starts,             (* calls of start() so far                           *)
  running,            (* mRunning                                          *)
  modules,            (* mModulesMap                                       *)
  pingResponses,      (* mPingResponses; a duplicate changes nothing       *)
  pingRequests,       (* mPingRequests, oldest first                       *)
  terminateRequests,  (* mTerminateRequests, oldest first                  *)
  poller,             (* where runPoller is                                *)
  pinger,             (* where runModulePinger is                          *)
  toVisit,            (* entries the pinger's walk of the map has to visit *)
  killQueue           (* the pinger's local queue of evicted addresses     *)

queueVars == <<pingResponses, pingRequests, terminateRequests>>
pingerVars == <<pinger, toVisit, killQueue>>
proxyVars == <<starts, running, modules, queueVars, poller, pingerVars>>

PollerPlaces ==
  {"frontend", "backend", "pings", "terminates", "evict", "await", "done"}

PingerPlaces == {"nap", "drain", "walk", "kill", "done"}

ProxyTypeOK ==
  /\ starts \in 0..MaxStarts
  /\ running \in BOOLEAN
  /\ DOMAIN modules \subseteq Workers
  /\ \A w \in DOMAIN modules : modules[w] \in Entry
  /\ pingResponses \subseteq Workers
  /\ pingRequests \in Seq(Workers)
  /\ terminateRequests \in Seq(Workers)
  /\ poller \in PollerPlaces
  /\ pinger \in PingerPlaces
  /\ toVisit \subseteq Workers
  /\ killQueue \in Seq(Workers)

(* The proxy is initialized, and start() was not called yet. *)
ProxyInit ==
  /\ starts = 0
  /\ running = FALSE
  /\ modules = [w \in {} |-> NewEntry(CHOOSE m \in Modules : TRUE)]
  /\ pingResponses = {}
  /\ pingRequests = <<>>
  /\ terminateRequests = <<>>
  /\ poller = "done"
  /\ pinger = "done"
  /\ toVisit = {}
  /\ killQueue = <<>>

-----------------------------------------------------------------------------
(* The owner.                                                              *)

(* start(): joins the threads of an earlier run, then spins off new ones.  *)
(* The map and the queues keep what the earlier run left in them.          *)
Start ==
  /\ starts < MaxStarts
  /\ starts' = starts + 1
  /\ ~running /\ poller = "done" /\ pinger = "done"
  /\ running' = TRUE
  /\ poller' = "frontend"
  /\ pinger' = "nap"
  /\ UNCHANGED <<modules, queueVars, toVisit, killQueue, networkVars>>

(* stop(): the threads see the flag at the top of their loops. *)
Stop ==
  /\ running
  /\ running' = FALSE
  /\ UNCHANGED <<starts, modules, queueVars, poller, pingerVars, networkVars>>

-----------------------------------------------------------------------------
(* The poller: a message from the frontend.                                *)

(* The loop condition failed: the shutdown begins. *)
PollerLeavesLoop ==
  /\ poller = "frontend" /\ ~running
  /\ poller' = "evict"
  /\ UNCHANGED <<starts, running, modules, queueVars, pingerVars, networkVars>>

PollerFrontendQuiet ==
  /\ poller = "frontend" /\ running
  /\ \A c \in Clients : fromClient[c] = <<>>
  /\ poller' = "backend"
  /\ UNCHANGED <<starts, running, modules, queueVars, pingerVars, networkVars>>

AnswerAvailableModules(c) ==
  /\ Head(fromClient[c]).type = "availableModules"
  /\ toClient' = SentToClient(c, [type |-> "modules", list |-> ToVector(modules)])
  /\ UNCHANGED toWorker

(* Mutant: the error flag of an earlier failure is still set. *)
PropagateAndRefuse(c) ==
  LET request == Head(fromClient[c])
      workerAddress == GetAddress(modules, request.module)
  IN /\ request.type = "request"
     /\ workerAddress # NoAddress
     /\ toWorker' = SentToWorker(workerAddress,
                                 RoutedMessage("request", c, request.module))
     /\ toClient' = SentToClient(c, Message("failure"))

(* The backend does not set router_mandatory: the request to a module      *)
(* whose connection is gone vanishes.                                      *)
PropagateToBackend(c) ==
  LET request == Head(fromClient[c])
      workerAddress == GetAddress(modules, request.module)
  IN /\ request.type = "request"
     /\ workerAddress # NoAddress
     /\ toWorker' = SentToWorker(workerAddress,
                                 RoutedMessage("request", c, request.module))
     /\ UNCHANGED toClient

(* Mutant: the error flag is not set. *)
IgnoreUnknownModule(c) ==
  /\ Head(fromClient[c]).type = "request"
  /\ GetAddress(modules, Head(fromClient[c]).module) = NoAddress
  /\ UNCHANGED <<toWorker, toClient>>

RefuseUnknownModule(c) ==
  /\ Head(fromClient[c]).type = "request"
  /\ GetAddress(modules, Head(fromClient[c]).module) = NoAddress
  /\ toClient' = SentToClient(c, Message("failure"))
  /\ UNCHANGED toWorker

PollerHandlesFrontend(c) ==
  /\ poller = "frontend" /\ running
  /\ fromClient[c] # <<>>
  /\ \/ AnswerAvailableModules(c)
     \/ PropagateToBackend(c)
     \/ RefuseUnknownModule(c)
  /\ fromClient' = [fromClient EXCEPT ![c] = Tail(@)]
  /\ poller' = "backend"
  /\ UNCHANGED <<starts, running, modules, queueVars, pingerVars, connected, toProxy, listening>>

-----------------------------------------------------------------------------
(* The poller: a message from the backend, __handleMessagesFromBackend.    *)

(* The pinger walks the map without taking its lock.  When the poller      *)
(* inserts or erases an entry meanwhile, the behaviour is undefined: the   *)
(* walk may go on to any of the entries left, or end early.                *)
WalkDisturbed(left) ==
  IF pinger = "walk" THEN toVisit' \in SUBSET left ELSE UNCHANGED toVisit

(* Mutant: only the address is looked up before the insertion. *)
HandleRegisterByAddress(w) ==
  /\ Head(toProxy[w]).type = "register"
  /\ IF ContainsAddress(modules, w)
     THEN /\ toWorker' = SentToWorker(w, Message("exists"))
          /\ UNCHANGED <<modules, toVisit>>
     ELSE /\ modules' = Insert(modules, w, Details[w])
          /\ toWorker' = SentToWorker(w, Message("success"))
          /\ WalkDisturbed(toVisit \cup {w})
  /\ UNCHANGED <<pingResponses, toClient>>

(* The code looks the details up and inserts under two locks; that is one  *)
(* step here, because nobody but the poller inserts.  The branch of insert *)
(* that throws when only the address is taken is out of reach: a           *)
(* connection registers one module.                                        *)
HandleRegister(w) ==
  /\ Head(toProxy[w]).type = "register"
  /\ IF ContainsDetails(modules, Details[w])
     THEN /\ toWorker' = SentToWorker(w, Message("exists"))
          /\ UNCHANGED <<modules, toVisit>>
     ELSE /\ modules' = Insert(modules, w, Details[w])
          /\ toWorker' = SentToWorker(w, Message("success"))
          /\ WalkDisturbed(toVisit \cup {w})
  /\ UNCHANGED <<pingResponses, toClient>>

PollerErases(w) ==
  IF ContainsAddress(modules, w)
  THEN modules' = Erase(modules, w) /\ WalkDisturbed(toVisit \ {w})
  ELSE UNCHANGED <<modules, toVisit>>

(* Whether the module was in the map or not, this is a success. *)
HandleDeregister(w) ==
  /\ Head(toProxy[w]).type = "deregister"
  /\ PollerErases(w)
  /\ toWorker' = SentToWorker(w, Message("success"))
  /\ UNCHANGED <<pingResponses, toClient>>

(* Mutant: the poller itself updates the entry. *)
HandlePingResponseAtOnce(w) ==
  /\ Head(toProxy[w]).type = "pingResponse"
  /\ modules' = UpdateLastResponseToNow(modules, w)
  /\ UNCHANGED <<pingResponses, toVisit, toWorker, toClient>>

HandlePingResponse(w) ==
  /\ Head(toProxy[w]).type = "pingResponse"
  /\ pingResponses' = pingResponses \cup {w}
  /\ UNCHANGED <<modules, toVisit, toWorker, toClient>>

HandleTerminateResponse(w) ==
  /\ Head(toProxy[w]).type = "terminateResponse"
  /\ PollerErases(w)
  /\ UNCHANGED <<pingResponses, toWorker, toClient>>

(* The address of the module is dropped; the client's address routes the   *)
(* rest.  Sending to a client that is gone throws, and is logged.          *)
PropagateToFrontend(w) ==
  LET reply == Head(toProxy[w])
  IN /\ reply.type = "reply"
     /\ toClient' = SentToClient(reply.client,
                                 [type |-> "reply", module |-> reply.module])
     /\ UNCHANGED <<modules, toVisit, pingResponses, toWorker>>

HandleMessagesFromBackend(w) ==
  /\ toProxy[w] # <<>>
  /\ \/ HandleRegister(w)
     \/ HandleDeregister(w)
     \/ HandlePingResponse(w)
     \/ HandleTerminateResponse(w)
     \/ PropagateToFrontend(w)
  /\ toProxy' = [toProxy EXCEPT ![w] = Tail(@)]
  /\ UNCHANGED <<starts, running, pingRequests, terminateRequests, pinger, killQueue,
                 connected, listening, fromClient>>

PollerHandlesBackend(w) ==
  /\ poller = "backend"
  /\ HandleMessagesFromBackend(w)
  /\ poller' = "pings"

(* Mutant: the poller blocks until the backend has a message. *)
PollerBlocksOnBackend == FALSE

PollerBackendQuiet ==
  /\ poller = "backend"
  /\ \A w \in Workers : toProxy[w] = <<>>
  /\ poller' = "pings"
  /\ UNCHANGED <<starts, running, modules, queueVars, pingerVars, networkVars>>

-----------------------------------------------------------------------------
(* The poller: what the pinger queued.                                     *)

PollerSendsPing ==
  /\ poller = "pings" /\ pingRequests # <<>>
  /\ toWorker' = SentToWorker(Head(pingRequests), Message("ping"))
  /\ pingRequests' = Tail(pingRequests)
  /\ UNCHANGED <<starts, running, modules, pingResponses, terminateRequests, poller,
                 pingerVars, connected, toProxy, frontendVars>>

PollerPingsDrained ==
  /\ poller = "pings" /\ pingRequests = <<>>
  /\ poller' = "terminates"
  /\ UNCHANGED <<starts, running, modules, queueVars, pingerVars, networkVars>>

PollerSendsTerminate ==
  /\ poller = "terminates" /\ terminateRequests # <<>>
  /\ toWorker' = SentToWorker(Head(terminateRequests), Message("terminate"))
  /\ terminateRequests' = Tail(terminateRequests)
  /\ UNCHANGED <<starts, running, modules, pingResponses, pingRequests, poller,
                 pingerVars, connected, toProxy, frontendVars>>

PollerTerminatesDrained ==
  /\ poller = "terminates" /\ terminateRequests = <<>>
  /\ poller' = "frontend"
  /\ UNCHANGED <<starts, running, modules, queueVars, pingerVars, networkVars>>

-----------------------------------------------------------------------------
(* The poller: the shutdown.                                               *)

PollerEvictsAll ==
  /\ poller = "evict"
  /\ toWorker' = SentToAll(DOMAIN modules, Message("terminate"))
  /\ poller' = IF DOMAIN modules = {} THEN "done" ELSE "await"
  /\ UNCHANGED <<starts, running, modules, queueVars, pingerVars, connected, toProxy,
                 frontendVars>>

PollerAwaits(w) ==
  /\ poller = "await"
  /\ HandleMessagesFromBackend(w)
  /\ UNCHANGED poller

(* Mutant: the poller waits for every module to be gone from the map. *)
PollerWaitsForAll ==
  /\ poller = "await"
  /\ \A w \in Workers : toProxy[w] = <<>>
  /\ DOMAIN modules = {}
  /\ poller' = "done"
  /\ UNCHANGED <<starts, running, modules, queueVars, pingerVars, networkVars>>

(* No message for five seconds, or a client's request that cut the poll    *)
(* short; whoever is left in the map may still be running.                 *)
PollerGivesUp ==
  /\ poller = "await"
  /\ \A w \in Workers : toProxy[w] = <<>>
  /\ poller' = "done"
  /\ UNCHANGED <<starts, running, modules, queueVars, pingerVars, networkVars>>

-----------------------------------------------------------------------------
(* The pinger.                                                             *)

PingerUnchanged == UNCHANGED <<starts, running, poller, networkVars>>

PingerWakes ==
  /\ pinger = "nap"
  /\ pinger' = IF running THEN "drain" ELSE "done"
  /\ UNCHANGED <<modules, queueVars, toVisit, killQueue>>
  /\ PingerUnchanged

PingerUpdates(w) ==
  /\ pinger = "drain" /\ w \in pingResponses
  /\ pingResponses' = pingResponses \ {w}
  /\ modules' = UpdateLastResponseToNow(modules, w)
  /\ UNCHANGED <<pingRequests, terminateRequests, pingerVars>>
  /\ PingerUnchanged

(* The queue is empty: the time is read and the walk of the map begins. *)
PingerBeginsWalk ==
  /\ pinger = "drain" /\ pingResponses = {}
  /\ pinger' = "walk"
  /\ toVisit' = DOMAIN modules
  /\ UNCHANGED <<modules, queueVars, killQueue>>
  /\ PingerUnchanged

(* Mutant: the module is evicted without a terminate request. *)
PingerExpiresQuietly(w) ==
  /\ Expired(modules[w])
  /\ killQueue' = Append(killQueue, w)
  /\ UNCHANGED <<modules, pingRequests, terminateRequests>>

(* Mutant: the terminate request is left to do the eviction. *)
PingerOnlyTells(w) ==
  /\ Expired(modules[w])
  /\ terminateRequests' = Append(terminateRequests, w)
  /\ UNCHANGED <<modules, pingRequests, killQueue>>

PingerExpires(w) ==
  /\ Expired(modules[w])
  /\ terminateRequests' = Append(terminateRequests, w)
  /\ killQueue' = Append(killQueue, w)
  /\ UNCHANGED <<modules, pingRequests>>

(* Mutant: the rung after the one that is due is marked. *)
PingerMarksNextRung(w) ==
  /\ ~Expired(modules[w])
  /\ IF DueRungs(modules[w]) = {}
     THEN UNCHANGED <<modules, pingRequests>>
     ELSE /\ modules' = MarkPinged(modules, w, NextRung(modules[w]) + 1)
          /\ pingRequests' = Append(pingRequests, w)
  /\ UNCHANGED <<terminateRequests, killQueue>>

PingerPings(w) ==
  /\ ~Expired(modules[w])
  /\ IF DueRungs(modules[w]) = {}
     THEN UNCHANGED <<modules, pingRequests>>
     ELSE /\ modules' = MarkPinged(modules, w, NextRung(modules[w]))
          /\ pingRequests' = Append(pingRequests, w)
  /\ UNCHANGED <<terminateRequests, killQueue>>

PingerVisits(w) ==
  /\ pinger = "walk" /\ w \in toVisit \cap DOMAIN modules
  /\ PingerExpires(w) \/ PingerPings(w)
  /\ toVisit' = toVisit \ {w}
  /\ UNCHANGED <<pingResponses, pinger>>
  /\ PingerUnchanged

PingerEndsWalk ==
  /\ pinger = "walk" /\ toVisit = {}
  /\ pinger' = "kill"
  /\ UNCHANGED <<modules, queueVars, toVisit, killQueue>>
  /\ PingerUnchanged

PingerErases ==
  /\ pinger = "kill" /\ killQueue # <<>>
  /\ modules' = Erase(modules, Head(killQueue))
  /\ killQueue' = Tail(killQueue)
  /\ UNCHANGED <<queueVars, pinger, toVisit>>
  /\ PingerUnchanged

PingerNaps ==
  /\ pinger = "kill" /\ killQueue = <<>>
  /\ pinger' = "nap"
  /\ UNCHANGED <<modules, queueVars, toVisit, killQueue>>
  /\ PingerUnchanged

-----------------------------------------------------------------------------
Poller ==
  \/ PollerLeavesLoop
  \/ PollerFrontendQuiet
  \/ \E c \in Clients : PollerHandlesFrontend(c)
  \/ \E w \in Workers : PollerHandlesBackend(w)
  \/ PollerBackendQuiet
  \/ PollerSendsPing
  \/ PollerPingsDrained
  \/ PollerSendsTerminate
  \/ PollerTerminatesDrained
  \/ PollerEvictsAll
  \/ \E w \in Workers : PollerAwaits(w)
  \/ PollerGivesUp

Pinger ==
  \/ PingerWakes
  \/ \E w \in Workers : PingerUpdates(w)
  \/ PingerBeginsWalk
  \/ \E w \in Workers : PingerVisits(w)
  \/ PingerEndsWalk
  \/ PingerErases
  \/ PingerNaps
=============================================================================

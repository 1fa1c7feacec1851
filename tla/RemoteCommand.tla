---------------------------- MODULE RemoteCommand ---------------------------
(***************************************************************************)
(* The remote command system: one command proxy, the repliers of the       *)
(* modules on its backend, the requestors on its frontend, and the clock   *)
(* that the pinger reads.                                                  *)
(***************************************************************************)
EXTENDS CommandProxy, CommandReplier, CommandRequestor

CONSTANT MaxInFlight   (* bound: time stands still while this much is under way *)

ASSUME MaxInFlightAssumption == MaxInFlight \in Nat

vars == <<proxyVars, networkVars, replierVars, requestorVars>>

TypeOK ==
  /\ ProxyTypeOK
  /\ NetworkTypeOK
  /\ ReplierTypeOK
  /\ RequestorTypeOK

Init == ProxyInit /\ NetworkInit /\ ReplierInit /\ RequestorInit

ProxyStep == (Start \/ Stop \/ Poller \/ Pinger) /\ UNCHANGED <<replierVars, requestorVars>>

ReplierStep(w) == Replier(w) /\ UNCHANGED <<proxyVars, requestorVars>>

RequestorStep(c) == Requestor(c) /\ UNCHANGED <<proxyVars, replierVars>>

(* The pings and terminate requests queued or under way for w. *)
UnderWay(w) ==
  Len(SelectSeq(pingRequests \o terminateRequests, LAMBDA x : x = w))
    + Len(toWorker[w]) + Len(toProxy[w])

(* A pass of the pinger uses the time it read when the pass began, so the  *)
(* clock ticks between passes.                                             *)
Tick ==
  /\ pinger \in {"nap", "done"}
  /\ \A w \in Workers : UnderWay(w) < MaxInFlight
  /\ modules' = GrowOlder(modules)
  /\ UNCHANGED <<starts, running, queueVars, poller, pingerVars, networkVars,
                 replierVars, requestorVars>>

Next ==
  \/ ProxyStep
  \/ \E w \in Workers : ReplierStep(w)
  \/ \E c \in Clients : RequestorStep(c)
  \/ Tick

Spec == Init /\ [][Next]_vars

-----------------------------------------------------------------------------
(* Safety. *)

(* At most one address is registered for a module (a name and an instance):*)
(* proxy.cpp's comment on ModulesMap says that both the address and the    *)
(* module are unique, and only the address is the key of the std::map.     *)
UniqueModule ==
  \A v, w \in DOMAIN modules : modules[v].details = modules[w].details => v = w

(* The ping ladder is climbed one rung after the other, and never ahead of *)
(* the silence: a module was pinged on a rung only if it is silent for     *)
(* longer than that rung's interval, and only after every lower rung.      *)
LadderClimbed ==
  \A w \in DOMAIN modules : \A i \in modules[w].pinged :
    /\ modules[w].silence > Intervals[i]
    /\ \A j \in 1..i : j \in modules[w].pinged

(* A replier that serves believes in its registration and has not been     *)
(* handed a terminate request.                                             *)
Serving == {w \in Workers : replier[w] = "polling" /\ w \notin told}

(* No module is dropped behind its back: a replier that serves without     *)
(* being in the proxy's map has a terminate request queued or under way,   *)
(* whatever the interleaving of the pinger's eviction (which queues the    *)
(* request before it erases), registrations retried after a time-out,      *)
(* and restarts of the proxy.                                              *)
NoUntoldOrphan ==
  \A w \in Serving :
    \/ w \in DOMAIN modules
    \/ \E i \in 1..Len(terminateRequests) : terminateRequests[i] = w
    \/ "terminate" \in KindsIn(toWorker[w])

(* The places where the one request of client c, or its answer, can be.    *)
PlacesIn(channel, c) ==
  {i \in 1..Len(channel) :
     channel[i].type \in {"request", "reply"} /\ channel[i].client = c}

WithReplier(c, w) == PlacesIn(toWorker[w], c) # {}

Answered(c, w) == PlacesIn(toProxy[w], c) # {}

RequestsOf(c) ==
  {<<"fromClient", i>> : i \in 1..Len(fromClient[c])}
    \cup {<<"toClient", i>> : i \in 1..Len(toClient[c])}
    \cup (UNION {{<<w, "asked", i>> : i \in PlacesIn(toWorker[w], c)} : w \in Workers})
    \cup (UNION {{<<w, "answered", i>> : i \in PlacesIn(toProxy[w], c)} : w \in Workers})

(* The address a request for m is routed to. *)
OwnerOf(m) == GetAddress(modules, m)

(* A request is never in two places: it reaches at most one module, once,  *)
(* and is answered at most once, though the name it is routed by may       *)
(* change hands while it is under way.                                     *)
AtMostOneAnswer == \A c \in Clients : Cardinality(RequestsOf(c)) <= 1

(* The answer a requestor reads is an answer to the question it asked: by  *)
(* the module it named, or the proxy's refusal; or the list of modules.    *)
AnswerFits ==
  \A c \in Clients : \A i \in 1..Len(toClient[c]) :
    LET answer == toClient[c][i]
    IN CASE pending[c].type = "request" ->
              \/ answer.type = "failure"
              \/ answer.type = "reply" /\ answer.module = pending[c].module
         [] pending[c].type = "availableModules" -> answer.type = "modules"

(* The proxy loses no request and no answer.  One that disappears was read *)
(* by the requestor, or its requestor left, or the replier it was with or  *)
(* under way to left; or that replier took it for the answer to its own    *)
(* (de)registration, or its callback returned nothing.                     *)
LostOnlyWithPeer ==
  [][\A c \in Clients :
       RequestsOf(c) # {} /\ RequestsOf(c)' = {} =>
         \/ c \notin listening'
         \/ toClient[c] # <<>>
         \/ \E w \in Workers :
              \/ WithReplier(c, w)
                   /\ replier[w] \in {"registering", "polling", "deregistering"}
              \/ (WithReplier(c, w) \/ Answered(c, w)) /\ w \notin connected'
         \/ \E w \in Workers \ connected :
              Len(fromClient[c]) = 1 /\ fromClient[c][1].type = "request"
                /\ OwnerOf(fromClient[c][1].module) = w]_vars

(* The addresses the pinger collected while it walked the map do not go    *)
(* stale before it erases them, though the poller erases and registers     *)
(* meanwhile: what is still in the map is the overdue entry it saw.        *)
KillsOnlyOverdue ==
  \A i \in 1..Len(killQueue) :
    killQueue[i] \in DOMAIN modules => Expired(modules[killQueue[i]])

(* The system implements the directory of leases.                          *)
Directory == INSTANCE ModuleDirectory WITH
  Patience <- ModuleTimeOut,
  owner <- [m \in Modules |-> OwnerOf(m)],
  silence <- [m \in Modules |->
               IF OwnerOf(m) = NoAddress THEN 0 ELSE modules[OwnerOf(m)].silence],
  serving <- Serving

DirectorySpec == Directory!Spec

-----------------------------------------------------------------------------
(* Liveness.  Each thread of the proxy runs, the clock ticks, a replier    *)
(* that lives reads its socket and its callback returns, a requestor reads *)
(* an answer that is there.  A ROUTER socket takes messages from its peers *)
(* in turn, so no peer's message waits forever while others are read.      *)
(* Between two passes the pinger sleeps, and the clock ticks.              *)
(* Nobody has to start, stop, ask, retry, leave or time out.               *)

PollerStep == Poller /\ UNCHANGED <<replierVars, requestorVars>>

PingerStep == Pinger /\ UNCHANGED <<replierVars, requestorVars>>

ReadsBackend(w) ==
  (PollerHandlesBackend(w) \/ PollerAwaits(w)) /\ UNCHANGED <<replierVars, requestorVars>>

ReadsFrontend(c) == PollerHandlesFrontend(c) /\ UNCHANGED <<replierVars, requestorVars>>

ReplierRunsStep(w) == ReplierRuns(w) /\ UNCHANGED <<proxyVars, requestorVars>>

RequestorReads(c) == RequestorIsAnswered(c) /\ UNCHANGED <<proxyVars, replierVars>>

Fairness ==
  /\ WF_vars(PollerStep) /\ WF_vars(PingerStep) /\ SF_vars(Tick)
  /\ \A w \in Workers : SF_vars(ReadsBackend(w)) /\ WF_vars(ReplierRunsStep(w))
  /\ \A c \in Clients : SF_vars(ReadsFrontend(c)) /\ WF_vars(RequestorReads(c))

FairSpec == Spec /\ Fairness

(* While the proxy keeps running, the entry of a module whose process is   *)
(* gone does not stay: its name becomes free for a successor.              *)
DeadModuleEvicted ==
  <>[]running =>
    \A w \in Workers :
      (w \in DOMAIN modules /\ w \notin connected) ~> (w \notin DOMAIN modules)

(* A stopped proxy comes to rest: both threads end, though the poller      *)
(* waits for the modules' answers and modules may still be registering.    *)
ShutdownCompletes == ~running ~> (poller = "done" /\ pinger = "done")

(* A request is held up by a replier that is not in its poll loop: one     *)
(* that gave its registration up though the proxy granted it, or one that  *)
(* deregistered.                                                           *)
HeldUp(c) ==
  \E w \in Workers : replier[w] # "polling" /\ WithReplier(c, w)

(* While the proxy keeps running, a request does not wander forever: its   *)
(* answer arrives (perhaps after the time-out, when the requestor does not *)
(* look any more), or it is lost with the peer it was sent to, or held up. *)
EveryRequestSettles ==
  <>[]running =>
    \A c \in Clients : (RequestsOf(c) # {}) ~>
        (RequestsOf(c) = {} \/ toClient[c] # <<>> \/ HeldUp(c))

-----------------------------------------------------------------------------
(* What the documentation says and the code does not do.                   *)

(* ModulesMap is documented as a thread-safe map: nobody inserts or erases *)
(* an entry while another thread is in the middle of a walk over the map.  *)
WalkIsExclusive ==
  [][pinger = "walk" /\ toVisit # {} => DOMAIN modules' = DOMAIN modules]_vars

(* The documentation of setPingIntervals: a module gets a ping on every    *)
(* interval before it is sent a terminate request.                         *)
EveryRungBeforeEviction ==
  [][\A w \in DOMAIN modules :
       Len(killQueue') > Len(killQueue) /\ Expired(modules[w])
         /\ killQueue'[Len(killQueue')] = w => modules[w].pinged = Rungs]_vars

(* The same documentation: a module that does not respond is sent a        *)
(* terminate request, so none is left behind when the proxy has stopped.   *)
EvictedIsTold == poller = "done" /\ pinger = "done" => terminateRequests = <<>>
=============================================================================

------------------------- MODULE RemoteCommand_proofs -------------------------
(***************************************************************************)
(* Theorems about the remote command system, for any number of modules,    *)
(* connections and clients, any ping ladder, and any of the bounds.        *)
(*                                                                         *)
(* The map of modules is changed by two threads in a handful of ways, each *)
(* the whole of one operator of ModulesMap.  MapChanges says so once; the  *)
(* invariants of the map follow from it and from one lemma per operator.   *)
(***************************************************************************)
EXTENDS RemoteCommand, SequenceTheorems, WellFoundedInduction, TLAPS

-----------------------------------------------------------------------------
(* The operators of ModulesMap.                                            *)

MapOK(map) == DOMAIN map \subseteq Workers /\ \A w \in DOMAIN map : map[w] \in Entry

(* The intervals of the ladder are positive and below the time-out.        *)
LEMMA LadderBounds ==
  /\ ModuleTimeOut \in Nat
  /\ \A i \in Rungs : Intervals[i] \in Nat \ {0} /\ Intervals[i] < ModuleTimeOut
<1>1. Intervals \in Seq(Nat \ {0}) /\ Len(Intervals) \in Rungs
  BY IntervalsAssumption DEF Rungs
<1>2. ModuleTimeOut \in Nat /\ Intervals[Len(Intervals)] < ModuleTimeOut
  BY <1>1, SlackAssumption DEF ModuleTimeOut, Rungs
<1>3. ASSUME NEW i \in Rungs
      PROVE Intervals[i] \in Nat \ {0} /\ Intervals[i] <= Intervals[Len(Intervals)]
  <2>1. Intervals[i] \in Nat \ {0} /\ i \in 1..Len(Intervals) /\ Len(Intervals) \in Nat
    BY <1>1 DEF Rungs
  <2>2. CASE i = Len(Intervals)
    BY <2>1, <2>2
  <2>3. CASE i < Len(Intervals)
    BY <1>1, <2>1, <2>3, IntervalsAssumption DEF Rungs
  <2> QED BY <2>1, <2>2, <2>3
<1> QED BY <1>1, <1>2, <1>3

(* An insertion adds one fresh entry and keeps the others.                 *)
LEMMA InsertProperties ==
  ASSUME NEW map, MapOK(map), NEW w \in Workers, NEW m \in Modules
  PROVE  /\ MapOK(Insert(map, w, m))
         /\ DOMAIN Insert(map, w, m) = DOMAIN map \cup {w}
         /\ Insert(map, w, m)[w] = NewEntry(m)
         /\ \A x \in DOMAIN map \ {w} : Insert(map, w, m)[x] = map[x]
<1>1. NewEntry(m) \in Entry
  BY LadderBounds DEF NewEntry, Entry, Overdue
<1> QED BY <1>1 DEF MapOK, Insert

(* An erasure keeps the other entries.                                     *)
LEMMA EraseProperties ==
  ASSUME NEW map, MapOK(map), NEW w
  PROVE  /\ MapOK(Erase(map, w))
         /\ DOMAIN Erase(map, w) = DOMAIN map \ {w}
         /\ \A x \in DOMAIN map \ {w} : Erase(map, w)[x] = map[x]
BY DEF MapOK, Erase

(* A response resets one entry's silence and its ladder, and nothing else. *)
LEMMA UpdateProperties ==
  ASSUME NEW map, MapOK(map), NEW w
  PROVE  LET new == UpdateLastResponseToNow(map, w)
         IN /\ MapOK(new)
            /\ DOMAIN new = DOMAIN map
            /\ \A x \in DOMAIN map : new[x].details = map[x].details
            /\ w \in DOMAIN map => new[w].pinged = {} /\ new[w].silence = 0
            /\ \A x \in DOMAIN map \ {w} : new[x] = map[x]
<1>1. 0 \in 0..Overdue
  BY LadderBounds DEF Overdue
<1> QED BY <1>1 DEF MapOK, Entry, UpdateLastResponseToNow

(* A ping marks one rung of one entry, and nothing else.                   *)
LEMMA MarkProperties ==
  ASSUME NEW map, MapOK(map), NEW w, NEW i \in Rungs
  PROVE  LET new == MarkPinged(map, w, i)
         IN /\ MapOK(new)
            /\ DOMAIN new = DOMAIN map
            /\ \A x \in DOMAIN map : /\ new[x].details = map[x].details
                                     /\ new[x].silence = map[x].silence
            /\ w \in DOMAIN map => new[w].pinged = map[w].pinged \cup {i}
            /\ \A x \in DOMAIN map \ {w} : new[x] = map[x]
BY DEF MapOK, Entry, MarkPinged

(* A tick makes no entry younger and touches nothing but the silence.      *)
LEMMA OlderProperties ==
  ASSUME NEW map, MapOK(map)
  PROVE  LET new == GrowOlder(map)
         IN /\ MapOK(new)
            /\ DOMAIN new = DOMAIN map
            /\ \A x \in DOMAIN map : /\ new[x].details = map[x].details
                                     /\ new[x].pinged = map[x].pinged
                                     /\ new[x].silence >= map[x].silence
<1>1. Overdue \in Nat
  BY LadderBounds DEF Overdue
<1> QED BY <1>1 DEF MapOK, Entry, GrowOlder

(* A name that is registered is found at an address registered for it, and *)
(* no other name is found.                                                 *)
LEMMA GetAddressProperties ==
  ASSUME NEW map, MapOK(map), NEW m
  PROVE  /\ ContainsDetails(map, m) <=> GetAddress(map, m) # NoAddress
         /\ ContainsDetails(map, m) =>
              GetAddress(map, m) \in DOMAIN map /\ map[GetAddress(map, m)].details = m
<1>1. ContainsDetails(map, m) =>
        GetAddress(map, m) \in DOMAIN map /\ map[GetAddress(map, m)].details = m
  BY DEF ContainsDetails, GetAddress
<1>2. ~ContainsDetails(map, m) => GetAddress(map, m) = NoAddress
  BY DEF GetAddress
<1> QED BY <1>1, <1>2, AddressAssumption DEF MapOK

(* If a ping is due, the pinger finds the shortest interval it is due on.  *)
LEMMA NextRungProperties ==
  ASSUME NEW entry, DueRungs(entry) # {}
  PROVE  /\ NextRung(entry) \in DueRungs(entry)
         /\ NextRung(entry) \in Rungs
         /\ \A j \in DueRungs(entry) : NextRung(entry) <= j
<1>1. DueRungs(entry) \subseteq Nat /\ DueRungs(entry) \subseteq Rungs
  BY IntervalsAssumption DEF DueRungs, Rungs
<1>2. \E i \in DueRungs(entry) : \A j \in DueRungs(entry) : i <= j
  <2> DEFINE R == OpToRel(<, Nat)
  <2>1. IsWellFoundedOn(R, Nat)
    BY NatLessThanWellFounded
  <2>2. \A x, y \in Nat : <<y, x>> \in R <=> y < x
    BY DEF OpToRel
  <2> HIDE DEF R
  <2>3. PICK i \in DueRungs(entry) : \A j \in DueRungs(entry) : <<j, i>> \notin R
    BY <1>1, <2>1, WFMin
  <2>4. ASSUME NEW j \in DueRungs(entry) PROVE i <= j
    <3>1. i \in Nat /\ j \in Nat
      BY <1>1
    <3>2. ~(j < i)
      BY <2>2, <2>3, <3>1
    <3> QED BY <3>1, <3>2
  <2> QED BY <2>4
<1> QED BY <1>1, <1>2 DEF NextRung

-----------------------------------------------------------------------------
(* The channels.                                                           *)

(* What is sent keeps the channels well typed.                             *)
LEMMA SentTypes ==
  ASSUME NetworkTypeOK
  PROVE  /\ \A w \in Workers, msg \in MessagesToWorker :
              SentToWorker(w, msg) \in [Workers -> Seq(MessagesToWorker)]
         /\ \A set \in SUBSET Workers, msg \in MessagesToWorker :
              SentToAll(set, msg) \in [Workers -> Seq(MessagesToWorker)]
         /\ \A c \in Clients, msg \in MessagesToClient :
              SentToClient(c, msg) \in [Clients -> Seq(MessagesToClient)]
         /\ \A w \in Workers, msg \in MessagesToProxy :
              SentToProxy(w, msg) \in [Workers -> Seq(MessagesToProxy)]
<1>1. ASSUME NEW w \in Workers, NEW msg \in MessagesToWorker
      PROVE  SentToWorker(w, msg) \in [Workers -> Seq(MessagesToWorker)]
  BY DEF NetworkTypeOK, SentToWorker
<1>2. ASSUME NEW set \in SUBSET Workers, NEW msg \in MessagesToWorker
      PROVE  SentToAll(set, msg) \in [Workers -> Seq(MessagesToWorker)]
  BY DEF NetworkTypeOK, SentToAll
<1>3. ASSUME NEW c \in Clients, NEW msg \in MessagesToClient
      PROVE  SentToClient(c, msg) \in [Clients -> Seq(MessagesToClient)]
  BY DEF NetworkTypeOK, SentToClient
<1>4. ASSUME NEW w \in Workers, NEW msg \in MessagesToProxy
      PROVE  SentToProxy(w, msg) \in [Workers -> Seq(MessagesToProxy)]
  BY DEF NetworkTypeOK, SentToProxy
<1> QED BY <1>1, <1>2, <1>3, <1>4

(* The messages the code sends are messages of their channels.             *)
LEMMA MessageTypes ==
  /\ \A kind \in {"ping", "terminate", "success", "exists"} :
       Message(kind) \in MessagesToWorker
  /\ \A kind \in {"register", "deregister", "pingResponse", "terminateResponse"} :
       Message(kind) \in MessagesToProxy
  /\ Message("failure") \in MessagesToClient
  /\ \A c \in Clients, m \in Modules :
       /\ RoutedMessage("request", c, m) \in MessagesToWorker
       /\ RoutedMessage("reply", c, m) \in MessagesToProxy
  /\ \A m \in Modules : [type |-> "reply", module |-> m] \in MessagesToClient
  /\ \A list \in SUBSET Modules :
       [type |-> "modules", list |-> list] \in MessagesToClient
BY DEF Message, RoutedMessage, Plain, Routed, MessagesToWorker, MessagesToProxy,
       MessagesToClient

(* So every send of the code leaves its channel well typed.                *)
LEMMA ChannelTypes ==
  ASSUME NetworkTypeOK
  PROVE  /\ \A w \in Workers, kind \in {"ping", "terminate", "success", "exists"} :
              SentToWorker(w, Message(kind)) \in [Workers -> Seq(MessagesToWorker)]
         /\ \A set \in SUBSET Workers :
              SentToAll(set, Message("terminate")) \in [Workers -> Seq(MessagesToWorker)]
         /\ \A w \in Workers, c \in Clients, m \in Modules :
              /\ SentToWorker(w, RoutedMessage("request", c, m))
                   \in [Workers -> Seq(MessagesToWorker)]
              /\ SentToProxy(w, RoutedMessage("reply", c, m))
                   \in [Workers -> Seq(MessagesToProxy)]
         /\ \A w \in Workers,
               kind \in {"register", "deregister", "pingResponse", "terminateResponse"} :
              SentToProxy(w, Message(kind)) \in [Workers -> Seq(MessagesToProxy)]
         /\ \A c \in Clients :
              /\ SentToClient(c, Message("failure")) \in [Clients -> Seq(MessagesToClient)]
              /\ \A m \in Modules : SentToClient(c, [type |-> "reply", module |-> m])
                                      \in [Clients -> Seq(MessagesToClient)]
              /\ \A list \in SUBSET Modules :
                   SentToClient(c, [type |-> "modules", list |-> list])
                     \in [Clients -> Seq(MessagesToClient)]
BY SentTypes, MessageTypes

(* A request or an answer names a client and a module.                     *)
LEMMA RoutedTypes ==
  /\ \A msg \in MessagesToWorker : msg.type = "request" =>
       msg.client \in Clients /\ msg.module \in Modules
  /\ \A msg \in MessagesToProxy : msg.type = "reply" =>
       msg.client \in Clients /\ msg.module \in Modules
  /\ \A msg \in MessagesFromClient : msg.type = "request" => msg.module \in Modules
BY DEF Plain, Routed, MessagesToWorker, MessagesToProxy, MessagesFromClient

(* Appending an element of a set to a sequence over it.                    *)
LEMMA AppendInSeq ==
  ASSUME NEW S, NEW q \in Seq(S), NEW e \in S
  PROVE  Append(q, e) \in Seq(S)
OBVIOUS

-----------------------------------------------------------------------------
(* Type correctness, thread by thread.                                     *)

(* What the pinger does keeps the types.                                   *)
LEMMA PingerTypes ==
  ASSUME TypeOK, Pinger
  PROVE  ProxyTypeOK' /\ NetworkTypeOK'
<1> USE DEF TypeOK, ProxyTypeOK, PingerUnchanged, queueVars, pingerVars
<1>1. NetworkTypeOK'
  BY DEF Pinger, PingerWakes, PingerUpdates, PingerBeginsWalk, PingerVisits,
         PingerEndsWalk, PingerErases, PingerNaps, NetworkTypeOK, networkVars
<1> SUFFICES ProxyTypeOK'
  BY <1>1
<1>2. MapOK(modules)
  BY DEF MapOK
<1>3. MapOK(modules') => DOMAIN modules' \subseteq Workers
                           /\ \A w \in DOMAIN modules' : modules'[w] \in Entry
  BY DEF MapOK
<1>4. CASE PingerWakes
  BY <1>4 DEF PingerWakes, PingerPlaces
<1>5. ASSUME NEW w \in Workers, PingerUpdates(w)
      PROVE  ProxyTypeOK'
  <2>1. MapOK(modules')
    BY <1>2, <1>5, UpdateProperties DEF PingerUpdates
  <2> QED BY <1>3, <1>5, <2>1 DEF PingerUpdates, PingerPlaces
<1>6. CASE PingerBeginsWalk
  BY <1>6 DEF PingerBeginsWalk, PingerPlaces
<1>7. ASSUME NEW w \in Workers, PingerVisits(w)
      PROVE  ProxyTypeOK'
  <2>1. CASE PingerExpires(w)
    BY <1>7, <2>1 DEF PingerVisits, PingerExpires
  <2>2. CASE PingerPings(w)
    <3>1. CASE DueRungs(modules[w]) = {}
      BY <1>7, <2>2, <3>1 DEF PingerVisits, PingerPings
    <3>2. CASE DueRungs(modules[w]) # {}
      <4>1. MapOK(modules')
        BY <1>2, <2>2, <3>2, MarkProperties, NextRungProperties DEF PingerPings
      <4>2. pingRequests \in Seq(Workers)
        OBVIOUS
      <4>3. pingRequests' = Append(pingRequests, w)
        BY <2>2, <3>2, Zenon DEF PingerPings
      <4>4. UNCHANGED <<terminateRequests, killQueue>>
        BY <2>2, Zenon DEF PingerPings
      <4>5. pingRequests' \in Seq(Workers)
        BY <1>7, <4>2, <4>3, AppendInSeq
      <4> QED BY <1>3, <1>7, <4>1, <4>4, <4>5 DEF PingerVisits
    <3> QED BY <3>1, <3>2
  <2> QED BY <1>7, <2>1, <2>2 DEF PingerVisits
<1>8. CASE PingerEndsWalk
  BY <1>8 DEF PingerEndsWalk, PingerPlaces
<1>9. CASE PingerErases
  <2>1. MapOK(modules')
    BY <1>2, <1>9, EraseProperties DEF PingerErases
  <2> QED BY <1>3, <1>9, <2>1 DEF PingerErases
<1>10. CASE PingerNaps
  BY <1>10 DEF PingerNaps, PingerPlaces
<1> QED BY <1>4, <1>5, <1>6, <1>7, <1>8, <1>9, <1>10 DEF Pinger

(* Handling a message from the backend keeps the types.                    *)
LEMMA BackendTypes ==
  ASSUME TypeOK, NEW w \in Workers, HandleMessagesFromBackend(w), poller' \in PollerPlaces
  PROVE  ProxyTypeOK' /\ NetworkTypeOK'
<1> USE DEF TypeOK, ProxyTypeOK, NetworkTypeOK
<1>1. MapOK(modules)
  BY DEF MapOK
<1>2. MapOK(modules') => DOMAIN modules' \subseteq Workers
                           /\ \A x \in DOMAIN modules' : modules'[x] \in Entry
  BY DEF MapOK
<1>3. Head(toProxy[w]) \in MessagesToProxy
  BY DEF HandleMessagesFromBackend
<1>4. toProxy' \in [Workers -> Seq(MessagesToProxy)]
  BY DEF HandleMessagesFromBackend
<1>5. \A left : WalkDisturbed(left) /\ left \subseteq Workers => toVisit' \subseteq Workers
  BY DEF WalkDisturbed
<1>6. PollerErases(w) => MapOK(modules') /\ toVisit' \subseteq Workers
  BY <1>1, <1>5, EraseProperties DEF PollerErases
<1>7. /\ \A x \in Workers, kind \in {"success", "exists"} :
           SentToWorker(x, Message(kind)) \in [Workers -> Seq(MessagesToWorker)]
      /\ toClient' = toClient => toClient' \in [Clients -> Seq(MessagesToClient)]
  BY ChannelTypes
<1> SUFFICES /\ MapOK(modules')
             /\ toVisit' \subseteq Workers
             /\ pingResponses' \subseteq Workers
             /\ toWorker' \in [Workers -> Seq(MessagesToWorker)]
             /\ toClient' \in [Clients -> Seq(MessagesToClient)]
  BY <1>2, <1>4 DEF HandleMessagesFromBackend
<1>8. CASE HandleRegister(w)
  <2>1. CASE ContainsDetails(modules, Details[w])
    BY <1>1, <1>7, <1>8, <2>1 DEF HandleRegister
  <2>2. CASE ~ContainsDetails(modules, Details[w])
    <3>1. MapOK(modules')
      <4>1. Details[w] \in Modules
        BY DetailsAssumption
      <4>2. modules' = Insert(modules, w, Details[w])
        BY <1>8, <2>2 DEF HandleRegister
      <4> QED BY <1>1, <4>1, <4>2, InsertProperties
    <3> QED BY <1>5, <1>7, <1>8, <2>2, <3>1 DEF HandleRegister
  <2> QED BY <2>1, <2>2
<1>9. CASE HandleDeregister(w)
  BY <1>6, <1>7, <1>9 DEF HandleDeregister
<1>10. CASE HandlePingResponse(w)
  BY <1>1, <1>7, <1>10 DEF HandlePingResponse
<1>11. CASE HandleTerminateResponse(w)
  BY <1>6, <1>7, <1>11 DEF HandleTerminateResponse
<1>12. CASE PropagateToFrontend(w)
  BY <1>1, <1>3, <1>12, ChannelTypes, RoutedTypes DEF PropagateToFrontend
<1> QED BY <1>8, <1>9, <1>10, <1>11, <1>12 DEF HandleMessagesFromBackend

(* What the poller does keeps the types.                                   *)
LEMMA PollerTypes ==
  ASSUME TypeOK, Poller
  PROVE  ProxyTypeOK' /\ NetworkTypeOK'
<1> USE DEF TypeOK
<1>1. ASSUME poller' \in PollerPlaces, UNCHANGED <<starts, running, modules, queueVars,
                                                   pingerVars, networkVars>>
      PROVE  ProxyTypeOK' /\ NetworkTypeOK'
  BY <1>1 DEF ProxyTypeOK, NetworkTypeOK, queueVars, pingerVars, networkVars
<1>2. CASE \/ PollerLeavesLoop \/ PollerFrontendQuiet \/ PollerBackendQuiet
           \/ PollerPingsDrained \/ PollerTerminatesDrained \/ PollerGivesUp
  BY <1>1, <1>2 DEF PollerLeavesLoop, PollerFrontendQuiet, PollerBackendQuiet,
       PollerPingsDrained, PollerTerminatesDrained, PollerGivesUp, PollerPlaces
<1>3. ASSUME NEW c \in Clients, PollerHandlesFrontend(c)
      PROVE  ProxyTypeOK' /\ NetworkTypeOK'
  <2>1. Head(fromClient[c]) \in MessagesFromClient
    BY <1>3 DEF NetworkTypeOK, PollerHandlesFrontend
  <2>2. fromClient' \in [Clients -> Seq(MessagesFromClient)]
    BY <1>3 DEF NetworkTypeOK, PollerHandlesFrontend
  <2>3. /\ toWorker' \in [Workers -> Seq(MessagesToWorker)]
        /\ toClient' \in [Clients -> Seq(MessagesToClient)]
    <3>1. CASE AnswerAvailableModules(c)
      <4>1. ToVector(modules) \in SUBSET Modules
        BY DEF ToVector, ProxyTypeOK, Entry
      <4> QED BY <3>1, <4>1, ChannelTypes DEF AnswerAvailableModules, NetworkTypeOK
    <3>2. CASE PropagateToBackend(c)
      <4>1. GetAddress(modules, Head(fromClient[c]).module) \in Workers
        BY <3>2, GetAddressProperties DEF PropagateToBackend, MapOK, ProxyTypeOK
      <4>2. Head(fromClient[c]).module \in Modules
        BY <2>1, <3>2, RoutedTypes DEF PropagateToBackend
      <4> QED BY <3>2, <4>1, <4>2, ChannelTypes DEF PropagateToBackend, NetworkTypeOK
    <3>3. CASE RefuseUnknownModule(c)
      BY <3>3, ChannelTypes DEF RefuseUnknownModule, NetworkTypeOK
    <3> QED BY <1>3, <3>1, <3>2, <3>3 DEF PollerHandlesFrontend
  <2> QED BY <1>3, <2>2, <2>3 DEF PollerHandlesFrontend, ProxyTypeOK, NetworkTypeOK,
             PollerPlaces, queueVars, pingerVars
<1>4. ASSUME NEW w \in Workers, PollerHandlesBackend(w) \/ PollerAwaits(w)
      PROVE  ProxyTypeOK' /\ NetworkTypeOK'
  BY <1>4, BackendTypes DEF PollerHandlesBackend, PollerAwaits, PollerPlaces, ProxyTypeOK
<1>5. CASE PollerSendsPing
  <2>1. toWorker' \in [Workers -> Seq(MessagesToWorker)]
    <3>1. Head(pingRequests) \in Workers
      BY <1>5 DEF PollerSendsPing, ProxyTypeOK
    <3> QED BY <1>5, <3>1, ChannelTypes DEF PollerSendsPing
  <2> QED BY <1>5, <2>1 DEF PollerSendsPing, ProxyTypeOK, NetworkTypeOK, pingerVars,
             frontendVars
<1>6. CASE PollerSendsTerminate
  <2>1. toWorker' \in [Workers -> Seq(MessagesToWorker)]
    <3>1. Head(terminateRequests) \in Workers
      BY <1>6 DEF PollerSendsTerminate, ProxyTypeOK
    <3> QED BY <1>6, <3>1, ChannelTypes DEF PollerSendsTerminate
  <2> QED BY <1>6, <2>1 DEF PollerSendsTerminate, ProxyTypeOK, NetworkTypeOK, pingerVars,
             frontendVars
<1>7. CASE PollerEvictsAll
  <2>1. toWorker' \in [Workers -> Seq(MessagesToWorker)]
    BY <1>7, ChannelTypes DEF PollerEvictsAll, ProxyTypeOK
  <2> QED BY <1>7, <2>1 DEF PollerEvictsAll, ProxyTypeOK, NetworkTypeOK, PollerPlaces,
             queueVars, pingerVars, frontendVars
<1> QED BY <1>2, <1>3, <1>4, <1>5, <1>6, <1>7 DEF Poller

(* What the repliers do keeps the types.                                   *)
LEMMA ReplierTypes ==
  ASSUME TypeOK, NEW w \in Workers, Replier(w)
  PROVE  ReplierTypeOK' /\ NetworkTypeOK'
<1> USE DEF TypeOK, ReplierTypeOK, NetworkTypeOK, networkVars, frontendVars
<1>1. \A from, to \in ReplierPlaces :
        Moves(w, from, to) => replier' \in [Workers -> ReplierPlaces]
  BY DEF Moves
<1>2. Takes(w) => /\ toWorker' \in [Workers -> Seq(MessagesToWorker)]
                  /\ Head(toWorker[w]) \in MessagesToWorker
  BY DEF Takes
<1>3. /\ \A kind \in {"register", "deregister", "pingResponse", "terminateResponse"} :
           SentToProxy(w, Message(kind)) \in [Workers -> Seq(MessagesToProxy)]
      /\ \A c \in Clients, m \in Modules :
           SentToProxy(w, RoutedMessage("reply", c, m)) \in [Workers -> Seq(MessagesToProxy)]
  BY ChannelTypes
<1>4. CASE ReplierRegisters(w)
  <2>1. replier' \in [Workers -> ReplierPlaces]
    BY <1>1, <1>4 DEF ReplierRegisters, ReplierPlaces
  <2>2. attempts' \in [Workers -> Nat]
    BY <1>4 DEF ReplierRegisters
  <2>3. toProxy' \in [Workers -> Seq(MessagesToProxy)]
    BY <1>3, <1>4 DEF ReplierRegisters
  <2> QED BY <1>4, <2>1, <2>2, <2>3 DEF ReplierRegisters
<1>5. CASE ReplierReadsRegistration(w)
  <2>1. replier' \in [Workers -> ReplierPlaces]
    BY <1>1, <1>5 DEF ReplierReadsRegistration, ReplierPlaces
  <2> QED BY <1>2, <1>5, <2>1 DEF ReplierReadsRegistration
<1>6. CASE ReplierGivesUp(w)
  <2>1. replier' \in [Workers -> ReplierPlaces]
    BY <1>1, <1>6 DEF ReplierGivesUp, ReplierPlaces
  <2> QED BY <1>6, <2>1 DEF ReplierGivesUp
<1>7. CASE ReplierPolls(w)
  <2>1. toProxy' \in [Workers -> Seq(MessagesToProxy)] /\ told' \subseteq Workers
    <3>1. CASE ReplierAnswersPing(w)
      BY <1>3, <3>1 DEF ReplierAnswersPing
    <3>2. CASE ReplierIsTold(w)
      BY <1>3, <3>2 DEF ReplierIsTold
    <3>3. CASE ReplierAnswersRequest(w)
      BY <1>2, <1>3, <1>7, <3>3, RoutedTypes, DetailsAssumption
      DEF ReplierAnswersRequest, ReplierPolls
    <3>4. CASE ReplierSkips(w)
      BY <3>4 DEF ReplierSkips
    <3> QED BY <1>7, <3>1, <3>2, <3>3, <3>4 DEF ReplierPolls
  <2> QED BY <1>2, <1>7, <2>1 DEF ReplierPolls
<1>8. CASE ReplierStops(w)
  <2>1. replier' \in [Workers -> ReplierPlaces]
    BY <1>1, <1>8 DEF ReplierStops, ReplierPlaces
  <2> QED BY <1>3, <1>8, <2>1 DEF ReplierStops
<1>9. CASE ReplierReadsDeregistration(w)
  <2>1. replier' \in [Workers -> ReplierPlaces]
    BY <1>1, <1>9 DEF ReplierReadsDeregistration, ReplierPlaces
  <2> QED BY <1>2, <1>9, <2>1 DEF ReplierReadsDeregistration
<1>10. CASE ReplierStopsWaiting(w)
  <2>1. replier' \in [Workers -> ReplierPlaces]
    BY <1>1, <1>10 DEF ReplierStopsWaiting, ReplierPlaces
  <2> QED BY <1>10, <2>1 DEF ReplierStopsWaiting
<1>11. CASE ReplierLeaves(w)
  <2>1. PICK n \in 0..Len(toProxy[w]) : toProxy' = [toProxy EXCEPT ![w] = SubSeq(@, 1, n)]
    BY <1>11 DEF ReplierLeaves
  <2>2. SubSeq(toProxy[w], 1, n) \in Seq(MessagesToProxy)
    <3>1. toProxy[w] \in Seq(MessagesToProxy) /\ n \in Int /\ n <= Len(toProxy[w])
      BY <2>1
    <3>2. \A i \in 1..n : toProxy[w][i] \in MessagesToProxy
      BY <3>1
    <3> QED BY <3>1, <3>2, SubSeqProperties
  <2>3. toProxy' \in [Workers -> Seq(MessagesToProxy)]
    BY <2>1, <2>2
  <2> QED BY <1>11, <2>3 DEF ReplierLeaves, ReplierPlaces
<1> QED BY <1>4, <1>5, <1>6, <1>7, <1>8, <1>9, <1>10, <1>11 DEF Replier, ReplierRuns

(* What the requestors do keeps the types.                                 *)
LEMMA RequestorTypes ==
  ASSUME TypeOK, NEW c \in Clients, Requestor(c)
  PROVE  RequestorTypeOK' /\ NetworkTypeOK'
<1> USE DEF TypeOK, RequestorTypeOK, NetworkTypeOK, RequestorPlaces, networkVars, backendVars
<1>1. ASSUME NEW request \in MessagesFromClient, RequestorAsks(c, request)
      PROVE  RequestorTypeOK' /\ NetworkTypeOK'
  BY <1>1 DEF RequestorAsks
<1>2. CASE RequestorIsAnswered(c)
  BY <1>2 DEF RequestorIsAnswered
<1>3. CASE RequestorTimesOut(c)
  BY <1>3 DEF RequestorTimesOut
<1>4. CASE RequestorLeaves(c)
  BY <1>4 DEF RequestorLeaves
<1> QED BY <1>1, <1>2, <1>3, <1>4 DEF Requestor

(* Every variable always has its type: what the proxy sends and receives   *)
(* are messages of the protocol, and the map and the queues hold addresses *)
(* of connections.                                                         *)
THEOREM TypeInvariant == Spec => []TypeOK
<1>1. Init => TypeOK
  <2> SUFFICES ASSUME Init PROVE TypeOK
    OBVIOUS
  <2>1. ProxyTypeOK
    <3>1. DOMAIN modules = {}
      BY DEF Init, ProxyInit
    <3>2. <<>> \in Seq(Workers)
      OBVIOUS
    <3>3. ~running /\ starts \in 0..MaxStarts
      BY MaxStartsAssumption DEF Init, ProxyInit
    <3> QED BY <3>1, <3>2, <3>3
            DEF Init, ProxyInit, ProxyTypeOK, PollerPlaces, PingerPlaces
  <2>2. NetworkTypeOK
    BY DEF Init, NetworkInit, NetworkTypeOK
  <2>3. ReplierTypeOK /\ RequestorTypeOK
    BY DEF Init, ReplierInit, ReplierTypeOK, ReplierPlaces, RequestorInit, RequestorTypeOK,
           RequestorPlaces
  <2> QED BY <2>1, <2>2, <2>3 DEF TypeOK
<1>2. TypeOK /\ [Next]_vars => TypeOK'
  <2> SUFFICES ASSUME TypeOK, [Next]_vars PROVE TypeOK'
    OBVIOUS
  <2>1. UNCHANGED <<replierVars, requestorVars>> => ReplierTypeOK' /\ RequestorTypeOK'
    BY DEF TypeOK, ReplierTypeOK, RequestorTypeOK, replierVars, requestorVars
  <2>2. UNCHANGED proxyVars => ProxyTypeOK'
    BY DEF TypeOK, ProxyTypeOK, proxyVars, queueVars, pingerVars
  <2>3. CASE ProxyStep
    <3>1. CASE Start
      <4>1. starts' \in 0..MaxStarts
        BY <3>1, MaxStartsAssumption DEF Start, TypeOK, ProxyTypeOK
      <4>2. ProxyTypeOK'
        BY <3>1, <4>1 DEF Start, TypeOK, ProxyTypeOK, PollerPlaces, PingerPlaces, queueVars
      <4>3. NetworkTypeOK'
        BY <3>1 DEF Start, TypeOK, NetworkTypeOK, networkVars
      <4> QED BY <2>1, <2>3, <4>2, <4>3 DEF ProxyStep, TypeOK
    <3>2. CASE Stop
      <4>1. ProxyTypeOK'
        BY <3>2 DEF Stop, TypeOK, ProxyTypeOK, queueVars, pingerVars
      <4>2. NetworkTypeOK'
        BY <3>2 DEF Stop, TypeOK, NetworkTypeOK, networkVars
      <4> QED BY <2>1, <2>3, <4>1, <4>2 DEF ProxyStep, TypeOK
    <3> QED BY <2>1, <2>3, <3>1, <3>2, PollerTypes, PingerTypes DEF ProxyStep, TypeOK
  <2>4. ASSUME NEW w \in Workers, ReplierStep(w) PROVE TypeOK'
    <3>1. RequestorTypeOK'
      BY <2>4 DEF ReplierStep, TypeOK, RequestorTypeOK, requestorVars
    <3> QED BY <2>2, <2>4, <3>1, ReplierTypes DEF ReplierStep, TypeOK
  <2>5. ASSUME NEW c \in Clients, RequestorStep(c) PROVE TypeOK'
    <3>1. ReplierTypeOK'
      BY <2>5 DEF RequestorStep, TypeOK, ReplierTypeOK, replierVars
    <3> QED BY <2>2, <2>5, <3>1, RequestorTypes DEF RequestorStep, TypeOK
  <2>6. CASE Tick
    <3>1. MapOK(modules')
      BY <2>6, OlderProperties DEF Tick, TypeOK, ProxyTypeOK, MapOK
    <3> QED BY <2>1, <2>6, <3>1 DEF Tick, TypeOK, ProxyTypeOK, MapOK, NetworkTypeOK,
               queueVars, pingerVars, networkVars
  <2>7. CASE UNCHANGED vars
    <3>1. NetworkTypeOK'
      BY <2>7 DEF vars, networkVars, TypeOK, NetworkTypeOK
    <3> QED BY <2>1, <2>2, <2>7, <3>1 DEF vars, TypeOK
  <2> QED BY <2>3, <2>4, <2>5, <2>6, <2>7 DEF Next
<1> QED BY <1>1, <1>2, PTL DEF Spec

-----------------------------------------------------------------------------
(* The map of modules.                                                     *)

Registers(w) ==
  w \in Workers /\ ~ContainsDetails(modules, Details[w])
    /\ modules' = Insert(modules, w, Details[w])

Pings(w) ==
  /\ w \in DOMAIN modules /\ DueRungs(modules[w]) # {}
  /\ modules' = MarkPinged(modules, w, NextRung(modules[w]))

(* These are all the ways in which the map changes.                        *)
LEMMA MapChanges ==
  ASSUME TypeOK, [Next]_vars
  PROVE  \/ modules' = modules
         \/ modules' = GrowOlder(modules)
         \/ \E w \in Workers : \/ Registers(w)
                               \/ Pings(w)
                               \/ modules' = Erase(modules, w)
                               \/ modules' = UpdateLastResponseToNow(modules, w)
<1> DEFINE Goal == \/ modules' = modules
                   \/ modules' = GrowOlder(modules)
                   \/ \E w \in Workers : \/ Registers(w)
                                         \/ Pings(w)
                                         \/ modules' = Erase(modules, w)
                                         \/ modules' = UpdateLastResponseToNow(modules, w)
<1>1. ASSUME NEW w \in Workers, HandleMessagesFromBackend(w) PROVE Goal
  <2>1. PollerErases(w) => Goal
    BY DEF PollerErases
  <2>2. HandleRegister(w) => Goal
    BY DEF HandleRegister, Registers
  <2> HIDE DEF Goal
  <2>3. modules' = modules => Goal
    BY DEF Goal
  <2> QED BY <1>1, <2>1, <2>2, <2>3 DEF HandleMessagesFromBackend, HandleDeregister,
             HandlePingResponse, HandleTerminateResponse, PropagateToFrontend
<1>2. ASSUME NEW c \in Clients, PollerHandlesFrontend(c) PROVE Goal
  BY <1>2 DEF PollerHandlesFrontend
<1>3. ASSUME Poller PROVE Goal
  <2> HIDE DEF Goal
  <2>1. modules' = modules => Goal
    BY DEF Goal
  <2>2. ASSUME NEW w \in Workers, PollerHandlesBackend(w) \/ PollerAwaits(w) PROVE Goal
    BY <1>1, <2>2 DEF PollerHandlesBackend, PollerAwaits
  <2>3. CASE \/ PollerLeavesLoop \/ PollerFrontendQuiet \/ PollerBackendQuiet
             \/ PollerPingsDrained \/ PollerTerminatesDrained \/ PollerGivesUp
             \/ PollerSendsPing \/ PollerSendsTerminate \/ PollerEvictsAll
    BY <2>1, <2>3 DEF PollerLeavesLoop, PollerFrontendQuiet, PollerBackendQuiet,
       PollerPingsDrained, PollerTerminatesDrained, PollerGivesUp, PollerSendsPing,
       PollerSendsTerminate, PollerEvictsAll
  <2> QED BY <1>2, <1>3, <2>2, <2>3 DEF Poller
<1>4. ASSUME NEW w \in Workers, PingerVisits(w) PROVE Goal
  BY <1>4 DEF PingerVisits, PingerExpires, PingerPings, Pings
<1>5. CASE PingerErases
  <2>1. Head(killQueue) \in Workers
    BY <1>5 DEF PingerErases, TypeOK, ProxyTypeOK
  <2> QED BY <1>5, <2>1 DEF PingerErases
<1>6. CASE Pinger
  BY <1>4, <1>5, <1>6 DEF Pinger, PingerWakes, PingerUpdates, PingerBeginsWalk,
     PingerEndsWalk, PingerNaps
<1>7. CASE ProxyStep
  BY <1>3, <1>6, <1>7 DEF ProxyStep, Start, Stop
<1>8. CASE Tick
  BY <1>8 DEF Tick
<1>9. CASE UNCHANGED vars \/ (\E w \in Workers : ReplierStep(w))
                          \/ (\E c \in Clients : RequestorStep(c))
  BY <1>9 DEF vars, ReplierStep, RequestorStep, proxyVars
<1> QED BY <1>7, <1>8, <1>9 DEF Next

(* At most one address is registered for a module: the check and the       *)
(* insertion are two critical sections, but only the poller inserts.       *)
THEOREM UniqueModuleInvariant == Spec => []UniqueModule
<1>1. Init => UniqueModule
  BY DEF Init, ProxyInit, UniqueModule
<1>2. TypeOK /\ UniqueModule /\ [Next]_vars => UniqueModule'
  <2> SUFFICES ASSUME TypeOK, UniqueModule, [Next]_vars PROVE UniqueModule'
    OBVIOUS
  <2>1. MapOK(modules)
    BY DEF TypeOK, ProxyTypeOK, MapOK
  <2>2. CASE modules' = modules
    BY <2>2 DEF UniqueModule
  <2>3. CASE modules' = GrowOlder(modules)
    BY <2>1, <2>3, OlderProperties DEF UniqueModule
  <2>4. ASSUME NEW w \in Workers, Registers(w)
        PROVE  UniqueModule'
    <3>1. /\ DOMAIN modules' = DOMAIN modules \cup {w}
          /\ modules'[w].details = Details[w]
          /\ \A x \in DOMAIN modules \ {w} : modules'[x] = modules[x]
      BY <2>4 DEF Registers, Insert, NewEntry
    <3> QED BY <2>4, <3>1 DEF Registers, ContainsDetails, UniqueModule
  <2>5. ASSUME NEW w \in Workers, Pings(w)
        PROVE  UniqueModule'
    BY <2>1, <2>5, MarkProperties, NextRungProperties DEF Pings, UniqueModule
  <2>6. ASSUME NEW w \in Workers, modules' = Erase(modules, w)
        PROVE  UniqueModule'
    <3>1. /\ DOMAIN modules' \subseteq DOMAIN modules
          /\ \A x \in DOMAIN modules' : modules'[x] = modules[x]
      BY <2>1, <2>6, EraseProperties
    <3> QED BY <3>1 DEF UniqueModule
  <2>7. ASSUME NEW w \in Workers, modules' = UpdateLastResponseToNow(modules, w)
        PROVE  UniqueModule'
    BY <2>1, <2>7, UpdateProperties DEF UniqueModule
  <2> QED BY <2>2, <2>3, <2>4, <2>5, <2>6, <2>7, MapChanges
<1> QED BY <1>1, <1>2, TypeInvariant, PTL DEF Spec

(* The ping ladder is climbed rung after rung and never ahead of the       *)
(* silence of the module: a response resets both, a tick only adds to the  *)
(* silence, and a ping goes out on the lowest rung that is due.            *)
THEOREM LadderClimbedInvariant == Spec => []LadderClimbed
<1> DEFINE Climbed(entry) == \A i \in entry.pinged :
             entry.silence > Intervals[i] /\ \A j \in 1..i : j \in entry.pinged
<1>1. Init => LadderClimbed
  BY DEF Init, ProxyInit, LadderClimbed
<1>2. TypeOK /\ LadderClimbed /\ [Next]_vars => LadderClimbed'
  <2> SUFFICES ASSUME TypeOK, LadderClimbed, [Next]_vars,
                      NEW x \in DOMAIN modules'
               PROVE  Climbed(modules'[x])
    BY DEF LadderClimbed
  <2>1. MapOK(modules)
    BY DEF TypeOK, ProxyTypeOK, MapOK
  <2>2. x \in DOMAIN modules => modules[x] \in Entry /\ Climbed(modules[x])
    BY <2>1 DEF MapOK, LadderClimbed
  <2>3. CASE x \in DOMAIN modules /\ modules'[x] = modules[x]
    BY <2>2, <2>3
  <2>4. CASE modules' = GrowOlder(modules)
    <3>1. /\ x \in DOMAIN modules
          /\ modules'[x].pinged = modules[x].pinged
          /\ modules'[x].silence >= modules[x].silence
          /\ modules'[x] \in Entry
      BY <2>1, <2>4, OlderProperties DEF MapOK
    <3>2. \A i \in modules[x].pinged : Intervals[i] \in Nat
      BY <2>2, <3>1, LadderBounds DEF Entry
    <3>3. modules'[x].silence \in Nat /\ modules[x].silence \in Nat
      BY <2>2, <3>1, LadderBounds DEF Entry, Overdue
    <3> QED BY <2>2, <3>1, <3>2, <3>3
  <2>5. ASSUME NEW w \in Workers, Registers(w)
        PROVE  Climbed(modules'[x])
    <3>1. /\ x \in DOMAIN modules \cup {w}
          /\ x = w => modules'[x].pinged = {}
          /\ x # w => modules'[x] = modules[x]
      BY <2>5 DEF Registers, Insert, NewEntry
    <3> QED BY <2>3, <3>1
  <2>6. ASSUME NEW w \in Workers, Pings(w)
        PROVE  Climbed(modules'[x])
    <3> DEFINE rung == NextRung(modules[w])
    <3>1. rung \in Rungs /\ rung \in DueRungs(modules[w])
            /\ \A j \in DueRungs(modules[w]) : rung <= j
      BY <2>6, NextRungProperties DEF Pings
    <3> HIDE DEF rung
    <3>2. /\ x \in DOMAIN modules
          /\ x # w => modules'[x] = modules[x]
          /\ x = w => /\ modules'[x].silence = modules[x].silence
                      /\ modules'[x].pinged = modules[x].pinged \cup {rung}
      BY <2>1, <2>6, <3>1, MarkProperties DEF Pings, rung
    <3>3. CASE x = w
      <4>1. modules[x].silence > Intervals[rung]
        BY <3>1, <3>3 DEF DueRungs
      <4>2. ASSUME NEW j \in 1..rung, j # rung PROVE j \in modules[x].pinged
        <5>1. j \in Rungs /\ j < rung
          BY <3>1, <4>2, IntervalsAssumption DEF Rungs
        <5>2. j \notin DueRungs(modules[w])
          BY <3>1, <5>1 DEF Rungs
        <5>3. Intervals[j] < Intervals[rung]
          BY <3>1, <5>1, IntervalsAssumption DEF Rungs
        <5>4. modules[x].silence > Intervals[j]
          <6>1. modules[x].silence \in Nat
            BY <2>2, <3>2, LadderBounds DEF Entry, Overdue
          <6>2. Intervals[j] \in Nat /\ Intervals[rung] \in Nat
            BY <3>1, <5>1, LadderBounds
          <6> QED BY <4>1, <5>3, <6>1, <6>2
        <5> QED BY <3>3, <5>1, <5>2, <5>4 DEF DueRungs
      <4> QED BY <2>2, <3>2, <3>3, <4>1, <4>2
    <3> QED BY <2>3, <3>2, <3>3
  <2>7. ASSUME NEW w \in Workers, modules' = Erase(modules, w)
        PROVE  Climbed(modules'[x])
    BY <2>1, <2>3, <2>7, EraseProperties
  <2>8. ASSUME NEW w \in Workers, modules' = UpdateLastResponseToNow(modules, w)
        PROVE  Climbed(modules'[x])
    <3>1. /\ x \in DOMAIN modules
          /\ x = w => modules'[x].pinged = {}
          /\ x # w => modules'[x] = modules[x]
      BY <2>1, <2>8, UpdateProperties
    <3> QED BY <2>3, <3>1
  <2> QED BY <2>3, <2>4, <2>5, <2>6, <2>7, <2>8, MapChanges
<1> QED BY <1>1, <1>2, TypeInvariant, PTL DEF Spec
=============================================================================

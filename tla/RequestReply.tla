----------------------------- MODULE RequestReply -----------------------------
(***************************************************************************)
(* Clients that make requests and services that answer them through a      *)
(* router or a router-dealer proxy: the sockets of messaging/requestRouter *)
(* and messaging/routerDealer, most of whose code is the base class in     *)
(* include/private/messaging/requestReplySocket.hpp.                       *)
(*                                                                         *)
(* A client is one thread that calls initialize(), request() and           *)
(* disconnect() of a REQ socket, which is strict: it sends, then it must   *)
(* receive.  A service has an owner, who initializes, starts, stops and    *)
(* disconnects it, and a thread that polls a REP socket, which is strict   *)
(* the other way round, and answers with what a callback returns.  The     *)
(* proxy hands every request to one of the services and every answer to the*)
(* client's connection that it came from, if that is still there.          *)
(***************************************************************************)
EXTENDS ConnectionDetails

CONSTANTS
  Clients,        \* the programs that make requests
  RouterClients,  \* those whose socket is messaging/requestRouter/request.cpp
  Directories,    \* those of them that look connections up by name
  Services,       \* the programs that answer them
  Listed,         \* the details in an answer to one that looks something up
  Sought,         \* what is looked up: a name, the pair's types, and the side
  MaxRequests,    \* bound: requests of a client
  MaxConnections, \* bound: connections that a client makes
  MaxStarts       \* bound: start() calls of a service's owner

ASSUME RequestReplyAssumption ==
  /\ RouterClients \subseteq Clients
  /\ Directories \subseteq RouterClients
  /\ DOMAIN Listed \subseteq Nat

VARIABLES
  client,         \* the clients
  service,        \* the services
  requests,       \* on their way to a service
  answers         \* on their way to a client

requestReplyVars == <<client, service, requests, answers>>

NewClient ==
  [initialized |-> FALSE,     \* mInitialized or mConnected, what isInitialized() tells
   connected |-> FALSE,       \* the socket has a peer
   connections |-> 0,         \* the connections it has had
   made |-> 0,                \* the requests it has sent
   owes |-> 0,                \* REQ: the request that it has not received an answer to
   at |-> "idle",             \* the call that it is in
   outcome |-> [is |-> "none"]]

NewService ==
  [connected |-> FALSE, running |-> FALSE,
   starts |-> 0,              \* the start() calls so far
   owner |-> "idle",          \* the call its owner is in
   threads |-> << >>,         \* where its polling threads are
   owes |-> {}]               \* REP: the request that has not been answered

NoRequestReplyInit ==
  /\ client = [c \in Clients |-> [NewClient EXCEPT !.at = "left"]]
  /\ service = [s \in Services |-> [NewService EXCEPT !.owner = "left"]]
  /\ requests = {}
  /\ answers = {}

RequestReplyInit ==
  /\ client = [c \in Clients |-> NewClient]
  /\ service = [s \in Services |-> NewService]
  /\ requests = {}
  /\ answers = {}

-------------------------------------------------------------------------------

(* The socket details that a client looks up: the proxy of that name, and  *)
(* its socket on one side if that is of the kind asked for.  The first of  *)
(* the name decides.                                                       *)
Lookup(details, s) ==
  LET named == {i \in DOMAIN details : details[i].name = s.name} IN
  IF named = {} THEN {}
  ELSE LET first == details[CHOOSE i \in named : \A j \in named : i <= j] IN
       IF first.socket.type = "Proxy"
       THEN IF first.socket.socket.types[s.side] = s.type
            THEN {IF s.side = 1 THEN first.socket.socket.frontend
                  ELSE first.socket.socket.backend}
            ELSE {}
       ELSE {}

SetClient(c, new) == client' = [client EXCEPT ![c] = new]

(* An old connection's answers are lost, its requests are not taken back.  *)
AnswersOfOthers(c) == {m \in answers : m.from # c}

(* Mutant: a new socket under the old identity, which late answers find.   *)
RequestInitializeAfresh(c) ==
  /\ client[c].at = "idle"
  /\ client[c].connections < MaxConnections
  /\ SetClient(c, [client[c] EXCEPT !.initialized = TRUE, !.connected = TRUE,
                     !.owes = 0, !.outcome = [is |-> "none"]])
  /\ UNCHANGED <<service, requests, answers>>

(* initialize() gives up the old connection and connects the same socket.  *)
(* When that throws, one of the classes is still initialized if it was.    *)
RequestInitialize(c) ==
  /\ client[c].at = "idle"
  /\ client[c].connections < MaxConnections
  /\ \E connects \in BOOLEAN :
       SetClient(c, [client[c] EXCEPT
         !.connected = connects,
         !.initialized = connects \/ (c \in RouterClients /\ @),
         !.connections = @ + 1, !.outcome = [is |-> "none"]])
  /\ answers' = AnswersOfOthers(c)
  /\ UNCHANGED <<service, requests>>

(* disconnect(): the same one does not forget that it was initialized.     *)
RequestDisconnect(c) ==
  /\ client[c].at = "idle"
  /\ client[c].connected
  /\ SetClient(c, [client[c] EXCEPT !.connected = FALSE,
                     !.initialized = c \in RouterClients, !.outcome = [is |-> "none"]])
  /\ answers' = AnswersOfOthers(c)
  /\ UNCHANGED <<service, requests>>

(* request() while the last one is not answered: the socket throws.        *)
RequestRefused(c) ==
  /\ client[c].at = "idle"
  /\ client[c].initialized
  /\ client[c].owes # 0
  /\ SetClient(c, [client[c] EXCEPT !.outcome = [is |-> "threw", answer |-> 0]])
  /\ UNCHANGED <<service, requests, answers>>

(* request() on a socket without a peer: sending blocks, for ever unless   *)
(* another thread connects it.                                             *)
RequestBlocks(c) ==
  /\ client[c].at = "idle"
  /\ client[c].initialized /\ ~ client[c].connected
  /\ client[c].owes = 0
  /\ SetClient(c, [client[c] EXCEPT !.at = "sending", !.outcome = [is |-> "none"]])
  /\ UNCHANGED <<service, requests, answers>>

RequestSend(c) ==
  /\ client[c].at = "idle"
  /\ client[c].initialized /\ client[c].connected
  /\ client[c].owes = 0
  /\ client[c].made < MaxRequests
  /\ LET n == client[c].made + 1 IN
     /\ SetClient(c, [client[c] EXCEPT !.at = "receiving", !.made = n, !.owes = n,
                        !.outcome = [is |-> "none"]])
     /\ requests' = requests \cup {[from |-> c, connection |-> client[c].connections, n |-> n]}
  /\ UNCHANGED <<service, answers>>

(* The answer comes.  It is returned, or it is of a type that the client   *)
(* has no format for or cannot be read, and receive() throws: either way   *)
(* the socket may send again.                                              *)
RequestReceive(c) ==
  /\ client[c].at = "receiving"
  /\ \E a \in answers :
       /\ a.from = c
       /\ answers' = answers \ {a}
       /\ \E outcome \in
            {[is |-> "threw", answer |-> a.n]}
              \cup (IF c \in Directories
                    THEN UNION {{[is |-> "found", answer |-> a.n, of |-> s, socket |-> k] :
                                   k \in Lookup(Listed, s)} : s \in Sought}
                    ELSE {[is |-> "returned", answer |-> a.n]}) :
            SetClient(c, [client[c] EXCEPT !.at = "idle", !.owes = 0, !.outcome = outcome])
  /\ UNCHANGED <<service, requests>>

(* Or it does not: there is no message, which a directory's client takes   *)
(* for an empty list, in which it does not find the name.                  *)
RequestTimesOut(c) ==
  /\ client[c].at = "receiving"
  /\ SetClient(c, [client[c] EXCEPT !.at = "idle",
                     !.outcome = IF c \in Directories THEN [is |-> "threw", answer |-> 0]
                                 ELSE [is |-> "nothing"]])
  /\ UNCHANGED <<service, requests, answers>>

-------------------------------------------------------------------------------

SetService(s, new) == service' = [service EXCEPT ![s] = new]

Joined(s) == service[s].threads = << >>

(* Reply::initialize and disconnect() tell the thread to leave and join it.*)
ReplyInitialize(s) ==
  /\ service[s].owner = "idle"
  /\ SetService(s, [service[s] EXCEPT !.owner = "reinitializing", !.running = FALSE])
  /\ UNCHANGED <<client, requests, answers>>

ReplyDisconnect(s) ==
  /\ service[s].owner = "idle"
  /\ service[s].connected
  /\ SetService(s, [service[s] EXCEPT !.owner = "disconnecting", !.running = FALSE])
  /\ UNCHANGED <<client, requests, answers>>

(* Mutant: the socket is disconnected and connected while the thread has   *)
(* not left.                                                               *)
ReplyConnectsUnjoined(s) ==
  /\ service[s].owner \in {"disconnecting", "reinitializing"}
  /\ \E connects \in IF service[s].owner = "reinitializing" THEN BOOLEAN ELSE {FALSE} :
       SetService(s, [service[s] EXCEPT !.owner = "idle", !.connected = connects])
  /\ UNCHANGED <<client, requests, answers>>

(* After the join the socket is disconnected; initialize() connects it, or *)
(* throws.                                                                 *)
ReplyConnects(s) ==
  /\ service[s].owner \in {"disconnecting", "reinitializing"}
  /\ Joined(s)
  /\ \E connects \in IF service[s].owner = "reinitializing" THEN BOOLEAN ELSE {FALSE} :
       SetService(s, [service[s] EXCEPT !.owner = "idle", !.connected = connects])
  /\ UNCHANGED <<client, requests, answers>>

(* start() stops and joins a thread that there is.                         *)
ReplyStart(s) ==
  /\ service[s].owner = "idle"
  /\ service[s].connected
  /\ service[s].starts < MaxStarts
  /\ SetService(s, [service[s] EXCEPT !.owner = "starting", !.running = FALSE,
                      !.starts = @ + 1])
  /\ UNCHANGED <<client, requests, answers>>

(* The flag is set before there is a thread that looks at it.              *)
ReplySpawns(s) ==
  /\ service[s].owner = "starting"
  /\ Joined(s)
  /\ SetService(s, [service[s] EXCEPT !.owner = "idle", !.running = TRUE,
                      !.threads = Append(@, "looking")])
  /\ UNCHANGED <<client, requests, answers>>

(* stop() of the service does not join: it returns while the thread may be *)
(* in the callback.                                                        *)
ReplyStop(s) ==
  /\ service[s].owner = "idle"
  /\ service[s].running
  /\ SetService(s, [service[s] EXCEPT !.running = FALSE])
  /\ UNCHANGED <<client, requests, answers>>

-------------------------------------------------------------------------------

Others(s, i) == SubSeq(service[s].threads, 1, i - 1)
                  \o SubSeq(service[s].threads, i + 1, Len(service[s].threads))

(* The loop's condition: mRunning and mConnected.                          *)
PollerLooks(s, i) ==
  /\ service[s].threads[i] = "looking"
  /\ SetService(s, [service[s] EXCEPT
       !.threads = IF service[s].running /\ service[s].connected
                   THEN [@ EXCEPT ![i] = "polling"] ELSE Others(s, i)])
  /\ UNCHANGED <<client, requests, answers>>

(* The poll times out; so does it always on a socket that owes an answer.  *)
PollerTimesOut(s, i) ==
  /\ service[s].threads[i] = "polling"
  /\ SetService(s, [service[s] EXCEPT !.threads[i] = "looking"])
  /\ UNCHANGED <<client, requests, answers>>

PollerReceives(s, i) ==
  /\ service[s].threads[i] = "polling"
  /\ service[s].owes = {}
  /\ \E m \in requests :
       /\ requests' = requests \ {m}
       /\ SetService(s, [service[s] EXCEPT !.threads[i] = "calling", !.owes = {m}])
  /\ UNCHANGED <<client, answers>>

(* The callback's response is sent, to a connection that is still there.   *)
PollerAnswers(s, i) ==
  /\ service[s].threads[i] = "calling"
  /\ SetService(s, [service[s] EXCEPT !.threads[i] = "looking", !.owes = {}])
  /\ answers' = answers \cup
       {m \in service[s].owes :
          client[m.from].connected /\ client[m.from].connections = m.connection}
  /\ UNCHANGED <<client, requests>>

(* The callback returns nothing or throws, or its response cannot be       *)
(* packed: this is logged, and the socket owes the answer from now on.     *)
PollerFails(s, i) ==
  /\ service[s].threads[i] = "calling"
  /\ SetService(s, [service[s] EXCEPT !.threads[i] = "looking"])
  /\ UNCHANGED <<client, requests, answers>>

RequestReplyNext ==
  \/ \E c \in Clients :
       \/ RequestInitialize(c) \/ RequestDisconnect(c) \/ RequestRefused(c) \/ RequestBlocks(c)
       \/ RequestSend(c) \/ RequestReceive(c) \/ RequestTimesOut(c)
  \/ \E s \in Services :
       \/ ReplyInitialize(s) \/ ReplyDisconnect(s) \/ ReplyConnects(s)
       \/ ReplyStart(s) \/ ReplySpawns(s) \/ ReplyStop(s)
       \/ \E i \in DOMAIN service[s].threads :
            \/ PollerLooks(s, i) \/ PollerTimesOut(s, i) \/ PollerReceives(s, i)
            \/ PollerAnswers(s, i) \/ PollerFails(s, i)

-------------------------------------------------------------------------------

(* What request() returns is the answer to that very request, never a late *)
(* one to an earlier request that timed out, also after disconnect() and a *)
(* new initialize(); and what a lookup finds is a socket listed under that *)
(* name, of the kind that was asked for.                                   *)
AnswersOwnRequest ==
  \A c \in Clients :
    LET o == client[c].outcome IN
    /\ o.is \in {"returned", "found"} => o.answer = client[c].made
    /\ o.is = "found" =>
         \E i \in DOMAIN Listed :
           /\ Listed[i].name = o.of.name
           /\ Listed[i].socket.type = "Proxy"
           /\ Listed[i].socket.socket.types[o.of.side] = o.of.type

(* A socket is used by one thread at a time: however often its owner       *)
(* starts, stops and initializes a service, there is one polling thread at *)
(* most, and there is none when the socket is disconnected or connected.   *)
SocketHasOneUser ==
  [][\A s \in Services :
       /\ Len(service'[s].threads) <= 1
       /\ service'[s].connected # service[s].connected => Joined(s)]_requestReplyVars
===============================================================================

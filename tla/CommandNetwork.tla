--------------------------- MODULE CommandNetwork ---------------------------
(***************************************************************************)
(* The ZeroMQ transport between the command proxy, the modules on its      *)
(* backend (DEALER sockets of repliers) and the clients on its frontend    *)
(* (REQ sockets of requestors).  ZeroMQ is not part of the repository: the *)
(* channels are modelled from how the code uses them.  Each connection is  *)
(* a pair of FIFO channels; nothing is lost while both ends live; what is  *)
(* sent to an address that is no longer connected is dropped (a ROUTER     *)
(* without router_mandatory) or fails (the frontend, whose error handlers  *)
(* log it), and both leave the system as it was.                           *)
(***************************************************************************)
EXTENDS ModulesMap, FiniteSets

CONSTANTS
  Clients,   (* requestors, one per frontend connection                    *)
  Details    (* the module that the replier on each connection stands for  *)

ASSUME DetailsAssumption == Details \in [Workers -> Modules]

VARIABLES
  connected,   (* backend connections whose peer is still there            *)
  toProxy,     (* toProxy[w]: from the replier on w to the proxy           *)
  toWorker,    (* toWorker[w]: from the proxy to the replier on w          *)
  listening,   (* frontend connections whose peer is still there           *)
  fromClient,  (* fromClient[c]: from the requestor c to the proxy         *)
  toClient     (* toClient[c]: from the proxy to the requestor c           *)

backendVars == <<connected, toProxy, toWorker>>
frontendVars == <<listening, fromClient, toClient>>
networkVars == <<connected, toProxy, toWorker, listening, fromClient, toClient>>

-----------------------------------------------------------------------------
(* Messages.  A replier that answers a request names the client; its own   *)
(* address is the channel the answer travels on.                           *)

Plain(kinds) == [type : kinds]
Routed(kinds) == [type : kinds, client : Clients, module : Modules]

MessagesToWorker ==
  Plain({"ping", "terminate", "success", "exists"}) \cup Routed({"request"})

MessagesToProxy ==
  Plain({"register", "deregister", "pingResponse", "terminateResponse"})
    \cup Routed({"reply"})

MessagesFromClient ==
  Plain({"availableModules"}) \cup [type : {"request"}, module : Modules]

MessagesToClient ==
  Plain({"failure"}) \cup [type : {"reply"}, module : Modules]
    \cup [type : {"modules"}, list : SUBSET Modules]

Message(kind) == [type |-> kind]

RoutedMessage(kind, c, m) == [type |-> kind, client |-> c, module |-> m]

NetworkTypeOK ==
  /\ connected \subseteq Workers
  /\ toProxy \in [Workers -> Seq(MessagesToProxy)]
  /\ toWorker \in [Workers -> Seq(MessagesToWorker)]
  /\ listening \subseteq Clients
  /\ fromClient \in [Clients -> Seq(MessagesFromClient)]
  /\ toClient \in [Clients -> Seq(MessagesToClient)]

NetworkInit ==
  /\ connected = Workers
  /\ toProxy = [w \in Workers |-> <<>>]
  /\ toWorker = [w \in Workers |-> <<>>]
  /\ listening = Clients
  /\ fromClient = [c \in Clients |-> <<>>]
  /\ toClient = [c \in Clients |-> <<>>]

-----------------------------------------------------------------------------
(* What toWorker, toClient and toProxy become when a message is sent.      *)

SentToWorker(w, msg) ==
  IF w \in connected THEN [toWorker EXCEPT ![w] = Append(@, msg)] ELSE toWorker

SentToAll(set, msg) ==
  [w \in Workers |->
    IF w \in set \cap connected THEN Append(toWorker[w], msg) ELSE toWorker[w]]

SentToClient(c, msg) ==
  IF c \in listening THEN [toClient EXCEPT ![c] = Append(@, msg)] ELSE toClient

SentToProxy(w, msg) == [toProxy EXCEPT ![w] = Append(@, msg)]

(* The kinds of message under way in a channel. *)
KindsIn(channel) == {channel[i].type : i \in 1..Len(channel)}
=============================================================================

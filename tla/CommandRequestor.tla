-------------------------- MODULE CommandRequestor --------------------------
(***************************************************************************)
(* A client of the command proxy: class Requestor of                       *)
(* proxyServices/command/requestor.cpp on a REQ socket.  A call sends one  *)
(* request and blocks until an answer or the receive time-out.  After a    *)
(* time-out ZeroMQ refuses the next send on the socket (it still expects   *)
(* the answer), so every later call throws: the requestor is stuck.        *)
(***************************************************************************)
EXTENDS CommandNetwork

CONSTANT NoRequest

VARIABLES
  requestor,   (* where each client is                                     *)
  pending      (* what its call in progress asked for                      *)

requestorVars == <<requestor, pending>>

RequestorPlaces == {"idle", "waiting", "stuck", "gone"}

RequestorTypeOK ==
  /\ requestor \in [Clients -> RequestorPlaces]
  /\ pending \in [Clients -> MessagesFromClient \cup {NoRequest}]

RequestorInit ==
  /\ requestor = [c \in Clients |-> "idle"]
  /\ pending = [c \in Clients |-> NoRequest]

(* getAvailableModules, getCommands, issueCommand and terminate differ in  *)
(* what they ask, not in how they wait.                                    *)
RequestorAsks(c, request) ==
  /\ requestor[c] = "idle"
  /\ requestor' = [requestor EXCEPT ![c] = "waiting"]
  /\ pending' = [pending EXCEPT ![c] = request]
  /\ fromClient' = [fromClient EXCEPT ![c] = Append(@, request)]
  /\ UNCHANGED <<backendVars, listening, toClient>>

RequestorIsAnswered(c) ==
  /\ requestor[c] = "waiting"
  /\ toClient[c] # <<>>
  /\ toClient' = [toClient EXCEPT ![c] = Tail(@)]
  /\ requestor' = [requestor EXCEPT ![c] = "idle"]
  /\ pending' = [pending EXCEPT ![c] = NoRequest]
  /\ UNCHANGED <<backendVars, listening, fromClient>>

RequestorTimesOut(c) ==
  /\ requestor[c] = "waiting"
  /\ toClient[c] = <<>>
  /\ requestor' = [requestor EXCEPT ![c] = "stuck"]
  /\ UNCHANGED <<pending, networkVars>>

(* The process ends; a request it sent may still be under way. *)
RequestorLeaves(c) ==
  /\ c \in listening
  /\ listening' = listening \ {c}
  /\ requestor' = [requestor EXCEPT ![c] = "gone"]
  /\ toClient' = [toClient EXCEPT ![c] = <<>>]
  /\ pending' = [pending EXCEPT ![c] = NoRequest]
  /\ UNCHANGED <<backendVars, fromClient>>

Requestor(c) ==
  \/ \E request \in MessagesFromClient : RequestorAsks(c, request)
  \/ RequestorIsAnswered(c)
  \/ RequestorTimesOut(c)
  \/ RequestorLeaves(c)
=============================================================================

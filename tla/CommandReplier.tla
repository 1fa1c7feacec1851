--------------------------- MODULE CommandReplier ---------------------------
(***************************************************************************)
(* A module's end of the command proxy: class Replier of                   *)
(* proxyServices/command/replier.cpp, one per backend connection, on the   *)
(* socket of private/messaging/requestReplySocket.hpp.                     *)
(*                                                                         *)
(* start() registers the module, waits up to five seconds for the answer   *)
(* and spins off the poll loop; a start() that throws leaves the replier   *)
(* connected, and the application may call it again.  stop() joins the     *)
(* poll loop, deregisters, and clears the module's details, so a replier   *)
(* is not started twice (a new initialization is a new connection; one of  *)
(* a replier that is still registered, which keeps mRegistered and so does *)
(* not register the new connection, is not modelled).                      *)
(***************************************************************************)
EXTENDS CommandNetwork

CONSTANT MaxAttempts   (* bound: calls of start() on each connection *)

ASSUME MaxAttemptsAssumption == MaxAttempts \in [Workers -> Nat]

VARIABLES
  replier,    (* where the replier on each connection is                   *)
  attempts,   (* calls of start() so far                                   *)
  told        (* repliers whose callback was handed a terminate request    *)

replierVars == <<replier, attempts, told>>

ReplierPlaces ==
  {"idle", "registering", "polling", "deregistering", "stopped", "gone"}

ReplierTypeOK ==
  /\ replier \in [Workers -> ReplierPlaces]
  /\ attempts \in [Workers -> Nat]
  /\ told \subseteq Workers

ReplierInit ==
  /\ replier = [w \in Workers |-> "idle"]
  /\ attempts = [w \in Workers |-> 0]
  /\ told = {}

Moves(w, from, to) ==
  /\ replier[w] = from
  /\ replier' = [replier EXCEPT ![w] = to]

(* What a replier takes from its socket is the oldest message there. *)
Takes(w) ==
  /\ toWorker[w] # <<>>
  /\ toWorker' = [toWorker EXCEPT ![w] = Tail(@)]

-----------------------------------------------------------------------------
(* start(): the registration. *)
ReplierRegisters(w) ==
  /\ attempts[w] < MaxAttempts[w]
  /\ Moves(w, "idle", "registering")
  /\ attempts' = [attempts EXCEPT ![w] = @ + 1]
  /\ toProxy' = SentToProxy(w, Message("register"))
  /\ UNCHANGED <<told, connected, toWorker, frontendVars>>

(* The first message to arrive is taken for the answer to this request,    *)
(* whichever request it answers.  Anything but a success throws.           *)
ReplierReadsRegistration(w) ==
  /\ Takes(w)
  /\ Moves(w, "registering",
           IF Head(toWorker[w]).type = "success" THEN "polling" ELSE "idle")
  /\ UNCHANGED <<attempts, told, connected, toProxy, frontendVars>>

ReplierGivesUp(w) ==
  /\ toWorker[w] = <<>>
  /\ Moves(w, "registering", "idle")
  /\ UNCHANGED <<attempts, told, networkVars>>

-----------------------------------------------------------------------------
(* poll() *)
ReplierAnswersPing(w) ==
  /\ Head(toWorker[w]).type = "ping"
  /\ toProxy' = SentToProxy(w, Message("pingResponse"))
  /\ UNCHANGED told

(* The response is sent whatever the callback made of the request. *)
ReplierIsTold(w) ==
  /\ Head(toWorker[w]).type = "terminate"
  /\ told' = told \cup {w}
  /\ toProxy' = SentToProxy(w, Message("terminateResponse"))

(* The callback's answer, or a failure if it threw. *)
ReplierAnswersRequest(w) ==
  LET request == Head(toWorker[w])
  IN /\ request.type = "request"
     /\ toProxy' = SentToProxy(w, RoutedMessage("reply", request.client, Details[w]))
     /\ UNCHANGED told

(* A request for which the callback returned nothing gets no answer; a     *)
(* message of another shape (a late registration response) is skipped.     *)
ReplierSkips(w) ==
  /\ Head(toWorker[w]).type \in {"request", "success", "exists"}
  /\ UNCHANGED <<told, toProxy>>

ReplierPolls(w) ==
  /\ replier[w] = "polling"
  /\ Takes(w)
  /\ \/ ReplierAnswersPing(w)
     \/ ReplierIsTold(w)
     \/ ReplierAnswersRequest(w)
     \/ ReplierSkips(w)
  /\ UNCHANGED <<replier, attempts, connected, frontendVars>>

-----------------------------------------------------------------------------
(* stop() *)
ReplierStops(w) ==
  /\ Moves(w, "polling", "deregistering")
  /\ toProxy' = SentToProxy(w, Message("deregister"))
  /\ UNCHANGED <<attempts, told, connected, toWorker, frontendVars>>

(* Old messages are thrown away until a registration response turns up. *)
ReplierReadsDeregistration(w) ==
  /\ Takes(w)
  /\ Moves(w, "deregistering",
           IF Head(toWorker[w]).type \in {"success", "exists"}
           THEN "stopped" ELSE "deregistering")
  /\ UNCHANGED <<attempts, told, connected, toProxy, frontendVars>>

ReplierStopsWaiting(w) ==
  /\ toWorker[w] = <<>>
  /\ Moves(w, "deregistering", "stopped")
  /\ UNCHANGED <<attempts, told, networkVars>>

(* The process ends, cleanly or not: what it had not sent yet is lost, and *)
(* so is what it had not read.                                             *)
ReplierLeaves(w) ==
  /\ w \in connected
  /\ connected' = connected \ {w}
  /\ replier' = [replier EXCEPT ![w] = "gone"]
  /\ \E n \in 0..Len(toProxy[w]) :
       toProxy' = [toProxy EXCEPT ![w] = SubSeq(@, 1, n)]
  /\ toWorker' = [toWorker EXCEPT ![w] = <<>>]
  /\ UNCHANGED <<attempts, told, frontendVars>>

-----------------------------------------------------------------------------
(* What a live replier does without being asked. *)
ReplierRuns(w) ==
  \/ ReplierReadsRegistration(w)
  \/ ReplierGivesUp(w)
  \/ ReplierPolls(w)
  \/ ReplierReadsDeregistration(w)
  \/ ReplierStopsWaiting(w)

Replier(w) ==
  \/ ReplierRegisters(w)
  \/ ReplierRuns(w)
  \/ ReplierStops(w)
  \/ ReplierLeaves(w)
=============================================================================

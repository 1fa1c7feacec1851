------------------------------ MODULE Heartbeat ------------------------------
(***************************************************************************)
(* The process that tells the rest of the world that a module is alive:    *)
(* class PublisherProcess of proxyBroadcasts/heartbeat/publisherProcess.cpp *)
(* A thread pushes the module's status on a queue at intervals, a second   *)
(* one sends what the queue holds, between a first "Alive" and a last      *)
(* "Disconnected".  The module's own threads may replace the status or     *)
(* push one of their own.                                                  *)
(***************************************************************************)
EXTENDS Naturals, Sequences, SequencesExt

CONSTANT
  MaxStatuses   (* bound: statuses pushed on the queue in a behaviour      *)

ASSUME StatusAssumption == MaxStatuses \in Nat

VARIABLES
  beating,    (* mKeepRunning                                              *)
  publisher,  (* where the publisher's thread is                           *)
  stamper,    (* where the status thread is                                *)
  queue,      (* mStatusQueue: the numbers of the statuses pushed          *)
  pushed,     (* how many statuses were pushed so far                      *)
  wire,       (* what was handed to the broadcast's socket, in order       *)
  owner       (* a thread of the module that uses the process's interface  *)

heartbeatVars == <<beating, publisher, stamper, queue, pushed, wire, owner>>

Alive == [kind |-> "Alive", number |-> 0]
Disconnected == [kind |-> "Disconnected", number |-> 0]
Status(n) == [kind |-> "Status", number |-> n]

HeartbeatTypeOK ==
  /\ beating \in BOOLEAN
  /\ publisher \in {"none", "greeting", "checking", "popping", "parting", "left"}
  /\ stamper \in {"none", "checking", "sleeping", "copying", "left"}
  /\ queue \in Seq(1 .. MaxStatuses)
  /\ pushed \in 0 .. MaxStatuses
  /\ wire \in Seq({Alive, Disconnected} \cup {Status(n) : n \in 1 .. MaxStatuses})
  /\ owner \in {"idle", "replacing", "sending"}

HeartbeatInit ==
  /\ beating = FALSE
  /\ publisher = "none"
  /\ stamper = "none"
  /\ queue = << >>
  /\ pushed = 0
  /\ wire = << >>
  /\ owner = "idle"

(* setStatus holds the mutex of the flag while it replaces the status.     *)
FlagFree == owner # "replacing"

(* The statuses beyond the bound are not pushed.                           *)
PushOrBound ==
  IF pushed < MaxStatuses
    THEN pushed' = pushed + 1 /\ queue' = Append(queue, pushed')
    ELSE UNCHANGED <<pushed, queue>>

-----------------------------------------------------------------------------
(* start() and stop(), called by the process manager.                      *)

HeartbeatStarts ==
  /\ FlagFree
  /\ beating' = TRUE
  /\ publisher' = "greeting"
  /\ stamper' = "checking"
  /\ UNCHANGED <<queue, pushed, wire, owner>>

HeartbeatStops ==
  /\ FlagFree
  /\ beating' = FALSE
  /\ UNCHANGED <<publisher, stamper, queue, pushed, wire, owner>>

(* Both threads are joined, the status thread first; a thread that was     *)
(* never started is not.                                                   *)
HeartbeatJoined ==
  /\ stamper \in {"none", "left"} /\ publisher \in {"none", "left"}
  /\ stamper' = "none" /\ publisher' = "none"
  /\ UNCHANGED <<beating, queue, pushed, wire, owner>>

-----------------------------------------------------------------------------
(* publishStatus(): a message that the socket fails to send is logged and  *)
(* gone, and the thread goes on the same way.                              *)

Publishes(from, to) == publisher = from /\ publisher' = to

Greet ==
  /\ Publishes("greeting", "checking")
  /\ wire' = Append(wire, Alive)
  /\ UNCHANGED <<beating, stamper, queue, pushed, owner>>

PublisherChecks ==
  /\ FlagFree
  /\ Publishes("checking", IF beating THEN "popping" ELSE "parting")
  /\ UNCHANGED <<beating, stamper, queue, pushed, wire, owner>>

(* Mutant: the front of the queue is copied and stays there.               *)
PublishWithoutPop ==
  /\ Publishes("popping", "checking")
  /\ IF queue = << >> THEN UNCHANGED wire
     ELSE wire' = Append(wire, Status(Head(queue)))
  /\ Len(wire) < MaxStatuses + 2
  /\ UNCHANGED <<beating, stamper, queue, pushed, owner>>

PublishNext ==
  /\ Publishes("popping", "checking")
  /\ IF queue = << >> THEN UNCHANGED <<queue, wire>>
     ELSE wire' = Append(wire, Status(Head(queue))) /\ queue' = Tail(queue)
  /\ UNCHANGED <<beating, stamper, pushed, owner>>

Part ==
  /\ Publishes("parting", "left")
  /\ wire' = Append(wire, Disconnected)
  /\ UNCHANGED <<beating, stamper, queue, pushed, owner>>

-----------------------------------------------------------------------------
(* sendMyStatus(): sleeps half a second, or stamps the status and pushes a *)
(* copy when the interval is over.                                         *)

Stamps(from, to) == stamper = from /\ stamper' = to

StamperChecks ==
  /\ FlagFree
  /\ \/ beating /\ (Stamps("checking", "sleeping") \/ Stamps("checking", "copying"))
     \/ ~beating /\ Stamps("checking", "left")
  /\ UNCHANGED <<beating, publisher, queue, pushed, wire, owner>>

StamperWakes ==
  /\ Stamps("sleeping", "checking")
  /\ UNCHANGED <<beating, publisher, queue, pushed, wire, owner>>

StamperPushes ==
  /\ Stamps("copying", "checking")
  /\ PushOrBound
  /\ UNCHANGED <<beating, publisher, wire, owner>>

-----------------------------------------------------------------------------
(* setStatus() and sendStatus(): refused unless the process runs, which is *)
(* looked up before the lock of the one and the push of the other.         *)

OwnerSetsStatus ==
  /\ owner = "idle" /\ beating
  /\ owner' = "replacing"
  /\ UNCHANGED <<beating, publisher, stamper, queue, pushed, wire>>

OwnerSendsStatus ==
  /\ owner = "idle" /\ beating
  /\ pushed < MaxStatuses
  /\ owner' = "sending"
  /\ UNCHANGED <<beating, publisher, stamper, queue, pushed, wire>>

OwnerIsDone ==
  /\ owner' = "idle"
  /\ \/ owner = "replacing" /\ UNCHANGED <<queue, pushed>>
     \/ owner = "sending" /\ PushOrBound
  /\ UNCHANGED <<beating, publisher, stamper, wire>>

(* The status thread copies what setStatus is freeing: the status thread   *)
(* takes no lock.  What such a copy does is undefined.                     *)
CopiesFreedStatus == stamper = "copying" /\ owner = "replacing"

PublisherStep == Greet \/ PublisherChecks \/ PublishNext \/ Part
StamperStep == StamperChecks \/ StamperWakes \/ StamperPushes
=============================================================================

--------------------------- MODULE ServicePromise ---------------------------
(***************************************************************************)
(* What a service promises its owner and its clients, without flags, pipes *)
(* or control sockets: a service is up from a start that returned, with all*)
(* of its team at work, to the call that stops it, and a stop that returned*)
(* leaves no thread and nobody waiting.  A thread ends, and a client loses *)
(* its place, only while somebody stops the service; nobody is answered    *)
(* without a guard.  Or the program ends, and all of it at once.           *)
(***************************************************************************)
CONSTANT Clients

VARIABLES
  team,      (* the threads that do the service's work, once it is up      *)
  phase,     (* "down", "starting", "up", "stopping"; "over": no program   *)
  threads,   (* the threads that run                                       *)
  fate       (* what became of each client                                 *)

vars == <<team, phase, threads, fate>>

Fates == {"away", "asking", "admitted", "refused", "dropped"}

Guarded == \E t \in threads : t.role = "guard"

Init ==
  /\ phase = "down"
  /\ threads = {}
  /\ fate = [c \in Clients |-> "away"]

BeginsStart == phase = "down" /\ phase' = "starting" /\ UNCHANGED <<threads, fate>>

(* start() makes threads that are not there yet, and returns with the last.*)
Makes ==
  /\ phase = "starting"
  /\ \E made \in (SUBSET (team \ threads)) \ {{}} : threads' = threads \cup made
  /\ phase' = IF threads' = team THEN "up" ELSE "starting"
  /\ UNCHANGED fate

BeginsStop ==
  /\ phase \in {"down", "up"}
  /\ phase' = "stopping"
  /\ UNCHANGED <<threads, fate>>

(* A thread ends.  The guard of some clients may answer one before, and    *)
(* the others lose their places.                                           *)
Ends(t) ==
  /\ phase = "stopping" /\ t \in threads
  /\ threads' = threads \ {t}
  /\ fate' \in [Clients -> Fates]
  /\ \A c \in Clients :
       fate'[c] # fate[c] =>
         /\ t.role = "guard" /\ fate[c] = "asking"
         /\ fate'[c] \in {"admitted", "refused", "dropped"}
  /\ UNCHANGED phase

(* stop() has returned; or initialize(), start() or the destructor, which  *)
(* stop the service first, go on.                                          *)
Returns ==
  /\ phase = "stopping" /\ threads = {}
  /\ \A c \in Clients : fate[c] # "asking"
  /\ phase' \in {"down", "starting", "over"}
  /\ UNCHANGED <<threads, fate>>

Connects(c) ==
  /\ Guarded /\ fate[c] = "away"
  /\ fate' = [fate EXCEPT ![c] = "asking"]
  /\ UNCHANGED <<phase, threads>>

Answered(c) ==
  /\ Guarded /\ fate[c] = "asking"
  /\ \E answer \in {"admitted", "refused"} : fate' = [fate EXCEPT ![c] = answer]
  /\ UNCHANGED <<phase, threads>>

ProgramEnds == phase # "over" /\ phase' = "over" /\ threads' = {} /\ UNCHANGED fate

Next ==
  /\ UNCHANGED team
  /\ \/ BeginsStart \/ Makes \/ BeginsStop \/ Returns \/ ProgramEnds
     \/ \E t \in threads : Ends(t)
     \/ \E c \in Clients : Connects(c) \/ Answered(c)

Spec == Init /\ [][Next]_vars
=============================================================================

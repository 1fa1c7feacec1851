-------------------------- MODULE ModuleDirectory ---------------------------
(***************************************************************************)
(* What the module registry promises, without threads, queues or messages: *)
(* a directory of leases on names.  A name (a module's name and instance)  *)
(* has at most one owner, and passes from one owner to the next only       *)
(* through being free.  An owner that serves (it holds itself for          *)
(* registered, and was not told to terminate) loses its name only after it *)
(* was silent for longer than Patience.                                    *)
(***************************************************************************)
EXTENDS Naturals

CONSTANTS Workers, Modules, NoAddress, Patience, Details

VARIABLES
  owner,     (* owner[m]: the address registered for m, or NoAddress       *)
  silence,   (* silence[m]: how long the owner of m has not been heard     *)
  serving    (* the addresses that serve                                   *)

vars == <<owner, silence, serving>>

Init ==
  /\ owner = [m \in Modules |-> NoAddress]
  /\ silence = [m \in Modules |-> 0]
  /\ serving = {}

Claim(w) ==
  /\ owner[Details[w]] = NoAddress
  /\ owner' = [owner EXCEPT ![Details[w]] = w]
  /\ UNCHANGED <<silence, serving>>

Free(m) ==
  /\ owner' = [owner EXCEPT ![m] = NoAddress]
  /\ silence' = [silence EXCEPT ![m] = 0]
  /\ UNCHANGED serving

(* The owner gave the name up, was told to terminate, or never learned     *)
(* that it has the name.                                                   *)
Release(m) == owner[m] # NoAddress /\ owner[m] \notin serving /\ Free(m)

Expire(m) == owner[m] # NoAddress /\ silence[m] > Patience /\ Free(m)

Hear(m) ==
  /\ owner[m] # NoAddress
  /\ silence' = [silence EXCEPT ![m] = 0]
  /\ UNCHANGED <<owner, serving>>

(* Time passes for the owned names alike, up to a bound. *)
Wait ==
  /\ silence' = [m \in Modules |->
       IF owner[m] # NoAddress /\ silence[m] <= Patience
       THEN silence[m] + 1 ELSE silence[m]]
  /\ UNCHANGED <<owner, serving>>

BeginServing(w) == serving' = serving \cup {w} /\ UNCHANGED <<owner, silence>>

EndServing(w) == serving' = serving \ {w} /\ UNCHANGED <<owner, silence>>

Next ==
  \/ Wait
  \/ \E m \in Modules : Release(m) \/ Expire(m) \/ Hear(m)
  \/ \E w \in Workers : Claim(w) \/ BeginServing(w) \/ EndServing(w)

Spec == Init /\ [][Next]_vars
=============================================================================

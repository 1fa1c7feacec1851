----------------------------- MODULE ModulesMap -----------------------------
(***************************************************************************)
(* The map that the command proxy (the "ModuleRegistry" proxy service)     *)
(* keeps from the ZeroMQ address of a backend connection to the module     *)
(* registered over that connection: classes Module and ModulesMap of       *)
(* proxyServices/command/proxy.cpp.  Each operator is one member function. *)
(*                                                                         *)
(* A map is a function whose domain is the set of registered addresses.    *)
(* An entry keeps the module's details (its name and instance, one value   *)
(* of Modules), how long ago the module last answered (the code keeps the  *)
(* time of that answer), and the rungs of the ping ladder it was pinged on *)
(* since then (the code keeps one Boolean per rung).                       *)
(***************************************************************************)
EXTENDS Naturals, Sequences

CONSTANTS
  Workers,     (* ZeroMQ addresses of the backend connections              *)
  Modules,     (* (module name, instance) pairs                            *)
  NoAddress,   (* the empty address that getAddress returns                *)
  Intervals,   (* the ping intervals, shortest first, in clock ticks       *)
  Slack        (* what the time-out adds to the longest interval           *)

ASSUME AddressAssumption == NoAddress \notin Workers

ASSUME IntervalsAssumption ==
  /\ Intervals \in Seq(Nat \ {0})
  /\ Len(Intervals) > 0
  /\ \A i, j \in 1..Len(Intervals) : i < j => Intervals[i] < Intervals[j]

ASSUME SlackAssumption == Slack \in Nat \ {0}

Rungs == 1..Len(Intervals)

(* mModuleTimeOutInterval: the longest ping interval plus the slack. *)
ModuleTimeOut == Intervals[Len(Intervals)] + Slack

(* Every silence beyond the time-out is treated alike: ages saturate. *)
Overdue == ModuleTimeOut + 1

Entry == [details : Modules, silence : 0..Overdue, pinged : SUBSET Rungs]

(* A module that just registered shows a semblance of life. *)
NewEntry(m) == [details |-> m, silence |-> 0, pinged |-> {}]

ContainsAddress(map, w) == w \in DOMAIN map

ContainsDetails(map, m) == \E w \in DOMAIN map : map[w].details = m

(* Mutant: the instance is not compared. *)
GetAnyAddress(map, m) ==
  IF DOMAIN map # {} THEN CHOOSE w \in DOMAIN map : TRUE ELSE NoAddress

GetAddress(map, m) ==
  IF ContainsDetails(map, m)
  THEN CHOOSE w \in DOMAIN map : map[w].details = m
  ELSE NoAddress

(* What checkAndThrow refuses is refused before by the caller. *)
Insert(map, w, m) ==
  [x \in DOMAIN map \cup {w} |-> IF x = w THEN NewEntry(m) ELSE map[x]]

Erase(map, w) == [x \in DOMAIN map \ {w} |-> map[x]]

(* Mutant: the Booleans of the ladder are not reset. *)
UpdateLastResponseOnly(map, w) ==
  [x \in DOMAIN map |-> IF x = w THEN [map[x] EXCEPT !.silence = 0] ELSE map[x]]

UpdateLastResponseToNow(map, w) ==
  [x \in DOMAIN map |->
    IF x = w THEN [map[x] EXCEPT !.silence = 0, !.pinged = {}] ELSE map[x]]

MarkPinged(map, w, i) ==
  [x \in DOMAIN map |->
    IF x = w THEN [map[x] EXCEPT !.pinged = @ \cup {i}] ELSE map[x]]

(* toVector: what a client that asks for the available modules is sent. *)
ToVector(map) == {map[w].details : w \in DOMAIN map}

(* One tick of the clock, seen from the map. *)
GrowOlder(map) ==
  [x \in DOMAIN map |->
    [map[x] EXCEPT !.silence = IF @ < Overdue THEN @ + 1 ELSE Overdue]]

(* The rungs whose interval has passed and on which no ping went out. *)
DueRungs(entry) ==
  {i \in Rungs : entry.silence > Intervals[i] /\ i \notin entry.pinged}

(* The shortest of them: a visit of the pinger sends one ping at most. *)
NextRung(entry) ==
  CHOOSE i \in DueRungs(entry) : \A j \in DueRungs(entry) : i <= j

(* Mutant: a module is expired one tick early. *)
ExpiredEarly(entry) == entry.silence >= ModuleTimeOut

Expired(entry) == entry.silence > ModuleTimeOut
=============================================================================

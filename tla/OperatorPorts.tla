---------------------------- MODULE OperatorPorts ----------------------------
(***************************************************************************)
(* How the operator reads its initialization file: every proxy gets a      *)
(* frontend and a backend address, the one the file proposes or the next   *)
(* free port of the operator's block.  The functions of                    *)
(* modules/operator/operator.cpp from makeNextAvailableAddress to          *)
(* parseIniFile, as operators on the state that they pass along.           *)
(*                                                                         *)
(* An address is a number: 0 is none; the numbers from the first port to   *)
(* the last are the addresses tcp://<operator>:<port> of the block, the    *)
(* others are addresses elsewhere.                                         *)
(***************************************************************************)
EXTENDS Naturals, FiniteSetsExt, SequencesExt

NoAddress == 0

RequiredBroadcasts == {"Heartbeat"}

ReservedNames == {"uOperator", "ModuleRegistry"}

(* The operator refuses a block that begins below.                         *)
FirstPort == 6

(* The checks before the first address is given out: the host, the block   *)
(* of ports, the users' table, the names of the sections.                  *)
Readable(ini) ==
  /\ ini.addressed
  /\ ini.portStart >= FirstPort /\ ini.portEnd >= ini.portStart
  /\ ini.userTable
  /\ \A s \in ToSet(ini.broadcasts \o ini.services) : s.section \notin ReservedNames

(* What parseIniFile carries along: the ports still free, the addresses    *)
(* given out or taken over from the file, the options made so far, and how *)
(* many sections it has looked at.                                         *)
Start(ini) ==
  [available |-> (ini.portStart + 1) .. ini.portEnd, used |-> {}, given |-> << >>,
   visited |-> 0]

(* The port at the head of the block is the connection information's; it   *)
(* is not entered among the used addresses.                                *)
ClientAccessAddress(ini) == ini.portStart

(* Mutant: exhausted ports are not noticed.                                *)
AddressWithoutThrow(proposed, available, used) ==
  LET free == available \ used IN
  [ok |-> TRUE,
   address |-> IF free # {} THEN Min(free) ELSE NoAddress,
   available |-> IF free # {} THEN available \ {Min(free)} ELSE {}]

(* The proposal if nobody has it, else the first free port that nobody     *)
(* has.  When other sections of the file have them all, the address made   *)
(* from the last one is still in the variable and is returned.             *)
makeNextAvailableAddress(proposed, available, used) ==
  LET free == available \ used IN
  IF proposed # NoAddress /\ proposed \notin used
    THEN [ok |-> TRUE, address |-> proposed, available |-> available]
  ELSE IF free # {}
    THEN [ok |-> TRUE, address |-> Min(free), available |-> available \ {Min(free)}]
  ELSE IF available # {}
    THEN [ok |-> TRUE, address |-> Max(available), available |-> available]
  ELSE [ok |-> FALSE, address |-> NoAddress, available |-> available]

(* Mutant: the frontend's address is not entered among the used ones.      *)
PairWithoutInsert(section, state) ==
  LET front == makeNextAvailableAddress(section.front, state.available, state.used)
      back == makeNextAvailableAddress(section.back, front.available, state.used)
  IN [ok |-> front.ok /\ back.ok,
      front |-> front.address,
      back |-> back.address,
      available |-> back.available,
      used |-> state.used \cup {front.address, back.address}]

(* A pair of addresses, the frontend's before the backend is looked at.    *)
makeNewFrontendBackendAddress(section, state) ==
  LET front == makeNextAvailableAddress(section.front, state.available, state.used)
      back == makeNextAvailableAddress(section.back, front.available,
                                       state.used \cup {front.address})
  IN [ok |-> front.ok /\ back.ok,
      front |-> front.address,
      back |-> back.address,
      available |-> back.available,
      used |-> state.used \cup {front.address, back.address}]

(* The setters of the options refuse a frontend address that is the        *)
(* backend address the file proposed (proxy services), or a backend that   *)
(* is the frontend (proxy services, module registry); those of a           *)
(* broadcast refuse neither.                                               *)
SettersAccept(kind, section, pair) ==
  CASE kind = "service" ->
         /\ section.front = NoAddress \/ section.front # section.back
         /\ pair.front # section.back
         /\ pair.back # pair.front
    [] kind = "registry" ->
         /\ section.front = NoAddress \/ section.front # section.back
         /\ pair.back # pair.front
    [] OTHER -> TRUE

(* addProxyBroadcast, addProxyService and the block of the module registry *)
Accepts(visit, state) ==
  LET pair == makeNewFrontendBackendAddress(visit.section, state) IN
  pair.ok /\ SettersAccept(visit.kind, visit.section, pair)

addProxy(visit, state) ==
  LET pair == makeNewFrontendBackendAddress(visit.section, state) IN
  [available |-> pair.available,
   used |-> pair.used,
   given |-> Append(state.given, [kind |-> visit.kind, name |-> visit.section.name,
                                  front |-> pair.front, back |-> pair.back]),
   visited |-> state.visited + 1]

(* The sections in the order that parseIniFile looks at them: the module   *)
(* registry, the broadcasts for the required ones among them, the          *)
(* broadcasts again for the others, the services (none is required).  It   *)
(* adds a proxy for a section that is wanted.                              *)
IsRequired(section) == section.section \in RequiredBroadcasts

Visit(kind, section, wanted) == [kind |-> kind, section |-> section, wanted |-> wanted]

Visits(ini) ==
  LET Broadcast(i, required) ==
        Visit("broadcast", ini.broadcasts[i], IsRequired(ini.broadcasts[i]) = required)
  IN <<Visit("registry", ini.registry, TRUE)>>
       \o [i \in DOMAIN ini.broadcasts |-> Broadcast(i, TRUE)]
       \o [i \in DOMAIN ini.broadcasts |-> Broadcast(i, FALSE)]
       \o [i \in DOMAIN ini.services |-> Visit("service", ini.services[i], TRUE)]

-----------------------------------------------------------------------------
(* What the properties say of a file.                                      *)

Sections(ini) == ToSet(<<ini.registry>> \o ini.broadcasts \o ini.services)

Proposed(ini) ==
  (UNION {{s.front, s.back} : s \in Sections(ini)}) \ {NoAddress}

SocketsOf(given) == {<<i, side>> : i \in DOMAIN given, side \in {"front", "back"}}

AddressOf(given, socket) == given[socket[1]][socket[2]]

(* The block has a port for every socket even if the file's proposals fall *)
(* into it, and none of them is the connection information's.              *)
LeavesRoom(ini) ==
  /\ ClientAccessAddress(ini) \notin Proposed(ini)
  /\ Cardinality(((ini.portStart + 1) .. ini.portEnd) \ Proposed(ini))
       >= 2 * (1 + Len(ini.broadcasts) + Len(ini.services))
=============================================================================

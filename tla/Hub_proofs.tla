------------------------------ MODULE Hub_proofs ------------------------------
(***************************************************************************)
(* The operator and the modules from start to end, for any set of          *)
(* initialization files and any number of statuses: which sockets get      *)
(* which addresses, who is listed when, what goes over the heartbeat       *)
(* broadcast, and for which reasons a program ends in an error.            *)
(***************************************************************************)
EXTENDS Hub, FiniteSetTheorems, SequenceTheorems, WellFoundedInduction, TLAPS

-----------------------------------------------------------------------------
(* Addresses of the block.                                                 *)

(* A set of numbers that is not empty has a least one.                     *)
LEMMA LeastIn ==
  ASSUME NEW S \in SUBSET Nat, S # {}
  PROVE  Min(S) \in S /\ \A y \in S : Min(S) <= y
<1> DEFINE R == OpToRel(<, Nat)
<1>1. IsWellFoundedOn(R, Nat)
  BY NatLessThanWellFounded
<1>2. \A x, y \in Nat : <<y, x>> \in R <=> y < x
  BY DEF OpToRel
<1> HIDE DEF R
<1>3. PICK x \in S : \A y \in S : <<y, x>> \notin R
  BY <1>1, WFMin
<1>4. ASSUME NEW y \in S PROVE x <= y
  <2>1. x \in Nat /\ y \in Nat
    OBVIOUS
  <2>2. ~(y < x)
    BY <1>2, <1>3, <2>1
  <2> QED BY <2>1, <2>2
<1> QED BY <1>4 DEF Min

(* And one that has a bound has a greatest.                                *)
LEMMA GreatestIn ==
  ASSUME NEW a \in Nat, NEW b \in Nat, NEW S \in SUBSET (a .. b), S # {}
  PROVE  Max(S) \in S
<1> DEFINE T == {b - x : x \in S}
<1>0. \A x \in S : b - x \in Nat
  OBVIOUS
<1>1. T \in SUBSET Nat /\ T # {}
  BY <1>0
<1>2. Min(T) \in T /\ \A t \in T : Min(T) <= t
  BY <1>1, LeastIn
<1>3. PICK x \in S : Min(T) = b - x
  BY <1>2
<1>4. ASSUME NEW y \in S PROVE x >= y
  <2>1. b - x <= b - y
    BY <1>2, <1>3
  <2> QED BY <2>1
<1> QED BY <1>4 DEF Max

Kinds == {"registry", "broadcast", "service"}
Addresses == Nat \ {NoAddress}
SectionRecords == [section : STRING, name : STRING, front : Nat, back : Nat]
Proxies == [kind : Kinds, name : STRING, front : Addresses, back : Addresses]
Options ==
  [available : SUBSET Nat, used : SUBSET Nat, given : Seq(Proxies), visited : Nat]

Within(S, T) == S \subseteq T

(* The ports of a file beyond the one of the connection information.       *)
Block(file) == (file.portStart + 1) .. file.portEnd

(* An address that is made is one, and the free ports become no more.      *)
LEMMA NextAddress ==
  ASSUME NEW file \in Inis, NEW available, Within(available, Block(file)),
         NEW used, Within(used, Nat), NEW proposed \in Nat,
         NEW made, made = makeNextAvailableAddress(proposed, available, used), made.ok
  PROVE  made.address \in Addresses /\ Within(made.available, available)
<1> DEFINE free == available \ used
<1>1. /\ file.portStart + 1 \in Nat /\ file.portEnd \in Nat
      /\ available \in SUBSET Block(file)
      /\ \A x \in available : x \in Addresses
  BY IniAssumption DEF Within, Block, Addresses, NoAddress
<1>2. CASE proposed # NoAddress /\ proposed \notin used
  BY <1>2 DEF makeNextAvailableAddress, Addresses, Within
<1>3. CASE ~(proposed # NoAddress /\ proposed \notin used) /\ free # {}
  <2>1. Min(free) \in free
    BY <1>1, <1>3, LeastIn DEF Addresses
  <2>2. made = [ok |-> TRUE, address |-> Min(free), available |-> available \ {Min(free)}]
    BY <1>3 DEF makeNextAvailableAddress
  <2>3. made.address = Min(free) /\ made.available \subseteq available
    BY <2>2
  <2> QED BY <1>1, <2>1, <2>3 DEF Within
<1>4. CASE ~(proposed # NoAddress /\ proposed \notin used) /\ free = {}
  <2>1. CASE available # {}
    <3>1. Max(available) \in available
      BY <1>1, <2>1, GreatestIn DEF Block
    <3>2. made = [ok |-> TRUE, address |-> Max(available), available |-> available]
      BY <1>4, <2>1 DEF makeNextAvailableAddress
    <3>3. made.address = Max(available) /\ made.available = available
      BY <3>2
    <3> QED BY <1>1, <3>1, <3>3 DEF Within
  <2>2. CASE available = {}
    BY <1>4, <2>2 DEF makeNextAvailableAddress
  <2> QED BY <2>1, <2>2
<1> QED BY <1>2, <1>3, <1>4

(* A pair is made of one address, then the other.                          *)
MadeOf(pair, front, back, section, state) ==
  /\ front = makeNextAvailableAddress(section.front, state.available, state.used)
  /\ back = makeNextAvailableAddress(section.back, front.available,
                                     state.used \cup {front.address})
  /\ front.ok /\ back.ok
  /\ pair.front = front.address /\ pair.back = back.address
  /\ pair.available = back.available
  /\ pair.used = state.used \cup {front.address, back.address}

LEMMA PairIsMade ==
  ASSUME NEW section, NEW state,
         NEW pair, pair = makeNewFrontendBackendAddress(section, state), pair.ok
  PROVE  \E front, back : MadeOf(pair, front, back, section, state)
<1>1. PICK front :
        front = makeNextAvailableAddress(section.front, state.available, state.used)
  OBVIOUS
<1>2. PICK back :
        back = makeNextAvailableAddress(section.back, front.available,
                                        state.used \cup {front.address})
  OBVIOUS
<1>3. PICK ok : ok = (front.ok /\ back.ok)
  OBVIOUS
<1>4. pair = [ok |-> ok, front |-> front.address,
              back |-> back.address, available |-> back.available,
              used |-> state.used \cup {front.address, back.address}]
  BY <1>1, <1>2, <1>3 DEF makeNewFrontendBackendAddress
<1>5. /\ pair.ok = ok
      /\ pair.front = front.address /\ pair.back = back.address
      /\ pair.available = back.available
      /\ pair.used = state.used \cup {front.address, back.address}
  BY <1>4
<1>6. front.ok /\ back.ok
  BY <1>3, <1>5, Zenon
<1>7. MadeOf(pair, front, back, section, state)
  BY <1>1, <1>2, <1>5, <1>6 DEF MadeOf
<1> QED BY <1>7

(* So that both of its addresses are some.                                 *)
LEMMA NextPair ==
  ASSUME NEW file \in Inis, NEW section \in SectionRecords,
         NEW state \in Options, Within(state.available, Block(file)),
         NEW pair, pair = makeNewFrontendBackendAddress(section, state), pair.ok
  PROVE  /\ pair.front \in Addresses /\ pair.back \in Addresses
         /\ Within(pair.available, state.available)
         /\ pair.used = state.used \cup {pair.front, pair.back}
<1>0. PICK front, back : MadeOf(pair, front, back, section, state)
  BY PairIsMade
<1>1. /\ front = makeNextAvailableAddress(section.front, state.available, state.used)
      /\ back = makeNextAvailableAddress(section.back, front.available,
                                         state.used \cup {front.address})
      /\ front.ok /\ back.ok
      /\ pair.front = front.address /\ pair.back = back.address
      /\ pair.available = back.available
      /\ pair.used = state.used \cup {front.address, back.address}
  BY <1>0 DEF MadeOf
<1>2. section.front \in Nat /\ section.back \in Nat /\ Within(state.used, Nat)
  BY DEF SectionRecords, Options, Within
<1>3. front.address \in Addresses /\ Within(front.available, state.available)
  BY <1>1, <1>2, NextAddress
<1>4. Within(state.used \cup {front.address}, Nat)
  BY <1>2, <1>3 DEF Addresses, Within
<1>5. Within(front.available, Block(file))
  BY <1>3 DEF Within
<1>6. back.address \in Addresses /\ Within(back.available, front.available)
  BY <1>1, <1>2, <1>4, <1>5, NextAddress
<1>7. Within(back.available, state.available)
  BY <1>3, <1>6 DEF Within
<1> QED BY <1>1, <1>3, <1>6, <1>7

-----------------------------------------------------------------------------
(* The sections of a file.                                                 *)

VisitRecords == [kind : Kinds, section : SectionRecords, wanted : BOOLEAN]

(* Where the elements of four sequences are when they are joined.          *)
Joins(all, first, needed, other, last, b, s) ==
  /\ Len(all) = 1 + b + b + s
  /\ all[1] = first[1]
  /\ \A i \in 1 .. b : all[1 + i] = needed[i] /\ all[1 + b + i] = other[i]
  /\ \A i \in 1 .. s : all[1 + b + b + i] = last[i]

LEMMA FourParts ==
  ASSUME NEW S, NEW first \in Seq(S), NEW needed \in Seq(S), NEW other \in Seq(S),
         NEW last \in Seq(S), NEW b \in Nat, NEW s \in Nat,
         Len(first) = 1, Len(needed) = b, Len(other) = b, Len(last) = s,
         NEW all, all = first \o needed \o other \o last
  PROVE  all \in Seq(S) /\ Joins(all, first, needed, other, last, b, s)
<1>1. PICK two : two = first \o needed
  OBVIOUS
<1>2. /\ two \in Seq(S) /\ Len(two) = 1 + b
      /\ \A i \in 1 .. 1 + b : two[i] = IF i <= 1 THEN first[i] ELSE needed[i - 1]
  <2>1. /\ first \o needed \in Seq(S)
        /\ Len(first \o needed) = Len(first) + Len(needed)
        /\ \A i \in 1 .. Len(first) + Len(needed) : (first \o needed)[i] =
             IF i <= Len(first) THEN first[i] ELSE needed[i - Len(first)]
    BY ConcatProperties
  <2> QED BY <1>1, <2>1
<1>3. PICK three : three = two \o other
  OBVIOUS
<1>4. /\ three \in Seq(S) /\ Len(three) = 1 + b + b
      /\ \A i \in 1 .. 1 + b + b :
           three[i] = IF i <= 1 + b THEN two[i] ELSE other[i - (1 + b)]
  <2>1. two \in Seq(S) /\ Len(two) = 1 + b
    BY <1>2
  <2>2. /\ two \o other \in Seq(S)
        /\ Len(two \o other) = Len(two) + Len(other)
        /\ \A i \in 1 .. Len(two) + Len(other) : (two \o other)[i] =
             IF i <= Len(two) THEN two[i] ELSE other[i - Len(two)]
    BY <2>1, ConcatProperties
  <2> QED BY <1>3, <2>1, <2>2
<1>5. /\ Len(all) = 1 + b + b + s /\ all \in Seq(S)
      /\ \A i \in 1 .. 1 + b + b + s :
           all[i] = IF i <= 1 + b + b THEN three[i] ELSE last[i - (1 + b + b)]
  <2>1. three \in Seq(S) /\ Len(three) = 1 + b + b
    BY <1>4
  <2>2. /\ three \o last \in Seq(S)
        /\ Len(three \o last) = Len(three) + Len(last)
        /\ \A i \in 1 .. Len(three) + Len(last) : (three \o last)[i] =
             IF i <= Len(three) THEN three[i] ELSE last[i - Len(three)]
    <3>1. three \in Seq(S)
      BY <2>1
    <3> QED BY <3>1, ConcatProperties
  <2>3. all = three \o last
    BY <1>1, <1>3
  <2> QED BY <2>1, <2>2, <2>3
<1>6. all[1] = first[1]
  <2>1. 1 \in 1 .. 1 + b /\ 1 \in 1 .. 1 + b + b /\ 1 \in 1 .. 1 + b + b + s
    OBVIOUS
  <2>2. 1 <= 1 + b /\ 1 <= 1 + b + b
    OBVIOUS
  <2> QED BY <1>2, <1>4, <1>5, <2>1, <2>2
<1>7. ASSUME NEW i \in 1 .. b
      PROVE  all[1 + i] = needed[i] /\ all[1 + b + i] = other[i]
  <2>1. PICK j, k : j = 1 + i /\ k = 1 + b + i
    OBVIOUS
  <2>2. /\ j \in 1 .. 1 + b /\ j \in 1 .. 1 + b + b /\ j \in 1 .. 1 + b + b + s
        /\ j <= 1 + b + b /\ j <= 1 + b /\ ~(j <= 1) /\ j - 1 = i
    BY <2>1
  <2>3. /\ k \in 1 .. 1 + b + b /\ k \in 1 .. 1 + b + b + s
        /\ k <= 1 + b + b /\ ~(k <= 1 + b) /\ k - (1 + b) = i
    BY <2>1
  <2>4. all[j] = three[j] /\ all[k] = three[k]
    BY <1>5, <2>2, <2>3
  <2>5. three[j] = two[j] /\ three[k] = other[i]
    BY <1>4, <2>2, <2>3
  <2>6. two[j] = needed[i]
    BY <1>2, <2>2
  <2> QED BY <2>1, <2>4, <2>5, <2>6
<1>8. ASSUME NEW i \in 1 .. s
      PROVE  all[1 + b + b + i] = last[i]
  <2>1. PICK j : j = 1 + b + b + i
    OBVIOUS
  <2>2. /\ j \in 1 .. 1 + b + b + s /\ ~(j <= 1 + b + b)
        /\ j - (1 + b + b) = i
    BY <2>1
  <2> QED BY <1>5, <2>1, <2>2
<1> QED BY <1>5, <1>6, <1>7, <1>8 DEF Joins

(* The module registry, the broadcasts twice, the services.                *)
VisitsOf(file, b, s) ==
  /\ b \in Nat /\ s \in Nat
  /\ Visits(file) \in Seq(VisitRecords)
  /\ Len(Visits(file)) = 1 + b + b + s
  /\ Visits(file)[1] = Visit("registry", file.registry, TRUE)
  /\ \A i \in 1 .. b :
       /\ Visits(file)[1 + i]
            = Visit("broadcast", file.broadcasts[i], IsRequired(file.broadcasts[i]) = TRUE)
       /\ Visits(file)[1 + b + i]
            = Visit("broadcast", file.broadcasts[i], IsRequired(file.broadcasts[i]) = FALSE)
  /\ \A i \in 1 .. s :
       Visits(file)[1 + b + b + i] = Visit("service", file.services[i], TRUE)

(* A function on 1 .. n is a sequence of length n.                         *)
LEMMA FunctionIsSequence ==
  ASSUME NEW S, NEW n \in Nat, NEW f \in [1 .. n -> S]
  PROVE  f \in Seq(S) /\ Len(f) = n
OBVIOUS

LEMMA VisitsAre ==
  ASSUME NEW file \in Inis, NEW b, NEW s,
         b = Len(file.broadcasts), s = Len(file.services)
  PROVE  VisitsOf(file, b, s)
<1> DEFINE first == <<Visit("registry", file.registry, TRUE)>>
           needed == [i \in DOMAIN file.broadcasts |->
             Visit("broadcast", file.broadcasts[i], IsRequired(file.broadcasts[i]) = TRUE)]
           other == [i \in DOMAIN file.broadcasts |->
             Visit("broadcast", file.broadcasts[i], IsRequired(file.broadcasts[i]) = FALSE)]
           last == [i \in DOMAIN file.services |-> Visit("service", file.services[i], TRUE)]
<1>1. /\ file.registry \in SectionRecords
      /\ file.broadcasts \in Seq(SectionRecords) /\ file.services \in Seq(SectionRecords)
  BY IniAssumption DEF SectionRecords
<1>2. /\ b \in Nat /\ DOMAIN file.broadcasts = 1 .. b
      /\ s \in Nat /\ DOMAIN file.services = 1 .. s
      /\ \A i \in 1 .. b : file.broadcasts[i] \in SectionRecords
      /\ \A i \in 1 .. s : file.services[i] \in SectionRecords
  BY <1>1
<1>3. \A section \in SectionRecords, kind \in Kinds, wanted \in BOOLEAN :
        Visit(kind, section, wanted) \in VisitRecords
  BY DEF Visit, VisitRecords
<1>4. first \in Seq(VisitRecords) /\ Len(first) = 1 /\ first[1] = Visit("registry", file.registry, TRUE)
  <2>1. Visit("registry", file.registry, TRUE) \in VisitRecords
    BY <1>1, <1>3 DEF Kinds
  <2>2. PICK v \in VisitRecords : v = Visit("registry", file.registry, TRUE)
    BY <2>1
  <2>3. <<v>> \in Seq(VisitRecords) /\ Len(<<v>>) = 1 /\ <<v>>[1] = v
    OBVIOUS
  <2>4. first = <<v>>
    BY <2>2
  <2> QED BY <2>2, <2>3, <2>4
<1>5. needed \in [1 .. b -> VisitRecords] /\ other \in [1 .. b -> VisitRecords]
  BY <1>2, <1>3 DEF Kinds
<1>6. last \in [1 .. s -> VisitRecords]
  BY <1>2, <1>3 DEF Kinds
<1>7. /\ \A i \in 1 .. b :
           /\ needed[i] = Visit("broadcast", file.broadcasts[i], IsRequired(file.broadcasts[i]) = TRUE)
           /\ other[i] = Visit("broadcast", file.broadcasts[i], IsRequired(file.broadcasts[i]) = FALSE)
      /\ \A i \in 1 .. s : last[i] = Visit("service", file.services[i], TRUE)
  BY <1>2
<1>8. Visits(file) = first \o needed \o other \o last
  BY DEF Visits
<1> HIDE DEF first, needed, other, last
<1>9. /\ needed \in Seq(VisitRecords) /\ Len(needed) = b
      /\ other \in Seq(VisitRecords) /\ Len(other) = b
      /\ last \in Seq(VisitRecords) /\ Len(last) = s
  BY <1>2, <1>5, <1>6, FunctionIsSequence
<1>10. PICK all : all = first \o needed \o other \o last
  OBVIOUS
<1>11. /\ first \in Seq(VisitRecords) /\ Len(first) = 1
       /\ b \in Nat /\ s \in Nat
  BY <1>2, <1>4
<1>12. all \in Seq(VisitRecords) /\ Joins(all, first, needed, other, last, b, s)
  BY <1>9, <1>10, <1>11, FourParts
<1>13. Visits(file) = all
  BY <1>8, <1>10
<1> QED BY <1>4, <1>7, <1>11, <1>12, <1>13 DEF Joins, VisitsOf

LEMMA VisitsBegin ==
  ASSUME NEW file \in Inis
  PROVE  /\ Visits(file) \in Seq(VisitRecords)
         /\ Len(Visits(file)) \in Nat /\ Len(Visits(file)) > 0
         /\ Visits(file)[1] = Visit("registry", file.registry, TRUE)
<1>1. PICK b, s : b = Len(file.broadcasts) /\ s = Len(file.services)
  OBVIOUS
<1>2. VisitsOf(file, b, s)
  BY <1>1, VisitsAre
<1>3. /\ b \in Nat /\ s \in Nat /\ Len(Visits(file)) = 1 + b + b + s
      /\ Visits(file) \in Seq(VisitRecords)
      /\ Visits(file)[1] = Visit("registry", file.registry, TRUE)
  BY <1>2 DEF VisitsOf
<1> QED BY <1>3

-----------------------------------------------------------------------------
(* The steps, by what they change.                                         *)

Dead == {"aborted", "killed", "failed"}

(* Of the operator's own.                                                  *)
HubStep ==
  \/ Parses \/ HasParsed \/ OpensUsers \/ InitializesDirectory \/ InitializesNext
  \/ LaunchesNext \/ ListsNext \/ OpensDirectory
  \/ StopsRegistry \/ UnlistsNext \/ HaltsNext \/ StopsDirectory
  \/ ProxyStep \/ DirectoryStep \/ DirectoryAsked

(* Of main() in the process manager.                                       *)
ManagerStep ==
  /\ \/ ManagerResets \/ StartsNext(ini.program = "module") \/ ManagerRuns
     \/ ini.program = "module" /\ (InsertsLate \/ LinksLate)
     \/ CatchesSignals \/ MainLooks \/ MainWakes
     \/ StopsHeartbeat \/ StopsCommands \/ JoinsNext \/ ManagerStopped
  /\ UNCHANGED hubVars

(* Of main() in the destructors.                                           *)
DestroyStep == (Destroys \/ Releases) /\ UNCHANGED hubVars

(* Of the processes, while main stays where it is.                         *)
ProcessStep ==
  \/ CommandsStep \/ PublisherRuns \/ StamperRuns \/ OwnerBegins \/ OwnerEnds
  \/ Lives /\ main # "left" /\ AskedToStop /\ UNCHANGED hubVars

(* Of the program's end from outside, or by a crash.                       *)
EndingStep ==
  \/ Lives /\ main # "left" /\ Signalled /\ UNCHANGED hubVars
  \/ CopyCrashes

LEMMA NextIs ==
  Next => \/ HubStep \/ CreatesProcesses \/ ManagerStep \/ DestroyStep
          \/ ProcessStep \/ EndingStep
BY DEF Next, MainStep, Outside, HubStep, ManagerStep, DestroyStep, ProcessStep, EndingStep

LEMMA HubStepKeeps == HubStep => UNCHANGED processVars
BY DEF HubStep, Parses, HasParsed, OpensUsers, InitializesDirectory, InitializesNext,
       LaunchesNext, ListsNext, OpensDirectory, StopsRegistry, UnlistsNext, HaltsNext,
       StopsDirectory, ProxyStep, ProxyRuns, DirectoryStep, DirectoryRuns,
       DirectoryAnswers, DirectoryAsked, DirectoryReads, DirectoryGoes

(* From place to place with the proxies, at start-up.                      *)
LEMMA GoesOnMoves ==
  /\ GoesOn("binding") =>
       main = "binding" /\ main' = (IF at = 1 THEN "listing" ELSE "launching") /\ at' = at
  /\ GoesOn("launching") =>
       /\ main = "launching" /\ main' = (IF at = 1 THEN "binding" ELSE "listing")
       /\ at' = IF at = 1 THEN at + 1 ELSE at
  /\ GoesOn("listing") =>
       /\ main = "listing" /\ main' = (IF at = 1 THEN "launching" ELSE "binding")
       /\ at' = IF at = 1 THEN at ELSE at + 1
BY DEF GoesOn, Following, MainGoes

LEMMA ManagerStepMoves ==
  ManagerStep =>
    /\ main \in ManagerPlaces \ {"processes"}
    /\ main' \in (ManagerPlaces \ {"processes"}) \cup {"aborted"}
    /\ UNCHANGED hubVars
BY DEF ManagerStep, ManagerResets, StartsNext, ManagerRuns, InsertsLate, LinksLate,
       CatchesSignals, MainLooks, MainWakes, StopsHeartbeat, StopsCommands, JoinsNext,
       ManagerStopped, MainGoes, ManagerPlaces

LEMMA DestroyStepMoves ==
  DestroyStep =>
    /\ main \in {"destroying", "releasing"} /\ main' \in {"releasing", "left", "hung"}
    /\ UNCHANGED hubVars /\ UNCHANGED managerVars /\ UNCHANGED heartbeatVars
BY DEF DestroyStep, Destroys, Releases, MainGoes

LEMMA ProcessStepKeeps == ProcessStep => main' = main /\ UNCHANGED hubVars
BY DEF ProcessStep, CommandsStep, CommandsServe, IssuesStop, CommandsLeave, PublisherRuns,
       StamperRuns, OwnerBegins, OwnerEnds, HeartbeatUnchanged, AskedToStop

LEMMA EndingStepMoves ==
  EndingStep => (main' = main \/ main' \in Dead) /\ UNCHANGED hubVars
BY DEF EndingStep, Signalled, CopyCrashes, Dead

(* All but the operator's own leave what it keeps alone.                   *)
Passes ==
  \/ main' = main \/ main' \in Dead
  \/ main \in ManagerPlaces /\ main' \in ManagerPlaces
  \/ main \in {"destroying", "releasing"} /\ main' \in {"releasing", "left", "hung"}

LEMMA OthersPass == [Next]_vars => HubStep \/ (UNCHANGED hubVars /\ Passes)
<1>1. ASSUME CreatesProcesses PROVE UNCHANGED hubVars /\ Passes
  BY <1>1 DEF CreatesProcesses, ManagerPlaces, Dead, Passes
<1>2. ASSUME ManagerStep PROVE UNCHANGED hubVars /\ Passes
  BY <1>2, ManagerStepMoves DEF Dead, Passes
<1>3. ASSUME UNCHANGED vars PROVE UNCHANGED hubVars /\ Passes
  BY <1>3 DEF vars, Passes
<1>4. ASSUME DestroyStep PROVE UNCHANGED hubVars /\ Passes
  BY <1>4, DestroyStepMoves DEF Passes
<1> QED BY <1>1, <1>2, <1>3, <1>4, NextIs, ProcessStepKeeps, EndingStepMoves DEF Passes

(* The heartbeat takes its own steps only.                                 *)
HeartbeatStep ==
  \/ PublisherStep \/ StamperStep
  \/ OwnerSetsStatus \/ OwnerSendsStatus \/ OwnerIsDone
  \/ HeartbeatStarts /\ main = "starting" /\ next = 1
  \/ HeartbeatStops /\ main = "stopping"
  \/ HeartbeatJoined /\ main = "joining" /\ next = 1
  \/ UNCHANGED heartbeatVars

NextOK == next \in 1 .. 3 /\ (main = "joining" => next <= 2)

LEMMA HeartbeatSteps == NextOK /\ [Next]_vars => HeartbeatStep
<1> SUFFICES ASSUME NextOK, [Next]_vars PROVE HeartbeatStep
  OBVIOUS
<1>0. next \in {1, 2} => (Order[next] = "heartbeat" <=> next = 1)
  BY DEF Order
<1>1. ASSUME HubStep PROVE HeartbeatStep
  BY <1>1, HubStepKeeps DEF HeartbeatStep, processVars
<1>2. ASSUME CreatesProcesses PROVE HeartbeatStep
  BY <1>2 DEF HeartbeatStep, CreatesProcesses
<1>3. ASSUME ManagerStep PROVE HeartbeatStep
  <2>1. CASE StartsNext(ini.program = "module")
    <3>1. next \in {1, 2} /\ main = "starting"
      BY <2>1 DEF StartsNext, NextOK, MainGoes, Order
    <3>2. CASE UNCHANGED heartbeatVars
      BY <3>2 DEF HeartbeatStep
    <3>3. CASE ~UNCHANGED heartbeatVars
      <4>1. Order[next] = "heartbeat" /\ HeartbeatStarts
        BY <2>1, <3>3 DEF StartsNext, CommandsStart
      <4> QED BY <1>0, <3>1, <4>1 DEF HeartbeatStep
    <3> QED BY <3>2, <3>3
  <2>2. CASE StopsHeartbeat \/ StopsCommands
    BY <2>2 DEF StopsHeartbeat, StopsCommands, HeartbeatStep, MainGoes
  <2>3. CASE JoinsNext
    <3>1. next \in {1, 2} /\ main = "joining"
      BY <2>3 DEF JoinsNext, NextOK, MainGoes
    <3>2. CASE Order[next] = "heartbeat"
      BY <1>0, <2>3, <3>1, <3>2 DEF JoinsNext, HeartbeatStep
    <3>3. CASE Order[next] # "heartbeat"
      BY <2>3, <3>3 DEF JoinsNext, HeartbeatStep
    <3> QED BY <3>2, <3>3
  <2>4. CASE \/ ManagerResets \/ ManagerRuns \/ InsertsLate \/ LinksLate
             \/ CatchesSignals \/ MainLooks \/ MainWakes \/ ManagerStopped
    BY <2>4 DEF ManagerResets, ManagerRuns, InsertsLate, LinksLate, CommandsStart,
                CatchesSignals, MainLooks, MainWakes, ManagerStopped, HeartbeatStep
  <2> QED BY <1>3, <2>1, <2>2, <2>3, <2>4 DEF ManagerStep
<1>4. ASSUME ProcessStep PROVE HeartbeatStep
  BY <1>4 DEF ProcessStep, CommandsStep, CommandsServe, IssuesStop, CommandsLeave, PublisherRuns,
              StamperRuns, OwnerBegins, OwnerEnds, AskedToStop, HeartbeatStep
<1>5. ASSUME EndingStep PROVE HeartbeatStep
  BY <1>5 DEF EndingStep, Signalled, CopyCrashes, HeartbeatStep, processVars
<1>6. ASSUME UNCHANGED vars PROVE HeartbeatStep
  BY <1>6 DEF vars, processVars, HeartbeatStep
<1>7. ASSUME DestroyStep PROVE HeartbeatStep
  BY <1>7, DestroyStepMoves DEF HeartbeatStep
<1> QED BY <1>1, <1>2, <1>3, <1>4, <1>5, <1>6, <1>7, NextIs

-----------------------------------------------------------------------------
(* The types of what the processes keep.                                   *)

Messages == {Alive, Disconnected} \cup {Status(n) : n \in 1 .. MaxStatuses}

LEMMA PushTypes ==
  HeartbeatTypeOK /\ PushOrBound
    => pushed' \in 0 .. MaxStatuses /\ queue' \in Seq(1 .. MaxStatuses)
<1> SUFFICES ASSUME HeartbeatTypeOK, PushOrBound
             PROVE  pushed' \in 0 .. MaxStatuses /\ queue' \in Seq(1 .. MaxStatuses)
  OBVIOUS
<1>1. queue \in Seq(1 .. MaxStatuses) /\ pushed \in 0 .. MaxStatuses
  BY DEF HeartbeatTypeOK
<1>2. CASE pushed < MaxStatuses
  <2>1. pushed' = pushed + 1 /\ queue' = Append(queue, pushed')
    BY <1>2 DEF PushOrBound
  <2>2. PICK n \in 1 .. MaxStatuses : n = pushed'
    BY <1>1, <1>2, <2>1, StatusAssumption
  <2>3. Append(queue, n) \in Seq(1 .. MaxStatuses)
    BY <1>1
  <2> QED BY <2>1, <2>2, <2>3
<1>3. CASE ~(pushed < MaxStatuses)
  BY <1>1, <1>3 DEF PushOrBound
<1> QED BY <1>2, <1>3

LEMMA HeartbeatTypes == HeartbeatTypeOK /\ HeartbeatStep => HeartbeatTypeOK'
<1> SUFFICES ASSUME HeartbeatTypeOK, HeartbeatStep PROVE HeartbeatTypeOK'
  OBVIOUS
<1>1. /\ queue \in Seq(1 .. MaxStatuses) /\ wire \in Seq(Messages)
      /\ beating \in BOOLEAN /\ pushed \in 0 .. MaxStatuses
  BY DEF HeartbeatTypeOK, Messages
<1>2. \A m \in Messages : Append(wire, m) \in Seq(Messages)
  BY <1>1
<1>3. Alive \in Messages /\ Disconnected \in Messages
  BY DEF Messages
<1>4. CASE Greet
  <2>1. wire' \in Seq(Messages)
    BY <1>2, <1>3, <1>4 DEF Greet
  <2> QED BY <1>4, <2>1 DEF Greet, Publishes, HeartbeatTypeOK, Messages
<1>5. CASE PublisherChecks
  BY <1>5 DEF PublisherChecks, Publishes, HeartbeatTypeOK
<1>6. CASE PublishNext
  <2>1. CASE queue = << >>
    BY <1>6, <2>1 DEF PublishNext, Publishes, HeartbeatTypeOK
  <2>2. CASE queue # << >>
    <3>1. wire' = Append(wire, Status(Head(queue))) /\ queue' = Tail(queue)
      BY <1>6, <2>2 DEF PublishNext
    <3>2. Head(queue) \in 1 .. MaxStatuses /\ Tail(queue) \in Seq(1 .. MaxStatuses)
      BY <1>1, <2>2, HeadTailProperties
    <3>3. Status(Head(queue)) \in Messages
      BY <3>2 DEF Messages
    <3>4. wire' \in Seq(Messages)
      BY <1>2, <3>1, <3>3
    <3> QED BY <1>6, <3>1, <3>2, <3>4 DEF PublishNext, Publishes, HeartbeatTypeOK, Messages
  <2> QED BY <2>1, <2>2
<1>7. CASE Part
  <2>1. wire' \in Seq(Messages)
    BY <1>2, <1>3, <1>7 DEF Part
  <2> QED BY <1>7, <2>1 DEF Part, Publishes, HeartbeatTypeOK, Messages
<1>8. CASE StamperChecks \/ StamperWakes
  BY <1>8 DEF StamperChecks, StamperWakes, Stamps, HeartbeatTypeOK
<1>9. CASE StamperPushes
  <2>1. pushed' \in 0 .. MaxStatuses /\ queue' \in Seq(1 .. MaxStatuses)
    BY <1>9, PushTypes DEF StamperPushes
  <2> QED BY <1>9, <2>1 DEF StamperPushes, Stamps, HeartbeatTypeOK
<1>10. CASE OwnerSetsStatus \/ OwnerSendsStatus
  BY <1>10 DEF OwnerSetsStatus, OwnerSendsStatus, HeartbeatTypeOK
<1>11. CASE OwnerIsDone
  <2>1. pushed' \in 0 .. MaxStatuses /\ queue' \in Seq(1 .. MaxStatuses)
    BY <1>1, <1>11, PushTypes DEF OwnerIsDone
  <2> QED BY <1>11, <2>1 DEF OwnerIsDone, HeartbeatTypeOK
<1>12. CASE HeartbeatStarts \/ HeartbeatStops \/ HeartbeatJoined \/ UNCHANGED heartbeatVars
  BY <1>12 DEF HeartbeatStarts, HeartbeatStops, HeartbeatJoined, heartbeatVars,
               HeartbeatTypeOK
<1> QED BY <1>4, <1>5, <1>6, <1>7, <1>8, <1>9, <1>10, <1>11, <1>12
        DEF HeartbeatStep, PublisherStep, StamperStep

LEMMA ManagerTypes == ManagerTypeOK /\ NextOK /\ [Next]_vars => ManagerTypeOK' /\ NextOK'
<1> SUFFICES ASSUME ManagerTypeOK, NextOK, [Next]_vars PROVE ManagerTypeOK' /\ NextOK'
  OBVIOUS
<1> USE DEF ManagerTypeOK, NextOK
<1>1. ASSUME HubStep PROVE ManagerTypeOK' /\ NextOK'
  <2>1. UNCHANGED <<managerVars, commandVars>>
    BY <1>1, HubStepKeeps DEF processVars
  <2>2. main' = "joining" => main = "joining"
    BY <1>1 DEF HubStep, Parses, HasParsed, OpensUsers, InitializesDirectory,
       InitializesNext, LaunchesNext, ListsNext, OpensDirectory, StopsRegistry,
       UnlistsNext, HaltsNext, StopsDirectory, ProxyStep, ProxyRuns, DirectoryStep,
       DirectoryRuns, DirectoryAnswers, DirectoryAsked, DirectoryReads, DirectoryGoes,
       GoesOn, Following, MainGoes
  <2> QED BY <2>1, <2>2 DEF managerVars, commandVars
<1>2. ASSUME CreatesProcesses PROVE ManagerTypeOK' /\ NextOK'
  BY <1>2 DEF CreatesProcesses, Processes, commandVars
<1>3. ASSUME ManagerStep PROVE ManagerTypeOK' /\ NextOK'
  <2>1. CASE StartsNext(ini.program = "module")
    <3>1. next <= 2 /\ next' = next + 1 /\ main' = "starting"
      BY <2>1 DEF StartsNext, MainGoes, Order
    <3>2. UNCHANGED <<managed, watched, managing, stopRequested, catching, interrupted>>
      BY <2>1 DEF StartsNext
    <3>3. \/ /\ answering' = (ini.program = "module") /\ commands' \in {"serving", "spawned"}
             /\ UNCHANGED <<heard, unheard, untold>>
          \/ UNCHANGED commandVars
      BY <2>1 DEF StartsNext, CommandsStart
    <3>4. next' \in 1 .. 3
      BY <3>1
    <3>5. commands' \in {"none", "spawned", "serving", "asking", "left"}
      BY <3>3 DEF commandVars
    <3>6. answering' \in BOOLEAN /\ heard' \in BOOLEAN /\ unheard' \in BOOLEAN
          /\ untold' \in BOOLEAN
      BY <3>3, Zenon DEF commandVars
    <3> QED BY <3>1, <3>2, <3>4, <3>5, <3>6
  <2>2. CASE StopsHeartbeat
    BY <2>2 DEF StopsHeartbeat, managerVars, commandVars, MainGoes, Order
  <2>7. CASE StopsCommands
    <3>1. /\ main = "stopping" /\ main' \in {"stopping", "joining"}
          /\ next <= 2 /\ next' \in {next, next + 1}
          /\ UNCHANGED <<managed, watched, managing, stopRequested, catching, interrupted,
                         commands, heard, unheard>>
      BY <2>7 DEF StopsCommands, Order
    <3>2. main' = "joining" => next' = next
      BY <2>7, <3>1 DEF StopsCommands
    <3>3. answering' \in BOOLEAN /\ untold' \in BOOLEAN
      <4>1. answering' = FALSE /\ (untold' = untold \/ untold' = (commands = "spawned"))
        BY <2>7 DEF StopsCommands
      <4> QED BY <4>1, Zenon
    <3>4. next' \in 1 .. 3 /\ (main' = "joining" => next' <= 2)
      BY <3>1, <3>2
    <3> QED BY <3>1, <3>3, <3>4
  <2>3. CASE JoinsNext
    BY <2>3 DEF JoinsNext, commandVars, MainGoes, Order
  <2>4. CASE InsertsLate \/ LinksLate
    BY <2>4 DEF InsertsLate, LinksLate, CommandsStart, managerVars, commandVars, MainGoes,
                Processes
  <2>5. CASE ManagerResets \/ ManagerRuns \/ CatchesSignals \/ ManagerStopped
    <3>1. main' \in {"starting", "installing", "looking", "managed"}
      BY <2>5 DEF ManagerResets, ManagerRuns, CatchesSignals, ManagerStopped, MainGoes
    <3>2. next' \in 1 .. 3 /\ UNCHANGED <<managed, watched, interrupted, commandVars>>
      BY <2>5 DEF ManagerResets, ManagerRuns, CatchesSignals, ManagerStopped
    <3>3. managing' \in BOOLEAN /\ stopRequested' \in BOOLEAN /\ catching' \in BOOLEAN
      BY <2>5, Zenon DEF ManagerResets, ManagerRuns, CatchesSignals, ManagerStopped
    <3> QED BY <3>1, <3>2, <3>3 DEF commandVars
  <2>6. CASE MainLooks \/ MainWakes
    <3>1. main' \in {"waiting", "looking", "stopping"}
      BY <2>6 DEF MainLooks, MainWakes, MainGoes
    <3>2. next' \in {next, 1} /\ stopRequested' \in {stopRequested, TRUE}
      BY <2>6 DEF MainLooks, MainWakes, managerVars
    <3>3. UNCHANGED <<managed, watched, managing, catching, interrupted, commandVars>>
      BY <2>6 DEF MainLooks, MainWakes, managerVars
    <3>4. next' \in 1 .. 3
      BY <3>2
    <3>5. stopRequested' \in BOOLEAN
      BY <3>2
    <3> QED BY <3>1, <3>3, <3>4, <3>5 DEF commandVars
  <2> QED BY <1>3, <2>1, <2>2, <2>3, <2>4, <2>5, <2>6, <2>7 DEF ManagerStep
<1>4. ASSUME ProcessStep PROVE ManagerTypeOK' /\ NextOK'
  <2>1. CASE CommandsStep
    <3>1. CASE IssuesStop
      <4>1. /\ UNCHANGED <<main, next, managed, watched, managing, catching, interrupted,
                           answering, untold>>
            /\ commands' = "serving"
        BY <3>1 DEF IssuesStop
      <4>2. /\ stopRequested' = stopRequested \/ stopRequested' = TRUE
            /\ heard' = heard \/ heard' = TRUE
            /\ unheard' = unheard \/ unheard' = TRUE
        BY <3>1 DEF IssuesStop
      <4> QED BY <4>1, <4>2
    <3>2. CASE CommandsLeave
      BY <3>2 DEF CommandsLeave, managerVars
    <3>3. CASE CommandsServe
      BY <3>3 DEF CommandsServe, managerVars
    <3> QED BY <2>1, <3>1, <3>2, <3>3 DEF CommandsStep
  <2>2. CASE AskedToStop
    BY <2>2 DEF AskedToStop, managerVars
  <2>3. CASE PublisherRuns \/ StamperRuns \/ OwnerBegins \/ OwnerEnds
    <3>1. HeartbeatUnchanged
      BY <2>3 DEF PublisherRuns, StamperRuns, OwnerBegins, OwnerEnds
    <3> QED BY <3>1 DEF HeartbeatUnchanged, managerVars, commandVars
  <2> QED BY <1>4, <2>1, <2>2, <2>3 DEF ProcessStep
<1>5. ASSUME EndingStep PROVE ManagerTypeOK' /\ NextOK'
  BY <1>5 DEF EndingStep, Signalled, CopyCrashes, processVars, managerVars, commandVars
<1>6. ASSUME UNCHANGED vars PROVE ManagerTypeOK' /\ NextOK'
  BY <1>6 DEF vars, processVars, managerVars, commandVars
<1>7. ASSUME DestroyStep PROVE ManagerTypeOK' /\ NextOK'
  <2>1. main' # "joining" /\ UNCHANGED managerVars
    BY <1>7, DestroyStepMoves
  <2>2. /\ answering' = answering \/ answering' = FALSE
        /\ commands' = commands \/ commands' = "none"
        /\ UNCHANGED <<heard, unheard, untold>>
    BY <1>7 DEF DestroyStep, Destroys, Releases
  <2>3. answering' \in BOOLEAN
    BY <2>2
  <2> QED BY <2>1, <2>2, <2>3 DEF managerVars
<1> QED BY <1>1, <1>2, <1>3, <1>4, <1>5, <1>6, <1>7, NextIs

-----------------------------------------------------------------------------
(* The options, and where main() is when they are made.                    *)

(* The module registry's options come first.                               *)
OptionsOK ==
  /\ options \in Options
  /\ Within(options.available, Block(ini))
  /\ options.visited <= Len(Visits(ini))
  /\ options.visited = 0 => given = << >>
  /\ options.visited > 0 => given # << >> /\ given[1].name = ini.registry.name

(* A module has none of this.                                              *)
ModuleOK ==
  ini.program = "module" =>
    /\ main \in ManagerPlaces \cup Over
    /\ options = Start(ini) /\ at = 1 /\ proxies = << >> /\ directory = "none"
    /\ listed = {}

OperatorOK ==
  ini.program = "operator" =>
    /\ main = "parsing" => at = 1 /\ proxies = << >>
    /\ main \notin Dead \cup {"parsing"} =>
         options.visited = Len(Visits(ini)) /\ DOMAIN proxies = DOMAIN given
    /\ main \in {"authenticators", "directory"} => at = 1
    /\ main \in {"launching", "listing", "halting"} => at <= Len(given)
    /\ main \in ManagerPlaces => at = Len(given) + 1
    /\ main \in {"closing", "halting"} => at >= 2
    /\ main \in {"parsing", "authenticators", "directory", "binding", "launching", "listing"}
         => directory = "none"

(* What a visit adds to the options.                                       *)
LEMMA ParsesAdds ==
  ASSUME ini \in Inis, OptionsOK, Parses,
         NEW visit, visit = Visits(ini)[options.visited + 1]
  PROVE  /\ visit \in VisitRecords
         /\ options.visited = 0 => visit = Visit("registry", ini.registry, TRUE)
         /\ options.visited + 1 <= Len(Visits(ini))
         /\ \/ UNCHANGED options /\ main' = "failed"
            \/ /\ ~visit.wanted
               /\ options' = [options EXCEPT !.visited = @ + 1]
               /\ main' = main
            \/ /\ visit.wanted /\ main' = main
               /\ Accepts(visit, options)
               /\ options' = addProxy(visit, options)
<1>2. /\ Visits(ini) \in Seq(VisitRecords) /\ Len(Visits(ini)) \in Nat
      /\ Visits(ini)[1] = Visit("registry", ini.registry, TRUE)
  BY VisitsBegin
<1>3. options.visited \in Nat /\ options.visited < Len(Visits(ini))
  BY DEF OptionsOK, Options, Parses
<1>4. visit \in VisitRecords
  <2>1. Len(Visits(ini)) \in Nat
    BY <1>2
  <2>2. options.visited + 1 \in 1 .. Len(Visits(ini))
    BY <1>3, <2>1
  <2> QED BY <1>2, <2>2
<1>5. ASSUME options.visited = 0 PROVE visit = Visit("registry", ini.registry, TRUE)
  <2>1. options.visited + 1 = 1
    BY <1>5
  <2> QED BY <1>2, <2>1
<1>6. options.visited + 1 <= Len(Visits(ini))
  <2>1. Len(Visits(ini)) \in Nat
    BY <1>2
  <2> QED BY <1>3, <2>1
<1>7. \/ UNCHANGED options /\ main' = "failed"
      \/ /\ ~visit.wanted
         /\ options' = [options EXCEPT !.visited = @ + 1]
         /\ main' = main
      \/ /\ visit.wanted /\ main' = main
         /\ Accepts(visit, options)
         /\ options' = addProxy(visit, options)
  BY DEF Parses
<1> QED BY <1>4, <1>5, <1>6, <1>7

LEMMA AddsProxy ==
  ASSUME NEW file \in Inis, NEW visit \in VisitRecords, NEW state \in Options,
         Within(state.available, Block(file)), Accepts(visit, state),
         NEW new, new = addProxy(visit, state)
  PROVE  \E pair, proxy :
           /\ pair = makeNewFrontendBackendAddress(visit.section, state) /\ pair.ok
           /\ proxy = [kind |-> visit.kind, name |-> visit.section.name,
                       front |-> pair.front, back |-> pair.back]
           /\ proxy \in Proxies /\ proxy.name = visit.section.name
           /\ proxy.kind = visit.kind
           /\ new.given = Append(state.given, proxy)
           /\ new.visited = state.visited + 1
           /\ new.used = state.used \cup {pair.front, pair.back}
           /\ new.available = pair.available
           /\ Within(new.available, Block(file)) /\ new \in Options
<1>1. PICK pair : pair = makeNewFrontendBackendAddress(visit.section, state)
  OBVIOUS
<1>2. pair.ok
  BY <1>1 DEF Accepts
<1>3. visit.section \in SectionRecords /\ visit.kind \in Kinds
  BY DEF VisitRecords
<1>4. /\ pair.front \in Addresses /\ pair.back \in Addresses
      /\ Within(pair.available, state.available)
      /\ pair.used = state.used \cup {pair.front, pair.back}
  BY <1>1, <1>2, <1>3, NextPair
<1>5. PICK proxy : proxy = [kind |-> visit.kind, name |-> visit.section.name,
                            front |-> pair.front, back |-> pair.back]
  OBVIOUS
<1>6. proxy \in Proxies /\ proxy.name = visit.section.name /\ proxy.kind = visit.kind
  BY <1>3, <1>4, <1>5 DEF Proxies, SectionRecords
<1>7. new = [available |-> pair.available, used |-> pair.used,
             given |-> Append(state.given, proxy), visited |-> state.visited + 1]
  BY <1>1, <1>5 DEF addProxy
<1>8. state.given \in Seq(Proxies) /\ state.used \in SUBSET Nat /\ state.visited \in Nat
  BY DEF Options
<1>9. Append(state.given, proxy) \in Seq(Proxies)
  BY <1>6, <1>8
<1>10. pair.available \in SUBSET Nat /\ Within(pair.available, Block(file))
  <2>1. state.available \in SUBSET Nat
    BY DEF Options
  <2> QED BY <1>4, <2>1 DEF Within
<1>11. pair.used \in SUBSET Nat
  BY <1>4, <1>8 DEF Addresses
<1>12. new \in Options
  BY <1>7, <1>8, <1>9, <1>10, <1>11 DEF Options
<1>13. /\ new.given = Append(state.given, proxy) /\ new.visited = state.visited + 1
       /\ new.used = pair.used /\ new.available = pair.available
  BY <1>7
<1> QED BY <1>1, <1>2, <1>4, <1>5, <1>6, <1>10, <1>12, <1>13

LEMMA ParsesOptions == ini \in Inis /\ OptionsOK /\ Parses => OptionsOK'
<1> SUFFICES ASSUME ini \in Inis, OptionsOK, Parses PROVE OptionsOK'
  OBVIOUS
<1>1. PICK visit : visit = Visits(ini)[options.visited + 1]
  OBVIOUS
<1>2. /\ visit \in VisitRecords
      /\ options.visited = 0 => visit = Visit("registry", ini.registry, TRUE)
      /\ options.visited + 1 <= Len(Visits(ini))
      /\ \/ UNCHANGED options /\ main' = "failed"
         \/ /\ ~visit.wanted
            /\ options' = [options EXCEPT !.visited = @ + 1]
            /\ main' = main
         \/ /\ visit.wanted /\ main' = main
            /\ Accepts(visit, options)
            /\ options' = addProxy(visit, options)
  BY <1>1, ParsesAdds
<1>3. /\ options \in Options /\ Within(options.available, Block(ini))
      /\ options.visited \in Nat /\ given \in Seq(Proxies) /\ ini' = ini
  BY DEF OptionsOK, Options, given, Parses
<1>4. CASE UNCHANGED options
  BY <1>3, <1>4 DEF OptionsOK, given
<1>5. CASE ~visit.wanted /\ options' = [options EXCEPT !.visited = @ + 1]
  <2>1. options.visited # 0
    BY <1>2, <1>5 DEF Visit
  <2>2. /\ options' \in Options /\ options'.visited = options.visited + 1
        /\ options'.available = options.available /\ options'.given = options.given
    BY <1>3, <1>5 DEF Options
  <2> QED BY <1>2, <1>3, <2>1, <2>2 DEF OptionsOK, given
<1>6. CASE Accepts(visit, options) /\ options' = addProxy(visit, options)
  <2>1. PICK pair, proxy :
          /\ proxy \in Proxies /\ proxy.name = visit.section.name
          /\ options'.given = Append(options.given, proxy)
          /\ options'.visited = options.visited + 1
          /\ Within(options'.available, Block(ini)) /\ options' \in Options
    BY <1>2, <1>3, <1>6, AddsProxy
  <2>2. given' = Append(given, proxy)
    BY <2>1 DEF given
  <2>3. given' # << >> /\ Len(given') = Len(given) + 1
        /\ (given # << >> => given'[1] = given[1])
    BY <1>3, <2>1, <2>2
  <2>4. given = << >> => given'[1] = proxy
    BY <1>3, <2>1, <2>2
  <2>5. given'[1].name = ini.registry.name
    BY <1>2, <1>3, <2>1, <2>3, <2>4 DEF OptionsOK, Visit
  <2> QED BY <1>2, <1>3, <2>1, <2>3, <2>5 DEF OptionsOK
<1> QED BY <1>2, <1>4, <1>5, <1>6

-----------------------------------------------------------------------------
(* The types of the operator's own.                                        *)

ProxyPlaces == {"none", "bound", "spawned", "up", "stopped"}

ProxiesTypeOK ==
  /\ DOMAIN proxies \in {{}, DOMAIN given}
  /\ \A i \in DOMAIN proxies : proxies[i] \in ProxyPlaces

HubTypeOK ==
  /\ main \in HubPlaces \cup ManagerPlaces \cup Over
  /\ ini \in Inis
  /\ at \in 1 .. (Len(given) + 1)
  /\ bound \subseteq Nat
  /\ directory \in {"none", "spawned", "serving", "reading", "left"}

PlacesInv ==
  HubTypeOK /\ ProxiesTypeOK /\ OptionsOK /\ ModuleOK /\ OperatorOK

LEMMA GivenIs ==
  OptionsOK => /\ given \in Seq(Proxies) /\ DOMAIN given = 1 .. Len(given)
               /\ Len(given) \in Nat
               /\ \A i \in DOMAIN given : given[i] \in Proxies
BY DEF OptionsOK, Options, given

LEMMA TypeOKIs ==
  TypeOK <=>
    /\ HubTypeOK /\ ProxiesTypeOK
    /\ options.available \cup options.used \subseteq Nat
    /\ \A i \in DOMAIN given : {given[i].front, given[i].back} \subseteq Nat \ {NoAddress}
    /\ HeartbeatTypeOK /\ ManagerTypeOK
BY Zenon DEF TypeOK, HubTypeOK, ProxiesTypeOK, ProxyPlaces

LEMMA OptionsTypes ==
  OptionsOK =>
    /\ options.available \cup options.used \subseteq Nat
    /\ \A i \in DOMAIN given : {given[i].front, given[i].back} \subseteq Nat \ {NoAddress}
BY GivenIs DEF OptionsOK, Options, Proxies, Addresses

(* main() is the operator's in the places that are not the manager's.      *)
LEMMA OperatorsPlace ==
  PlacesInv /\ main \in HubPlaces => ini.program = "operator"
BY IniAssumption DEF PlacesInv, HubTypeOK, ModuleOK, HubPlaces, ManagerPlaces, Over

LEMMA PlacesInit == Init => PlacesInv
<1> SUFFICES ASSUME Init PROVE PlacesInv
  OBVIOUS
<1>1. ini \in Inis /\ options = Start(ini) /\ at = 1 /\ proxies = << >> /\ bound = {}
      /\ directory = "none" /\ listed = {}
      /\ main = IF ini.program = "operator" THEN "parsing" ELSE "processes"
  BY DEF Init
<1>2. /\ ini.program \in {"operator", "module"}
      /\ ini.portStart \in Nat /\ ini.portEnd \in Nat
  BY <1>1, IniAssumption
<1>3. options = [available |-> (ini.portStart + 1) .. ini.portEnd, used |-> {},
                 given |-> << >>, visited |-> 0]
  BY <1>1 DEF Start
<1>4. /\ options.available = Block(ini) /\ options.visited = 0 /\ given = << >>
      /\ options.used = {}
  BY <1>3 DEF given, Block
<1>5. Block(ini) \in SUBSET Nat
  BY <1>2 DEF Block
<1>6. << >> \in Seq(Proxies) /\ {} \in SUBSET Nat /\ 0 \in Nat
  OBVIOUS
<1>7. options \in Options
  BY <1>3, <1>5, <1>6 DEF Options, Block
<1>9. Len(Visits(ini)) \in Nat
  BY <1>1, VisitsBegin
<1>10. OptionsOK
  BY <1>4, <1>7, <1>9 DEF OptionsOK, Within
<1>11. HubTypeOK
  BY <1>1, <1>2, <1>4 DEF HubTypeOK, HubPlaces, ManagerPlaces
<1>12. ProxiesTypeOK
  BY <1>1, <1>4 DEF ProxiesTypeOK
<1>13. ModuleOK
  BY <1>1, <1>2 DEF ModuleOK, ManagerPlaces
<1>14. OperatorOK
  BY <1>1, <1>2, <1>4 DEF OperatorOK, Dead, ManagerPlaces
<1> QED BY <1>10, <1>11, <1>12, <1>13, <1>14 DEF PlacesInv

(* Steps that leave the operator's own alone.                              *)
LEMMA PlacesKept ==
  PlacesInv /\ UNCHANGED hubVars /\ Passes => PlacesInv'
<1> SUFFICES ASSUME PlacesInv, UNCHANGED hubVars, Passes
             PROVE  PlacesInv'
  OBVIOUS
<1> USE DEF Passes
<1>1. UNCHANGED <<ini, options, at, proxies, bound, listed, directory>> /\ given' = given
  BY DEF hubVars, given
<1>2. ProxiesTypeOK' /\ OptionsOK'
  BY <1>1 DEF PlacesInv, ProxiesTypeOK, OptionsOK
<1>3. HubTypeOK'
  BY <1>1 DEF PlacesInv, HubTypeOK, HubPlaces, Dead, Over
<1>4. ModuleOK'
  BY <1>1 DEF PlacesInv, ModuleOK, ManagerPlaces, Dead, Over
<1>5. OperatorOK'
  BY <1>1 DEF PlacesInv, OperatorOK, Dead, ManagerPlaces
<1> QED BY <1>2, <1>3, <1>4, <1>5 DEF PlacesInv

LEMMA HubStepPlaces == PlacesInv /\ HubStep => PlacesInv'
<1> SUFFICES ASSUME PlacesInv, HubStep PROVE PlacesInv'
  OBVIOUS
<1>1. /\ HubTypeOK /\ ProxiesTypeOK /\ OptionsOK /\ ModuleOK /\ OperatorOK
      /\ ini \in Inis
  BY DEF PlacesInv, HubTypeOK
<1>2. /\ given \in Seq(Proxies) /\ DOMAIN given = 1 .. Len(given) /\ Len(given) \in Nat
      /\ \A i \in DOMAIN given : given[i] \in Proxies
  BY <1>1, GivenIs
<1>3. at \in 1 .. (Len(given) + 1)
  BY <1>1 DEF HubTypeOK
<1>4. ini.program \in {"operator", "module"} /\ ini.portStart \in Nat
  BY <1>1, IniAssumption
<1>5. CASE Parses
  <2>1. main = "parsing" /\ main' \in {"parsing", "failed"}
        /\ UNCHANGED <<ini, at, proxies, bound, listed, directory>>
    BY <1>5 DEF Parses
  <2>2. ini.program = "operator" /\ at = 1 /\ proxies = << >>
    BY <1>1, <2>1, OperatorsPlace DEF PlacesInv, HubPlaces, OperatorOK
  <2>3. OptionsOK'
    BY <1>1, <1>5, ParsesOptions
  <2>4. Len(given)' \in Nat
    BY <2>3, GivenIs
  <2>5. HubTypeOK' /\ ProxiesTypeOK'
    BY <1>1, <2>1, <2>2, <2>4 DEF HubTypeOK, ProxiesTypeOK, HubPlaces, Over
  <2>6. ModuleOK' /\ OperatorOK'
    BY <1>1, <2>1, <2>2 DEF ModuleOK, OperatorOK, Dead, ManagerPlaces
  <2> QED BY <2>3, <2>5, <2>6 DEF PlacesInv
<1>6. ASSUME UNCHANGED options
      PROVE  given' = given /\ Len(given)' = Len(given)
  BY <1>6 DEF given
<1>7. CASE HasParsed
  <2>1. main = "parsing" /\ main' = "authenticators"
        /\ UNCHANGED <<ini, options, at, bound, listed, directory>>
        /\ proxies' = [i \in DOMAIN given |-> "none"]
        /\ options.visited = Len(Visits(ini))
    BY <1>7 DEF HasParsed, MainGoes
  <2>2. ini.program = "operator" /\ at = 1 /\ directory = "none"
    BY <1>1, <2>1, OperatorsPlace DEF PlacesInv, HubPlaces, OperatorOK
  <2>3. given' = given
    BY <1>6, <2>1
  <2>4. OptionsOK'
    BY <1>1, <2>1, <2>3 DEF OptionsOK
  <2>5. HubTypeOK' /\ ProxiesTypeOK'
    BY <1>1, <2>1, <2>3 DEF HubTypeOK, ProxiesTypeOK, HubPlaces, ProxyPlaces
  <2>6. ModuleOK' /\ OperatorOK'
    BY <1>1, <2>1, <2>2, <2>3 DEF ModuleOK, OperatorOK, Dead, ManagerPlaces
  <2> QED BY <2>4, <2>5, <2>6 DEF PlacesInv
<1>8. ASSUME ~Parses, ~HasParsed
      PROVE  PlacesInv'
  <2>1. UNCHANGED <<ini, options>>
    BY <1>8 DEF HubStep, OpensUsers, InitializesDirectory, InitializesNext, LaunchesNext,
       ListsNext, OpensDirectory, StopsRegistry, UnlistsNext, HaltsNext, StopsDirectory,
       ProxyStep, ProxyRuns, DirectoryStep, DirectoryRuns, DirectoryAnswers,
       DirectoryAsked, DirectoryReads, DirectoryGoes, hubVars
  <2>2. given' = given
    BY <1>6, <2>1
  <2>3. OptionsOK'
    BY <1>1, <2>1, <2>2 DEF OptionsOK
  <2>4. \A i, x : x \in ProxyPlaces /\ proxies' = [proxies EXCEPT ![i] = x] =>
          ProxiesTypeOK' /\ DOMAIN proxies' = DOMAIN proxies
    BY <1>1, <2>2 DEF ProxiesTypeOK
  <2>5. proxies' = proxies => ProxiesTypeOK'
    BY <1>1, <2>2 DEF ProxiesTypeOK
  <2>6. CASE OpensUsers
    BY <1>1, <2>1, <2>2, <2>3, <2>5, <2>6
       DEF OpensUsers, MainGoes, hubVars, PlacesInv, HubTypeOK, ModuleOK, OperatorOK,
           HubPlaces, ManagerPlaces, Over, Dead
  <2>7. CASE InitializesDirectory
    <3>1. /\ main = "directory" /\ main' \in {"binding", "aborted"}
          /\ bound' \subseteq Nat
          /\ UNCHANGED <<ini, options, at, proxies, directory>>
      BY <1>1, <1>4, <2>7
         DEF InitializesDirectory, MainGoes, ClientAccessAddress, HubTypeOK
    <3>2. ini.program = "operator"
      BY <1>1, <3>1, OperatorsPlace DEF PlacesInv, HubPlaces
    <3> QED BY <1>1, <2>2, <2>3, <2>5, <3>1, <3>2
            DEF PlacesInv, HubTypeOK, ModuleOK, OperatorOK, HubPlaces, ManagerPlaces,
                Over, Dead
  <2>8. CASE InitializesNext
    <3>1. /\ main = "binding" /\ main' \in {"launching", "listing", "aborted"}
          /\ at <= Len(given)
          /\ UNCHANGED <<ini, options, at, directory>>
      BY <2>8, GoesOnMoves DEF InitializesNext
    <3>2. ini.program = "operator"
      BY <1>1, <3>1, OperatorsPlace DEF PlacesInv, HubPlaces
    <3>3. bound' \subseteq Nat
      <4>1. given[at].front \in Nat /\ given[at].back \in Nat
        BY <1>2, <1>3, <3>1 DEF Proxies, Addresses
      <4> QED BY <1>1, <2>8, <4>1 DEF InitializesNext, HubTypeOK
    <3>4. ProxiesTypeOK' /\ DOMAIN proxies' = DOMAIN proxies
      BY <2>4, <2>5, <2>8 DEF InitializesNext, ProxyPlaces
    <3> QED BY <1>1, <2>2, <2>3, <3>1, <3>2, <3>3, <3>4
            DEF PlacesInv, HubTypeOK, ModuleOK, OperatorOK, HubPlaces, ManagerPlaces,
                Over, Dead
  <2>9. CASE LaunchesNext
    <3>1. /\ main = "launching" /\ main' \in {"binding", "listing", "aborted", "hung"}
          /\ at' = at \/ at' = at + 1
          /\ main' = "listing" => at' = at
          /\ UNCHANGED <<ini, options, bound, directory>>
      BY <2>9, GoesOnMoves DEF LaunchesNext
    <3>2. ini.program = "operator" /\ at <= Len(given)
      BY <1>1, <3>1, OperatorsPlace DEF PlacesInv, HubPlaces, OperatorOK
    <3>3. ProxiesTypeOK' /\ DOMAIN proxies' = DOMAIN proxies
      BY <2>4, <2>5, <2>9 DEF LaunchesNext, ProxyPlaces
    <3>4. at' \in 1 .. (Len(given) + 1)
      BY <1>2, <1>3, <3>1, <3>2
    <3> QED BY <1>1, <2>2, <2>3, <3>1, <3>2, <3>3, <3>4
            DEF PlacesInv, HubTypeOK, ModuleOK, OperatorOK, HubPlaces, ManagerPlaces,
                Over, Dead
  <2>10. CASE ListsNext
    <3>1. /\ main = "listing" /\ main' \in {"binding", "launching", "aborted"}
          /\ at' = at \/ at' = at + 1
          /\ main' = "launching" => at' = at
          /\ UNCHANGED <<ini, options, proxies, bound, directory>>
      BY <2>10, GoesOnMoves DEF ListsNext
    <3>2. ini.program = "operator" /\ at <= Len(given)
      BY <1>1, <3>1, OperatorsPlace DEF PlacesInv, HubPlaces, OperatorOK
    <3>3. at' \in 1 .. (Len(given) + 1)
      BY <1>2, <1>3, <3>1, <3>2
    <3> QED BY <1>1, <2>2, <2>3, <2>5, <3>1, <3>2, <3>3
            DEF PlacesInv, HubTypeOK, ModuleOK, OperatorOK, HubPlaces, ManagerPlaces,
                Over, Dead
  <2>11. CASE OpensDirectory
    <3>1. /\ main = "binding" /\ main' = "processes" /\ directory' = "spawned"
          /\ at > Len(given) /\ UNCHANGED <<ini, options, at, proxies, bound>>
      BY <2>11 DEF OpensDirectory, MainGoes
    <3>2. ini.program = "operator" /\ at = Len(given) + 1
      BY <1>1, <1>2, <1>3, <3>1, OperatorsPlace DEF PlacesInv, HubPlaces
    <3> QED BY <1>1, <2>2, <2>3, <2>5, <3>1, <3>2
            DEF PlacesInv, HubTypeOK, ModuleOK, OperatorOK, HubPlaces, ManagerPlaces,
                Over, Dead
  <2>12. CASE StopsRegistry
    <3>1. main = "managed" /\ UNCHANGED <<ini, options, bound, listed, directory>>
      BY <2>12 DEF StopsRegistry
    <3>4. CASE main' = "hung"
      <4>1. UNCHANGED <<proxies, at>> /\ ini.program = "operator"
        BY <2>12, <3>4 DEF StopsRegistry
      <4> QED BY <1>1, <2>2, <2>3, <2>5, <3>1, <3>4, <4>1
              DEF PlacesInv, HubTypeOK, ModuleOK, OperatorOK, ManagerPlaces, Over, Dead
    <3>2. CASE ini.program = "operator" /\ main' # "hung"
      <4>1. main' = "closing" /\ proxies' = [proxies EXCEPT ![1] = "stopped"] /\ at' = 2
        BY <2>12, <3>2 DEF StopsRegistry
      <4>2. options.visited = Len(Visits(ini))
        BY <1>1, <3>1, <3>2 DEF OperatorOK, Dead
      <4>3. given # << >>
        BY <1>1, <4>2, VisitsBegin DEF OptionsOK
      <4>4. at' \in 1 .. (Len(given) + 1)
        BY <1>2, <4>1, <4>3
      <4>5. ProxiesTypeOK' /\ DOMAIN proxies' = DOMAIN proxies
        BY <2>4, <4>1 DEF ProxyPlaces
      <4> QED BY <1>1, <2>2, <2>3, <3>1, <3>2, <4>1, <4>4, <4>5
              DEF PlacesInv, HubTypeOK, ModuleOK, OperatorOK, HubPlaces, ManagerPlaces,
                  Over, Dead
    <3>3. CASE ini.program = "module"
      <4>1. main' = "left" /\ UNCHANGED <<proxies, at>>
        BY <2>12, <3>3 DEF StopsRegistry
      <4> QED BY <1>1, <2>2, <2>3, <2>5, <3>1, <3>3, <4>1
              DEF PlacesInv, HubTypeOK, ModuleOK, OperatorOK, Over
    <3> QED BY <1>4, <3>2, <3>3, <3>4
  <2>13. CASE UnlistsNext
    <3>1. /\ main = "closing" /\ main' \in {"halting", "aborted"} /\ at <= Len(given)
          /\ UNCHANGED <<ini, options, at, proxies, bound, directory>>
      BY <2>13 DEF UnlistsNext, MainGoes
    <3>2. ini.program = "operator"
      BY <1>1, <3>1, OperatorsPlace DEF PlacesInv, HubPlaces
    <3> QED BY <1>1, <2>2, <2>3, <2>5, <3>1, <3>2
            DEF PlacesInv, HubTypeOK, ModuleOK, OperatorOK, HubPlaces, ManagerPlaces,
                Over, Dead
  <2>14. CASE HaltsNext
    <3>1. /\ main = "halting" /\ main' \in {"closing", "hung"}
          /\ at' \in {at, at + 1}
          /\ UNCHANGED <<ini, options, bound, listed, directory>>
      BY <2>14 DEF HaltsNext, MainGoes
    <3>2. ini.program = "operator" /\ at <= Len(given) /\ at >= 2
      BY <1>1, <3>1, OperatorsPlace DEF PlacesInv, HubPlaces, OperatorOK
    <3>3. ProxiesTypeOK' /\ DOMAIN proxies' = DOMAIN proxies
      BY <2>4, <2>5, <2>14 DEF HaltsNext, ProxyPlaces
    <3>4. at' \in 1 .. (Len(given) + 1) /\ at' >= 2
      BY <1>2, <1>3, <3>1, <3>2
    <3> QED BY <1>1, <2>2, <2>3, <3>1, <3>2, <3>3, <3>4
            DEF PlacesInv, HubTypeOK, ModuleOK, OperatorOK, HubPlaces, ManagerPlaces,
                Over, Dead
  <2>15. CASE StopsDirectory
    <3>1. /\ main = "closing" /\ main' \in {"destroying", "hung"}
          /\ directory' \in {directory, "left"}
          /\ UNCHANGED <<ini, options, at, proxies, bound, listed>>
      BY <2>15 DEF StopsDirectory, MainGoes
    <3>2. ini.program = "operator"
      BY <1>1, <3>1, OperatorsPlace DEF PlacesInv, HubPlaces
    <3> QED BY <1>1, <2>2, <2>3, <2>5, <3>1, <3>2
            DEF PlacesInv, HubTypeOK, ModuleOK, OperatorOK, HubPlaces, ManagerPlaces,
                Over, Dead
  <2>16. CASE ProxyStep
    <3>1. PICK i \in DOMAIN proxies : ProxyRuns(i)
      BY <2>16 DEF ProxyStep
    <3>2. /\ UNCHANGED <<main, ini, options, at, bound, listed, directory>>
          /\ proxies' = [proxies EXCEPT ![i] = "up"] /\ proxies # << >>
      BY <3>1 DEF ProxyRuns
    <3>3. ProxiesTypeOK' /\ DOMAIN proxies' = DOMAIN proxies
      BY <2>4, <3>2 DEF ProxyPlaces
    <3> QED BY <1>1, <1>4, <2>2, <2>3, <3>2, <3>3
            DEF PlacesInv, HubTypeOK, ModuleOK, OperatorOK
  <2>17. CASE DirectoryStep \/ DirectoryAsked
    <3>1. /\ UNCHANGED <<main, ini, options, at, proxies, bound, listed>>
          /\ directory # "none" /\ directory' \in {"serving", "reading"}
      BY <2>17 DEF DirectoryStep, DirectoryAsked, DirectoryRuns, DirectoryAnswers,
                   DirectoryReads, DirectoryGoes
    <3> QED BY <1>1, <2>2, <2>3, <2>5, <3>1
            DEF PlacesInv, HubTypeOK, ModuleOK, OperatorOK
  <2> QED BY <1>8, <2>6, <2>7, <2>8, <2>9, <2>10, <2>11, <2>12, <2>13, <2>14, <2>15,
             <2>16, <2>17 DEF HubStep
<1> QED BY <1>5, <1>7, <1>8

LEMMA PlacesStep == PlacesInv /\ [Next]_vars => PlacesInv'
BY OthersPass, HubStepPlaces, PlacesKept

TypeInv == PlacesInv /\ HeartbeatTypeOK /\ ManagerTypeOK /\ NextOK

LEMMA TypeInductive == Spec => []TypeInv
<1>1. Init => TypeInv
  <2>1. ASSUME Init PROVE HeartbeatTypeOK
    <3>1. << >> \in Seq(1 .. MaxStatuses) /\ << >> \in Seq(Messages)
      OBVIOUS
    <3>2. HeartbeatInit
      BY <2>1 DEF Init
    <3>3. queue \in Seq(1 .. MaxStatuses) /\ wire \in Seq(Messages) /\ pushed \in 0 .. MaxStatuses
      BY <3>1, <3>2, StatusAssumption DEF HeartbeatInit
    <3> QED BY <3>2, <3>3 DEF HeartbeatInit, HeartbeatTypeOK, Messages
  <2>2. ASSUME Init PROVE ManagerTypeOK /\ NextOK
    <3>1. ManagerInit /\ main # "joining"
      BY <2>2 DEF Init
    <3>2. next \in 1 .. 3 /\ NextOK
      BY <3>1 DEF ManagerInit, NextOK
    <3>3. /\ managing = FALSE /\ stopRequested = FALSE /\ catching = FALSE
          /\ interrupted = FALSE /\ answering = FALSE /\ heard = FALSE /\ unheard = FALSE
          /\ untold = FALSE
      BY <3>1 DEF ManagerInit
    <3>4. managed = {} /\ watched = {} /\ commands = "none"
      BY <3>1 DEF ManagerInit
    <3> QED BY <3>2, <3>3, <3>4 DEF ManagerTypeOK
  <2> QED BY <2>1, <2>2, PlacesInit DEF TypeInv
<1>2. TypeInv /\ [Next]_vars => TypeInv'
  BY PlacesStep, HeartbeatSteps, HeartbeatTypes, ManagerTypes DEF TypeInv
<1> QED BY <1>1, <1>2, PTL DEF Spec

(* In every program every variable keeps its type: main() is somewhere in  *)
(* its text, its position is one of the proxies that were made or one past *)
(* them, addresses that were given out are some, queue and broadcast hold  *)
(* statuses that were pushed.                                              *)
THEOREM TypeInvariant == Spec => []TypeOK
<1>1. TypeInv => TypeOK
  BY TypeOKIs, OptionsTypes DEF TypeInv, PlacesInv
<1> QED BY <1>1, TypeInductive, PTL

-----------------------------------------------------------------------------
(* The heartbeat broadcast.                                                *)

StartPlaces ==
  {"parsing", "authenticators", "directory", "binding", "launching", "listing",
   "processes"}

EndPlaces == {"managed", "closing", "halting", "destroying", "releasing", "left"}

(* The threads of the heartbeat have not been started, run, or were joined.*)
Unstarted ==
  main \in StartPlaces \cup {"resetting"} \/ (main = "starting" /\ next = 1)

Underway ==
  \/ main \in {"installing", "looking", "waiting", "linking"}
  \/ main = "starting" /\ next # 1
  \/ main \in {"stopping", "joining"} /\ next = 1

Joined == main \in EndPlaces \/ (main \in {"stopping", "joining"} /\ next # 1)

Fresh ==
  /\ publisher = "none" /\ stamper = "none" /\ ~beating /\ owner = "idle"
  /\ wire = << >> /\ queue = << >> /\ pushed = 0

Told == wire # << >> /\ wire[Len(wire)] = Disconnected

BeatOK ==
  /\ Unstarted => Fresh
  /\ Underway => publisher # "none"
  /\ Joined => publisher = "none" /\ stamper = "none" /\ Told
  /\ main \in ManagerPlaces \ {"processes", "managed"} => "heartbeat" \in managed

(* What is on the broadcast and on the queue.                              *)
WireOK ==
  /\ publisher = "greeting" => wire = << >>
  /\ publisher \in {"checking", "popping", "parting", "left"} => wire # << >>
  /\ publisher = "left" => Told
  /\ \A i \in DOMAIN wire : wire[i].kind = "Alive" <=> i = 1
  /\ \A i \in DOMAIN wire :
       wire[i].kind = "Disconnected" => i = Len(wire) /\ publisher \in {"none", "left"}

QueueOK ==
  /\ \A i, j \in DOMAIN wire :
       i < j /\ wire[i].kind = "Status" /\ wire[j].kind = "Status"
         => wire[i].number < wire[j].number
  /\ \A i \in DOMAIN wire : wire[i].kind = "Status" => wire[i].number <= pushed
  /\ \A k \in DOMAIN queue : queue[k] <= pushed
  /\ \A k, l \in DOMAIN queue : k < l => queue[k] < queue[l]
  /\ \A i \in DOMAIN wire, k \in DOMAIN queue :
       wire[i].kind = "Status" => wire[i].number < queue[k]

LEMMA WireTypes ==
  HeartbeatTypeOK =>
    /\ wire \in Seq(Messages) /\ Len(wire) \in Nat /\ DOMAIN wire = 1 .. Len(wire)
    /\ \A i \in DOMAIN wire : wire[i] \in Messages
    /\ queue \in Seq(1 .. MaxStatuses) /\ Len(queue) \in Nat /\ DOMAIN queue = 1 .. Len(queue)
    /\ \A k \in DOMAIN queue : queue[k] \in Nat
    /\ pushed \in Nat /\ MaxStatuses \in Nat
<1> SUFFICES ASSUME HeartbeatTypeOK
             PROVE  /\ wire \in Seq(Messages) /\ Len(wire) \in Nat
                    /\ DOMAIN wire = 1 .. Len(wire)
                    /\ \A i \in DOMAIN wire : wire[i] \in Messages
                    /\ queue \in Seq(1 .. MaxStatuses) /\ Len(queue) \in Nat
                    /\ DOMAIN queue = 1 .. Len(queue)
                    /\ \A k \in DOMAIN queue : queue[k] \in Nat
                    /\ pushed \in Nat /\ MaxStatuses \in Nat
  OBVIOUS
<1>1. /\ wire \in Seq(Messages) /\ queue \in Seq(1 .. MaxStatuses)
      /\ pushed \in 0 .. MaxStatuses
  BY DEF HeartbeatTypeOK, Messages
<1>2. /\ Len(wire) \in Nat /\ DOMAIN wire = 1 .. Len(wire)
      /\ \A i \in DOMAIN wire : wire[i] \in Messages
  BY <1>1
<1>3. /\ Len(queue) \in Nat /\ DOMAIN queue = 1 .. Len(queue)
      /\ \A k \in DOMAIN queue : queue[k] \in Nat
  <2>1. PICK Numbers : Numbers = 1 .. MaxStatuses
    OBVIOUS
  <2>2. queue \in Seq(Numbers) /\ \A n \in Numbers : n \in Nat
    BY <1>1, <2>1
  <2>3. /\ Len(queue) \in Nat /\ DOMAIN queue = 1 .. Len(queue)
        /\ \A k \in DOMAIN queue : queue[k] \in Numbers
    BY <2>2
  <2> QED BY <2>2, <2>3
<1> QED BY <1>1, <1>2, <1>3, StatusAssumption

LEMMA MessageKinds ==
  \A m \in Messages :
    /\ m.kind \in {"Alive", "Disconnected", "Status"}
    /\ m.kind = "Alive" => m = Alive
    /\ m.kind = "Disconnected" => m = Disconnected
    /\ m.kind = "Status" => m.number \in 1 .. MaxStatuses
BY DEF Messages, Alive, Disconnected, Status

LEMMA AppendWire ==
  ASSUME HeartbeatTypeOK, NEW m \in Messages, wire' = Append(wire, m)
  PROVE  /\ wire' # << >> /\ Len(wire') = Len(wire) + 1
         /\ DOMAIN wire' = 1 .. (Len(wire) + 1)
         /\ \A i \in DOMAIN wire : wire'[i] = wire[i]
         /\ wire'[Len(wire) + 1] = m
<1>1. wire \in Seq(Messages) /\ Len(wire) \in Nat /\ DOMAIN wire = 1 .. Len(wire)
  BY WireTypes
<1>2. /\ Append(wire, m) \in Seq(Messages) /\ Append(wire, m) # << >>
      /\ Len(Append(wire, m)) = Len(wire) + 1
      /\ \A i \in 1 .. Len(wire) : Append(wire, m)[i] = wire[i]
      /\ Append(wire, m)[Len(wire) + 1] = m
  BY <1>1, AppendProperties
<1> QED BY <1>1, <1>2

(* The steps of the heartbeat's own threads and of its owner.              *)
OwnStep ==
  \/ PublisherStep \/ StamperStep
  \/ OwnerSetsStatus \/ OwnerSendsStatus \/ OwnerIsDone

LEMMA OwnSteps ==
  OwnStep =>
    /\ ~Fresh
    /\ publisher # "none" => publisher' # "none"
    /\ publisher = "none" /\ stamper = "none" =>
         publisher' = "none" /\ stamper' = "none" /\ wire' = wire
BY DEF OwnStep, PublisherStep, StamperStep, Greet, PublisherChecks, PublishNext, Part,
       Publishes, StamperChecks, StamperWakes, StamperPushes, Stamps, OwnerSetsStatus,
       OwnerSendsStatus, OwnerIsDone, Fresh

LEMMA WireStep ==
  HeartbeatTypeOK /\ WireOK /\ BeatOK /\ HeartbeatStep => WireOK'
<1> SUFFICES ASSUME HeartbeatTypeOK, WireOK, BeatOK, HeartbeatStep PROVE WireOK'
  OBVIOUS
<1>1. /\ wire \in Seq(Messages) /\ Len(wire) \in Nat /\ DOMAIN wire = 1 .. Len(wire)
      /\ \A i \in DOMAIN wire : wire[i] \in Messages
      /\ queue \in Seq(1 .. MaxStatuses)
  BY WireTypes
<1>2. /\ Alive \in Messages /\ Disconnected \in Messages
      /\ \A n \in 1 .. MaxStatuses : Status(n) \in Messages
      /\ Alive.kind = "Alive" /\ Disconnected.kind = "Disconnected"
      /\ \A n : Status(n).kind = "Status"
  BY DEF Messages, Alive, Disconnected, Status
<1>3. CASE Greet
  <2>1. /\ publisher = "greeting" /\ publisher' = "checking"
        /\ wire' = Append(wire, Alive) /\ wire = << >>
    BY <1>3 DEF Greet, Publishes, WireOK
  <2>2. wire' # << >> /\ DOMAIN wire' = {1} /\ wire'[1] = Alive
    BY <1>1, <1>2, <2>1, AppendWire
  <2> QED BY <1>2, <2>1, <2>2 DEF WireOK
<1>4. CASE PublisherChecks
  BY <1>4 DEF PublisherChecks, Publishes, WireOK
<1>5. CASE PublishNext /\ queue # << >>
  <2>1. /\ publisher = "popping" /\ publisher' = "checking"
        /\ wire' = Append(wire, Status(Head(queue)))
    BY <1>5 DEF PublishNext, Publishes
  <2>2. Status(Head(queue)) \in Messages
    BY <1>1, <1>2, <1>5, HeadTailProperties
  <2>3. wire # << >> /\ \A i \in DOMAIN wire : wire[i].kind # "Disconnected"
    BY <2>1 DEF WireOK
  <2>4. /\ wire' # << >> /\ DOMAIN wire' = 1 .. (Len(wire) + 1)
        /\ \A i \in DOMAIN wire : wire'[i] = wire[i]
        /\ wire'[Len(wire) + 1].kind = "Status"
    BY <1>2, <2>1, <2>2, AppendWire
  <2>5. Len(wire) + 1 # 1
    BY <1>1, <2>3
  <2>6. ASSUME NEW i \in DOMAIN wire'
        PROVE  /\ wire'[i].kind = "Alive" <=> i = 1
               /\ wire'[i].kind # "Disconnected"
    <3>1. CASE i \in DOMAIN wire
      BY <2>3, <2>4, <3>1 DEF WireOK
    <3>2. CASE i = Len(wire) + 1
      BY <2>4, <2>5, <3>2
    <3> QED BY <1>1, <2>4, <3>1, <3>2
  <2> QED BY <2>1, <2>4, <2>6 DEF WireOK
<1>6. CASE PublishNext /\ queue = << >>
  BY <1>6 DEF PublishNext, Publishes, WireOK, Told
<1>7. CASE Part
  <2>1. /\ publisher = "parting" /\ publisher' = "left"
        /\ wire' = Append(wire, Disconnected)
    BY <1>7 DEF Part, Publishes
  <2>2. wire # << >> /\ \A i \in DOMAIN wire : wire[i].kind # "Disconnected"
    BY <2>1 DEF WireOK
  <2>3. /\ wire' # << >> /\ DOMAIN wire' = 1 .. (Len(wire) + 1)
        /\ Len(wire') = Len(wire) + 1
        /\ \A i \in DOMAIN wire : wire'[i] = wire[i]
        /\ wire'[Len(wire) + 1] = Disconnected
    BY <1>2, <2>1, AppendWire
  <2>4. Len(wire) + 1 # 1
    BY <1>1, <2>2
  <2>5. ASSUME NEW i \in DOMAIN wire'
        PROVE  /\ wire'[i].kind = "Alive" <=> i = 1
               /\ wire'[i].kind = "Disconnected" => i = Len(wire')
    <3>1. CASE i \in DOMAIN wire
      BY <2>2, <2>3, <3>1 DEF WireOK
    <3>2. CASE i = Len(wire) + 1
      BY <1>2, <2>3, <2>4, <3>2
    <3> QED BY <1>1, <2>3, <3>1, <3>2
  <2>6. Told'
    BY <2>3 DEF Told
  <2> QED BY <2>1, <2>3, <2>5, <2>6 DEF WireOK
<1>8. CASE HeartbeatStarts /\ main = "starting" /\ next = 1
  <2>1. wire = << >> /\ wire' = wire /\ publisher' = "greeting"
    BY <1>8 DEF HeartbeatStarts, BeatOK, Unstarted, Fresh
  <2>2. DOMAIN wire' = {}
    BY <2>1
  <2> QED BY <2>1, <2>2 DEF WireOK
<1>9. CASE HeartbeatJoined
  BY <1>9 DEF HeartbeatJoined, WireOK, Told
<1>10. CASE UNCHANGED <<publisher, wire>>
  BY <1>10 DEF WireOK, Told
<1> QED BY <1>3, <1>4, <1>5, <1>6, <1>7, <1>8, <1>9, <1>10
        DEF HeartbeatStep, PublisherStep, StamperStep, StamperChecks, StamperWakes,
            StamperPushes, OwnerSetsStatus, OwnerSendsStatus, OwnerIsDone, HeartbeatStops,
            heartbeatVars

LEMMA QueueStep ==
  HeartbeatTypeOK /\ QueueOK /\ HeartbeatStep => QueueOK'
<1> SUFFICES ASSUME HeartbeatTypeOK, QueueOK, HeartbeatStep PROVE QueueOK'
  OBVIOUS
<1>1. /\ wire \in Seq(Messages) /\ Len(wire) \in Nat /\ DOMAIN wire = 1 .. Len(wire)
      /\ \A i \in DOMAIN wire : wire[i] \in Messages
      /\ queue \in Seq(1 .. MaxStatuses)
      /\ Len(queue) \in Nat /\ DOMAIN queue = 1 .. Len(queue)
      /\ \A k \in DOMAIN queue : queue[k] \in Nat
      /\ pushed \in Nat /\ MaxStatuses \in Nat
  BY WireTypes
<1>2. \A i \in DOMAIN wire : wire[i].kind = "Status" => wire[i].number \in Nat
  BY <1>1, MessageKinds
<1>3. CASE Greet \/ Part
  <2>1. PICK m \in {Alive, Disconnected} :
          wire' = Append(wire, m) /\ UNCHANGED <<queue, pushed>>
    BY <1>3 DEF Greet, Part
  <2>2. m \in Messages /\ m.kind # "Status"
    BY <2>1 DEF Messages, Alive, Disconnected
  <2>3. /\ DOMAIN wire' = 1 .. (Len(wire) + 1)
        /\ \A i \in DOMAIN wire : wire'[i] = wire[i]
        /\ wire'[Len(wire) + 1] = m
    BY <2>1, <2>2, AppendWire
  <2>4. \A i \in DOMAIN wire' : wire'[i].kind = "Status" => i \in DOMAIN wire /\ wire'[i] = wire[i]
    BY <1>1, <2>2, <2>3
  <2> QED BY <2>1, <2>4 DEF QueueOK
<1>4. CASE PublishNext /\ queue # << >>
  <2>1. /\ wire' = Append(wire, Status(Head(queue))) /\ queue' = Tail(queue)
        /\ pushed' = pushed
    BY <1>4 DEF PublishNext
  <2>2. /\ Head(queue) = queue[1] /\ 1 \in DOMAIN queue
        /\ Len(queue') = Len(queue) - 1 /\ DOMAIN queue' = 1 .. (Len(queue) - 1)
        /\ \A k \in DOMAIN queue' : queue'[k] = queue[k + 1] /\ k + 1 \in DOMAIN queue
    BY <1>1, <1>4, <2>1
  <2>3. PICK m : m = Status(Head(queue))
    OBVIOUS
  <2>4. m \in Messages /\ m.kind = "Status" /\ m.number = queue[1]
    <3>1. queue[1] \in 1 .. MaxStatuses
      BY <1>1, <2>2
    <3>2. m = Status(queue[1])
      BY <2>2, <2>3
    <3> QED BY <3>1, <3>2 DEF Messages, Status
  <2>5. /\ DOMAIN wire' = 1 .. (Len(wire) + 1)
        /\ \A i \in DOMAIN wire : wire'[i] = wire[i]
        /\ wire'[Len(wire) + 1] = m
    BY <2>1, <2>3, <2>4, AppendWire
  <2>6. \A i \in DOMAIN wire' :
          \/ i \in DOMAIN wire /\ wire'[i] = wire[i]
          \/ i = Len(wire) + 1 /\ wire'[i].number = queue[1]
    BY <1>1, <2>4, <2>5
  <2>7. \A i, j \in DOMAIN wire' :
          i < j /\ wire'[i].kind = "Status" /\ wire'[j].kind = "Status"
            => wire'[i].number < wire'[j].number
    <3> SUFFICES ASSUME NEW i \in DOMAIN wire', NEW j \in DOMAIN wire', i < j,
                        wire'[i].kind = "Status", wire'[j].kind = "Status"
                 PROVE  wire'[i].number < wire'[j].number
      OBVIOUS
    <3>1. i \in DOMAIN wire /\ wire'[i] = wire[i]
      BY <1>1, <2>5
    <3>2. CASE j \in DOMAIN wire /\ wire'[j] = wire[j]
      BY <3>1, <3>2 DEF QueueOK
    <3>3. CASE wire'[j].number = queue[1]
      BY <2>2, <3>1, <3>3 DEF QueueOK
    <3> QED BY <2>6, <3>2, <3>3
  <2>8. \A i \in DOMAIN wire' : wire'[i].kind = "Status" => wire'[i].number <= pushed'
    BY <2>1, <2>2, <2>6 DEF QueueOK
  <2>9. \A k \in DOMAIN queue' : queue'[k] <= pushed'
    BY <2>1, <2>2 DEF QueueOK
  <2>10. \A k, l \in DOMAIN queue' : k < l => queue'[k] < queue'[l]
    <3> SUFFICES ASSUME NEW k \in DOMAIN queue', NEW l \in DOMAIN queue', k < l
                 PROVE  queue'[k] < queue'[l]
      OBVIOUS
    <3>1. k + 1 < l + 1
      BY <1>1, <2>2
    <3> QED BY <2>2, <3>1 DEF QueueOK
  <2>11. \A i \in DOMAIN wire', k \in DOMAIN queue' :
           wire'[i].kind = "Status" => wire'[i].number < queue'[k]
    <3> SUFFICES ASSUME NEW i \in DOMAIN wire', NEW k \in DOMAIN queue',
                        wire'[i].kind = "Status"
                 PROVE  wire'[i].number < queue'[k]
      OBVIOUS
    <3>1. queue'[k] = queue[k + 1] /\ k + 1 \in DOMAIN queue /\ 1 < k + 1
      BY <1>1, <2>2
    <3>2. CASE i \in DOMAIN wire /\ wire'[i] = wire[i]
      BY <3>1, <3>2 DEF QueueOK
    <3>3. CASE wire'[i].number = queue[1]
      BY <2>2, <3>1, <3>3 DEF QueueOK
    <3> QED BY <2>6, <3>2, <3>3
  <2> QED BY <2>7, <2>8, <2>9, <2>10, <2>11 DEF QueueOK
<1>5. CASE UNCHANGED wire /\ PushOrBound
  <2>1. CASE pushed < MaxStatuses
    <3>1. pushed' = pushed + 1 /\ queue' = Append(queue, pushed')
      BY <1>5, <2>1 DEF PushOrBound
    <3>2. PICK n \in 1 .. MaxStatuses : n = pushed + 1
      BY <1>1, <2>1
    <3>3. /\ DOMAIN queue' = 1 .. (Len(queue) + 1)
          /\ \A k \in DOMAIN queue : queue'[k] = queue[k]
          /\ queue'[Len(queue) + 1] = pushed + 1
      <4>1. /\ Append(queue, n) \in Seq(1 .. MaxStatuses)
            /\ Len(Append(queue, n)) = Len(queue) + 1
            /\ \A k \in 1 .. Len(queue) : Append(queue, n)[k] = queue[k]
            /\ Append(queue, n)[Len(queue) + 1] = n
        BY <1>1, AppendProperties
      <4> QED BY <1>1, <3>1, <3>2, <4>1
    <3>4. \A k \in DOMAIN queue' :
            \/ k \in DOMAIN queue /\ queue'[k] = queue[k] /\ queue'[k] <= pushed
            \/ k = Len(queue) + 1 /\ queue'[k] = pushed + 1
      BY <1>1, <3>3 DEF QueueOK
    <3>5. \A k, l \in DOMAIN queue' : k < l => queue'[k] < queue'[l]
      <4> SUFFICES ASSUME NEW k \in DOMAIN queue', NEW l \in DOMAIN queue', k < l
                   PROVE  queue'[k] < queue'[l]
        OBVIOUS
      <4>1. k \in DOMAIN queue /\ queue'[k] = queue[k] /\ queue[k] <= pushed
        BY <1>1, <3>3 DEF QueueOK
      <4>2. CASE l \in DOMAIN queue /\ queue'[l] = queue[l]
        BY <4>1, <4>2 DEF QueueOK
      <4>3. CASE queue'[l] = pushed + 1
        BY <1>1, <4>1, <4>3
      <4> QED BY <3>4, <4>2, <4>3
    <3>6. \A i \in DOMAIN wire, k \in DOMAIN queue' :
            wire[i].kind = "Status" => wire[i].number < queue'[k]
      <4> SUFFICES ASSUME NEW i \in DOMAIN wire, NEW k \in DOMAIN queue',
                          wire[i].kind = "Status"
                   PROVE  wire[i].number < queue'[k]
        OBVIOUS
      <4>1. wire[i].number \in Nat /\ wire[i].number <= pushed
        BY <1>2 DEF QueueOK
      <4>2. CASE k \in DOMAIN queue /\ queue'[k] = queue[k]
        BY <4>2 DEF QueueOK
      <4>3. CASE queue'[k] = pushed + 1
        BY <1>1, <4>1, <4>3
      <4> QED BY <3>4, <4>2, <4>3
    <3>7. \A i \in DOMAIN wire : wire[i].kind = "Status" => wire[i].number <= pushed'
      BY <1>1, <1>2, <3>1 DEF QueueOK
    <3>8. \A k \in DOMAIN queue' : queue'[k] <= pushed'
      BY <1>1, <3>1, <3>4
    <3> QED BY <1>5, <3>5, <3>6, <3>7, <3>8 DEF QueueOK
  <2>2. CASE ~(pushed < MaxStatuses)
    BY <1>5, <2>2 DEF PushOrBound, QueueOK
  <2> QED BY <2>1, <2>2
<1>6. CASE UNCHANGED <<wire, queue, pushed>>
  BY <1>6 DEF QueueOK
<1> QED BY <1>3, <1>4, <1>5, <1>6
        DEF HeartbeatStep, PublisherStep, StamperStep, PublishNext, PublisherChecks,
            StamperChecks, StamperWakes, StamperPushes, OwnerSetsStatus, OwnerSendsStatus,
            OwnerIsDone, HeartbeatStarts, HeartbeatStops, HeartbeatJoined, heartbeatVars

-----------------------------------------------------------------------------
(* The heartbeat is started, told to leave and joined in step with main(). *)

LEMMA HubStepMoves ==
  HubStep =>
    \/ main' = main \/ main' \in {"aborted", "failed"}
    \/ main' = "hung" /\ main \notin {"joining", "releasing"} \cup Dead
    \/ main \in StartPlaces /\ main' \in StartPlaces
    \/ main \in EndPlaces \ {"releasing"} /\ main' \in EndPlaces \ {"left"}
    \/ main = "managed" /\ main' = "left" /\ ini.program = "module"
BY DEF HubStep, Parses, HasParsed, OpensUsers, InitializesDirectory, InitializesNext,
       LaunchesNext, ListsNext, OpensDirectory, StopsRegistry, UnlistsNext, HaltsNext,
       StopsDirectory, ProxyStep, ProxyRuns, DirectoryStep, DirectoryRuns,
       DirectoryAnswers, DirectoryAsked, DirectoryReads, DirectoryGoes, MainGoes,
       GoesOn, Following, StartPlaces, EndPlaces, Dead

(* Whatever leaves the heartbeat alone and main() in its part of the text. *)
LEMMA BeatKept ==
  /\ BeatOK
  /\ UNCHANGED <<heartbeatVars, next, managed>>
  /\ \/ main' = main \/ main' \in Dead \cup {"hung"}
     \/ main \in StartPlaces /\ main' \in StartPlaces
     \/ main \in EndPlaces /\ main' \in EndPlaces
  => BeatOK'
BY DEF BeatOK, Unstarted, Underway, Joined, Fresh, Told, StartPlaces, EndPlaces,
       ManagerPlaces, Dead, heartbeatVars

LEMMA BeatManager ==
  BeatOK /\ WireOK /\ NextOK /\ ManagerStep => BeatOK'
<1> SUFFICES ASSUME BeatOK, WireOK, NextOK, ManagerStep PROVE BeatOK'
  OBVIOUS
<1>0. next \in {1, 2, 3} /\ Len(Order) = 2
      /\ (next \in {1, 2} => (Order[next] = "heartbeat" <=> next = 1))
      /\ Order[1] = "heartbeat"
  BY DEF Order, NextOK
<1>1. CASE ManagerResets
  BY <1>1 DEF ManagerResets, MainGoes, BeatOK, Unstarted, Underway, Joined, Fresh, EndPlaces,
              ManagerPlaces, heartbeatVars, StartPlaces
<1>2. CASE StartsNext(ini.program = "module")
  <2>1. /\ main = "starting" /\ main' = "starting" /\ next \in {1, 2} /\ next' = next + 1
        /\ managed' = managed /\ "heartbeat" \in managed
    BY <1>0, <1>2 DEF StartsNext, MainGoes, BeatOK, ManagerPlaces
  <2>2. publisher' # "none"
    <3>1. CASE next = 1
      <4>1. Order[next] = "heartbeat"
        BY <1>0, <3>1
      <4> QED BY <1>2, <2>1, <4>1 DEF StartsNext, HeartbeatStarts
    <3>2. CASE next = 2
      <4>1. publisher # "none"
        BY <2>1, <3>2 DEF BeatOK, Underway
      <4>2. Order[next] # "heartbeat"
        BY <1>0, <3>2
      <4> QED BY <1>2, <4>1, <4>2 DEF StartsNext, CommandsStart, heartbeatVars
    <3> QED BY <2>1, <3>1, <3>2
  <2>3. next' # 1
    BY <2>1
  <2> QED BY <2>1, <2>2, <2>3
          DEF BeatOK, Unstarted, Underway, Joined, EndPlaces, ManagerPlaces, StartPlaces
<1>3. CASE ManagerRuns \/ InsertsLate \/ LinksLate \/ CatchesSignals \/ MainLooks \/ MainWakes
  <2>1. /\ \/ main = "starting" /\ next # 1
           \/ main \in {"installing", "linking", "looking", "waiting"}
        /\ \/ main' \in {"installing", "linking", "looking", "waiting", "aborted"}
           \/ main' = "stopping" /\ next' = 1
    <3>1. CASE InsertsLate
      BY <3>1, Zenon DEF InsertsLate, MainGoes
    <3>2. CASE ~InsertsLate
      BY <1>0, <1>3, <3>2 DEF ManagerRuns, LinksLate, CatchesSignals, MainLooks, MainWakes,
                              MainGoes
    <3> QED BY <3>1, <3>2
  <2>2. publisher' = publisher /\ managed \subseteq managed'
    BY <1>3 DEF ManagerRuns, InsertsLate, LinksLate, CatchesSignals, MainLooks, MainWakes,
                CommandsStart, heartbeatVars, managerVars
  <2>3. publisher # "none" /\ "heartbeat" \in managed
    BY <2>1 DEF BeatOK, Underway, ManagerPlaces
  <2> QED BY <2>1, <2>2, <2>3
          DEF BeatOK, Unstarted, Underway, Joined, EndPlaces, ManagerPlaces, StartPlaces
<1>7. CASE StopsCommands
  <2>1. /\ main = "stopping" /\ next = 2 /\ UNCHANGED <<managed, publisher, stamper, wire>>
        /\ \/ main' = "joining" /\ next' = 2
           \/ main' = "stopping" /\ next' = 3
    BY <1>0, <1>7 DEF StopsCommands, heartbeatVars
  <2> QED BY <2>1 DEF BeatOK, Unstarted, Underway, Joined, Told, EndPlaces, ManagerPlaces,
                      StartPlaces
<1>4. CASE StopsHeartbeat
  <2>1. /\ main = "stopping" /\ main' = "joining" /\ next \in {1, 2}
        /\ UNCHANGED <<next, managed, publisher, stamper, wire>>
    BY <1>0, <1>4 DEF StopsHeartbeat, MainGoes, HeartbeatStops, heartbeatVars, managerVars
  <2> QED BY <2>1 DEF BeatOK, Unstarted, Underway, Joined, Told, EndPlaces, ManagerPlaces,
                      StartPlaces
<1>5. CASE JoinsNext
  <2>1. /\ main = "joining" /\ main' = "stopping" /\ next \in {1, 2} /\ next' = next + 1
        /\ managed' = managed /\ wire' = wire
    BY <1>0, <1>5 DEF JoinsNext, MainGoes, HeartbeatJoined, heartbeatVars, NextOK
  <2>2. CASE next = 1
    <3>1. /\ publisher' = "none" /\ stamper' = "none" /\ publisher = "left"
      BY <1>0, <1>5, <2>1, <2>2 DEF JoinsNext, HeartbeatJoined, BeatOK, Underway
    <3>2. Told'
      BY <2>1, <3>1 DEF WireOK, Told
    <3>3. next' = 2
      BY <2>1, <2>2
    <3> QED BY <2>1, <3>1, <3>2, <3>3
            DEF BeatOK, Unstarted, Underway, Joined, EndPlaces, ManagerPlaces, StartPlaces
  <2>3. CASE next = 2
    <3>1. Order[next] # "heartbeat"
      BY <1>0, <2>3
    <3>2. UNCHANGED <<publisher, stamper>>
      BY <1>5, <3>1 DEF JoinsNext, heartbeatVars
    <3>3. Joined /\ next' = 3
      BY <2>1, <2>3 DEF Joined
    <3> QED BY <2>1, <3>2, <3>3
            DEF BeatOK, Unstarted, Underway, Joined, Told, EndPlaces, ManagerPlaces, StartPlaces
  <2> QED BY <2>1, <2>2, <2>3
<1>6. CASE ManagerStopped
  <2>1. /\ main = "stopping" /\ main' = "managed" /\ next = 3 /\ next' = next
        /\ UNCHANGED <<publisher, stamper, wire>>
    BY <1>0, <1>6 DEF ManagerStopped, MainGoes, heartbeatVars
  <2> QED BY <2>1 DEF BeatOK, Unstarted, Underway, Joined, Told, EndPlaces, ManagerPlaces,
                      StartPlaces
<1> QED BY <1>1, <1>2, <1>3, <1>4, <1>5, <1>6, <1>7 DEF ManagerStep

LEMMA BeatStep ==
  BeatOK /\ WireOK /\ NextOK /\ [Next]_vars => BeatOK'
<1> SUFFICES ASSUME BeatOK, WireOK, NextOK, [Next]_vars PROVE BeatOK'
  OBVIOUS
<1>1. ASSUME HubStep PROVE BeatOK'
  <2>1. UNCHANGED <<heartbeatVars, next, managed>>
    BY <1>1, HubStepKeeps DEF processVars, managerVars, commandVars
  <2> QED BY <1>1, <2>1, HubStepMoves, BeatKept DEF Dead, EndPlaces
<1>2. ASSUME CreatesProcesses PROVE BeatOK'
  BY <1>2 DEF CreatesProcesses, Processes, commandVars, heartbeatVars, BeatOK, Unstarted,
              Underway, Joined, Fresh, StartPlaces, EndPlaces, ManagerPlaces
<1>3. ASSUME ProcessStep PROVE BeatOK'
  <2>1. main' = main /\ UNCHANGED <<next, managed>>
    BY <1>3, ProcessStepKeeps
       DEF ProcessStep, CommandsStep, CommandsServe, IssuesStop, CommandsLeave, PublisherRuns,
           StamperRuns, OwnerBegins, OwnerEnds, AskedToStop, HeartbeatUnchanged, managerVars
  <2>3. OwnStep \/ UNCHANGED heartbeatVars
    BY <1>3 DEF ProcessStep, CommandsStep, CommandsServe, IssuesStop, CommandsLeave, PublisherRuns,
           StamperRuns, OwnerBegins, OwnerEnds, AskedToStop, OwnStep
  <2>4. CASE UNCHANGED heartbeatVars
    BY <2>1, <2>4 DEF BeatOK, Unstarted, Underway, Joined, Fresh, Told, heartbeatVars
  <2>5. CASE OwnStep
    BY <2>1, <2>5, OwnSteps DEF BeatOK, Unstarted, Underway, Joined, Told
  <2> QED BY <2>3, <2>4, <2>5
<1>4. ASSUME EndingStep PROVE BeatOK'
  <2>1. UNCHANGED <<heartbeatVars, next, managed>>
    BY <1>4 DEF EndingStep, Signalled, CopyCrashes, processVars, managerVars, commandVars
  <2> QED BY <1>4, <2>1, EndingStepMoves, BeatKept
<1>5. ASSUME UNCHANGED vars PROVE BeatOK'
  <2>1. UNCHANGED <<main, heartbeatVars, next, managed>>
    BY <1>5 DEF vars, processVars, managerVars, commandVars
  <2> QED BY <2>1, BeatKept
<1>6. ASSUME DestroyStep PROVE BeatOK'
  <2>1. UNCHANGED <<heartbeatVars, next, managed>>
    BY <1>6, DestroyStepMoves DEF managerVars
  <2>2. main' = "hung" \/ (main \in EndPlaces /\ main' \in EndPlaces)
    BY <1>6, DestroyStepMoves DEF EndPlaces
  <2> QED BY <2>1, <2>2, BeatKept
<1> QED BY <1>1, <1>2, <1>3, <1>4, <1>5, <1>6, NextIs, BeatManager

-----------------------------------------------------------------------------
(* The thread that answers commands.                                       *)

(* Whoever finds the flag of that thread not set finds no thread, or one   *)
(* that has not begun, but for the moment in which it is told and joined.  *)
FlagOK ==
  \/ commands \in {"none", "spawned"}
  \/ commands \in {"serving", "asking"} /\ answering
  \/ main = "joining" /\ next = 2
  \/ main \in Dead \cup {"releasing"}

(* It is gone once the processes are stopped, or was not told; it is gone  *)
(* for good when main() returns.  A module's sets its flag before it runs. *)
GoneOK ==
  /\ main \in EndPlaces \/ (main = "stopping" /\ next = 3) => commands = "none" \/ untold
  /\ main = "left" => commands = "none"
  /\ ini.program = "module" => commands # "spawned" /\ ~untold

CommandsOK == FlagOK /\ GoneOK

LEMMA CommandsManager ==
  CommandsOK /\ NextOK /\ ManagerStep => CommandsOK'
<1> SUFFICES ASSUME CommandsOK, NextOK, ManagerStep PROVE CommandsOK'
  OBVIOUS
<1> USE DEF CommandsOK, FlagOK, GoneOK
<1>0. /\ next \in {1, 2, 3} /\ Len(Order) = 2
      /\ (next \in {1, 2} => (Order[next] = "heartbeat" <=> next = 1))
      /\ Order[1] = "heartbeat" /\ Order[2] = "commands"
      /\ ini' = ini
  BY ManagerStepMoves DEF Order, NextOK, hubVars
<1>1. CASE \/ ManagerResets \/ ManagerRuns \/ LinksLate \/ CatchesSignals \/ MainLooks
           \/ MainWakes
  <2>1. /\ main \in {"resetting", "starting", "linking", "installing", "looking", "waiting"}
        /\ \/ main' \in {"starting", "installing", "looking", "waiting"}
           \/ main' = "stopping" /\ next' = 1
        /\ UNCHANGED commandVars
    BY <1>1 DEF ManagerResets, ManagerRuns, LinksLate, CatchesSignals, MainLooks, MainWakes,
                MainGoes
  <2> QED BY <1>0, <2>1 DEF commandVars, EndPlaces, Dead
<1>2. CASE StartsNext(ini.program = "module") \/ (ini.program = "module" /\ InsertsLate)
  <2>1. /\ main \in {"starting", "installing"}
        /\ main' \in {"starting", "linking", "aborted"}
        /\ CommandsStart(ini.program = "module") \/ UNCHANGED commandVars
    BY <1>2 DEF StartsNext, InsertsLate, MainGoes
  <2>2. CASE UNCHANGED commandVars
    BY <1>0, <2>1, <2>2 DEF commandVars, EndPlaces, Dead
  <2>3. CASE CommandsStart(ini.program = "module")
    <3>1. /\ untold' = untold
          /\ ini.program = "module" => commands' = "serving" /\ answering'
          /\ ini.program # "module" => commands' = "spawned"
      BY <2>3 DEF CommandsStart
    <3> QED BY <1>0, <2>1, <3>1 DEF EndPlaces, Dead
  <2> QED BY <2>1, <2>2, <2>3
<1>3. CASE StopsHeartbeat
  <2>1. /\ main = "stopping" /\ main' = "joining" /\ next \in {1, 2} /\ next' = next
        /\ UNCHANGED commandVars
    BY <1>0, <1>3 DEF StopsHeartbeat, MainGoes, managerVars
  <2> QED BY <1>0, <2>1 DEF commandVars, EndPlaces, Dead
<1>4. CASE StopsCommands
  <2>1. main = "stopping" /\ next = 2 /\ commands' = commands
    BY <1>0, <1>4 DEF StopsCommands
  <2>2. CASE answering
    <3>1. main' = "joining" /\ next' = 2 /\ untold' = untold
      BY <1>4, <2>1, <2>2 DEF StopsCommands
    <3> QED BY <1>0, <2>1, <3>1 DEF EndPlaces, Dead
  <2>3. CASE ~answering
    <3>1. main' = "stopping" /\ (untold' <=> commands = "spawned")
      BY <1>4, <2>1, <2>3 DEF StopsCommands
    <3>2. commands \in {"none", "spawned"}
      BY <2>1, <2>3 DEF Dead
    <3> QED BY <1>0, <2>1, <3>1, <3>2 DEF EndPlaces, Dead
  <2> QED BY <2>2, <2>3
<1>5. CASE JoinsNext
  <2>1. /\ main = "joining" /\ main' = "stopping" /\ next' = next + 1
        /\ untold' = untold /\ next \in {1, 2}
    BY <1>5 DEF JoinsNext, MainGoes, NextOK, commandVars
  <2>2. CASE next = 1
    <3>1. UNCHANGED commandVars /\ next' = 2
      BY <1>0, <1>5, <2>1, <2>2 DEF JoinsNext
    <3> QED BY <1>0, <2>1, <2>2, <3>1 DEF commandVars, EndPlaces, Dead
  <2>3. CASE next = 2
    <3>1. commands' = "none"
      BY <1>0, <1>5, <2>3 DEF JoinsNext
    <3> QED BY <1>0, <2>1, <3>1 DEF EndPlaces
  <2> QED BY <2>1, <2>2, <2>3
<1>6. CASE ManagerStopped
  <2>1. main = "stopping" /\ main' = "managed" /\ next = 3 /\ UNCHANGED commandVars
    BY <1>0, <1>6 DEF ManagerStopped, MainGoes
  <2> QED BY <1>0, <2>1 DEF commandVars, EndPlaces, Dead
<1> QED BY <1>1, <1>2, <1>3, <1>4, <1>5, <1>6 DEF ManagerStep

LEMMA CommandsInductive ==
  CommandsOK /\ NextOK /\ [Next]_vars => CommandsOK'
<1> SUFFICES ASSUME CommandsOK, NextOK, [Next]_vars PROVE CommandsOK'
  OBVIOUS
<1>1. ASSUME HubStep PROVE CommandsOK'
  <2>1. UNCHANGED <<commands, answering, untold, next>>
    BY <1>1, HubStepKeeps DEF processVars, managerVars, commandVars
  <2>2. ini' = ini
    BY <1>1 DEF HubStep, Parses, HasParsed, OpensUsers, InitializesDirectory,
       InitializesNext, LaunchesNext, ListsNext, OpensDirectory, StopsRegistry,
       UnlistsNext, HaltsNext, StopsDirectory, ProxyStep, ProxyRuns, DirectoryStep,
       DirectoryRuns, DirectoryAnswers, DirectoryAsked, DirectoryReads, DirectoryGoes,
       hubVars
  <2>3. FlagOK'
    <3>1. main \in {"joining", "releasing"} =>
            main' = main \/ main' \in {"aborted", "failed"}
      BY <1>1, HubStepMoves DEF StartPlaces, EndPlaces
    <3>2. main \in Dead => main' \in Dead
      BY <1>1, HubStepMoves DEF StartPlaces, EndPlaces, Dead
    <3> QED BY <2>1, <3>1, <3>2 DEF CommandsOK, FlagOK, Dead
  <2>4. GoneOK'
    <3>1. main' \in EndPlaces => main \in EndPlaces
      BY <1>1, HubStepMoves DEF StartPlaces, EndPlaces
    <3>2. main' = "stopping" => main = "stopping"
      BY <1>1, HubStepMoves DEF StartPlaces, EndPlaces
    <3>3. main' = "left" => main = "left" \/ (main = "managed" /\ ini.program = "module")
      BY <1>1, HubStepMoves DEF StartPlaces
    <3>4. main = "managed" => main \in EndPlaces
      BY DEF EndPlaces
    <3> QED BY <2>1, <2>2, <3>1, <3>2, <3>3, <3>4 DEF CommandsOK, GoneOK
  <2> QED BY <2>3, <2>4 DEF CommandsOK
<1>2. ASSUME CreatesProcesses PROVE CommandsOK'
  BY <1>2 DEF CreatesProcesses, commandVars, hubVars, CommandsOK, FlagOK, GoneOK, EndPlaces,
              Dead
<1>3. ASSUME ProcessStep PROVE CommandsOK'
  <2>1. main' = main /\ next' = next /\ ini' = ini
    BY <1>3, ProcessStepKeeps
       DEF ProcessStep, CommandsStep, CommandsServe, IssuesStop, CommandsLeave, PublisherRuns,
           StamperRuns, OwnerBegins, OwnerEnds, AskedToStop, HeartbeatUnchanged, managerVars,
           hubVars
  <2>2. CASE CommandsServe
    BY <2>1, <2>2 DEF CommandsServe, CommandsOK, FlagOK, GoneOK
  <2>3. CASE IssuesStop \/ AskedToStop
    BY <2>1, <2>3 DEF IssuesStop, AskedToStop, CommandsOK, FlagOK, GoneOK
  <2>4. CASE CommandsLeave
    BY <2>1, <2>4 DEF CommandsLeave, CommandsOK, FlagOK, GoneOK
  <2>5. CASE UNCHANGED commandVars
    BY <2>1, <2>5 DEF commandVars, CommandsOK, FlagOK, GoneOK
  <2> QED BY <1>3, <2>2, <2>3, <2>4, <2>5
          DEF ProcessStep, CommandsStep, PublisherRuns, StamperRuns, OwnerBegins, OwnerEnds,
              HeartbeatUnchanged
<1>4. ASSUME EndingStep PROVE CommandsOK'
  <2>1. UNCHANGED <<commands, answering, untold, next, ini>>
    BY <1>4 DEF EndingStep, Signalled, CopyCrashes, processVars, managerVars, commandVars,
                hubVars
  <2> QED BY <1>4, <2>1, EndingStepMoves DEF CommandsOK, FlagOK, GoneOK, EndPlaces, Dead
<1>5. ASSUME UNCHANGED vars PROVE CommandsOK'
  BY <1>5 DEF vars, processVars, managerVars, commandVars, hubVars, CommandsOK, FlagOK, GoneOK
<1>6. ASSUME DestroyStep PROVE CommandsOK'
  <2>1. /\ UNCHANGED <<ini, untold, next>>
        /\ \/ /\ main = "destroying" /\ commands' = commands
              /\ main' = IF commands = "spawned" THEN "hung" ELSE "releasing"
           \/ main' = "left" /\ commands' = "none"
    BY <1>6 DEF DestroyStep, Destroys, Releases, MainGoes, managerVars, hubVars
  <2> QED BY <2>1 DEF CommandsOK, FlagOK, GoneOK, EndPlaces, Dead
<1> QED BY <1>1, <1>2, <1>3, <1>4, <1>5, <1>6, NextIs, CommandsManager

HeartbeatInv == TypeInv /\ BeatOK /\ WireOK /\ QueueOK

LEMMA HeartbeatInvInvariant == Spec => []HeartbeatInv
<1>1. Init => BeatOK /\ WireOK /\ QueueOK
  <2> SUFFICES ASSUME Init PROVE BeatOK /\ WireOK /\ QueueOK
    OBVIOUS
  <2>1. HeartbeatInit /\ ManagerInit /\ main \in {"parsing", "processes"}
    BY DEF Init
  <2>2. wire = << >> /\ queue = << >> /\ DOMAIN wire = {} /\ DOMAIN queue = {}
    BY <2>1 DEF HeartbeatInit
  <2> QED BY <2>1, <2>2
          DEF HeartbeatInit, ManagerInit, BeatOK, WireOK, QueueOK, Unstarted, Underway, Joined,
              Fresh, StartPlaces, EndPlaces, ManagerPlaces
<1>2. /\ TypeInv /\ BeatOK /\ WireOK /\ QueueOK /\ [Next]_vars
      => BeatOK' /\ WireOK' /\ QueueOK'
  BY HeartbeatSteps, BeatStep, WireStep, QueueStep DEF TypeInv
<1> QED BY <1>1, <1>2, TypeInductive, PTL DEF Spec, HeartbeatInv

(* In every program, under any number of statuses and whenever it is asked *)
(* to stop, the heartbeat broadcast reads Alive, then statuses in the      *)
(* order in which they were pushed, none twice, then Disconnected and      *)
(* nothing more.                                                           *)
THEOREM WireGrammarInvariant == Spec => []WireGrammar
<1>1. HeartbeatInv => WireGrammar
  <2> SUFFICES ASSUME HeartbeatInv PROVE WireGrammar
    OBVIOUS
  <2> DEFINE Rank(m) == CASE m.kind = "Alive" -> 0
                          [] m.kind = "Status" -> m.number
                          [] OTHER -> MaxStatuses + 1
  <2>1. /\ wire \in Seq(Messages) /\ Len(wire) \in Nat /\ DOMAIN wire = 1 .. Len(wire)
        /\ \A i \in DOMAIN wire : wire[i] \in Messages
        /\ MaxStatuses \in Nat /\ WireOK /\ QueueOK
    BY WireTypes DEF HeartbeatInv, TypeInv
  <2>2. ASSUME wire # << >> PROVE Head(wire) = Alive
    <3>1. Head(wire) = wire[1] /\ 1 \in DOMAIN wire
      BY <2>1, <2>2
    <3> QED BY <2>1, <3>1, MessageKinds DEF WireOK
  <2>3. ASSUME NEW i \in DOMAIN wire, NEW j \in DOMAIN wire, i < j
        PROVE  Rank(wire[i]) < Rank(wire[j])
    <3>1. /\ wire[i].kind \in {"Alive", "Disconnected", "Status"}
          /\ wire[j].kind \in {"Alive", "Disconnected", "Status"}
          /\ wire[i].kind = "Status" => wire[i].number \in 1 .. MaxStatuses
          /\ wire[j].kind = "Status" => wire[j].number \in 1 .. MaxStatuses
      BY <2>1, MessageKinds
    <3>2. wire[i].kind # "Disconnected" /\ wire[j].kind # "Alive"
      BY <2>1, <2>3 DEF WireOK
    <3>3. /\ wire[i].kind = "Status" /\ wire[j].kind = "Status"
               => wire[i].number < wire[j].number
      BY <2>1, <2>3 DEF QueueOK
    <3>4. CASE wire[i].kind = "Alive"
      BY <2>1, <3>1, <3>2, <3>4
    <3>5. CASE wire[i].kind = "Status"
      BY <2>1, <3>1, <3>2, <3>3, <3>5
    <3> QED BY <3>1, <3>2, <3>4, <3>5
  <2> QED BY <2>2, <2>3 DEF WireGrammar
<1> QED BY <1>1, HeartbeatInvInvariant, PTL

-----------------------------------------------------------------------------
(* Who runs, and who is listed.                                            *)

Runs(i) == proxies[i] \in {"spawned", "up"}

StartedPlaces == {"binding", "launching"} \cup ManagerPlaces

DestroyPlaces == {"destroying", "releasing"}

(* The proxies before the one that main() is busy with run from start-up   *)
(* to shutdown, then those from it on.                                     *)
RunningOK ==
  ini.program = "operator" =>
    /\ main \in StartedPlaces \cup {"listing"} => \A i \in DOMAIN given : i < at => Runs(i)
    /\ main = "listing" /\ at # 1 => Runs(at)
    /\ main \in {"closing", "halting"} =>
         \A i \in DOMAIN given : IF i < at THEN proxies[i] = "stopped" ELSE Runs(i)
    /\ main \in DestroyPlaces \cup {"left"} =>
         directory = "left" /\ \A i \in DOMAIN given : proxies[i] = "stopped"

(* The list of connections is behind the proxies at start-up, and ahead of *)
(* them at shutdown; the module registry is listed before it runs and      *)
(* after.                                                                  *)
ListedOK ==
  ini.program = "operator" =>
    /\ main \in StartedPlaces \cup {"listing"} =>
         \A name \in listed \ {CIName, ini.registry.name} :
           \E i \in DOMAIN given : i < at /\ given[i].name = name
    /\ main = "closing" =>
         \A name \in listed \ {CIName, ini.registry.name} :
           \E i \in DOMAIN given : i >= at /\ given[i].name = name
    /\ main = "halting" =>
         \A name \in listed \ {CIName, ini.registry.name} :
           \E i \in DOMAIN given : i > at /\ given[i].name = name
    /\ main \in DestroyPlaces => listed \subseteq {CIName, ini.registry.name}
    /\ main = "hung" =>
         \A name \in listed \ {CIName, ini.registry.name} :
           \E i \in DOMAIN given : given[i].name = name /\ Runs(i)

ServedOK == RunningOK /\ ListedOK

LEMMA ServedKept ==
  ServedOK /\ UNCHANGED hubVars /\ Passes => ServedOK'
<1> SUFFICES ASSUME ServedOK, UNCHANGED hubVars, Passes
             PROVE  ServedOK'
  OBVIOUS
<1> USE DEF Passes, DestroyPlaces
<1>1. UNCHANGED <<ini, at, proxies, listed, directory, given>>
  BY DEF hubVars, given
<1>2. RunningOK'
  BY <1>1 DEF ServedOK, RunningOK, Runs, Dead, StartedPlaces, ManagerPlaces
<1>3. ListedOK'
  BY <1>1 DEF ServedOK, ListedOK, Runs, Dead, StartedPlaces, ManagerPlaces
<1> QED BY <1>2, <1>3 DEF ServedOK

LEMMA HubStepServed == PlacesInv /\ ServedOK /\ HubStep => ServedOK'
<1> SUFFICES ASSUME PlacesInv, ServedOK, HubStep PROVE ServedOK'
  OBVIOUS
<1> USE DEF StartedPlaces, ManagerPlaces, DestroyPlaces
<1>1. /\ ini \in Inis /\ OptionsOK /\ OperatorOK /\ RunningOK /\ ListedOK
      /\ DOMAIN given = 1 .. Len(given) /\ Len(given) \in Nat /\ at \in 1 .. (Len(given) + 1)
  BY GivenIs DEF PlacesInv, HubTypeOK, ServedOK
<1>2. ini.program \in {"operator", "module"}
  BY <1>1, IniAssumption
<1>3. CASE Parses
  BY <1>3 DEF Parses, ServedOK, RunningOK, ListedOK
<1>4. ASSUME ~Parses PROVE UNCHANGED <<ini, options, given>>
  BY <1>4 DEF HubStep, HasParsed, OpensUsers, InitializesDirectory, InitializesNext,
     LaunchesNext, ListsNext, OpensDirectory, StopsRegistry, UnlistsNext, HaltsNext,
     StopsDirectory, ProxyStep, ProxyRuns, DirectoryStep, DirectoryRuns, DirectoryAnswers,
     DirectoryAsked, DirectoryReads, DirectoryGoes, hubVars, given
<1>5. main \notin Dead \cup {"parsing"} /\ ini.program = "operator"
        => DOMAIN proxies = DOMAIN given
  BY <1>1 DEF OperatorOK
<1>6. CASE ~Parses /\ (HasParsed \/ OpensUsers)
  BY <1>6 DEF HasParsed, OpensUsers, MainGoes, ServedOK, RunningOK, ListedOK
<1>7. CASE ~Parses /\ InitializesDirectory
  <2>1. /\ main = "directory" /\ main' \in {"binding", "aborted"} /\ at' = at
        /\ listed' = {CIName}
    BY <1>7 DEF InitializesDirectory, MainGoes
  <2>2. ini.program = "operator" => at = 1
    BY <1>1, <2>1 DEF OperatorOK
  <2>3. ini.program = "operator" => \A i \in DOMAIN given : ~(i < at)
    BY <1>1, <2>2
  <2> QED BY <1>4, <1>7, <2>1, <2>3 DEF ServedOK, RunningOK, ListedOK
<1>8. CASE ~Parses /\ InitializesNext
  <2>1. /\ main = "binding" /\ main' \in {"launching", "listing", "aborted"}
        /\ main' = "listing" => at = 1
        /\ UNCHANGED <<ini, at, listed, given>> /\ at <= Len(given)
        /\ \/ proxies' = proxies \/ proxies' = [proxies EXCEPT ![at] = "bound"]
    BY <1>4, <1>8, GoesOnMoves DEF InitializesNext
  <2>2. ini.program = "operator" => \A i \in DOMAIN given : i < at => Runs(i)'
    BY <1>1, <1>5, <2>1 DEF RunningOK, Runs, Dead
  <2> QED BY <1>1, <2>1, <2>2 DEF ServedOK, RunningOK, ListedOK
<1>9. CASE ~Parses /\ LaunchesNext
  <2>1. /\ main = "launching" /\ UNCHANGED <<ini, listed, given>>
        /\ \/ main' \in {"aborted", "hung"} /\ UNCHANGED <<proxies, at>>
           \/ /\ main' = IF at = 1 THEN "binding" ELSE "listing"
              /\ at' = IF at = 1 THEN at + 1 ELSE at
              /\ proxies' = [proxies EXCEPT ![at] = "spawned"]
    BY <1>4, <1>9, GoesOnMoves DEF LaunchesNext
  <2>2. CASE ini.program = "operator" /\ main' \in {"aborted", "hung"}
    <3>1. \A name \in listed \ {CIName, ini.registry.name} :
            \E i \in DOMAIN given : given[i].name = name /\ Runs(i)'
      BY <1>1, <2>1, <2>2 DEF RunningOK, ListedOK, Runs
    <3> QED BY <2>1, <2>2, <3>1 DEF ServedOK, RunningOK, ListedOK
  <2>3. CASE ini.program = "operator" /\ main' \in {"binding", "listing"}
    <3>1. /\ proxies' = [proxies EXCEPT ![at] = "spawned"] /\ DOMAIN proxies = DOMAIN given
          /\ at \in DOMAIN given
      BY <1>1, <1>5, <2>1, <2>3 DEF OperatorOK, Dead
    <3>2. \A i \in DOMAIN given : i <= at => Runs(i)'
      BY <1>1, <2>1, <2>3, <3>1 DEF RunningOK, Runs
    <3>3. \A i \in DOMAIN given : i < at' => i <= at
      BY <1>1, <2>1, <2>3
    <3>4. \A i \in DOMAIN given : i < at => i < at'
      BY <1>1, <2>1, <2>3
    <3>5. RunningOK'
      <4>1. at' # 1 /\ main' = "listing" => at' = at
        BY <2>1, <2>3
      <4>2. at <= at
        BY <1>1
      <4> QED BY <2>1, <2>3, <3>1, <3>2, <3>3, <4>1, <4>2 DEF RunningOK, Runs
    <3>6. ListedOK'
      BY <1>1, <2>1, <2>3, <3>4 DEF ListedOK
    <3> QED BY <3>5, <3>6 DEF ServedOK
  <2>4. CASE ini.program # "operator"
    BY <2>1, <2>4 DEF ServedOK, RunningOK, ListedOK
  <2> QED BY <2>1, <2>2, <2>3, <2>4
<1>10. CASE ~Parses /\ ListsNext
  <2>1. /\ main = "listing" /\ UNCHANGED <<ini, proxies, given>>
        /\ \/ main' = "aborted"
           \/ /\ main' = IF at = 1 THEN "launching" ELSE "binding"
              /\ at' = IF at = 1 THEN at ELSE at + 1
              /\ listed' = listed \cup {given[at].name}
    BY <1>4, <1>10, GoesOnMoves DEF ListsNext
  <2>2. CASE ini.program = "operator" /\ main' # "aborted"
    <3>1. at \in DOMAIN given /\ given[1].name = ini.registry.name
      BY <1>1, <2>1, <2>2 DEF OperatorOK, OptionsOK, Options
    <3>2. at # 1 => \A i \in DOMAIN given : i < at' <=> i <= at
      BY <1>1, <2>1, <2>2
    <3>3. \A i \in DOMAIN given : i < at' => Runs(i)'
      BY <1>1, <2>1, <2>2, <3>2 DEF RunningOK, Runs
    <3>4. \A name \in listed' \ {CIName, ini.registry.name} :
            \E i \in DOMAIN given : i < at' /\ given[i].name = name
      BY <1>1, <2>1, <2>2, <3>1, <3>2 DEF ListedOK
    <3> QED BY <2>1, <2>2, <3>3, <3>4 DEF ServedOK, RunningOK, ListedOK
  <2>3. CASE ini.program # "operator" \/ main' = "aborted"
    BY <2>1, <2>3 DEF ServedOK, RunningOK, ListedOK
  <2> QED BY <2>2, <2>3
<1>11. CASE ~Parses /\ OpensDirectory
  BY <1>1, <1>4, <1>11 DEF OpensDirectory, MainGoes, ServedOK, RunningOK, ListedOK, Runs
<1>12. CASE ~Parses /\ StopsRegistry
  <2>1. CASE ini.program = "module"
    <3>1. ini'.program # "operator"
      BY <1>4, <1>12, <2>1
    <3> QED BY <3>1 DEF ServedOK, RunningOK, ListedOK
  <2>3. CASE ini.program = "operator" /\ main' = "hung"
    <3>1. main = "managed" /\ UNCHANGED <<ini, proxies, at, listed, given>>
      BY <1>4, <1>12, <2>3 DEF StopsRegistry
    <3>2. \A name \in listed \ {CIName, ini.registry.name} :
            \E i \in DOMAIN given : given[i].name = name /\ Runs(i)'
      BY <1>1, <2>3, <3>1 DEF RunningOK, ListedOK, Runs
    <3> QED BY <2>3, <3>1, <3>2 DEF ServedOK, RunningOK, ListedOK
  <2>2. CASE ini.program = "operator" /\ main' # "hung"
    <3>1. /\ main = "managed" /\ main' = "closing" /\ at' = 2
          /\ proxies' = [proxies EXCEPT ![1] = "stopped"]
          /\ UNCHANGED <<ini, listed, given>>
      BY <1>4, <1>12, <2>2 DEF StopsRegistry
    <3>2. at = Len(given) + 1 /\ DOMAIN proxies = DOMAIN given
      BY <1>1, <1>5, <2>2, <3>1 DEF OperatorOK, Dead
    <3>3. \A i \in DOMAIN given : Runs(i)
      BY <1>1, <2>2, <3>1, <3>2 DEF RunningOK
    <3>4. \A i \in DOMAIN given : IF i < 2 THEN proxies'[i] = "stopped" ELSE Runs(i)'
      BY <1>1, <3>1, <3>2, <3>3 DEF Runs
    <3>5. given # << >> => given[1].name = ini.registry.name
      BY <1>1 DEF OptionsOK, Options
    <3>6. ASSUME NEW name \in listed \ {CIName, ini.registry.name}
          PROVE  \E i \in DOMAIN given : i >= 2 /\ given[i].name = name
      <4>1. PICK i \in DOMAIN given : given[i].name = name
        BY <1>1, <2>2, <3>1 DEF ListedOK
      <4>2. i # 1
        BY <1>1, <3>5, <3>6, <4>1
      <4> QED BY <1>1, <4>1, <4>2
    <3> QED BY <3>1, <3>4, <3>6 DEF ServedOK, RunningOK, ListedOK
  <2> QED BY <1>2, <2>1, <2>2, <2>3
<1>13. CASE ~Parses /\ UnlistsNext
  <2>1. /\ main = "closing" /\ main' \in {"halting", "aborted"}
        /\ UNCHANGED <<ini, at, proxies, given>>
        /\ main' = "halting" => listed' = listed \ {given[at].name}
    BY <1>4, <1>13 DEF UnlistsNext, MainGoes
  <2>2. ASSUME ini.program = "operator", main' = "halting",
               NEW name \in listed' \ {CIName, ini.registry.name}
        PROVE  \E i \in DOMAIN given : i > at /\ given[i].name = name
    <3>1. PICK i \in DOMAIN given : i >= at /\ given[i].name = name
      BY <1>1, <2>1, <2>2 DEF ListedOK
    <3>2. i # at
      BY <2>1, <2>2, <3>1
    <3> QED BY <1>1, <3>1, <3>2
  <2> QED BY <1>1, <2>1, <2>2 DEF ServedOK, RunningOK, ListedOK, Runs
<1>14. CASE ~Parses /\ HaltsNext
  <2>1. /\ main = "halting" /\ UNCHANGED <<ini, listed, given>>
        /\ \/ /\ main' = "closing" /\ at' = at + 1
              /\ proxies' = [proxies EXCEPT ![at] = "stopped"]
           \/ main' = "hung" /\ UNCHANGED <<at, proxies>>
    BY <1>4, <1>14 DEF HaltsNext, MainGoes
  <2>2. CASE ini.program = "operator" /\ main' = "closing"
    <3>1. at \in DOMAIN given /\ DOMAIN proxies = DOMAIN given
      BY <1>1, <1>5, <2>1, <2>2 DEF OperatorOK, Dead
    <3>2. \A i \in DOMAIN given : (i < at + 1 <=> i <= at) /\ (i >= at + 1 <=> i > at)
      BY <1>1
    <3>3. \A i \in DOMAIN given : IF i < at' THEN proxies'[i] = "stopped" ELSE Runs(i)'
      BY <1>1, <2>1, <2>2, <3>1, <3>2 DEF RunningOK, Runs
    <3>4. \A name \in listed \ {CIName, ini.registry.name} :
            \E i \in DOMAIN given : i >= at' /\ given[i].name = name
      BY <1>1, <2>1, <2>2, <3>2 DEF ListedOK
    <3> QED BY <2>1, <2>2, <3>3, <3>4 DEF ServedOK, RunningOK, ListedOK
  <2>3. CASE ini.program = "operator" /\ main' = "hung"
    <3>1. ASSUME NEW name \in listed \ {CIName, ini.registry.name}
          PROVE  \E i \in DOMAIN given : given[i].name = name /\ Runs(i)'
      <4>1. PICK i \in DOMAIN given : i > at /\ given[i].name = name
        BY <1>1, <2>1, <2>3 DEF ListedOK
      <4>2. Runs(i)
        BY <1>1, <2>1, <2>3, <4>1 DEF RunningOK
      <4> QED BY <2>1, <2>3, <4>1, <4>2 DEF Runs
    <3> QED BY <2>1, <2>3, <3>1 DEF ServedOK, RunningOK, ListedOK
  <2>4. CASE ini.program # "operator"
    BY <2>1, <2>4 DEF ServedOK, RunningOK, ListedOK
  <2> QED BY <2>1, <2>2, <2>3, <2>4
<1>15. CASE ~Parses /\ StopsDirectory
  <2>1. /\ main = "closing" /\ at > Len(given)
        /\ UNCHANGED <<ini, at, proxies, listed, given>>
        /\ (main' = "destroying" /\ directory' = "left") \/ main' = "hung"
    BY <1>4, <1>15 DEF StopsDirectory, MainGoes
  <2>2. \A i \in DOMAIN given : i < at /\ ~(i >= at)
    BY <1>1, <2>1
  <2> QED BY <1>1, <2>1, <2>2 DEF ServedOK, RunningOK, ListedOK
<1>16. CASE ~Parses /\ ProxyStep
  <2>1. PICK i \in DOMAIN proxies : ProxyRuns(i)
    BY <1>16 DEF ProxyStep
  <2>2. /\ UNCHANGED <<main, ini, at, listed, directory, given>>
        /\ proxies[i] = "spawned" /\ proxies' = [proxies EXCEPT ![i] = "up"]
    BY <1>4, <1>16, <2>1 DEF ProxyRuns
  <2>3. \A j : proxies[j] = "stopped" => proxies'[j] = "stopped"
    BY <2>2
  <2>4. \A j : Runs(j) => Runs(j)'
    BY <2>2 DEF Runs
  <2>5. RunningOK'
    BY <1>1, <2>2, <2>3, <2>4 DEF RunningOK
  <2>6. ListedOK'
    BY <1>1, <2>2, <2>4 DEF ListedOK
  <2> QED BY <2>5, <2>6 DEF ServedOK
<1>17. CASE ~Parses /\ (DirectoryStep \/ DirectoryAsked)
  <2>1. /\ UNCHANGED <<main, ini, at, proxies, listed, given>>
        /\ directory \in {"spawned", "serving", "reading"}
    BY <1>4, <1>17 DEF DirectoryStep, DirectoryAsked, DirectoryRuns, DirectoryAnswers,
                       DirectoryReads, DirectoryGoes
  <2> QED BY <1>1, <2>1 DEF ServedOK, RunningOK, ListedOK, Runs
<1> QED BY <1>3, <1>6, <1>7, <1>8, <1>9, <1>10, <1>11, <1>12, <1>13, <1>14, <1>15, <1>16,
           <1>17 DEF HubStep

LEMMA ServedStep == PlacesInv /\ ServedOK /\ [Next]_vars => ServedOK'
BY OthersPass, HubStepServed, ServedKept

LEMMA ServedInvariant == Spec => []ServedOK
<1>1. Init => ServedOK
  BY DEF Init, ServedOK, RunningOK, ListedOK, StartedPlaces, ManagerPlaces, DestroyPlaces
<1>2. TypeInv /\ ServedOK /\ [Next]_vars => ServedOK'
  BY ServedStep DEF TypeInv
<1> QED BY <1>1, <1>2, TypeInductive, PTL DEF Spec

(* Whenever a client may read the list of connections, at start-up, while  *)
(* the processes run or at shutdown, every name in it but those of the     *)
(* registry and of the service itself is a proxy's whose thread runs.      *)
THEOREM ListedIsServedInvariant == Spec => []ListedIsServed
<1>1. TypeInv /\ ServedOK => ListedIsServed
  <2> SUFFICES ASSUME TypeInv, ServedOK, Lives, directory \in {"serving", "reading"},
                      NEW name \in listed \ {CIName, ini.registry.name}
               PROVE  \E i \in DOMAIN given : given[i].name = name /\ Runs(i)
    BY DEF ListedIsServed, Runs
  <2>1. /\ ini.program \in {"operator", "module"} /\ ModuleOK /\ OperatorOK
        /\ RunningOK /\ ListedOK
        /\ main \in HubPlaces \cup ManagerPlaces \cup Over
        /\ DOMAIN given = 1 .. Len(given) /\ Len(given) \in Nat /\ at \in Nat
    BY IniAssumption, GivenIs DEF TypeInv, PlacesInv, HubTypeOK, ServedOK
  <2>2. ini.program = "operator"
    BY <2>1 DEF ModuleOK
  <2>3. CASE main \in StartedPlaces \cup {"listing"}
    <3>1. PICK i \in DOMAIN given : i < at /\ given[i].name = name
      BY <2>1, <2>2, <2>3 DEF ListedOK
    <3> QED BY <2>1, <2>2, <2>3, <3>1 DEF RunningOK
  <2>4. CASE main \in {"closing", "halting"}
    <3>1. PICK i \in DOMAIN given : i >= at /\ given[i].name = name
      BY <2>1, <2>2, <2>4 DEF ListedOK
    <3>2. ~(i < at)
      BY <2>1, <3>1
    <3> QED BY <2>1, <2>2, <2>4, <3>1, <3>2 DEF RunningOK
  <2>5. CASE main = "hung"
    BY <2>1, <2>2, <2>5 DEF ListedOK
  <2>6. CASE main \in DestroyPlaces \cup {"left"}
    BY <2>1, <2>2, <2>6 DEF RunningOK
  <2>7. CASE main \in {"parsing", "authenticators", "directory"}
    BY <2>1, <2>2, <2>7 DEF OperatorOK
  <2> QED BY <2>1, <2>3, <2>4, <2>5, <2>6, <2>7
          DEF HubPlaces, Over, Lives, StartedPlaces, DestroyPlaces
<1> QED BY <1>1, TypeInductive, ServedInvariant, PTL

LEMMA CommandsInvariant == Spec => []CommandsOK
<1>1. Init => CommandsOK
  BY DEF Init, ManagerInit, CommandsOK, FlagOK, GoneOK, EndPlaces
<1>2. TypeInv /\ CommandsOK /\ [Next]_vars => CommandsOK'
  BY CommandsInductive DEF TypeInv
<1> QED BY <1>1, <1>2, TypeInductive, PTL DEF Spec

(* In the operator and in every module, whenever the program is asked to   *)
(* stop: once the processes are stopped the heartbeat's threads are gone,  *)
(* "Disconnected" was their last word, and the thread that answers         *)
(* commands is gone unless its flag was not set when it should have been   *)
(* told; and when main() has come to its end no thread of the program is   *)
(* left at all.                                                            *)
THEOREM NothingOutlivesInvariant == Spec => []NothingOutlives
<1>1. HeartbeatInv /\ ServedOK /\ CommandsOK => NothingOutlives
  <2> SUFFICES ASSUME HeartbeatInv, ServedOK, CommandsOK PROVE NothingOutlives
    OBVIOUS
  <2>1. /\ ini.program \in {"operator", "module"} /\ ModuleOK /\ OperatorOK
        /\ RunningOK /\ BeatOK
    BY IniAssumption DEF HeartbeatInv, TypeInv, PlacesInv, HubTypeOK, ServedOK
  <2>2. ASSUME main \in EndPlaces
        PROVE  /\ publisher = "none" /\ stamper = "none"
               /\ wire # << >> /\ Last(wire) = Disconnected
               /\ commands = "none" \/ untold
    BY <2>1, <2>2 DEF BeatOK, Joined, Told, Last, CommandsOK, GoneOK
  <2>3. ASSUME main = "left"
        PROVE  /\ directory \notin {"spawned", "serving", "reading"}
               /\ \A i \in DOMAIN proxies : proxies[i] = "stopped"
    <3>1. CASE ini.program = "operator"
      <4>1. DOMAIN proxies = DOMAIN given
        BY <2>1, <2>3, <3>1 DEF OperatorOK, Dead
      <4> QED BY <2>1, <2>3, <3>1, <4>1 DEF RunningOK
    <3>2. CASE ini.program = "module"
      BY <2>1, <3>2 DEF ModuleOK
    <3> QED BY <2>1, <3>1, <3>2
  <2>4. main = "left" => commands = "none"
    BY DEF CommandsOK, GoneOK
  <2> QED BY <2>2, <2>3, <2>4 DEF NothingOutlives, EndPlaces
<1> QED BY <1>1, HeartbeatInvInvariant, ServedInvariant, CommandsInvariant, PTL

-----------------------------------------------------------------------------
(* A file's proposals, and the ports that are left for the operator.       *)

SectionOf(visit, file) == visit.section \in Sections(file)

LEMMA VisitsName ==
  ASSUME NEW file \in Inis, NEW v \in 1 .. Len(Visits(file))
  PROVE  SectionOf(Visits(file)[v], file)
<1> DEFINE head == <<file.registry>>
<1>1. /\ file.registry \in SectionRecords
      /\ file.broadcasts \in Seq(SectionRecords) /\ file.services \in Seq(SectionRecords)
  BY IniAssumption DEF SectionRecords
<1>2. PICK b, s : b = Len(file.broadcasts) /\ s = Len(file.services)
  OBVIOUS
<1>3. VisitsOf(file, b, s)
  BY <1>2, VisitsAre
<1>4. head \in Seq(SectionRecords) /\ Len(head) = 1 /\ head[1] = file.registry
  BY <1>1
<1> HIDE DEF head
<1>5. PICK two : two = head \o file.broadcasts
  OBVIOUS
<1>6. b \in Nat /\ s \in Nat
  BY <1>3 DEF VisitsOf
<1>7. /\ two \in Seq(SectionRecords) /\ Len(two) = 1 + b
      /\ \A i \in 1 .. 1 + b : two[i] = IF i <= 1 THEN head[i] ELSE file.broadcasts[i - 1]
  <2>1. /\ head \o file.broadcasts \in Seq(SectionRecords)
        /\ Len(head \o file.broadcasts) = Len(head) + Len(file.broadcasts)
        /\ \A i \in 1 .. Len(head) + Len(file.broadcasts) : (head \o file.broadcasts)[i] =
             IF i <= Len(head) THEN head[i] ELSE file.broadcasts[i - Len(head)]
    BY <1>1, <1>4, ConcatProperties
  <2> QED BY <1>2, <1>4, <1>5, <2>1
<1>8. PICK all : all = two \o file.services
  OBVIOUS
<1>9. /\ all \in Seq(SectionRecords) /\ Len(all) = 1 + b + s
      /\ \A i \in 1 .. 1 + b + s :
           all[i] = IF i <= 1 + b THEN two[i] ELSE file.services[i - (1 + b)]
  <2>1. /\ two \o file.services \in Seq(SectionRecords)
        /\ Len(two \o file.services) = Len(two) + Len(file.services)
        /\ \A i \in 1 .. Len(two) + Len(file.services) : (two \o file.services)[i] =
             IF i <= Len(two) THEN two[i] ELSE file.services[i - Len(two)]
    <3>1. two \in Seq(SectionRecords)
      BY <1>7
    <3> QED BY <1>1, <3>1, ConcatProperties
  <2> QED BY <1>2, <1>7, <1>8, <2>1
<1>10. Sections(file) = {all[i] : i \in 1 .. 1 + b + s}
  <2>1. Sections(file) = {all[i] : i \in DOMAIN all}
    BY <1>5, <1>8 DEF Sections, ToSet, head
  <2>2. DOMAIN all = 1 .. Len(all)
    BY <1>9
  <2> QED BY <1>9, <2>1, <2>2
<1>11. file.registry \in Sections(file)
  <2>1. 1 \in 1 .. 1 + b + s /\ 1 \in 1 .. 1 + b /\ 1 <= 1 + b
    BY <1>6
  <2>2. all[1] = two[1]
    BY <1>9, <2>1
  <2>3. two[1] = file.registry
    BY <1>4, <1>7, <2>1
  <2> QED BY <1>10, <2>1, <2>2, <2>3
<1>12. ASSUME NEW i \in 1 .. b PROVE file.broadcasts[i] \in Sections(file)
  <2>1. PICK j : j = 1 + i
    OBVIOUS
  <2>2. j \in 1 .. 1 + b + s /\ j \in 1 .. 1 + b /\ j <= 1 + b /\ ~(j <= 1) /\ j - 1 = i
    BY <1>6, <2>1
  <2>3. all[j] = two[j]
    BY <1>9, <2>2
  <2>4. two[j] = file.broadcasts[i]
    BY <1>7, <2>2
  <2> QED BY <1>10, <2>2, <2>3, <2>4
<1>13. ASSUME NEW i \in 1 .. s PROVE file.services[i] \in Sections(file)
  <2>1. PICK j : j = 1 + b + i
    OBVIOUS
  <2>2. j \in 1 .. 1 + b + s /\ ~(j <= 1 + b) /\ j - (1 + b) = i
    BY <1>6, <2>1
  <2>3. all[j] = file.services[i]
    BY <1>9, <2>2
  <2> QED BY <1>10, <2>2, <2>3
<1>14. v \in 1 .. 1 + b + b + s
  BY <1>3 DEF VisitsOf
<1>15. \/ v = 1 \/ (\E i \in 1 .. b : v = 1 + i)
       \/ (\E i \in 1 .. b : v = 1 + b + i) \/ (\E i \in 1 .. s : v = 1 + b + b + i)
  <2>1. CASE v = 1
    BY <2>1
  <2>2. CASE v > 1 /\ v <= 1 + b
    <3>1. v - 1 \in 1 .. b /\ v = 1 + (v - 1)
      BY <1>6, <1>14, <2>2
    <3> QED BY <3>1
  <2>3. CASE v > 1 + b /\ v <= 1 + b + b
    <3>1. v - (1 + b) \in 1 .. b /\ v = 1 + b + (v - (1 + b))
      BY <1>6, <1>14, <2>3
    <3> QED BY <3>1
  <2>4. CASE v > 1 + b + b
    <3>1. v - (1 + b + b) \in 1 .. s /\ v = 1 + b + b + (v - (1 + b + b))
      BY <1>6, <1>14, <2>4
    <3> QED BY <3>1
  <2> QED BY <1>6, <1>14, <2>1, <2>2, <2>3, <2>4
<1>17. CASE v = 1
  <2>1. Visits(file)[v] = Visit("registry", file.registry, TRUE)
    BY <1>3, <1>17 DEF VisitsOf
  <2>2. Visits(file)[v].section = file.registry
    BY <2>1 DEF Visit
  <2> QED BY <1>11, <2>2 DEF SectionOf
<1>18. ASSUME NEW i \in 1 .. b, v = 1 + i \/ v = 1 + b + i
       PROVE  SectionOf(Visits(file)[v], file)
  <2>1. PICK wanted : Visits(file)[v] = Visit("broadcast", file.broadcasts[i], wanted)
    BY <1>3, <1>18 DEF VisitsOf
  <2>2. Visits(file)[v].section = file.broadcasts[i]
    BY <2>1 DEF Visit
  <2> QED BY <1>12, <2>2 DEF SectionOf
<1>19. ASSUME NEW i \in 1 .. s, v = 1 + b + b + i
       PROVE  SectionOf(Visits(file)[v], file)
  <2>1. Visits(file)[v] = Visit("service", file.services[i], TRUE)
    BY <1>3, <1>19 DEF VisitsOf
  <2>2. Visits(file)[v].section = file.services[i]
    BY <2>1 DEF Visit
  <2> QED BY <1>13, <2>2 DEF SectionOf
<1> QED BY <1>15, <1>17, <1>18, <1>19

(* The sections that are still to be looked at when k visits were made: a  *)
(* broadcast counts for the visit that adds it.                            *)
VisitFor(file, n) ==
  IF n = 1 \/ (n <= 1 + Len(file.broadcasts) /\ IsRequired(file.broadcasts[n - 1]))
    THEN n ELSE n + Len(file.broadcasts)

SectionsAfter(file, k) ==
  {n \in 1 .. (1 + Len(file.broadcasts) + Len(file.services)) : VisitFor(file, n) > k}

SectionAt(file, n) ==
  IF n = 1 THEN file.registry
  ELSE IF n <= 1 + Len(file.broadcasts) THEN file.broadcasts[n - 1]
  ELSE file.services[n - (1 + Len(file.broadcasts))]

LEMMA VisitsSection ==
  ASSUME NEW file \in Inis, NEW v \in 1 .. Len(Visits(file)), Visits(file)[v].wanted
  PROVE  \E n \in 1 .. (1 + Len(file.broadcasts) + Len(file.services)) :
           VisitFor(file, n) = v /\ SectionAt(file, n) = Visits(file)[v].section
<1>2. PICK b, s : b = Len(file.broadcasts) /\ s = Len(file.services)
  OBVIOUS
<1>3. VisitsOf(file, b, s)
  BY <1>2, VisitsAre
<1>4. b \in Nat /\ s \in Nat /\ v \in 1 .. 1 + b + b + s
  BY <1>3 DEF VisitsOf
<1>5. SUFFICES \E n \in 1 .. (1 + b + s) :
                 VisitFor(file, n) = v /\ SectionAt(file, n) = Visits(file)[v].section
  BY <1>2
<1>6. CASE v = 1
  <2>1. 1 \in 1 .. (1 + b + s) /\ VisitFor(file, 1) = 1
    BY <1>4 DEF VisitFor
  <2>2. Visits(file)[v] = Visit("registry", file.registry, TRUE)
    BY <1>3, <1>6 DEF VisitsOf
  <2>3. SectionAt(file, 1) = Visits(file)[v].section
    BY <2>2 DEF Visit, SectionAt
  <2> QED BY <1>6, <2>1, <2>3
<1>7. CASE v > 1 /\ v <= 1 + b
  <2>1. PICK i \in 1 .. b : i = v - 1 /\ v = 1 + i
    BY <1>4, <1>7
  <2>2. Visits(file)[1 + i]
          = Visit("broadcast", file.broadcasts[i], IsRequired(file.broadcasts[i]) = TRUE)
    BY <1>3 DEF VisitsOf
  <2>3. PICK wanted : wanted = (IsRequired(file.broadcasts[i]) = TRUE)
    OBVIOUS
  <2>4. Visits(file)[v] = Visit("broadcast", file.broadcasts[i], wanted)
    BY <2>1, <2>2, <2>3
  <2>5. wanted
    BY <2>4 DEF Visit
  <2>6. IsRequired(file.broadcasts[i])
    BY <2>3, <2>5, Zenon
  <2>7. v <= 1 + Len(file.broadcasts) /\ IsRequired(file.broadcasts[v - 1])
    BY <1>2, <1>7, <2>1, <2>6
  <2>8. VisitFor(file, v) = v
    BY <2>7, Zenon DEF VisitFor
  <2>9. v \in 1 .. (1 + b + s)
    BY <1>4, <1>7
  <2>10. Visits(file)[v].section = file.broadcasts[i]
    BY <2>4 DEF Visit
  <2>11. SectionAt(file, v) = file.broadcasts[v - 1]
    BY <1>2, <1>4, <1>7 DEF SectionAt
  <2> QED BY <2>1, <2>8, <2>9, <2>10, <2>11
<1>8. CASE v > 1 + b /\ v <= 1 + b + b
  <2>1. PICK i \in 1 .. b : i = v - (1 + b) /\ v = 1 + b + i
    <3>1. v - (1 + b) \in 1 .. b /\ v = 1 + b + (v - (1 + b))
      BY <1>4, <1>8
    <3> QED BY <3>1
  <2>2. Visits(file)[1 + b + i]
          = Visit("broadcast", file.broadcasts[i], IsRequired(file.broadcasts[i]) = FALSE)
    BY <1>3 DEF VisitsOf
  <2>3. PICK wanted : wanted = (IsRequired(file.broadcasts[i]) = FALSE)
    OBVIOUS
  <2>4. PICK n : n = 1 + i
    OBVIOUS
  <2>5. n \in 1 .. (1 + b + s) /\ n # 1 /\ n - 1 = i /\ n + b = v
    BY <1>4, <2>1, <2>4
  <2>6. ~IsRequired(file.broadcasts[n - 1])
    <3>1. Visits(file)[v] = Visit("broadcast", file.broadcasts[i], wanted)
      BY <2>1, <2>2, <2>3
    <3>2. wanted
      BY <3>1 DEF Visit
    <3>3. ~IsRequired(file.broadcasts[i])
      BY <2>3, <3>2, Zenon
    <3> QED BY <2>5, <3>3
  <2>7. VisitFor(file, n) = n + b
    BY <1>2, <2>5, <2>6 DEF VisitFor
  <2>8. Visits(file)[v].section = file.broadcasts[i]
    <3>1. Visits(file)[v] = Visit("broadcast", file.broadcasts[i], wanted)
      BY <2>1, <2>2, <2>3
    <3> QED BY <3>1 DEF Visit
  <2>9. SectionAt(file, n) = file.broadcasts[n - 1]
    <3>1. n <= 1 + b
      BY <1>4, <2>4
    <3> QED BY <1>2, <2>5, <3>1 DEF SectionAt
  <2> QED BY <2>5, <2>7, <2>8, <2>9
<1>9. CASE v > 1 + b + b
  <2>1. PICK n : n = v - b
    OBVIOUS
  <2>2. n \in 1 .. (1 + b + s) /\ n # 1 /\ ~(n <= 1 + b) /\ n + b = v
    BY <1>4, <1>9, <2>1
  <2>3. VisitFor(file, n) = n + b
    BY <1>2, <2>2 DEF VisitFor
  <2>4. PICK i \in 1 .. s : i = n - (1 + b) /\ v = 1 + b + b + i
    <3>1. n - (1 + b) \in 1 .. s /\ v = 1 + b + b + (n - (1 + b))
      BY <1>4, <2>2
    <3> QED BY <3>1
  <2>5. Visits(file)[v] = Visit("service", file.services[i], TRUE)
    BY <1>3, <2>4 DEF VisitsOf
  <2>6. Visits(file)[v].section = file.services[i]
    BY <2>5 DEF Visit
  <2>7. SectionAt(file, n) = file.services[n - (1 + b)]
    BY <1>2, <2>2 DEF SectionAt
  <2> QED BY <2>2, <2>3, <2>4, <2>6, <2>7
<1> QED BY <1>4, <1>6, <1>7, <1>8, <1>9

Wanted(file, v) == \E n \in SectionsAfter(file, v - 1) : VisitFor(file, n) = v

LEMMA VisitsWanted ==
  ASSUME NEW file \in Inis, NEW v \in 1 .. Len(Visits(file)), Visits(file)[v].wanted
  PROVE  Wanted(file, v)
<1>1. Len(Visits(file)) \in Nat
  BY VisitsBegin
<1>2. v > v - 1
  BY <1>1
<1> QED BY <1>2, VisitsSection DEF Wanted, SectionsAfter

(* A visit that adds a proxy leaves one section less.                      *)
LEMMA SectionsLeft ==
  ASSUME NEW file \in Inis, NEW k \in Nat, NEW K, K = k + 1
  PROVE  /\ Cardinality(SectionsAfter(file, k)) \in Nat
         /\ Cardinality(SectionsAfter(file, K)) \in Nat
         /\ Cardinality(SectionsAfter(file, K)) <= Cardinality(SectionsAfter(file, k))
         /\ Wanted(file, K) =>
              Cardinality(SectionsAfter(file, K)) + 1 <= Cardinality(SectionsAfter(file, k))
         /\ Cardinality(SectionsAfter(file, 0))
              <= 1 + Len(file.broadcasts) + Len(file.services)
<1>1. PICK b, s : b = Len(file.broadcasts) /\ s = Len(file.services)
  OBVIOUS
<1>2. b \in Nat /\ s \in Nat
  BY <1>1, VisitsAre DEF VisitsOf
<1>3. IsFiniteSet(1 .. (1 + b + s)) /\ Cardinality(1 .. (1 + b + s)) = 1 + b + s
  BY <1>2, FS_Interval
<1>4. \A j : SectionsAfter(file, j) \in SUBSET (1 .. (1 + b + s))
  BY <1>1 DEF SectionsAfter
<1>5. \A j : /\ IsFiniteSet(SectionsAfter(file, j))
             /\ Cardinality(SectionsAfter(file, j)) <= 1 + b + s
  BY <1>3, <1>4, FS_Subset
<1>6. \A j : Cardinality(SectionsAfter(file, j)) \in Nat
  BY <1>5, FS_CardinalityType
<1>7. \A n \in 1 .. (1 + b + s) : VisitFor(file, n) \in Nat
  BY <1>1, <1>2 DEF VisitFor
<1>8. SectionsAfter(file, K) \in SUBSET SectionsAfter(file, k)
  <2>1. \A n \in 1 .. (1 + b + s) : VisitFor(file, n) > K => VisitFor(file, n) > k
    BY <1>7
  <2> QED BY <1>1, <2>1 DEF SectionsAfter
<1>9. Cardinality(SectionsAfter(file, K)) <= Cardinality(SectionsAfter(file, k))
  BY <1>5, <1>8, FS_Subset
<1>10. ASSUME Wanted(file, K)
       PROVE  Cardinality(SectionsAfter(file, K)) + 1 <= Cardinality(SectionsAfter(file, k))
  <2>1. K - 1 = k
    OBVIOUS
  <2>2. PICK n \in SectionsAfter(file, k) : VisitFor(file, n) = K
    BY <1>10, <2>1 DEF Wanted
  <2>3. n \notin SectionsAfter(file, K)
    <3>1. ~(K > K)
      OBVIOUS
    <3> QED BY <2>2, <3>1 DEF SectionsAfter
  <2>4. SectionsAfter(file, K) \in SUBSET (SectionsAfter(file, k) \ {n})
    BY <1>8, <2>3
  <2>5. /\ IsFiniteSet(SectionsAfter(file, k) \ {n})
        /\ Cardinality(SectionsAfter(file, k) \ {n}) = Cardinality(SectionsAfter(file, k)) - 1
    BY <1>5, <2>2, FS_RemoveElement
  <2>6. Cardinality(SectionsAfter(file, K)) <= Cardinality(SectionsAfter(file, k) \ {n})
    BY <2>4, <2>5, FS_Subset
  <2>7. /\ Cardinality(SectionsAfter(file, K)) \in Nat
        /\ Cardinality(SectionsAfter(file, k)) \in Nat
    BY <1>6
  <2> QED BY <2>5, <2>6, <2>7
<1> QED BY <1>1, <1>5, <1>6, <1>9, <1>10

(* The ports of the block that no section proposes and nobody has.         *)
Room(file, available, used) == (Block(file) \ Proposed(file)) \cap (available \ used)

(* Whether there are enough: two for every section still to come.          *)
HasRoom(file, state) ==
  LET room == Room(file, state.available, state.used) IN
  Cardinality(room) >= 2 * Cardinality(SectionsAfter(file, state.visited))

LEMMA RoomIsFinite ==
  ASSUME NEW file \in Inis, NEW available, NEW used
  PROVE  /\ IsFiniteSet(Room(file, available, used))
         /\ Cardinality(Room(file, available, used)) \in Nat
<1>1. file.portStart + 1 \in Int /\ file.portEnd \in Int
  BY IniAssumption
<1>2. IsFiniteSet(Block(file))
  BY <1>1, FS_Interval DEF Block
<1>3. Room(file, available, used) \in SUBSET Block(file)
  BY DEF Room
<1> QED BY <1>2, <1>3, FS_Subset, FS_CardinalityType

(* While there is room, an address that is made is nobody's, and it costs  *)
(* at most one port.                                                       *)
Shrinks(room, rest, address) == room \ {address} \subseteq rest

LEMMA FreshAddress ==
  ASSUME NEW file \in Inis, NEW available, Within(available, Block(file)),
         NEW used, NEW proposed, proposed \in Proposed(file) \cup {NoAddress},
         Room(file, available, used) # {},
         NEW made, made = makeNextAvailableAddress(proposed, available, used)
  PROVE  /\ made.ok /\ made.address \notin used
         /\ made.address \in Proposed(file) \cup Block(file)
         /\ Within(made.available, available)
         /\ Shrinks(Room(file, available, used),
                    Room(file, made.available, used \cup {made.address}), made.address)
<1> DEFINE free == available \ used
<1>0. Block(file) \in SUBSET Nat
  <2>1. file.portStart \in Nat /\ file.portEnd \in Nat
    BY IniAssumption
  <2> QED BY <2>1 DEF Block
<1>1. /\ free # {} /\ available \in SUBSET Block(file) /\ free \in SUBSET Nat
  BY <1>0 DEF Within, Room
<1>2. CASE proposed # NoAddress /\ proposed \notin used
  <2>1. made = [ok |-> TRUE, address |-> proposed, available |-> available]
    BY <1>2 DEF makeNextAvailableAddress
  <2>2. made.ok /\ made.address = proposed /\ made.available = available
    BY <2>1
  <2> QED BY <1>2, <2>2 DEF Within, Shrinks, Room
<1>3. CASE ~(proposed # NoAddress /\ proposed \notin used)
  <2>1. Min(free) \in free
    BY <1>1, LeastIn
  <2>2. made = [ok |-> TRUE, address |-> Min(free), available |-> available \ {Min(free)}]
    BY <1>1, <1>3 DEF makeNextAvailableAddress
  <2>3. /\ made.ok /\ made.address = Min(free)
        /\ made.available = available \ {made.address}
    BY <2>2
  <2> QED BY <1>1, <2>1, <2>3 DEF Within, Shrinks, Room
<1> QED BY <1>2, <1>3

LEMMA RoomLeft ==
  ASSUME NEW room, NEW rest, NEW address,
         IsFiniteSet(room), IsFiniteSet(rest), Shrinks(room, rest, address)
  PROVE  /\ Cardinality(room) \in Nat /\ Cardinality(rest) \in Nat
         /\ Cardinality(rest) + 1 >= Cardinality(room)
<1>1. /\ IsFiniteSet(room \ {address})
      /\ Cardinality(room \ {address}) + 1 >= Cardinality(room)
      /\ Cardinality(room) \in Nat /\ Cardinality(room \ {address}) \in Nat
  <2>1. /\ IsFiniteSet(room \ {address})
        /\ Cardinality(room \ {address})
             = IF address \in room THEN Cardinality(room) - 1 ELSE Cardinality(room)
    BY FS_RemoveElement
  <2>2. Cardinality(room) \in Nat /\ Cardinality(room \ {address}) \in Nat
    BY <2>1, FS_CardinalityType
  <2> QED BY <2>1, <2>2
<1>2. room \ {address} \in SUBSET rest
  BY DEF Shrinks
<1>3. Cardinality(room \ {address}) <= Cardinality(rest)
  BY <1>2, FS_Subset
<1>4. Cardinality(rest) \in Nat
  BY FS_CardinalityType
<1> QED BY <1>1, <1>3, <1>4

(* With room for two the pair that is made is nobody's.                    *)
LEMMA FreshPair ==
  ASSUME NEW file \in Inis, NEW section, section \in Sections(file),
         NEW state, Within(state.available, Block(file)),
         Cardinality(Room(file, state.available, state.used)) >= 2,
         NEW pair, pair = makeNewFrontendBackendAddress(section, state)
  PROVE  /\ pair.ok /\ pair.front \notin state.used /\ pair.back \notin state.used
         /\ pair.front # pair.back
         /\ pair.front \in Proposed(file) \cup Block(file)
         /\ pair.back \in Proposed(file) \cup Block(file)
         /\ Cardinality(Room(file, pair.available, pair.used)) + 2
              >= Cardinality(Room(file, state.available, state.used))
<1>1. PICK front :
        front = makeNextAvailableAddress(section.front, state.available, state.used)
  OBVIOUS
<1>2. PICK used : used = state.used \cup {front.address}
  OBVIOUS
<1>3. PICK back : back = makeNextAvailableAddress(section.back, front.available, used)
  OBVIOUS
<1>4. PICK ok : ok = (front.ok /\ back.ok)
  OBVIOUS
<1>5. pair = [ok |-> ok, front |-> front.address,
              back |-> back.address, available |-> back.available,
              used |-> used \cup {back.address}]
  <2>1. used \cup {back.address} = state.used \cup {front.address, back.address}
    BY <1>2
  <2> QED BY <1>1, <1>2, <1>3, <1>4, <2>1 DEF makeNewFrontendBackendAddress
<1>6. /\ section.front \in Proposed(file) \cup {NoAddress}
      /\ section.back \in Proposed(file) \cup {NoAddress}
  BY DEF Proposed
<1>7. PICK room, rest, last :
        /\ room = Room(file, state.available, state.used)
        /\ rest = Room(file, front.available, used)
        /\ last = Room(file, back.available, used \cup {back.address})
  OBVIOUS
<1>8. IsFiniteSet(room) /\ IsFiniteSet(rest) /\ IsFiniteSet(last) /\ Cardinality(room) \in Nat
  BY <1>7, RoomIsFinite
<1>9. room # {}
  BY <1>7, <1>8, FS_EmptySet
<1>10. /\ front.ok /\ front.address \notin state.used
       /\ front.address \in Proposed(file) \cup Block(file)
       /\ Within(front.available, state.available)
       /\ Shrinks(room, rest, front.address)
  BY <1>1, <1>2, <1>6, <1>7, <1>9, FreshAddress
<1>11. Cardinality(rest) \in Nat /\ Cardinality(rest) + 1 >= Cardinality(room)
  BY <1>8, <1>10, RoomLeft
<1>12. rest # {}
  <2>1. Cardinality(rest) # 0
    BY <1>7, <1>8, <1>11
  <2> QED BY <1>8, <2>1, FS_EmptySet
<1>13. Within(front.available, Block(file))
  BY <1>10 DEF Within
<1>14. /\ back.ok /\ back.address \notin used
       /\ back.address \in Proposed(file) \cup Block(file)
       /\ Shrinks(rest, last, back.address)
  BY <1>3, <1>6, <1>7, <1>12, <1>13, FreshAddress
<1>15. Cardinality(last) \in Nat /\ Cardinality(last) + 1 >= Cardinality(rest)
  BY <1>8, <1>14, RoomLeft
<1>16. /\ pair.ok = ok /\ pair.front = front.address /\ pair.back = back.address
       /\ pair.available = back.available /\ pair.used = used \cup {back.address}
  BY <1>5
<1>17. ok
  BY <1>4, <1>10, <1>14, Zenon
<1>18. Cardinality(last) + 2 >= Cardinality(room)
  BY <1>8, <1>11, <1>15
<1>19. Room(file, pair.available, pair.used) = last
  BY <1>7, <1>16
<1> QED BY <1>2, <1>7, <1>10, <1>14, <1>16, <1>17, <1>18, <1>19

-----------------------------------------------------------------------------
(* Every socket has an address of its own.                                 *)

Apart(one, other) ==
  /\ one.front # other.front /\ one.front # other.back
  /\ one.back # other.front /\ one.back # other.back

SocketsOK ==
  LeavesRoom(ini) =>
    /\ HasRoom(ini, options)
    /\ ClientAccessAddress(ini) \notin options.used
    /\ \A i \in DOMAIN given :
         /\ given[i].front \in options.used /\ given[i].back \in options.used
         /\ given[i].front # given[i].back
    /\ \A i, j \in DOMAIN given : i # j => Apart(given[i], given[j])

(* The state of the parser when a section is wanted.                       *)
LEMMA EnoughRoom ==
  ASSUME NEW file \in Inis, NEW state \in Options, HasRoom(file, state),
         NEW k, k = state.visited + 1, Wanted(file, k)
  PROVE  /\ Cardinality(Room(file, state.available, state.used)) \in Nat
         /\ Cardinality(SectionsAfter(file, k)) \in Nat
         /\ Cardinality(Room(file, state.available, state.used))
              >= 2 * Cardinality(SectionsAfter(file, k)) + 2
<1>1. state.visited \in Nat
  BY DEF Options
<1>2. PICK before, after, room :
        /\ before = Cardinality(SectionsAfter(file, state.visited))
        /\ after = Cardinality(SectionsAfter(file, k))
        /\ room = Cardinality(Room(file, state.available, state.used))
  OBVIOUS
<1>3. before \in Nat /\ after \in Nat /\ after + 1 <= before
  BY <1>1, <1>2, SectionsLeft
<1>4. room \in Nat
  BY <1>2, RoomIsFinite
<1>5. room >= 2 * before
  BY <1>2 DEF HasRoom
<1>6. room >= 2 * after + 2
  BY <1>3, <1>4, <1>5
<1> QED BY <1>2, <1>3, <1>4, <1>6

LEMMA ParsesSockets ==
  PlacesInv /\ SocketsOK /\ Parses => SocketsOK'
<1> SUFFICES ASSUME PlacesInv, SocketsOK, Parses, LeavesRoom(ini)
             PROVE  /\ HasRoom(ini, options')
                    /\ ClientAccessAddress(ini) \notin options'.used
                    /\ \A i \in DOMAIN given' :
                         /\ given'[i].front \in options'.used
                         /\ given'[i].back \in options'.used
                         /\ given'[i].front # given'[i].back
                    /\ \A i, j \in DOMAIN given' : i # j => Apart(given'[i], given'[j])
  <2>1. Parses => ini' = ini
    BY DEF Parses
  <2> QED BY <2>1 DEF SocketsOK
<1>1. /\ ini \in Inis /\ OptionsOK /\ options \in Options
      /\ Within(options.available, Block(ini))
  BY DEF PlacesInv, HubTypeOK, OptionsOK
<1>2. /\ given \in Seq(Proxies) /\ DOMAIN given = 1 .. Len(given) /\ Len(given) \in Nat
      /\ options.visited \in Nat
  BY <1>1, GivenIs DEF Options
<1>3. /\ HasRoom(ini, options) /\ ClientAccessAddress(ini) \notin options.used
      /\ \A i \in DOMAIN given :
           /\ given[i].front \in options.used /\ given[i].back \in options.used
           /\ given[i].front # given[i].back
      /\ \A i, j \in DOMAIN given : i # j => Apart(given[i], given[j])
  BY DEF SocketsOK
<1>4. PICK k : k = options.visited + 1
  OBVIOUS
<1>5. PICK visit : visit = Visits(ini)[k]
  OBVIOUS
<1>6. /\ visit \in VisitRecords
      /\ options.visited + 1 <= Len(Visits(ini))
      /\ \/ UNCHANGED options /\ main' = "failed"
         \/ /\ ~visit.wanted
            /\ options' = [options EXCEPT !.visited = @ + 1]
            /\ main' = main
         \/ /\ visit.wanted /\ main' = main
            /\ Accepts(visit, options)
            /\ options' = addProxy(visit, options)
  BY <1>1, <1>4, <1>5, ParsesAdds
<1>7. CASE UNCHANGED options
  BY <1>3, <1>7 DEF given
<1>8. CASE ~visit.wanted /\ options' = [options EXCEPT !.visited = @ + 1]
  <2>1. /\ options'.visited = k /\ options'.available = options.available
        /\ options'.used = options.used /\ given' = given
    BY <1>1, <1>4, <1>8 DEF Options, given
  <2>2. PICK before, after, room :
          /\ before = Cardinality(SectionsAfter(ini, options.visited))
          /\ after = Cardinality(SectionsAfter(ini, k))
          /\ room = Cardinality(Room(ini, options.available, options.used))
    OBVIOUS
  <2>3. before \in Nat /\ after \in Nat /\ after <= before
    BY <1>1, <1>2, <1>4, <2>2, SectionsLeft
  <2>4. room \in Nat /\ room >= 2 * before
    BY <1>1, <1>3, <2>2, RoomIsFinite DEF HasRoom
  <2>5. room >= 2 * after
    BY <2>3, <2>4
  <2>6. HasRoom(ini, options')
    BY <2>1, <2>2, <2>5 DEF HasRoom
  <2> QED BY <1>3, <2>1, <2>6
<1>9. CASE visit.wanted /\ Accepts(visit, options) /\ options' = addProxy(visit, options)
  <2>1. PICK pair, proxy :
          /\ pair = makeNewFrontendBackendAddress(visit.section, options) /\ pair.ok
          /\ proxy = [kind |-> visit.kind, name |-> visit.section.name,
                      front |-> pair.front, back |-> pair.back]
          /\ proxy \in Proxies
          /\ options'.given = Append(options.given, proxy)
          /\ options'.visited = options.visited + 1
          /\ options'.used = options.used \cup {pair.front, pair.back}
          /\ options'.available = pair.available
    BY <1>1, <1>6, <1>9, AddsProxy
  <2>2. k \in 1 .. Len(Visits(ini))
    <3>1. Len(Visits(ini)) \in Nat
      BY <1>1, VisitsBegin
    <3> QED BY <1>2, <1>4, <1>6, <3>1
  <2>3. visit.section \in Sections(ini) /\ Wanted(ini, k)
    <3>1. SectionOf(visit, ini)
      BY <1>1, <1>5, <2>2, VisitsName
    <3>2. Wanted(ini, k)
      BY <1>1, <1>5, <1>9, <2>2, VisitsWanted
    <3> QED BY <3>1, <3>2 DEF SectionOf
  <2>4. PICK after, room :
          /\ after = Cardinality(SectionsAfter(ini, k))
          /\ room = Cardinality(Room(ini, options.available, options.used))
    OBVIOUS
  <2>5. room \in Nat /\ after \in Nat /\ room >= 2 * after + 2
    BY <1>1, <1>3, <1>4, <2>3, <2>4, EnoughRoom
  <2>6. room >= 2
    BY <2>5
  <2>7. /\ pair.front \notin options.used /\ pair.back \notin options.used
        /\ pair.front # pair.back
        /\ pair.front \in Proposed(ini) \cup Block(ini)
        /\ pair.back \in Proposed(ini) \cup Block(ini)
        /\ Cardinality(Room(ini, pair.available, pair.used)) + 2 >= room
    BY <1>1, <2>1, <2>3, <2>4, <2>6, FreshPair
  <2>8. pair.used = options'.used
    <3>1. pair.used = options.used \cup {pair.front, pair.back}
      <4>1. visit.section \in SectionRecords
        BY <1>6 DEF VisitRecords
      <4> QED BY <1>1, <2>1, <4>1, NextPair
    <3> QED BY <2>1, <3>1
  <2>9. HasRoom(ini, options')
    <3>1. PICK rest : rest = Cardinality(Room(ini, pair.available, pair.used))
      OBVIOUS
    <3>2. rest \in Nat /\ rest + 2 >= room
      BY <1>1, <2>7, <3>1, RoomIsFinite
    <3>3. rest >= 2 * after
      BY <2>5, <3>2
    <3> QED BY <1>4, <2>1, <2>4, <2>8, <3>1, <3>3 DEF HasRoom
  <2>10. ClientAccessAddress(ini) \notin Proposed(ini) \cup Block(ini)
    <3>1. ini.portStart \in Nat
      BY <1>1, IniAssumption
    <3> QED BY <3>1 DEF LeavesRoom, ClientAccessAddress, Block
  <2>11. given' = Append(given, proxy)
    BY <2>1 DEF given
  <2>12. /\ DOMAIN given' = 1 .. (Len(given) + 1)
         /\ \A i \in DOMAIN given : given'[i] = given[i]
         /\ given'[Len(given) + 1] = proxy
    <3>1. /\ Append(given, proxy) \in Seq(Proxies)
          /\ Len(Append(given, proxy)) = Len(given) + 1
          /\ \A i \in 1 .. Len(given) : Append(given, proxy)[i] = given[i]
          /\ Append(given, proxy)[Len(given) + 1] = proxy
      BY <1>2, <2>1, AppendProperties
    <3> QED BY <1>2, <2>11, <3>1
  <2>13. \A i \in DOMAIN given' :
           \/ i \in DOMAIN given /\ given'[i] = given[i]
           \/ i = Len(given) + 1 /\ given'[i] = proxy
    BY <1>2, <2>12
  <2>14. proxy.front = pair.front /\ proxy.back = pair.back
    BY <2>1
  <2>15. \A i \in DOMAIN given : Apart(given[i], proxy) /\ Apart(proxy, given[i])
    BY <1>3, <2>7, <2>14 DEF Apart
  <2>16. ClientAccessAddress(ini) \notin options'.used
    BY <1>3, <2>1, <2>7, <2>10
  <2>17. \A i \in DOMAIN given' :
           /\ given'[i].front \in options'.used /\ given'[i].back \in options'.used
           /\ given'[i].front # given'[i].back
    BY <1>3, <2>1, <2>7, <2>13, <2>14
  <2>18. \A i, j \in DOMAIN given' : i # j => Apart(given'[i], given'[j])
    BY <1>3, <2>13, <2>15
  <2> QED BY <2>9, <2>16, <2>17, <2>18
<1> QED BY <1>6, <1>7, <1>8, <1>9

(* Only the parser changes the options, and nobody the file.               *)
LEMMA OptionsMove == [Next]_vars => Parses \/ UNCHANGED <<ini, options>>
<1>1. HubStep => Parses \/ UNCHANGED <<ini, options>>
  BY DEF HubStep, HasParsed, OpensUsers, InitializesDirectory, InitializesNext,
     LaunchesNext, ListsNext, OpensDirectory, StopsRegistry, UnlistsNext, HaltsNext,
     StopsDirectory, ProxyStep, ProxyRuns, DirectoryStep, DirectoryRuns, DirectoryAnswers,
     DirectoryAsked, DirectoryReads, DirectoryGoes, hubVars
<1> QED BY <1>1, OthersPass DEF hubVars

LEMMA SocketsInvariant == Spec => []SocketsOK
<1>1. Init => SocketsOK
  <2> SUFFICES ASSUME Init, LeavesRoom(ini) PROVE SocketsOK
    BY DEF SocketsOK
  <2>1. ini \in Inis /\ options = Start(ini)
    BY DEF Init
  <2>2. /\ options.available = Block(ini) /\ options.used = {} /\ options.visited = 0
        /\ given = << >>
    BY <2>1 DEF Start, given, Block
  <2>3. PICK n, room :
          /\ n = 1 + Len(ini.broadcasts) + Len(ini.services)
          /\ room = Cardinality(Room(ini, options.available, options.used))
    OBVIOUS
  <2>4. Room(ini, options.available, options.used) = Block(ini) \ Proposed(ini)
    BY <2>2 DEF Room
  <2>5. room >= 2 * n /\ room \in Nat
    BY <2>1, <2>3, <2>4, RoomIsFinite DEF LeavesRoom, Block
  <2>6. PICK all : all = Cardinality(SectionsAfter(ini, 0))
    OBVIOUS
  <2>7. all \in Nat /\ all <= n
    <3>1. PICK one : one = 0 + 1
      OBVIOUS
    <3> QED BY <2>1, <2>3, <2>6, <3>1, SectionsLeft
  <2>8. n \in Nat
    <3>1. PICK b, s : b = Len(ini.broadcasts) /\ s = Len(ini.services)
      OBVIOUS
    <3>2. b \in Nat /\ s \in Nat
      BY <2>1, <3>1, VisitsAre DEF VisitsOf
    <3>3. n = 1 + b + s
      BY <2>3, <3>1
    <3> QED BY <3>2, <3>3
  <2>9. room >= 2 * all
    BY <2>5, <2>7, <2>8
  <2>10. HasRoom(ini, options)
    BY <2>2, <2>3, <2>6, <2>9 DEF HasRoom
  <2> QED BY <2>2, <2>10 DEF SocketsOK
<1>2. TypeInv /\ SocketsOK /\ [Next]_vars => SocketsOK'
  <2> SUFFICES ASSUME TypeInv, SocketsOK, [Next]_vars PROVE SocketsOK'
    OBVIOUS
  <2>1. CASE Parses
    BY <2>1, ParsesSockets DEF TypeInv
  <2>2. CASE ~Parses
    <3>1. UNCHANGED <<ini, options>>
      BY <2>2, OptionsMove
    <3> QED BY <3>1 DEF SocketsOK, given
  <2> QED BY <2>1, <2>2
<1> QED BY <1>1, <1>2, TypeInductive, PTL DEF Spec

(* In every file whose block has two ports for every section beyond those  *)
(* that the file proposes, and whose proposals leave the connection        *)
(* information its port, no two sockets get one address.                   *)
THEOREM AddressesDistinctInvariant == Spec => []AddressesDistinct
<1>1. SocketsOK => AddressesDistinct
  <2> SUFFICES ASSUME SocketsOK, LeavesRoom(ini)
               PROVE  /\ \A s, t \in SocketsOf(given) :
                           s # t => AddressOf(given, s) # AddressOf(given, t)
                      /\ \A s \in SocketsOf(given) :
                           AddressOf(given, s) # ClientAccessAddress(ini)
    BY DEF AddressesDistinct
  <2>1. /\ ClientAccessAddress(ini) \notin options.used
        /\ \A i \in DOMAIN given :
             /\ given[i].front \in options.used /\ given[i].back \in options.used
             /\ given[i].front # given[i].back
        /\ \A i, j \in DOMAIN given : i # j => Apart(given[i], given[j])
    BY DEF SocketsOK
  <2>2. ASSUME NEW s \in SocketsOf(given)
        PROVE  \E i \in DOMAIN given :
                 \/ s = <<i, "front">> /\ AddressOf(given, s) = given[i].front
                 \/ s = <<i, "back">> /\ AddressOf(given, s) = given[i].back
    BY DEF SocketsOf, AddressOf
  <2>3. ASSUME NEW s \in SocketsOf(given)
        PROVE  AddressOf(given, s) # ClientAccessAddress(ini)
    BY <2>1, <2>2
  <2>4. ASSUME NEW s \in SocketsOf(given), NEW t \in SocketsOf(given), s # t
        PROVE  AddressOf(given, s) # AddressOf(given, t)
    <3>1. PICK i \in DOMAIN given :
            \/ s = <<i, "front">> /\ AddressOf(given, s) = given[i].front
            \/ s = <<i, "back">> /\ AddressOf(given, s) = given[i].back
      BY <2>2
    <3>2. PICK j \in DOMAIN given :
            \/ t = <<j, "front">> /\ AddressOf(given, t) = given[j].front
            \/ t = <<j, "back">> /\ AddressOf(given, t) = given[j].back
      BY <2>2
    <3>3. CASE i = j
      BY <2>1, <2>4, <3>1, <3>2, <3>3
    <3>4. CASE i # j
      BY <2>1, <3>1, <3>2, <3>4 DEF Apart
    <3> QED BY <3>3, <3>4
  <2> QED BY <2>3, <2>4
<1> QED BY <1>1, SocketsInvariant, PTL

-----------------------------------------------------------------------------
(* Names.                                                                  *)

NamesIn(file) ==
  <<file.registry.name, CIName>>
    \o [i \in DOMAIN file.broadcasts |-> file.broadcasts[i].name]
    \o [i \in DOMAIN file.services |-> file.services[i].name]

Names == STRING \cup {CIName}

(* The names of the sections, with the connection information's second.    *)
LEMMA NamesOfSections ==
  ASSUME NEW file \in Inis, NEW n \in 1 .. (1 + Len(file.broadcasts) + Len(file.services)),
         NEW p, p = IF n = 1 THEN 1 ELSE n + 1
  PROVE  /\ p \in DOMAIN NamesIn(file) /\ NamesIn(file)[p] = SectionAt(file, n).name
         /\ 2 \in DOMAIN NamesIn(file) /\ NamesIn(file)[2] = CIName
<1> DEFINE head == <<file.registry.name, CIName>>
           middle == [i \in DOMAIN file.broadcasts |-> file.broadcasts[i].name]
           last == [i \in DOMAIN file.services |-> file.services[i].name]
<1>1. /\ file.registry \in SectionRecords
      /\ file.broadcasts \in Seq(SectionRecords) /\ file.services \in Seq(SectionRecords)
  BY IniAssumption DEF SectionRecords
<1>2. PICK b, s : b = Len(file.broadcasts) /\ s = Len(file.services)
  OBVIOUS
<1>3. /\ b \in Nat /\ DOMAIN file.broadcasts = 1 .. b
      /\ s \in Nat /\ DOMAIN file.services = 1 .. s
      /\ \A i \in 1 .. b : file.broadcasts[i] \in SectionRecords
      /\ \A i \in 1 .. s : file.services[i] \in SectionRecords
  BY <1>1, <1>2
<1>4. head \in Seq(Names) /\ Len(head) = 2 /\ head[1] = file.registry.name /\ head[2] = CIName
  <2>1. PICK one, two : one = file.registry.name /\ two = CIName
    OBVIOUS
  <2>2. one \in Names /\ two \in Names
    BY <1>1, <2>1 DEF SectionRecords, Names
  <2>3. /\ <<one, two>> \in Seq(Names) /\ Len(<<one, two>>) = 2
        /\ <<one, two>>[1] = one /\ <<one, two>>[2] = two
    BY <2>2
  <2>4. head = <<one, two>>
    BY <2>1
  <2> QED BY <2>1, <2>3, <2>4
<1>5. /\ middle \in [1 .. b -> Names] /\ last \in [1 .. s -> Names]
      /\ \A i \in 1 .. b : middle[i] = file.broadcasts[i].name
      /\ \A i \in 1 .. s : last[i] = file.services[i].name
  BY <1>3 DEF SectionRecords, Names
<1>6. NamesIn(file) = head \o middle \o last
  BY DEF NamesIn
<1> HIDE DEF head, middle, last
<1>7. middle \in Seq(Names) /\ Len(middle) = b /\ last \in Seq(Names) /\ Len(last) = s
  BY <1>3, <1>5
<1>8. PICK two : two = head \o middle
  OBVIOUS
<1>9. /\ two \in Seq(Names) /\ Len(two) = 2 + b
      /\ \A i \in 1 .. 2 + b : two[i] = IF i <= 2 THEN head[i] ELSE middle[i - 2]
  <2>1. /\ head \o middle \in Seq(Names)
        /\ Len(head \o middle) = Len(head) + Len(middle)
        /\ \A i \in 1 .. Len(head) + Len(middle) : (head \o middle)[i] =
             IF i <= Len(head) THEN head[i] ELSE middle[i - Len(head)]
    BY <1>4, <1>7, ConcatProperties
  <2> QED BY <1>4, <1>7, <1>8, <2>1
<1>10. PICK all : all = two \o last
  OBVIOUS
<1>11. /\ all \in Seq(Names) /\ Len(all) = 2 + b + s /\ DOMAIN all = 1 .. 2 + b + s
       /\ \A i \in 1 .. 2 + b + s :
            all[i] = IF i <= 2 + b THEN two[i] ELSE last[i - (2 + b)]
  <2>1. /\ two \o last \in Seq(Names)
        /\ Len(two \o last) = Len(two) + Len(last)
        /\ \A i \in 1 .. Len(two) + Len(last) : (two \o last)[i] =
             IF i <= Len(two) THEN two[i] ELSE last[i - Len(two)]
    <3>1. two \in Seq(Names)
      BY <1>9
    <3> QED BY <1>7, <3>1, ConcatProperties
  <2>2. all \in Seq(Names) /\ Len(all) = 2 + b + s
    BY <1>7, <1>9, <1>10, <2>1
  <2>3. DOMAIN all = 1 .. Len(all)
    BY <2>2
  <2> QED BY <1>7, <1>9, <1>10, <2>1, <2>2, <2>3
<1>12. NamesIn(file) = all
  BY <1>6, <1>8, <1>10
<1>13. n \in 1 .. (1 + b + s)
  BY <1>2
<1>14. 2 \in DOMAIN all /\ all[2] = CIName
  <2>1. 2 \in 1 .. 2 + b + s /\ 2 \in 1 .. 2 + b /\ 2 <= 2 + b
    BY <1>3
  <2>2. all[2] = two[2]
    BY <1>11, <2>1
  <2>3. two[2] = head[2]
    BY <1>9, <2>1
  <2> QED BY <1>4, <1>11, <2>1, <2>2, <2>3
<1>15. CASE n = 1
  <2>1. p = 1 /\ 1 \in 1 .. 2 + b + s /\ 1 \in 1 .. 2 + b /\ 1 <= 2 + b
    BY <1>3, <1>15
  <2>2. all[1] = two[1]
    BY <1>11, <2>1
  <2>3. two[1] = head[1]
    BY <1>9, <2>1
  <2> QED BY <1>4, <1>11, <1>12, <1>14, <1>15, <2>1, <2>2, <2>3 DEF SectionAt
<1>16. CASE n # 1 /\ n <= 1 + b
  <2>1. /\ p = n + 1 /\ p \in 1 .. 2 + b + s /\ p \in 1 .. 2 + b /\ p <= 2 + b
        /\ ~(p <= 2) /\ p - 2 = n - 1 /\ n - 1 \in 1 .. b
    BY <1>3, <1>13, <1>16
  <2>2. all[p] = two[p]
    BY <1>11, <2>1
  <2>3. two[p] = file.broadcasts[n - 1].name
    BY <1>5, <1>9, <2>1
  <2>4. SectionAt(file, n) = file.broadcasts[n - 1]
    BY <1>2, <1>16 DEF SectionAt
  <2> QED BY <1>11, <1>12, <1>14, <2>1, <2>2, <2>3, <2>4
<1>17. CASE n # 1 /\ ~(n <= 1 + b)
  <2>1. /\ p = n + 1 /\ p \in 1 .. 2 + b + s /\ ~(p <= 2 + b)
        /\ p - (2 + b) = n - (1 + b) /\ n - (1 + b) \in 1 .. s
    BY <1>3, <1>13, <1>17
  <2>2. all[p] = file.services[n - (1 + b)].name
    BY <1>5, <1>11, <2>1
  <2>3. SectionAt(file, n) = file.services[n - (1 + b)]
    BY <1>2, <1>17 DEF SectionAt
  <2> QED BY <1>11, <1>12, <1>14, <2>1, <2>2, <2>3
<1> QED BY <1>15, <1>16, <1>17

(* So that the proxies that are added have names of their own.             *)
LEMMA WantedNames ==
  ASSUME NEW file \in Inis, NamesDiffer(file),
         NEW v \in 1 .. Len(Visits(file)), Visits(file)[v].wanted
  PROVE  /\ Visits(file)[v].section.name # CIName
         /\ \A w \in 1 .. Len(Visits(file)) :
              Visits(file)[w].wanted /\ w # v
                => Visits(file)[w].section.name # Visits(file)[v].section.name
<1>1. \A a, c \in DOMAIN NamesIn(file) : NamesIn(file)[a] = NamesIn(file)[c] => a = c
  BY DEF NamesDiffer, NamesIn, IsInjective
<1>2. PICK n \in 1 .. (1 + Len(file.broadcasts) + Len(file.services)) :
        VisitFor(file, n) = v /\ SectionAt(file, n) = Visits(file)[v].section
  BY VisitsSection
<1>3. PICK p : p = IF n = 1 THEN 1 ELSE n + 1
  OBVIOUS
<1>4. n \in Nat /\ p \in Nat /\ p # 2 /\ n > 0
  <2>1. n \in Nat /\ n > 0
    OBVIOUS
  <2> QED BY <1>3, <2>1
<1>5. /\ p \in DOMAIN NamesIn(file) /\ NamesIn(file)[p] = Visits(file)[v].section.name
      /\ 2 \in DOMAIN NamesIn(file) /\ NamesIn(file)[2] = CIName
  <2>1. /\ p \in DOMAIN NamesIn(file) /\ NamesIn(file)[p] = SectionAt(file, n).name
        /\ 2 \in DOMAIN NamesIn(file) /\ NamesIn(file)[2] = CIName
    BY ONLY <1>3, NamesOfSections, file \in Inis,
            n \in 1 .. (1 + Len(file.broadcasts) + Len(file.services))
  <2> QED BY <1>2, <2>1
<1>6. Visits(file)[v].section.name # CIName
  BY <1>1, <1>4, <1>5
<1>7. ASSUME NEW w \in 1 .. Len(Visits(file)), Visits(file)[w].wanted, w # v
      PROVE  Visits(file)[w].section.name # Visits(file)[v].section.name
  <2>1. PICK m \in 1 .. (1 + Len(file.broadcasts) + Len(file.services)) :
          VisitFor(file, m) = w /\ SectionAt(file, m) = Visits(file)[w].section
    BY <1>7, VisitsSection
  <2>2. PICK q : q = IF m = 1 THEN 1 ELSE m + 1
    OBVIOUS
  <2>3. q \in DOMAIN NamesIn(file) /\ NamesIn(file)[q] = Visits(file)[w].section.name
    <3>1. q \in DOMAIN NamesIn(file) /\ NamesIn(file)[q] = SectionAt(file, m).name
      BY <2>2, NamesOfSections
    <3> QED BY <2>1, <3>1
  <2>4. m # n
    BY <1>2, <1>7, <2>1
  <2>5. m \in Nat /\ m > 0
    OBVIOUS
  <2>6. p # q
    BY <1>3, <1>4, <2>2, <2>4, <2>5
  <2> QED BY <1>1, <1>5, <2>3, <2>6
<1> QED BY <1>6, <1>7

NamesOK ==
  NamesDiffer(ini) =>
    /\ \A i \in DOMAIN given :
         /\ given[i].name # CIName
         /\ \E v \in 1 .. options.visited :
              Visits(ini)[v].wanted /\ Visits(ini)[v].section.name = given[i].name
    /\ \A i, j \in DOMAIN given : i # j => given[i].name # given[j].name

LEMMA ParsesNames == PlacesInv /\ NamesOK /\ Parses => NamesOK'
<1> SUFFICES ASSUME PlacesInv, NamesOK, Parses, NamesDiffer(ini)
             PROVE  /\ \A i \in DOMAIN given' :
                         /\ given'[i].name # CIName
                         /\ \E v \in 1 .. options'.visited :
                              /\ Visits(ini)[v].wanted
                              /\ Visits(ini)[v].section.name = given'[i].name
                    /\ \A i, j \in DOMAIN given' : i # j => given'[i].name # given'[j].name
  <2>1. Parses => ini' = ini
    BY DEF Parses
  <2> QED BY <2>1 DEF NamesOK
<1>1. /\ ini \in Inis /\ OptionsOK /\ options \in Options
      /\ Within(options.available, Block(ini))
  BY DEF PlacesInv, HubTypeOK, OptionsOK
<1>2. /\ given \in Seq(Proxies) /\ DOMAIN given = 1 .. Len(given) /\ Len(given) \in Nat
      /\ options.visited \in Nat
  BY <1>1, GivenIs DEF Options
<1>3. /\ \A i \in DOMAIN given :
           /\ given[i].name # CIName
           /\ \E v \in 1 .. options.visited :
                Visits(ini)[v].wanted /\ Visits(ini)[v].section.name = given[i].name
      /\ \A i, j \in DOMAIN given : i # j => given[i].name # given[j].name
  BY DEF NamesOK
<1>4. PICK k : k = options.visited + 1
  OBVIOUS
<1>5. PICK visit : visit = Visits(ini)[k]
  OBVIOUS
<1>6. /\ visit \in VisitRecords
      /\ options.visited + 1 <= Len(Visits(ini))
      /\ \/ UNCHANGED options /\ main' = "failed"
         \/ /\ ~visit.wanted
            /\ options' = [options EXCEPT !.visited = @ + 1]
            /\ main' = main
         \/ /\ visit.wanted /\ main' = main
            /\ Accepts(visit, options)
            /\ options' = addProxy(visit, options)
  BY <1>1, <1>4, <1>5, ParsesAdds
<1>7. CASE UNCHANGED options
  BY <1>3, <1>7 DEF given
<1>8. \A v \in 1 .. options.visited : v \in 1 .. k /\ v # k
  BY <1>2, <1>4
<1>9. CASE ~visit.wanted /\ options' = [options EXCEPT !.visited = @ + 1]
  <2>1. options'.visited = k /\ given' = given
    BY <1>1, <1>4, <1>9 DEF Options, given
  <2> QED BY <1>3, <1>8, <2>1
<1>10. CASE visit.wanted /\ Accepts(visit, options) /\ options' = addProxy(visit, options)
  <2>1. PICK pair, proxy :
          /\ proxy \in Proxies /\ proxy.name = visit.section.name
          /\ options'.given = Append(options.given, proxy)
          /\ options'.visited = k
    BY <1>1, <1>4, <1>6, <1>10, AddsProxy
  <2>2. k \in 1 .. Len(Visits(ini)) /\ k \in 1 .. k
        /\ \A v \in 1 .. options.visited : v \in 1 .. Len(Visits(ini))
    <3>1. Len(Visits(ini)) \in Nat
      BY <1>1, VisitsBegin
    <3> QED BY <1>2, <1>4, <1>6, <3>1
  <2>3. /\ proxy.name # CIName
        /\ \A v \in 1 .. options.visited :
             Visits(ini)[v].wanted => Visits(ini)[v].section.name # proxy.name
    <3>1. Visits(ini)[k].wanted
      BY <1>5, <1>10
    <3>2. /\ Visits(ini)[k].section.name # CIName
          /\ \A w \in 1 .. Len(Visits(ini)) :
               Visits(ini)[w].wanted /\ w # k
                 => Visits(ini)[w].section.name # Visits(ini)[k].section.name
      BY <1>1, <2>2, <3>1, WantedNames
    <3> QED BY <1>5, <1>8, <2>1, <2>2, <3>2
  <2>4. given' = Append(given, proxy)
    BY <2>1 DEF given
  <2>5. /\ DOMAIN given' = 1 .. (Len(given) + 1)
        /\ \A i \in DOMAIN given : given'[i] = given[i]
        /\ given'[Len(given) + 1] = proxy
    <3>1. /\ Append(given, proxy) \in Seq(Proxies)
          /\ Len(Append(given, proxy)) = Len(given) + 1
          /\ \A i \in 1 .. Len(given) : Append(given, proxy)[i] = given[i]
          /\ Append(given, proxy)[Len(given) + 1] = proxy
      BY <1>2, <2>1, AppendProperties
    <3> QED BY <1>2, <2>4, <3>1
  <2>6. \A i \in DOMAIN given' :
          \/ i \in DOMAIN given /\ given'[i] = given[i]
          \/ i = Len(given) + 1 /\ given'[i] = proxy
    BY <1>2, <2>5
  <2>7. \A i \in DOMAIN given : given[i].name # proxy.name
    BY <1>3, <2>3
  <2>8. \A i, j \in DOMAIN given' : i # j => given'[i].name # given'[j].name
    BY <1>3, <2>6, <2>7
  <2>9. ASSUME NEW i \in DOMAIN given'
        PROVE  /\ given'[i].name # CIName
               /\ \E v \in 1 .. options'.visited :
                    Visits(ini)[v].wanted /\ Visits(ini)[v].section.name = given'[i].name
    <3>1. CASE i \in DOMAIN given /\ given'[i] = given[i]
      BY <1>3, <1>8, <2>1, <3>1
    <3>2. CASE given'[i] = proxy
      BY <1>5, <1>10, <2>1, <2>2, <2>3, <3>2
    <3> QED BY <2>6, <3>1, <3>2
  <2> QED BY <2>8, <2>9
<1> QED BY <1>6, <1>7, <1>9, <1>10

LEMMA NamesInvariant == Spec => []NamesOK
<1>1. Init => NamesOK
  <2> SUFFICES ASSUME Init PROVE NamesOK
    OBVIOUS
  <2>1. options = Start(ini)
    BY DEF Init
  <2>2. given = << >>
    BY <2>1 DEF Start, given
  <2> QED BY <2>2 DEF NamesOK
<1>2. TypeInv /\ NamesOK /\ [Next]_vars => NamesOK'
  <2> SUFFICES ASSUME TypeInv, NamesOK, [Next]_vars PROVE NamesOK'
    OBVIOUS
  <2>1. CASE Parses
    BY <2>1, ParsesNames DEF TypeInv
  <2>2. CASE ~Parses
    <3>1. UNCHANGED <<ini, options>>
      BY <2>2, OptionsMove
    <3> QED BY <3>1 DEF NamesOK, given
  <2> QED BY <2>1, <2>2
<1> QED BY <1>1, <1>2, TypeInductive, PTL DEF Spec

-----------------------------------------------------------------------------
(* What is listed stays listed until it is main's turn to remove it, and   *)
(* the operator is bound to the addresses it has come to.                  *)

KeptOK ==
  ini.program = "operator" /\ NamesDiffer(ini) =>
    /\ main \in StartedPlaces \cup {"listing"} =>
         \A i \in DOMAIN given : i < at => given[i].name \in listed
    /\ main = "launching" /\ at = 1 => given[1].name \in listed
    /\ main \in {"binding", "listing"} /\ at = 1 => listed = {CIName}
    /\ main = "closing" => \A i \in DOMAIN given : i >= at => given[i].name \in listed
    /\ main = "halting" => \A i \in DOMAIN given : i > at => given[i].name \in listed

(* An address of the connection information's, or of the first n proxies.  *)
Reached(n, a) ==
  a = ClientAccessAddress(ini)
    \/ \E i \in DOMAIN given : i <= n /\ (a = given[i].front \/ a = given[i].back)

BoundOK ==
  ini.program = "operator" =>
    /\ main \in {"parsing", "authenticators", "directory"} => bound = {}
    /\ main = "binding" => \A a \in bound : Reached(at - 1, a)
    /\ main \in {"launching", "listing"} => \A a \in bound : Reached(at, a)

CausesOK == KeptOK /\ BoundOK

LEMMA CausesKept ==
  CausesOK /\ UNCHANGED hubVars /\ Passes => CausesOK'
<1> SUFFICES ASSUME CausesOK, UNCHANGED hubVars, Passes
             PROVE  CausesOK'
  OBVIOUS
<1> USE DEF Passes
<1>1. UNCHANGED <<ini, at, bound, listed, given>>
  BY DEF hubVars, given
<1>2. KeptOK'
  BY <1>1 DEF CausesOK, KeptOK, Dead, StartedPlaces, ManagerPlaces
<1>3. BoundOK'
  BY <1>1 DEF CausesOK, BoundOK, Reached, Dead, StartedPlaces, ManagerPlaces
<1> QED BY <1>2, <1>3 DEF CausesOK

LEMMA HubStepCauses == PlacesInv /\ NamesOK /\ CausesOK /\ HubStep => CausesOK'
<1> SUFFICES ASSUME PlacesInv, NamesOK, CausesOK, HubStep PROVE CausesOK'
  OBVIOUS
<1> USE DEF StartedPlaces, ManagerPlaces
<1>1. /\ ini \in Inis /\ OptionsOK /\ OperatorOK /\ KeptOK /\ BoundOK
      /\ DOMAIN given = 1 .. Len(given) /\ Len(given) \in Nat /\ at \in 1 .. (Len(given) + 1)
  BY GivenIs DEF PlacesInv, HubTypeOK, CausesOK
<1>2. NamesDiffer(ini) => \A i, j \in DOMAIN given : i # j => given[i].name # given[j].name
  BY DEF NamesOK
<1>3. CASE Parses
  <2>1. main = "parsing" /\ main' \in {"parsing", "failed"} /\ UNCHANGED <<ini, bound>>
    BY <1>3 DEF Parses
  <2> QED BY <1>1, <2>1 DEF CausesOK, KeptOK, BoundOK
<1>4. ASSUME ~Parses PROVE UNCHANGED <<ini, options, given>>
  BY <1>4, OptionsMove DEF HubStep, HasParsed, OpensUsers, InitializesDirectory,
     InitializesNext, LaunchesNext, ListsNext, OpensDirectory, StopsRegistry, UnlistsNext,
     HaltsNext, StopsDirectory, ProxyStep, ProxyRuns, DirectoryStep, DirectoryRuns,
     DirectoryAnswers, DirectoryAsked, DirectoryReads, DirectoryGoes, hubVars, given
<1>5. CASE ~Parses /\ (HasParsed \/ OpensUsers)
  BY <1>1, <1>4, <1>5 DEF HasParsed, OpensUsers, MainGoes, CausesOK, KeptOK, BoundOK, hubVars
<1>6. CASE ~Parses /\ InitializesDirectory
  <2>1. /\ main = "directory" /\ main' \in {"binding", "aborted"} /\ at' = at
        /\ listed' = {CIName}
        /\ bound' \subseteq bound \cup {ClientAccessAddress(ini)}
    BY <1>6 DEF InitializesDirectory, MainGoes
  <2>2. ini.program = "operator" =>
          /\ \A i \in DOMAIN given : ~(i < at)
          /\ bound = {}
    BY <1>1, <2>1 DEF OperatorOK, BoundOK
  <2> QED BY <1>4, <1>6, <2>1, <2>2 DEF CausesOK, KeptOK, BoundOK, Reached
<1>7. CASE ~Parses /\ InitializesNext
  <2>1. /\ main = "binding" /\ main' \in {"launching", "listing", "aborted"}
        /\ main' = "launching" => at # 1
        /\ at \in DOMAIN given
        /\ UNCHANGED <<ini, at, listed, given>>
        /\ bound' \subseteq bound \cup {given[at].front, given[at].back}
    BY <1>1, <1>4, <1>7, GoesOnMoves DEF InitializesNext
  <2>2. \A i \in DOMAIN given : i <= at - 1 => i <= at
    BY <1>1
  <2>3. ASSUME ini.program = "operator", NEW a \in bound' PROVE Reached(at, a)
    <3>1. CASE a \in bound
      BY <1>1, <2>1, <2>2, <2>3, <3>1 DEF BoundOK, Reached
    <3>2. CASE a \in {given[at].front, given[at].back}
      <4>1. at <= at
        BY <1>1
      <4> QED BY <2>1, <3>2, <4>1 DEF Reached
    <3> QED BY <2>1, <2>3, <3>1, <3>2
  <2>4. BoundOK'
    BY <2>1, <2>3 DEF BoundOK, Reached
  <2>5. KeptOK'
    BY <1>1, <2>1 DEF KeptOK
  <2> QED BY <2>4, <2>5 DEF CausesOK
<1>8. CASE ~Parses /\ LaunchesNext
  <2>1. /\ main = "launching" /\ UNCHANGED <<ini, listed, bound, given>>
        /\ \/ main' \in {"aborted", "hung"} /\ at' = at
           \/ main' = "binding" /\ at = 1 /\ at' = 2
           \/ main' = "listing" /\ at # 1 /\ at' = at
    BY <1>1, <1>4, <1>8, GoesOnMoves DEF LaunchesNext
  <2>2. KeptOK'
    <3>1. at = 1 => \A i \in DOMAIN given : i < 2 => i = 1
      BY <1>1
    <3> QED BY <1>1, <2>1, <3>1 DEF KeptOK
  <2>3. BoundOK'
    <3>1. at' = 2 => at' - 1 = 1
      BY <2>1
    <3> QED BY <1>1, <2>1, <3>1 DEF BoundOK, Reached
  <2> QED BY <2>2, <2>3 DEF CausesOK
<1>9. CASE ~Parses /\ ListsNext
  <2>1. /\ main = "listing" /\ UNCHANGED <<ini, bound, given>>
        /\ \/ main' = "aborted"
           \/ /\ listed' = listed \cup {given[at].name}
              /\ \/ main' = "launching" /\ at = 1 /\ at' = at
                 \/ main' = "binding" /\ at # 1 /\ at' = at + 1
    BY <1>4, <1>9, GoesOnMoves DEF ListsNext
  <2>2. \A i \in DOMAIN given : i < at + 1 => i < at \/ i = at
    BY <1>1
  <2>3. at + 1 - 1 = at /\ at + 1 # 1
    BY <1>1
  <2>4. KeptOK'
    BY <1>1, <2>1, <2>2, <2>3 DEF KeptOK
  <2>5. BoundOK'
    BY <1>1, <2>1, <2>3 DEF BoundOK, Reached
  <2> QED BY <2>4, <2>5 DEF CausesOK
<1>10. CASE ~Parses /\ OpensDirectory
  <2>1. /\ main = "binding" /\ main' = "processes" /\ UNCHANGED <<ini, at, listed, given>>
    BY <1>4, <1>10 DEF OpensDirectory, MainGoes
  <2> QED BY <1>1, <2>1 DEF CausesOK, KeptOK, BoundOK
<1>11. CASE ~Parses /\ StopsRegistry
  <2>1. /\ main = "managed" /\ UNCHANGED <<ini, listed, given>>
        /\ main' \in {"closing", "hung", "left"}
    BY <1>4, <1>11 DEF StopsRegistry
  <2>2. ini.program = "operator" => \A i \in DOMAIN given : i < at
    BY <1>1, <2>1 DEF OperatorOK
  <2> QED BY <1>1, <2>1, <2>2 DEF CausesOK, KeptOK, BoundOK
<1>12. CASE ~Parses /\ UnlistsNext
  <2>1. /\ main = "closing" /\ main' \in {"halting", "aborted"} /\ at \in DOMAIN given
        /\ UNCHANGED <<ini, at, given>>
        /\ main' = "halting" => listed' = listed \ {given[at].name}
    BY <1>1, <1>4, <1>12 DEF UnlistsNext, MainGoes
  <2>2. \A i \in DOMAIN given : i > at => i >= at /\ i # at
    BY <1>1
  <2> QED BY <1>1, <1>2, <2>1, <2>2 DEF CausesOK, KeptOK, BoundOK
<1>13. CASE ~Parses /\ HaltsNext
  <2>1. /\ main = "halting" /\ UNCHANGED <<ini, listed, given>>
        /\ (main' = "closing" /\ at' = at + 1) \/ main' = "hung"
    BY <1>4, <1>13 DEF HaltsNext, MainGoes
  <2>2. \A i \in DOMAIN given : i >= at + 1 => i > at
    BY <1>1
  <2> QED BY <1>1, <2>1, <2>2 DEF CausesOK, KeptOK, BoundOK
<1>14. CASE ~Parses /\ StopsDirectory
  BY <1>4, <1>14 DEF StopsDirectory, MainGoes, CausesOK, KeptOK, BoundOK
<1>15. CASE ~Parses /\ (ProxyStep \/ DirectoryStep \/ DirectoryAsked)
  <2>1. UNCHANGED <<main, ini, at, listed, bound, given>>
    BY <1>4, <1>15 DEF ProxyStep, ProxyRuns, DirectoryStep, DirectoryAsked, DirectoryRuns,
                       DirectoryAnswers, DirectoryReads, DirectoryGoes
  <2>2. KeptOK'
    BY <1>1, <2>1 DEF KeptOK
  <2>3. BoundOK'
    BY <1>1, <2>1 DEF BoundOK, Reached
  <2> QED BY <2>2, <2>3 DEF CausesOK
<1> QED BY <1>3, <1>5, <1>6, <1>7, <1>8, <1>9, <1>10, <1>11, <1>12, <1>13, <1>14, <1>15
        DEF HubStep

LEMMA CausesInvariant == Spec => []CausesOK
<1>1. Init => CausesOK
  BY DEF Init, CausesOK, KeptOK, BoundOK, Reached, StartedPlaces, ManagerPlaces
<1>2. TypeInv /\ NamesOK /\ CausesOK /\ [Next]_vars => CausesOK'
  <2> SUFFICES ASSUME TypeInv, NamesOK, CausesOK, [Next]_vars PROVE CausesOK'
    OBVIOUS
  <2> QED BY OthersPass, HubStepCauses, CausesKept DEF TypeInv
<1> QED BY <1>1, <1>2, TypeInductive, NamesInvariant, PTL DEF Spec

-----------------------------------------------------------------------------
(* Why a program ends in an error.                                         *)

(* Which section a visit is for.                                           *)
LEMMA VisitsKinds ==
  ASSUME NEW file \in Inis, NEW v \in 1 .. Len(Visits(file)),
         NEW visit, visit = Visits(file)[v]
  PROVE  /\ visit.kind = "registry" => visit.section = file.registry
         /\ visit.kind = "service" => visit.section \in ToSet(file.services)
<1>1. PICK b, s : b = Len(file.broadcasts) /\ s = Len(file.services)
  OBVIOUS
<1>2. VisitsOf(file, b, s)
  BY <1>1, VisitsAre
<1>3. b \in Nat /\ s \in Nat /\ v \in 1 .. 1 + b + b + s
  BY <1>2 DEF VisitsOf
<1>4. CASE v = 1
  <2>1. visit = Visit("registry", file.registry, TRUE)
    BY <1>2, <1>4 DEF VisitsOf
  <2>2. visit.kind = "registry" /\ visit.section = file.registry
    BY <2>1 DEF Visit
  <2> QED BY <2>2
<1>5. CASE v > 1 /\ v <= 1 + b + b
  <2>1. PICK i \in 1 .. b : v = 1 + i \/ v = 1 + b + i
    <3>1. CASE v <= 1 + b
      <4>1. v - 1 \in 1 .. b /\ v = 1 + (v - 1)
        BY <1>3, <1>5, <3>1
      <4> QED BY <4>1
    <3>2. CASE v > 1 + b
      <4>1. v - (1 + b) \in 1 .. b /\ v = 1 + b + (v - (1 + b))
        BY <1>3, <1>5, <3>2
      <4> QED BY <4>1
    <3> QED BY <1>3, <3>1, <3>2
  <2>2. PICK wanted : visit = Visit("broadcast", file.broadcasts[i], wanted)
    BY <1>2, <2>1 DEF VisitsOf
  <2>3. visit.kind = "broadcast"
    BY <2>2 DEF Visit
  <2> QED BY <2>3
<1>6. CASE v > 1 + b + b
  <2>1. PICK i \in 1 .. s : v = 1 + b + b + i
    <3>1. v - (1 + b + b) \in 1 .. s /\ v = 1 + b + b + (v - (1 + b + b))
      BY <1>3, <1>6
    <3> QED BY <3>1
  <2>2. visit = Visit("service", file.services[i], TRUE)
    BY <1>2, <2>1 DEF VisitsOf
  <2>3. visit.kind = "service" /\ visit.section = file.services[i]
    BY <2>2 DEF Visit
  <2>4. DOMAIN file.services = 1 .. s
    <3>1. file.services \in Seq(SectionRecords)
      BY IniAssumption DEF SectionRecords
    <3> QED BY <1>1, <3>1
  <2> QED BY <2>3, <2>4 DEF ToSet
<1> QED BY <1>3, <1>4, <1>5, <1>6

(* A readable file with room whose proposals do not clash is accepted.     *)
LEMMA FileAccepted ==
  ASSUME TypeInv, SocketsOK, Parses, main' # main, LeavesRoom(ini), Readable(ini)
  PROVE  HalfProposed(ini)
<1>1. /\ ini \in Inis /\ OptionsOK /\ options \in Options
      /\ Within(options.available, Block(ini)) /\ options.visited \in Nat
      /\ HasRoom(ini, options)
  BY DEF TypeInv, PlacesInv, HubTypeOK, OptionsOK, Options, SocketsOK
<1>2. PICK k : k = options.visited + 1
  OBVIOUS
<1>3. PICK visit : visit = Visits(ini)[k]
  OBVIOUS
<1>4. visit.wanted /\ ~Accepts(visit, options)
  BY <1>2, <1>3 DEF Parses
<1>5. k \in 1 .. Len(Visits(ini))
  <2>1. Len(Visits(ini)) \in Nat
    BY <1>1, VisitsBegin
  <2>2. options.visited + 1 <= Len(Visits(ini))
    BY <1>1, <2>1 DEF Parses
  <2> QED BY <1>1, <1>2, <2>1, <2>2
<1>6. visit \in VisitRecords
  <2>1. Visits(ini) \in Seq(VisitRecords)
    BY <1>1, VisitsBegin
  <2> QED BY <1>3, <1>5, <2>1
<1>7. visit.section \in SectionRecords /\ visit.kind \in Kinds
  BY <1>6 DEF VisitRecords
<1>8. visit.section \in Sections(ini) /\ Wanted(ini, k)
  <2>1. SectionOf(visit, ini)
    BY <1>1, <1>3, <1>5, VisitsName
  <2>2. Wanted(ini, k)
    BY <1>1, <1>3, <1>4, <1>5, VisitsWanted
  <2> QED BY <2>1, <2>2 DEF SectionOf
<1>9. PICK after, room :
        /\ after = Cardinality(SectionsAfter(ini, k))
        /\ room = Cardinality(Room(ini, options.available, options.used))
  OBVIOUS
<1>10. room \in Nat /\ after \in Nat /\ room >= 2 * after + 2
  BY <1>1, <1>2, <1>8, <1>9, EnoughRoom
<1>11. room >= 2
  BY <1>10
<1>12. PICK pair : pair = makeNewFrontendBackendAddress(visit.section, options)
  OBVIOUS
<1>13. pair.ok /\ pair.front # pair.back
  BY <1>1, <1>8, <1>9, <1>11, <1>12, FreshPair
<1>14. pair.front \in Addresses
  BY <1>1, <1>7, <1>12, <1>13, NextPair
<1>15. ~SettersAccept(visit.kind, visit.section, pair)
  BY <1>4, <1>12, <1>13 DEF Accepts
<1>16. \/ visit.kind = "service" /\ visit.section.back # NoAddress
       \/ /\ visit.kind = "registry" /\ visit.section.front # NoAddress
          /\ visit.section.front = visit.section.back
  BY <1>13, <1>14, <1>15 DEF SettersAccept, Addresses
<1>17. /\ visit.kind = "registry" => visit.section = ini.registry
       /\ visit.kind = "service" => visit.section \in ToSet(ini.services)
  BY <1>1, <1>3, <1>5, VisitsKinds
<1> QED BY <1>16, <1>17 DEF HalfProposed

(* With names that differ every proxy is entered under its own key.        *)
LEMMA FirstIsOwn ==
  ASSUME TypeInv, NamesOK, NamesDiffer(ini), NEW i \in DOMAIN given
  PROVE  First(i) = i
<1>1. /\ DOMAIN given = 1 .. Len(given) /\ Len(given) \in Nat
      /\ \A j, k \in DOMAIN given : j # k => given[j].name # given[k].name
  BY GivenIs DEF TypeInv, PlacesInv, NamesOK
<1>2. \A j \in 1 .. i : j \in DOMAIN given
  BY <1>1
<1>3. i \in 1 .. i
  BY <1>1
<1>4. {j \in 1 .. i : given[j].kind = given[i].kind /\ given[j].name = given[i].name} = {i}
  BY <1>1, <1>2, <1>3
<1>5. Min({i}) = i
  <2>1. {i} \in SUBSET Nat /\ {i} # {}
    BY <1>1
  <2> QED BY <2>1, LeastIn
<1> QED BY <1>4, <1>5 DEF First

(* And the addresses of one proxy are not bound before it.                 *)
LEMMA NextBinds ==
  ASSUME TypeInv, SocketsOK, CausesOK, LeavesRoom(ini), ini.occupied = {},
         ini.program = "operator", main = "binding", at \in DOMAIN given
  PROVE  /\ given[at].front # given[at].back
         /\ Bindable({given[at].front, given[at].back})
<1>1. /\ ClientAccessAddress(ini) \notin options.used
      /\ \A i \in DOMAIN given :
           /\ given[i].front \in options.used /\ given[i].back \in options.used
           /\ given[i].front # given[i].back
      /\ \A i, j \in DOMAIN given : i # j => Apart(given[i], given[j])
  BY DEF SocketsOK
<1>2. \A a \in bound : Reached(at - 1, a)
  BY DEF CausesOK, BoundOK
<1>3. \A i \in DOMAIN given : i <= at - 1 => i # at
  <2>1. DOMAIN given = 1 .. Len(given) /\ Len(given) \in Nat
    BY GivenIs DEF TypeInv, PlacesInv
  <2> QED BY <2>1
<1>4. ASSUME NEW a \in bound PROVE a # given[at].front /\ a # given[at].back
  <2>1. CASE a = ClientAccessAddress(ini)
    BY <1>1, <2>1
  <2>2. CASE a # ClientAccessAddress(ini)
    <3>1. PICK i \in DOMAIN given :
            i <= at - 1 /\ (a = given[i].front \/ a = given[i].back)
      BY <1>2, <2>2 DEF Reached
    <3>2. Apart(given[i], given[at])
      BY <1>1, <1>3, <3>1
    <3> QED BY <3>1, <3>2 DEF Apart
  <2> QED BY <2>1, <2>2
<1> QED BY <1>1, <1>4 DEF Bindable

(* A program ends in an error only for the reasons listed: with a file     *)
(* that is readable, leaves room and whose proposals and names do not      *)
(* clash, on a machine whose addresses are free, what remains are the      *)
(* users' table, the command service and the two races.                    *)
THEOREM EndsForCauseHolds == Spec => EndsForCause
<1> DEFINE Cause ==
      \/ main = "parsing" /\ (~Readable(ini) \/ ~LeavesRoom(ini) \/ HalfProposed(ini))
      \/ main = "authenticators" /\ ini.guarded
      \/ main \in {"directory", "binding"} /\ (~LeavesRoom(ini) \/ ini.occupied # {})
      \/ main \in {"launching", "listing"} /\ ~NamesDiffer(ini)
      \/ main = "processes"
      \/ main = "closing" /\ (directory = "reading" \/ ~NamesDiffer(ini))
      \/ main = "installing" /\ managing
      \/ CopiesFreedStatus
<1>1. ASSUME TypeInv, SocketsOK, NamesOK, CausesOK, Next,
             main' \in {"aborted", "failed"}, main' # main
      PROVE  Cause
  <2>0. /\ ini \in Inis /\ OptionsOK /\ OperatorOK
        /\ DOMAIN given = 1 .. Len(given) /\ Len(given) \in Nat /\ at \in 1 .. (Len(given) + 1)
    BY <1>1, GivenIs DEF TypeInv, PlacesInv, HubTypeOK
  <2>1. CASE HubStep
    <3>1. CASE main \in HubPlaces
      <4>0. ini.program = "operator"
        BY <1>1, <3>1, OperatorsPlace DEF TypeInv
      <4>1. CASE Parses
        <5>1. main = "parsing"
          BY <4>1 DEF Parses
        <5> QED BY <1>1, <4>1, <5>1, FileAccepted
      <4>2. CASE OpensUsers
        BY <1>1, <4>2 DEF OpensUsers, MainGoes
      <4>3. CASE InitializesDirectory
        <5>1. main = "directory" /\ ~Bindable({ClientAccessAddress(ini)})
          BY <1>1, <4>3 DEF InitializesDirectory, MainGoes
        <5>2. bound = {}
          BY <1>1, <4>0, <5>1 DEF CausesOK, BoundOK
        <5> QED BY <5>1, <5>2 DEF Bindable
      <4>4. CASE InitializesNext
        <5>1. /\ main = "binding" /\ at \in DOMAIN given
              /\ \/ given[at].front = given[at].back
                 \/ ~Bindable({given[at].front, given[at].back})
          BY <1>1, <2>0, <4>4, GoesOnMoves DEF InitializesNext
        <5> QED BY <1>1, <4>0, <5>1, NextBinds
      <4>5. CASE LaunchesNext
        <5>1. main = "launching" /\ First(at) # at
          BY <1>1, <4>5, GoesOnMoves DEF LaunchesNext
        <5>2. at \in DOMAIN given
          BY <2>0, <4>0, <5>1 DEF OperatorOK
        <5> QED BY <1>1, <5>1, <5>2, FirstIsOwn
      <4>6. CASE UnlistsNext
        <5>1. /\ main = "closing" /\ at \in DOMAIN given
              /\ given[at].name \notin listed \/ directory = "reading"
          BY <1>1, <2>0, <4>6 DEF UnlistsNext, MainGoes
        <5>2. at >= at
          BY <2>0
        <5>3. NamesDiffer(ini) => given[at].name \in listed
          BY <1>1, <4>0, <5>1, <5>2 DEF CausesOK, KeptOK
        <5> QED BY <5>1, <5>3
      <4>7. CASE ListsNext
        <5>1. main = "listing" /\ at = 1 /\ given[1].name \in listed
          BY <1>1, <4>7, GoesOnMoves DEF ListsNext
        <5>2. 1 \in DOMAIN given
          BY <1>1, <4>0, <5>1 DEF OperatorOK, TypeInv, PlacesInv
        <5>3. NamesDiffer(ini) => listed = {CIName} /\ given[1].name # CIName
          BY <1>1, <4>0, <5>1, <5>2 DEF CausesOK, KeptOK, NamesOK
        <5> QED BY <5>1, <5>3
      <4> QED BY <1>1, <2>1, <4>1, <4>2, <4>3, <4>4, <4>5, <4>6, <4>7
              DEF HubStep, HasParsed, OpensDirectory, StopsRegistry, HaltsNext,
                  StopsDirectory, ProxyStep, ProxyRuns, DirectoryStep, DirectoryRuns,
                  DirectoryAnswers, DirectoryAsked, DirectoryReads, DirectoryGoes, MainGoes
    <3>2. CASE main \notin HubPlaces
      BY <1>1, <2>1, <3>2
         DEF HubStep, Parses, HasParsed, OpensUsers, InitializesDirectory, InitializesNext,
             LaunchesNext, ListsNext, OpensDirectory, StopsRegistry, UnlistsNext, HaltsNext,
             StopsDirectory, ProxyStep, ProxyRuns, DirectoryStep, DirectoryRuns,
             DirectoryAnswers, DirectoryAsked, DirectoryReads, DirectoryGoes, MainGoes,
             GoesOn, HubPlaces
    <3> QED BY <3>1, <3>2
  <2>2. CASE CreatesProcesses
    BY <2>2 DEF CreatesProcesses
  <2>3. CASE ManagerStep
    <3>1. main = "installing" /\ managing
      BY <1>1, <2>3 DEF ManagerStep, ManagerResets, StartsNext, ManagerRuns, InsertsLate,
         LinksLate, CatchesSignals, MainLooks, MainWakes, StopsHeartbeat, StopsCommands, JoinsNext,
         ManagerStopped, MainGoes
    <3> QED BY <3>1
  <2>4. CASE ProcessStep
    BY <1>1, <2>4, ProcessStepKeeps
  <2>5. CASE EndingStep
    BY <1>1, <2>5 DEF EndingStep, Signalled, CopyCrashes
  <2>6. CASE DestroyStep
    BY <1>1, <2>6, DestroyStepMoves
  <2> QED BY <1>1, <2>1, <2>2, <2>3, <2>4, <2>5, <2>6, NextIs
<1>2. TypeInv /\ SocketsOK /\ NamesOK /\ CausesOK /\ [Next]_vars =>
        [main' \in {"aborted", "failed"} /\ main' # main => Cause]_vars
  BY <1>1
<1> QED BY <1>2, TypeInductive, SocketsInvariant, NamesInvariant, CausesInvariant, PTL
        DEF Spec, EndsForCause
=============================================================================

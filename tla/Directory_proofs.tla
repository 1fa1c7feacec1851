--------------------------- MODULE Directory_proofs ---------------------------
(***************************************************************************)
(* The remote command system implements the directory of leases, for any   *)
(* number of modules, connections and clients, any ping ladder, and any of *)
(* the bounds.  The owner of a name and its silence are functions of the   *)
(* map of modules, so there is one lemma per way in which the map changes, *)
(* and each is a step of the directory or none; that an erasure is a       *)
(* release or an expiry is what the invariants of Eviction_proofs are for. *)
(***************************************************************************)
EXTENDS Eviction_proofs

(* What the invariants say of the map: its entries are entries, about the  *)
(* module of their connection, and no two of them about one module.        *)
Registry(map) ==
  /\ MapOK(map)
  /\ \A w \in DOMAIN map : map[w].details = Details[w]
  /\ \A v, w \in DOMAIN map : map[v].details = map[w].details => v = w

(* A name has the one owner that is registered for it.                     *)
LEMMA OwnerProperties ==
  ASSUME NEW map, Registry(map)
  PROVE  /\ \A w \in DOMAIN map : /\ w \in Workers /\ Details[w] \in Modules
                                  /\ GetAddress(map, Details[w]) = w
         /\ \A m : GetAddress(map, m) # NoAddress =>
              GetAddress(map, m) \in DOMAIN map /\ Details[GetAddress(map, m)] = m
         /\ \A w \in Workers : w # NoAddress
<1>1. MapOK(map)
  BY DEF Registry
<1>2. \A m : GetAddress(map, m) # NoAddress =>
        GetAddress(map, m) \in DOMAIN map /\ map[GetAddress(map, m)].details = m
  BY <1>1, GetAddressProperties
<1>3. ASSUME NEW w \in DOMAIN map PROVE GetAddress(map, Details[w]) = w
  <2>1. ContainsDetails(map, Details[w])
    BY DEF Registry, ContainsDetails
  <2>2. GetAddress(map, Details[w]) # NoAddress
    BY <1>1, <2>1, GetAddressProperties
  <2> QED BY <1>2, <2>2 DEF Registry
<1> QED BY <1>1, <1>2, <1>3, DetailsAssumption, AddressAssumption DEF MapOK, Registry

(* Who owns a name depends on the connections for that name alone.         *)
LEMMA OwnerKept ==
  ASSUME NEW old, Registry(old), NEW new, Registry(new), NEW m,
         \A w \in Workers : Details[w] = m => (w \in DOMAIN old <=> w \in DOMAIN new)
  PROVE  GetAddress(new, m) = GetAddress(old, m)
<1>1. CASE GetAddress(old, m) # NoAddress
  BY <1>1, OwnerProperties
<1>2. CASE GetAddress(new, m) # NoAddress
  BY <1>2, OwnerProperties
<1> QED BY <1>1, <1>2

(* The owner of a name and its silence, as functions of the map.           *)
Owners(map) == [m \in Modules |-> GetAddress(map, m)]

Silences(map) ==
  [m \in Modules |->
    IF GetAddress(map, m) = NoAddress THEN 0 ELSE map[GetAddress(map, m)].silence]

(* A map with the same addresses has the same owners.                      *)
LEMMA OwnersKept ==
  ASSUME NEW old, Registry(old), NEW new, Registry(new), DOMAIN new = DOMAIN old
  PROVE  Owners(new) = Owners(old)
BY OwnerKept DEF Owners

(* An insertion is a claim of a free name.                                 *)
LEMMA InsertClaims ==
  ASSUME Registry(modules), Registry(modules)', NEW w \in Workers, Registers(w)
  PROVE  /\ Owners(modules)[Details[w]] = NoAddress
         /\ Owners(modules)' = [Owners(modules) EXCEPT ![Details[w]] = w]
         /\ Silences(modules)' = Silences(modules)
<1> DEFINE n == Details[w]
<1>1. /\ n \in Modules /\ ~ContainsDetails(modules, n) /\ w \notin DOMAIN modules
      /\ DOMAIN modules' = DOMAIN modules \cup {w}
      /\ modules'[w].silence = 0
      /\ \A x \in DOMAIN modules : modules'[x] = modules[x]
  BY DetailsAssumption DEF Registers, Registry, ContainsDetails, Insert, NewEntry
<1>2. GetAddress(modules, n) = NoAddress
  BY <1>1 DEF GetAddress
<1>3. GetAddress(modules', n) = w
  BY <1>1, OwnerProperties
<1>4. ASSUME NEW m \in Modules, m # n
      PROVE  GetAddress(modules', m) = GetAddress(modules, m)
  BY <1>1, <1>4, OwnerKept
<1>5. ASSUME NEW m \in Modules
      PROVE  /\ Owners(modules)'[m] = [Owners(modules) EXCEPT ![n] = w][m]
             /\ Silences(modules)'[m] = Silences(modules)[m]
  <2>1. CASE m = n
    BY <1>1, <1>2, <1>3, <2>1, OwnerProperties DEF Owners, Silences
  <2>2. CASE m # n
    <3>1. GetAddress(modules, m) # NoAddress => GetAddress(modules, m) \in DOMAIN modules
      BY OwnerProperties
    <3> QED BY <1>1, <1>4, <2>2, <3>1 DEF Owners, Silences
  <2> QED BY <2>1, <2>2
<1> HIDE DEF n
<1>6. Owners(modules)' = [Owners(modules) EXCEPT ![n] = w]
  BY <1>5 DEF Owners
<1>7. Silences(modules)' = Silences(modules)
  BY <1>5 DEF Silences
<1> QED BY <1>1, <1>2, <1>6, <1>7 DEF Owners, n

(* An erasure frees the name.                                              *)
LEMMA EraseFrees ==
  ASSUME Registry(modules), Registry(modules)', NEW w \in DOMAIN modules,
         modules' = Erase(modules, w)
  PROVE  /\ Owners(modules)' = [Owners(modules) EXCEPT ![Details[w]] = NoAddress]
         /\ Silences(modules)' = [Silences(modules) EXCEPT ![Details[w]] = 0]
<1> DEFINE n == Details[w]
<1>1. /\ n \in Modules /\ GetAddress(modules, n) = w
      /\ DOMAIN modules' = DOMAIN modules \ {w}
      /\ \A x \in DOMAIN modules' : modules'[x] = modules[x]
  BY OwnerProperties DEF Erase
<1>2. GetAddress(modules', n) = NoAddress
  BY <1>1, OwnerProperties
<1>3. ASSUME NEW m \in Modules, m # n
      PROVE  GetAddress(modules', m) = GetAddress(modules, m)
  BY <1>1, <1>3, OwnerKept
<1>4. ASSUME NEW m \in Modules
      PROVE  /\ Owners(modules)'[m] = [Owners(modules) EXCEPT ![n] = NoAddress][m]
             /\ Silences(modules)'[m] = [Silences(modules) EXCEPT ![n] = 0][m]
  <2>1. CASE m = n
    BY <1>1, <1>2, <2>1 DEF Owners, Silences
  <2>2. CASE m # n
    <3>1. GetAddress(modules', m) # NoAddress => GetAddress(modules', m) \in DOMAIN modules'
      BY OwnerProperties
    <3> QED BY <1>1, <1>3, <2>2, <3>1 DEF Owners, Silences
  <2> QED BY <2>1, <2>2
<1> HIDE DEF n
<1>5. Owners(modules)' = [Owners(modules) EXCEPT ![n] = NoAddress]
  BY <1>4 DEF Owners
<1>6. Silences(modules)' = [Silences(modules) EXCEPT ![n] = 0]
  BY <1>4 DEF Silences
<1> QED BY <1>5, <1>6 DEF n

(* A response is heard from the owner.                                     *)
LEMMA UpdateHears ==
  ASSUME Registry(modules), Registry(modules)', NEW w \in DOMAIN modules,
         modules' = UpdateLastResponseToNow(modules, w)
  PROVE  /\ Owners(modules)' = Owners(modules)
         /\ Silences(modules)' = [Silences(modules) EXCEPT ![Details[w]] = 0]
<1> DEFINE n == Details[w]
<1>1. /\ n \in Modules /\ GetAddress(modules, n) = w /\ w # NoAddress
      /\ DOMAIN modules' = DOMAIN modules
      /\ modules'[w].silence = 0
      /\ \A x \in DOMAIN modules \ {w} : modules'[x] = modules[x]
  <2>1. n \in Modules /\ GetAddress(modules, n) = w /\ w # NoAddress
    BY OwnerProperties
  <2>2. MapOK(modules)
    BY DEF Registry
  <2> QED BY <2>1, <2>2, UpdateProperties
<1>2. Owners(modules)' = Owners(modules)
  BY <1>1, OwnersKept
<1>3. ASSUME NEW m \in Modules
      PROVE  Silences(modules)'[m] = [Silences(modules) EXCEPT ![n] = 0][m]
  <2>1. GetAddress(modules', m) = GetAddress(modules, m)
    BY <1>1, OwnerKept
  <2>2. CASE m = n
    BY <1>1, <2>1, <2>2 DEF Silences
  <2>3. CASE m # n
    <3>1. GetAddress(modules, m) # NoAddress => GetAddress(modules, m) \in DOMAIN modules \ {w}
      BY <2>3, OwnerProperties
    <3> QED BY <1>1, <2>1, <2>3, <3>1 DEF Silences
  <2> QED BY <2>2, <2>3
<1> HIDE DEF n
<1>4. Silences(modules)' = [Silences(modules) EXCEPT ![n] = 0]
  BY <1>3 DEF Silences
<1> QED BY <1>2, <1>4 DEF n

(* The directory sees of the map whose entries there are, and how silent.  *)
LEMMA SameEntriesStutter ==
  ASSUME Registry(modules), Registry(modules)', DOMAIN modules' = DOMAIN modules,
         \A x \in DOMAIN modules : modules'[x].silence = modules[x].silence
  PROVE  Owners(modules)' = Owners(modules) /\ Silences(modules)' = Silences(modules)
<1>1. Owners(modules)' = Owners(modules)
  BY OwnersKept
<1>2. ASSUME NEW m \in Modules
      PROVE  Silences(modules)'[m] = Silences(modules)[m]
  <2>1. GetAddress(modules', m) = GetAddress(modules, m)
    BY OwnerKept
  <2>2. GetAddress(modules, m) # NoAddress => GetAddress(modules, m) \in DOMAIN modules
    BY OwnerProperties
  <2> QED BY <2>1, <2>2 DEF Silences
<1>3. Silences(modules)' = Silences(modules)
  BY <1>2 DEF Silences
<1> QED BY <1>1, <1>3

(* A tick adds to the silence of every owner that is not overdue.          *)
LEMMA OlderWaits ==
  ASSUME Registry(modules), Registry(modules)', modules' = GrowOlder(modules)
  PROVE  /\ Owners(modules)' = Owners(modules)
         /\ Silences(modules)' =
              [m \in Modules |->
                IF Owners(modules)[m] # NoAddress /\ Silences(modules)[m] <= ModuleTimeOut
                THEN Silences(modules)[m] + 1 ELSE Silences(modules)[m]]
<1>1. DOMAIN modules' = DOMAIN modules /\ ModuleTimeOut \in Nat
  BY LadderBounds DEF GrowOlder
<1>2. Owners(modules)' = Owners(modules)
  BY <1>1, OwnersKept
<1>3. ASSUME NEW x \in DOMAIN modules
      PROVE  /\ modules[x].silence \in 0..(ModuleTimeOut + 1)
             /\ modules'[x].silence = IF modules[x].silence <= ModuleTimeOut
                                      THEN modules[x].silence + 1
                                      ELSE modules[x].silence
  <2>1. modules[x].silence \in 0..(ModuleTimeOut + 1)
    BY DEF Registry, MapOK, Entry, Overdue
  <2>2. modules'[x].silence = IF modules[x].silence < ModuleTimeOut + 1
                              THEN modules[x].silence + 1 ELSE ModuleTimeOut + 1
    BY DEF GrowOlder, Overdue, Registry, MapOK, Entry
  <2> QED BY <1>1, <2>1, <2>2
<1>4. ASSUME NEW m \in Modules
      PROVE  Silences(modules)'[m] =
               IF Owners(modules)[m] # NoAddress /\ Silences(modules)[m] <= ModuleTimeOut
               THEN Silences(modules)[m] + 1 ELSE Silences(modules)[m]
  <2>1. GetAddress(modules', m) = GetAddress(modules, m)
    BY <1>1, OwnerKept
  <2>2. GetAddress(modules, m) # NoAddress => GetAddress(modules, m) \in DOMAIN modules
    BY OwnerProperties
  <2> QED BY <1>3, <2>1, <2>2 DEF Silences, Owners
<1>5. Silences(modules)' = [m \in Modules |-> Silences(modules)'[m]]
  BY DEF Silences
<1> QED BY <1>2, <1>4, <1>5

(* A module that serves is dropped only when it is overdue.                *)
LEMMA DropsForCause ==
  ASSUME TypeOK, RepliersOK, KillOK, [Next]_vars,
         NEW w \in DOMAIN modules, w \notin DOMAIN modules'
  PROVE  w \notin Serving \/ Expired(modules[w])
<1>1. MapOK(modules) /\ modules' # modules
  BY DEF TypeOK, ProxyTypeOK, MapOK
<1>2. CASE PingerErases
  <2>1. killQueue # <<>> /\ w = Head(killQueue)
    BY <1>2 DEF PingerErases, Erase
  <2>2. w \in Elements(killQueue)
    BY <2>1, TailElements DEF TypeOK, ProxyTypeOK
  <2> QED BY <2>2 DEF KillOK, Doomed
<1>3. ASSUME NEW x \in Workers, HandleMessagesFromBackend(x)
      PROVE  w \notin Serving
  <2>1. toProxy[x] # <<>> /\ toProxy[x] \in Seq(MessagesToProxy)
    BY <1>3 DEF HandleMessagesFromBackend, TypeOK, NetworkTypeOK
  <2>2. HandleDeregister(x) \/ HandleTerminateResponse(x)
    BY <1>1, <1>3 DEF HandleMessagesFromBackend, HandleRegister, HandlePingResponse,
       PropagateToFrontend, Insert
  <2>3. w = x /\ Head(toProxy[x]).type \in Closing
    BY <1>1, <2>2 DEF HandleDeregister, HandleTerminateResponse, PollerErases, Erase, Closing
  <2>4. Over(x)
    BY <2>1, <2>3, TailKinds DEF RepliersOK, ReplierOK
  <2> QED BY <2>3, <2>4 DEF Over, Serving
<1>4. ASSUME Pinger PROVE PingerErases
  <2>1. ASSUME NEW x \in Workers, PingerVisits(x) \/ PingerUpdates(x) PROVE FALSE
    BY <1>1, <2>1, UpdateProperties, MarkProperties, NextRungProperties
    DEF PingerVisits, PingerExpires, PingerPings, PingerUpdates
  <2> QED BY <1>1, <1>4, <2>1 DEF Pinger, PingerWakes, PingerBeginsWalk, PingerEndsWalk,
             PingerNaps
<1>5. ASSUME Poller PROVE \E x \in Workers : HandleMessagesFromBackend(x)
  <2>1. ASSUME NEW c \in Clients, PollerHandlesFrontend(c) PROVE FALSE
    BY <1>1, <2>1 DEF PollerHandlesFrontend
  <2> QED BY <1>1, <1>5, <2>1 DEF Poller, PollerHandlesBackend, PollerAwaits,
     PollerLeavesLoop, PollerFrontendQuiet, PollerBackendQuiet, PollerPingsDrained,
     PollerTerminatesDrained, PollerGivesUp, PollerSendsPing, PollerSendsTerminate,
     PollerEvictsAll
<1>6. ~Tick
  BY <1>1, OlderProperties DEF Tick
<1>7. ~(UNCHANGED vars \/ (\E x \in Workers : ReplierStep(x))
                       \/ (\E c \in Clients : RequestorStep(c)))
  BY <1>1 DEF vars, ReplierStep, RequestorStep, proxyVars
<1>8. ~Start /\ ~Stop
  BY <1>1 DEF Start, Stop
<1> QED BY <1>2, <1>3, <1>4, <1>5, <1>6, <1>7, <1>8 DEF Next, ProxyStep

(* Who serves changes by a replier's own step, one at a time.              *)
LEMMA ServingChanges ==
  ASSUME TypeOK, [Next]_vars
  PROVE  \/ Serving' = Serving
         \/ /\ modules' = modules
            /\ \E w \in Workers : Serving' = Serving \cup {w} \/ Serving' = Serving \ {w}
<1>1. CASE UNCHANGED replierVars
  BY <1>1 DEF replierVars, Serving
<1>2. ASSUME NEW x \in Workers, ReplierStep(x)
      PROVE  /\ modules' = modules
             /\ Serving' = Serving \cup {x} \/ Serving' = Serving \ {x}
  <2>1. modules' = modules
    BY <1>2 DEF ReplierStep, proxyVars
  <2>2. \A v \in Workers \ {x} : /\ replier'[v] = replier[v]
                                 /\ v \in told' <=> v \in told
    BY <1>2 DEF ReplierStep, Replier, ReplierRuns, ReplierRegisters,
       ReplierReadsRegistration, ReplierGivesUp, ReplierPolls, ReplierAnswersPing,
       ReplierIsTold, ReplierAnswersRequest, ReplierSkips, ReplierStops,
       ReplierReadsDeregistration, ReplierStopsWaiting, ReplierLeaves, Moves,
       TypeOK, ReplierTypeOK
  <2>3. \A v \in Workers \ {x} : v \in Serving' <=> v \in Serving
    BY <2>2 DEF Serving
  <2>4. Serving \subseteq Workers /\ Serving' \subseteq Workers
    BY DEF Serving
  <2>5. CASE x \in Serving'
    BY <2>1, <2>3, <2>4, <2>5
  <2>6. CASE x \notin Serving'
    BY <2>1, <2>3, <2>4, <2>6
  <2> QED BY <2>5, <2>6
<1>3. \/ UNCHANGED replierVars
      \/ \E x \in Workers : ReplierStep(x)
  BY DEF Next, vars, ProxyStep, RequestorStep, Tick
<1> QED BY <1>1, <1>2, <1>3

(* The directory's variables and actions, over what the system keeps.      *)
LEMMA DirectoryActions ==
  LET own == Owners(modules)
      sil == Silences(modules)
      Free(m) == /\ own' = [own EXCEPT ![m] = NoAddress]
                 /\ sil' = [sil EXCEPT ![m] = 0]
                 /\ Serving' = Serving
  IN /\ own' = own /\ sil' = sil /\ Serving' = Serving => UNCHANGED Directory!vars
     /\ \A w \in Workers :
          own[Details[w]] = NoAddress /\ own' = [own EXCEPT ![Details[w]] = w]
            /\ sil' = sil /\ Serving' = Serving => Directory!Claim(w)
     /\ \A m \in Modules :
          /\ own[m] # NoAddress /\ own[m] \notin Serving /\ Free(m) => Directory!Release(m)
          /\ own[m] # NoAddress /\ sil[m] > ModuleTimeOut /\ Free(m) => Directory!Expire(m)
          /\ own[m] # NoAddress /\ sil' = [sil EXCEPT ![m] = 0] /\ own' = own
               /\ Serving' = Serving => Directory!Hear(m)
     /\ (/\ sil' = [m \in Modules |-> IF own[m] # NoAddress /\ sil[m] <= ModuleTimeOut
                                      THEN sil[m] + 1 ELSE sil[m]]
         /\ own' = own /\ Serving' = Serving) => Directory!Wait
     /\ \A w \in Workers :
          /\ Serving' = Serving \cup {w} /\ own' = own /\ sil' = sil
               => Directory!BeginServing(w)
          /\ Serving' = Serving \ {w} /\ own' = own /\ sil' = sil
               => Directory!EndServing(w)
BY DEF Directory!vars, Directory!Claim, Directory!Free, Directory!Release, Directory!Expire,
       Directory!Hear, Directory!Wait, Directory!BeginServing, Directory!EndServing,
       Owners, Silences, OwnerOf

(* Every step of the system is one of the directory, or none.              *)
LEMMA DirectoryStep ==
  ASSUME TypeOK, RepliersOK, KillOK, [Next]_vars,
         Registry(modules), Registry(modules)'
  PROVE  [Directory!Next]_(Directory!vars)
<1>1. MapOK(modules) /\ ModuleTimeOut \in Nat
  BY LadderBounds DEF Registry
<1>2. CASE modules' = modules
  <2>1. Owners(modules)' = Owners(modules) /\ Silences(modules)' = Silences(modules)
    BY <1>2 DEF Owners, Silences
  <2>2. CASE Serving' = Serving
    BY <2>1, <2>2, DirectoryActions
  <2>3. ASSUME NEW w \in Workers, Serving' = Serving \cup {w} \/ Serving' = Serving \ {w}
        PROVE  Directory!BeginServing(w) \/ Directory!EndServing(w)
    BY <2>1, <2>3, DirectoryActions
  <2> QED BY <2>2, <2>3, ServingChanges DEF Directory!Next
<1>3. CASE modules' # modules
  <2>1. Serving' = Serving
    BY <1>3, ServingChanges
  <2>2. CASE modules' = GrowOlder(modules)
    <3>1. Directory!Wait
      BY <2>1, <2>2, OlderWaits, DirectoryActions
    <3> QED BY <3>1 DEF Directory!Next
  <2>3. ASSUME NEW w \in Workers, Registers(w)
        PROVE  Directory!Claim(w)
    BY <2>1, <2>3, InsertClaims, DirectoryActions
  <2>4. ASSUME DOMAIN modules' = DOMAIN modules,
               \A x \in DOMAIN modules : modules'[x].silence = modules[x].silence
        PROVE  UNCHANGED Directory!vars
    BY <2>1, <2>4, SameEntriesStutter, DirectoryActions
  <2>5. ASSUME NEW w \in Workers, Pings(w)
        PROVE  UNCHANGED Directory!vars
    BY <1>1, <2>4, <2>5, MarkProperties, NextRungProperties DEF Pings
  <2>6. ASSUME NEW w \in Workers, modules' = Erase(modules, w)
        PROVE  \/ UNCHANGED Directory!vars
               \/ \E m \in Modules : Directory!Release(m) \/ Directory!Expire(m)
    <3>1. CASE w \notin DOMAIN modules
      BY <1>1, <2>4, <2>6, <3>1, EraseProperties
    <3>2. CASE w \in DOMAIN modules
      <4> DEFINE n == Details[w]
      <4>1. /\ n \in Modules /\ Owners(modules)[n] = w /\ w # NoAddress
            /\ Silences(modules)[n] = modules[w].silence
        BY <3>2, OwnerProperties DEF Owners, Silences
      <4>2. w \notin Serving \/ modules[w].silence > ModuleTimeOut
        <5>1. w \notin DOMAIN modules'
          BY <2>6 DEF Erase
        <5> QED BY <3>2, <5>1, DropsForCause DEF Expired
      <4>3. /\ Owners(modules)' = [Owners(modules) EXCEPT ![n] = NoAddress]
            /\ Silences(modules)' = [Silences(modules) EXCEPT ![n] = 0]
        BY <2>6, <3>2, EraseFrees
      <4> HIDE DEF n
      <4>4. Directory!Release(n) \/ Directory!Expire(n)
        BY <2>1, <4>1, <4>2, <4>3, DirectoryActions
      <4> QED BY <4>1, <4>4
    <3> QED BY <3>1, <3>2
  <2>7. ASSUME NEW w \in Workers, modules' = UpdateLastResponseToNow(modules, w)
        PROVE  UNCHANGED Directory!vars \/ \E m \in Modules : Directory!Hear(m)
    <3>1. CASE w \notin DOMAIN modules
      <4>1. DOMAIN modules' = DOMAIN modules /\ \A x \in DOMAIN modules : modules'[x] = modules[x]
        BY <2>7, <3>1 DEF UpdateLastResponseToNow
      <4> QED BY <2>4, <4>1
    <3>2. CASE w \in DOMAIN modules
      <4> DEFINE n == Details[w]
      <4>1. n \in Modules /\ Owners(modules)[n] = w /\ w # NoAddress
        BY <3>2, OwnerProperties DEF Owners
      <4>2. /\ Owners(modules)' = Owners(modules)
            /\ Silences(modules)' = [Silences(modules) EXCEPT ![n] = 0]
        BY <2>7, <3>2, UpdateHears
      <4> HIDE DEF n
      <4> QED BY <2>1, <4>1, <4>2, DirectoryActions
    <3> QED BY <3>1, <3>2
  <2>8. ASSUME NEW w \in Workers, Directory!Claim(w)
        PROVE  Directory!Next
    BY <2>8 DEF Directory!Next
  <2>9. ASSUME \E m \in Modules :
                 Directory!Release(m) \/ Directory!Expire(m) \/ Directory!Hear(m)
        PROVE  Directory!Next
    BY <2>9 DEF Directory!Next
  <2> QED BY <1>3, <2>2, <2>3, <2>5, <2>6, <2>7, <2>8, <2>9, MapChanges
<1> QED BY <1>2, <1>3

(* The system implements the directory of leases: a name has at most one   *)
(* owner, passes on only through being free, and an owner that serves      *)
(* loses it only after it was silent for longer than the time-out.         *)
THEOREM ImplementsDirectory == Spec => DirectorySpec
<1>1. Init => Directory!Init
  <2> SUFFICES ASSUME Init PROVE Directory!Init
    OBVIOUS
  <2>1. \A m \in Modules : OwnerOf(m) = NoAddress
    BY DEF Init, ProxyInit, OwnerOf, GetAddress, ContainsDetails
  <2>2. Serving = {}
    BY DEF Init, ReplierInit, Serving
  <2> QED BY <2>1, <2>2 DEF Directory!Init
<1>2. /\ TypeOK /\ RepliersOK /\ Faithful /\ KillOK /\ UniqueModule /\ [Next]_vars
      /\ TypeOK' /\ Faithful' /\ UniqueModule'
      => [Directory!Next]_(Directory!vars)
  <2> SUFFICES ASSUME TypeOK, RepliersOK, Faithful, KillOK, UniqueModule, [Next]_vars,
                      TypeOK', Faithful', UniqueModule'
               PROVE  [Directory!Next]_(Directory!vars)
    OBVIOUS
  <2>1. Registry(modules) /\ Registry(modules)'
    BY DEF Registry, MapOK, TypeOK, ProxyTypeOK, Faithful, UniqueModule
  <2> QED BY <2>1, DirectoryStep
<1> QED BY <1>1, <1>2, TypeInvariant, LastWordsInvariant, FaithfulInvariant, KillInvariant,
          UniqueModuleInvariant, PTL DEF Spec, DirectorySpec, Directory!Spec
===============================================================================

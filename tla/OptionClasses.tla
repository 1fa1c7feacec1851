---------------------------- MODULE OptionClasses ----------------------------
(***************************************************************************)
(* The options with which sockets, proxies and services are initialized.   *)
(* Of every class: the fields and what their setters keep, the pairs of    *)
(* fields that a setter does not let be equal, and what initialize() of    *)
(* the component wants to be set.  Most of the setters check one field;    *)
(* the addresses of a proxy are checked against each other by some classes *)
(* and not by others.                                                      *)
(*                                                                         *)
(* The security options of all of them are a value that is stored as it is.*)
(***************************************************************************)
EXTENDS ValueClass, SequencesExt

(* apart: <<f, g>> when the setter of f refuses the value that g has.      *)
(* wanted: the fields without which the component is not initialized.      *)
Options(fields, apart, wanted) ==
  [fields |-> fields, apart |-> apart, wanted |-> wanted]

(* The fields with one more among them.                                    *)
With(fields, f, field) ==
  [g \in DOMAIN fields \cup {f} |-> IF g = f THEN field ELSE fields[g]]

(* The setter of a field of some options: what it keeps, or nothing.       *)
KeptOption(class, object, f, v) ==
  IF \E g \in DOMAIN class.fields : <<f, g>> \in class.apart /\ object[g] = v
  THEN {}
  ELSE Kept(class.fields, f, v)

(* initialize() takes a copy of the options or throws.                     *)
IsWanted(class, object) == \A f \in class.wanted : object[f] # Unset

Integers == {-2, 0, 1}

HighWaterMark(default) == Checked(default, Integers, NotNegative)

(* A time out: all negative ones are the one that stands for no time out.  *)
ResolveTimeOut(t) == IF t < 0 THEN {-1} ELSE {t}

TimeOut(default) == Checked(default, Integers, ResolveTimeOut)

ZAPOptions == Stored("Grasslands", {"Grasslands", "Woodhouse"})

Callback == Stored(Unset, {"callback"})

(* Message formats: some setters refuse an empty container.                *)
Formats == Checked(Unset, {"empty", "formats"},
                   LAMBDA m : IF m = "empty" THEN {} ELSE {m})

(* addMessageFormat: the container grows, an empty one is accepted too.    *)
AddedFormats == Stored("empty", {"formats"})

-------------------------------------------------------------------------------

(* The options of the sockets that share one class: the address names one  *)
(* of three protocols, an identifier is cut to 255 characters, and an empty*)
(* one is ignored.                                                         *)
Protocol(address) == IF IsEmpty(address) \/ address = "http" THEN {} ELSE {address}

RoutingIdentifier ==
  Checked(Unset, {"one", "two", "longer than 255"},
          LAMBDA i : {IF i = "longer than 255" THEN "its first 255" ELSE i})

SocketOptionsFields ==
  [address |-> Checked(Unset, Texts \cup {"http"}, Protocol),
   sendTimeOut |-> TimeOut(-1), receiveTimeOut |-> TimeOut(-1),
   lingerPeriod |-> TimeOut(-1), zapOptions |-> ZAPOptions,
   sendHighWaterMark |-> HighWaterMark(0), receiveHighWaterMark |-> HighWaterMark(0),
   routingIdentifier |-> RoutingIdentifier, callback |-> Callback,
   messageFormats |-> Formats,
   pollingTimeOut |-> Checked(10, Integers, NotNegative)]
SocketOptions == Options(SocketOptionsFields, {}, {"address"})

(* The router of requests.  Its poll time out is not checked.              *)
RouterOptions ==
  Options([address |-> Name(Unset), zapOptions |-> ZAPOptions,
           highWaterMark |-> HighWaterMark(0), pollTimeOut |-> Stored(10, Integers),
           callback |-> Callback],
          {}, {"address", "callback"})

(* The client of a router.                                                 *)
RequestOptions ==
  Options([address |-> Name(Unset), zapOptions |-> ZAPOptions,
           highWaterMark |-> HighWaterMark(0), messageFormats |-> AddedFormats,
           timeOut |-> TimeOut(-1)],
          {}, {"address"})

(* The two sides of a router-dealer proxy, and a module's replier.         *)
DealerRequestOptions ==
  Options([address |-> Name(Unset), zapOptions |-> ZAPOptions,
           sendHighWaterMark |-> HighWaterMark(0),
           receiveHighWaterMark |-> HighWaterMark(0),
           receiveTimeOut |-> TimeOut(-1), sendTimeOut |-> TimeOut(0),
           messageFormats |-> Formats],
          {}, {"address", "messageFormats"})

DealerReplyOptions ==
  Options([address |-> Name(Unset), zapOptions |-> ZAPOptions,
           sendHighWaterMark |-> HighWaterMark(0),
           receiveHighWaterMark |-> HighWaterMark(0),
           routingIdentifier |-> RoutingIdentifier, callback |-> Callback,
           pollingTimeOut |-> Checked(10, Integers, NotNegative)],
          {}, {"address", "callback"})

-------------------------------------------------------------------------------

(* Publishers and subscribers, with and without a proxy between them.      *)
PublisherOptions ==
  Options([address |-> Name(Unset), zapOptions |-> ZAPOptions,
           sendTimeOut |-> TimeOut(-1), sendHighWaterMark |-> HighWaterMark(0)],
          {}, {"address"})

SubscriberFields(highWaterMark, timeOut, messageTypes) ==
  [address |-> Name(Unset), zapOptions |-> ZAPOptions,
   receiveTimeOut |-> TimeOut(timeOut),
   receiveHighWaterMark |-> HighWaterMark(highWaterMark),
   messageTypes |-> messageTypes]

SubscriberOptions ==
  Options(SubscriberFields(0, -1, Formats), {}, {"address", "messageTypes"})

XPublisherOptions ==
  Options([address |-> Name(Unset), zapOptions |-> ZAPOptions,
           timeOut |-> TimeOut(-1), highWaterMark |-> HighWaterMark(0)],
          {}, {"address"})

(* It keeps the options of a subscriber and passes everything on to them.  *)
XSubscriberOptions == SubscriberOptions

(* Those of the heartbeat: other defaults, and one message type only.      *)
HeartbeatPublisherOptions ==
  Options([address |-> Name(Unset), zapOptions |-> ZAPOptions,
           timeOut |-> TimeOut(1000), highWaterMark |-> HighWaterMark(8192)],
          {}, {"address"})

HeartbeatSubscriberOptions ==
  Options(SubscriberFields(1024, 10, Stored("formats", {})), {}, {"address", "messageTypes"})

PublisherProcessOptions ==
  Options([name |-> Name("Heartbeat"),
           interval |-> Checked(30, Integers, LAMBDA n : IF n <= 0 THEN {} ELSE {n})],
          {}, {"name"})

-------------------------------------------------------------------------------

(* A proxy has two addresses and two high water marks.                     *)
ProxyOptionFields(frontendHighWaterMark, backendHighWaterMark) ==
  [frontendAddress |-> Name(Unset), backendAddress |-> Name(Unset),
   frontendHighWaterMark |-> HighWaterMark(frontendHighWaterMark),
   backendHighWaterMark |-> HighWaterMark(backendHighWaterMark),
   zapOptions |-> ZAPOptions]

BothAddresses == {"frontendAddress", "backendAddress"}

(* Broadcasts: neither setter looks at the other address.                  *)
XPubXSubProxyOptions == Options(ProxyOptionFields(0, 0), {}, BothAddresses)

(* Mutant: only the frontend's setter looks at the other address.          *)
RouterDealerProxyOptionsOneWay ==
  Options(ProxyOptionFields(0, 0), {<<"frontendAddress", "backendAddress">>}, BothAddresses)

(* Services: both setters do.                                              *)
RouterDealerProxyOptions ==
  Options(ProxyOptionFields(0, 0),
          {<<"frontendAddress", "backendAddress">>, <<"backendAddress", "frontendAddress">>},
          BothAddresses)

(* What the operator starts: a named proxy that passes the rest on, with   *)
(* high water marks of its own.                                            *)
Named(class, frontendHighWaterMark, backendHighWaterMark) ==
  Options(With(ProxyOptionFields(frontendHighWaterMark, backendHighWaterMark),
               "name", Name(Unset)),
          class.apart, {"name"} \cup class.wanted)

BroadcastProxyOptions == Named(XPubXSubProxyOptions, 4096, 4096)

ServiceProxyOptions == Named(RouterDealerProxyOptions, 8192, 0)

(* setPingIntervals: none, or one that is not positive, are refused; the   *)
(* others are sorted and every interval is kept once.                      *)
IsAscending(intervals) ==
  \A i, j \in DOMAIN intervals : i < j => intervals[i] < intervals[j]

PingIntervals(intervals) ==
  IF intervals = << >> \/ \E i \in DOMAIN intervals : intervals[i] <= 0
  THEN {}
  ELSE {CHOOSE s \in SetToSeqs(ToSet(intervals)) : IsAscending(s)}

(* The registry of modules: only the backend's setter looks at the other.  *)
CommandProxyOptions ==
  Options(With(ProxyOptionFields(0, 0), "pingIntervals",
               Checked(<<15, 30, 60>>, {<< >>, <<0>>, <<20>>, <<30, 10, 30>>}, PingIntervals)),
          {<<"backendAddress", "frontendAddress">>}, BothAddresses)

(* The registry's clients and the modules' end of it.                      *)
ReplierOptions ==
  Options([moduleDetails |-> Checked(Unset, {"named", "unnamed"},
                                     LAMBDA d : IF d = "unnamed" THEN {} ELSE {d}),
           address |-> Name(Unset), callback |-> Callback, zapOptions |-> ZAPOptions,
           receiveHighWaterMark |-> HighWaterMark(0),
           sendHighWaterMark |-> HighWaterMark(0),
           pollingTimeOut |-> Checked(10, Integers, NotNegative)],
          {}, {"moduleDetails", "address", "callback"})

RequestorOptions ==
  Options([address |-> Name(Unset), zapOptions |-> ZAPOptions,
           receiveTimeOut |-> TimeOut(1000)],
          {}, {"address"})

-------------------------------------------------------------------------------

(* The connection information service.  clear() forgets the address and the*)
(* verbosity, and keeps the security options.                              *)
ConnectionServiceOptions ==
  Options([clientAccessAddress |-> Name(Unset), zapOptions |-> ZAPOptions,
           verbosity |-> Stored("ERROR", {"ERROR", "INFO"})],
          {}, {"clientAccessAddress"})

ConnectionRequestorOptions ==
  Options([address |-> Name(Unset), zapOptions |-> ZAPOptions, timeOut |-> TimeOut(5000)],
          {}, {"address"})

(* A local command service: the socket is a file of the IPC directory that *)
(* has the module's name.  A table that does not exist is not stored: where*)
(* it names a directory, that one is made and the default table is kept, or*)
(* the setter throws when the directory is there already.                  *)
ModuleTableFile(file) ==
  CASE file = "exists" -> {"exists"}
    [] file = "new" -> {"./new"}
    [] file = "new directory/new" -> {"localModuleTable.sqlite3"}
    [] file = "directory/new" -> {}

Directory(directory) == {IF directory \in {"blank", "."} THEN "./" ELSE directory}

LocalServiceOptions ==
  Options([moduleName |-> Name(Unset),
           ipcDirectory |-> Checked("ipc", Texts \cup {"."}, Directory),
           moduleTable |-> Checked("localModuleTable.sqlite3",
                                   {"exists", "new", "new directory/new", "directory/new"},
                                   ModuleTableFile),
           callback |-> Callback],
          {}, {"callback", "moduleName"})

(* Its client: a directory must exist, and the white space in a name is    *)
(* moved about and not removed (remove_if without erase).                  *)
LocalRequestorOptions ==
  Options([moduleName |->
             Checked(Unset, Texts \cup {"a name"},
                     LAMBDA n : IF n = "a name" THEN {"anamee"} ELSE NotBlank(n)),
           ipcDirectory |->
             Checked("ipc", {"", ".", "one", "missing"},
                     LAMBDA d : IF d = "missing" THEN {} ELSE {IF d = "" THEN "./" ELSE d}),
           receiveTimeOut |-> TimeOut(1000)],
          {}, {"moduleName"})

(* What a module of the local table is known by.                           *)
LocalModuleDetails ==
  Options([name |-> Name(Unset), processIdentifier |-> Stored(1, Integers),
           applicationStatus |-> Stored("Unknown", {"Running", "NotRunning"}),
           ipcDirectory |-> Checked("ipc", Texts \cup {"."}, Directory)],
          {}, {"name"})

-------------------------------------------------------------------------------

(* parseInitializationFile.  The file proposes values for some fields; an  *)
(* address that is empty and a high water mark that is negative are not    *)
(* set, the others go through the setters in this order.  Where a setter   *)
(* throws, or the address of the directory is missing, the old options     *)
(* stay; otherwise the new ones replace them.                              *)
ParseOrder == <<"name", "frontendAddress", "backendAddress",
                "frontendHighWaterMark", "backendHighWaterMark", "pingIntervals",
                "clientAccessAddress", "verbosity", "address", "zapOptions">>

Skips(f, v) ==
  CASE f \in {"frontendHighWaterMark", "backendHighWaterMark"} -> v < 0
    [] f = "pingIntervals" -> v = << >>
    [] OTHER -> f # "address" /\ v = ""

(* Only a client of the directory reads its security from the file; that of*)
(* the others comes from the operator.                                     *)
IsRead(class, file, f) ==
  /\ f \in DOMAIN file \cap DOMAIN class.fields
  /\ f = "zapOptions" => "address" \in DOMAIN class.fields
  /\ ~ Skips(f, file[f])

(* The options that the file makes, each of its fields set in its turn: its*)
(* setter sees those set before it, and the others as they are in a new    *)
(* object.  A set of one, or none when a setter has thrown.                *)
Parsed(class, file) ==
  LET read == {f \in ToSet(ParseOrder) : IsRead(class, file, f)}
      Kepts(f) == Kept(class.fields, f, file[f])
      After(fs) == [f \in DOMAIN class.fields |->
                      IF f \in fs THEN CHOOSE v \in Kepts(f) : TRUE
                      ELSE class.fields[f].first]
      Before(i) == {ParseOrder[j] : j \in 1 .. i - 1} \cap read
      Sets(i) ==
        LET f == ParseOrder[i] IN
        f \in read => KeptOption(class, After(Before(i)), f, file[f]) # {}
  IN IF (\A f \in read : Kepts(f) # {}) /\ \A i \in DOMAIN ParseOrder : Sets(i)
     THEN {After(read)}
     ELSE {}
===============================================================================

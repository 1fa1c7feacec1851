-------------------------- MODULE ConnectionDetails --------------------------
(***************************************************************************)
(* What the connection information service tells of a connection: the      *)
(* classes of services/connectionInformation.  A connection has a name, a  *)
(* type and a socket, or the pair of sockets of a proxy; the response to a *)
(* request for the available connections carries a list of them.           *)
(*                                                                         *)
(* The nine kinds of socket differ in whether a client binds or connects   *)
(* unless told otherwise.                                                  *)
(***************************************************************************)
EXTENDS MessageClasses

(* The fields of a socket: an address that must not be blank, whether to   *)
(* connect or to bind, the security and the privileges asked for.          *)
Socket(connectOrBind) ==
  [address |-> Name(Unset),
   connectOrBind |-> Stored(connectOrBind, {"Connect", "Bind"}),
   securityLevel |-> Stored("Grasslands", {"Grasslands", "Woodhouse"}),
   minimumUserPrivileges |-> Stored("ReadOnly", {"ReadOnly", "ReadWrite"})]

Dealer == Socket("Connect")
Router == Socket("Connect")
XSubscriber == Socket("Connect")
XPublisher == Socket("Bind")
Publisher == Socket("Bind")
Subscriber == Socket("Bind")
Request == Socket("Bind")
Reply == Socket("Bind")

SocketTypes == {"Dealer", "Publisher", "Subscriber", "Reply", "Request",
                "Router", "XPublisher", "XSubscriber"}

SocketFields ==
  [Dealer |-> Dealer, Publisher |-> Publisher, Subscriber |-> Subscriber,
   Reply |-> Reply, Request |-> Request, Router |-> Router,
   XPublisher |-> XPublisher, XSubscriber |-> XSubscriber]

HaveAddress(socket) == socket.address # Unset

(* Some of the sockets a caller has: a new one, one with an address, one of*)
(* which everything is set.                                                *)
SomeSockets(type) ==
  LET new == New(SocketFields[type]) IN
  {new, [new EXCEPT !.address = "one"],
   [address |-> "two", connectOrBind |-> "Connect",
    securityLevel |-> "Woodhouse", minimumUserPrivileges |-> "ReadWrite"]}

-------------------------------------------------------------------------------

(* The pairs of sockets of a proxy: setSocketPair is overloaded for these. *)
(* Both sockets of a pair must have addresses.                             *)
SocketPairs == {<<"XSubscriber", "XPublisher">>, <<"Router", "Dealer">>,
                <<"Router", "Router">>}

PairsOf(types) ==
  {[types |-> types, frontend |-> f, backend |-> b] :
     f \in SomeSockets(types[1]), b \in SomeSockets(types[2])}

ProxyFields ==
  [socketPair |->
     Checked(Unset, UNION {PairsOf(p) : p \in SocketPairs},
             LAMBDA p : IF HaveAddress(p.frontend) /\ HaveAddress(p.backend)
                        THEN {p} ELSE {})]

(* Details: setSocketDetails refuses a socket without an address and a     *)
(* proxy without its pair, and makes the details those of a connection of  *)
(* that kind: the last socket set is the only one that the getters give.   *)
PlainSockets ==
  UNION {{[type |-> t, socket |-> s] : s \in SomeSockets(t)} : t \in SocketTypes}

ProxySockets ==
  {[type |-> "Proxy", socket |-> p] : p \in Values(ProxyFields, "socketPair")}

IsComplete(d) ==
  IF d.type = "Proxy" THEN d.socket # Unset ELSE HaveAddress(d.socket)

DetailsFields ==
  [name |-> Name(Unset),
   connectionType |-> Stored(Unset, {"Service", "Broadcast"}),
   socket |-> Checked(Unset, PlainSockets \cup ProxySockets,
                      LAMBDA d : IF IsComplete(d) THEN {d} ELSE {})]

(* throwOnInvalidDetails: a name, a type and a known socket.               *)
AreValid(details) == \A f \in DOMAIN DetailsFields : details[f] # Unset

-------------------------------------------------------------------------------

(* On the wire a plain socket is four members of the JSON object: its      *)
(* address, bind or connect, security, privileges, under the socket's type.*)
SocketToJSON(d) ==
  [SocketType |-> d.type, Address |-> d.socket.address,
   ConnectOrBind |-> d.socket.connectOrBind,
   SecurityLevel |-> d.socket.securityLevel,
   MinimumPrivileges |-> d.socket.minimumUserPrivileges]

(* A proxy's two sockets are four members each, and the types of both.     *)
ProxyToJSON(d) ==
  LET f == d.socket.frontend
      b == d.socket.backend IN
  [SocketType |-> d.type,
   FrontendSocketType |-> d.socket.types[1], FrontendAddress |-> f.address,
   FrontendConnectOrBind |-> f.connectOrBind,
   FrontendSecurityLevel |-> f.securityLevel,
   FrontendMinimumPrivileges |-> f.minimumUserPrivileges,
   BackendSocketType |-> d.socket.types[2], BackendAddress |-> b.address,
   BackendConnectOrBind |-> b.connectOrBind,
   BackendSecurityLevel |-> b.securityLevel,
   BackendMinimumPrivileges |-> b.minimumUserPrivileges]

(* The name and the connection type travel as null when they are not set;  *)
(* details without a socket have no members for one.                       *)
DetailsToJSON(details) ==
  [Name |-> details.name, ConnectionType |-> details.connectionType,
   Socket |-> IF details.socket = Unset THEN [SocketType |-> "Unknown"]
              ELSE IF details.socket.type = "Proxy" THEN ProxyToJSON(details.socket)
              ELSE SocketToJSON(details.socket)]

JSONToSocket(obj) ==
  [type |-> obj.SocketType,
   socket |-> [address |-> obj.Address, connectOrBind |-> obj.ConnectOrBind,
               securityLevel |-> obj.SecurityLevel,
               minimumUserPrivileges |-> obj.MinimumPrivileges]]

(* Mutant: the backend takes over the security of the frontend.            *)
JSONToProxyWithOneLevel(obj) ==
  [type |-> "Proxy",
   socket |->
     [types |-> <<obj.FrontendSocketType, obj.BackendSocketType>>,
      frontend |-> [address |-> obj.FrontendAddress,
                    connectOrBind |-> obj.FrontendConnectOrBind,
                    securityLevel |-> obj.FrontendSecurityLevel,
                    minimumUserPrivileges |-> obj.FrontendMinimumPrivileges],
      backend |-> [address |-> obj.BackendAddress,
                   connectOrBind |-> obj.BackendConnectOrBind,
                   securityLevel |-> obj.FrontendSecurityLevel,
                   minimumUserPrivileges |-> obj.BackendMinimumPrivileges]]]

JSONToProxy(obj) ==
  [type |-> "Proxy",
   socket |->
     [types |-> <<obj.FrontendSocketType, obj.BackendSocketType>>,
      frontend |-> [address |-> obj.FrontendAddress,
                    connectOrBind |-> obj.FrontendConnectOrBind,
                    securityLevel |-> obj.FrontendSecurityLevel,
                    minimumUserPrivileges |-> obj.FrontendMinimumPrivileges],
      backend |-> [address |-> obj.BackendAddress,
                   connectOrBind |-> obj.BackendConnectOrBind,
                   securityLevel |-> obj.BackendSecurityLevel,
                   minimumUserPrivileges |-> obj.BackendMinimumPrivileges]]]

JSONToDetails(obj) ==
  [name |-> obj.Name, connectionType |-> obj.ConnectionType,
   socket |-> IF obj.Socket.SocketType = "Unknown" THEN Unset
              ELSE IF obj.Socket.SocketType = "Proxy" THEN JSONToProxy(obj.Socket)
              ELSE JSONToSocket(obj.Socket)]

-------------------------------------------------------------------------------

AvailableConnectionsRequest ==
  Message("Services::ConnectionInformation::AvailableConnectionsRequest", << >>, {})

(* Some of the details that a response is given: one without a type, one   *)
(* of each kind of socket and of each pair.                                *)
SomeDetails ==
  LET all == [New(DetailsFields) EXCEPT !.name = "one", !.connectionType = "Service"] IN
  {[all EXCEPT !.connectionType = Unset]} \cup
  {[all EXCEPT !.socket = d] :
     d \in {e \in PlainSockets \cup ProxySockets :
              IF e.type = "Proxy"
              THEN /\ e.socket # Unset
                   /\ e.socket.frontend.address = "two"
                   /\ e.socket.backend.address = "one"
              ELSE e.socket.address = "two"}}

(* setDetails: no details at all leave those that the response has, and    *)
(* invalid ones are refused.                                               *)
AvailableConnectionsResponseFields ==
  [returnCode |-> Stored("Success", Codes),
   details |-> Checked(<< >>, {<<d>> : d \in SomeDetails},
                       LAMBDA s : IF \A i \in DOMAIN s : AreValid(s[i]) THEN {s} ELSE {})]

AvailableConnectionsResponse ==
  Message("Services::ConnectionInformation::AvailableConnectionsResponse",
          AvailableConnectionsResponseFields, {})

(* The conversion of a response, which is not field by field.              *)
ResponseToJSON(object) ==
  [ReturnCode |-> object.returnCode,
   Details |-> [i \in DOMAIN object.details |-> DetailsToJSON(object.details[i])]]

JSONToResponse(obj) ==
  [returnCode |-> obj.ReturnCode,
   details |-> [i \in DOMAIN obj.Details |-> JSONToDetails(obj.Details[i])]]
===============================================================================

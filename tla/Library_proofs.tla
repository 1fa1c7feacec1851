---------------------------- MODULE Library_proofs ----------------------------
(***************************************************************************)
(* Theorems about what a program uses inside its own process: sockets that *)
(* request and reply, for any number of clients and services, and any      *)
(* bounds; what it keeps of passwords and keys; the messages that it sends;*)
(* and the options with which it initializes a component.                  *)
(*                                                                         *)
(* A REQ socket does not send while an answer is outstanding, and a client *)
(* that gives up keeps its socket.  Hence whatever is under way for a      *)
(* client is the one message that its socket waits for (Awaited), and it   *)
(* is in one place only (OneMessage): among the requests, at a service, or *)
(* among the answers.  What request() returns is then its own answer.      *)
(*                                                                         *)
(* The classes of messages and of options are finitely many and known, so  *)
(* that a lemma about all of them goes through them in groups.             *)
(***************************************************************************)
EXTENDS Library, FiniteSetTheorems, SequenceTheorems, WellFoundedInduction, TLAPS

(* The fields of the two kinds of record.                                  *)
ClientsOK ==
  /\ client = [c \in Clients |-> client[c]]
  /\ \A c \in Clients :
       /\ DOMAIN client[c] = {"initialized", "connected", "connections", "made",
                              "owes", "at", "outcome"}
       /\ client[c].made \in Nat /\ client[c].owes \in Nat

ServicesOK ==
  /\ service = [s \in Services |-> service[s]]
  /\ \A s \in Services :
       /\ DOMAIN service[s] = {"connected", "running", "starts", "owner", "threads", "owes"}
       /\ service[s].threads \in Seq({"looking", "polling", "calling"})
       /\ Len(service[s].threads) <= 1

(* A message of a client's is the one that its socket waits for.           *)
IsAwaited(m) ==
  /\ m.from \in Clients
  /\ m.n = client[m.from].owes /\ m.n = client[m.from].made /\ m.n # 0

Awaited ==
  /\ \A m \in requests \cup answers : IsAwaited(m)
  /\ \A s \in Services : \A m \in service[s].owes : IsAwaited(m)

(* A client has one message under way at most, in one place.               *)
OneMessage ==
  /\ \A m, l \in requests : m.from = l.from => m = l
  /\ \A m, l \in answers : m.from = l.from => m = l
  /\ \A m \in requests, l \in answers : m.from # l.from
  /\ \A s \in Services : \A m \in service[s].owes :
       /\ \A l \in requests \cup answers : m.from # l.from
       /\ \A t \in Services : \A l \in service[t].owes : m.from = l.from => s = t /\ m = l

(* What the last call of a client's returned.                              *)
IsListed(s) ==
  \E i \in DOMAIN Listed :
    /\ Listed[i].name = s.name
    /\ Listed[i].socket.type = "Proxy"
    /\ Listed[i].socket.socket.types[s.side] = s.type

Answered ==
  \A c \in Clients :
    LET o == client[c].outcome IN
    /\ o.is \in {"returned", "found"} => o.answer = client[c].made
    /\ o.is = "found" => IsListed(o.of)

SocketsOK == ClientsOK /\ ServicesOK /\ Awaited /\ OneMessage

-----------------------------------------------------------------------------
(* What a lookup finds.                                                    *)

LEMMA LookupFinds ==
  ASSUME NEW s, NEW k \in Lookup(Listed, s)
  PROVE  IsListed(s)
<1> DEFINE named == {i \in DOMAIN Listed : Listed[i].name = s.name}
           i == CHOOSE i \in named : \A j \in named : i <= j
<1>1. named # {} /\ named \subseteq Nat
  BY RequestReplyAssumption DEF Lookup
<1>2. \E x \in named : \A j \in named : x <= j
  <2> DEFINE R == OpToRel(<, Nat)
  <2>1. IsWellFoundedOn(R, Nat)
    BY NatLessThanWellFounded
  <2>2. \A x, y \in Nat : <<y, x>> \in R <=> y < x
    BY DEF OpToRel
  <2> HIDE DEF R, named
  <2>3. PICK x \in named : \A j \in named : <<j, x>> \notin R
    BY <1>1, <2>1, WFMin
  <2>4. ASSUME NEW j \in named PROVE x <= j
    <3>1. x \in Nat /\ j \in Nat /\ ~(j < x)
      BY <1>1, <2>2, <2>3
    <3> QED BY <3>1
  <2> QED BY <2>4
<1>3. i \in named
  BY <1>2
<1>4. /\ Listed[i].socket.type = "Proxy"
      /\ Listed[i].socket.socket.types[s.side] = s.type
  BY <1>1 DEF Lookup
<1> QED BY <1>3, <1>4 DEF IsListed

-----------------------------------------------------------------------------
(* The clients' steps.                                                     *)

LEMMA SocketsInit == Init => SocketsOK /\ Answered
<1> SUFFICES ASSUME Init PROVE SocketsOK /\ Answered
  OBVIOUS
<1>1. /\ client = [c \in Clients |-> NewClient]
         \/ client = [c \in Clients |-> [NewClient EXCEPT !.at = "left"]]
      /\ service = [s \in Services |-> NewService]
         \/ service = [s \in Services |-> [NewService EXCEPT !.owner = "left"]]
      /\ requests = {} /\ answers = {}
  BY DEF Init, RequestReplyInit, NoRequestReplyInit
<1>2. ClientsOK /\ Answered
  BY <1>1 DEF ClientsOK, Answered, NewClient
<1>3. \A s \in Services : service[s].threads = << >> /\ service[s].owes = {}
  BY <1>1 DEF NewService
<1>4. ServicesOK
  <2>1. << >> \in Seq({"looking", "polling", "calling"}) /\ Len(<< >>) <= 1
    OBVIOUS
  <2>2. service = [s \in Services |-> service[s]]
    BY <1>1
  <2>3. \A s \in Services :
          DOMAIN service[s] = {"connected", "running", "starts", "owner", "threads", "owes"}
    BY <1>1 DEF NewService
  <2>4. \A s \in Services : /\ service[s].threads \in Seq({"looking", "polling", "calling"})
                             /\ Len(service[s].threads) <= 1
    BY <1>3, <2>1, Zenon
  <2> QED BY <2>2, <2>3, <2>4 DEF ServicesOK
<1> QED BY <1>1, <1>2, <1>3, <1>4 DEF SocketsOK, Awaited, OneMessage

(* One client's record is replaced by another that has the same fields.    *)
LEMMA ClientSet ==
  ASSUME ClientsOK, NEW c \in Clients, NEW new, SetClient(c, new),
         DOMAIN new = DOMAIN client[c], new.made \in Nat, new.owes \in Nat
  PROVE  /\ ClientsOK'
         /\ client'[c] = new
         /\ \A d \in Clients \ {c} : client'[d] = client[d]
<1>1. /\ DOMAIN client = Clients
      /\ client' = [d \in Clients |-> IF d = c THEN new ELSE client[d]]
  BY DEF ClientsOK, SetClient
<1>2. \A d \in Clients : client'[d] = IF d = c THEN new ELSE client[d]
  BY <1>1
<1>3. client' = [d \in Clients |-> client'[d]]
  BY <1>1
<1> QED BY <1>2, <1>3 DEF ClientsOK

(* The fields that a call which neither sends nor receives changes.        *)
QuietSet(c, i, k, n, at, o) ==
  SetClient(c, [client[c] EXCEPT !.initialized = i, !.connected = k,
                  !.connections = n, !.at = at, !.outcome = o])

KeepsRequest(c) ==
  /\ ClientsOK'
  /\ client'[c].made = client[c].made /\ client'[c].owes = client[c].owes
  /\ \A d \in Clients \ {c} : client'[d] = client[d]

LEMMA QuietRecord ==
  ASSUME ClientsOK, NEW c \in Clients, NEW i, NEW k, NEW n, NEW at, NEW o,
         QuietSet(c, i, k, n, at, o)
  PROVE  KeepsRequest(c) /\ client'[c].outcome = o
<1> DEFINE new == [client[c] EXCEPT !.initialized = i, !.connected = k,
                     !.connections = n, !.at = at, !.outcome = o]
<1>1. /\ DOMAIN new = DOMAIN client[c]
      /\ new.made = client[c].made /\ new.owes = client[c].owes /\ new.outcome = o
  BY DEF ClientsOK
<1>2. new.made \in Nat /\ new.owes \in Nat
  BY <1>1 DEF ClientsOK
<1>3. SetClient(c, new)
  BY DEF QuietSet
<1> HIDE DEF new
<1> QED BY <1>1, <1>2, <1>3, ClientSet DEF KeepsRequest

(* Calls that neither send nor receive: the socket waits for what it waited*)
(* for, and nothing new is under way.                                      *)
LEMMA QuietCall ==
  ASSUME SocketsOK, Answered, NEW c \in Clients,
         \/ RequestInitialize(c) \/ RequestDisconnect(c) \/ RequestRefused(c)
         \/ RequestBlocks(c) \/ RequestTimesOut(c)
  PROVE  SocketsOK' /\ Answered'
<1> DEFINE old == client[c]
           none == [is |-> "none"]
           threw == [is |-> "threw", answer |-> 0]
           nothing == IF c \in Directories THEN threw ELSE [is |-> "nothing"]
<1>0. /\ ClientsOK
      /\ DOMAIN old = {"initialized", "connected", "connections", "made", "owes", "at", "outcome"}
  BY DEF SocketsOK, ClientsOK
<1>1. KeepsRequest(c) /\ client'[c].outcome \in {none, nothing, threw}
  <2>1. CASE RequestInitialize(c)
    <3>1. PICK connects \in BOOLEAN :
            SetClient(c, [old EXCEPT !.connected = connects,
              !.initialized = connects \/ (c \in RouterClients /\ @),
              !.connections = @ + 1, !.outcome = none])
      BY <2>1, Zenon DEF RequestInitialize
    <3> DEFINE init == connects \/ (c \in RouterClients /\ old.initialized)
    <3>2. \A i : [old EXCEPT !.connected = connects, !.initialized = i,
                     !.connections = @ + 1, !.outcome = none]
                 = [old EXCEPT !.initialized = i, !.connected = connects,
                      !.connections = @ + 1, !.at = @, !.outcome = none]
      BY <1>0
    <3>3. QuietSet(c, init, connects, old.connections + 1, old.at, none)
      BY <3>1, <3>2, Zenon DEF QuietSet
    <3> HIDE DEF none, threw, nothing
    <3> HIDE DEF none, threw, nothing
    <3> QED BY <1>0, <3>3, QuietRecord
  <2>2. CASE RequestDisconnect(c)
    <3>1. SetClient(c, [old EXCEPT !.connected = FALSE,
                          !.initialized = c \in RouterClients, !.outcome = none])
      BY <2>2, Zenon DEF RequestDisconnect
    <3>2. \A i : [old EXCEPT !.connected = FALSE, !.initialized = i, !.outcome = none]
                 = [old EXCEPT !.initialized = i, !.connected = FALSE,
                      !.connections = @, !.at = @, !.outcome = none]
      BY <1>0
    <3>3. QuietSet(c, c \in RouterClients, FALSE, old.connections, old.at, none)
      BY <3>1, <3>2, Zenon DEF QuietSet
    <3> HIDE DEF none, threw, nothing
    <3> HIDE DEF none, threw, nothing
    <3> QED BY <1>0, <3>3, QuietRecord
  <2>3. CASE RequestRefused(c)
    <3>1. QuietSet(c, old.initialized, old.connected, old.connections, old.at, threw)
      BY <1>0, <2>3 DEF RequestRefused, SetClient, QuietSet
    <3> HIDE DEF none, threw, nothing
    <3> HIDE DEF none, threw, nothing
    <3> QED BY <1>0, <3>1, QuietRecord
  <2>4. CASE RequestBlocks(c)
    <3>1. QuietSet(c, old.initialized, old.connected, old.connections, "sending", none)
      BY <1>0, <2>4 DEF RequestBlocks, SetClient, QuietSet
    <3> HIDE DEF none, threw, nothing
    <3> HIDE DEF none, threw, nothing
    <3> QED BY <1>0, <3>1, QuietRecord
  <2>5. CASE RequestTimesOut(c)
    <3>1. QuietSet(c, old.initialized, old.connected, old.connections, "idle", nothing)
      BY <1>0, <2>5 DEF RequestTimesOut, SetClient, QuietSet
    <3> HIDE DEF none, threw, nothing
    <3> QED BY <1>0, <3>1, QuietRecord
  <2> QED BY <2>1, <2>2, <2>3, <2>4, <2>5
<1>2. /\ ClientsOK'
      /\ \A d \in Clients : client'[d].made = client[d].made /\ client'[d].owes = client[d].owes
      /\ \A d \in Clients \ {c} : client'[d] = client[d]
      /\ client'[c].outcome.is \notin {"returned", "found"}
  BY <1>1 DEF KeepsRequest
<1>3. requests' = requests /\ answers' \subseteq answers /\ service' = service
  BY DEF AnswersOfOthers, RequestInitialize, RequestDisconnect, RequestRefused, RequestBlocks,
         RequestTimesOut
<1>4. Awaited'
  BY <1>2, <1>3 DEF SocketsOK, Awaited, IsAwaited
<1>5. OneMessage'
  BY <1>3 DEF SocketsOK, OneMessage
<1>6. Answered'
  BY <1>2 DEF Answered
<1>7. ServicesOK'
  BY <1>3 DEF SocketsOK, ServicesOK
<1> QED BY <1>2, <1>4, <1>5, <1>6, <1>7 DEF SocketsOK

(* A client that sends had nothing under way.                              *)
LEMMA SendKeeps ==
  ASSUME SocketsOK, Answered, NEW c \in Clients, RequestSend(c)
  PROVE  SocketsOK' /\ Answered'
<1> DEFINE n == client[c].made + 1
           sent == [from |-> c, connection |-> client[c].connections, n |-> n]
<1>1. /\ ClientsOK'
      /\ client'[c].made = n /\ client'[c].owes = n /\ n # 0
      /\ client'[c].outcome.is = "none"
      /\ \A d \in Clients \ {c} : client'[d] = client[d]
  <2> DEFINE new == [client[c] EXCEPT !.at = "receiving", !.made = n, !.owes = n,
                       !.outcome = [is |-> "none"]]
  <2>1. SetClient(c, new)
    BY DEF RequestSend
  <2>2. /\ DOMAIN new = DOMAIN client[c] /\ n \in Nat /\ n # 0
        /\ new.made = n /\ new.owes = n /\ new.outcome = [is |-> "none"]
    BY DEF SocketsOK, ClientsOK
  <2> HIDE DEF new, n
  <2> QED BY <2>1, <2>2, ClientSet DEF SocketsOK
<1>2. /\ requests' = requests \cup {sent} /\ answers' = answers /\ service' = service
      /\ client[c].owes = 0
  BY DEF RequestSend
<1>3. /\ \A m \in requests \cup answers : m.from # c
      /\ \A s \in Services : \A m \in service[s].owes : m.from # c
  BY <1>2 DEF SocketsOK, Awaited, IsAwaited
<1>4. Awaited'
  BY <1>1, <1>2, <1>3 DEF SocketsOK, Awaited, IsAwaited
<1>5. OneMessage'
  BY <1>2, <1>3 DEF SocketsOK, OneMessage
<1>6. Answered'
  BY <1>1 DEF Answered
<1>7. ServicesOK'
  BY <1>2 DEF SocketsOK, ServicesOK
<1> QED BY <1>1, <1>4, <1>5, <1>6, <1>7 DEF SocketsOK

(* A client that receives has nothing under way any more, and what it got  *)
(* is the answer to its last request.                                      *)
LEMMA ReceiveKeeps ==
  ASSUME SocketsOK, Answered, NEW c \in Clients, RequestReceive(c)
  PROVE  SocketsOK' /\ Answered'
<1>1. PICK a \in answers :
        /\ a.from = c
        /\ answers' = answers \ {a}
        /\ \E o \in
             {[is |-> "threw", answer |-> a.n]}
               \cup (IF c \in Directories
                     THEN UNION {{[is |-> "found", answer |-> a.n, of |-> s, socket |-> k] :
                                    k \in Lookup(Listed, s)} : s \in Sought}
                     ELSE {[is |-> "returned", answer |-> a.n]}) :
             SetClient(c, [client[c] EXCEPT !.at = "idle", !.owes = 0, !.outcome = o])
  BY Zenon DEF RequestReceive
<1>2. PICK o :
        /\ o.answer = a.n /\ (o.is = "found" => IsListed(o.of))
        /\ SetClient(c, [client[c] EXCEPT !.at = "idle", !.owes = 0, !.outcome = o])
  <2>1. PICK o \in
          {[is |-> "threw", answer |-> a.n]}
            \cup (IF c \in Directories
                  THEN UNION {{[is |-> "found", answer |-> a.n, of |-> s, socket |-> k] :
                                 k \in Lookup(Listed, s)} : s \in Sought}
                  ELSE {[is |-> "returned", answer |-> a.n]}) :
          SetClient(c, [client[c] EXCEPT !.at = "idle", !.owes = 0, !.outcome = o])
    BY <1>1
  <2>2. o.answer = a.n
    BY <2>1
  <2>3. CASE o.is = "found"
    <3>1. PICK s \in Sought : \E k \in Lookup(Listed, s) :
            o = [is |-> "found", answer |-> a.n, of |-> s, socket |-> k]
      BY <2>1, <2>3
    <3>2. IsListed(s) /\ o.of = s
      BY <3>1, LookupFinds
    <3> QED BY <2>1, <2>2, <3>2
  <2> QED BY <2>1, <2>2, <2>3
<1>3. a.n = client[c].made
  BY <1>1 DEF SocketsOK, Awaited, IsAwaited
<1>4. /\ ClientsOK'
      /\ client'[c].made = client[c].made /\ client'[c].outcome = o
      /\ \A d \in Clients \ {c} : client'[d] = client[d]
  <2> DEFINE new == [client[c] EXCEPT !.at = "idle", !.owes = 0, !.outcome = o]
  <2>1. /\ DOMAIN new = DOMAIN client[c] /\ new.made \in Nat /\ new.owes = 0
        /\ new.made = client[c].made /\ new.outcome = o
    BY DEF SocketsOK, ClientsOK
  <2>2. SetClient(c, new) /\ 0 \in Nat
    BY <1>2
  <2> HIDE DEF new
  <2> QED BY <2>1, <2>2, ClientSet DEF SocketsOK
<1>5. requests' = requests /\ service' = service
  BY DEF RequestReceive
<1>6. /\ \A m \in requests' \cup answers' : m.from # c
      /\ \A s \in Services : \A m \in service'[s].owes : m.from # c
  BY <1>1, <1>5 DEF SocketsOK, OneMessage
<1>7. Awaited'
  BY <1>1, <1>4, <1>5, <1>6 DEF SocketsOK, Awaited, IsAwaited
<1>8. OneMessage'
  BY <1>1, <1>5 DEF SocketsOK, OneMessage
<1>9. Answered'
  BY <1>2, <1>3, <1>4 DEF Answered
<1>10. ServicesOK'
  BY <1>5 DEF SocketsOK, ServicesOK
<1> QED BY <1>4, <1>7, <1>8, <1>9, <1>10 DEF SocketsOK

-----------------------------------------------------------------------------
(* The services' steps.                                                    *)

(* A step of a service's that keeps the messages where they are.           *)
LEMMA ServiceOnly ==
  ASSUME SocketsOK, Answered, ServicesOK', UNCHANGED <<client, requests, answers>>,
         \A s \in Services : service'[s].owes = service[s].owes
  PROVE  SocketsOK' /\ Answered'
<1>1. Awaited'
  BY DEF SocketsOK, Awaited, IsAwaited
<1>2. OneMessage'
  BY DEF SocketsOK, OneMessage
<1> QED BY <1>1, <1>2 DEF SocketsOK, ClientsOK, Answered

(* One service's record is replaced by another that has the same fields.   *)
LEMMA ServiceSet ==
  ASSUME ServicesOK, NEW s \in Services, NEW new, SetService(s, new),
         DOMAIN new = DOMAIN service[s],
         new.threads \in Seq({"looking", "polling", "calling"}), Len(new.threads) <= 1
  PROVE  /\ ServicesOK'
         /\ service'[s] = new
         /\ \A t \in Services \ {s} : service'[t] = service[t]
<1>1. /\ DOMAIN service = Services
      /\ service' = [t \in Services |-> IF t = s THEN new ELSE service[t]]
  BY DEF ServicesOK, SetService
<1>2. \A t \in Services : service'[t] = IF t = s THEN new ELSE service[t]
  BY <1>1
<1>3. service' = [t \in Services |-> service'[t]]
  BY <1>1
<1> QED BY <1>2, <1>3 DEF ServicesOK

(* The fields that a service's steps change, other than the request that it*)
(* owes the answer to.                                                     *)
ServiceFields(s, new, connected, threads, owes) ==
  /\ SetService(s, new)
  /\ DOMAIN new = DOMAIN service[s]
  /\ new.connected = connected /\ new.threads = threads /\ new.owes = owes

LEMMA ServiceRecord ==
  ASSUME ServicesOK, NEW s \in Services, NEW new, NEW connected, NEW threads, NEW owes,
         ServiceFields(s, new, connected, threads, owes),
         threads \in Seq({"looking", "polling", "calling"}), Len(threads) <= 1
  PROVE  /\ ServicesOK'
         /\ service'[s].connected = connected /\ service'[s].owes = owes
         /\ \A t \in Services \ {s} : service'[t] = service[t]
BY ServiceSet DEF ServiceFields

(* The owner's calls leave one thread at most, and change the connection   *)
(* only after the join.                                                    *)
LEMMA OwnerKeeps ==
  ASSUME SocketsOK, Answered, NEW s \in Services,
         \/ ReplyInitialize(s) \/ ReplyDisconnect(s) \/ ReplyConnects(s)
         \/ ReplyStart(s) \/ ReplySpawns(s) \/ ReplyStop(s)
  PROVE  /\ SocketsOK' /\ Answered'
         /\ \A t \in Services : service'[t].connected # service[t].connected => Joined(t)
<1> DEFINE old == service[s]
<1>1. /\ ServicesOK
      /\ DOMAIN old = {"connected", "running", "starts", "owner", "threads", "owes"}
      /\ old.threads \in Seq({"looking", "polling", "calling"}) /\ Len(old.threads) <= 1
  BY DEF SocketsOK, ServicesOK
<1>2. /\ ServicesOK'
      /\ \A t \in Services : service'[t].owes = service[t].owes
      /\ \A t \in Services : service'[t].connected # service[t].connected => Joined(t)
  <2>1. CASE ReplySpawns(s)
    <3> DEFINE threads == Append(old.threads, "looking")
               new == [old EXCEPT !.owner = "idle", !.running = TRUE, !.threads = threads]
    <3>1. ServiceFields(s, new, old.connected, threads, old.owes)
      BY <1>1, <2>1 DEF ReplySpawns, ServiceFields
    <3>2. old.threads = << >>
      BY <2>1 DEF ReplySpawns, Joined
    <3>3. threads \in Seq({"looking", "polling", "calling"}) /\ Len(threads) <= 1
      BY <1>1, <3>2, AppendProperties
    <3> HIDE DEF new, threads
    <3>4. /\ ServicesOK'
          /\ service'[s].connected = old.connected /\ service'[s].owes = old.owes
          /\ \A t \in Services \ {s} : service'[t] = service[t]
      BY <1>1, <3>1, <3>3, ServiceRecord
    <3> QED BY <3>4
  <2>2. CASE ReplyConnects(s)
    <3>1. PICK connects : SetService(s, [old EXCEPT !.owner = "idle", !.connected = connects])
      BY <2>2 DEF ReplyConnects
    <3> DEFINE new == [old EXCEPT !.owner = "idle", !.connected = connects]
    <3>2. ServiceFields(s, new, connects, old.threads, old.owes)
      BY <1>1, <3>1 DEF ServiceFields
    <3>3. Joined(s)
      BY <2>2 DEF ReplyConnects
    <3> HIDE DEF new
    <3>4. /\ ServicesOK' /\ service'[s].owes = old.owes
          /\ \A t \in Services \ {s} : service'[t] = service[t]
      BY <1>1, <3>2, ServiceRecord
    <3> QED BY <3>3, <3>4
  <2>3. CASE ReplyInitialize(s) \/ ReplyDisconnect(s) \/ ReplyStart(s) \/ ReplyStop(s)
    <3>1. PICK owner, starts :
            SetService(s, [old EXCEPT !.owner = owner, !.running = FALSE, !.starts = starts])
      <4>1. CASE ReplyInitialize(s)
        <5>1. SetService(s, [old EXCEPT !.owner = "reinitializing", !.running = FALSE,
                               !.starts = old.starts])
          BY <1>1, <4>1 DEF ReplyInitialize, SetService
        <5> QED BY <5>1
      <4>2. CASE ReplyDisconnect(s)
        <5>1. SetService(s, [old EXCEPT !.owner = "disconnecting", !.running = FALSE,
                               !.starts = old.starts])
          BY <1>1, <4>2 DEF ReplyDisconnect, SetService
        <5> QED BY <5>1
      <4>3. CASE ReplyStart(s)
        <5>1. SetService(s, [old EXCEPT !.owner = "starting", !.running = FALSE,
                               !.starts = old.starts + 1])
          BY <1>1, <4>3 DEF ReplyStart, SetService
        <5> QED BY <5>1
      <4>4. CASE ReplyStop(s)
        <5>1. SetService(s, [old EXCEPT !.owner = old.owner, !.running = FALSE,
                               !.starts = old.starts])
          BY <1>1, <4>4 DEF ReplyStop, SetService
        <5> QED BY <5>1
      <4> QED BY <2>3, <4>1, <4>2, <4>3, <4>4
    <3> DEFINE new == [old EXCEPT !.owner = owner, !.running = FALSE, !.starts = starts]
    <3>2. ServiceFields(s, new, old.connected, old.threads, old.owes)
      BY <1>1, <3>1 DEF ServiceFields
    <3> HIDE DEF new
    <3>3. /\ ServicesOK'
          /\ service'[s].connected = old.connected /\ service'[s].owes = old.owes
          /\ \A t \in Services \ {s} : service'[t] = service[t]
      BY <1>1, <3>2, ServiceRecord
    <3> QED BY <3>3
  <2> QED BY <2>1, <2>2, <2>3
<1>3. UNCHANGED <<client, requests, answers>>
  BY DEF ReplyInitialize, ReplyDisconnect, ReplyConnects, ReplyStart, ReplySpawns, ReplyStop
<1> QED BY <1>2, <1>3, ServiceOnly

(* The list of threads stays one thread long, or becomes empty.            *)
LEMMA OneThread ==
  ASSUME ServicesOK, NEW s \in Services, NEW i \in DOMAIN service[s].threads,
         NEW at \in {"looking", "polling", "calling"}
  PROVE  /\ [service[s].threads EXCEPT ![i] = at] \in Seq({"looking", "polling", "calling"})
         /\ Len([service[s].threads EXCEPT ![i] = at]) <= 1
         /\ Others(s, i) \in Seq({"looking", "polling", "calling"})
         /\ Len(Others(s, i)) <= 1
<1> DEFINE threads == service[s].threads
           S == {"looking", "polling", "calling"}
<1>1. /\ threads \in Seq(S) /\ Len(threads) <= 1
      /\ i \in DOMAIN threads /\ DOMAIN threads = 1 .. Len(threads)
  BY DEF ServicesOK
<1>2. Others(s, i) = SubSeq(threads, 1, i - 1) \o SubSeq(threads, i + 1, Len(threads))
  BY DEF Others
<1>3. /\ [threads EXCEPT ![i] = at] \in Seq(S)
      /\ Len([threads EXCEPT ![i] = at]) <= 1
      /\ Others(s, i) \in Seq(S) /\ Len(Others(s, i)) <= 1
  <2> HIDE DEF threads, S
  <2>1. i = 1 /\ Len(threads) = 1
    BY <1>1
  <2>2. [threads EXCEPT ![i] = at] \in Seq(S) /\ Len([threads EXCEPT ![i] = at]) <= 1
    BY <1>1, <2>1, ExceptSeq DEF S
  <2>3. SubSeq(threads, 1, 0) = << >> /\ SubSeq(threads, 2, 1) = << >>
    BY <1>1
  <2>4. Others(s, i) = << >> \o << >>
    BY <1>2, <2>1, <2>3
  <2>5. << >> \o << >> = << >> /\ << >> \in Seq(S) /\ Len(<< >>) <= 1
    OBVIOUS
  <2> QED BY <2>2, <2>4, <2>5
<1> QED BY <1>3, Zenon

(* The thread's steps hand a message on: what is among the requests goes to*)
(* the service, and from there among the answers or nowhere.               *)
LEMMA PollerKeeps ==
  ASSUME SocketsOK, Answered, NEW s \in Services, NEW i \in DOMAIN service[s].threads,
         \/ PollerLooks(s, i) \/ PollerTimesOut(s, i) \/ PollerReceives(s, i)
         \/ PollerAnswers(s, i) \/ PollerFails(s, i)
  PROVE  /\ SocketsOK' /\ Answered'
         /\ \A t \in Services : service'[t].connected = service[t].connected
<1> DEFINE old == service[s]
           moved(at) == [old.threads EXCEPT ![i] = at]
<1>1. /\ ServicesOK
      /\ DOMAIN old = {"connected", "running", "starts", "owner", "threads", "owes"}
  BY DEF SocketsOK, ServicesOK
<1>2. client' = client
  BY DEF PollerLooks, PollerTimesOut, PollerReceives, PollerAnswers, PollerFails
<1>3. CASE PollerLooks(s, i) \/ PollerTimesOut(s, i) \/ PollerFails(s, i)
  <2>1. PICK threads \in {moved("polling"), moved("looking"), Others(s, i)} :
          SetService(s, [old EXCEPT !.threads = threads])
    BY <1>1, <1>3 DEF PollerLooks, PollerTimesOut, PollerFails, SetService
  <2> DEFINE new == [old EXCEPT !.threads = threads]
  <2>2. ServiceFields(s, new, old.connected, threads, old.owes)
    BY <1>1, <2>1 DEF ServiceFields
  <2>3. threads \in Seq({"looking", "polling", "calling"}) /\ Len(threads) <= 1
    BY <1>1, <2>1, OneThread
  <2> HIDE DEF new
  <2>4. /\ ServicesOK'
        /\ service'[s].connected = old.connected /\ service'[s].owes = old.owes
        /\ \A t \in Services \ {s} : service'[t] = service[t]
    BY <1>1, <2>2, <2>3, ServiceRecord
  <2>5. UNCHANGED <<client, requests, answers>>
    BY <1>3 DEF PollerLooks, PollerTimesOut, PollerFails
  <2>6. \A t \in Services : /\ service'[t].owes = service[t].owes
                            /\ service'[t].connected = service[t].connected
    BY <2>4
  <2> QED BY <2>4, <2>5, <2>6, ServiceOnly
<1>4. CASE PollerReceives(s, i)
  <2>1. PICK m \in requests :
          /\ requests' = requests \ {m}
          /\ SetService(s, [old EXCEPT !.threads = moved("calling"), !.owes = {m}])
    BY <1>1, <1>4 DEF PollerReceives, SetService
  <2>2. answers' = answers /\ old.owes = {}
    BY <1>4 DEF PollerReceives
  <2> DEFINE threads == moved("calling")
             new == [old EXCEPT !.threads = threads, !.owes = {m}]
  <2>3. ServiceFields(s, new, old.connected, threads, {m})
    BY <1>1, <2>1 DEF ServiceFields
  <2>4. threads \in Seq({"looking", "polling", "calling"}) /\ Len(threads) <= 1
    BY <1>1, OneThread
  <2> HIDE DEF new, threads
  <2>5. /\ ServicesOK'
        /\ service'[s].connected = old.connected /\ service'[s].owes = {m}
        /\ \A t \in Services \ {s} : service'[t] = service[t]
    BY <1>1, <2>3, <2>4, ServiceRecord
  <2>6. Awaited'
    BY <1>2, <2>1, <2>2, <2>5 DEF SocketsOK, Awaited, IsAwaited
  <2>7. OneMessage'
    BY <2>1, <2>2, <2>5 DEF SocketsOK, OneMessage
  <2> QED BY <1>2, <2>5, <2>6, <2>7 DEF SocketsOK, ClientsOK, Answered
<1>5. CASE PollerAnswers(s, i)
  <2>1. SetService(s, [old EXCEPT !.threads = moved("looking"), !.owes = {}])
    BY <1>1, <1>5 DEF PollerAnswers, SetService
  <2>2. requests' = requests /\ answers \subseteq answers' /\ answers' \subseteq answers \cup old.owes
    BY <1>5 DEF PollerAnswers
  <2> DEFINE threads == moved("looking")
             new == [old EXCEPT !.threads = threads, !.owes = {}]
  <2>3. ServiceFields(s, new, old.connected, threads, {})
    BY <1>1, <2>1 DEF ServiceFields
  <2>4. threads \in Seq({"looking", "polling", "calling"}) /\ Len(threads) <= 1
    BY <1>1, OneThread
  <2> HIDE DEF new, threads
  <2>5. /\ ServicesOK'
        /\ service'[s].connected = old.connected /\ service'[s].owes = {}
        /\ \A t \in Services \ {s} : service'[t] = service[t]
    BY <1>1, <2>3, <2>4, ServiceRecord
  <2>6. Awaited'
    BY <1>2, <2>2, <2>5 DEF SocketsOK, Awaited, IsAwaited
  <2>7. OneMessage'
    BY <2>2, <2>5 DEF SocketsOK, OneMessage
  <2> QED BY <1>2, <2>5, <2>6, <2>7 DEF SocketsOK, ClientsOK, Answered
<1> QED BY <1>3, <1>4, <1>5

-----------------------------------------------------------------------------
(* The theorems.                                                           *)

UsersStep == \A s \in Services :
  /\ Len(service'[s].threads) <= 1
  /\ service'[s].connected # service[s].connected => Joined(s)

LEMMA SocketsStep ==
  ASSUME SocketsOK, Answered, [Next]_vars
  PROVE  SocketsOK' /\ Answered' /\ UsersStep
<1>1. CASE UNCHANGED requestReplyVars
  <2>1. UNCHANGED <<client, service, requests, answers>>
    BY <1>1 DEF requestReplyVars
  <2> QED BY <2>1 DEF SocketsOK, ClientsOK, ServicesOK, Awaited, IsAwaited, OneMessage, Answered,
                      UsersStep
<1>2. CASE RequestReplyNext
  <2>1. CASE \E c \in Clients :
          \/ RequestInitialize(c) \/ RequestDisconnect(c) \/ RequestRefused(c) \/ RequestBlocks(c)
          \/ RequestSend(c) \/ RequestReceive(c) \/ RequestTimesOut(c)
    <3>1. SocketsOK' /\ Answered'
      BY <2>1, QuietCall, SendKeeps, ReceiveKeeps
    <3>2. service' = service
      BY <2>1 DEF RequestInitialize, RequestDisconnect, RequestRefused, RequestBlocks,
                  RequestSend, RequestReceive, RequestTimesOut
    <3> QED BY <3>1, <3>2 DEF UsersStep, SocketsOK, ServicesOK
  <2>2. CASE \E s \in Services :
          \/ ReplyInitialize(s) \/ ReplyDisconnect(s) \/ ReplyConnects(s)
          \/ ReplyStart(s) \/ ReplySpawns(s) \/ ReplyStop(s)
    <3>1. /\ SocketsOK' /\ Answered'
          /\ \A t \in Services : service'[t].connected # service[t].connected => Joined(t)
      BY <2>2, OwnerKeeps
    <3> QED BY <3>1 DEF UsersStep, SocketsOK, ServicesOK
  <2>3. CASE \E s \in Services : \E i \in DOMAIN service[s].threads :
          \/ PollerLooks(s, i) \/ PollerTimesOut(s, i) \/ PollerReceives(s, i)
          \/ PollerAnswers(s, i) \/ PollerFails(s, i)
    <3>1. /\ SocketsOK' /\ Answered'
          /\ \A t \in Services : service'[t].connected = service[t].connected
      BY <2>3, PollerKeeps
    <3> QED BY <3>1 DEF UsersStep, SocketsOK, ServicesOK
  <2> QED BY <1>2, <2>1, <2>2, <2>3 DEF RequestReplyNext
<1> QED BY <1>1, <1>2 DEF Next, vars

(* However many clients and services there are and however their calls     *)
(* overlap, a service's socket is used by one thread at a time.            *)
THEOREM SocketHasOneUserTheorem == Spec => SocketHasOneUser
<1>1. Init => SocketsOK /\ Answered
  BY SocketsInit
<1>2. SocketsOK /\ Answered /\ [Next]_vars => (SocketsOK /\ Answered)'
  BY SocketsStep
<1>3. SocketsOK /\ Answered /\ [Next]_vars => [UsersStep]_requestReplyVars
  BY SocketsStep
<1> QED BY <1>1, <1>2, <1>3, PTL DEF Spec, SocketHasOneUser, UsersStep

(* What a call of request() returns is the answer to that very request, and*)
(* what a lookup finds is listed under the name and of the kind sought, for*)
(* any list, whatever is lost and however late the answers come.           *)
THEOREM AnswersOwnRequestTheorem == Spec => []AnswersOwnRequest
<1>1. Init => SocketsOK /\ Answered
  BY SocketsInit
<1>2. SocketsOK /\ Answered /\ [Next]_vars => (SocketsOK /\ Answered)'
  BY SocketsStep
<1>3. Answered => AnswersOwnRequest
  BY DEF Answered, AnswersOwnRequest, IsListed
<1> QED BY <1>1, <1>2, <1>3, PTL DEF Spec

-----------------------------------------------------------------------------
(* What a program knows of passwords and keys.                             *)

(* The password that is kept is that of the hash.                          *)
PasswordOK ==
  /\ "hashedPassword" \in DOMAIN user
  /\ matching # "" => user.hashedPassword = matching

(* A hash that is kept is of the present password.                         *)
HashesOK ==
  /\ DOMAIN account = {"userName", "password", "hashes"}
  /\ DOMAIN account.hashes = Levels
  /\ \A l \in Levels : account.hashes[l] # Unset => account.hashes[l] = account.password

(* Options have what their level takes.                                    *)
SecurityOK ==
  /\ DOMAIN zap = {"level", "server", "account", "serverKeys", "clientKeys"}
  /\ CanSecure

CredentialsOK == PasswordOK /\ HashesOK /\ SecurityOK /\ CredentialsHold

LEMMA CredentialsInit ==
  ASSUME NEW files, CredentialInit(files)
  PROVE  CredentialsOK
<1> USE DEF CredentialInit
<1>1. PasswordOK
  BY DEF PasswordOK, New, UserFields
<1>2. HashesOK
  BY DEF HashesOK, NewAccount
<1>3. SecurityOK
  BY DEF SecurityOK, NewZAP, CanSecure
<1>4. CredentialsHold
  BY DEF CredentialsHold, Nothing
<1> QED BY <1>1, <1>2, <1>3, <1>4 DEF CredentialsOK

(* What is not called leaves the user, the account and the options alone;  *)
(* a call that returns nothing contradicts nothing.                        *)
LEMMA SilentCall ==
  ASSUME CredentialsOK, result' = Nothing
  PROVE  /\ UNCHANGED <<user, matching>> => PasswordOK'
         /\ UNCHANGED account => HashesOK'
         /\ UNCHANGED zap => SecurityOK'
         /\ CredentialsHold'
  BY DEF CredentialsOK, PasswordOK, HashesOK, SecurityOK, CanSecure, CredentialsHold, Nothing

(* The calls on a user.                                                    *)
LEMMA UserKeeps ==
  ASSUME CredentialsOK, UserNext
  PROVE  CredentialsOK'
<1> USE DEF othersThanUser
<1>1. UNCHANGED <<account, zap>> /\ HashesOK' /\ SecurityOK'
  <2>1. UNCHANGED <<account, zap>>
    BY DEF UserNext, SetUser, SetHashedPassword, ClearUser, DoesPasswordMatch, CarryUser, LoadUser
  <2> QED BY <2>1 DEF CredentialsOK, HashesOK, SecurityOK, CanSecure
<1>2. CASE SetUser
  <2>1. PICK f \in DOMAIN UserFields \ {"hashedPassword"} :
          \E k : user' = [user EXCEPT ![f] = k]
    BY <1>2 DEF SetUser
  <2>2. PasswordOK'
    BY <1>2, <2>1 DEF SetUser, CredentialsOK, PasswordOK
  <2> QED BY <1>1, <1>2, <2>2, SilentCall DEF SetUser, CredentialsOK
<1>3. CASE SetHashedPassword
  <2>1. PICK k : user' = [user EXCEPT !.hashedPassword = k]
    BY <1>3 DEF SetHashedPassword
  <2>2. PasswordOK'
    BY <1>3, <2>1 DEF SetHashedPassword, CredentialsOK, PasswordOK
  <2> QED BY <1>1, <1>3, <2>2, SilentCall DEF SetHashedPassword, CredentialsOK
<1>4. CASE ClearUser
  <2>1. PasswordOK'
    BY <1>4 DEF ClearUser, PasswordOK, New, UserFields
  <2> QED BY <1>1, <1>4, <2>1, SilentCall DEF ClearUser, CredentialsOK
<1>5. CASE DoesPasswordMatch
  <2>1. PICK p \in Passwords, matches \in BOOLEAN :
          /\ matches = (user.hashedPassword = p)
          /\ result' = [is |-> "compared", with |-> p, matches |-> matches]
          /\ matching' = IF matches /\ matching = "" THEN p ELSE matching
    BY <1>5, PasswordsAssumption DEF DoesPasswordMatch, CredentialsOK, PasswordOK
  <2>2. user' = user
    BY <1>5 DEF DoesPasswordMatch
  <2>3. PasswordOK'
    BY <2>1, <2>2 DEF CredentialsOK, PasswordOK
  <2>4. /\ result'.is = "compared" /\ result'.matches = matches /\ result'.with = p
    BY <2>1
  <2>5. CredentialsHold'
    BY <2>1, <2>2, <2>4 DEF CredentialsHold
  <2> QED BY <1>1, <2>3, <2>5 DEF CredentialsOK
<1>6. CASE CarryUser
  <2>1. PasswordOK'
    BY <1>6 DEF CarryUser, CredentialsOK, PasswordOK
  <2>2. CredentialsHold'
    <3>1. result' = [is |-> "threw"] \/ result' = Nothing
      BY <1>6, Zenon DEF CarryUser
    <3> QED BY <3>1 DEF CredentialsHold, Nothing
  <2> QED BY <1>1, <2>1, <2>2 DEF CredentialsOK
<1>7. CASE LoadUser
  <2>1. DOMAIN user' = DOMAIN New(UserFields) /\ matching' = ""
    BY <1>7 DEF LoadUser
  <2>2. PasswordOK'
    BY <2>1 DEF PasswordOK, New, UserFields
  <2> QED BY <1>1, <1>7, <2>2, SilentCall DEF LoadUser, CredentialsOK
<1> QED BY <1>2, <1>3, <1>4, <1>5, <1>6, <1>7 DEF UserNext

(* The calls on an account.                                                *)
LEMMA SetAccountKeeps ==
  ASSUME CredentialsOK, NEW passwords, SetAccount(passwords)
  PROVE  CredentialsOK'
<1>1. /\ UNCHANGED <<user, matching, zap>> /\ result' = Nothing
      /\ \/ account' = [account EXCEPT !.userName = "one"]
         \/ \E p : account' = [account EXCEPT !.password = p, !.hashes = NewAccount.hashes]
         \/ account' = NewAccount
  BY DEF SetAccount, othersThanAccount
<1>2. HashesOK'
  <2>1. CASE account' = [account EXCEPT !.userName = "one"]
    BY <2>1 DEF CredentialsOK, HashesOK
  <2>2. ASSUME NEW p, account' = [account EXCEPT !.password = p, !.hashes = NewAccount.hashes]
        PROVE  HashesOK'
    BY <2>2 DEF CredentialsOK, HashesOK, NewAccount
  <2>3. CASE account' = NewAccount
    BY <2>3 DEF HashesOK, NewAccount
  <2> QED BY <1>1, <2>1, <2>2, <2>3
<1> QED BY <1>1, <1>2, SilentCall DEF CredentialsOK

LEMMA AccountKeeps ==
  ASSUME CredentialsOK, AccountNext
  PROVE  CredentialsOK'
<1>1. CASE SetAccount(Passwords)
  BY <1>1, SetAccountKeeps
<1>2. CASE GetHashedPassword
  <2> DEFINE hash(l) ==
        IF account.hashes[l] # Unset THEN account.hashes[l] ELSE account.password
  <2>1. PICK level \in Levels :
          /\ account' = [account EXCEPT !.hashes[level] = hash(level)]
          /\ result' = [is |-> "hashed", hash |-> hash(level)]
    BY <1>2 DEF GetHashedPassword
  <2>2. UNCHANGED <<user, matching, zap>>
    BY <1>2 DEF GetHashedPassword, othersThanAccount
  <2>3. hash(level) = account.password
    BY <2>1 DEF CredentialsOK, HashesOK
  <2>4. HashesOK' /\ account'.password = account.password
    BY <2>1, <2>3 DEF CredentialsOK, HashesOK
  <2>5. CredentialsHold'
    BY <2>1, <2>3, <2>4 DEF CredentialsHold
  <2>6. PasswordOK' /\ SecurityOK'
    BY <2>2 DEF CredentialsOK, PasswordOK, SecurityOK, CanSecure
  <2> QED BY <2>4, <2>5, <2>6 DEF CredentialsOK
<1> QED BY <1>1, <1>2 DEF AccountNext

(* A setter of a level stores what the level takes, or throws.             *)
LEMMA SecuredIsSecure ==
  ASSUME NEW before, NEW level \in SecurityLevels, NEW server \in BOOLEAN,
         NEW theAccount, NEW theKeys,
         DOMAIN before = {"level", "server", "account", "serverKeys", "clientKeys"},
         zap' \in Secured(before, level, server, theAccount, theKeys)
  PROVE  SecurityOK'
<1> DEFINE set == [before EXCEPT !.level = level, !.server = server]
<1>1. CASE level = "Woodhouse" /\ ~ server
  <2>1. PICK a : a.userName # Unset /\ a.password # Unset /\ zap' = [set EXCEPT !.account = a]
    BY <1>1 DEF Secured
  <2> QED BY <1>1, <2>1 DEF SecurityOK, CanSecure
<1>2. CASE level = "Stonehouse" /\ server
  <2>1. PICK k : Both(k) /\ zap' = [set EXCEPT !.serverKeys = k]
    BY <1>2 DEF Secured
  <2> QED BY <1>2, <2>1 DEF SecurityOK, CanSecure
<1>3. CASE level = "Stonehouse" /\ ~ server
  <2>1. PICK k : /\ k.server.publicKey /\ Both(k.client)
                 /\ zap' = [set EXCEPT !.serverKeys = k.server, !.clientKeys = k.client]
    BY <1>3 DEF Secured
  <2> QED BY <1>3, <2>1 DEF SecurityOK, CanSecure
<1>4. CASE ~(level = "Woodhouse" /\ ~ server) /\ level # "Stonehouse"
  <2>1. zap' = set
    BY <1>4 DEF Secured
  <2> QED BY <1>4, <2>1 DEF SecurityOK, CanSecure
<1> QED BY <1>1, <1>2, <1>3, <1>4

(* The calls on keys and security options.                                 *)
LEMMA SecurityKeeps ==
  ASSUME CredentialsOK, SecurityNext
  PROVE  CredentialsOK'
<1>1. CASE SetAccount({""})
  BY <1>1, SetAccountKeeps
<1>2. CASE SetKeys \/ WriteKey \/ LoadKey
  <2>1. UNCHANGED <<user, matching, account, zap>> /\ result' = Nothing
    BY <1>2 DEF SetKeys, WriteKey, LoadKey, othersThanKeys
  <2> QED BY <2>1, SilentCall DEF CredentialsOK
<1>3. CASE SetSecurity \/ ReadSecurity
  <2>1. UNCHANGED <<user, matching, account>> /\ result' = Nothing
    BY <1>3 DEF SetSecurity, ReadSecurity, othersThanZAP
  <2>2. ASSUME \E level \in SecurityLevels, server \in BOOLEAN :
                 zap' \in Secured(zap, level, server, account, keys)
        PROVE  SecurityOK'
    <3>1. DOMAIN zap = {"level", "server", "account", "serverKeys", "clientKeys"}
      BY DEF CredentialsOK, SecurityOK
    <3>2. PICK level \in SecurityLevels, server \in BOOLEAN :
            zap' \in Secured(zap, level, server, account, keys)
      BY <2>2
    <3> QED BY <3>1, <3>2, SecuredIsSecure, Zenon
  <2>3. ASSUME zap' = NewZAP PROVE SecurityOK'
    BY <2>3 DEF SecurityOK, NewZAP, CanSecure
  <2>4. ASSUME NEW level \in SecurityLevels, NEW server \in BOOLEAN, NEW a, NEW k,
               zap' \in Secured(NewZAP, level, server, a, k)
        PROVE  SecurityOK'
    <3>1. DOMAIN NewZAP = {"level", "server", "account", "serverKeys", "clientKeys"}
      BY DEF NewZAP
    <3> QED BY <2>4, <3>1, SecuredIsSecure, Zenon
  <2>5. SecurityOK'
    <3>1. ASSUME SetSecurity PROVE SecurityOK'
      BY <2>2, <2>3, <3>1, Zenon DEF SetSecurity
    <3>2. ASSUME ReadSecurity PROVE SecurityOK'
      BY <2>4, <3>2, Zenon DEF ReadSecurity
    <3> QED BY <1>3, <3>1, <3>2
  <2> QED BY <2>1, <2>5, SilentCall DEF CredentialsOK
<1>4. CASE SecureSocket
  <2>1. UNCHANGED <<user, matching, account, zap>> /\ result' = Nothing
    BY <1>4 DEF SecureSocket, othersThanZAP, CredentialsOK, SecurityOK
  <2> QED BY <2>1, SilentCall DEF CredentialsOK
<1> QED BY <1>1, <1>2, <1>3, <1>4 DEF SecurityNext

(* No password is compared with an old hash, no hash is of an old password,*)
(* and no order of the setters leaves options that cannot be applied, for  *)
(* any set of passwords: user.cpp, userNameAndPassword.cpp, zapOptions.cpp.*)
THEOREM CredentialsHoldInvariant == Spec => []CredentialsHold
<1>1. Init => CredentialsOK
  BY CredentialsInit DEF Init
<1>2. CredentialsOK /\ [Next]_vars => CredentialsOK'
  <2>1. CredentialsOK /\ UNCHANGED credentialVars => CredentialsOK'
    BY DEF credentialVars, CredentialsOK, PasswordOK, HashesOK, SecurityOK, CanSecure,
           CredentialsHold
  <2> QED BY <2>1, UserKeeps, AccountKeeps, SecurityKeeps DEF Next, vars
<1>3. CredentialsOK => CredentialsHold
  BY DEF CredentialsOK
<1> QED BY <1>1, <1>2, <1>3, PTL DEF Spec

-----------------------------------------------------------------------------
(* What a program sends and what the other one gets.                       *)

(* A setter keeps what it is given or throws, and what a new object has can*)
(* be set.                                                                 *)
KeepsAsGiven(field) ==
  \A v \in DOMAIN field.takes : field.takes[v] \subseteq {v}

FirstIsTaken(field) ==
  field.first # Unset =>
    field.first \in DOMAIN field.takes /\ field.takes[field.first] = {field.first}

Plain(fields) ==
  \A f \in DOMAIN fields : KeepsAsGiven(fields[f]) /\ FirstIsTaken(fields[f])

LEMMA StoredIsPlain ==
  ASSUME NEW first, NEW offers
  PROVE  KeepsAsGiven(Stored(first, offers)) /\ FirstIsTaken(Stored(first, offers))
  BY DEF KeepsAsGiven, FirstIsTaken, Stored, Checked, OrFirst

LEMMA NameIsPlain ==
  ASSUME NEW first, first # "blank" \/ first = Unset
  PROVE  KeepsAsGiven(Name(first)) /\ FirstIsTaken(Name(first))
  BY DEF KeepsAsGiven, FirstIsTaken, Name, Checked, OrFirst, NotBlank, IsEmpty

(* The classes that travel field by field.                                 *)
LEMMA StatusIsPlain == Plain(StatusFields)
<1>1. StatusFields.timeStamp =
        [first |-> Now, takes |-> [t \in Stamps |-> IF IsStamp(t) THEN {t} ELSE {}]]
  BY DEF StatusFields, Checked
<1>2. Now \in Stamps
  BY DEF Now, Stamps
<1>3. IsStamp(Now)
  BY DEF IsStamp, Now, Ranges
<1>4. KeepsAsGiven(StatusFields.timeStamp) /\ FirstIsTaken(StatusFields.timeStamp)
  BY <1>1, <1>2, <1>3 DEF KeepsAsGiven, FirstIsTaken
<1>5. /\ DOMAIN StatusFields = {"module", "hostName", "moduleStatus", "timeStamp"}
      /\ StatusFields.module = Name("unknown") /\ StatusFields.hostName = Name("this")
      /\ StatusFields.moduleStatus = Stored("Unknown", {"Alive", "Died"})
  BY DEF StatusFields
<1> QED BY <1>4, <1>5, StoredIsPlain, NameIsPlain DEF Plain

LEMMA RegistryIsPlain ==
  /\ Plain(ModuleDetailsFields)
  /\ Plain(RegistrationRequestFields)
  /\ Plain(AvailableModulesResponseFields)
<1>1. Plain(ModuleDetailsFields)
  BY StoredIsPlain, NameIsPlain DEF Plain, ModuleDetailsFields
<1>2. /\ KeepsAsGiven(RegistrationRequestFields.moduleDetails)
      /\ FirstIsTaken(RegistrationRequestFields.moduleDetails)
  BY DEF KeepsAsGiven, FirstIsTaken, RegistrationRequestFields, Checked
<1>3. Plain(RegistrationRequestFields)
  <2>1. /\ DOMAIN RegistrationRequestFields = {"registrationType", "moduleDetails"}
        /\ RegistrationRequestFields.registrationType =
             Stored("Register", {"Register", "Deregister"})
    BY DEF RegistrationRequestFields
  <2> QED BY <1>2, <2>1, StoredIsPlain DEF Plain
<1>4. /\ KeepsAsGiven(AvailableModulesResponseFields.modules)
      /\ FirstIsTaken(AvailableModulesResponseFields.modules)
  BY DEF KeepsAsGiven, FirstIsTaken, AvailableModulesResponseFields, Checked
<1>5. Plain(AvailableModulesResponseFields)
  <2>1. DOMAIN AvailableModulesResponseFields = {"identifier", "modules"}
    BY DEF AvailableModulesResponseFields, Checked
  <2>2. AvailableModulesResponseFields.identifier = Stored(0, Numbers)
    BY DEF AvailableModulesResponseFields, Checked
  <2> QED BY <1>4, <2>1, <2>2, StoredIsPlain DEF Plain
<1> QED BY <1>1, <1>3, <1>5

LEMMA ClassesArePlain ==
  ASSUME NEW c \in DOMAIN Classes, c # "AvailableConnectionsResponse"
  PROVE  Plain(Classes[c].fields)
<1>1. /\ Plain(CommandRequestFields)
      /\ Plain(CommandResponseFields)
      /\ Plain(AvailableCommandsResponseFields)
      /\ Plain(TerminateResponseFields)
      /\ Plain(RegistrationResponseFields)
      /\ Plain(AvailableModulesRequestFields)
      /\ Plain(FailureFields) /\ Plain(TextFields) /\ Plain(PingFields)
  BY StoredIsPlain, NameIsPlain
  DEF Plain, CommandRequestFields, CommandResponseFields, AvailableCommandsResponseFields,
      TerminateResponseFields, RegistrationResponseFields, AvailableModulesRequestFields,
      FailureFields, TextFields, PingFields
<1>2. Plain(<< >>)
  BY DEF Plain
<1> QED
  BY <1>1, <1>2, StatusIsPlain, RegistryIsPlain
  DEF Classes, Message, CommandRequest, CommandResponse, AvailableCommandsRequest,
      AvailableCommandsResponse, TerminateRequest, TerminateResponse, RegistrationRequest,
      RegistrationResponse, AvailableModulesRequest, AvailableModulesResponse, Failure, Text,
      PingRequest, PingResponse, ModuleTerminateRequest, ModuleTerminateResponse, Status,
      AvailableConnectionsRequest

(* The value of a field of the sender's object is that of a new object, or *)
(* one that its setter keeps.  Two operations go past the setters: a       *)
(* cleared status has another stamp, and a module in a list may be cleared.*)
FieldOK(o, f) ==
  LET field == Classes[o.class].fields[f]
      v == o.fields[f]
  IN \/ v = field.first
     \/ v \in DOMAIN field.takes /\ field.takes[v] = {v}
     \/ o.class = "Status" /\ f = "timeStamp" /\ v = Epoch
     \/ o.class = "AvailableModulesResponse" /\ f = "modules" /\ v \in DOMAIN field.takes

ObjectOK(o) ==
  /\ o = [class |-> o.class, fields |-> o.fields]
  /\ o.class \in DOMAIN Classes
  /\ DOMAIN o.fields = DOMAIN Classes[o.class].fields
  /\ \A f \in DOMAIN o.fields : FieldOK(o, f)

LEMMA NewObject ==
  ASSUME NEW c \in DOMAIN Classes
  PROVE  ObjectOK(Made(c))
  BY DEF ObjectOK, FieldOK, Made, New

(* A list of details is set whole, or not at all.                          *)
LEMMA DetailsKept ==
  LET field == AvailableConnectionsResponseFields.details IN
  /\ KeepsAsGiven(field)
  /\ DOMAIN AvailableConnectionsResponseFields = {"returnCode", "details"}
  /\ field.first = << >>
  /\ DOMAIN field.takes = {<<d>> : d \in SomeDetails}
  /\ \A d \in SomeDetails : field.takes[<<d>>] # {} => AreValid(d)
<1> DEFINE keep(s) == IF \A i \in DOMAIN s : AreValid(s[i]) THEN {s} ELSE {}
           offers == {<<d>> : d \in SomeDetails}
           field == AvailableConnectionsResponseFields.details
<1>1. field = [first |-> << >>, takes |-> [s \in offers |-> keep(s)]]
  BY DEF AvailableConnectionsResponseFields, Checked
<1>2. DOMAIN AvailableConnectionsResponseFields = {"returnCode", "details"}
  BY DEF AvailableConnectionsResponseFields, Checked
<1>3. \A s : keep(s) \subseteq {s}
  OBVIOUS
<1>4. ASSUME NEW d, keep(<<d>>) # {} PROVE AreValid(d)
  <2>1. 1 \in DOMAIN <<d>> /\ <<d>>[1] = d
    OBVIOUS
  <2> QED BY <1>4, <2>1
<1> HIDE DEF keep, offers, field
<1>5. KeepsAsGiven(field) /\ field.first = << >> /\ DOMAIN field.takes = offers
  BY <1>1, <1>3 DEF KeepsAsGiven
<1>6. \A d \in SomeDetails : <<d>> \in offers
  BY DEF offers
<1>7. \A d \in SomeDetails : field.takes[<<d>>] # {} => AreValid(d)
  BY <1>1, <1>4, <1>6
<1> QED BY <1>2, <1>5, <1>7 DEF field, offers

LEMMA AllKeepAsGiven ==
  ASSUME NEW c \in DOMAIN Classes, NEW f \in DOMAIN Classes[c].fields
  PROVE  KeepsAsGiven(Classes[c].fields[f])
<1>1. CASE c # "AvailableConnectionsResponse"
  BY <1>1, ClassesArePlain DEF Plain
<1>2. CASE c = "AvailableConnectionsResponse"
  <2>1. Classes[c].fields = AvailableConnectionsResponseFields
    BY <1>2 DEF Classes, Message, AvailableConnectionsResponse
  <2>2. CASE f = "details"
    BY <2>1, <2>2, DetailsKept
  <2>3. CASE f = "returnCode"
    <3>1. AvailableConnectionsResponseFields.returnCode = Stored("Success", Codes)
      BY DEF AvailableConnectionsResponseFields, Checked
    <3> QED BY <2>1, <2>3, <3>1, StoredIsPlain
  <2> QED BY <2>1, <2>2, <2>3, DetailsKept
<1> QED BY <1>1, <1>2

LEMMA FieldSet ==
  ASSUME ObjectOK(object), SetField
  PROVE  ObjectOK(object')
<1> DEFINE fields == Classes[object.class].fields
<1>0. PICK f \in DOMAIN fields :
        \E v \in DOMAIN fields[f].takes : \E k \in Kept(fields, f, v) :
          object' = [object EXCEPT !.fields[f] = k]
  BY DEF SetField, Change
<1>1. PICK v \in DOMAIN fields[f].takes :
        \E k \in fields[f].takes[v] : object' = [object EXCEPT !.fields[f] = k]
  BY <1>0 DEF Kept
<1>2. fields[f].takes[v] = {v} /\ object' = [object EXCEPT !.fields[f] = v]
  <2>1. fields[f].takes[v] \subseteq {v}
    BY AllKeepAsGiven DEF KeepsAsGiven, ObjectOK
  <2> QED BY <1>1, <2>1
<1>3. object' = [class |-> object.class, fields |-> [object.fields EXCEPT ![f] = v]]
  BY <1>2 DEF ObjectOK
<1>4. object'.class = object.class /\ object'.fields = [object.fields EXCEPT ![f] = v]
  BY <1>3
<1>5. ASSUME NEW g \in DOMAIN object'.fields PROVE FieldOK(object', g)
  <2>1. g \in DOMAIN fields /\ f \in DOMAIN object.fields
    BY <1>4, <1>5 DEF ObjectOK
  <2>2. CASE g = f
    BY <1>2, <1>4, <2>1, <2>2 DEF FieldOK
  <2>3. CASE g # f
    BY <1>4, <2>1, <2>3 DEF FieldOK, ObjectOK
  <2> QED BY <2>2, <2>3
<1> QED BY <1>3, <1>4, <1>5 DEF ObjectOK

LEMMA ObjectCleared ==
  ASSUME ObjectOK(object), ClearObject
  PROVE  ObjectOK(object')
<1> DEFINE new == Made(object.class)
<1>1. object.class \in DOMAIN Classes /\ ObjectOK(new)
  BY NewObject DEF ObjectOK
<1>2. CASE object.class = "Status"
  <2>1. object' = [new EXCEPT !.fields.timeStamp = Epoch]
    BY <1>2 DEF ClearObject, Change
  <2>2. object' = [class |-> "Status", fields |-> [new.fields EXCEPT !["timeStamp"] = Epoch]]
    BY <1>2, <2>1 DEF Made
  <2>3. object'.class = "Status" /\ object'.fields = [new.fields EXCEPT !["timeStamp"] = Epoch]
    BY <2>2
  <2>4. new.class = "Status" /\ "timeStamp" \in DOMAIN new.fields
    <3>1. Classes["Status"].fields = StatusFields
      BY DEF Classes, Message, Status
    <3>2. "timeStamp" \in DOMAIN StatusFields
      BY DEF StatusFields
    <3> QED BY <1>2, <3>1, <3>2 DEF Made, New
  <2>5. ASSUME NEW g \in DOMAIN object'.fields PROVE FieldOK(object', g)
    BY <1>1, <2>3, <2>4, <2>5 DEF FieldOK, ObjectOK
  <2> QED BY <1>1, <2>2, <2>3, <2>4, <2>5 DEF ObjectOK
<1>3. CASE object.class # "Status"
  <2>1. object' = new
    BY <1>3 DEF ClearObject, Change
  <2> QED BY <1>1, <2>1
<1> QED BY <1>2, <1>3

(* A list of modules of which one is cleared can be offered to the setter, *)
(* which refuses it.                                                       *)
LEMMA ModuleCleared ==
  ASSUME ObjectOK(object), ClearModule
  PROVE  ObjectOK(object')
<1> DEFINE new == New(ModuleDetailsFields)
           lists == {<< >>} \cup {<<d>> : d \in SomeModuleDetails}
                            \cup {<<d, e>> : d, e \in SomeModuleDetails}
           old == object.fields.modules
<1>1. PICK i \in DOMAIN old : object' = [object EXCEPT !.fields.modules[i] = new]
  BY DEF ClearModule, Change
<1>2. object.class = "AvailableModulesResponse"
  BY DEF ClearModule
<1>3. Classes[object.class].fields = AvailableModulesResponseFields
  BY <1>2 DEF Classes, Message, AvailableModulesResponse
<1>4. /\ DOMAIN AvailableModulesResponseFields.modules.takes = lists
      /\ AvailableModulesResponseFields.modules.first = << >>
      /\ "modules" \in DOMAIN AvailableModulesResponseFields
  BY DEF AvailableModulesResponseFields, Checked
<1>5. "modules" \in DOMAIN object.fields /\ FieldOK(object, "modules")
  BY <1>3, <1>4 DEF ObjectOK
<1>6. old \in lists
  BY <1>2, <1>3, <1>4, <1>5 DEF FieldOK
<1>7. new \in SomeModuleDetails
  BY DEF SomeModuleDetails
<1>8. [old EXCEPT ![i] = new] \in lists
  <2> HIDE DEF new
  <2>1. CASE old = << >>
    BY <2>1
  <2>2. ASSUME NEW d \in SomeModuleDetails, old = <<d>> PROVE [old EXCEPT ![i] = new] \in lists
    <3>1. i = 1
      BY <2>2
    <3>2. [old EXCEPT ![i] = new] = <<new>>
      BY <2>2, <3>1
    <3> QED BY <1>7, <3>2
  <2>3. ASSUME NEW d \in SomeModuleDetails, NEW e \in SomeModuleDetails, old = <<d, e>>
        PROVE  [old EXCEPT ![i] = new] \in lists
    <3>1. i = 1 \/ i = 2
      BY <2>3
    <3>2. [old EXCEPT ![i] = new] = <<new, e>> \/ [old EXCEPT ![i] = new] = <<d, new>>
      BY <2>3, <3>1
    <3> QED BY <1>7, <2>3, <3>2
  <2> QED BY <1>6, <2>1, <2>2, <2>3
<1> DEFINE modules == [old EXCEPT ![i] = new]
<1>9. object' = [class |-> object.class,
                 fields |-> [object.fields EXCEPT !["modules"] = modules]]
  BY <1>1, <1>5 DEF ObjectOK
<1> HIDE DEF modules
<1>10. object'.class = object.class /\ object'.fields = [object.fields EXCEPT !["modules"] = modules]
  BY <1>9
<1>11. ASSUME NEW g \in DOMAIN object'.fields PROVE FieldOK(object', g)
  <2>1. CASE g = "modules"
    BY <1>2, <1>3, <1>4, <1>5, <1>8, <1>10, <2>1 DEF FieldOK, modules
  <2>2. CASE g # "modules"
    BY <1>10, <1>11, <2>2 DEF FieldOK, ObjectOK
  <2> QED BY <2>1, <2>2
<1> QED BY <1>9, <1>10, <1>11 DEF ObjectOK

(* A connection's details are read from what they were written as.         *)
IsSocket(s) ==
  s = [address |-> s.address, connectOrBind |-> s.connectOrBind,
       securityLevel |-> s.securityLevel, minimumUserPrivileges |-> s.minimumUserPrivileges]

LEMMA SomeAreSockets ==
  ASSUME NEW t \in SocketTypes, NEW s \in SomeSockets(t)
  PROVE  IsSocket(s)
<1>1. \E c : SocketFields[t] = Socket(c)
  BY DEF SocketTypes, SocketFields, Dealer, Router, XSubscriber, XPublisher, Publisher, Subscriber,
         Request, Reply
<1>2. DOMAIN SocketFields[t] =
        {"address", "connectOrBind", "securityLevel", "minimumUserPrivileges"}
  BY <1>1 DEF Socket
<1> DEFINE new == New(SocketFields[t])
<1>3. new = [f \in {"address", "connectOrBind", "securityLevel", "minimumUserPrivileges"} |->
               new[f]]
  BY <1>2 DEF New
<1> HIDE DEF new
<1>4. IsSocket(new) /\ IsSocket([new EXCEPT !.address = "one"])
  BY <1>3 DEF IsSocket
<1>5. \/ s = new \/ s = [new EXCEPT !.address = "one"]
      \/ s = [address |-> "two", connectOrBind |-> "Connect",
              securityLevel |-> "Woodhouse", minimumUserPrivileges |-> "ReadWrite"]
  BY DEF SomeSockets, new
<1> QED BY <1>4, <1>5 DEF IsSocket

LEMMA PlainSocketRead ==
  ASSUME NEW e \in PlainSockets
  PROVE  e.type \in SocketTypes /\ JSONToSocket(SocketToJSON(e)) = e
<1>1. PICK t \in SocketTypes : \E s \in SomeSockets(t) : e = [type |-> t, socket |-> s]
  BY DEF PlainSockets
<1>2. PICK s \in SomeSockets(t) : e = [type |-> t, socket |-> s]
  BY <1>1
<1>3. IsSocket(s)
  BY SomeAreSockets
<1> QED BY <1>2, <1>3 DEF IsSocket, JSONToSocket, SocketToJSON

LEMMA ProxySocketRead ==
  ASSUME NEW e \in ProxySockets, e.socket # Unset
  PROVE  e.type = "Proxy" /\ JSONToProxy(ProxyToJSON(e)) = e
<1>1. PICK p \in Values(ProxyFields, "socketPair") : e = [type |-> "Proxy", socket |-> p]
  BY DEF ProxySockets
<1>2. PICK types \in SocketPairs : p \in PairsOf(types)
  <2> DEFINE pairs == UNION {PairsOf(q) : q \in SocketPairs}
             keep(q) == IF HaveAddress(q.frontend) /\ HaveAddress(q.backend) THEN {q} ELSE {}
  <2>1. ProxyFields.socketPair = [first |-> Unset, takes |-> [q \in pairs |-> keep(q)]]
    BY DEF ProxyFields, Checked
  <2>2. \A q : keep(q) \subseteq {q}
    OBVIOUS
  <2> HIDE DEF pairs, keep
  <2>3. p # Unset
    BY <1>1
  <2>4. p \in pairs
    BY <2>1, <2>2, <2>3 DEF Values
  <2> QED BY <2>4 DEF pairs
<1>3. PICK f \in SomeSockets(types[1]), b \in SomeSockets(types[2]) :
        p = [types |-> types, frontend |-> f, backend |-> b]
  BY <1>2 DEF PairsOf
<1>4. types = <<types[1], types[2]>> /\ types[1] \in SocketTypes /\ types[2] \in SocketTypes
  BY DEF SocketPairs, SocketTypes
<1>5. IsSocket(f) /\ IsSocket(b)
  BY <1>4, SomeAreSockets
<1> QED BY <1>1, <1>3, <1>4, <1>5 DEF IsSocket, JSONToProxy, ProxyToJSON

LEMMA DetailsRead ==
  ASSUME NEW d \in SomeDetails, AreValid(d)
  PROVE  JSONToDetails(DetailsToJSON(d)) = d
<1> DEFINE all == [New(DetailsFields) EXCEPT !.name = "one", !.connectionType = "Service"]
           sockets == {e \in PlainSockets \cup ProxySockets :
                         IF e.type = "Proxy"
                         THEN /\ e.socket # Unset
                              /\ e.socket.frontend.address = "two"
                              /\ e.socket.backend.address = "one"
                         ELSE e.socket.address = "two"}
<1>1. DOMAIN DetailsFields = {"name", "connectionType", "socket"}
  BY DEF DetailsFields, Checked
<1>2. DOMAIN all = {"name", "connectionType", "socket"}
  BY <1>1 DEF New
<1>3. SomeDetails = {[all EXCEPT !.connectionType = Unset]}
                      \cup {[all EXCEPT !.socket = e] : e \in sockets}
  BY DEF SomeDetails
<1>4. d.connectionType # Unset /\ d.socket # Unset
  BY <1>1 DEF AreValid
<1> HIDE DEF all
<1>5. PICK e \in sockets : d = [all EXCEPT !.socket = e]
  BY <1>2, <1>3, <1>4
<1>6. d = [name |-> d.name, connectionType |-> d.connectionType, socket |-> e] /\ d.socket = e
  BY <1>2, <1>5
<1>7. CASE e.type = "Proxy"
  <2>1. e \in ProxySockets /\ e.socket # Unset
    BY <1>7, PlainSocketRead DEF SocketTypes
  <2>2. DetailsToJSON(d) = [Name |-> d.name, ConnectionType |-> d.connectionType,
                            Socket |-> ProxyToJSON(e)]
    BY <1>4, <1>6, <1>7 DEF DetailsToJSON
  <2>3. ProxyToJSON(e).SocketType = "Proxy"
    BY <1>7 DEF ProxyToJSON
  <2>4. JSONToDetails(DetailsToJSON(d)) =
          [name |-> d.name, connectionType |-> d.connectionType,
           socket |-> JSONToProxy(ProxyToJSON(e))]
    BY <2>2, <2>3 DEF JSONToDetails
  <2> QED BY <1>6, <2>1, <2>4, ProxySocketRead
<1>8. CASE e.type # "Proxy"
  <2>1. e \in PlainSockets
    BY <1>8 DEF ProxySockets
  <2>2. DetailsToJSON(d) = [Name |-> d.name, ConnectionType |-> d.connectionType,
                            Socket |-> SocketToJSON(e)]
    BY <1>4, <1>6, <1>8 DEF DetailsToJSON
  <2>3. SocketToJSON(e).SocketType \in SocketTypes
    BY <2>1, PlainSocketRead DEF SocketToJSON
  <2>4. JSONToDetails(DetailsToJSON(d)) =
          [name |-> d.name, connectionType |-> d.connectionType,
           socket |-> JSONToSocket(SocketToJSON(e))]
    BY <2>2, <2>3 DEF JSONToDetails, SocketTypes
  <2> QED BY <1>6, <2>1, <2>4, PlainSocketRead
<1> QED BY <1>7, <1>8

(* A message can be read, and what is read has the fields that were sent,  *)
(* the stamp of a cleared status apart.                                    *)
Arrives(o) ==
  LET m == Frames(o) IN
  /\ m.of = o
  /\ ~ CannotUnpack(m)
  /\ \A f \in DOMAIN o.fields :
       \/ Unpack(m)[f] = o.fields[f]
       \/ f = "timeStamp" /\ o.fields[f] = Epoch

LEMMA ConnectionsArrive ==
  ASSUME NEW o, ObjectOK(o), o.class = "AvailableConnectionsResponse"
  PROVE  Arrives(o)
<1> DEFINE m == Frames(o)
           details == o.fields.details
           json == [i \in DOMAIN details |-> DetailsToJSON(details[i])]
<1>1. /\ m.of = o
      /\ m.contents = [ReturnCode |-> o.fields.returnCode, Details |-> json]
  BY DEF Frames, ResponseToJSON
<1>2. /\ Classes[o.class].fields = AvailableConnectionsResponseFields
      /\ DOMAIN o.fields = {"returnCode", "details"}
  BY DetailsKept DEF ObjectOK, Classes, Message, AvailableConnectionsResponse
<1>3. details = << >> \/ \E d \in SomeDetails : AreValid(d) /\ details = <<d>>
  <2>1. FieldOK(o, "details")
    BY <1>2 DEF ObjectOK
  <2>2. CASE details = << >>
    BY <2>2
  <2>3. ASSUME details # << >> PROVE \E d \in SomeDetails : AreValid(d) /\ details = <<d>>
    <3>1. /\ details \in DOMAIN AvailableConnectionsResponseFields.details.takes
          /\ AvailableConnectionsResponseFields.details.takes[details] = {details}
      BY <1>2, <2>1, <2>3, DetailsKept DEF FieldOK
    <3>2. PICK d \in SomeDetails : details = <<d>>
      BY <3>1, DetailsKept
    <3> QED BY <3>1, <3>2, DetailsKept
  <2> QED BY <2>2, <2>3
<1> HIDE DEF details
<1>4. \A i \in DOMAIN details : AreValid(details[i]) /\ JSONToDetails(json[i]) = details[i]
  BY <1>3, DetailsRead
<1>5. [i \in DOMAIN json |-> JSONToDetails(json[i])] = details
  <2>1. [i \in DOMAIN json |-> JSONToDetails(json[i])] = [i \in DOMAIN details |-> details[i]]
    BY <1>4
  <2>2. [i \in DOMAIN details |-> details[i]] = details
    <3>1. CASE details = << >>
      BY <3>1
    <3>2. ASSUME NEW d, details = <<d>> PROVE [i \in DOMAIN details |-> details[i]] = details
      BY <3>2
    <3> QED BY <1>3, <3>1, <3>2
  <2> QED BY <2>1, <2>2
<1>6. ~ CannotUnpack(m)
  BY <1>1, <1>4 DEF CannotUnpack
<1>7. Unpack(m) = [returnCode |-> o.fields.returnCode, details |-> details]
  BY <1>1, <1>5 DEF Unpack, JSONToResponse
<1> QED BY <1>1, <1>2, <1>6, <1>7 DEF Arrives, details

(* A list of modules that are all named is kept.                           *)
LEMMA NamedModulesKept ==
  LET takes == AvailableModulesResponseFields.modules.takes IN
  \A s \in DOMAIN takes : (\A i \in DOMAIN s : IsNamed(s[i])) => takes[s] = {s}
<1> DEFINE keep(s) == IF \A i \in DOMAIN s : IsNamed(s[i]) THEN {s} ELSE {}
           lists == {<< >>} \cup {<<d>> : d \in SomeModuleDetails}
                            \cup {<<d, e>> : d, e \in SomeModuleDetails}
<1>1. AvailableModulesResponseFields.modules =
        [first |-> << >>, takes |-> [s \in lists |-> keep(s)]]
  BY DEF AvailableModulesResponseFields, Checked
<1>2. \A s : (\A i \in DOMAIN s : IsNamed(s[i])) => keep(s) = {s}
  OBVIOUS
<1> HIDE DEF keep, lists
<1> QED BY <1>1, <1>2

LEMMA OthersArrive ==
  ASSUME NEW o, ObjectOK(o), CanPack(o), o.class # "AvailableConnectionsResponse"
  PROVE  Arrives(o)
<1> DEFINE m == Frames(o)
           class == Classes[o.class]
<1>1. m = [type |-> class.type, contents |-> o.fields, of |-> o]
  BY DEF Frames, Packed
<1>2. Plain(class.fields) /\ DOMAIN o.fields = DOMAIN class.fields
  BY ClassesArePlain DEF ObjectOK
<1>3. ASSUME NEW f \in DOMAIN class.fields, ~(f = "timeStamp" /\ IsGarbled(m))
      PROVE  IF o.fields[f] = Unset THEN class.fields[f].first = Unset
             ELSE Kept(class.fields, f, o.fields[f]) = {o.fields[f]}
  <2> DEFINE v == o.fields[f]
             field == class.fields[f]
  <2>1. ~(o.class = "Status" /\ f = "timeStamp" /\ v = Epoch)
    BY <1>1, <1>3 DEF IsGarbled
  <2>2. FieldOK(o, f) /\ FirstIsTaken(field)
    BY <1>2, <1>3 DEF ObjectOK, Plain
  <2>3. Unset \notin DOMAIN field.takes
    BY <1>3, UnsetAssumption DEF ObjectOK
  <2>4. CASE v = field.first
    BY <2>2, <2>4 DEF FirstIsTaken, Kept
  <2>5. CASE v \in DOMAIN field.takes /\ field.takes[v] = {v}
    BY <2>3, <2>5 DEF Kept
  <2>6. CASE /\ o.class = "AvailableModulesResponse" /\ f = "modules"
             /\ v \in DOMAIN field.takes
    <3>1. \A i \in DOMAIN v : IsNamed(v[i])
      BY <2>6 DEF CanPack, Packs, PackedModuleDetails, Message, IsNamed
    <3>2. field = AvailableModulesResponseFields.modules
      BY <2>6 DEF Classes, Message, AvailableModulesResponse
    <3> QED BY <2>3, <2>6, <3>1, <3>2, NamedModulesKept DEF Kept
  <2> QED BY <2>1, <2>2, <2>4, <2>5, <2>6 DEF FieldOK
<1> HIDE DEF m, class
<1>4. CASE ~ IsGarbled(m)
  <2>1. Reads(class, m)
    BY <1>1, <1>3, <1>4 DEF Reads
  <2>2. Unpack(m) = Read(class, m) /\ ~ CannotUnpack(m)
    BY <1>1, <1>4, <2>1 DEF Unpack, CannotUnpack, class
  <2>3. ASSUME NEW f \in DOMAIN o.fields PROVE Read(class, m)[f] = o.fields[f]
    BY <1>1, <1>2, <1>3, <1>4, <2>3 DEF Read
  <2> QED BY <1>1, <2>2, <2>3 DEF Arrives, m
<1>5. CASE IsGarbled(m)
  <2>1. o.class = "Status" /\ o.fields["timeStamp"] = Epoch
    BY <1>1, <1>5 DEF IsGarbled
  <2> DEFINE read == [m EXCEPT !.contents.timeStamp = Unset]
  <2>2. Unpack(m) = Read(class, read) /\ ~ CannotUnpack(m)
    BY <1>1, <1>5 DEF Unpack, CannotUnpack, class
  <2>3. read.contents = [o.fields EXCEPT !["timeStamp"] = Unset]
    BY <1>1
  <2> HIDE DEF read
  <2>4. ASSUME NEW f \in DOMAIN o.fields, f # "timeStamp"
        PROVE  Read(class, read)[f] = o.fields[f]
    <3>1. read.contents[f] = o.fields[f]
      BY <2>3, <2>4
    <3> QED BY <1>2, <1>3, <2>4, <3>1 DEF Read
  <2> QED BY <1>1, <2>1, <2>2, <2>4 DEF Arrives, m
<1> QED BY <1>4, <1>5

(* What is on its way is the sender's object, which has not changed since. *)
WireCarriesObject ==
  wire # << >> =>
    wire = <<Frames(object)>> /\ CanPack(object) /\ object.class \in subscriptions

DeliveryOK == ObjectOK(object) /\ sender.class \in DOMAIN Classes /\ WireCarriesObject
                /\ DeliveredAsSent

LEMMA DeliveryStarts ==
  ASSUME DeliveryInit \/ NoDeliveryInit
  PROVE  DeliveryOK
<1>1. sender.class \in DOMAIN Classes /\ object = Made(sender.class)
  <2>1. CASE DeliveryInit
    BY <2>1, SendersAssumption DEF DeliveryInit, Made
  <2>2. CASE NoDeliveryInit
    <3>1. "Text" \in DOMAIN Classes /\ Classes["Text"].fields = TextFields
      BY DEF Classes, Message, Text
    <3> QED BY <2>2, <3>1 DEF NoDeliveryInit, Made
  <2> QED BY <2>1, <2>2
<1>2. wire = << >> /\ outcome = None
  BY DEF DeliveryInit, NoDeliveryInit
<1> QED BY <1>1, <1>2, NewObject DEF DeliveryOK, WireCarriesObject, DeliveredAsSent, None

(* A step that leaves the wire empty, or as it was, and no new outcome.    *)
LEMMA QuietDelivery ==
  ASSUME DeliveryOK, ObjectOK(object'), sender' = sender,
         wire' = << >> \/ UNCHANGED <<wire, object, subscriptions>>,
         outcome' = None \/ UNCHANGED <<outcome, handled, subscriptions>>
  PROVE  DeliveryOK'
<1>1. WireCarriesObject'
  BY DEF DeliveryOK, WireCarriesObject, CanPack
<1>2. DeliveredAsSent'
  BY DEF DeliveryOK, DeliveredAsSent, None
<1> QED BY <1>1, <1>2 DEF DeliveryOK, ObjectOK, FieldOK

LEMMA ReceptionKeeps ==
  ASSUME DeliveryOK, Receive
  PROVE  DeliveryOK'
<1> DEFINE m == Head(wire)
<1>1. wire = <<Frames(object)>> /\ CanPack(object) /\ object.class \in subscriptions
  BY DEF DeliveryOK, WireCarriesObject, Receive
<1>2. m = Frames(object)
  BY <1>1
<1>3. Arrives(object)
  BY <1>1, ConnectionsArrive, OthersArrive DEF DeliveryOK
<1> HIDE DEF m
<1>4. m.of = object /\ ~ CannotUnpack(m)
  BY <1>2, <1>3 DEF Arrives
<1>5. \/ /\ outcome' = [is |-> "threw", of |-> object]
         /\ object.class \notin handled \/ IsGarbled(m)
      \/ outcome' = [is |-> "returned", of |-> object, object |-> Unpack(m)]
  BY <1>4 DEF Receive, m
<1>6. UNCHANGED <<sender, object, handled, subscriptions>> /\ wire' = << >>
  BY DEF Receive
<1>7. DeliveredAsSent'
  <2>1. CASE outcome' = [is |-> "returned", of |-> object, object |-> Unpack(m)]
    BY <1>2, <1>3, <1>6, <2>1 DEF DeliveredAsSent, Arrives
  <2>2. CASE /\ outcome' = [is |-> "threw", of |-> object]
             /\ object.class \notin handled \/ IsGarbled(m)
    BY <1>1, <1>4, <1>6, <2>2 DEF DeliveredAsSent, IsGarbled
  <2> QED BY <1>5, <2>1, <2>2
<1> QED BY <1>6, <1>7 DEF DeliveryOK, WireCarriesObject, ObjectOK, FieldOK

LEMMA DeliveryKeeps ==
  ASSUME DeliveryOK, DeliveryNext
  PROVE  DeliveryOK'
<1>1. CASE Make \/ SetField \/ ClearObject \/ ClearModule
  <2>1. wire' = << >> /\ outcome' = None /\ sender' = sender
    BY <1>1 DEF Make, SetField, ClearObject, ClearModule, Change
  <2>2. ASSUME Make PROVE ObjectOK(object')
    <3>1. PICK c \in Sent : object' = Made(c)
      BY <2>2 DEF Make, Change
    <3>2. "Text" \in DOMAIN Classes
      BY DEF Classes
    <3>3. c \in DOMAIN Classes
      BY <3>1, <3>2 DEF Sent, DeliveryOK
    <3> QED BY <3>1, <3>3, NewObject
  <2> QED BY <1>1, <2>1, <2>2, FieldSet, ObjectCleared, ModuleCleared, QuietDelivery DEF DeliveryOK
<1>2. CASE \/ AddFormat \/ RemoveFormat \/ ClearFormats \/ PublisherBinds \/ PublisherConnects
           \/ PublisherDisconnect
  <2>1. UNCHANGED <<sender, object, wire, outcome, handled, subscriptions>>
    BY <1>2 DEF AddFormat, RemoveFormat, ClearFormats, ChangeFormats, PublisherBinds,
                PublisherConnects, PublisherDisconnect, Publishing
  <2> QED BY <2>1, QuietDelivery DEF DeliveryOK
<1>3. CASE SubscriberInitialize \/ SubscriberDisconnect
  <2>1. /\ UNCHANGED <<sender, object>> /\ wire' = << >>
        /\ outcome' = None \/ UNCHANGED <<outcome, handled, subscriptions>>
    BY <1>3 DEF SubscriberInitialize, SubscriberDisconnect
  <2> QED BY <2>1, QuietDelivery DEF DeliveryOK
<1>4. CASE Send
  <2>1. /\ UNCHANGED <<sender, object, subscriptions>> /\ outcome' = None
        /\ CanPack(object)
        /\ wire' # << >> => object.class \in subscriptions /\ wire' = <<Frames(object)>>
    BY <1>4 DEF Send
  <2> QED BY <2>1 DEF DeliveryOK, WireCarriesObject, CanPack, DeliveredAsSent, None, ObjectOK,
                      FieldOK
<1>5. CASE Receive
  BY <1>5, ReceptionKeeps
<1> QED BY <1>1, <1>2, <1>3, <1>4, <1>5 DEF DeliveryNext

(* Every message that any class can pack is read again by its class with   *)
(* the fields that were sent, whatever was set in whatever order, and a    *)
(* subscriber throws only for a format it dropped or a cleared status.     *)
THEOREM DeliveredAsSentInvariant == Spec => []DeliveredAsSent
<1>1. Init => DeliveryOK
  BY DeliveryStarts DEF Init
<1>2. DeliveryOK /\ [Next]_vars => DeliveryOK'
  <2>1. DeliveryOK /\ UNCHANGED deliveryVars => DeliveryOK'
    BY QuietDelivery DEF deliveryVars, DeliveryOK
  <2> QED BY <2>1, DeliveryKeeps DEF Next, vars
<1>3. DeliveryOK => DeliveredAsSent
  BY DEF DeliveryOK
<1> QED BY <1>1, <1>2, <1>3, PTL DEF Spec

-----------------------------------------------------------------------------
(* What a component is initialized with.                                   *)

Marks == {"highWaterMark", "sendHighWaterMark", "receiveHighWaterMark",
          "frontendHighWaterMark", "backendHighWaterMark"}

MarksChecked(fields) ==
  \A f \in DOMAIN fields \cap Marks : \E d \in Nat : fields[f] = HighWaterMark(d)

(* Options of a component with one address, or with none.                  *)
Single(fields) == MarksChecked(fields) /\ "frontendAddress" \notin DOMAIN fields

(* A limit is set by a setter that refuses negative numbers, in every class*)
LEMMA MarkIsLimit ==
  ASSUME NEW d \in Nat, NEW fields, NEW f, fields[f] = HighWaterMark(d),
         NEW v \in Values(fields, f)
  PROVE  v >= 0
<1>1. HighWaterMark(d) =
        [first |-> d, takes |-> [n \in {-2, 0, 1} |-> IF n < 0 THEN {} ELSE {n}]]
  BY DEF HighWaterMark, Checked, NotNegative, Integers
<1> QED BY <1>1 DEF Values

LEMMA SocketClasses ==
  /\ Single(SocketOptions.fields) /\ Single(RouterOptions.fields)
  /\ Single(RequestOptions.fields) /\ Single(DealerRequestOptions.fields)
  /\ Single(DealerReplyOptions.fields)
<1>1. Single(SocketOptions.fields)
  BY DEF Single, MarksChecked, Marks, SocketOptions, SocketOptionsFields, Options, Checked
<1>2. Single(RouterOptions.fields)
  BY DEF Single, MarksChecked, Marks, RouterOptions, Options
<1>3. Single(RequestOptions.fields)
  BY DEF Single, MarksChecked, Marks, RequestOptions, Options
<1>4. Single(DealerRequestOptions.fields)
  BY DEF Single, MarksChecked, Marks, DealerRequestOptions, Options
<1>5. Single(DealerReplyOptions.fields)
  BY DEF Single, MarksChecked, Marks, DealerReplyOptions, Options, Checked
<1> QED BY <1>1, <1>2, <1>3, <1>4, <1>5

LEMMA PublisherClasses ==
  /\ Single(PublisherOptions.fields) /\ Single(SubscriberOptions.fields)
  /\ Single(XPublisherOptions.fields) /\ Single(XSubscriberOptions.fields)
  /\ Single(HeartbeatPublisherOptions.fields)
  /\ Single(HeartbeatSubscriberOptions.fields)
  /\ Single(PublisherProcessOptions.fields)
<1>1. Single(PublisherOptions.fields)
  BY DEF Single, MarksChecked, Marks, PublisherOptions, Options
<1>2. Single(SubscriberOptions.fields) /\ Single(XSubscriberOptions.fields)
  BY DEF Single, MarksChecked, Marks, SubscriberOptions, XSubscriberOptions, SubscriberFields, Options
<1>3. Single(XPublisherOptions.fields)
  BY DEF Single, MarksChecked, Marks, XPublisherOptions, Options
<1>4. Single(HeartbeatPublisherOptions.fields)
  BY DEF Single, MarksChecked, Marks, HeartbeatPublisherOptions, Options
<1>5. Single(HeartbeatSubscriberOptions.fields)
  BY DEF Single, MarksChecked, Marks, HeartbeatSubscriberOptions, SubscriberFields, Options
<1>6. Single(PublisherProcessOptions.fields)
  BY DEF Single, MarksChecked, Marks, PublisherProcessOptions, Options, Checked
<1> QED BY <1>1, <1>2, <1>3, <1>4, <1>5, <1>6

LEMMA RegistryClasses ==
  /\ Single(ReplierOptions.fields) /\ Single(RequestorOptions.fields)
  /\ Single(ConnectionServiceOptions.fields) /\ Single(ConnectionRequestorOptions.fields)
<1>1. Single(ReplierOptions.fields)
  BY DEF Single, MarksChecked, Marks, ReplierOptions, Options, Checked
<1>2. Single(RequestorOptions.fields)
  BY DEF Single, MarksChecked, Marks, RequestorOptions, Options
<1>3. Single(ConnectionServiceOptions.fields)
  BY DEF Single, MarksChecked, Marks, ConnectionServiceOptions, Options
<1>4. Single(ConnectionRequestorOptions.fields)
  BY DEF Single, MarksChecked, Marks, ConnectionRequestorOptions, Options
<1> QED BY <1>1, <1>2, <1>3, <1>4

LEMMA LocalClasses ==
  /\ Single(LocalServiceOptions.fields) /\ Single(LocalRequestorOptions.fields)
  /\ Single(LocalModuleDetails.fields)
<1>1. Single(LocalServiceOptions.fields)
  BY DEF Single, MarksChecked, Marks, LocalServiceOptions, Options, Checked
<1>2. Single(LocalRequestorOptions.fields)
  BY DEF Single, MarksChecked, Marks, LocalRequestorOptions, Options, Checked
<1>3. Single(LocalModuleDetails.fields)
  BY DEF Single, MarksChecked, Marks, LocalModuleDetails, Options, Checked
<1> QED BY <1>1, <1>2, <1>3

LEMMA ProxyFieldsAre ==
  ASSUME NEW m \in Nat, NEW n \in Nat
  PROVE  /\ MarksChecked(ProxyOptionFields(m, n))
         /\ DOMAIN ProxyOptionFields(m, n) =
              {"frontendAddress", "backendAddress", "frontendHighWaterMark",
               "backendHighWaterMark", "zapOptions"}
         /\ ProxyOptionFields(m, n).frontendAddress = Name(Unset)
         /\ ProxyOptionFields(m, n).backendAddress = Name(Unset)
  BY DEF MarksChecked, Marks, ProxyOptionFields

(* The five classes with two addresses are those of proxies.               *)
Proxies == {"XPubXSubProxyOptions", "RouterDealerProxyOptions", "BroadcastProxyOptions",
            "ServiceProxyOptions", "CommandProxyOptions"}

LEMMA ProxyClasses ==
  ASSUME NEW c \in Proxies
  PROVE  LET fields == OptionsOf[c].fields IN
         /\ c \in DOMAIN OptionsOf
         /\ MarksChecked(fields)
         /\ BothAddresses \subseteq DOMAIN fields
         /\ fields.frontendAddress = Name(Unset) /\ fields.backendAddress = Name(Unset)
<1> DEFINE fields == OptionsOf[c].fields
<1>1. \E m, n \in Nat : \E f, field :
        /\ f \notin Marks \cup BothAddresses
        /\ fields = ProxyOptionFields(m, n) \/ fields = With(ProxyOptionFields(m, n), f, field)
  <2>1. CASE c = "XPubXSubProxyOptions"
    BY <2>1 DEF OptionsOf, XPubXSubProxyOptions, Options, Marks, BothAddresses
  <2>2. CASE c = "RouterDealerProxyOptions"
    BY <2>2 DEF OptionsOf, RouterDealerProxyOptions, Options, Marks, BothAddresses
  <2>3. CASE c = "BroadcastProxyOptions"
    <3>1. fields = With(ProxyOptionFields(4096, 4096), "name", Name(Unset))
      BY <2>3 DEF OptionsOf, BroadcastProxyOptions, Named, Options
    <3> QED BY <3>1 DEF Marks, BothAddresses
  <2>4. CASE c = "ServiceProxyOptions"
    <3>1. fields = With(ProxyOptionFields(8192, 0), "name", Name(Unset))
      BY <2>4 DEF OptionsOf, ServiceProxyOptions, Named, Options
    <3> QED BY <3>1 DEF Marks, BothAddresses
  <2>5. CASE c = "CommandProxyOptions"
    <3>1. \E field : fields = With(ProxyOptionFields(0, 0), "pingIntervals", field)
      BY <2>5 DEF OptionsOf, CommandProxyOptions, Options, Checked
    <3> QED BY <3>1 DEF Marks, BothAddresses
  <2> QED BY <2>1, <2>2, <2>3, <2>4, <2>5 DEF Proxies
<1>2. c \in DOMAIN OptionsOf
  BY DEF Proxies, OptionsOf
<1>3. PICK m \in Nat, n \in Nat : \E f, field :
        /\ f \notin Marks \cup BothAddresses
        /\ fields = ProxyOptionFields(m, n) \/ fields = With(ProxyOptionFields(m, n), f, field)
  BY <1>1
<1>4. PICK f, field :
        /\ f \notin Marks \cup BothAddresses
        /\ fields = ProxyOptionFields(m, n) \/ fields = With(ProxyOptionFields(m, n), f, field)
  BY <1>3
<1> QED BY <1>2, <1>4, ProxyFieldsAre DEF With, MarksChecked, BothAddresses

LEMMA ProxyDemands ==
  ASSUME NEW c \in Proxies
  PROVE  BothAddresses \subseteq OptionsOf[c].wanted
<1>1. CASE c = "XPubXSubProxyOptions"
  BY <1>1 DEF OptionsOf, XPubXSubProxyOptions, Options
<1>2. CASE c = "RouterDealerProxyOptions"
  BY <1>2 DEF OptionsOf, RouterDealerProxyOptions, Options
<1>3. CASE c = "BroadcastProxyOptions"
  BY <1>3 DEF OptionsOf, BroadcastProxyOptions, Named, XPubXSubProxyOptions, Options
<1>4. CASE c = "ServiceProxyOptions"
  BY <1>4 DEF OptionsOf, ServiceProxyOptions, Named, RouterDealerProxyOptions, Options
<1>5. CASE c = "CommandProxyOptions"
  BY <1>5 DEF OptionsOf, CommandProxyOptions, Options
<1> QED BY <1>1, <1>2, <1>3, <1>4, <1>5 DEF Proxies

(* Which setters compare the two addresses.                                *)
LEMMA ProxyApart ==
  /\ \A c \in {"RouterDealerProxyOptions", "ServiceProxyOptions"} :
       /\ <<"frontendAddress", "backendAddress">> \in OptionsOf[c].apart
       /\ <<"backendAddress", "frontendAddress">> \in OptionsOf[c].apart
  /\ <<"backendAddress", "frontendAddress">> \in OptionsOf["CommandProxyOptions"].apart
<1>1. \A c \in {"RouterDealerProxyOptions", "ServiceProxyOptions"} :
        OptionsOf[c].apart = RouterDealerProxyOptions.apart
  BY DEF OptionsOf, ServiceProxyOptions, Named, Options
<1>2. /\ <<"frontendAddress", "backendAddress">> \in RouterDealerProxyOptions.apart
      /\ <<"backendAddress", "frontendAddress">> \in RouterDealerProxyOptions.apart
  BY DEF RouterDealerProxyOptions, Options
<1>3. <<"backendAddress", "frontendAddress">> \in CommandProxyOptions.apart
  BY DEF CommandProxyOptions, Options
<1>4. OptionsOf["CommandProxyOptions"] = CommandProxyOptions
  BY DEF OptionsOf
<1> QED BY <1>1, <1>2, <1>3, <1>4

LEMMA EveryClass ==
  ASSUME NEW c \in DOMAIN OptionsOf
  PROVE  /\ MarksChecked(OptionsOf[c].fields)
         /\ c \notin Proxies => "frontendAddress" \notin DOMAIN OptionsOf[c].fields
<1>1. CASE c \in Proxies
  BY <1>1, ProxyClasses
<1>2. CASE c \notin Proxies
  <2>1. Single(OptionsOf[c].fields)
    <3>1. OptionsOf[c] \in
            {SocketOptions, RouterOptions, RequestOptions, DealerRequestOptions,
             DealerReplyOptions, PublisherOptions, SubscriberOptions, XPublisherOptions,
             XSubscriberOptions, HeartbeatPublisherOptions, HeartbeatSubscriberOptions,
             PublisherProcessOptions, ReplierOptions, RequestorOptions,
             ConnectionServiceOptions, ConnectionRequestorOptions, LocalServiceOptions,
             LocalRequestorOptions, LocalModuleDetails}
      BY <1>2 DEF OptionsOf, Proxies
    <3> QED BY <3>1, SocketClasses, PublisherClasses, RegistryClasses, LocalClasses
  <2> QED BY <1>2, <2>1 DEF Single
<1> QED BY <1>1, <1>2

(* The intervals are sorted, and none is no choice.                        *)
LEMMA IntervalsAscend ==
  ASSUME NEW v \in Values(CommandProxyOptions.fields, "pingIntervals")
  PROVE  v # << >> /\ IsAscending(v)
<1> DEFINE offers == {<< >>, <<0>>, <<20>>, <<30, 10, 30>>}
           field == Checked(<<15, 30, 60>>, offers, PingIntervals)
<1>1. CommandProxyOptions.fields.pingIntervals = field
  BY DEF CommandProxyOptions, With, Options
<1>2. v = <<15, 30, 60>> \/ \E o \in offers : v \in PingIntervals(o)
  <2>1. /\ field.first = <<15, 30, 60>>
        /\ field.takes = [o \in offers |-> PingIntervals(o)]
    BY DEF Checked
  <2> HIDE DEF field
  <2> QED BY <1>1, <2>1 DEF Values
<1>3. CASE v = <<15, 30, 60>>
  BY <1>3 DEF IsAscending
<1>4. ASSUME NEW o \in offers, v \in PingIntervals(o) PROVE v # << >> /\ IsAscending(v)
  <2> DEFINE S == ToSet(o)
  <2>1. o # << >> /\ v = CHOOSE s \in SetToSeqs(S) : IsAscending(s)
    BY <1>4 DEF PingIntervals
  <2>2. o = <<20>> \/ o = <<30, 10, 30>>
    BY <1>4, <2>1 DEF PingIntervals
  <2>3. /\ Cardinality(S) \in Nat \ {0}
        /\ \E s \in SetToSeqs(S) : IsAscending(s)
    <3>1. CASE o = <<20>>
      <4> DEFINE s == [i \in 1 .. 1 |-> 20]
      <4>1. S = {20}
        BY <3>1 DEF ToSet
      <4>2. Cardinality(S) = 1
        BY <4>1, FS_Singleton
      <4>3. s \in SetToSeqs(S) /\ IsAscending(s)
        BY <4>1, <4>2 DEF SetToSeqs, IsAscending
      <4> QED BY <4>2, <4>3
    <3>2. CASE o = <<30, 10, 30>>
      <4> DEFINE s == [i \in 1 .. 2 |-> IF i = 1 THEN 10 ELSE 30]
      <4>1. S = {10, 30}
        BY <3>2 DEF ToSet
      <4>2. Cardinality(S) = 2
        <5>1. IsFiniteSet({10}) /\ Cardinality({10}) = 1
          BY FS_Singleton
        <5>2. S = {10} \cup {30}
          BY <4>1
        <5>3. 30 \notin {10}
          OBVIOUS
        <5>4. Cardinality({10} \cup {30}) = Cardinality({10}) + 1
          <6> HIDE DEF S
          <6> QED BY <5>1, <5>3, FS_AddElement
        <5> QED
          <6> HIDE DEF S
          <6> QED BY <5>1, <5>2, <5>4
      <4>3. s \in SetToSeqs(S) /\ IsAscending(s)
        BY <4>1, <4>2 DEF SetToSeqs, IsAscending
      <4> QED BY <4>2, <4>3
    <3> QED BY <2>2, <3>1, <3>2
  <2>4. v \in SetToSeqs(S) /\ IsAscending(v)
    BY <2>1, <2>3
  <2> HIDE DEF S
  <2>5. DOMAIN v = 1 .. Cardinality(S)
    BY <2>4 DEF SetToSeqs
  <2>6. 1 \in DOMAIN v
    BY <2>3, <2>5
  <2> QED BY <2>4, <2>6
<1> QED BY <1>2, <1>3, <1>4

(* What options are, whatever was called.  The two addresses of a proxy may*)
(* be one where its class compares them in no setter, or in the backend's  *)
(* only and the frontend's was the last one set.                           *)
Compared(c, o, last) ==
  c \in Proxies /\ o.frontendAddress = o.backendAddress =>
    \/ o.frontendAddress = Unset
    \/ c \in {"XPubXSubProxyOptions", "BroadcastProxyOptions"}
    \/ c = "CommandProxyOptions" /\ last

AreOptions(c, o) ==
  /\ DOMAIN o = DOMAIN OptionsOf[c].fields
  /\ \A f \in DOMAIN o : o[f] \in Values(OptionsOf[c].fields, f)

OptionsOK ==
  /\ optionClass \in DOMAIN OptionsOf
  /\ AreOptions(optionClass, options)
  /\ Compared(optionClass, options, frontendLast)
  /\ component = "failed" =>
       /\ optionClass \in Proxies
       /\ options.frontendAddress = options.backendAddress
       /\ options.frontendAddress # Unset

LEMMA OptionsOKFits == OptionsOK => OptionsFit
<1> SUFFICES ASSUME OptionsOK PROVE OptionsFit
  OBVIOUS
<1>1. component = "failed" =>
        \/ optionClass \in {"XPubXSubProxyOptions", "BroadcastProxyOptions"}
        \/ optionClass = "CommandProxyOptions" /\ frontendLast
  BY DEF OptionsOK, Compared
<1>2. optionClass = "CommandProxyOptions" =>
        options.pingIntervals # << >> /\ IsAscending(options.pingIntervals)
  <2> SUFFICES ASSUME optionClass = "CommandProxyOptions"
               PROVE  options.pingIntervals # << >> /\ IsAscending(options.pingIntervals)
    OBVIOUS
  <2>1. OptionsOf[optionClass].fields = CommandProxyOptions.fields
    BY DEF OptionsOf
  <2>2. "pingIntervals" \in DOMAIN CommandProxyOptions.fields
    BY DEF CommandProxyOptions, With, Options
  <2>3. options["pingIntervals"] \in Values(CommandProxyOptions.fields, "pingIntervals")
    BY <2>1, <2>2 DEF OptionsOK, AreOptions
  <2> QED BY <2>3, IntervalsAscend
<1>3. \A f \in DOMAIN options : f \in Marks => options[f] >= 0
  <2> SUFFICES ASSUME NEW f \in DOMAIN options, f \in Marks PROVE options[f] >= 0
    OBVIOUS
  <2> DEFINE fields == OptionsOf[optionClass].fields
  <2>1. f \in DOMAIN fields /\ options[f] \in Values(fields, f)
    BY DEF OptionsOK, AreOptions
  <2>2. PICK d \in Nat : fields[f] = HighWaterMark(d)
    BY <2>1, EveryClass DEF OptionsOK, MarksChecked
  <2> QED BY <2>1, <2>2, MarkIsLimit
<1> QED BY <1>1, <1>2, <1>3 DEF OptionsFit, Marks

LEMMA KeptIsValue ==
  ASSUME NEW fields, NEW f, NEW v, NEW k \in Kept(fields, f, v)
  PROVE  k \in Values(fields, f)
  BY DEF Kept, Values

LEMMA AddressIsKept ==
  ASSUME NEW fields, NEW f, fields[f] = Name(Unset), NEW v, NEW k \in Kept(fields, f, v)
  PROVE  k = v
  BY DEF Kept, Name, Checked, NotBlank

LEMMA NewOptions ==
  ASSUME NEW c \in DOMAIN OptionsOf, NEW last
  PROVE  /\ AreOptions(c, New(OptionsOf[c].fields))
         /\ Compared(c, New(OptionsOf[c].fields), last)
<1>1. AreOptions(c, New(OptionsOf[c].fields))
  BY DEF AreOptions, New, Values
<1>2. ASSUME c \in Proxies PROVE New(OptionsOf[c].fields).frontendAddress = Unset
  <2>1. /\ "frontendAddress" \in DOMAIN OptionsOf[c].fields
        /\ OptionsOf[c].fields.frontendAddress = Name(Unset)
    BY <1>2, ProxyClasses DEF BothAddresses
  <2> QED BY <2>1 DEF New, Name, Checked
<1> QED BY <1>1, <1>2 DEF Compared

(* One setter that does not throw.                                         *)
LEMMA OptionSet ==
  ASSUME NEW c \in DOMAIN OptionsOf, NEW o, NEW last,
         AreOptions(c, o), Compared(c, o, last),
         NEW f \in DOMAIN OptionsOf[c].fields, NEW v,
         NEW k \in KeptOption(OptionsOf[c], o, f, v)
  PROVE  LET now == CASE f = "frontendAddress" -> TRUE
                      [] f = "backendAddress" -> FALSE
                      [] OTHER -> last
         IN /\ AreOptions(c, [o EXCEPT ![f] = k])
            /\ Compared(c, [o EXCEPT ![f] = k], now)
<1> DEFINE fields == OptionsOf[c].fields
           apart == OptionsOf[c].apart
           new == [o EXCEPT ![f] = k]
           now == CASE f = "frontendAddress" -> TRUE
                    [] f = "backendAddress" -> FALSE
                    [] OTHER -> last
<1>1. /\ k \in Kept(fields, f, v)
      /\ \A g \in DOMAIN fields : <<f, g>> \in apart => o[g] # v
  BY DEF KeptOption
<1>2. AreOptions(c, new)
  BY <1>1, KeptIsValue DEF AreOptions
<1>3. ASSUME c \in Proxies, new.frontendAddress = new.backendAddress
      PROVE  \/ new.frontendAddress = Unset
             \/ c \in {"XPubXSubProxyOptions", "BroadcastProxyOptions"}
             \/ c = "CommandProxyOptions" /\ now
  <2>1. /\ "frontendAddress" \in DOMAIN fields /\ "backendAddress" \in DOMAIN fields
        /\ fields.frontendAddress = Name(Unset) /\ fields.backendAddress = Name(Unset)
    BY <1>3, ProxyClasses DEF BothAddresses
  <2>2. f \in BothAddresses => k = v
    BY <1>1, <2>1, AddressIsKept DEF BothAddresses
  <2>3. DOMAIN o = DOMAIN fields
    BY DEF AreOptions
  <2>4. CASE f = "frontendAddress"
    <3>1. o.backendAddress = v /\ now = TRUE
      BY <1>3, <2>1, <2>2, <2>3, <2>4 DEF BothAddresses
    <3>2. <<"frontendAddress", "backendAddress">> \notin apart
      BY <1>1, <2>1, <2>4, <3>1
    <3> QED BY <1>3, <3>1, <3>2, ProxyApart DEF Proxies
  <2>5. CASE f = "backendAddress"
    <3>1. o.frontendAddress = v
      BY <1>3, <2>1, <2>2, <2>3, <2>5 DEF BothAddresses
    <3>2. <<"backendAddress", "frontendAddress">> \notin apart
      BY <1>1, <2>1, <2>5, <3>1
    <3> QED BY <1>3, <3>2, ProxyApart DEF Proxies
  <2>6. CASE f \notin BothAddresses
    <3>1. /\ new.frontendAddress = o.frontendAddress
          /\ new.backendAddress = o.backendAddress
      BY <2>1, <2>3, <2>6 DEF BothAddresses
    <3>2. now = last
      BY <2>6 DEF BothAddresses
    <3> QED BY <1>3, <3>1, <3>2 DEF Compared
  <2> QED BY <2>4, <2>5, <2>6 DEF BothAddresses
<1> QED BY <1>2, <1>3 DEF Compared

(* The frontend's address is the second field that a file sets, and the    *)
(* backend's, which is compared with it, the third.                        *)
LEMMA OptionsParsed ==
  ASSUME NEW c \in DOMAIN OptionsOf, NEW file, NEW parsed \in Parsed(OptionsOf[c], file)
  PROVE  AreOptions(c, parsed) /\ Compared(c, parsed, FALSE)
<1> DEFINE class == OptionsOf[c]
           fields == class.fields
           read == {f \in ToSet(ParseOrder) : IsRead(class, file, f)}
           Kepts(f) == Kept(fields, f, file[f])
           After(fs) == [f \in DOMAIN fields |->
                           IF f \in fs THEN CHOOSE v \in Kepts(f) : TRUE
                           ELSE fields[f].first]
           Before(i) == {ParseOrder[j] : j \in 1 .. i - 1} \cap read
           fe == "frontendAddress"
           be == "backendAddress"
<1>1. /\ parsed = After(read)
      /\ \A f \in read : Kepts(f) # {}
      /\ \A i \in DOMAIN ParseOrder :
           ParseOrder[i] \in read =>
             KeptOption(class, After(Before(i)), ParseOrder[i], file[ParseOrder[i]]) # {}
  BY DEF Parsed
<1>2. AreOptions(c, parsed)
  <2>1. \A f \in DOMAIN fields : parsed[f] \in Values(fields, f)
    <3> SUFFICES ASSUME NEW f \in DOMAIN fields PROVE parsed[f] \in Values(fields, f)
      OBVIOUS
    <3>1. CASE f \in read
      <4>1. parsed[f] \in Kepts(f)
        BY <1>1, <3>1
      <4> QED BY <4>1, KeptIsValue
    <3>2. CASE f \notin read
      <4>1. parsed[f] = fields[f].first
        BY <1>1, <3>2
      <4> QED BY <4>1 DEF Values
    <3> QED BY <3>1, <3>2
  <2>2. DOMAIN parsed = DOMAIN fields
    BY <1>1
  <2> QED BY <2>1, <2>2 DEF AreOptions
<1>3. ASSUME c \in Proxies, c \notin {"XPubXSubProxyOptions", "BroadcastProxyOptions"},
             parsed[fe] = parsed[be]
      PROVE  parsed[fe] = Unset
  <2>1. /\ fe \in DOMAIN fields /\ be \in DOMAIN fields
        /\ fields[fe] = Name(Unset) /\ fields[be] = Name(Unset)
    BY <1>3, ProxyClasses DEF BothAddresses
  <2>2. CASE be \notin read
    <3>1. parsed[be] = fields[be].first
      BY <1>1, <2>1, <2>2
    <3> QED BY <1>3, <2>1, <3>1 DEF Name, Checked
  <2>3. CASE be \in read
    <3>1. parsed[be] = file[be]
      <4>1. parsed[be] \in Kepts(be)
        BY <1>1, <2>1, <2>3
      <4> QED BY <2>1, <4>1, AddressIsKept
    <3>2. ParseOrder[3] = be /\ 3 \in DOMAIN ParseOrder
      BY DEF ParseOrder
    <3>3. fe \in Before(3) <=> fe \in read
      BY DEF ParseOrder
    <3>4. After(Before(3))[fe] = parsed[fe]
      BY <1>1, <2>1, <3>3
    <3>5. KeptOption(class, After(Before(3)), be, file[be]) # {}
      BY <1>1, <2>3, <3>2
    <3>6. <<be, fe>> \in class.apart
      BY <1>3, ProxyApart DEF Proxies
    <3>7. After(Before(3))[fe] # file[be]
      BY <2>1, <3>5, <3>6 DEF KeptOption
    <3> QED BY <1>3, <3>1, <3>4, <3>7
  <2> QED BY <2>2, <2>3
<1> QED BY <1>2, <1>3 DEF Compared

LEMMA OptionsCleared ==
  ASSUME OptionsOK
  PROVE  AreOptions(optionClass, Cleared) /\ Compared(optionClass, Cleared, FALSE)
<1>1. CASE optionClass = "ConnectionServiceOptions"
  <2>1. Cleared = [New(Class.fields) EXCEPT !.zapOptions = options.zapOptions]
    BY <1>1 DEF Cleared
  <2>2. AreOptions(optionClass, New(Class.fields)) /\ AreOptions(optionClass, options)
    BY NewOptions DEF OptionsOK, Class
  <2>3. AreOptions(optionClass, Cleared)
    BY <2>1, <2>2 DEF AreOptions
  <2>4. optionClass \notin Proxies
    BY <1>1 DEF Proxies
  <2> QED BY <2>3, <2>4 DEF Compared
<1>2. CASE optionClass # "ConnectionServiceOptions"
  BY <1>2, NewOptions DEF OptionsOK, Cleared, Class
<1> QED BY <1>1, <1>2

LEMMA ConfigurationKeeps ==
  ASSUME OptionsOK, ConfigurationNext
  PROVE  OptionsOK'
<1>1. ASSUME NEW new, NEW last, Call(new, last),
             AreOptions(optionClass, new), Compared(optionClass, new, last)
      PROVE  OptionsOK'
  BY <1>1 DEF OptionsOK, Call
<1>2. CASE SetOption
  <2>1. PICK f \in DOMAIN Class.fields : \E v \in DOMAIN Class.fields[f].takes :
          \E k \in KeptOption(Class, options, f, v) :
            Call([options EXCEPT ![f] = k],
                 CASE f = "frontendAddress" -> TRUE
                   [] f = "backendAddress" -> FALSE
                   [] OTHER -> frontendLast)
    BY <1>2 DEF SetOption
  <2>2. PICK v \in DOMAIN Class.fields[f].takes : \E k \in KeptOption(Class, options, f, v) :
          Call([options EXCEPT ![f] = k],
               CASE f = "frontendAddress" -> TRUE
                 [] f = "backendAddress" -> FALSE
                 [] OTHER -> frontendLast)
    BY <2>1
  <2>3. PICK k \in KeptOption(Class, options, f, v) :
          Call([options EXCEPT ![f] = k],
               CASE f = "frontendAddress" -> TRUE
                 [] f = "backendAddress" -> FALSE
                 [] OTHER -> frontendLast)
    BY <2>2
  <2> QED BY <1>1, <2>3, OptionSet DEF OptionsOK, Class
<1>3. CASE ClearOptions
  BY <1>1, <1>3, OptionsCleared DEF ClearOptions
<1>4. CASE ParseFile
  <2>1. PICK file \in Files : \E parsed \in Parsed(Class, file) : Call(parsed, FALSE)
    BY <1>4 DEF ParseFile
  <2>2. PICK parsed \in Parsed(Class, file) : Call(parsed, FALSE)
    BY <2>1
  <2> QED BY <1>1, <2>2, OptionsParsed DEF OptionsOK, Class
<1>5. CASE InitializeComponent
  <2>1. UNCHANGED <<optionClass, options, frontendLast>>
    BY <1>5 DEF InitializeComponent
  <2>2. ASSUME component' = "failed"
        PROVE  /\ optionClass \in Proxies
               /\ options.frontendAddress = options.backendAddress
               /\ options.frontendAddress # Unset
    <3>1. /\ IsWanted(Class, options) /\ HasAddresses
          /\ options.frontendAddress = options.backendAddress
      BY <1>5, <2>2 DEF InitializeComponent
    <3>2. optionClass \in Proxies
      BY <3>1, EveryClass DEF HasAddresses, BothAddresses, OptionsOK, Class
    <3>3. "frontendAddress" \in Class.wanted
      BY <3>2, ProxyDemands DEF BothAddresses, Class
    <3> QED BY <3>1, <3>2, <3>3 DEF IsWanted
  <2> QED BY <2>1, <2>2 DEF OptionsOK
<1> QED BY <1>2, <1>3, <1>4, <1>5 DEF ConfigurationNext

LEMMA OptionsStart == ConfigurationInit \/ NoConfigurationInit => OptionsOK
<1>1. ASSUME ConfigurationInit PROVE OptionsOK
  BY <1>1, ConfiguredAssumption, NewOptions DEF ConfigurationInit, OptionsOK
<1>2. ASSUME NoConfigurationInit PROVE OptionsOK
  <2>1. /\ optionClass \in DOMAIN OptionsOf
        /\ OptionsOf[optionClass].fields = PublisherOptions.fields
    BY <1>2 DEF NoConfigurationInit, OptionsOf
  <2> QED BY <1>2, <2>1, NewOptions DEF NoConfigurationInit, OptionsOK
<1> QED BY <1>1, <1>2

(* Whatever the order of setters, clear() and the parser: the two ends of a*)
(* proxy for services have different addresses when it is initialized, so  *)
(* have those of the registry's unless the frontend's was set last; ping   *)
(* intervals ascend; no limit is negative.                                 *)
THEOREM OptionsFitInvariant == Spec => []OptionsFit
<1>1. Init => OptionsOK
  BY OptionsStart DEF Init
<1>2. OptionsOK /\ [Next]_vars => OptionsOK'
  <2>1. OptionsOK /\ UNCHANGED configurationVars => OptionsOK'
    BY DEF configurationVars, OptionsOK
  <2> QED BY <2>1, ConfigurationKeeps DEF Next, vars
<1> QED BY <1>1, <1>2, OptionsOKFits, PTL DEF Spec
=============================================================================

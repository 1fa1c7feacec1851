--------------------------- MODULE Requests_proofs ----------------------------
(***************************************************************************)
(* What becomes of a client's request, for any number of modules,          *)
(* connections and clients, any ping ladder, and any of the bounds: it is  *)
(* in one place at a time, and what comes back answers it.                 *)
(*                                                                         *)
(* The inductive invariant says where the one request of a client can be   *)
(* (Whereabouts) and what it is about there (ContentOK).  Most steps leave *)
(* a channel with what it had of a client, or less (NoMore); the others    *)
(* carry the request from one place to the next.                           *)
(***************************************************************************)
EXTENDS Eviction_proofs, FiniteSetTheorems

-----------------------------------------------------------------------------
(* What a channel holds of a client.                                       *)

Ours(msg, c) == msg.type \in {"request", "reply"} /\ msg.client = c

None(q, c) == PlacesIn(q, c) = {}

One(q, c) == \E i \in PlacesIn(q, c) : PlacesIn(q, c) = {i}

NoMore(new, old, c) ==
  /\ None(old, c) => None(new, c)
  /\ One(old, c) => None(new, c) \/ One(new, c)

(* The places of a client are the indices of its messages.                 *)
LEMMA PlacesAre ==
  ASSUME NEW q, NEW c
  PROVE  /\ None(q, c) <=> \A i \in 1..Len(q) : ~Ours(q[i], c)
         /\ One(q, c) <=> \E i \in 1..Len(q) :
              Ours(q[i], c) /\ \A j \in 1..Len(q) : Ours(q[j], c) => j = i
<1>1. PlacesIn(q, c) = {i \in 1..Len(q) : Ours(q[i], c)}
  BY DEF PlacesIn, Ours
<1>2. None(q, c) <=> \A i \in 1..Len(q) : ~Ours(q[i], c)
  BY <1>1 DEF None
<1>3. One(q, c) <=> \E i \in 1..Len(q) :
        Ours(q[i], c) /\ \A j \in 1..Len(q) : Ours(q[j], c) => j = i
  BY <1>1 DEF One
<1> QED BY <1>2, <1>3

(* Reading takes the head, and no other message of the client.             *)
LEMMA TailPlaces ==
  ASSUME NEW S, NEW q \in Seq(S), q # <<>>, NEW c
  PROVE  /\ NoMore(Tail(q), q, c)
         /\ Ours(Head(q), c) => ~None(q, c) /\ (One(q, c) => None(Tail(q), c))
         /\ ~Ours(Head(q), c) /\ One(q, c) => One(Tail(q), c)
<1> DEFINE n == Len(q)
           t == Tail(q)
<1>1. /\ n \in Nat \ {0} /\ Len(t) = n - 1
      /\ \A i \in 1..Len(t) : i + 1 \in 1..n /\ t[i] = q[i + 1]
      /\ \A i \in 1..n : i # 1 => i - 1 \in 1..Len(t) /\ t[i - 1] = q[i]
      /\ Head(q) = q[1] /\ 1 \in 1..n
  BY TailIndex
<1>2. /\ None(q, c) <=> \A i \in 1..n : ~Ours(q[i], c)
      /\ One(q, c) <=> \E i \in 1..n :
           Ours(q[i], c) /\ \A j \in 1..n : Ours(q[j], c) => j = i
      /\ None(t, c) <=> \A i \in 1..Len(t) : ~Ours(t[i], c)
      /\ One(t, c) <=> \E i \in 1..Len(t) :
           Ours(t[i], c) /\ \A j \in 1..Len(t) : Ours(t[j], c) => j = i
  BY PlacesAre
<1> HIDE DEF n, t
<1>3. None(q, c) => None(t, c)
  BY <1>1, <1>2
<1>4. ASSUME One(q, c)
      PROVE  IF Ours(Head(q), c) THEN None(t, c) ELSE One(t, c)
  <2>1. PICK i \in 1..n : Ours(q[i], c) /\ \A j \in 1..n : Ours(q[j], c) => j = i
    BY <1>2, <1>4
  <2>2. CASE i = 1
    <3>1. \A j \in 1..Len(t) : ~Ours(t[j], c)
      <4> SUFFICES ASSUME NEW j \in 1..Len(t), Ours(t[j], c) PROVE FALSE
        OBVIOUS
      <4>1. j + 1 \in 1..n /\ j + 1 # 1 /\ Ours(q[j + 1], c)
        BY <1>1
      <4> QED BY <2>1, <2>2, <4>1
    <3> QED BY <1>1, <1>2, <2>1, <2>2, <3>1
  <2>3. CASE i # 1
    <3>1. i - 1 \in 1..Len(t) /\ Ours(t[i - 1], c)
      BY <1>1, <2>1, <2>3
    <3>2. \A j \in 1..Len(t) : Ours(t[j], c) => j = i - 1
      <4> SUFFICES ASSUME NEW j \in 1..Len(t), Ours(t[j], c) PROVE j = i - 1
        OBVIOUS
      <4>1. j + 1 \in 1..n /\ Ours(q[j + 1], c)
        BY <1>1
      <4>2. j + 1 = i
        BY <2>1, <4>1
      <4> QED BY <4>2
    <3>3. ~Ours(Head(q), c)
      BY <1>1, <2>1, <2>3
    <3> QED BY <1>2, <3>1, <3>2, <3>3
  <2> QED BY <2>2, <2>3
<1>5. Ours(Head(q), c) => ~None(q, c)
  BY <1>1, <1>2
<1> QED BY <1>3, <1>4, <1>5 DEF NoMore, t

(* Sending adds the message that is sent.                                  *)
LEMMA AppendPlaces ==
  ASSUME NEW S, NEW q \in Seq(S), NEW msg, NEW c
  PROVE  /\ ~Ours(msg, c) => /\ NoMore(Append(q, msg), q, c)
                             /\ One(q, c) => One(Append(q, msg), c)
         /\ Ours(msg, c) /\ None(q, c) => One(Append(q, msg), c)
<1> DEFINE n == Len(q)
           a == Append(q, msg)
<1>1. /\ n \in Nat /\ Len(a) = n + 1
      /\ \A i \in 1..n : i \in 1..Len(a) /\ a[i] = q[i]
      /\ n + 1 \in 1..Len(a) /\ a[n + 1] = msg
      /\ \A i \in 1..Len(a) : i \in 1..n \/ i = n + 1
  BY AppendIndex
<1>2. /\ None(q, c) <=> \A i \in 1..n : ~Ours(q[i], c)
      /\ One(q, c) <=> \E i \in 1..n :
           Ours(q[i], c) /\ \A j \in 1..n : Ours(q[j], c) => j = i
      /\ None(a, c) <=> \A i \in 1..Len(a) : ~Ours(a[i], c)
      /\ One(a, c) <=> \E i \in 1..Len(a) :
           Ours(a[i], c) /\ \A j \in 1..Len(a) : Ours(a[j], c) => j = i
  BY PlacesAre
<1> HIDE DEF n, a
<1>3. ~Ours(msg, c) /\ None(q, c) => None(a, c)
  BY <1>1, <1>2
<1>4. ASSUME ~Ours(msg, c), One(q, c) PROVE One(a, c)
  <2>1. PICK i \in 1..n : Ours(q[i], c) /\ \A j \in 1..n : Ours(q[j], c) => j = i
    BY <1>2, <1>4
  <2>2. i \in 1..Len(a) /\ Ours(a[i], c)
    BY <1>1, <2>1
  <2>3. \A j \in 1..Len(a) : Ours(a[j], c) => j = i
    BY <1>1, <1>4, <2>1
  <2> QED BY <1>2, <2>2, <2>3
<1>5. ASSUME Ours(msg, c), None(q, c) PROVE One(a, c)
  <2>1. n + 1 \in 1..Len(a) /\ Ours(a[n + 1], c)
    BY <1>1, <1>5
  <2>2. \A j \in 1..Len(a) : Ours(a[j], c) => j = n + 1
    BY <1>1, <1>2, <1>5
  <2> QED BY <1>2, <2>1, <2>2
<1> QED BY <1>3, <1>4, <1>5 DEF NoMore, a

(* What a dying peer had sent is no more than what it would have sent.     *)
LEMMA PrefixPlaces ==
  ASSUME NEW S, NEW q \in Seq(S), NEW n \in 0..Len(q), NEW c
  PROVE  NoMore(SubSeq(q, 1, n), q, c)
<1> DEFINE p == SubSeq(q, 1, n)
<1>1. Len(q) \in Nat /\ n \in Nat /\ n <= Len(q)
  OBVIOUS
<1>2. Len(p) = n /\ \A i \in 1..n : p[i] = q[i] /\ i \in 1..Len(q)
  <2>1. \A i \in 1..n : q[i] \in S /\ i \in 1..Len(q)
    BY <1>1
  <2> QED BY <1>1, <2>1, SubSeqProperties
<1>3. /\ None(q, c) <=> \A i \in 1..Len(q) : ~Ours(q[i], c)
      /\ One(q, c) <=> \E i \in 1..Len(q) :
           Ours(q[i], c) /\ \A j \in 1..Len(q) : Ours(q[j], c) => j = i
      /\ None(p, c) <=> \A i \in 1..Len(p) : ~Ours(p[i], c)
      /\ One(p, c) <=> \E i \in 1..Len(p) :
           Ours(p[i], c) /\ \A j \in 1..Len(p) : Ours(p[j], c) => j = i
  BY PlacesAre
<1> HIDE DEF p
<1>4. None(q, c) => None(p, c)
  BY <1>2, <1>3
<1>5. One(q, c) => None(p, c) \/ One(p, c)
  BY <1>2, <1>3
<1> QED BY <1>4, <1>5 DEF NoMore, p

(* Nothing is in an empty channel, and what stays is no more than it was.  *)
LEMMA SamePlaces ==
  ASSUME NEW q, NEW c
  PROVE  None(<<>>, c) /\ NoMore(<<>>, q, c) /\ NoMore(q, q, c)
BY DEF None, NoMore, PlacesIn

-----------------------------------------------------------------------------
(* The steps, as a client sees them.                                       *)

Same(new, old, c) == NoMore(new, old, c) /\ (One(old, c) => One(new, c))

(* The client's own end is left alone.                                     *)
KeptFor(c) ==
  /\ requestor'[c] = requestor[c] /\ pending'[c] = pending[c]
  /\ c \in listening' <=> c \in listening
  /\ fromClient'[c] = fromClient[c] /\ toClient'[c] = toClient[c]

KeptAt(c, w) ==
  Same(toWorker'[w], toWorker[w], c) /\ Same(toProxy'[w], toProxy[w], c)

Quiet(c) == KeptFor(c) /\ \A w \in Workers : KeptAt(c, w)

(* The connection x may lose the client's request: its peer reads what was *)
(* sent to it, or goes away.                                               *)
LossAt(c, x) ==
  /\ KeptFor(c)
  /\ \A w \in Workers \ {x} : KeptAt(c, w)
  /\ NoMore(toWorker'[x], toWorker[x], c) /\ NoMore(toProxy'[x], toProxy[x], c)
  /\ \/ x \notin connected'
     \/ /\ replier[x] \in {"registering", "polling", "deregistering"}
        /\ Same(toProxy'[x], toProxy[x], c)

(* The client's request is carried on.                                     *)
ProxyServes(c) == PollerHandlesFrontend(c) /\ UNCHANGED <<replierVars, requestorVars>>

ProxyReturns(c, x) ==
  /\ HandleMessagesFromBackend(x) /\ Ours(Head(toProxy[x]), c)
  /\ UNCHANGED <<replierVars, requestorVars>>

ReplierDelivers(c, x) ==
  ReplierStep(x) /\ ReplierPolls(x) /\ ReplierAnswersRequest(x) /\ Ours(Head(toWorker[x]), c)

(* A message that is sent to a peer, or dropped, is no other client's.     *)
LEMMA SentPlaces ==
  ASSUME TypeOK, NEW c, NEW x, NEW msg, ~Ours(msg, c)
  PROVE  /\ \A w \in Workers : Same(SentToWorker(x, msg)[w], toWorker[w], c)
         /\ \A w \in Workers : Same(SentToProxy(x, msg)[w], toProxy[w], c)
         /\ \A set : \A w \in Workers : Same(SentToAll(set, msg)[w], toWorker[w], c)
<1> SUFFICES ASSUME NEW w \in Workers
             PROVE  /\ Same(SentToWorker(x, msg)[w], toWorker[w], c)
                    /\ Same(SentToProxy(x, msg)[w], toProxy[w], c)
                    /\ \A set : Same(SentToAll(set, msg)[w], toWorker[w], c)
  OBVIOUS
<1>1. toWorker[w] \in Seq(MessagesToWorker) /\ toProxy[w] \in Seq(MessagesToProxy)
  BY DEF TypeOK, NetworkTypeOK
<1>2. /\ SentToWorker(x, msg)[w] \in {toWorker[w], Append(toWorker[w], msg)}
      /\ SentToProxy(x, msg)[w] \in {toProxy[w], Append(toProxy[w], msg)}
      /\ \A set : SentToAll(set, msg)[w] \in {toWorker[w], Append(toWorker[w], msg)}
  BY DEF SentToWorker, SentToProxy, SentToAll, TypeOK, NetworkTypeOK
<1>3. /\ Same(Append(toWorker[w], msg), toWorker[w], c) /\ Same(toWorker[w], toWorker[w], c)
      /\ Same(Append(toProxy[w], msg), toProxy[w], c) /\ Same(toProxy[w], toProxy[w], c)
  BY <1>1, AppendPlaces, SamePlaces DEF Same
<1> QED BY <1>2, <1>3

(* The poller, at the frontend, for another client.                        *)
LEMMA OtherServed ==
  ASSUME TypeOK, NEW c \in Clients, NEW d \in Clients, d # c, ProxyServes(d)
  PROVE  Quiet(c)
<1>1. \A w \in Workers : toProxy'[w] = toProxy[w] /\ Same(toProxy[w], toProxy[w], c)
  BY SamePlaces DEF ProxyServes, PollerHandlesFrontend, Same
<1>2. \A w \in Workers : Same(toWorker'[w], toWorker[w], c)
  <2>1. CASE toWorker' = toWorker
    BY <2>1, SamePlaces DEF Same
  <2>2. CASE PropagateToBackend(d)
    <3>1. PICK x, m : toWorker' = SentToWorker(x, RoutedMessage("request", d, m))
      BY <2>2 DEF PropagateToBackend
    <3>2. ~Ours(RoutedMessage("request", d, m), c)
      BY DEF Ours, RoutedMessage
    <3> QED BY <3>1, <3>2, SentPlaces
  <2> QED BY <2>1, <2>2 DEF ProxyServes, PollerHandlesFrontend, AnswerAvailableModules,
             RefuseUnknownModule
<1>3. KeptFor(c)
  <2>1. fromClient'[c] = fromClient[c] /\ UNCHANGED <<requestorVars, listening>>
    BY DEF ProxyServes, PollerHandlesFrontend, TypeOK, NetworkTypeOK
  <2>2. \A msg : SentToClient(d, msg)[c] = toClient[c]
    BY DEF SentToClient, TypeOK, NetworkTypeOK
  <2>3. toClient'[c] = toClient[c]
    BY <2>2 DEF ProxyServes, PollerHandlesFrontend, AnswerAvailableModules,
       PropagateToBackend, RefuseUnknownModule
  <2> QED BY <2>1, <2>3 DEF KeptFor, requestorVars
<1> QED BY <1>1, <1>2, <1>3 DEF Quiet, KeptAt

(* The poller, at the backend.                                             *)
LEMMA BackendServed ==
  ASSUME TypeOK, NEW c \in Clients, NEW x \in Workers, HandleMessagesFromBackend(x),
         UNCHANGED <<replierVars, requestorVars>>
  PROVE  Quiet(c) \/ ProxyReturns(c, x)
<1> SUFFICES ASSUME ~Ours(Head(toProxy[x]), c) PROVE Quiet(c)
  BY DEF ProxyReturns
<1>1. /\ toProxy[x] # <<>> /\ toProxy[x] \in Seq(MessagesToProxy)
      /\ toProxy' = [toProxy EXCEPT ![x] = Tail(@)]
      /\ UNCHANGED <<connected, listening, fromClient>>
  BY DEF HandleMessagesFromBackend, TypeOK, NetworkTypeOK
<1>2. \A w \in Workers : Same(toProxy'[w], toProxy[w], c)
  <2>1. Same(Tail(toProxy[x]), toProxy[x], c)
    BY <1>1, TailPlaces DEF Same
  <2>2. \A w \in Workers : Same(toProxy[w], toProxy[w], c)
    BY SamePlaces DEF Same
  <2> QED BY <1>1, <2>1, <2>2 DEF TypeOK, NetworkTypeOK
<1>3. \A w \in Workers : Same(toWorker'[w], toWorker[w], c)
  <2>1. CASE toWorker' = toWorker
    BY <2>1, SamePlaces DEF Same
  <2>2. CASE toWorker' = SentToWorker(x, Message("success"))
              \/ toWorker' = SentToWorker(x, Message("exists"))
    <3>1. ~Ours(Message("success"), c) /\ ~Ours(Message("exists"), c)
      BY DEF Ours, Message
    <3> QED BY <2>2, <3>1, SentPlaces
  <2> QED BY <2>1, <2>2 DEF HandleMessagesFromBackend, HandleRegister, HandleDeregister,
     HandlePingResponse, HandleTerminateResponse, PropagateToFrontend
<1>4. toClient'[c] = toClient[c]
  <2>1. CASE PropagateToFrontend(x)
    <3>1. Head(toProxy[x]).client # c
      BY <2>1 DEF PropagateToFrontend, Ours
    <3> QED BY <2>1, <3>1 DEF PropagateToFrontend, SentToClient, TypeOK, NetworkTypeOK
  <2> QED BY <2>1 DEF HandleMessagesFromBackend, HandleRegister, HandleDeregister,
     HandlePingResponse, HandleTerminateResponse
<1> QED BY <1>1, <1>2, <1>3, <1>4 DEF Quiet, KeptAt, KeptFor, requestorVars

(* A replier.                                                              *)
LEMMA ReplierServed ==
  ASSUME TypeOK, NEW c \in Clients, NEW x \in Workers, ReplierStep(x)
  PROVE  Quiet(c) \/ LossAt(c, x) \/ ReplierDelivers(c, x)
<1> DEFINE q == toWorker[x]
           p == toProxy[x]
<1>1. q \in Seq(MessagesToWorker) /\ p \in Seq(MessagesToProxy)
  BY DEF TypeOK, NetworkTypeOK
<1>2. KeptFor(c)
  BY DEF ReplierStep, Replier, ReplierRuns, ReplierRegisters, ReplierReadsRegistration,
     ReplierGivesUp, ReplierPolls, ReplierStops, ReplierReadsDeregistration,
     ReplierStopsWaiting, ReplierLeaves, frontendVars, networkVars, requestorVars, KeptFor
<1>3. \A w \in Workers \ {x} : KeptAt(c, w)
  <2>1. \A w \in Workers \ {x} : toWorker'[w] = toWorker[w] /\ toProxy'[w] = toProxy[w]
    BY DEF ReplierStep, Replier, ReplierRuns, ReplierRegisters, ReplierReadsRegistration,
       ReplierGivesUp, ReplierPolls, ReplierAnswersPing, ReplierIsTold,
       ReplierAnswersRequest, ReplierSkips, ReplierStops, ReplierReadsDeregistration,
       ReplierStopsWaiting, ReplierLeaves, Takes, SentToProxy, networkVars,
       TypeOK, NetworkTypeOK
  <2> QED BY <2>1, SamePlaces DEF KeptAt, Same
<1>4. ASSUME Takes(x) PROVE q # <<>> /\ toWorker'[x] = Tail(q)
  BY <1>4 DEF Takes, TypeOK, NetworkTypeOK
<1>5. q # <<>> => NoMore(Tail(q), q, c)
  BY <1>1, TailPlaces
<1>6. Same(q, q, c) /\ Same(p, p, c)
  BY SamePlaces DEF Same
<1>7. \A kind \in {"register", "deregister", "pingResponse", "terminateResponse"} :
        Same(SentToProxy(x, Message(kind))[x], p, c)
  <2> SUFFICES ASSUME NEW kind \in {"register", "deregister", "pingResponse",
                                    "terminateResponse"}
               PROVE  Same(SentToProxy(x, Message(kind))[x], p, c)
    OBVIOUS
  <2>1. ~Ours(Message(kind), c)
    BY DEF Ours, Message
  <2> QED BY <2>1, SentPlaces
<1>8. CASE \/ ReplierRegisters(x) \/ ReplierGivesUp(x)
           \/ ReplierStops(x) \/ ReplierStopsWaiting(x)
  <2>1. Same(toWorker'[x], q, c) /\ Same(toProxy'[x], p, c)
    BY <1>6, <1>7, <1>8 DEF ReplierRegisters, ReplierGivesUp, ReplierStops,
       ReplierStopsWaiting, networkVars
  <2> QED BY <1>2, <1>3, <2>1 DEF Quiet, KeptAt
<1>9. ASSUME Takes(x), replier[x] \in {"registering", "polling", "deregistering"},
             Same(toProxy'[x], p, c)
      PROVE  LossAt(c, x)
  BY <1>2, <1>3, <1>4, <1>5, <1>9 DEF LossAt, Same
<1>10. CASE ReplierReadsRegistration(x) \/ ReplierReadsDeregistration(x)
  BY <1>6, <1>9, <1>10 DEF ReplierReadsRegistration, ReplierReadsDeregistration, Moves
<1>11. CASE ReplierPolls(x)
  <2>1. Takes(x) /\ replier[x] = "polling"
    BY <1>11 DEF ReplierPolls
  <2>2. CASE ReplierAnswersPing(x) \/ ReplierIsTold(x) \/ ReplierSkips(x)
    <3>1. Same(toProxy'[x], p, c)
      BY <1>6, <1>7, <2>2 DEF ReplierAnswersPing, ReplierIsTold, ReplierSkips
    <3> QED BY <1>9, <2>1, <3>1
  <2>3. CASE ReplierAnswersRequest(x) /\ ~Ours(Head(q), c)
    <3> DEFINE reply == RoutedMessage("reply", Head(q).client, Details[x])
    <3>1. ~Ours(reply, c)
      BY <2>3 DEF ReplierAnswersRequest, Ours, RoutedMessage
    <3>2. toProxy' = SentToProxy(x, reply)
      BY <2>3 DEF ReplierAnswersRequest
    <3> HIDE DEF reply
    <3>3. Same(toProxy'[x], p, c)
      BY <3>1, <3>2, SentPlaces
    <3> QED BY <1>9, <2>1, <3>3
  <2>4. CASE ReplierAnswersRequest(x) /\ Ours(Head(q), c)
    BY <1>11, <2>4 DEF ReplierDelivers
  <2> QED BY <1>11, <2>2, <2>3, <2>4 DEF ReplierPolls
<1>12. CASE ReplierLeaves(x)
  <2>1. PICK n \in 0..Len(toProxy[x]) : toProxy' = [toProxy EXCEPT ![x] = SubSeq(@, 1, n)]
    BY <1>12 DEF ReplierLeaves
  <2>2. toProxy'[x] = SubSeq(p, 1, n) /\ toWorker'[x] = <<>> /\ x \notin connected'
    BY <1>12, <2>1 DEF ReplierLeaves, TypeOK, NetworkTypeOK
  <2>3. NoMore(toWorker'[x], q, c) /\ NoMore(toProxy'[x], p, c)
    BY <1>1, <2>2, PrefixPlaces, SamePlaces
  <2> QED BY <1>2, <1>3, <2>2, <2>3 DEF LossAt
<1> QED BY <1>8, <1>10, <1>11, <1>12 DEF ReplierStep, Replier, ReplierRuns

(* These are all the steps, as a client sees them.                         *)
LEMMA RequestSteps ==
  ASSUME TypeOK, [Next]_vars, NEW c \in Clients
  PROVE  \/ Quiet(c)
         \/ ProxyServes(c)
         \/ RequestorStep(c)
         \/ \E x \in Workers : LossAt(c, x) \/ ProxyReturns(c, x) \/ ReplierDelivers(c, x)
<1>1. UNCHANGED <<requestorVars, networkVars>> => Quiet(c)
  BY SamePlaces DEF requestorVars, networkVars, Quiet, KeptFor, KeptAt, Same
<1>2. ASSUME UNCHANGED <<requestorVars, listening, fromClient, toClient, toProxy>>,
             \A w \in Workers : Same(toWorker'[w], toWorker[w], c)
      PROVE  Quiet(c)
  BY <1>2, SamePlaces DEF requestorVars, Quiet, KeptFor, KeptAt, Same
<1>3. CASE ProxyStep
  <2>1. UNCHANGED <<replierVars, requestorVars>>
    BY <1>3 DEF ProxyStep
  <2>2. CASE Start \/ Stop \/ Pinger
    BY <1>1, <2>1, <2>2 DEF Start, Stop, Pinger, PingerWakes, PingerUpdates,
       PingerBeginsWalk, PingerVisits, PingerEndsWalk, PingerErases, PingerNaps,
       PingerUnchanged
  <2>3. ASSUME NEW d \in Clients, PollerHandlesFrontend(d)
        PROVE  Quiet(c) \/ ProxyServes(c)
    BY <2>1, <2>3, OtherServed DEF ProxyServes
  <2>4. ASSUME NEW x \in Workers, PollerHandlesBackend(x) \/ PollerAwaits(x)
        PROVE  Quiet(c) \/ ProxyReturns(c, x)
    BY <2>1, <2>4, BackendServed DEF PollerHandlesBackend, PollerAwaits
  <2>5. CASE PollerSendsPing \/ PollerSendsTerminate \/ PollerEvictsAll
    <3>1. ~Ours(Message("ping"), c) /\ ~Ours(Message("terminate"), c)
      BY DEF Ours, Message
    <3>2. \A w \in Workers : Same(toWorker'[w], toWorker[w], c)
      BY <2>5, <3>1, SentPlaces DEF PollerSendsPing, PollerSendsTerminate, PollerEvictsAll
    <3> QED BY <1>2, <2>1, <2>5, <3>2 DEF PollerSendsPing, PollerSendsTerminate,
               PollerEvictsAll, frontendVars
  <2>6. CASE \/ PollerLeavesLoop \/ PollerFrontendQuiet \/ PollerBackendQuiet
             \/ PollerPingsDrained \/ PollerTerminatesDrained \/ PollerGivesUp
    BY <1>1, <2>1, <2>6 DEF PollerLeavesLoop, PollerFrontendQuiet, PollerBackendQuiet,
       PollerPingsDrained, PollerTerminatesDrained, PollerGivesUp
  <2> QED BY <1>3, <2>2, <2>3, <2>4, <2>5, <2>6 DEF ProxyStep, Poller
<1>4. ASSUME NEW d \in Clients, RequestorStep(d), d # c PROVE Quiet(c)
  <2>1. KeptFor(c) /\ UNCHANGED backendVars
    BY <1>4 DEF RequestorStep, Requestor, RequestorAsks, RequestorIsAnswered,
       RequestorTimesOut, RequestorLeaves, networkVars, backendVars, KeptFor,
       TypeOK, NetworkTypeOK, RequestorTypeOK
  <2> QED BY <2>1, SamePlaces DEF backendVars, Quiet, KeptAt, Same
<1>5. CASE Tick \/ UNCHANGED vars
  BY <1>1, <1>5 DEF Tick, vars
<1> QED BY <1>3, <1>4, <1>5, ReplierServed DEF Next

-----------------------------------------------------------------------------
(* Where the request is, and what it is about.                             *)

Unrouted(c) == \A w \in Workers : None(toWorker[w], c) /\ None(toProxy[w], c)

Nowhere(c) == fromClient[c] = <<>> /\ toClient[c] = <<>> /\ Unrouted(c)

Asking(c) == Len(fromClient[c]) = 1 /\ toClient[c] = <<>> /\ Unrouted(c)

Returned(c) == fromClient[c] = <<>> /\ Len(toClient[c]) = 1 /\ Unrouted(c)

Asked(c, w) ==
  /\ fromClient[c] = <<>> /\ toClient[c] = <<>>
  /\ One(toWorker[w], c) /\ \A v \in Workers \ {w} : None(toWorker[v], c)
  /\ \A v \in Workers : None(toProxy[v], c)

Answering(c, w) ==
  /\ fromClient[c] = <<>> /\ toClient[c] = <<>>
  /\ One(toProxy[w], c) /\ \A v \in Workers \ {w} : None(toProxy[v], c)
  /\ \A v \in Workers : None(toWorker[v], c)

Whereabouts(c) ==
  \/ Nowhere(c) \/ Asking(c) \/ Returned(c)
  \/ \E w \in Workers : Asked(c, w) \/ Answering(c, w)

(* An answer to what the client asked.                                     *)
Fits(c, answer) ==
  \/ /\ pending[c].type = "request"
     /\ answer.type = "failure"
          \/ (answer.type = "reply" /\ answer.module = pending[c].module)
  \/ pending[c].type = "availableModules" /\ answer.type = "modules"

ContentOK(c) ==
  /\ requestor[c] # "idle" => pending[c] \in MessagesFromClient
  /\ \A i \in 1..Len(fromClient[c]) : fromClient[c][i] = pending[c]
  /\ \A w \in Workers : ~None(toWorker[w], c) \/ ~None(toProxy[w], c) =>
       pending[c].type = "request" /\ pending[c].module = Details[w]
  /\ \A i \in 1..Len(toClient[c]) : Fits(c, toClient[c][i])

RequestOK(c) ==
  /\ Whereabouts(c)
  /\ requestor[c] = "idle" => Nowhere(c)
  /\ c \in listening <=> requestor[c] # "gone"
  /\ c \notin listening => toClient[c] = <<>>
  /\ c \in listening => ContentOK(c)

RequestsOK == \A c \in Clients : RequestOK(c)

(* A reply names the module on whose connection it travels.                *)
RepliesNamed ==
  \A w \in Workers : \A i \in 1..Len(toProxy[w]) :
    toProxy[w][i].type = "reply" => toProxy[w][i].module = Details[w]

(* A step that carries the request nowhere may lose it, no more.           *)
LEMMA StillOK ==
  ASSUME NEW c \in Clients, RequestOK(c), KeptFor(c),
         \A w \in Workers : /\ NoMore(toWorker'[w], toWorker[w], c)
                            /\ NoMore(toProxy'[w], toProxy[w], c)
  PROVE  RequestOK(c)'
<1>1. \A w \in Workers : /\ None(toWorker[w], c) => None(toWorker'[w], c)
                         /\ None(toProxy[w], c) => None(toProxy'[w], c)
  BY DEF NoMore
<1>2. \A w \in Workers : /\ One(toWorker[w], c) => None(toWorker'[w], c) \/ One(toWorker'[w], c)
                         /\ One(toProxy[w], c) => None(toProxy'[w], c) \/ One(toProxy'[w], c)
  BY DEF NoMore
<1>3. Unrouted(c) => Unrouted(c)'
  BY <1>1 DEF Unrouted
<1>4. fromClient'[c] = fromClient[c] /\ toClient'[c] = toClient[c]
  BY DEF KeptFor
<1>5. /\ Nowhere(c) => Nowhere(c)'
      /\ Asking(c) => Asking(c)'
      /\ Returned(c) => Returned(c)'
  BY <1>3, <1>4 DEF Nowhere, Asking, Returned
<1>6. ASSUME NEW w \in Workers
      PROVE  /\ Asked(c, w) => Nowhere(c)' \/ Asked(c, w)'
             /\ Answering(c, w) => Nowhere(c)' \/ Answering(c, w)'
  BY <1>1, <1>2, <1>4 DEF Asked, Answering, Nowhere, Unrouted
<1>7. Whereabouts(c)'
  BY <1>5, <1>6 DEF RequestOK, Whereabouts
<1>8. ContentOK(c) => ContentOK(c)'
  BY <1>1 DEF KeptFor, ContentOK, Fits
<1> QED BY <1>5, <1>7, <1>8 DEF KeptFor, RequestOK

(* The proxy reads the request at the frontend: it carries it to the one   *)
(* connection that is registered for the module it names, or answers it.   *)
LEMMA ServesOK ==
  ASSUME TypeOK, Faithful, NEW c \in Clients, RequestOK(c), ProxyServes(c)
  PROVE  RequestOK(c)'
<1>1. /\ fromClient[c] # <<>> /\ fromClient'[c] = Tail(fromClient[c])
      /\ UNCHANGED <<toProxy, listening, requestor, pending>>
  BY DEF ProxyServes, PollerHandlesFrontend, requestorVars, TypeOK, NetworkTypeOK
<1>2. Asking(c)
  BY <1>1 DEF RequestOK, Whereabouts, Nowhere, Returned, Asked, Answering
<1>3. requestor[c] # "idle"
  BY <1>1 DEF RequestOK, Nowhere
<1>4. fromClient'[c] = <<>>
  <2>1. fromClient[c] \in Seq(MessagesFromClient) /\ Len(fromClient[c]) = 1
    BY <1>2 DEF Asking, TypeOK, NetworkTypeOK
  <2> QED BY <1>1, <2>1, EmptySeq, TailIndex
<1>5. c \in listening => Head(fromClient[c]) = pending[c] /\ pending[c] \in MessagesFromClient
  <2>1. 1 \in 1..Len(fromClient[c]) /\ Head(fromClient[c]) = fromClient[c][1]
    BY <1>1, TailIndex DEF TypeOK, NetworkTypeOK
  <2> QED BY <1>3, <2>1 DEF RequestOK, ContentOK
<1>6. ASSUME toWorker' = toWorker, NEW msg, toClient' = SentToClient(c, msg),
             c \in listening => Fits(c, msg)
      PROVE  RequestOK(c)'
  <2>1. Unrouted(c)'
    BY <1>1, <1>2, <1>6 DEF Asking, Unrouted
  <2>2. CASE c \in listening
    <3>1. toClient'[c] = Append(toClient[c], msg) /\ toClient[c] = <<>>
      BY <1>2, <1>6, <2>2 DEF SentToClient, Asking, TypeOK, NetworkTypeOK
    <3>2. Len(toClient'[c]) = 1 /\ toClient'[c][1] = msg
      BY <3>1
    <3>3. Returned(c)'
      BY <1>4, <2>1, <3>2 DEF Returned
    <3>4. ContentOK(c)'
      <4>1. pending'[c] = pending[c] /\ requestor'[c] = requestor[c]
        BY <1>1
      <4>2. \A i \in 1..Len(fromClient'[c]) : fromClient'[c][i] = pending'[c]
        BY <1>4
      <4>3. \A w \in Workers : None(toWorker'[w], c) /\ None(toProxy'[w], c)
        BY <2>1 DEF Unrouted
      <4>4. \A i \in 1..Len(toClient'[c]) : toClient'[c][i] = msg
        BY <3>2
      <4>5. Fits(c, msg) /\ pending[c] \in MessagesFromClient
        BY <1>5, <1>6, <2>2
      <4>6. \A i \in 1..Len(toClient'[c]) : Fits(c, toClient[c][i])'
        BY <4>1, <4>4, <4>5 DEF Fits
      <4> QED BY <4>1, <4>2, <4>3, <4>5, <4>6 DEF ContentOK
    <3> QED BY <1>1, <1>3, <2>2, <3>3, <3>4 DEF RequestOK, Whereabouts
  <2>3. CASE c \notin listening
    <3>1. toClient'[c] = <<>>
      BY <1>2, <1>6, <2>3 DEF SentToClient, Asking
    <3>2. Nowhere(c)'
      BY <1>4, <2>1, <3>1 DEF Nowhere
    <3> QED BY <1>1, <1>3, <2>3, <3>1, <3>2 DEF RequestOK, Whereabouts
  <2> QED BY <2>2, <2>3
<1>7. CASE AnswerAvailableModules(c)
  <2> DEFINE msg == [type |-> "modules", list |-> ToVector(modules)]
  <2>1. /\ toWorker' = toWorker /\ toClient' = SentToClient(c, msg)
        /\ Head(fromClient[c]).type = "availableModules"
    BY <1>7 DEF AnswerAvailableModules
  <2>2. msg.type = "modules"
    OBVIOUS
  <2> HIDE DEF msg
  <2> QED BY <1>5, <1>6, <2>1, <2>2 DEF Fits
<1>8. CASE RefuseUnknownModule(c)
  <2>1. /\ toWorker' = toWorker /\ toClient' = SentToClient(c, Message("failure"))
        /\ Head(fromClient[c]).type = "request"
    BY <1>8 DEF RefuseUnknownModule
  <2>2. Message("failure").type = "failure"
    BY DEF Message
  <2> QED BY <1>5, <1>6, <2>1, <2>2 DEF Fits
<1>9. CASE PropagateToBackend(c)
  <2>1. PICK x \in Workers, m \in Modules :
           /\ Head(fromClient[c]).type = "request" /\ Head(fromClient[c]).module = m
           /\ Details[x] = m
           /\ toWorker' = SentToWorker(x, RoutedMessage("request", c, m))
    <3>1. MapOK(modules)
      BY DEF TypeOK, ProxyTypeOK, MapOK
    <3> DEFINE m == Head(fromClient[c]).module
    <3>2. GetAddress(modules, m) \in Workers /\ Details[GetAddress(modules, m)] = m
      BY <1>9, <3>1, GetAddressProperties DEF PropagateToBackend, MapOK, Faithful
    <3>3. m \in Modules
      BY <3>2, DetailsAssumption
    <3> QED BY <1>9, <3>2, <3>3 DEF PropagateToBackend
  <2>2. Ours(RoutedMessage("request", c, m), c)
    BY DEF Ours, RoutedMessage
  <2>3. c \in listening => pending[c].type = "request" /\ pending[c].module = Details[x]
    BY <1>5, <2>1
  <2>4. \A v \in Workers : None(toWorker[v], c) /\ None(toProxy'[v], c)
    BY <1>1, <1>2 DEF Asking, Unrouted
  <2>5. toClient'[c] = <<>>
    BY <1>2, <1>9 DEF Asking, PropagateToBackend
  <2>6. ASSUME c \in listening, \A v \in Workers \ {x} : None(toWorker'[v], c)
        PROVE  ContentOK(c)'
    <3>1. /\ \A i \in 1..Len(fromClient'[c]) : fromClient'[c][i] = pending'[c]
          /\ \A i \in 1..Len(toClient'[c]) : Fits(c, toClient[c][i])'
      BY <1>4, <2>5
    <3> QED BY <1>1, <1>5, <2>3, <2>4, <2>6, <3>1 DEF ContentOK
  <2>7. CASE x \in connected
    <3>1. /\ toWorker'[x] = Append(toWorker[x], RoutedMessage("request", c, m))
          /\ \A v \in Workers \ {x} : toWorker'[v] = toWorker[v]
          /\ toWorker[x] \in Seq(MessagesToWorker)
      BY <2>1, <2>7 DEF SentToWorker, TypeOK, NetworkTypeOK
    <3>2. One(toWorker'[x], c) /\ \A v \in Workers \ {x} : None(toWorker'[v], c)
      BY <2>2, <2>4, <3>1, AppendPlaces
    <3>3. Asked(c, x)'
      BY <1>4, <2>4, <2>5, <3>2 DEF Asked
    <3> QED BY <1>1, <1>3, <2>5, <2>6, <3>2, <3>3 DEF RequestOK, Whereabouts
  <2>8. CASE x \notin connected
    <3>1. toWorker' = toWorker
      BY <2>1, <2>8 DEF SentToWorker
    <3>2. Nowhere(c)'
      BY <1>4, <2>4, <2>5, <3>1 DEF Nowhere, Unrouted
    <3> QED BY <1>1, <1>3, <2>4, <2>5, <2>6, <3>1, <3>2 DEF RequestOK, Whereabouts
  <2> QED BY <2>7, <2>8
<1> QED BY <1>7, <1>8, <1>9 DEF ProxyServes, PollerHandlesFrontend

(* The proxy carries an answer from the module it came from to the client. *)
LEMMA ReturnsOK ==
  ASSUME TypeOK, RepliesNamed, NEW c \in Clients, RequestOK(c),
         NEW x \in Workers, ProxyReturns(c, x)
  PROVE  RequestOK(c)'
<1>1. /\ toProxy[x] # <<>> /\ toProxy[x] \in Seq(MessagesToProxy)
      /\ toProxy'[x] = Tail(toProxy[x])
      /\ \A v \in Workers \ {x} : toProxy'[v] = toProxy[v]
      /\ UNCHANGED <<listening, fromClient, requestor, pending>>
  BY DEF ProxyReturns, HandleMessagesFromBackend, requestorVars, TypeOK, NetworkTypeOK
<1>2. /\ Head(toProxy[x]).type = "reply" /\ Head(toProxy[x]).client = c
      /\ toWorker' = toWorker
      /\ toClient' = SentToClient(c, [type |-> "reply", module |-> Head(toProxy[x]).module])
  BY DEF ProxyReturns, HandleMessagesFromBackend, HandleRegister, HandleDeregister,
     HandlePingResponse, HandleTerminateResponse, PropagateToFrontend, Ours
<1>3. ~None(toProxy[x], c) /\ (One(toProxy[x], c) => None(toProxy'[x], c))
  BY <1>1, TailPlaces DEF ProxyReturns
<1>4. Answering(c, x)
  BY <1>3 DEF RequestOK, Whereabouts, Nowhere, Asking, Returned, Unrouted, Asked, Answering
<1>5. requestor[c] # "idle"
  BY <1>3 DEF RequestOK, Nowhere, Unrouted
<1>6. Unrouted(c)'
  BY <1>1, <1>2, <1>3, <1>4 DEF Answering, Unrouted
<1>7. Head(toProxy[x]).module = Details[x]
  BY <1>1, <1>2, TailIndex DEF RepliesNamed
<1>8. fromClient'[c] = <<>>
  BY <1>1, <1>4 DEF Answering
<1> DEFINE msg == [type |-> "reply", module |-> Details[x]]
<1>9. toClient' = SentToClient(c, msg)
  BY <1>2, <1>7
<1>10. msg.type = "reply" /\ msg.module = Details[x]
  OBVIOUS
<1>11. CASE c \in listening
  <2>1. pending[c].type = "request" /\ pending[c].module = Details[x]
          /\ pending[c] \in MessagesFromClient
    BY <1>3, <1>5, <1>11 DEF RequestOK, ContentOK
  <2>2. toClient'[c] = Append(<<>>, msg)
    BY <1>4, <1>9, <1>11 DEF SentToClient, Answering, TypeOK, NetworkTypeOK
  <2>3. Fits(c, msg)'
    BY <1>1, <1>10, <2>1 DEF Fits
  <2> HIDE DEF msg
  <2>4. Len(toClient'[c]) = 1 /\ \A i \in 1..Len(toClient'[c]) : toClient'[c][i] = msg
    BY <2>2
  <2>5. \A i \in 1..Len(toClient'[c]) : Fits(c, toClient[c][i])'
    BY <2>3, <2>4 DEF Fits, msg
  <2>6. Returned(c)'
    BY <1>6, <1>8, <2>4 DEF Returned
  <2>7. \A i \in 1..Len(fromClient'[c]) : fromClient'[c][i] = pending'[c]
    BY <1>8
  <2>8. ContentOK(c)'
    BY <1>1, <1>6, <2>1, <2>5, <2>7 DEF ContentOK, Unrouted
  <2> QED BY <1>1, <1>5, <1>11, <2>6, <2>8 DEF RequestOK, Whereabouts
<1>12. CASE c \notin listening
  <2>1. toClient'[c] = <<>>
    BY <1>2, <1>4, <1>12 DEF SentToClient, Answering
  <2>2. Nowhere(c)'
    BY <1>6, <1>8, <2>1 DEF Nowhere
  <2> QED BY <1>1, <1>5, <1>12, <2>1, <2>2 DEF RequestOK, Whereabouts
<1> QED BY <1>11, <1>12

(* The replier a request was sent to answers it, to the same client.       *)
LEMMA DeliversOK ==
  ASSUME TypeOK, NEW c \in Clients, RequestOK(c), NEW x \in Workers, ReplierDelivers(c, x)
  PROVE  RequestOK(c)'
<1>1. /\ toWorker[x] # <<>> /\ toWorker[x] \in Seq(MessagesToWorker)
      /\ toWorker'[x] = Tail(toWorker[x])
      /\ toProxy[x] \in Seq(MessagesToProxy)
      /\ \A v \in Workers \ {x} : toWorker'[v] = toWorker[v] /\ toProxy'[v] = toProxy[v]
      /\ UNCHANGED <<listening, fromClient, toClient, requestor, pending>>
  BY DEF ReplierDelivers, ReplierStep, ReplierPolls, ReplierAnswersRequest, Takes,
     SentToProxy, frontendVars, requestorVars, TypeOK, NetworkTypeOK
<1>2. ~None(toWorker[x], c) /\ (One(toWorker[x], c) => None(toWorker'[x], c))
  BY <1>1, TailPlaces DEF ReplierDelivers
<1>3. Asked(c, x)
  BY <1>2 DEF RequestOK, Whereabouts, Nowhere, Asking, Returned, Unrouted, Asked, Answering
<1>4. requestor[c] # "idle"
  BY <1>2 DEF RequestOK, Nowhere, Unrouted
<1>5. One(toProxy'[x], c)
  <2> DEFINE reply == RoutedMessage("reply", c, Details[x])
  <2>1. toProxy'[x] = Append(toProxy[x], reply)
    BY DEF ReplierDelivers, ReplierAnswersRequest, SentToProxy, Ours, TypeOK, NetworkTypeOK
  <2>2. Ours(reply, c)
    BY DEF Ours, RoutedMessage
  <2> HIDE DEF reply
  <2>3. None(toProxy[x], c)
    BY <1>3 DEF Asked
  <2> QED BY <1>1, <2>1, <2>2, <2>3, AppendPlaces
<1>6. \A v \in Workers : None(toWorker'[v], c) /\ (v # x => None(toProxy'[v], c))
  BY <1>1, <1>2, <1>3 DEF Asked
<1>7. Answering(c, x)'
  BY <1>1, <1>3, <1>5, <1>6 DEF Asked, Answering
<1>8. c \in listening => ContentOK(c)'
  BY <1>1, <1>2, <1>6 DEF RequestOK, ContentOK, Fits
<1> QED BY <1>1, <1>4, <1>7, <1>8 DEF RequestOK, Whereabouts

(* The tail of a channel with one message in it.                           *)
LEMMA TailOfOne ==
  ASSUME NEW S, NEW q \in Seq(S), Len(q) = 1
  PROVE  Tail(q) = <<>>
<1>1. Tail(q) \in Seq(S) /\ Len(Tail(q)) = 0
  BY TailIndex, EmptySeq
<1> QED BY <1>1, EmptySeq

(* A requestor asks when nothing of it is under way, and when it reads an  *)
(* answer nothing of it is left.                                           *)
LEMMA RequestorStepOK ==
  ASSUME TypeOK, NEW c \in Clients, RequestOK(c), RequestorStep(c)
  PROVE  RequestOK(c)'
<1> USE DEF TypeOK, NetworkTypeOK, RequestorTypeOK
<1>1. ASSUME NEW request \in MessagesFromClient, RequestorAsks(c, request)
      PROVE  RequestOK(c)'
  <2>1. /\ requestor[c] = "idle" /\ requestor'[c] = "waiting" /\ pending'[c] = request
        /\ fromClient'[c] = Append(fromClient[c], request)
        /\ UNCHANGED <<toProxy, toWorker, listening, toClient>>
    BY <1>1 DEF RequestorAsks, backendVars
  <2>2. Nowhere(c) /\ c \in listening
    BY <2>1 DEF RequestOK
  <2>3. fromClient'[c] = Append(<<>>, request) /\ toClient'[c] = <<>> /\ Unrouted(c)'
    BY <2>1, <2>2 DEF Nowhere, Unrouted
  <2>4. Len(fromClient'[c]) = 1 /\ \A i \in 1..Len(fromClient'[c]) : fromClient'[c][i] = request
    BY <2>3
  <2>5. Asking(c)'
    BY <2>3, <2>4 DEF Asking
  <2>6. \A i \in 1..Len(toClient'[c]) : Fits(c, toClient[c][i])'
    BY <2>3
  <2>7. ContentOK(c)'
    BY <2>1, <2>3, <2>4, <2>6 DEF ContentOK, Unrouted
  <2> QED BY <2>1, <2>2, <2>5, <2>7 DEF RequestOK, Whereabouts
<1>2. CASE RequestorIsAnswered(c)
  <2>1. /\ toClient[c] # <<>> /\ toClient'[c] = Tail(toClient[c])
        /\ requestor[c] = "waiting" /\ requestor'[c] = "idle"
        /\ UNCHANGED <<toProxy, toWorker, listening, fromClient>>
    BY <1>2 DEF RequestorIsAnswered, backendVars
  <2>2. Returned(c)
    BY <2>1 DEF RequestOK, Whereabouts, Nowhere, Asking, Asked, Answering
  <2>3. toClient'[c] = <<>>
    <3>1. toClient[c] \in Seq(MessagesToClient) /\ Len(toClient[c]) = 1
      BY <2>2 DEF Returned
    <3> QED BY <2>1, <3>1, TailOfOne
  <2>4. Nowhere(c)'
    BY <2>1, <2>2, <2>3 DEF Returned, Nowhere, Unrouted
  <2>5. ContentOK(c)'
    BY <2>1, <2>4 DEF ContentOK, Nowhere, Unrouted
  <2> QED BY <2>1, <2>3, <2>4, <2>5 DEF RequestOK, Whereabouts
<1>3. CASE RequestorTimesOut(c)
  <2>1. /\ requestor[c] = "waiting" /\ requestor'[c] = "stuck"
        /\ UNCHANGED <<pending, networkVars>>
    BY <1>3 DEF RequestorTimesOut
  <2>2. Whereabouts(c)'
    BY <2>1 DEF RequestOK, Whereabouts, Nowhere, Asking, Returned, Unrouted, Asked,
       Answering, networkVars
  <2>3. c \in listening => ContentOK(c)'
    BY <2>1 DEF RequestOK, ContentOK, Fits, networkVars
  <2> QED BY <2>1, <2>2, <2>3 DEF RequestOK, networkVars
<1>4. CASE RequestorLeaves(c)
  <2>1. /\ c \notin listening' /\ requestor'[c] = "gone" /\ toClient'[c] = <<>>
        /\ UNCHANGED <<toProxy, toWorker, fromClient>>
    BY <1>4 DEF RequestorLeaves, backendVars
  <2>2. /\ Nowhere(c) \/ Returned(c) => Nowhere(c)'
        /\ Asking(c) => Asking(c)'
        /\ \A w \in Workers : /\ Asked(c, w) => Asked(c, w)'
                              /\ Answering(c, w) => Answering(c, w)'
    BY <2>1 DEF Nowhere, Asking, Returned, Unrouted, Asked, Answering
  <2>3. Whereabouts(c)'
    BY <2>2 DEF RequestOK, Whereabouts
  <2> QED BY <2>1, <2>3 DEF RequestOK
<1> QED BY <1>1, <1>2, <1>3, <1>4 DEF RequestorStep, Requestor

-----------------------------------------------------------------------------
(* A reply names the module it comes from, whoever asked for it.           *)
THEOREM RepliesNamedInvariant == Spec => []RepliesNamed
<1>1. Init => RepliesNamed
  BY DEF Init, NetworkInit, RepliesNamed
<1>2. TypeOK /\ RepliesNamed /\ [Next]_vars => RepliesNamed'
  <2> SUFFICES ASSUME TypeOK, RepliesNamed, [Next]_vars, NEW w \in Workers
               PROVE  \A i \in 1..Len(toProxy'[w]) :
                        toProxy'[w][i].type = "reply" => toProxy'[w][i].module = Details[w]
    BY DEF RepliesNamed
  <2> DEFINE q == toProxy[w]
             Named(msg) == msg.type = "reply" => msg.module = Details[w]
  <2>1. q \in Seq(MessagesToProxy) /\ \A i \in 1..Len(q) : Named(q[i])
    BY DEF TypeOK, NetworkTypeOK, RepliesNamed
  <2> HIDE DEF q
  <2>2. ASSUME NEW msg, Named(msg), toProxy'[w] = Append(q, msg)
        PROVE  \A i \in 1..Len(toProxy'[w]) : Named(toProxy'[w][i])
    <3> HIDE DEF Named
    <3> QED BY <2>1, <2>2, AppendIndex
  <2>3. ASSUME NEW n \in 0..Len(q), toProxy'[w] = SubSeq(q, 1, n)
        PROVE  \A i \in 1..Len(toProxy'[w]) : Named(toProxy'[w][i])
    <3> HIDE DEF Named
    <3>1. \A i \in 1..n : i \in 1..Len(q) /\ q[i] \in MessagesToProxy
      BY <2>1, <2>3
    <3>2. Len(toProxy'[w]) = n /\ \A i \in 1..n : toProxy'[w][i] = q[i]
      BY <2>1, <2>3, <3>1, SubSeqProperties
    <3> QED BY <2>1, <3>1, <3>2
  <2>4. ASSUME q # <<>>, toProxy'[w] = Tail(q)
        PROVE  \A i \in 1..Len(toProxy'[w]) : Named(toProxy'[w][i])
    <3> HIDE DEF Named
    <3> QED BY <2>1, <2>4, TailIndex
  <2>5. CASE ReplierStep(w)
    <3>1. \/ toProxy'[w] = q
          \/ \E msg : Named(msg) /\ toProxy'[w] = Append(q, msg)
          \/ \E n \in 0..Len(q) : toProxy'[w] = SubSeq(q, 1, n)
      BY <2>5 DEF ReplierStep, Replier, ReplierRuns, ReplierRegisters,
         ReplierReadsRegistration, ReplierGivesUp, ReplierPolls, ReplierAnswersPing,
         ReplierIsTold, ReplierAnswersRequest, ReplierSkips, ReplierStops,
         ReplierReadsDeregistration, ReplierStopsWaiting, ReplierLeaves, Moves,
         SentToProxy, networkVars, Message, RoutedMessage, TypeOK, NetworkTypeOK, q
    <3> QED BY <2>1, <2>2, <2>3, <3>1
  <2>6. CASE ~ReplierStep(w)
    <3>1. toProxy'[w] = q \/ (q # <<>> /\ toProxy'[w] = Tail(q))
      BY <2>6, ReplierEnd DEF q
    <3> QED BY <2>1, <2>4, <3>1
  <2> QED BY <2>5, <2>6
<1> QED BY <1>1, <1>2, TypeInvariant, PTL DEF Spec

(* The request of a client is always in one place at most, and what is     *)
(* there is about what the client asked.                                   *)
THEOREM RequestsInvariant == Spec => []RequestsOK
<1>1. Init => RequestsOK
  <2> SUFFICES ASSUME Init, NEW c \in Clients PROVE RequestOK(c)
    BY DEF RequestsOK
  <2>1. Nowhere(c)
    BY SamePlaces DEF Init, NetworkInit, Nowhere, Unrouted
  <2>2. ContentOK(c)
    BY <2>1 DEF Init, RequestorInit, ContentOK, Nowhere, Unrouted
  <2> QED BY <2>1, <2>2 DEF Init, NetworkInit, RequestorInit, RequestOK, Whereabouts, Nowhere
<1>2. TypeOK /\ Faithful /\ RepliesNamed /\ RequestsOK /\ [Next]_vars => RequestsOK'
  <2> SUFFICES ASSUME TypeOK, Faithful, RepliesNamed, RequestsOK, [Next]_vars,
                      NEW c \in Clients
               PROVE  RequestOK(c)'
    BY DEF RequestsOK
  <2>1. RequestOK(c)
    BY DEF RequestsOK
  <2>2. CASE Quiet(c)
    BY <2>1, <2>2, StillOK DEF Quiet, KeptAt, Same
  <2>3. ASSUME NEW x \in Workers, LossAt(c, x) PROVE RequestOK(c)'
    BY <2>1, <2>3, StillOK DEF LossAt, KeptAt, Same
  <2>4. CASE ProxyServes(c)
    BY <2>1, <2>4, ServesOK
  <2>5. ASSUME NEW x \in Workers, ProxyReturns(c, x) \/ ReplierDelivers(c, x)
        PROVE  RequestOK(c)'
    BY <2>1, <2>5, ReturnsOK, DeliversOK
  <2>6. CASE RequestorStep(c)
    BY <2>1, <2>6, RequestorStepOK
  <2> QED BY <2>2, <2>3, <2>4, <2>5, <2>6, RequestSteps
<1> QED BY <1>1, <1>2, TypeInvariant, FaithfulInvariant, RepliesNamedInvariant, PTL DEF Spec

(* What RequestsOf counts.                                                 *)
LEMMA RequestsAre ==
  ASSUME NEW c, NEW p
  PROVE  p \in RequestsOf(c) <=>
           \/ \E i \in 1..Len(fromClient[c]) : p = <<"fromClient", i>>
           \/ \E i \in 1..Len(toClient[c]) : p = <<"toClient", i>>
           \/ \E w \in Workers : \E i \in PlacesIn(toWorker[w], c) : p = <<w, "asked", i>>
           \/ \E w \in Workers : \E i \in PlacesIn(toProxy[w], c) : p = <<w, "answered", i>>
<1> DEFINE askedBy(w) == {<<w, "asked", i>> : i \in PlacesIn(toWorker[w], c)}
           answeredBy(w) == {<<w, "answered", i>> : i \in PlacesIn(toProxy[w], c)}
           asks == {<<"fromClient", i>> : i \in 1..Len(fromClient[c])}
           answers == {<<"toClient", i>> : i \in 1..Len(toClient[c])}
           asked == UNION {askedBy(w) : w \in Workers}
           answered == UNION {answeredBy(w) : w \in Workers}
<1>1. RequestsOf(c) = asks \cup answers \cup asked \cup answered
  BY DEF RequestsOf
<1>2. p \in asks <=> \E i \in 1..Len(fromClient[c]) : p = <<"fromClient", i>>
  OBVIOUS
<1>3. p \in answers <=> \E i \in 1..Len(toClient[c]) : p = <<"toClient", i>>
  OBVIOUS
<1>4. \A w : p \in askedBy(w) <=> \E i \in PlacesIn(toWorker[w], c) : p = <<w, "asked", i>>
  OBVIOUS
<1>5. \A w : p \in answeredBy(w) <=> \E i \in PlacesIn(toProxy[w], c) : p = <<w, "answered", i>>
  OBVIOUS
<1> HIDE DEF asks, answers, askedBy, answeredBy
<1>6. p \in asked <=> \E w \in Workers : p \in askedBy(w)
  OBVIOUS
<1>7. p \in answered <=> \E w \in Workers : p \in answeredBy(w)
  OBVIOUS
<1> HIDE DEF asked, answered
<1> QED BY <1>1, <1>2, <1>3, <1>4, <1>5, <1>6, <1>7

(* So there is one place at most, and none exactly if it is nowhere.       *)
LEMMA OnePlace ==
  ASSUME TypeOK, NEW c \in Clients, Whereabouts(c)
  PROVE  /\ RequestsOf(c) = {} <=> Nowhere(c)
         /\ \E p : RequestsOf(c) \subseteq {p}
<1>0. \A p \in RequestsOf(c) :
        \/ \E i \in 1..Len(fromClient[c]) : p = <<"fromClient", i>>
        \/ \E i \in 1..Len(toClient[c]) : p = <<"toClient", i>>
        \/ \E w \in Workers : \E i \in PlacesIn(toWorker[w], c) : p = <<w, "asked", i>>
        \/ \E w \in Workers : \E i \in PlacesIn(toProxy[w], c) : p = <<w, "answered", i>>
  BY RequestsAre
<1>1. /\ Len(fromClient[c]) \in Nat /\ (fromClient[c] = <<>> <=> Len(fromClient[c]) = 0)
      /\ Len(toClient[c]) \in Nat /\ (toClient[c] = <<>> <=> Len(toClient[c]) = 0)
  BY EmptySeq DEF TypeOK, NetworkTypeOK
<1>2. Unrouted(c) <=> \A w \in Workers : PlacesIn(toWorker[w], c) = {}
                                          /\ PlacesIn(toProxy[w], c) = {}
  BY DEF Unrouted, None
<1>3. Nowhere(c) => RequestsOf(c) = {}
  <2> SUFFICES ASSUME Nowhere(c), NEW p \in RequestsOf(c) PROVE FALSE
    OBVIOUS
  <2>1. Len(fromClient[c]) = 0 /\ Len(toClient[c]) = 0
        /\ \A w \in Workers : PlacesIn(toWorker[w], c) = {} /\ PlacesIn(toProxy[w], c) = {}
    BY <1>1, <1>2 DEF Nowhere
  <2>2. 1..0 = {}
    OBVIOUS
  <2> QED BY <1>0, <2>1, <2>2
<1>4. ASSUME RequestsOf(c) = {} PROVE Nowhere(c)
  <2>1. /\ \A i \in 1..Len(fromClient[c]) : FALSE
        /\ \A i \in 1..Len(toClient[c]) : FALSE
        /\ \A w \in Workers : /\ \A i \in PlacesIn(toWorker[w], c) : FALSE
                              /\ \A i \in PlacesIn(toProxy[w], c) : FALSE
    BY <1>4, RequestsAre
  <2>2. Len(fromClient[c]) = 0 /\ Len(toClient[c]) = 0
    BY <1>1, <2>1
  <2> QED BY <1>1, <1>2, <2>1, <2>2 DEF Nowhere
<1>5. CASE Nowhere(c)
  BY <1>3, <1>4, <1>5
<1>6. CASE Asking(c)
  <2>1. Len(fromClient[c]) = 1 /\ Len(toClient[c]) = 0
        /\ \A w \in Workers : PlacesIn(toWorker[w], c) = {} /\ PlacesIn(toProxy[w], c) = {}
    BY <1>1, <1>2, <1>6 DEF Asking
  <2>2. ASSUME NEW p \in RequestsOf(c) PROVE p = <<"fromClient", 1>>
    <3>1. \E i \in 1..1 : p = <<"fromClient", i>>
      BY <1>0, <2>1, <2>2
    <3> QED BY <3>1
  <2> QED BY <1>3, <1>4, <2>2
<1>7. CASE Returned(c)
  <2>1. Len(fromClient[c]) = 0 /\ Len(toClient[c]) = 1
        /\ \A w \in Workers : PlacesIn(toWorker[w], c) = {} /\ PlacesIn(toProxy[w], c) = {}
    BY <1>1, <1>2, <1>7 DEF Returned
  <2>2. ASSUME NEW p \in RequestsOf(c) PROVE p = <<"toClient", 1>>
    <3>1. \E i \in 1..1 : p = <<"toClient", i>>
      BY <1>0, <2>1, <2>2
    <3> QED BY <3>1
  <2> QED BY <1>3, <1>4, <2>2
<1>8. ASSUME NEW w \in Workers, Asked(c, w)
      PROVE  \E p : RequestsOf(c) \subseteq {p}
  <2>1. PICK i : PlacesIn(toWorker[w], c) = {i}
    BY <1>8 DEF Asked, One
  <2>2. /\ Len(fromClient[c]) = 0 /\ Len(toClient[c]) = 0
        /\ \A v \in Workers : /\ PlacesIn(toProxy[v], c) = {}
                              /\ v # w => PlacesIn(toWorker[v], c) = {}
    BY <1>1, <1>8 DEF Asked, None
  <2>3. ASSUME NEW p \in RequestsOf(c) PROVE p = <<w, "asked", i>>
    <3>1. \E v \in Workers : \E j \in PlacesIn(toWorker[v], c) : p = <<v, "asked", j>>
      BY <1>0, <2>2, <2>3
    <3>2. PICK v \in Workers : \E j \in PlacesIn(toWorker[v], c) : p = <<v, "asked", j>>
      BY <3>1
    <3>3. v = w
      BY <2>2, <3>2
    <3> QED BY <2>1, <3>2, <3>3
  <2> QED BY <2>3
<1>9. ASSUME NEW w \in Workers, Answering(c, w)
      PROVE  \E p : RequestsOf(c) \subseteq {p}
  <2>1. PICK i : PlacesIn(toProxy[w], c) = {i}
    BY <1>9 DEF Answering, One
  <2>2. /\ Len(fromClient[c]) = 0 /\ Len(toClient[c]) = 0
        /\ \A v \in Workers : /\ PlacesIn(toWorker[v], c) = {}
                              /\ v # w => PlacesIn(toProxy[v], c) = {}
    BY <1>1, <1>9 DEF Answering, None
  <2>3. ASSUME NEW p \in RequestsOf(c) PROVE p = <<w, "answered", i>>
    <3>1. \E v \in Workers : \E j \in PlacesIn(toProxy[v], c) : p = <<v, "answered", j>>
      BY <1>0, <2>2, <2>3
    <3>2. PICK v \in Workers : \E j \in PlacesIn(toProxy[v], c) : p = <<v, "answered", j>>
      BY <3>1
    <3>3. v = w
      BY <2>2, <3>2
    <3> QED BY <2>1, <3>2, <3>3
  <2> QED BY <2>3
<1> QED BY <1>3, <1>4, <1>5, <1>6, <1>7, <1>8, <1>9 DEF Whereabouts

(* A request reaches at most one module, once, and is answered at most     *)
(* once, though the name it is routed by may change hands meanwhile.       *)
THEOREM AtMostOneAnswerInvariant == Spec => []AtMostOneAnswer
<1>1. TypeOK /\ RequestsOK => AtMostOneAnswer
  <2> SUFFICES ASSUME TypeOK, RequestsOK, NEW c \in Clients
               PROVE  Cardinality(RequestsOf(c)) <= 1
    BY DEF AtMostOneAnswer
  <2>1. PICK p : RequestsOf(c) \subseteq {p}
    BY OnePlace DEF RequestsOK, RequestOK
  <2>2. RequestsOf(c) = {} \/ RequestsOf(c) = {p}
    BY <2>1
  <2>3. Cardinality({}) = 0 /\ Cardinality({p}) = 1
    BY FS_EmptySet, FS_Singleton
  <2> QED BY <2>2, <2>3
<1> QED BY <1>1, TypeInvariant, RequestsInvariant, PTL

(* What a requestor reads answers the question it asked, though modules    *)
(* come and go under the name while the request is under way.              *)
THEOREM AnswerFitsInvariant == Spec => []AnswerFits
<1>1. RequestsOK => AnswerFits
  <2> SUFFICES ASSUME RequestsOK, NEW c \in Clients, NEW i \in 1..Len(toClient[c])
               PROVE  Fits(c, toClient[c][i])
    BY DEF AnswerFits, Fits
  <2>1. c \in listening
    BY DEF RequestsOK, RequestOK
  <2> QED BY <2>1 DEF RequestsOK, RequestOK, ContentOK
<1> QED BY <1>1, RequestsInvariant, PTL

(* A message of the client that is sent is there.                          *)
LEMMA AppendedPlace ==
  ASSUME NEW S, NEW q \in Seq(S), NEW msg, NEW c, Ours(msg, c)
  PROVE  ~None(Append(q, msg), c)
<1>1. Len(q) + 1 \in 1..Len(Append(q, msg)) /\ Append(q, msg)[Len(q) + 1] = msg
  BY AppendIndex
<1> QED BY <1>1, PlacesAre

(* Why there is no request of c where there was one.                       *)
LostFor(c) ==
  \/ c \notin listening'
  \/ toClient[c] # <<>>
  \/ \E w \in Workers :
       \/ ~None(toWorker[w], c) /\ replier[w] \in {"registering", "polling", "deregistering"}
       \/ (~None(toWorker[w], c) \/ ~None(toProxy[w], c)) /\ w \notin connected'
  \/ \E w \in Workers \ connected :
       Len(fromClient[c]) = 1 /\ fromClient[c][1].type = "request"
         /\ OwnerOf(fromClient[c][1].module) = w

Emptiness == \A c \in Clients : RequestsOf(c) = {} <=> Nowhere(c)

(* What is there, is in a channel of the client or one of a module.        *)
LEMMA SomewhereElse ==
  ASSUME NEW c, Whereabouts(c), ~Nowhere(c), fromClient[c] = <<>>, toClient[c] = <<>>
  PROVE  \E w \in Workers : One(toWorker[w], c) \/ One(toProxy[w], c)
BY EmptySeq DEF Whereabouts, Asking, Returned, Asked, Answering

(* The proxy loses a request only to a connection that is gone, and an     *)
(* answer only to a client that is.                                        *)
LEMMA ProxyLoses ==
  ASSUME TypeOK, Faithful, NEW c \in Clients, RequestOK(c), Nowhere(c)',
         ProxyServes(c) \/ \E x \in Workers : ProxyReturns(c, x)
  PROVE  LostFor(c)
<1>1. listening' = listening
  BY DEF ProxyServes, ProxyReturns, PollerHandlesFrontend, HandleMessagesFromBackend
<1>2. SUFFICES ASSUME c \in listening PROVE LostFor(c)
  BY <1>1 DEF LostFor
<1>3. ASSUME NEW msg, toClient' = SentToClient(c, msg) PROVE FALSE
  <2>1. toClient'[c] = Append(toClient[c], msg) /\ toClient[c] \in Seq(MessagesToClient)
    BY <1>2, <1>3 DEF SentToClient, TypeOK, NetworkTypeOK
  <2>2. Len(toClient'[c]) = Len(toClient[c]) + 1 /\ Len(toClient[c]) \in Nat
    BY <2>1
  <2>3. toClient'[c] = <<>>
    BY DEF Nowhere
  <2> QED BY <2>2, <2>3
<1>4. ASSUME NEW x \in Workers, ProxyReturns(c, x) PROVE FALSE
  <2>1. PropagateToFrontend(x) /\ Head(toProxy[x]).client = c
    BY <1>4 DEF ProxyReturns, Ours, HandleMessagesFromBackend, HandleRegister,
       HandleDeregister, HandlePingResponse, HandleTerminateResponse, PropagateToFrontend
  <2> QED BY <1>3, <2>1 DEF PropagateToFrontend
<1>5. CASE ProxyServes(c)
  <2>1. PropagateToBackend(c) /\ fromClient[c] # <<>>
    BY <1>3, <1>5 DEF ProxyServes, PollerHandlesFrontend, AnswerAvailableModules,
       RefuseUnknownModule
  <2>2. Len(fromClient[c]) = 1 /\ Head(fromClient[c]) = fromClient[c][1]
    <3>1. Asking(c)
      BY <2>1 DEF RequestOK, Whereabouts, Nowhere, Returned, Asked, Answering
    <3> QED BY <2>1, <3>1, TailIndex DEF Asking, TypeOK, NetworkTypeOK
  <2> DEFINE m == fromClient[c][1].module
             x == OwnerOf(m)
  <2>3. /\ fromClient[c][1].type = "request" /\ x # NoAddress
        /\ toWorker' = SentToWorker(x, RoutedMessage("request", c, m))
    BY <2>1, <2>2 DEF PropagateToBackend, OwnerOf
  <2>4. x \in Workers
    <3>1. MapOK(modules)
      BY DEF TypeOK, ProxyTypeOK, MapOK
    <3> QED BY <2>3, <3>1, GetAddressProperties DEF OwnerOf, MapOK
  <2> HIDE DEF m, x
  <2>5. ASSUME x \in connected PROVE FALSE
    <3>1. /\ toWorker'[x] = Append(toWorker[x], RoutedMessage("request", c, m))
          /\ toWorker[x] \in Seq(MessagesToWorker)
      BY <2>3, <2>4, <2>5 DEF SentToWorker, TypeOK, NetworkTypeOK
    <3>2. Ours(RoutedMessage("request", c, m), c)
      BY DEF Ours, RoutedMessage
    <3>3. ~None(toWorker'[x], c)
      BY <3>1, <3>2, AppendedPlace
    <3> QED BY <2>4, <3>3 DEF Nowhere, Unrouted
  <2> QED BY <2>2, <2>3, <2>4, <2>5 DEF LostFor, m, x
<1> QED BY <1>4, <1>5

(* The modules lose a request when they read it and when they leave.       *)
LEMMA ModuleLoses ==
  ASSUME TypeOK, NEW c \in Clients, RequestOK(c), ~Nowhere(c), Nowhere(c)',
         NEW x \in Workers, Quiet(c) \/ LossAt(c, x) \/ ReplierDelivers(c, x)
  PROVE  LostFor(c)
<1>1. CASE ReplierDelivers(c, x)
  <2> DEFINE reply == RoutedMessage("reply", c, Details[x])
  <2>1. toProxy'[x] = Append(toProxy[x], reply) /\ toProxy[x] \in Seq(MessagesToProxy)
    BY <1>1 DEF ReplierDelivers, ReplierAnswersRequest, SentToProxy, Ours, TypeOK, NetworkTypeOK
  <2>2. Ours(reply, c)
    BY DEF Ours, RoutedMessage
  <2> HIDE DEF reply
  <2>3. ~None(toProxy'[x], c)
    BY <2>1, <2>2, AppendedPlace
  <2> QED BY <2>3 DEF Nowhere, Unrouted
<1>2. CASE Quiet(c) \/ LossAt(c, x)
  <2>1. KeptFor(c) /\ \A w \in Workers \ {x} : KeptAt(c, w)
    BY <1>2 DEF Quiet, LossAt
  <2>2. fromClient[c] = <<>> /\ toClient[c] = <<>>
    BY <2>1 DEF KeptFor, Nowhere
  <2>3. PICK w \in Workers : One(toWorker[w], c) \/ One(toProxy[w], c)
    BY <2>2, SomewhereElse DEF RequestOK
  <2>4. \A v \in Workers : ~One(toWorker'[v], c) /\ ~One(toProxy'[v], c)
    BY DEF Nowhere, Unrouted, None, One
  <2>5. ~KeptAt(c, w) /\ w = x
    BY <2>1, <2>3, <2>4 DEF KeptAt, Same
  <2>6. LossAt(c, x)
    BY <1>2, <2>5 DEF Quiet
  <2>7. ~None(toWorker[x], c) \/ ~None(toProxy[x], c)
    BY <2>3, <2>5 DEF None, One
  <2>8. CASE x \notin connected'
    BY <2>7, <2>8 DEF LostFor
  <2>9. CASE replier[x] \in {"registering", "polling", "deregistering"}
             /\ Same(toProxy'[x], toProxy[x], c)
    <3>1. ~None(toWorker[x], c)
      BY <2>3, <2>4, <2>5, <2>9 DEF Same, None, One
    <3> QED BY <2>9, <3>1 DEF LostFor
  <2> QED BY <2>6, <2>8, <2>9 DEF LossAt
<1> QED BY <1>1, <1>2

(* A requestor loses its own only by reading it or by leaving.             *)
LEMMA RequestorLoses ==
  ASSUME NEW c \in Clients, RequestOK(c), ~Nowhere(c), Nowhere(c)', RequestorStep(c)
  PROVE  LostFor(c)
<1>1. requestor[c] # "idle"
  BY DEF RequestOK
<1>2. CASE RequestorIsAnswered(c) \/ RequestorLeaves(c)
  BY <1>2 DEF RequestorIsAnswered, RequestorLeaves, LostFor
<1>3. CASE RequestorTimesOut(c)
  BY <1>3 DEF RequestorTimesOut, networkVars, Nowhere, Unrouted
<1> QED BY <1>1, <1>2, <1>3 DEF RequestorStep, Requestor, RequestorAsks

(* No request and no answer is lost but with the peer that had it or was   *)
(* to have it, or by being read.                                           *)
THEOREM LostOnlyWithPeerHolds == Spec => LostOnlyWithPeer
<1> DEFINE Cause(c) ==
             \/ c \notin listening'
             \/ toClient[c] # <<>>
             \/ \E w \in Workers :
                  \/ WithReplier(c, w)
                       /\ replier[w] \in {"registering", "polling", "deregistering"}
                  \/ (WithReplier(c, w) \/ Answered(c, w)) /\ w \notin connected'
             \/ \E w \in Workers \ connected :
                  Len(fromClient[c]) = 1 /\ fromClient[c][1].type = "request"
                    /\ OwnerOf(fromClient[c][1].module) = w
           Lost(c) == RequestsOf(c) # {} /\ RequestsOf(c)' = {} => Cause(c)
<1>0. TypeOK /\ RequestsOK => Emptiness
  BY OnePlace DEF RequestsOK, RequestOK, Emptiness
<1>1. ASSUME TypeOK, Faithful, RequestsOK, Emptiness, [Next]_vars, Emptiness',
             NEW c \in Clients
      PROVE  Lost(c)
  <2>1. RequestOK(c)
    BY <1>1 DEF RequestsOK
  <2>2. /\ RequestsOf(c) = {} <=> Nowhere(c)
        /\ RequestsOf(c)' = {} <=> Nowhere(c)'
    BY <1>1 DEF Emptiness
  <2>3. ASSUME ~Nowhere(c), Nowhere(c)' PROVE LostFor(c)
    <3>1. CASE ProxyServes(c) \/ \E x \in Workers : ProxyReturns(c, x)
      BY <1>1, <2>1, <2>3, <3>1, ProxyLoses
    <3>2. ASSUME NEW x \in Workers, Quiet(c) \/ LossAt(c, x) \/ ReplierDelivers(c, x)
          PROVE  LostFor(c)
      BY <1>1, <2>1, <2>3, <3>2, ModuleLoses
    <3>3. CASE RequestorStep(c)
      BY <1>1, <2>1, <2>3, <3>3, RequestorLoses
    <3>4. CASE Quiet(c)
      <4>1. fromClient[c] = <<>> /\ toClient[c] = <<>>
        BY <2>3, <3>4 DEF Quiet, KeptFor, Nowhere
      <4>2. \E x \in Workers : TRUE
        BY <2>1, <2>3, <4>1, SomewhereElse DEF RequestOK
      <4> QED BY <3>2, <3>4, <4>2
    <3> QED BY <1>1, <3>1, <3>2, <3>3, <3>4, RequestSteps
  <2>4. LostFor(c) => Cause(c)
    BY DEF LostFor, WithReplier, Answered, None
  <2> HIDE DEF Cause
  <2> QED BY <2>2, <2>3, <2>4
<1>2. TypeOK /\ Faithful /\ RequestsOK /\ Emptiness /\ [Next]_vars /\ Emptiness'
        => \A c \in Clients : Lost(c)
  BY <1>1
<1> QED BY <1>0, <1>2, TypeInvariant, FaithfulInvariant, RequestsInvariant, PTL
        DEF Spec, LostOnlyWithPeer
===============================================================================

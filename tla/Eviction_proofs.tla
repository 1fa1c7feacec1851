--------------------------- MODULE Eviction_proofs ----------------------------
(***************************************************************************)
(* Whom the remote command system drops, for any number of modules,        *)
(* connections and clients, any ping ladder, and any of the bounds: an     *)
(* eviction hits overdue entries only, and no module that serves is        *)
(* dropped without a terminate request.                                    *)
(*                                                                         *)
(* Three inductive invariants carry the argument: RepliersOK (what a       *)
(* replier's last words say about it), KillOK (what the addresses the      *)
(* pinger collected have become meanwhile) and AwareOK (where the          *)
(* terminate request of a dropped module is).                              *)
(***************************************************************************)
EXTENDS RemoteCommand_proofs

-----------------------------------------------------------------------------
(* What is under way in a channel.                                         *)

Has(q, kinds) == \E i \in 1..Len(q) : q[i].type \in kinds

(* A replier that sends one of these registers no more.                    *)
Closing == {"deregister", "terminateResponse"}

Orderly(q) ==
  \A i, j \in 1..Len(q) : q[i].type \in Closing /\ i < j => q[j].type # "register"

(* A terminate request is under way, and no success behind it.             *)
Warned(q) ==
  \E j \in 1..Len(q) :
    q[j].type = "terminate" /\ \A k \in 1..Len(q) : k > j => q[k].type # "success"

(* An index of what a read leaves is one of what was there, one later.     *)
LEMMA TailIndex ==
  ASSUME NEW S, NEW q \in Seq(S), q # <<>>
  PROVE  /\ Tail(q) \in Seq(S)
         /\ Len(q) \in Nat \ {0} /\ Len(Tail(q)) = Len(q) - 1
         /\ \A i \in 1..Len(Tail(q)) : i + 1 \in 1..Len(q) /\ Tail(q)[i] = q[i + 1]
         /\ \A i \in 1..Len(q) : i # 1 => i - 1 \in 1..Len(Tail(q)) /\ Tail(q)[i - 1] = q[i]
         /\ Head(q) = q[1] /\ 1 \in 1..Len(q)
<1>1. Tail(q) \in Seq(S) /\ Len(q) \in Nat \ {0} /\ Len(Tail(q)) = Len(q) - 1
  BY EmptySeq
<1>2. \A i \in 1..Len(Tail(q)) : Tail(q)[i] = q[i + 1]
  OBVIOUS
<1>3. ASSUME NEW i \in 1..Len(Tail(q)) PROVE i + 1 \in 1..Len(q)
  BY <1>1
<1>4. ASSUME NEW i \in 1..Len(q), i # 1
      PROVE  i - 1 \in 1..Len(Tail(q)) /\ Tail(q)[i - 1] = q[i]
  <2>1. i - 1 \in 1..Len(Tail(q)) /\ (i - 1) + 1 = i
    BY <1>1, <1>4
  <2> QED BY <1>2, <2>1
<1> QED BY <1>1, <1>2, <1>3, <1>4

(* An index of what a send leaves is one of what was there, or the last.   *)
LEMMA AppendIndex ==
  ASSUME NEW S, NEW q \in Seq(S), NEW e
  PROVE  /\ Len(q) \in Nat /\ Len(Append(q, e)) = Len(q) + 1
         /\ \A i \in 1..Len(q) : i \in 1..Len(Append(q, e)) /\ Append(q, e)[i] = q[i]
         /\ Len(q) + 1 \in 1..Len(Append(q, e)) /\ Append(q, e)[Len(q) + 1] = e
         /\ \A i \in 1..Len(Append(q, e)) : i \in 1..Len(q) \/ i = Len(q) + 1
<1> QED OBVIOUS

(* Reading takes the head and adds nothing; what is still there after a    *)
(* warning was read has no success in it.                                  *)
LEMMA TailKinds ==
  ASSUME NEW S, NEW q \in Seq(S), q # <<>>
  PROVE  /\ \A kinds : Has(Tail(q), kinds) => Has(q, kinds)
         /\ Orderly(q) => Orderly(Tail(q))
         /\ Orderly(q) /\ Head(q).type \in Closing => ~Has(Tail(q), {"register"})
         /\ Warned(q) => \/ Warned(Tail(q))
                         \/ /\ Head(q).type = "terminate"
                            /\ ~Has(Tail(q), {"success"})
         /\ \A kinds : Head(q).type \in kinds => Has(q, kinds)
<1> DEFINE n == Len(q)
           t == Tail(q)
<1>1. /\ n \in Nat \ {0} /\ Len(t) = n - 1
      /\ \A i \in 1..Len(t) : i + 1 \in 1..n /\ t[i] = q[i + 1]
      /\ \A i \in 1..n : i # 1 => i - 1 \in 1..Len(t) /\ t[i - 1] = q[i]
      /\ Head(q) = q[1] /\ 1 \in 1..n
  BY TailIndex
<1> HIDE DEF n, t
<1>2. \A kinds : Has(t, kinds) => Has(q, kinds)
  BY <1>1 DEF Has, n
<1>3. Orderly(q) => Orderly(t)
  <2> SUFFICES ASSUME Orderly(q), NEW i \in 1..Len(t), NEW j \in 1..Len(t),
                      t[i].type \in Closing, i < j
               PROVE  t[j].type # "register"
    BY DEF Orderly
  <2>1. i + 1 \in 1..n /\ j + 1 \in 1..n /\ i + 1 < j + 1
    BY <1>1
  <2>2. t[i] = q[i + 1] /\ t[j] = q[j + 1]
    BY <1>1
  <2> QED BY <2>1, <2>2 DEF Orderly, n
<1>4. Orderly(q) /\ Head(q).type \in Closing => ~Has(t, {"register"})
  <2> SUFFICES ASSUME Orderly(q), q[1].type \in Closing, NEW i \in 1..Len(t)
               PROVE  t[i].type # "register"
    BY <1>1 DEF Has
  <2>1. i + 1 \in 1..n /\ 1 < i + 1 /\ t[i] = q[i + 1]
    BY <1>1
  <2> QED BY <1>1, <2>1 DEF Orderly, n
<1>5. ASSUME Warned(q)
      PROVE  Warned(t) \/ (Head(q).type = "terminate" /\ ~Has(t, {"success"}))
  <2>1. PICK j \in 1..n : /\ q[j].type = "terminate"
                          /\ \A k \in 1..n : k > j => q[k].type # "success"
    BY <1>5 DEF Warned, n
  <2>2. CASE j = 1
    <3>1. \A k \in 1..Len(t) : k + 1 \in 1..n /\ k + 1 > 1 /\ t[k] = q[k + 1]
      BY <1>1
    <3> QED BY <1>1, <2>1, <2>2, <3>1 DEF Has
  <2>3. CASE j # 1
    <3>1. j - 1 \in 1..Len(t) /\ t[j - 1].type = "terminate"
      BY <1>1, <2>1, <2>3
    <3>2. \A k \in 1..Len(t) : k > j - 1 => k + 1 \in 1..n /\ k + 1 > j /\ t[k] = q[k + 1]
      BY <1>1
    <3> QED BY <2>1, <3>1, <3>2 DEF Warned
  <2> QED BY <2>2, <2>3
<1>6. \A kinds : Head(q).type \in kinds => Has(q, kinds)
  BY <1>1 DEF Has, n
<1> QED BY <1>2, <1>3, <1>4, <1>5, <1>6 DEF t

(* Sending adds one message behind the others.                             *)
LEMMA AppendKinds ==
  ASSUME NEW S, NEW q \in Seq(S), NEW msg
  PROVE  /\ \A kinds : Has(Append(q, msg), kinds) <=> Has(q, kinds) \/ msg.type \in kinds
         /\ Orderly(q) /\ (msg.type # "register" \/ ~Has(q, Closing))
              => Orderly(Append(q, msg))
         /\ Warned(q) /\ msg.type # "success" => Warned(Append(q, msg))
         /\ msg.type = "terminate" => Warned(Append(q, msg))
<1> DEFINE n == Len(q)
           a == Append(q, msg)
<1>1. /\ n \in Nat /\ Len(a) = n + 1
      /\ \A i \in 1..n : i \in 1..Len(a) /\ a[i] = q[i]
      /\ n + 1 \in 1..Len(a) /\ a[n + 1] = msg
      /\ \A i \in 1..Len(a) : i \in 1..n \/ i = n + 1
  BY AppendIndex
<1> HIDE DEF n, a
<1>2. ASSUME NEW kinds PROVE Has(a, kinds) <=> Has(q, kinds) \/ msg.type \in kinds
  BY <1>1 DEF Has, n
<1>3. ASSUME Orderly(q), msg.type # "register" \/ ~Has(q, Closing) PROVE Orderly(a)
  <2> SUFFICES ASSUME NEW i \in 1..Len(a), NEW j \in 1..Len(a),
                      a[i].type \in Closing, i < j
               PROVE  a[j].type # "register"
    BY DEF Orderly
  <2>1. i \in 1..n /\ a[i] = q[i]
    BY <1>1
  <2>2. CASE j \in 1..n
    BY <1>1, <1>3, <2>1, <2>2 DEF Orderly, n
  <2>3. CASE j = n + 1
    BY <1>1, <1>3, <2>1, <2>3 DEF Has, n
  <2> QED BY <1>1, <2>2, <2>3
<1>4. ASSUME Warned(q), msg.type # "success" PROVE Warned(a)
  <2>1. PICK j \in 1..n : /\ q[j].type = "terminate"
                          /\ \A k \in 1..n : k > j => q[k].type # "success"
    BY <1>4 DEF Warned, n
  <2>2. j \in 1..Len(a) /\ a[j].type = "terminate"
    BY <1>1, <2>1
  <2>3. \A k \in 1..Len(a) : k > j => a[k].type # "success"
    BY <1>1, <1>4, <2>1
  <2> QED BY <2>2, <2>3 DEF Warned
<1>5. ASSUME msg.type = "terminate" PROVE Warned(a)
  <2>1. \A k \in 1..Len(a) : ~(k > n + 1)
    BY <1>1
  <2> QED BY <1>1, <1>5, <2>1 DEF Warned
<1> QED BY <1>2, <1>3, <1>4, <1>5 DEF a

(* What a dying peer had sent is a prefix of what it would have sent.      *)
LEMMA PrefixKinds ==
  ASSUME NEW S, NEW q \in Seq(S), NEW n \in 0..Len(q)
  PROVE  /\ \A kinds : Has(SubSeq(q, 1, n), kinds) => Has(q, kinds)
         /\ Orderly(q) => Orderly(SubSeq(q, 1, n))
<1> DEFINE p == SubSeq(q, 1, n)
<1>1. Len(q) \in Nat /\ n \in Nat /\ n <= Len(q)
  OBVIOUS
<1>2. Len(p) = n /\ \A i \in 1..n : p[i] = q[i]
  <2>1. \A i \in 1..n : q[i] \in S
    BY <1>1
  <2> QED BY <1>1, <2>1, SubSeqProperties
<1>3. \A i \in 1..n : i \in 1..Len(q)
  BY <1>1
<1> HIDE DEF p
<1>4. \A kinds : Has(p, kinds) => Has(q, kinds)
  BY <1>2, <1>3 DEF Has
<1>5. Orderly(q) => Orderly(p)
  BY <1>2, <1>3 DEF Orderly
<1> QED BY <1>4, <1>5 DEF p

(* Nothing is under way in an empty channel.                               *)
LEMMA EmptyKinds == Orderly(<<>>) /\ ~Warned(<<>>) /\ \A kinds : ~Has(<<>>, kinds)
BY DEF Orderly, Warned, Has

-----------------------------------------------------------------------------
(* The repliers' last words.                                               *)

(* The replier on w holds itself for registered no more, for good.         *)
Over(w) ==
  \/ replier[w] \in {"deregistering", "stopped", "gone"}
  \/ replier[w] = "polling" /\ w \in told

ReplierOK(w) ==
  /\ w \notin connected => replier[w] = "gone"
  /\ w \in told => replier[w] \notin {"idle", "registering"}
  /\ Has(toProxy[w], Closing) => Over(w)
  /\ Orderly(toProxy[w])

RepliersOK == \A w \in Workers : ReplierOK(w)

(* Apart from its own steps a replier sees the proxy read its messages in  *)
(* the order it sent them, and nothing else happens to its end.            *)
LEMMA ReplierEnd ==
  ASSUME TypeOK, [Next]_vars, NEW w \in Workers
  PROVE  \/ ReplierStep(w)
         \/ /\ replier'[w] = replier[w]
            /\ w \in told' <=> w \in told
            /\ w \in connected' <=> w \in connected
            /\ \/ toProxy'[w] = toProxy[w]
               \/ toProxy[w] # <<>> /\ toProxy'[w] = Tail(toProxy[w])
<1> DEFINE Read == \/ toProxy'[w] = toProxy[w]
                   \/ toProxy[w] # <<>> /\ toProxy'[w] = Tail(toProxy[w])
<1>1. CASE ProxyStep
  <2>1. UNCHANGED <<replier, told>>
    BY <1>1 DEF ProxyStep, replierVars
  <2>2. ASSUME NEW x \in Workers, HandleMessagesFromBackend(x)
        PROVE  UNCHANGED connected /\ Read
    <3>1. toProxy[x] # <<>> /\ toProxy' = [toProxy EXCEPT ![x] = Tail(@)]
            /\ UNCHANGED connected
      BY <2>2 DEF HandleMessagesFromBackend
    <3> QED BY <3>1 DEF TypeOK, NetworkTypeOK
  <2>3. ASSUME Poller PROVE UNCHANGED connected /\ Read
    <3> HIDE DEF Read
    <3>1. toProxy' = toProxy => Read
      BY DEF Read
    <3>2. ASSUME NEW x \in Workers, PollerHandlesBackend(x) \/ PollerAwaits(x)
          PROVE  UNCHANGED connected /\ Read
      BY <2>2, <3>2 DEF PollerHandlesBackend, PollerAwaits
    <3>3. ASSUME NEW c \in Clients, PollerHandlesFrontend(c)
          PROVE  UNCHANGED <<connected, toProxy>>
      BY <3>3 DEF PollerHandlesFrontend
    <3>4. ASSUME \/ PollerLeavesLoop \/ PollerFrontendQuiet \/ PollerBackendQuiet
                 \/ PollerPingsDrained \/ PollerTerminatesDrained \/ PollerGivesUp
                 \/ PollerSendsPing \/ PollerSendsTerminate \/ PollerEvictsAll
          PROVE  UNCHANGED <<connected, toProxy>>
      BY <3>4 DEF PollerLeavesLoop, PollerFrontendQuiet, PollerBackendQuiet,
         PollerPingsDrained, PollerTerminatesDrained, PollerGivesUp, PollerSendsPing,
         PollerSendsTerminate, PollerEvictsAll, networkVars
    <3> QED BY <2>3, <3>1, <3>2, <3>3, <3>4 DEF Poller
  <2>4. CASE Start \/ Stop \/ Pinger
    BY <2>1, <2>4 DEF Start, Stop, Pinger, PingerWakes, PingerUpdates, PingerBeginsWalk,
       PingerVisits, PingerEndsWalk, PingerErases, PingerNaps, PingerUnchanged, networkVars
  <2> QED BY <1>1, <2>1, <2>3, <2>4 DEF ProxyStep
<1>2. ASSUME NEW x \in Workers, ReplierStep(x), x # w
      PROVE  /\ replier'[w] = replier[w]
             /\ w \in told' <=> w \in told
             /\ w \in connected' <=> w \in connected
             /\ toProxy'[w] = toProxy[w]
  BY <1>2 DEF ReplierStep, Replier, ReplierRuns, ReplierRegisters, ReplierReadsRegistration,
     ReplierGivesUp, ReplierPolls, ReplierAnswersPing, ReplierIsTold,
     ReplierAnswersRequest, ReplierSkips, ReplierStops, ReplierReadsDeregistration,
     ReplierStopsWaiting, ReplierLeaves, Moves, SentToProxy, networkVars,
     TypeOK, NetworkTypeOK, ReplierTypeOK
<1>3. ASSUME NEW c \in Clients, RequestorStep(c)
      PROVE  UNCHANGED <<replier, told, connected, toProxy>>
  BY <1>3 DEF RequestorStep, Requestor, RequestorAsks, RequestorIsAnswered,
     RequestorTimesOut, RequestorLeaves, replierVars, backendVars, networkVars
<1>4. CASE Tick \/ UNCHANGED vars
  BY <1>4 DEF Tick, vars, replierVars, networkVars
<1> QED BY <1>1, <1>2, <1>3, <1>4 DEF Next

(* A replier that deregisters or answers a terminate request sends no      *)
(* registration behind it and serves no more.                              *)
LEMMA ReplierStepOK ==
  ASSUME TypeOK, NEW w \in Workers, ReplierOK(w), ReplierStep(w)
  PROVE  ReplierOK(w)'
<1> DEFINE q == toProxy[w]
<1>1. q \in Seq(MessagesToProxy) /\ replier[w] \in ReplierPlaces
  BY DEF TypeOK, NetworkTypeOK, ReplierTypeOK
<1>2. \A kind : LET a == Append(q, Message(kind))
               IN /\ \A kinds : Has(a, kinds) <=> Has(q, kinds) \/ kind \in kinds
                  /\ Orderly(q) /\ (kind # "register" \/ ~Has(q, Closing)) => Orderly(a)
  BY <1>1, AppendKinds DEF Message
<1>3. \A kind : SentToProxy(w, Message(kind))[w] = Append(q, Message(kind))
  BY DEF SentToProxy, TypeOK, NetworkTypeOK
<1> HIDE DEF q
<1>4. CASE ReplierRegisters(w)
  <2>1. ~Has(q, Closing)
    BY <1>4 DEF ReplierRegisters, Moves, ReplierOK, Over, q
  <2>2. /\ toProxy'[w] = Append(q, Message("register"))
        /\ UNCHANGED <<told, connected>>
        /\ replier[w] = "idle" /\ replier'[w] = "registering"
    BY <1>1, <1>3, <1>4 DEF ReplierRegisters, Moves, TypeOK, ReplierTypeOK
  <2>3. Orderly(toProxy[w])' /\ ~Has(toProxy[w], Closing)'
    BY <1>2, <2>1, <2>2 DEF ReplierOK, q, Closing
  <2> QED BY <2>2, <2>3 DEF ReplierOK
<1>5. CASE \/ ReplierReadsRegistration(w) \/ ReplierGivesUp(w)
           \/ ReplierReadsDeregistration(w) \/ ReplierStopsWaiting(w)
  <2>1. UNCHANGED <<told, connected, toProxy>>
    BY <1>5 DEF ReplierReadsRegistration, ReplierGivesUp, ReplierReadsDeregistration,
       ReplierStopsWaiting, networkVars
  <2>2. \/ /\ replier[w] = "registering" /\ replier'[w] \in {"idle", "polling"}
        \/ /\ replier[w] = "deregistering" /\ replier'[w] \in {"stopped", "deregistering"}
    BY <1>5 DEF ReplierReadsRegistration, ReplierGivesUp, ReplierReadsDeregistration,
       ReplierStopsWaiting, Moves, TypeOK, ReplierTypeOK
  <2> QED BY <2>1, <2>2 DEF ReplierOK, Over
<1>6. CASE ReplierPolls(w)
  <2>1. UNCHANGED <<replier, connected>> /\ replier[w] = "polling"
    BY <1>6 DEF ReplierPolls
  <2>2. CASE ReplierAnswersPing(w)
    <3>1. toProxy'[w] = Append(q, Message("pingResponse")) /\ UNCHANGED told
      BY <1>3, <2>2 DEF ReplierAnswersPing
    <3>2. Orderly(toProxy[w])' /\ (Has(toProxy[w], Closing)' => Has(q, Closing))
      BY <1>2, <3>1 DEF ReplierOK, q, Closing
    <3> QED BY <2>1, <3>1, <3>2 DEF ReplierOK, Over, q
  <2>3. CASE ReplierIsTold(w)
    <3>1. toProxy'[w] = Append(q, Message("terminateResponse")) /\ told' = told \cup {w}
      BY <1>3, <2>3 DEF ReplierIsTold
    <3>2. Orderly(toProxy[w])'
      BY <1>2, <3>1 DEF ReplierOK, q
    <3> QED BY <2>1, <3>1, <3>2 DEF ReplierOK, Over
  <2>4. CASE ReplierAnswersRequest(w)
    <3> DEFINE reply == RoutedMessage("reply", Head(toWorker[w]).client, Details[w])
    <3>1. toProxy'[w] = Append(q, reply) /\ UNCHANGED told
      BY <2>4 DEF ReplierAnswersRequest, SentToProxy, TypeOK, NetworkTypeOK, q
    <3>2. reply.type = "reply"
      BY DEF RoutedMessage
    <3> HIDE DEF reply
    <3>3. Orderly(toProxy[w])' /\ (Has(toProxy[w], Closing)' => Has(q, Closing))
      BY <1>1, <3>1, <3>2, AppendKinds DEF ReplierOK, q, Closing
    <3> QED BY <2>1, <3>1, <3>3 DEF ReplierOK, Over, q
  <2>5. CASE ReplierSkips(w)
    BY <2>1, <2>5 DEF ReplierSkips, ReplierOK, Over
  <2> QED BY <1>6, <2>2, <2>3, <2>4, <2>5 DEF ReplierPolls
<1>7. CASE ReplierStops(w)
  <2>1. /\ toProxy'[w] = Append(q, Message("deregister"))
        /\ UNCHANGED <<told, connected>>
        /\ replier[w] = "polling" /\ replier'[w] = "deregistering"
    BY <1>1, <1>3, <1>7 DEF ReplierStops, Moves, TypeOK, ReplierTypeOK
  <2>2. Orderly(toProxy[w])'
    BY <1>2, <2>1 DEF ReplierOK, q
  <2> QED BY <2>1, <2>2 DEF ReplierOK, Over
<1>8. CASE ReplierLeaves(w)
  <2>1. replier'[w] = "gone" /\ UNCHANGED told
    BY <1>8 DEF ReplierLeaves, TypeOK, ReplierTypeOK
  <2>2. PICK n \in 0..Len(toProxy[w]) : toProxy' = [toProxy EXCEPT ![w] = SubSeq(@, 1, n)]
    BY <1>8 DEF ReplierLeaves
  <2>3. toProxy'[w] = SubSeq(q, 1, n) /\ n \in 0..Len(q)
    BY <2>2 DEF TypeOK, NetworkTypeOK, q
  <2>4. Orderly(toProxy[w])'
    BY <1>1, <2>3, PrefixKinds DEF ReplierOK, q
  <2> QED BY <2>1, <2>4 DEF ReplierOK, Over
<1> QED BY <1>4, <1>5, <1>6, <1>7, <1>8 DEF ReplierStep, Replier, ReplierRuns

(* What a replier's last words say of it is always true: while one of them *)
(* is under way, the replier serves no more and registers no more, and no  *)
(* registration is behind it in the channel.                               *)
THEOREM LastWordsInvariant == Spec => []RepliersOK
<1>1. Init => RepliersOK
  BY EmptyKinds DEF Init, NetworkInit, ReplierInit, RepliersOK, ReplierOK
<1>2. TypeOK /\ RepliersOK /\ [Next]_vars => RepliersOK'
  <2> SUFFICES ASSUME TypeOK, RepliersOK, [Next]_vars, NEW w \in Workers
               PROVE  ReplierOK(w)'
    BY DEF RepliersOK
  <2>1. ReplierOK(w)
    BY DEF RepliersOK
  <2>2. CASE ReplierStep(w)
    BY <2>1, <2>2, ReplierStepOK
  <2>3. CASE /\ replier'[w] = replier[w]
             /\ w \in told' <=> w \in told
             /\ w \in connected' <=> w \in connected
             /\ \/ toProxy'[w] = toProxy[w]
                \/ toProxy[w] # <<>> /\ toProxy'[w] = Tail(toProxy[w])
    <3>1. toProxy[w] \in Seq(MessagesToProxy)
      BY DEF TypeOK, NetworkTypeOK
    <3>2. /\ Has(toProxy[w], Closing)' => Has(toProxy[w], Closing)
          /\ Orderly(toProxy[w])'
      BY <2>1, <2>3, <3>1, TailKinds DEF ReplierOK
    <3> QED BY <2>1, <2>3, <3>2 DEF ReplierOK, Over
  <2> QED BY <2>2, <2>3, ReplierEnd
<1> QED BY <1>1, <1>2, TypeInvariant, PTL DEF Spec

-----------------------------------------------------------------------------
(* The addresses the pinger collected.                                     *)

(* The replier on w registers no more, and no registration is under way.   *)
NeverAgain(w) ==
  replier[w] \notin {"idle", "registering"} /\ ~Has(toProxy[w], {"register"})

(* What the pinger evicts is the overdue entry it saw, or was erased for   *)
(* good by the poller meanwhile.                                           *)
Doomed(w) == IF w \in DOMAIN modules THEN Expired(modules[w]) ELSE NeverAgain(w)

Elements(q) == {q[i] : i \in 1..Len(q)}

Distinct(q) == \A i, j \in 1..Len(q) : q[i] = q[j] => i = j

KillOK ==
  /\ pinger \notin {"walk", "kill"} => killQueue = <<>>
  /\ \A w \in Elements(killQueue) : Doomed(w)
  /\ Distinct(killQueue)
  /\ toVisit \cap Elements(killQueue) = {}

(* The entry of an address is about the module its connection stands for.  *)
Faithful == \A w \in DOMAIN modules : modules[w].details = Details[w]

(* Taking the head of a queue leaves the others, without it if nothing is  *)
(* queued twice.                                                           *)
LEMMA TailElements ==
  ASSUME NEW S, NEW q \in Seq(S), q # <<>>
  PROVE  /\ Elements(q) = Elements(Tail(q)) \cup {Head(q)}
         /\ Distinct(q) => Head(q) \notin Elements(Tail(q)) /\ Distinct(Tail(q))
<1> DEFINE n == Len(q)
           t == Tail(q)
<1>1. /\ n \in Nat \ {0} /\ Len(t) = n - 1
      /\ \A i \in 1..Len(t) : i + 1 \in 1..n /\ t[i] = q[i + 1]
      /\ \A i \in 1..n : i # 1 => i - 1 \in 1..Len(t) /\ t[i - 1] = q[i]
      /\ Head(q) = q[1] /\ 1 \in 1..n
  BY TailIndex
<1>2. Distinct(q) => \A i, j \in 1..n : q[i] = q[j] => i = j
  BY DEF Distinct
<1>3. Elements(q) = {q[i] : i \in 1..n} /\ Elements(t) = {t[i] : i \in 1..Len(t)}
  BY DEF Elements
<1> HIDE DEF n, t
<1>4. Elements(q) = Elements(t) \cup {Head(q)}
  <2>1. ASSUME NEW i \in 1..n PROVE q[i] \in Elements(t) \cup {Head(q)}
    BY <1>1, <1>3
  <2>2. ASSUME NEW i \in 1..Len(t) PROVE t[i] \in Elements(q)
    BY <1>1, <1>3
  <2>3. Head(q) \in Elements(q)
    BY <1>1, <1>3
  <2>4. Elements(q) \subseteq Elements(t) \cup {Head(q)}
    BY <1>3, <2>1
  <2>5. Elements(t) \subseteq Elements(q)
    BY <1>3, <2>2
  <2> QED BY <2>3, <2>4, <2>5
<1>5. ASSUME Distinct(q), NEW i \in 1..Len(t) PROVE t[i] # Head(q)
  <2>1. i + 1 \in 1..n /\ i + 1 # 1 /\ t[i] = q[i + 1]
    BY <1>1
  <2> QED BY <1>1, <1>2, <1>5, <2>1
<1>6. ASSUME Distinct(q), NEW i \in 1..Len(t), NEW j \in 1..Len(t), t[i] = t[j] PROVE i = j
  <2>1. i + 1 = j + 1
    BY <1>1, <1>2, <1>6
  <2> QED BY <2>1
<1>7. Distinct(q) => Head(q) \notin Elements(t)
  BY <1>3, <1>5
<1>8. Distinct(q) => Distinct(t)
  BY <1>6 DEF Distinct
<1> QED BY <1>4, <1>7, <1>8 DEF t

(* Queueing a new element keeps a queue without repetitions.               *)
LEMMA AppendElements ==
  ASSUME NEW S, NEW q \in Seq(S), NEW e
  PROVE  /\ Elements(Append(q, e)) = Elements(q) \cup {e}
         /\ Distinct(q) /\ e \notin Elements(q) => Distinct(Append(q, e))
<1> DEFINE n == Len(q)
           a == Append(q, e)
<1>1. /\ n \in Nat /\ Len(a) = n + 1
      /\ \A i \in 1..n : i \in 1..Len(a) /\ a[i] = q[i]
      /\ n + 1 \in 1..Len(a) /\ a[n + 1] = e
      /\ \A i \in 1..Len(a) : i \in 1..n \/ i = n + 1
  BY AppendIndex
<1>2. Elements(q) = {q[i] : i \in 1..n} /\ Elements(a) = {a[i] : i \in 1..Len(a)}
  BY DEF Elements
<1>3. Distinct(q) => \A i, j \in 1..n : q[i] = q[j] => i = j
  BY DEF Distinct
<1> HIDE DEF n, a
<1>4. Elements(a) = Elements(q) \cup {e}
  <2>1. ASSUME NEW i \in 1..Len(a) PROVE a[i] \in Elements(q) \cup {e}
    BY <1>1, <1>2
  <2>2. ASSUME NEW i \in 1..n PROVE q[i] \in Elements(a)
    BY <1>1, <1>2
  <2>3. e \in Elements(a)
    BY <1>1, <1>2
  <2>4. Elements(a) \subseteq Elements(q) \cup {e}
    BY <1>2, <2>1
  <2>5. Elements(q) \subseteq Elements(a)
    BY <1>2, <2>2
  <2> QED BY <2>3, <2>4, <2>5
<1>5. ASSUME Distinct(q), e \notin Elements(q),
             NEW i \in 1..Len(a), NEW j \in 1..Len(a), a[i] = a[j]
      PROVE  i = j
  <2>1. \A k \in 1..n : q[k] # e
    BY <1>2, <1>5
  <2> QED BY <1>1, <1>3, <1>5, <2>1
<1>6. Distinct(q) /\ e \notin Elements(q) => Distinct(a)
  BY <1>5 DEF Distinct
<1> QED BY <1>4, <1>6 DEF a

(* An entry is about the module of its connection from its insertion on.   *)
THEOREM FaithfulInvariant == Spec => []Faithful
<1>1. Init => Faithful
  BY DEF Init, ProxyInit, Faithful
<1>2. TypeOK /\ Faithful /\ [Next]_vars => Faithful'
  <2> SUFFICES ASSUME TypeOK, Faithful, [Next]_vars PROVE Faithful'
    OBVIOUS
  <2>1. MapOK(modules)
    BY DEF TypeOK, ProxyTypeOK, MapOK
  <2>2. CASE modules' = modules
    BY <2>2 DEF Faithful
  <2>3. CASE modules' = GrowOlder(modules)
    BY <2>1, <2>3, OlderProperties DEF Faithful
  <2>4. ASSUME NEW w \in Workers, Registers(w) PROVE Faithful'
    BY <2>4 DEF Registers, Insert, NewEntry, Faithful
  <2>5. ASSUME NEW w \in Workers, Pings(w) PROVE Faithful'
    BY <2>1, <2>5, MarkProperties, NextRungProperties DEF Pings, Faithful
  <2>6. ASSUME NEW w \in Workers, modules' = Erase(modules, w) PROVE Faithful'
    BY <2>6 DEF Erase, Faithful
  <2>7. ASSUME NEW w \in Workers, modules' = UpdateLastResponseToNow(modules, w)
        PROVE  Faithful'
    BY <2>1, <2>7, UpdateProperties DEF Faithful
  <2> QED BY <2>2, <2>3, <2>4, <2>5, <2>6, <2>7, MapChanges
<1> QED BY <1>1, <1>2, TypeInvariant, PTL DEF Spec

(* A replier that registers no more never does.                            *)
LEMMA NeverAgainStays ==
  ASSUME TypeOK, [Next]_vars, NEW w \in Workers, NeverAgain(w)
  PROVE  NeverAgain(w)'
<1>1. toProxy[w] \in Seq(MessagesToProxy) /\ replier[w] \in ReplierPlaces
  BY DEF TypeOK, NetworkTypeOK, ReplierTypeOK
<1>2. CASE ReplierStep(w)
  <2>1. replier'[w] \notin {"idle", "registering"}
    BY <1>2 DEF ReplierStep, Replier, ReplierRuns, ReplierRegisters, ReplierReadsRegistration,
       ReplierGivesUp, ReplierPolls, ReplierStops, ReplierReadsDeregistration,
       ReplierStopsWaiting, ReplierLeaves, Moves, NeverAgain, TypeOK, ReplierTypeOK
  <2>2. \/ toProxy'[w] = toProxy[w]
        \/ \E msg : msg.type # "register" /\ toProxy'[w] = Append(toProxy[w], msg)
        \/ \E n \in 0..Len(toProxy[w]) : toProxy'[w] = SubSeq(toProxy[w], 1, n)
    BY <1>2 DEF ReplierStep, Replier, ReplierRuns, ReplierRegisters, ReplierReadsRegistration,
       ReplierGivesUp, ReplierPolls, ReplierAnswersPing, ReplierIsTold,
       ReplierAnswersRequest, ReplierSkips, ReplierStops, ReplierReadsDeregistration,
       ReplierStopsWaiting, ReplierLeaves, Moves, SentToProxy, networkVars, Message,
       RoutedMessage, NeverAgain, TypeOK, NetworkTypeOK
  <2>3. ~Has(toProxy[w], {"register"})'
    BY <1>1, <2>2, AppendKinds, PrefixKinds DEF NeverAgain
  <2> QED BY <2>1, <2>3 DEF NeverAgain
<1>3. CASE ~ReplierStep(w)
  BY <1>1, <1>3, ReplierEnd, TailKinds DEF NeverAgain
<1> QED BY <1>2, <1>3

(* An eviction that the poller overtakes: it erases an address after its   *)
(* last words only, and registers no address that is to be erased.         *)
LEMMA PollerKeepsKillOK ==
  ASSUME TypeOK, [Next]_vars, RepliersOK, Faithful, KillOK,
         NEW x \in Workers, HandleMessagesFromBackend(x), UNCHANGED replierVars
  PROVE  KillOK'
<1> DEFINE E == Elements(killQueue)
<1>1. UNCHANGED <<pinger, killQueue>> /\ toProxy[x] # <<>>
        /\ toProxy' = [toProxy EXCEPT ![x] = Tail(@)]
  BY DEF HandleMessagesFromBackend
<1>2. toProxy[x] \in Seq(MessagesToProxy) /\ E \subseteq Workers
        /\ toProxy'[x] = Tail(toProxy[x])
  BY <1>1 DEF TypeOK, ProxyTypeOK, NetworkTypeOK, Elements
<1>3. \A w \in E : NeverAgain(w) => NeverAgain(w)'
  BY <1>2, NeverAgainStays
<1>4. \A kinds : Head(toProxy[x]).type \in kinds => Has(toProxy[x], kinds)
  BY <1>1, <1>2, TailKinds
<1>5. KillOK /\ E = Elements(killQueue)'
  BY <1>1
<1> SUFFICES toVisit' \cap E = {} /\ \A w \in E : Doomed(w)'
  BY <1>1, <1>5 DEF KillOK
<1> HIDE DEF E
<1>6. toVisit \cap E = {} /\ \A w \in E : Doomed(w)
  BY <1>5 DEF KillOK, E
<1>7. CASE UNCHANGED <<modules, toVisit>>
  BY <1>3, <1>6, <1>7 DEF Doomed
<1>8. CASE HandleRegister(x) /\ ~ContainsDetails(modules, Details[x])
  <2>1. /\ modules' = Insert(modules, x, Details[x])
        /\ toVisit' \subseteq toVisit \cup {x}
        /\ Head(toProxy[x]).type = "register"
    BY <1>8 DEF HandleRegister, WalkDisturbed
  <2>2. x \notin DOMAIN modules
    BY <1>8 DEF Faithful, ContainsDetails
  <2>3. x \notin E
    BY <1>4, <1>6, <2>1, <2>2 DEF Doomed, NeverAgain
  <2>4. \A w \in E : /\ w \in DOMAIN modules' <=> w \in DOMAIN modules
                     /\ w \in DOMAIN modules => modules'[w] = modules[w]
    BY <2>1, <2>3 DEF Insert
  <2> QED BY <1>3, <1>6, <2>1, <2>3, <2>4 DEF Doomed
<1>9. CASE (HandleDeregister(x) \/ HandleTerminateResponse(x)) /\ x \in DOMAIN modules
  <2>1. /\ modules' = Erase(modules, x)
        /\ toVisit' \subseteq toVisit
        /\ Head(toProxy[x]).type \in Closing
    BY <1>9 DEF HandleDeregister, HandleTerminateResponse, PollerErases, ContainsAddress,
       WalkDisturbed, Closing
  <2>2. NeverAgain(x)'
    <3>1. Orderly(toProxy[x]) /\ Over(x)
      BY <1>4, <2>1 DEF RepliersOK, ReplierOK
    <3>2. ~Has(Tail(toProxy[x]), {"register"})
      BY <1>1, <1>2, <2>1, <3>1, TailKinds
    <3>3. replier' = replier
      BY DEF replierVars
    <3> QED BY <1>2, <3>1, <3>2, <3>3 DEF NeverAgain, Over
  <2>3. \A w \in E \ {x} : /\ w \in DOMAIN modules' <=> w \in DOMAIN modules
                           /\ w \in DOMAIN modules => modules'[w] = modules[w]
    BY <2>1 DEF Erase
  <2>4. x \notin DOMAIN modules'
    BY <2>1 DEF Erase
  <2> QED BY <1>3, <1>6, <2>1, <2>2, <2>3, <2>4 DEF Doomed
<1>10. \/ UNCHANGED <<modules, toVisit>>
       \/ HandleRegister(x) /\ ~ContainsDetails(modules, Details[x])
       \/ (HandleDeregister(x) \/ HandleTerminateResponse(x)) /\ x \in DOMAIN modules
  BY DEF HandleMessagesFromBackend, HandleRegister, HandleDeregister, HandlePingResponse,
     HandleTerminateResponse, PropagateToFrontend, PollerErases, ContainsAddress
<1> QED BY <1>7, <1>8, <1>9, <1>10

(* The pinger condemns what it visits, once: what it visits is in its walk *)
(* no more, and what it erases was condemned once.                         *)
LEMMA PingerKeepsKillOK ==
  ASSUME TypeOK, [Next]_vars, KillOK, Pinger
  PROVE  KillOK'
<1> DEFINE E == Elements(killQueue)
<1>1. killQueue \in Seq(Workers) /\ toVisit \subseteq Workers /\ MapOK(modules)
  BY DEF TypeOK, ProxyTypeOK, MapOK
<1>2. E \subseteq Workers
  BY <1>1 DEF Elements
<1>3. \A w \in E : NeverAgain(w) => NeverAgain(w)'
  BY <1>2, NeverAgainStays
<1>4. killQueue' = <<>> => KillOK'
  BY DEF KillOK, Elements, Distinct
<1>5. CASE PingerWakes \/ PingerBeginsWalk \/ PingerNaps \/ \E w \in Workers : PingerUpdates(w)
  <2>1. killQueue = <<>> /\ UNCHANGED killQueue
    BY <1>5 DEF PingerWakes, PingerBeginsWalk, PingerNaps, PingerUpdates, pingerVars, KillOK
  <2> QED BY <1>4, <2>1
<1>6. CASE PingerEndsWalk
  <2>1. UNCHANGED <<modules, toVisit, killQueue>> /\ pinger' = "kill"
    BY <1>6 DEF PingerEndsWalk
  <2> QED BY <1>3, <2>1 DEF KillOK, Doomed
<1>7. ASSUME NEW x \in Workers, PingerVisits(x) PROVE KillOK'
  <2>1. x \in toVisit /\ x \in DOMAIN modules /\ x \notin E /\ toVisit' = toVisit \ {x}
          /\ UNCHANGED pinger /\ pinger = "walk"
    BY <1>7 DEF PingerVisits, KillOK
  <2>2. \A w \in E : modules' = modules => Doomed(w)'
    BY <1>3 DEF Doomed, KillOK
  <2>3. CASE PingerExpires(x)
    <3>1. /\ killQueue' = Append(killQueue, x)
          /\ modules' = modules /\ Expired(modules[x])
      BY <2>3 DEF PingerExpires
    <3>2. Elements(killQueue)' = E \cup {x} /\ Distinct(killQueue)'
      BY <1>1, <2>1, <3>1, AppendElements DEF KillOK
    <3>3. \A w \in Elements(killQueue)' : Doomed(w)'
      BY <2>1, <2>2, <3>1, <3>2 DEF Doomed
    <3> QED BY <2>1, <3>2, <3>3 DEF KillOK
  <2>4. CASE PingerPings(x)
    <3>1. killQueue' = killQueue
      BY <2>4 DEF PingerPings
    <3>2. /\ DOMAIN modules' = DOMAIN modules
          /\ \A w \in DOMAIN modules \ {x} : modules'[w] = modules[w]
      BY <1>1, <2>4, MarkProperties, NextRungProperties DEF PingerPings
    <3>3. \A w \in E : Doomed(w)'
      BY <1>3, <2>1, <3>2 DEF Doomed, KillOK
    <3> QED BY <2>1, <3>1, <3>3 DEF KillOK
  <2> QED BY <1>7, <2>3, <2>4 DEF PingerVisits
<1>8. CASE PingerErases
  <2> DEFINE x == Head(killQueue)
  <2>1. /\ pinger = "kill" /\ killQueue # <<>>
        /\ modules' = Erase(modules, x)
        /\ killQueue' = Tail(killQueue)
        /\ UNCHANGED <<pinger, toVisit>>
    BY <1>8 DEF PingerErases
  <2>2. /\ E = Elements(killQueue)' \cup {x}
        /\ x \notin Elements(killQueue)'
        /\ Distinct(killQueue)'
    BY <1>1, <2>1, TailElements DEF KillOK
  <2> HIDE DEF x
  <2>3. \A w \in Elements(killQueue)' :
          /\ w \in DOMAIN modules' <=> w \in DOMAIN modules
          /\ w \in DOMAIN modules => modules'[w] = modules[w]
    BY <2>1, <2>2 DEF Erase
  <2>4. \A w \in Elements(killQueue)' : Doomed(w)'
    BY <1>3, <2>2, <2>3 DEF Doomed, KillOK
  <2> QED BY <2>1, <2>2, <2>4 DEF KillOK
<1> QED BY <1>5, <1>6, <1>7, <1>8 DEF Pinger

(* Nobody else touches what the pinger collected.                          *)
LEMMA OthersKeepKillOK ==
  ASSUME TypeOK, [Next]_vars, KillOK,
         UNCHANGED <<pinger, toVisit, killQueue, modules>>
  PROVE  KillOK'
<1>1. Elements(killQueue) \subseteq Workers
  BY DEF TypeOK, ProxyTypeOK, Elements
<1>2. \A w \in Elements(killQueue) : NeverAgain(w) => NeverAgain(w)'
  BY <1>1, NeverAgainStays
<1> QED BY <1>2 DEF KillOK, Doomed

(* What the pinger collected never goes stale.                             *)
THEOREM KillInvariant == Spec => []KillOK
<1>1. Init => KillOK
  BY DEF Init, ProxyInit, KillOK, Elements, Distinct
<1>2. TypeOK /\ RepliersOK /\ Faithful /\ KillOK /\ [Next]_vars => KillOK'
  <2> SUFFICES ASSUME TypeOK, RepliersOK, Faithful, KillOK, [Next]_vars PROVE KillOK'
    OBVIOUS
  <2>1. CASE ProxyStep
    <3>1. UNCHANGED replierVars
      BY <2>1 DEF ProxyStep
    <3>2. CASE Start
      BY <3>2 DEF Start, KillOK, Elements, Distinct
    <3>3. CASE Stop
      BY <3>3, OthersKeepKillOK DEF Stop, pingerVars
    <3>4. ASSUME NEW x \in Workers, PollerHandlesBackend(x) \/ PollerAwaits(x) PROVE KillOK'
      BY <3>1, <3>4, PollerKeepsKillOK DEF PollerHandlesBackend, PollerAwaits
    <3>5. ASSUME NEW c \in Clients, PollerHandlesFrontend(c) PROVE KillOK'
      BY <3>5, OthersKeepKillOK DEF PollerHandlesFrontend, pingerVars
    <3>6. ASSUME \/ PollerLeavesLoop \/ PollerFrontendQuiet \/ PollerBackendQuiet
                 \/ PollerPingsDrained \/ PollerTerminatesDrained \/ PollerGivesUp
                 \/ PollerSendsPing \/ PollerSendsTerminate \/ PollerEvictsAll
          PROVE  KillOK'
      <4>1. UNCHANGED <<pinger, toVisit, killQueue, modules>>
        BY <3>6 DEF PollerLeavesLoop, PollerFrontendQuiet, PollerBackendQuiet,
           PollerPingsDrained, PollerTerminatesDrained, PollerGivesUp, PollerSendsPing,
           PollerSendsTerminate, PollerEvictsAll, pingerVars
      <4> QED BY <4>1, OthersKeepKillOK
    <3>7. CASE Poller
      BY <3>4, <3>5, <3>6, <3>7 DEF Poller
    <3> QED BY <2>1, <3>2, <3>3, <3>7, PingerKeepsKillOK DEF ProxyStep
  <2>2. CASE Tick
    <3>1. killQueue = <<>> /\ killQueue' = <<>>
      BY <2>2 DEF Tick, pingerVars, KillOK
    <3> QED BY <3>1 DEF KillOK, Elements, Distinct
  <2>3. CASE UNCHANGED vars \/ (\E w \in Workers : ReplierStep(w))
                            \/ (\E c \in Clients : RequestorStep(c))
    BY <2>3, OthersKeepKillOK DEF vars, ReplierStep, RequestorStep, proxyVars, pingerVars
  <2> QED BY <2>1, <2>2, <2>3 DEF Next
<1> QED BY <1>1, <1>2, TypeInvariant, LastWordsInvariant, FaithfulInvariant, PTL DEF Spec

(* Whatever the poller erases and registers while the pinger walks the map *)
(* and until it erases what it collected, it erases overdue entries only.  *)
THEOREM KillsOnlyOverdueInvariant == Spec => []KillsOnlyOverdue
<1>1. KillOK => KillsOnlyOverdue
  BY DEF KillOK, KillsOnlyOverdue, Doomed, Elements
<1> QED BY <1>1, KillInvariant, PTL

-----------------------------------------------------------------------------
(* The terminate request of a dropped module.                              *)

(* The replier on w serves, or a grant that it may yet read is under way.  *)
MayServe(w) ==
  \/ w \in Serving
  \/ replier[w] \in {"idle", "registering"} /\ Has(toWorker[w], {"success"})

Aware(w) == Warned(toWorker[w]) \/ w \in Elements(terminateRequests)

(* The replier on w was dropped, or is about to be.                        *)
Dropped(w) == w \notin DOMAIN modules \/ w \in Elements(killQueue)

AwareOK == \A w \in Workers : MayServe(w) /\ Dropped(w) => Aware(w)

(* A replier that reads on towards serving, or serves on, does not lose    *)
(* the terminate request: it reads it, and is told, or takes it for a      *)
(* refusal behind which no grant is left.                                  *)
LEMMA ReplierStepAware ==
  ASSUME TypeOK, NEW w \in Workers, ReplierStep(w), MayServe(w)'
  PROVE  MayServe(w) /\ (Warned(toWorker[w]) => Warned(toWorker[w])')
<1> DEFINE q == toWorker[w]
<1>1. q \in Seq(MessagesToWorker) /\ replier[w] \in ReplierPlaces
  BY DEF TypeOK, NetworkTypeOK, ReplierTypeOK
<1>2. q # <<>> => /\ Has(Tail(q), {"success"}) => Has(q, {"success"})
                  /\ Warned(q) => \/ Warned(Tail(q))
                                  \/ /\ Head(q).type = "terminate"
                                     /\ ~Has(Tail(q), {"success"})
                  /\ Head(q).type = "success" => Has(q, {"success"})
  BY <1>1, TailKinds
<1>3. ASSUME Takes(w) PROVE q # <<>> /\ toWorker'[w] = Tail(q)
  BY <1>3 DEF Takes, TypeOK, NetworkTypeOK
<1>4. MayServe(w)' => replier'[w] \in {"idle", "registering", "polling"}
  BY DEF MayServe, Serving
<1>5. MayServe(w) <=> \/ replier[w] = "polling" /\ w \notin told
                      \/ replier[w] \in {"idle", "registering"} /\ Has(q, {"success"})
  BY DEF MayServe, Serving
<1>6. MayServe(w)' <=> \/ replier'[w] = "polling" /\ w \notin told'
                       \/ /\ replier'[w] \in {"idle", "registering"}
                          /\ Has(toWorker'[w], {"success"})
  BY DEF MayServe, Serving
<1> HIDE DEF q
<1>7. CASE ReplierRegisters(w) \/ ReplierGivesUp(w)
  <2>1. /\ UNCHANGED <<told, toWorker>>
        /\ replier[w] \in {"idle", "registering"} /\ replier'[w] \in {"idle", "registering"}
    BY <1>7 DEF ReplierRegisters, ReplierGivesUp, Moves, networkVars, TypeOK, ReplierTypeOK
  <2> QED BY <1>5, <1>6, <2>1 DEF q
<1>8. CASE ReplierReadsRegistration(w)
  <2>1. /\ Takes(w) /\ UNCHANGED told
        /\ replier[w] = "registering"
        /\ IF Head(q).type = "success" THEN replier'[w] = "polling" ELSE replier'[w] = "idle"
    BY <1>8 DEF ReplierReadsRegistration, Moves, TypeOK, ReplierTypeOK, q
  <2> QED BY <1>2, <1>3, <1>5, <1>6, <2>1 DEF q
<1>9. CASE ReplierPolls(w)
  <2>1. /\ Takes(w) /\ UNCHANGED replier /\ replier[w] = "polling"
        /\ told \subseteq told'
        /\ Head(q).type = "terminate" => w \in told'
    BY <1>9 DEF ReplierPolls, ReplierAnswersPing, ReplierIsTold, ReplierAnswersRequest,
       ReplierSkips, q
  <2> QED BY <1>2, <1>3, <1>5, <1>6, <2>1 DEF q
<1>10. CASE \/ ReplierStops(w) \/ ReplierReadsDeregistration(w)
            \/ ReplierStopsWaiting(w) \/ ReplierLeaves(w)
  <2>1. replier'[w] \in {"deregistering", "stopped", "gone"}
    BY <1>10 DEF ReplierStops, ReplierReadsDeregistration, ReplierStopsWaiting,
       ReplierLeaves, Moves, TypeOK, ReplierTypeOK
  <2> QED BY <1>4, <2>1
<1> QED BY <1>7, <1>8, <1>9, <1>10 DEF ReplierStep, Replier, ReplierRuns

(* Only a success can take the place of a warning, or make a grant.        *)
LEMMA SentWarned ==
  ASSUME TypeOK, NEW w \in Workers, NEW x, NEW msg
  PROVE  LET new == SentToWorker(x, msg)[w]
         IN /\ msg.type # "success" =>
                 /\ Warned(toWorker[w]) => Warned(new)
                 /\ Has(new, {"success"}) => Has(toWorker[w], {"success"})
            /\ x # w => new = toWorker[w]
            /\ x = w /\ w \in connected /\ msg.type = "terminate" => Warned(new)
<1> DEFINE q == toWorker[w]
           new == SentToWorker(x, msg)[w]
<1>1. q \in Seq(MessagesToWorker)
  BY DEF TypeOK, NetworkTypeOK
<1>2. new = IF x = w /\ w \in connected THEN Append(q, msg) ELSE q
  BY DEF SentToWorker, TypeOK, NetworkTypeOK
<1> HIDE DEF q, new
<1>3. /\ Has(Append(q, msg), {"success"}) <=> Has(q, {"success"}) \/ msg.type = "success"
      /\ Warned(q) /\ msg.type # "success" => Warned(Append(q, msg))
      /\ msg.type = "terminate" => Warned(Append(q, msg))
  BY <1>1, AppendKinds
<1>4. /\ msg.type # "success" => /\ Warned(q) => Warned(new)
                                 /\ Has(new, {"success"}) => Has(q, {"success"})
      /\ x # w => new = q
      /\ x = w /\ w \in connected /\ msg.type = "terminate" => Warned(new)
  BY <1>2, <1>3
<1> QED BY <1>4 DEF q, new

(* The proxy keeps replier w aware if it makes no new grant to it, does    *)
(* not drop it, and does not lose the terminate request.                   *)
LEMMA KeepsAware ==
  ASSUME NEW w \in Workers, MayServe(w) /\ Dropped(w) => Aware(w),
         UNCHANGED <<replier, told>>,
         Has(toWorker[w], {"success"})' => Has(toWorker[w], {"success"}),
         MayServe(w) /\ Dropped(w)' => Dropped(w) \/ Aware(w)',
         MayServe(w) /\ Aware(w) => Aware(w)'
  PROVE  MayServe(w)' /\ Dropped(w)' => Aware(w)'
<1>1. MayServe(w)' => MayServe(w)
  BY DEF MayServe, Serving
<1> QED BY <1>1

(* The poller grants a registration when it makes the entry, drops only a  *)
(* replier that said its last words, and otherwise adds no grant.          *)
LEMMA BackendKeepsAware ==
  ASSUME TypeOK, RepliersOK, Faithful, KillOK, KillOK', NEW x \in Workers,
         HandleMessagesFromBackend(x), UNCHANGED replierVars,
         NEW w \in Workers, MayServe(w) /\ Dropped(w) => Aware(w)
  PROVE  MayServe(w)' /\ Dropped(w)' => Aware(w)'
<1>1. /\ UNCHANGED <<killQueue, terminateRequests>> /\ toProxy[x] # <<>>
      /\ UNCHANGED <<replier, told>>
  BY DEF HandleMessagesFromBackend, replierVars
<1>2. \A kinds : Head(toProxy[x]).type \in kinds => Has(toProxy[x], kinds)
  BY <1>1, TailKinds DEF TypeOK, NetworkTypeOK
<1>3. (w \in Elements(killQueue))' <=> w \in Elements(killQueue)
  BY <1>1 DEF Elements
<1>4. (w \in Elements(terminateRequests))' <=> w \in Elements(terminateRequests)
  BY <1>1 DEF Elements
<1>5. CASE /\ toWorker'[w] = toWorker[w]
           /\ w \in DOMAIN modules' <=> w \in DOMAIN modules
  BY <1>1, <1>3, <1>4, <1>5, KeepsAware DEF Dropped, Aware
<1>6. CASE HandleRegister(x) /\ ContainsDetails(modules, Details[x])
  <2>1. toWorker' = SentToWorker(x, Message("exists")) /\ modules' = modules
    BY <1>6 DEF HandleRegister
  <2>2. /\ Warned(toWorker[w]) => Warned(toWorker[w])'
        /\ Has(toWorker[w], {"success"})' => Has(toWorker[w], {"success"})
    BY <2>1, SentWarned DEF Message
  <2> QED BY <1>1, <1>3, <1>4, <2>1, <2>2, KeepsAware DEF Dropped, Aware
<1>7. CASE HandleRegister(x) /\ ~ContainsDetails(modules, Details[x])
  <2>1. /\ toWorker' = SentToWorker(x, Message("success"))
        /\ modules' = Insert(modules, x, Details[x])
    BY <1>7 DEF HandleRegister
  <2>2. CASE x # w
    <3>1. toWorker'[w] = toWorker[w] /\ (w \in DOMAIN modules' <=> w \in DOMAIN modules)
      BY <2>1, <2>2, SentWarned DEF Insert
    <3> QED BY <1>5, <3>1
  <2>3. CASE x = w
    <3>1. w \in DOMAIN modules' /\ modules'[w] = NewEntry(Details[w])
      BY <2>1, <2>3 DEF Insert
    <3>2. ~Expired(modules'[w])
      BY <3>1, LadderBounds DEF NewEntry, Expired
    <3>3. ~Dropped(w)'
      BY <3>1, <3>2 DEF KillOK, Doomed, Dropped
    <3> QED BY <3>3
  <2> QED BY <2>2, <2>3
<1>8. CASE HandleDeregister(x) \/ HandleTerminateResponse(x)
  <2>1. CASE x # w
    <3>1. toWorker'[w] = toWorker[w]
      BY <1>8, <2>1, SentWarned DEF HandleDeregister, HandleTerminateResponse
    <3>2. w \in DOMAIN modules' <=> w \in DOMAIN modules
      BY <1>8, <2>1 DEF HandleDeregister, HandleTerminateResponse, PollerErases, Erase
    <3> QED BY <1>5, <3>1, <3>2
  <2>2. CASE x = w
    <3>1. Has(toProxy[x], Closing)
      BY <1>2, <1>8 DEF HandleDeregister, HandleTerminateResponse, Closing
    <3>2. Over(w)
      BY <2>2, <3>1 DEF RepliersOK, ReplierOK
    <3>3. ~MayServe(w)'
      BY <1>1, <3>2 DEF Over, MayServe, Serving
    <3> QED BY <3>3
  <2> QED BY <2>1, <2>2
<1>9. CASE HandlePingResponse(x) \/ PropagateToFrontend(x)
  BY <1>5, <1>9 DEF HandlePingResponse, PropagateToFrontend
<1> QED BY <1>6, <1>7, <1>8, <1>9 DEF HandleMessagesFromBackend

(* What the poller sends beside its answers to registrations adds no grant *)
(* and loses no terminate request on its way to a live replier.            *)
LEMMA PollerKeepsAware ==
  ASSUME TypeOK, RepliersOK, Faithful, KillOK, KillOK', Poller, UNCHANGED replierVars,
         NEW w \in Workers, MayServe(w) /\ Dropped(w) => Aware(w)
  PROVE  MayServe(w)' /\ Dropped(w)' => Aware(w)'
<1>1. UNCHANGED <<replier, told>>
  BY DEF replierVars
<1>2. MayServe(w) => w \in connected
  BY DEF MayServe, Serving, RepliersOK, ReplierOK
<1>3. ASSUME UNCHANGED <<modules, killQueue>>
      PROVE  Dropped(w)' => Dropped(w)
  BY <1>3 DEF Dropped, Elements
<1>4. ASSUME UNCHANGED <<modules, killQueue, terminateRequests>>,
             \/ toWorker'[w] = toWorker[w]
             \/ \E y, msg : msg.type # "success" /\ toWorker' = SentToWorker(y, msg)
      PROVE  MayServe(w)' /\ Dropped(w)' => Aware(w)'
  <2>1. /\ Warned(toWorker[w]) => Warned(toWorker[w])'
        /\ Has(toWorker[w], {"success"})' => Has(toWorker[w], {"success"})
    BY <1>4, SentWarned
  <2>2. Aware(w) => Aware(w)'
    BY <1>4, <2>1 DEF Aware, Elements
  <2> QED BY <1>1, <1>3, <1>4, <2>1, <2>2, KeepsAware
<1>5. ASSUME NEW x \in Workers, PollerHandlesBackend(x) \/ PollerAwaits(x)
      PROVE  MayServe(w)' /\ Dropped(w)' => Aware(w)'
  BY <1>5, BackendKeepsAware DEF PollerHandlesBackend, PollerAwaits
<1>6. ASSUME NEW c \in Clients, PollerHandlesFrontend(c)
      PROVE  MayServe(w)' /\ Dropped(w)' => Aware(w)'
  <2>1. UNCHANGED <<modules, killQueue, terminateRequests>>
    BY <1>6 DEF PollerHandlesFrontend, pingerVars, queueVars
  <2>2. \/ toWorker'[w] = toWorker[w]
        \/ \E y, msg : msg.type # "success" /\ toWorker' = SentToWorker(y, msg)
    BY <1>6 DEF PollerHandlesFrontend, AnswerAvailableModules, PropagateToBackend,
       RefuseUnknownModule, RoutedMessage
  <2> QED BY <1>4, <2>1, <2>2
<1>7. CASE PollerSendsPing
  BY <1>4, <1>7 DEF PollerSendsPing, pingerVars, Message
<1>8. CASE PollerSendsTerminate
  <2> DEFINE x == Head(terminateRequests)
  <2>1. /\ terminateRequests # <<>> /\ terminateRequests' = Tail(terminateRequests)
        /\ toWorker' = SentToWorker(x, Message("terminate"))
        /\ UNCHANGED <<modules, killQueue>>
    BY <1>8 DEF PollerSendsTerminate, pingerVars
  <2>2. Elements(terminateRequests) = Elements(terminateRequests)' \cup {x}
    BY <2>1, TailElements DEF TypeOK, ProxyTypeOK
  <2>3. /\ Warned(toWorker[w]) => Warned(toWorker[w])'
        /\ Has(toWorker[w], {"success"})' => Has(toWorker[w], {"success"})
        /\ x = w /\ w \in connected => Warned(toWorker[w])'
    BY <2>1, SentWarned DEF Message
  <2> HIDE DEF x
  <2>4. MayServe(w) /\ Aware(w) => Aware(w)'
    BY <1>2, <2>2, <2>3 DEF Aware
  <2> QED BY <1>1, <1>3, <2>1, <2>3, <2>4, KeepsAware
<1>9. CASE PollerEvictsAll
  <2>1. UNCHANGED <<modules, killQueue, terminateRequests>>
    BY <1>9 DEF PollerEvictsAll, queueVars, pingerVars
  <2>2. \/ toWorker'[w] = toWorker[w]
        \/ toWorker'[w] = Append(toWorker[w], Message("terminate"))
    BY <1>9 DEF PollerEvictsAll, SentToAll
  <2>3. /\ Warned(toWorker[w]) => Warned(toWorker[w])'
        /\ Has(toWorker[w], {"success"})' => Has(toWorker[w], {"success"})
    <3>1. toWorker[w] \in Seq(MessagesToWorker)
      BY DEF TypeOK, NetworkTypeOK
    <3>2. Message("terminate").type = "terminate"
      BY DEF Message
    <3> QED BY <2>2, <3>1, <3>2, AppendKinds
  <2>4. Aware(w) => Aware(w)'
    BY <2>1, <2>3 DEF Aware, Elements
  <2> QED BY <1>1, <1>3, <2>1, <2>3, <2>4, KeepsAware
<1>10. CASE \/ PollerLeavesLoop \/ PollerFrontendQuiet \/ PollerBackendQuiet
            \/ PollerPingsDrained \/ PollerTerminatesDrained \/ PollerGivesUp
  <2>1. UNCHANGED <<modules, killQueue, terminateRequests, toWorker>>
    BY <1>10 DEF PollerLeavesLoop, PollerFrontendQuiet, PollerBackendQuiet, PollerPingsDrained,
       PollerTerminatesDrained, PollerGivesUp, pingerVars, queueVars, networkVars
  <2> QED BY <1>4, <2>1
<1> QED BY <1>5, <1>6, <1>7, <1>8, <1>9, <1>10 DEF Poller

(* The pinger queues the terminate request before it drops a module.       *)
LEMMA PingerKeepsAware ==
  ASSUME TypeOK, KillOK, Pinger, UNCHANGED replierVars,
         NEW w \in Workers, MayServe(w) /\ Dropped(w) => Aware(w)
  PROVE  MayServe(w)' /\ Dropped(w)' => Aware(w)'
<1>1. UNCHANGED <<replier, told, toWorker>>
  BY DEF replierVars, Pinger, PingerWakes, PingerUpdates, PingerBeginsWalk, PingerVisits,
     PingerEndsWalk, PingerErases, PingerNaps, PingerUnchanged, networkVars
<1>2. MapOK(modules) /\ killQueue \in Seq(Workers) /\ terminateRequests \in Seq(Workers)
  BY DEF TypeOK, ProxyTypeOK, MapOK
<1>3. ASSUME DOMAIN modules' = DOMAIN modules, UNCHANGED <<killQueue, terminateRequests>>
      PROVE  MayServe(w)' /\ Dropped(w)' => Aware(w)'
  <2>1. (Dropped(w)' => Dropped(w)) /\ (Aware(w) => Aware(w)')
    BY <1>1, <1>3 DEF Dropped, Aware, Elements
  <2> QED BY <1>1, <2>1, KeepsAware
<1>4. ASSUME NEW x \in Workers, PingerVisits(x)
      PROVE  MayServe(w)' /\ Dropped(w)' => Aware(w)'
  <2>1. CASE PingerExpires(x)
    <3>1. /\ Elements(terminateRequests)' = Elements(terminateRequests) \cup {x}
          /\ Elements(killQueue)' = Elements(killQueue) \cup {x}
          /\ modules' = modules
      BY <1>2, <2>1, AppendElements DEF PingerExpires
    <3>2. Aware(w) => Aware(w)'
      BY <1>1, <3>1 DEF Aware
    <3>3. Dropped(w)' => Dropped(w) \/ Aware(w)'
      BY <3>1 DEF Dropped, Aware
    <3> QED BY <1>1, <3>2, <3>3, KeepsAware
  <2>2. CASE PingerPings(x)
    <3>1. DOMAIN modules' = DOMAIN modules /\ UNCHANGED <<killQueue, terminateRequests>>
      BY <1>2, <2>2, MarkProperties, NextRungProperties DEF PingerPings
    <3> QED BY <1>3, <3>1
  <2> QED BY <1>4, <2>1, <2>2 DEF PingerVisits
<1>5. CASE PingerErases
  <2>1. /\ killQueue # <<>> /\ killQueue' = Tail(killQueue)
        /\ modules' = Erase(modules, Head(killQueue))
        /\ UNCHANGED terminateRequests
    BY <1>5 DEF PingerErases, queueVars
  <2>2. Elements(killQueue) = Elements(killQueue)' \cup {Head(killQueue)}
    BY <1>2, <2>1, TailElements
  <2>3. DOMAIN modules' = DOMAIN modules \ {Head(killQueue)}
    BY <2>1 DEF Erase
  <2>4. (Dropped(w)' => Dropped(w)) /\ (Aware(w) => Aware(w)')
    BY <1>1, <2>1, <2>2, <2>3 DEF Dropped, Aware, Elements
  <2> QED BY <1>1, <2>4, KeepsAware
<1>6. ASSUME NEW x \in Workers, PingerUpdates(x)
      PROVE  MayServe(w)' /\ Dropped(w)' => Aware(w)'
  BY <1>2, <1>3, <1>6, UpdateProperties DEF PingerUpdates, pingerVars
<1>7. CASE PingerWakes \/ PingerBeginsWalk \/ PingerEndsWalk \/ PingerNaps
  BY <1>3, <1>7 DEF PingerWakes, PingerBeginsWalk, PingerEndsWalk, PingerNaps, queueVars
<1> QED BY <1>4, <1>5, <1>6, <1>7 DEF Pinger

(* Whoever may serve though it was dropped, or is about to be, has a       *)
(* terminate request queued, or under way with no later grant behind it.   *)
THEOREM AwareInvariant == Spec => []AwareOK
<1>1. Init => AwareOK
  BY EmptyKinds DEF Init, NetworkInit, ReplierInit, AwareOK, MayServe, Serving
<1>2. /\ TypeOK /\ RepliersOK /\ Faithful /\ KillOK /\ KillOK' /\ AwareOK /\ [Next]_vars
      => AwareOK'
  <2> SUFFICES ASSUME TypeOK, RepliersOK, Faithful, KillOK, KillOK', AwareOK, [Next]_vars,
                      NEW w \in Workers
               PROVE  MayServe(w)' /\ Dropped(w)' => Aware(w)'
    BY DEF AwareOK
  <2>1. MayServe(w) /\ Dropped(w) => Aware(w)
    BY DEF AwareOK
  <2>2. ASSUME UNCHANGED <<modules, killQueue, terminateRequests>>
        PROVE  (Dropped(w)' => Dropped(w))
                 /\ (w \in Elements(terminateRequests) => (w \in Elements(terminateRequests))')
    BY <2>2 DEF Dropped, Elements
  <2>3. ASSUME UNCHANGED <<replier, told, toWorker>>,
               DOMAIN modules' = DOMAIN modules, UNCHANGED <<killQueue, terminateRequests>>
        PROVE  MayServe(w)' /\ Dropped(w)' => Aware(w)'
    BY <2>1, <2>3 DEF MayServe, Serving, Dropped, Aware, Elements
  <2>4. CASE ProxyStep
    <3>1. UNCHANGED replierVars
      BY <2>4 DEF ProxyStep
    <3>2. CASE Start \/ Stop
      BY <2>3, <3>1, <3>2 DEF Start, Stop, replierVars, pingerVars, queueVars, networkVars
    <3> QED BY <2>1, <2>4, <3>1, <3>2, PollerKeepsAware, PingerKeepsAware DEF ProxyStep
  <2>5. ASSUME NEW x \in Workers, ReplierStep(x)
        PROVE  MayServe(w)' /\ Dropped(w)' => Aware(w)'
    <3>1. UNCHANGED <<modules, killQueue, terminateRequests>>
      BY <2>5 DEF ReplierStep, proxyVars, pingerVars, queueVars
    <3>2. CASE x = w
      BY <2>1, <2>2, <2>5, <3>1, <3>2, ReplierStepAware DEF Aware
    <3>3. CASE x # w
      <4>1. /\ replier'[w] = replier[w]
            /\ w \in told' <=> w \in told
            /\ toWorker'[w] = toWorker[w]
        BY <2>5, <3>3 DEF ReplierStep, Replier, ReplierRuns, ReplierRegisters,
           ReplierReadsRegistration, ReplierGivesUp, ReplierPolls, ReplierAnswersPing,
           ReplierIsTold, ReplierAnswersRequest, ReplierSkips, ReplierStops,
           ReplierReadsDeregistration, ReplierStopsWaiting, ReplierLeaves, Moves, Takes,
           networkVars, TypeOK, NetworkTypeOK, ReplierTypeOK
      <4>2. MayServe(w)' => MayServe(w)
        BY <4>1 DEF MayServe, Serving
      <4> QED BY <2>1, <2>2, <3>1, <4>1, <4>2 DEF Aware
    <3> QED BY <3>2, <3>3
  <2>6. ASSUME NEW c \in Clients, RequestorStep(c)
        PROVE  MayServe(w)' /\ Dropped(w)' => Aware(w)'
    BY <2>3, <2>6 DEF RequestorStep, Requestor, RequestorAsks, RequestorIsAnswered,
       RequestorTimesOut, RequestorLeaves, proxyVars, replierVars, pingerVars, queueVars,
       backendVars, networkVars
  <2>7. CASE Tick
    <3>1. DOMAIN modules' = DOMAIN modules
      BY <2>7 DEF Tick, GrowOlder
    <3> QED BY <2>3, <2>7, <3>1 DEF Tick, replierVars, pingerVars, queueVars, networkVars
  <2>8. CASE UNCHANGED vars
    BY <2>3, <2>8 DEF vars, proxyVars, replierVars, pingerVars, queueVars, networkVars
  <2> QED BY <2>4, <2>5, <2>6, <2>7, <2>8 DEF Next
<1> QED BY <1>1, <1>2, TypeInvariant, LastWordsInvariant, FaithfulInvariant, KillInvariant,
          PTL DEF Spec

(* No module is dropped behind its back, whatever the interleaving of the  *)
(* pinger's eviction, registrations retried after a time-out, terminations *)
(* and restarts of the proxy.                                              *)
THEOREM NoUntoldOrphanInvariant == Spec => []NoUntoldOrphan
<1>1. AwareOK => NoUntoldOrphan
  BY DEF AwareOK, NoUntoldOrphan, MayServe, Serving, Dropped, Aware, Warned, Elements, KindsIn
<1> QED BY <1>1, AwareInvariant, PTL
===============================================================================

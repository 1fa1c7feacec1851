-------------------------- MODULE AuthenticationService --------------------------
(***************************************************************************)
(* The thread that answers for a program's sockets when clients connect:   *)
(* class Service of authentication/service.cpp.  ZeroMQ hands each client  *)
(* that connects to a socket of the context to this thread and lets it in  *)
(* when the answer is 200.  The owner stops the thread with a message on a *)
(* pipe.                                                                   *)
(*                                                                         *)
(* A side is a context with its own authentication service; most services  *)
(* have one, a broadcast may have one for each of its sockets.             *)
(***************************************************************************)
EXTENDS Authenticator, Sequences

CONSTANTS
  Clients,      (* [name, key, password] that connect                      *)
  AllSides      (* the contexts that a service may have                    *)

ASSUME SidesAssumption == {"front", "back"} \subseteq AllSides

VARIABLES
  guard,        (* where the thread of each side is                        *)
  guarding,     (* mRunning                                                *)
  pipe,         (* what the owner wrote to mPipe                           *)
  zap,          (* the clients that wait for an answer                     *)
  asked,        (* the client that the thread is busy with                 *)
  parting,      (* the thread has read TERMINATE                           *)
  client,       (* what became of each client                              *)
  moments       (* whether it was entitled, at each moment that it waited  *)

serviceVars == <<guard, guarding, pipe, zap, asked, parting>>
clientVars == <<client, moments>>

NoClient == [name |-> "", key |-> NoKey, password |-> ""]

ServiceTypeOK ==
  /\ guard \in [AllSides -> {"none", "begun", "bound", "polling", "answering", "left"}]
  /\ guarding \in [AllSides -> BOOLEAN]
  /\ parting \in [AllSides -> BOOLEAN]
  /\ pipe \in [AllSides -> Seq({"ALLOW", "TERMINATE"})]
  /\ zap \in [AllSides -> Seq(Clients)]
  /\ asked \in [AllSides -> Clients \cup {NoClient}]
  /\ client \in [Clients -> {"away", "asking", "admitted", "refused", "dropped"}]
  /\ moments \in [Clients -> SUBSET BOOLEAN]

ServiceInit ==
  /\ guard = [s \in AllSides |-> "none"]
  /\ guarding = [s \in AllSides |-> FALSE]
  /\ pipe = [s \in AllSides |-> << >>]
  /\ zap = [s \in AllSides |-> << >>]
  /\ asked = [s \in AllSides |-> NoClient]
  /\ parting = [s \in AllSides |-> FALSE]
  /\ client = [c \in Clients |-> "away"]
  /\ moments = [c \in Clients |-> {}]

(* Whoever waits is entitled, or not, as the table is after the step.      *)
Remembers ==
  moments' = [c \in Clients |->
                IF client'[c] = "asking" THEN moments[c] \cup {Entitled(c.key)'}
                ELSE moments[c]]

Goes(s, from, to) == guard[s] = from /\ guard' = [guard EXCEPT ![s] = to]

-----------------------------------------------------------------------------
(* start() binds its sockets, and only then sets the flag.                 *)

GuardBinds(s) ==
  /\ Goes(s, "begun", "bound")
  /\ UNCHANGED <<guarding, pipe, zap, asked, parting, clientVars>>

GuardReady(s) ==
  /\ Goes(s, "bound", "polling")
  /\ guarding' = [guarding EXCEPT ![s] = TRUE]
  /\ UNCHANGED <<pipe, zap, asked, parting, clientVars>>

(* A client that connects before there is a thread is not asked for; the   *)
(* socket of a thread that ends takes the clients that wait with it.       *)
Asks(c, s) ==
  /\ c \in use.clients /\ client[c] = "away"
  /\ guard[s] \in {"bound", "polling", "answering"}
  /\ zap' = [zap EXCEPT ![s] = Append(@, c)]
  /\ client' = [client EXCEPT ![c] = "asking"]
  /\ UNCHANGED <<guard, guarding, pipe, asked, parting>>

GuardLeaves(s) ==
  /\ guard' = [guard EXCEPT ![s] = "left"]
  /\ zap' = [zap EXCEPT ![s] = << >>]
  /\ client' = [c \in Clients |->
                  IF c \in {zap[s][i] : i \in DOMAIN zap[s]} THEN "dropped"
                  ELSE client[c]]
  /\ UNCHANGED asked

(* Each round of the loop waits for a message on either socket, handles    *)
(* one of the pipe's and then one client.  ALLOW and DENY are not handled. *)
GuardPolls(s) ==
  LET ends == pipe[s] # << >> /\ Head(pipe[s]) = "TERMINATE" IN
  /\ guard[s] = "polling"
  /\ pipe[s] # << >> \/ zap[s] # << >>
  /\ pipe' = [pipe EXCEPT ![s] = IF @ = << >> THEN @ ELSE Tail(@)]
  /\ guarding' = [guarding EXCEPT ![s] = @ /\ ~ends]
  /\ parting' = [parting EXCEPT ![s] = ends]
  /\ IF zap[s] # << >>
       THEN /\ guard' = [guard EXCEPT ![s] = "answering"]
            /\ asked' = [asked EXCEPT ![s] = Head(zap[s])]
            /\ zap' = [zap EXCEPT ![s] = Tail(@)]
            /\ UNCHANGED client
       ELSE IF ends THEN GuardLeaves(s)
       ELSE UNCHANGED <<guard, zap, asked, client>>

-----------------------------------------------------------------------------
(* Mutant: the branch of the mechanism NULL is missing, nothing is sent.   *)
AnswersKeysOnly(c) ==
  IF use.level = "Stonehouse" /\ use.table # "none" THEN KeyAnswers(c.key) ELSE {}

(* The answer.  The blacklist is never opened, so nobody is on it.  With   *)
(* PLAIN the code takes the fifth and sixth frames of the request for the  *)
(* user and the password: they hold the mechanism and the user.            *)

Answers(c) ==
  CASE use.level = "Strawhouse" \/ use.table = "none" -> {OK}
    [] use.level = "Woodhouse" /\ use.table # "none" -> PasswordAnswers("PLAIN", c.name)
    [] use.level = "Stonehouse" /\ use.table # "none" -> KeyAnswers(c.key)

GuardAnswers(s) ==
  /\ guard[s] = "answering"
  /\ use.table = "none" \/ holder = Nobody
  /\ \E answer \in Answers(asked[s]) :
       LET answered == [client EXCEPT ![asked[s]] =
                          IF answer = OK THEN "admitted" ELSE "refused"]
       IN IF parting[s]
            THEN /\ guard' = [guard EXCEPT ![s] = "left"]
                 /\ zap' = [zap EXCEPT ![s] = << >>]
                 /\ client' = [c \in Clients |->
                                 IF c \in {zap[s][i] : i \in DOMAIN zap[s]}
                                   THEN "dropped" ELSE answered[c]]
            ELSE /\ guard' = [guard EXCEPT ![s] = "polling"]
                 /\ client' = answered
                 /\ UNCHANGED zap
  /\ asked' = [asked EXCEPT ![s] = NoClient]
  /\ UNCHANGED <<guarding, pipe, parting>>

(* Mutant: stop() sends nothing.                                           *)
TellsNobody(s, command) == UNCHANGED serviceVars

(* stop() and whitelist() of the owner's thread: only a running service    *)
(* reads the pipe, so nothing is written for one that is not.              *)
Tells(s, command) ==
  /\ pipe' = [pipe EXCEPT ![s] = IF guarding[s] THEN Append(@, command) ELSE @]
  /\ UNCHANGED <<guard, guarding, zap, asked, parting>>

GuardStep(s) ==
  GuardBinds(s) \/ GuardReady(s)
    \/ (GuardPolls(s) /\ Remembers) \/ (GuardAnswers(s) /\ Remembers)
=============================================================================

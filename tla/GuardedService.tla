----------------------------- MODULE GuardedService -----------------------------
(***************************************************************************)
(* A service of a program with the threads that do its work: a worker that *)
(* forwards messages or answers requests, and the authentication services. *)
(* Its owner initializes, starts and stops it, joining the threads, as     *)
(* often as it likes.  The kinds of service are                            *)
(*                                                                         *)
(*   service    proxyServices/proxy.cpp: a router-dealer proxy             *)
(*              (messaging/routerDealer/proxy.cpp) and one authentication; *)
(*   broadcast  proxyBroadcasts/proxy.cpp: an xPub-xSub proxy              *)
(*              (messaging/xPublisherXSubscriber/proxy.cpp), likewise;     *)
(*   split      the same with an authentication for each of its sockets;   *)
(*   directory  services/connectionInformation/service.cpp: a router       *)
(*              (messaging/requestRouter/router.cpp), likewise;            *)
(*   raw        an xPub-xSub proxy that the program runs by itself.        *)
(***************************************************************************)
EXTENDS AuthenticationService

CONSTANT
  Uses        (* the services and how much their owners do with them       *)

ServiceKinds == {"service", "broadcast", "split", "directory", "raw"}

(* What a use says: its kind and level of security, whether its table of   *)
(* users is there, how often start() and the calls of administrators are   *)
(* made, whether stop() is, who shares the table, and who is in it and who *)
(* connects.                                                               *)
ASSUME UsesAssumption ==
  \A u \in Uses :
    /\ u.kind \in ServiceKinds /\ u.starts \in Nat /\ u.operations \in Nat
    /\ u.users \subseteq Users /\ u.clients \subseteq Clients

(* A table holds one user at most to begin with; others are added by calls.*)
ASSUME OneUserAssumption == \A u \in Uses : \A x, y \in u.users : x = y

VARIABLES
  owner,       (* where the owner's thread is                              *)
  call,        (* the call it is in                                        *)
  side,        (* the authentication service it is at                      *)
  starts,      (* how often it has called start()                          *)
  ready,       (* mInitialized of the wrapper: never cleared               *)
  worker,      (* where the worker's thread is                             *)
  initialized, (* mInitialized of the worker's object                      *)
  running,     (* its mRunning or mStarted                                 *)
  control,     (* commands on the control socket of an xPub-xSub proxy     *)
  pending,     (* mCommand has an answer outstanding, that it never reads  *)
  paused,      (* mPaused                                                  *)
  blame        (* what the owner or an administrator did to get here       *)

ownerVars == <<owner, call, side, starts, ready, blame>>
workerVars == <<worker, initialized, running, control, pending, paused>>
vars == <<use, authenticatorVars, serviceVars, clientVars, ownerVars, workerVars>>

Sides ==
  CASE use.kind = "raw" -> << >>
    [] use.kind = "split" -> <<"front", "back">>
    [] OTHER -> <<"front">>

Steerable == use.kind \in {"broadcast", "split", "raw"}

(* In a failed, aborted or exited program there are no threads any more.   *)
Lives == owner \notin {"failed", "aborted", "left"}

TypeOK ==
  /\ use \in Uses
  /\ owner \in {"opening", "idle", "looking", "telling", "cutting", "guards",
                "joining", "joiningGuards", "binding", "spawning", "resting",
                "left", "failed", "aborted", "hung"}
  /\ call \in {"none", "initialize", "start", "stop", "leave"}
  /\ side \in 1 .. 3
  /\ starts \in 0 .. use.starts
  /\ {ready, initialized, running, pending, paused} \subseteq BOOLEAN
  /\ worker \in {"none", "begun", "readied", "working", "resting", "steered", "left"}
  /\ control \in Seq({"PAUSE", "RESUME", "TERMINATE"})
  /\ blame \subseteq {"creation", "early", "restart", "deaf", "crossed", "readded"}
  /\ AuthenticatorTypeOK
  /\ ServiceTypeOK

Init ==
  /\ use \in Uses
  /\ AuthenticatorInit
  /\ ServiceInit
  /\ owner = "opening"
  /\ call = "none"
  /\ side = 1
  /\ starts = 0
  /\ ready = FALSE
  /\ worker = "none"
  /\ initialized = FALSE
  /\ running = FALSE
  /\ control = << >>
  /\ pending = FALSE
  /\ paused = FALSE
  /\ blame = {}

OwnerGoes(from, to) == owner = from /\ owner' = to

Blames(reason, condition) ==
  blame' = IF condition THEN blame \cup {reason} ELSE blame

-----------------------------------------------------------------------------
(* Before the service is made, the table of users is opened.  A table that *)
(* cannot be created is closed by a function that locks the mutex, which   *)
(* openUsersTable() holds.                                                 *)

Opens ==
  /\ \/ OwnerGoes("opening", "idle") /\ UNCHANGED blame
     \/ use.table # "none" /\ OwnerGoes("opening", "failed") /\ UNCHANGED blame
     \/ /\ use.table = "missing" /\ OwnerGoes("opening", "hung")
        /\ Blames("creation", TRUE)
  /\ UNCHANGED <<use, call, side, starts, ready, workerVars, serviceVars,
                 clientVars, authenticatorVars>>

-----------------------------------------------------------------------------
(* The owner's calls.  All but those of a raw proxy stop the service first;*)
(* stop() tells a worker only when its flag is set.                        *)

CallsTo(c) ==
  /\ owner = "idle"
  /\ c # "initialize" => ready
  /\ IF c \in {"initialize", "start"} THEN starts < use.starts ELSE use.stops
  /\ use.kind = "raw" /\ c = "initialize" => worker = "none"
  /\ use.kind = "raw" /\ c = "start" => worker = "none" /\ ~paused
  /\ owner' = IF use.kind # "raw" THEN "looking"
              ELSE CASE c = "initialize" -> "binding"
                     [] c = "start" -> "spawning"
                     [] OTHER -> "telling"
  /\ call' = c
  /\ starts' = IF c = "start" THEN starts + 1 ELSE starts
  /\ UNCHANGED <<use, side, ready, blame, workerVars, serviceVars, clientVars,
                 authenticatorVars>>

(* The thread was made, but did not come to set its flag.                  *)
Unborn == worker \in {"begun", "readied"}

Looks ==
  /\ OwnerGoes("looking", IF running THEN "telling" ELSE "guards")
  /\ Blames("early", ~running /\ Unborn)
  /\ UNCHANGED <<use, call, side, starts, ready, workerVars, serviceVars,
                 clientVars, authenticatorVars>>

(* mCommand is a REQ socket: while an answer is outstanding it sends       *)
(* nothing.  stop() logs the exception.                                    *)
Commands(command) ==
  /\ pending' = TRUE
  /\ control' = IF pending THEN control ELSE Append(control, command)

Told ==
  /\ owner = "telling"
  /\ IF ~Steerable
       THEN /\ owner' = IF use.kind = "directory" THEN "guards" ELSE "cutting"
            /\ running' = FALSE
            /\ UNCHANGED <<control, pending, initialized, blame>>
       ELSE IF running
       THEN /\ owner' = "cutting"
            /\ Commands("TERMINATE")
            /\ Blames("deaf", pending)
            /\ UNCHANGED <<running, initialized>>
       ELSE /\ owner' = "guards"
            /\ initialized' = FALSE
            /\ Blames("early", Unborn)
            /\ UNCHANGED <<running, control, pending>>
  /\ UNCHANGED <<use, call, side, starts, ready, worker, paused, serviceVars,
                 clientVars, authenticatorVars>>

(* The proxy's sockets are disconnected in the owner's thread, though the  *)
(* worker may be using them: what ZeroMQ makes of that is undefined.       *)
Cuts ==
  LET crosses == worker \in {"working", "resting"} IN
  /\ \/ /\ OwnerGoes("cutting", "guards")
        /\ initialized' = FALSE
        /\ running' = FALSE
     \/ crosses /\ OwnerGoes("cutting", "aborted") /\ UNCHANGED <<initialized, running>>
  /\ Blames("crossed", crosses)
  /\ UNCHANGED <<use, call, side, starts, ready, worker, control, pending, paused,
                 serviceVars, clientVars, authenticatorVars>>

TellsGuards ==
  /\ owner = "guards"
  /\ IF side <= Len(Sides)
       THEN /\ Tells(Sides[side], "TERMINATE")
            /\ Blames("early", ~guarding[Sides[side]]
                                 /\ guard[Sides[side]] \in {"begun", "bound"})
            /\ side' = side + 1
            /\ UNCHANGED owner
       ELSE /\ owner' = "joining"
            /\ side' = 1
            /\ UNCHANGED <<blame, serviceVars>>
  /\ UNCHANGED <<use, call, starts, ready, workerVars, clientVars,
                 authenticatorVars>>

Joins ==
  /\ OwnerGoes("joining", "joiningGuards")
  /\ worker \in {"none", "left"}
  /\ worker' = "none"
  /\ UNCHANGED <<use, call, side, starts, ready, blame, initialized, running,
                 control, pending, paused, serviceVars, clientVars, authenticatorVars>>

(* Mutant: stop() does not join the guards.                                *)
JoinsNoGuards ==
  /\ OwnerGoes("joiningGuards",
               CASE call = "initialize" -> "binding" [] call = "start" -> "spawning"
                 [] call = "stop" -> "idle" [] call = "leave" -> "left")
  /\ guard' = [s \in AllSides |-> "none"]
  /\ UNCHANGED <<use, call, side, starts, ready, blame, guarding, pipe, zap,
                 asked, parting, workerVars, clientVars, authenticatorVars>>

JoinsGuards ==
  /\ OwnerGoes("joiningGuards",
               CASE call = "initialize" -> "binding" [] call = "start" -> "spawning"
                 [] call = "stop" -> "idle" [] call = "leave" -> "left")
  /\ \A s \in AllSides : guard[s] \in {"none", "left"}
  /\ guard' = [s \in AllSides |-> "none"]
  /\ UNCHANGED <<use, call, side, starts, ready, blame, guarding, pipe, zap,
                 asked, parting, workerVars, clientVars, authenticatorVars>>

(* initialize() binds the sockets again; a steerable proxy gets a new      *)
(* control address.  That an address may be taken is in Hub.               *)
Binds ==
  /\ OwnerGoes("binding", "idle")
  /\ ready' = TRUE
  /\ initialized' = TRUE
  /\ control' = << >>
  /\ UNCHANGED <<use, call, side, starts, blame, worker, running, pending, paused,
                 serviceVars, clientVars, authenticatorVars>>

(* start() makes the threads: the authentication first and, after a sleep  *)
(* that promises nothing, the worker; in the directory the other way       *)
(* round.  A debug build asserts that the worker is initialized.           *)
BeginsGuards ==
  guard' = [s \in AllSides |->
              IF s \in {Sides[i] : i \in DOMAIN Sides} THEN "begun" ELSE guard[s]]

Spawns ==
  /\ \/ /\ OwnerGoes("spawning", IF use.kind = "raw" THEN "idle" ELSE "resting")
        /\ IF use.kind \in {"raw", "directory"}
             THEN worker' = "begun" /\ UNCHANGED guard
             ELSE BeginsGuards /\ UNCHANGED worker
     \/ /\ use.kind # "raw" /\ ~initialized
        /\ OwnerGoes("spawning", "aborted")
        /\ UNCHANGED <<worker, guard>>
  /\ Blames("restart", ~initialized)
  /\ UNCHANGED <<use, call, side, starts, ready, initialized, running, control,
                 pending, paused, guarding, pipe, zap, asked, parting, clientVars,
                 authenticatorVars>>

Rests ==
  /\ OwnerGoes("resting", "idle")
  /\ IF use.kind = "directory"
       THEN BeginsGuards /\ UNCHANGED worker
       ELSE worker' = "begun" /\ UNCHANGED guard
  /\ UNCHANGED <<use, call, side, starts, ready, blame, initialized, running,
                 control, pending, paused, guarding, pipe, zap, asked, parting,
                 clientVars, authenticatorVars>>

(* whitelist() and blacklist() of the service's authentication.            *)
Allows ==
  /\ owner = "idle" /\ starts = use.starts /\ use.stops
  /\ \E s \in AllSides :
       guarding[s] /\ pipe[s] = << >> /\ Tells(s, "ALLOW")
  /\ UNCHANGED <<use, ownerVars, workerVars, clientVars, authenticatorVars>>

(* pause() of a raw proxy.  It throws when a command was sent before, and  *)
(* so does the start() that should resume the proxy: nothing changes.      *)
Pauses ==
  /\ use.kind = "raw" /\ owner = "idle"
  /\ initialized /\ ~paused /\ ~pending
  /\ Commands("PAUSE")
  /\ paused' = TRUE
  /\ UNCHANGED <<use, ownerVars, worker, initialized, running, serviceVars, clientVars,
                 authenticatorVars>>

-----------------------------------------------------------------------------
(* The worker's thread.  An exception in it ends the program.              *)

WorkerGoes(from, to) == worker = from /\ worker' = to

Aborts == owner' = "aborted" /\ UNCHANGED worker

(* start() of a router-dealer proxy stops itself, which forgets that it    *)
(* was initialized.  A paused xPub-xSub proxy tries to send RESUME.        *)
WorkerBegins ==
  /\ worker = "begun"
  /\ IF initialized /\ ~paused
       THEN /\ worker' = "readied"
            /\ initialized' = (use.kind # "service")
            /\ running' = FALSE
            /\ UNCHANGED owner
       ELSE Aborts /\ UNCHANGED <<initialized, running>>
  /\ UNCHANGED <<use, call, side, starts, ready, blame, control, pending, paused,
                 serviceVars, clientVars, authenticatorVars>>

(* Mutant: the flag is never set.                                          *)
WorkerReadyUnflagged ==
  /\ WorkerGoes("readied", "working")
  /\ UNCHANGED <<use, ownerVars, initialized, running, control, pending, paused,
                 serviceVars, clientVars, authenticatorVars>>

WorkerReady ==
  /\ WorkerGoes("readied", "working")
  /\ running' = TRUE
  /\ UNCHANGED <<use, ownerVars, initialized, control, pending, paused, serviceVars,
                 clientVars, authenticatorVars>>

(* The router and the router-dealer proxy look at the flag after each      *)
(* poll; the steerable proxy obeys the control socket.                     *)
WorkerLeaves ==
  /\ ~Steerable /\ ~running
  /\ WorkerGoes("working", "left")
  /\ UNCHANGED <<use, ownerVars, initialized, running, control, pending, paused,
                 serviceVars, clientVars, authenticatorVars>>

WorkerObeys ==
  /\ worker \in {"working", "resting"}
  /\ control # << >>
  /\ worker' = CASE Head(control) = "PAUSE" -> "resting"
                 [] Head(control) = "RESUME" -> "working"
                 [] OTHER -> "steered"
  /\ control' = Tail(control)
  /\ UNCHANGED <<use, ownerVars, initialized, running, pending, paused, serviceVars,
                 clientVars, authenticatorVars>>

WorkerFinishes ==
  /\ WorkerGoes("steered", "left")
  /\ running' = FALSE
  /\ UNCHANGED <<use, ownerVars, initialized, control, pending, paused, serviceVars,
                 clientVars, authenticatorVars>>

-----------------------------------------------------------------------------
(* Administrators and clients.                                             *)

(* Who deletes a user in this program's process, when the user is there    *)
(* again, runs into an assertion of a debug build.                         *)
AdminStep(a) ==
  \/ /\ Queries(a) \/ Writes(a) \/ Checks(a)
     /\ UNCHANGED <<owner, blame>>
  \/ /\ Shares(a) /\ FindsDeleted(a) /\ Checks(a)
     /\ owner' = "aborted"
     /\ Blames("readded", TRUE)

(* Bound: calls are made once the service is up.                           *)
AdminCalls ==
  /\ \E a \in Admins, c \in Calls, user \in Users :
       /\ owner = "idle" /\ worker = "working"
       /\ \A i \in DOMAIN Sides : guarding[Sides[i]]
       /\ Calling(a, c, user)
  /\ UNCHANGED <<use, serviceVars, clientVars, ownerVars, workerVars>>

AdminActs(a) ==
  /\ AdminStep(a)
  /\ UNCHANGED client
  /\ Remembers
  /\ UNCHANGED <<use, serviceVars, call, side, starts, ready, workerVars>>

ClientAsks ==
  /\ \E c \in Clients, s \in AllSides : Asks(c, s)
  /\ UNCHANGED <<use, authenticatorVars, ownerVars, workerVars>>
  /\ Remembers

GuardActs(s) ==
  /\ UNCHANGED <<use, authenticatorVars, ownerVars, workerVars>>
  /\ GuardStep(s)

OwnerCalls ==
  \/ \E c \in {"initialize", "start", "stop", "leave"} : CallsTo(c)
  \/ Allows \/ Pauses

OwnerActs ==
  Opens \/ Looks \/ Told \/ Cuts \/ TellsGuards \/ Joins \/ JoinsGuards \/ Binds
    \/ Spawns \/ Rests

WorkerActs ==
  WorkerBegins \/ WorkerReady \/ WorkerLeaves \/ WorkerObeys \/ WorkerFinishes

Next ==
  /\ Lives
  /\ \/ OwnerCalls \/ OwnerActs \/ WorkerActs
     \/ \E s \in AllSides : GuardActs(s)
     \/ AdminCalls
     \/ \E a \in Admins : AdminActs(a)
     \/ ClientAsks

Spec == Init /\ [][Next]_vars

(* Every thread goes on when it can.  Nobody has to make another call or   *)
(* to connect.                                                             *)
FairSpec ==
  /\ Spec
  /\ WF_vars(Lives /\ OwnerActs)
  /\ WF_vars(Lives /\ WorkerActs)
  /\ \A s \in AllSides : WF_vars(Lives /\ GuardActs(s))
  /\ \A a \in Admins : WF_vars(Lives /\ AdminActs(a))

-----------------------------------------------------------------------------
(* With keys (CURVE), a client is let in only if at some moment of its     *)
(* waiting the table held its key for a user with enough privileges, and   *)
(* sent away only if at some moment it did not, whatever is added, updated *)
(* or deleted meanwhile; or if another process had locked the file, which  *)
(* looks like an empty table (isValid(), updateUser() and deleteUser()).   *)
HandshakeFits ==
  use.level = "Stonehouse" /\ use.table # "none" =>
    \A c \in Clients :
      /\ client[c] = "admitted" => TRUE \in moments[c]
      /\ client[c] = "refused" =>
           FALSE \in moments[c] \/ \E a \in Admins : ~Shares(a)

(* A user's row is changed only by a call about that user, though calls    *)
(* look the identifier up first and write later, without the mutex.        *)
UpdatesTheNamed ==
  [][\A user \in Users :
       Named(user.name)' # Named(user.name) =>
         \E a \in Admins : admin[a].at = "writing" /\ admin[a].user.name = user.name]_vars

(* The service implements its promise (ServicePromise).  A thread that has *)
(* left is none, though it is not joined yet, and a program that has ended *)
(* has none.                                                               *)
Worker == [role |-> "worker", side |-> ""]
Guard(s) == [role |-> "guard", side |-> s]

Team == {Worker} \cup {Guard(Sides[i]) : i \in DOMAIN Sides}

Threads ==
  {t \in {Worker} \cup {Guard(s) : s \in AllSides} :
     /\ Lives
     /\ t = Worker => worker \notin {"none", "left"}
     /\ t # Worker => guard[t.side] \notin {"none", "left"}}

Phase ==
  CASE owner \in {"opening", "hung", "binding"} -> "down"
    [] owner = "idle" -> IF Threads = {} THEN "down" ELSE "up"
    [] owner \in {"looking", "telling", "cutting", "guards", "joining",
                  "joiningGuards"} -> "stopping"
    [] owner \in {"spawning", "resting"} -> "starting"
    [] owner \in {"failed", "aborted", "left"} -> "over"

Promise == INSTANCE ServicePromise WITH
  team <- Team, phase <- Phase, threads <- Threads, fate <- client

(* The service is up with its whole team between a start() that returned   *)
(* and the call that stops it; threads end, and clients lose their places, *)
(* only during that call, which leaves no thread and nobody waiting.       *)
PromiseSpec == Promise!Spec

(* The owner is in a join that cannot end.                                 *)
Stuck ==
  \/ owner = "hung"
  \/ /\ owner = "joining" /\ worker \in {"working", "resting"}
     /\ IF Steerable THEN control = << >> ELSE running
  \/ /\ owner = "joiningGuards"
     /\ \E s \in AllSides : guard[s] = "polling" /\ pipe[s] = << >> /\ zap[s] = << >>

(* The program ends by itself only when a service was started again        *)
(* without initialize(), when stop() came too early, when sockets were     *)
(* disconnected under the worker, when a paused proxy was started, or when *)
(* a deleted user was there again; and a stop never returns only when it   *)
(* came too early, when the proxy had been sent a command before, or when  *)
(* a table could not be created.                                           *)
EndsForCause ==
  /\ owner = "aborted" =>
       paused \/ blame \cap {"restart", "early", "crossed", "readded"} # {}
  /\ Stuck => blame \cap {"early", "deaf", "creation"} # {}

(* Every call of the owner returns: stop() finds both threads and they     *)
(* come, unless it was too early, the proxy was deaf or the table could    *)
(* not be created.                                                         *)
OwnerReturns ==
  (owner # "idle") ~>
    (owner = "idle" \/ ~Lives \/ blame \cap {"early", "deaf", "creation"} # {})

(* Who waits for an answer gets one, or its socket is gone.                *)
AskedIsAnswered ==
  \A c \in Clients : (client[c] = "asking") ~> (client[c] # "asking" \/ ~Lives)

=============================================================================

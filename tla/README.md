# Verification of UMPS

UMPS is a message hub for seismic processing: an operator process runs proxies
and services over ZeroMQ, and modules (processes of their own) find one another,
exchange data and take commands through it. This directory holds TLA+ models of
the parts of UMPS whose correctness depends on the order of things, the TLC
configurations that check them, and proofs that TLAPS checks.

1. [Inventory](#inventory): the system's parts, their state, what is hard, what makes each correct
2. [The plan](#the-plan): modules and theorems, done and to come
3. [Remote command](#remote-command-the-command-proxy): the model of the command proxy
4. [Local command](#local-command): the model of the local command service
5. [The hub](#the-hub): the operator, the process manager, the heartbeat
6. [Services and authentication](#services-and-authentication): services with their threads, users, clients that connect
7. [The library](#the-library): messages, options, sockets, credentials inside a program
8. [Runs](#runs): what each shows, the bounds, the fairness
9. [Proofs](#proofs)
10. [Divergences](#where-the-code-and-its-documentation-part)
11. [Not modelled](#not-modelled)

Paths are relative to the repository. Run TLC as `tlc -config X.cfg M`, the
proofs as `tlapm M_proofs.tla`.

## Inventory

| Part | State it keeps | Operations | Talks to |
|---|---|---|---|
| **Command proxy** `src/proxyServices/command/proxy.cpp` | map from ZeroMQ address to module, three queues, the running flag; owner, poller and pinger threads | start, stop, register, deregister, route a request or an answer, list modules, ping, evict, terminate all | repliers (backend ROUTER), requestors (frontend ROUTER) |
| **Command replier** `replier.cpp`, `replierProcess.cpp` | registered or not, running flag, a poll thread | start (register), poll, stop (deregister) | the proxy; the module's callback |
| **Command requestor** `requestor.cpp`, `uRemoteCommand.cpp` | a REQ socket | four kinds of request, each with a time-out | the proxy |
| **Local command** `services/command/service.cpp`, `moduleTable.cpp`, `messaging/requestRouter/router.cpp`, `uLocalCommand.cpp` | the SQLite table of modules and the IPC files, both shared by all processes; the router's flag and thread | initialize, start, stop, destroy; list, connect, command, quit | other processes through the table and the files; clients through the socket; the process manager through the callback |
| **Operator** `modules/operator/operator.cpp` | the sets of used addresses and of free ports, the hub's proxies and services | read the ini file, allocate addresses, start and stop everything in order | all proxies and services |
| **Process manager** `modules/processManager.cpp` | the map of processes, the stop request, the signal flag | insert, start, stop, wait in the main thread | processes, which call back to request a stop |
| **Authentication** `authentication/service.cpp`, `sqlite3Authenticator.cpp`, `grasslands.cpp` | black list, white list, user table; a PAIR pipe; the service's flag | start, stop, answer ZAP requests | the sockets of every proxy |
| **Router-dealer proxies** `messaging/routerDealer/proxy.cpp`, `proxyServices/proxy.cpp` | flag, thread, control socket | start, stop | services behind them |
| **Broadcast proxies** `messaging/xPublisherXSubscriber/proxy.cpp`, `proxyBroadcasts/proxy.cpp` | flags, thread, control socket | start, pause, resume, stop | publishers, subscribers |
| **Heartbeat** `proxyBroadcasts/heartbeat/` | status record, a queue between two threads | set the status, publish, subscribe | a broadcast proxy |
| **Connection information** `services/connectionInformation/` | a map from names to connection details | add, remove, answer a query, look a socket up | the operator's thread, the router's callback, clients |
| **Request and reply** `messaging/requestRouter/`, `messaging/routerDealer/`, `include/private/messaging/requestReplySocket.hpp` | a REQ or a REP socket, flags, a polling thread | initialize, request, start, stop, disconnect | each other through a router or a proxy |
| **Publish and subscribe** `messaging/publisherSubscriber/`, `messaging/xPublisherXSubscriber/publisher.cpp` | a PUB or SUB socket, the formats handled | initialize, send, receive | each other, a broadcast proxy |
| **Values** `messageFormats/`, option classes, `authentication/user.cpp`, `authentication/certificate/`, `authentication/zapOptions.cpp` | fields behind `pImpl`, cached hashes, key files | setters, clear, to and from a message, parse, apply to a socket | all of the above |
| Logging, Python bindings, examples | | print, forward | |

What is hard about them:

- **Three threads, one map.** The proxy's poller inserts and erases entries of
  the map that the pinger walks without its lock (`proxy.cpp:490`). The pinger
  collects what it will evict during the walk and erases it after (`:522`).
- **A name is unique, the map's key is the address.** Registration has to look for the name
  before it inserts under the address (`:868-871`); two addresses compete for one name.
- **Answers out of step.** A replier takes the first message after its
  registration for the answer to it; a registration that timed out is answered
  later (`replier.cpp:230`). A requestor that timed out is refused by its socket.
- **Ends that overtake starts.** Threads set their own running flag; a stop that
  comes before that is forgotten. The pattern recurs in the router, the
  authentication service and both kinds of proxy.
- **Shutdown while others speak.** The proxy tells all modules to terminate and
  waits for their answers, at most five quiet seconds; the pinger may still evict.
- **State that outlives processes.** Rows and IPC files of killed processes, the
  process identifiers in them given to other programs, SQLite statements of
  several processes between one another.
- **Strict sockets.** A REQ socket that timed out, or whose answer nobody reads, sends
  nothing more; a REP socket whose callback failed receives nothing more.
- **Calls in any order.** Setters that check one field against another, caches that a
  setter must drop, sockets that keep what an earlier `initialize()` gave them.
- **Unlocked reads.** The connection map, the heartbeat's status and the stop
  request are read outside the lock they are written under, or without one.

What makes each correct:

- *Command proxy*: a name has one owner; it changes hands only through being free;
  an owner that serves is not dropped in silence, nor without being told; dead
  owners are evicted; a shutdown ends.
- *Replier and requestor*: at most one answer, to the question asked; a request is
  lost only with one of its peers.
- *Local command*: a module that runs is found; a crash does not block its
  return; orderly ends leave nothing behind; whoever asks a module to stop is
  answered, and the module stops.
- *Operator*: no address is given out twice; exhaustion is reported.
- *Process manager, authentication, proxies*: no stop is lost, no join waits
  forever, threads end before what they use.
- *Heartbeat*: a published status is one that was set; "Disconnected" is the last word.
- *Request and reply*: an answer belongs to its request; a socket has one user.
- *Publish and subscribe, values*: what is read is what was packed; options that a
  component accepts fit together; a password matches exactly its hash.

`PROJECT.json` lists the hazards one by one, each at its line, with the
properties that watch it.

## The plan

Most important first. A component's module is written so that it can be proved
about: parameters are constants with named assumptions, an operation is an
action, no operator is declared RECURSIVE.

| | Module | Status |
|---|---|---|
| 1 | `ModulesMap`, `CommandNetwork`: data and transport of the command proxy | done |
| 2 | `CommandProxy`, `CommandReplier`, `CommandRequestor`; `RemoteCommand` composes them with a clock | done |
| 3 | `ModuleDirectory`: the abstract specification that `RemoteCommand` implements | done, proved |
| 4 | `RemoteCommand_proofs`, `Eviction_proofs`, `Directory_proofs`, `Requests_proofs` | done |
| 5 | `ModuleTable`, `LocalCommand`: the local command service; `LocalCommand_proofs` | done, proved |
| 6 | `Authenticator`, `AuthenticationService`, `GuardedService`: the table of users, the thread that answers for it, and each kind of service that it guards; `ServicePromise`: the abstract specification that it implements; `GuardedService_proofs` | done, proved |
| 7 | `ProcessManager`, `Heartbeat`, `OperatorPorts`; `Hub` composes them into the operator and a module; `Hub_proofs` | done, proved |
| 8 | `ValueClass`, `MessageClasses`, `ConnectionDetails`, `OptionClasses`: values class by class | done |
| 9 | `Delivery`, `Configuration`, `RequestReply`, `Credentials`; `Library` puts them side by side; `Library_proofs` | done, proved |

"Proved" means the safety properties: each of the runs' invariants, action
properties and refinements is a theorem. The liveness properties are checked on
instances.

Abstract specifications: the directory of leases (for 2), and a service that is *up*
between a start that returned and the stop that ends it (for 6). Both are checked and proved.

## Remote command (the command proxy)

    requestor --REQ--> frontend ROUTER [ poller ] backend ROUTER <--DEALER-- replier
                                          |  ^
                             ping responses  ping and terminate requests
                                          v  |
                                       [ pinger ]

**`ModulesMap`** is class `Module` and class `ModulesMap`: a function from
registered addresses to entries. An entry keeps the module's name and instance
(one value), how long it has been silent (the code keeps the time of its last
answer) and the rungs it was pinged on (one Boolean per rung in the code). Ages
saturate just above the time-out: every longer silence is treated alike.

**`CommandNetwork`** is ZeroMQ, as the code uses it: a pair of FIFO channels per
connection; what is sent to a peer that is gone is dropped. Only this module and
the parts of `LocalCommand` marked external are not translated from `src/`.

**`CommandProxy`** is `ProxyImpl`. `poller` and `pinger` say where each thread is in
`runPoller` and `runModulePinger`; a step is what a thread does between two points
where the other could see a difference. The poller goes round frontend, backend,
pings, terminates; when `running` is false it evicts all, awaits answers, and is
done. The pinger naps, drains the ping responses, walks the map, kills, and naps.
`toVisit` is what is left of the walk. When the poller changes the map during a
walk the C++ behaviour is undefined: the rest of the walk is then any subset of
the entries left (`WalkDisturbed`), which covers iterators that skip, repeat a place
or stop early; it does not cover a crash.
The owner's `Start` and `Stop` include the joins of these two threads; those that authenticate
peers are in `GuardedService`. A registration's look-up and insertion, two locks in the code, are
one step, since only the poller inserts. A restart finds the
map and the queues as the earlier run left them, as in the code.

**`CommandReplier`** is `Replier`: `start()` registers and takes the first message
it gets for the answer, the poll loop answers pings, requests and terminate
requests, `stop()` deregisters and discards messages up to a registration
response. The process may end at any moment, and what it had sent may have
arrived in part. `told` is a history of who was handed a terminate request.

**`CommandRequestor`** is `Requestor`: ask, wait, be answered or time out; a
requestor that timed out is stuck, because its REQ socket expects the answer.

**`RemoteCommand`** composes them. `Tick` lets time pass between two passes of the
pinger, as far as no connection has more than `MaxInFlight` messages under way (a
bound).

**`ModuleDirectory`** is what the registry promises: leases on names. Claim a free
name; lose it when one gave it up, was told to terminate or never learned to have
it, or after a silence longer than `Patience`. `DirectorySpec` maps `owner` to the
address registered for a name, `silence` to the entry's age, `serving` to repliers
that believe in their registration and were not told to stop. That `serving` is in
the mapping makes the refinement strong: an eviction that leaves a serving
replier behind in silence is no step of the directory.

The properties, beyond `TypeOK`:

| Property | Says |
|---|---|
| `UniqueModule` | two addresses never hold one name |
| `LadderClimbed` | rungs are marked in order, and below the silence |
| `KillsOnlyOverdue` | what the pinger erases after its walk is the entry it saw overdue, not a successor's |
| `NoUntoldOrphan` | a serving replier is in the map, or a terminate request is on its way to it |
| `DirectorySpec` | the system implements the directory of leases |
| `AtMostOneAnswer`, `AnswerFits`, `LostOnlyWithPeer` | what becomes of a request |
| `DeadModuleEvicted`, `ShutdownCompletes`, `EveryRequestSettles` | liveness |

## Local command

**`ModuleTable`** is the table `local_modules`: one operator per SQL statement. The
C++ mutex is local to a process and orders nothing between processes.

**`LocalCommand`** is the life of processes that share the table and the directory
of IPC files. `place[p]` is how far a process is:

    absent -> initialized -> querying -> checking -> updating -> overwriting -> running
          \-> hung        \-> adding ------------------------------------------/
    initialized, refused, running -> joining -> deleting -> dropping -> closing -> gone

`Initializes` is `Service::initialize` (open the table, bind the file: `endpoint` is
who bound it last); `hung` is an open whose CREATE TABLE fails, which closes the
table under the mutex it already holds. From `initialized` to `running` is
`start()`, one statement per step: is there a row, read it, does the process in it
exist (`kill(pid, 0)`), is the row still there, write it. An exception leads to
`refused`: the process manager catches it, and the process lives on without a
service. `Stops`, `Joins`, `DeleteLooks`, `Drops`, `Leaves` are `stop()`, the destructor
and the router's destructor: the row is deleted by name, the file by address,
whoever owns them. A statement fails when another process may be in one (`Busy`;
no busy handler is set); in a destructor that ends the process
(`DestructorThrows`). `router[p]` and `handling[p]` are the router's thread, which sets its
running flag itself (`RouterServes`) and calls the callback between receiving a
request and answering it. `Crashes` kills a process at any step, `Recycles` gives
its identifier to another program. A client connects to a listed module whose
file exists, asks for the commands, issues some, and hangs up or quits (which asks
the module to terminate); a time-out is a null pointer that the program
dereferences. `overlapped` is a history of the names of which two processes were
alive at once; no step depends on it.

| Property | Says |
|---|---|
| `ReachableIfExclusive` | while the processes of a name succeed one another, a running one is listed and its file is its own, whatever died at which step before |
| `RefusedForCause` | and its start is refused only for a locked table or a recycled identifier |
| `CleanExitLeavesNothing` | when all processes of a name ended in order, however they overlapped, no row and no file is left |
| `DisplacedByStaleStart` | a running module's row is taken only by a destructor, or by a start that looked at an earlier owner |
| `TerminateIsAnswered` | a process does not end while its callback's answer is unsent |
| `StopEnds` | a requested stop ends the process, unless the router's thread set its flag after the stop |

The exception in `StopEnds` is a real one: `ServiceImpl::stop` (`service.cpp:105`)
asks the router to stop only when the router says it runs.

## The hub

**`OperatorPorts`** is how the operator reads its ini file: one operator per function
from `makeNextAvailableAddress` to `parseIniFile`, on the state that the code passes
along (free ports, used addresses, options so far). An address is a number; the
setters that refuse equal addresses are part of it, since their exceptions end the
program.

**`Heartbeat`** is `PublisherProcess`: a thread that stamps and pushes the status, a
thread that sends what the queue holds between "Alive" and "Disconnected", and a module's thread that may
replace the status while the other copies it without the mutex (`CopiesFreedStatus`,
undefined behaviour: the program may crash or go on). `wire` is what the publisher thread handed to
its broadcast's socket; a send that fails is logged, and the message is gone for receivers.

**`ProcessManager`** is `ProcessManager`: `insert`, before the start and after it, `start`,
the main thread that looks, waits and wakes, signals, the callback with which a
process asks to stop, `stop` and the joins. `heard` and `unheard` are histories of requests
that came with and without the callback being set. The thread that answers commands is
`spawned` before it is `serving`: the operator's router sets its running flag in that thread
(`CommandsServe`), a module's replier before it has one. `StopsCommands` tells and joins the thread only
if it finds the flag set (`operator.cpp:401`, `services/command/service.cpp:105`); otherwise it passes
on, and `untold` records that a thread was there. The operator's destructors (`Destroys`, `Releases`)
look at the flag again, and join in any case.

**`Hub`** composes them into two programs. The operator's `main` goes

    parsing -> authenticators -> directory -> binding -> listing -> launching
      -> (binding -> launching -> listing)* -> binding -> processes
      -> ... the process manager ... -> managed -> (closing -> halting)* -> closing
      -> destroying -> releasing -> left

(the module registry is listed before it is started, the other proxies after, and only its
exception is not caught) and a module's goes from `processes` to `managed` and `left`. A join of a
thread that was stopped before it had set its flag never returns (`hung`): of a proxy, of the directory, or,
in the destructors, of the command service. What the destructors do after an exit with `failed`
is left out. `proxies[i]` is how far each proxy is, `listed` the names in
the connection information, `directory` its router's thread, which may be reading the map
while `main` removes from it. `aborted` is an exception nobody catches, a crash or a debug
assertion; `failed` is an exit that `main` chose; `hung` a join that never ends.

| Property | Says |
|---|---|
| `AddressesDistinct` | in every file that leaves the block enough ports, no two sockets get one address |
| `ListedIsServed` | a listed connection is that of a proxy whose thread was started and not joined |
| `EndsForCause` | a program ends in an error only for the file, the machine, or one of the named races |
| `WireGrammar` | the heartbeat reads Alive, statuses in order and once each, Disconnected |
| `NothingOutlives` | when the process manager has stopped, the heartbeat's threads are joined and Disconnected was its last word, and the command thread is joined unless the stop overtook it (`untold`); after `main` no thread runs, that one included |
| `StopRequestHeeded` | a request to stop that was heard takes `main` to its end, or to the join of a thread that the stop overtook |

## Services and authentication

**`Authenticator`** is `SQLite3Authenticator` and what it asks of SQLite. `addUser` holds the
mutex over its look-up and its write, `updateUser` and `deleteUser` do not; an administrator in
another process finds the file locked, which to a query looks like an empty table.

**`AuthenticationService`** is the thread of `authentication/service.cpp`: it binds, sets its
flag, polls the pipe and the ZAP socket, takes a message of the one and then a client of
the other, and leaves on TERMINATE. `moments[c]` is a history of whether a client was
entitled at each moment of its waiting.

**`GuardedService`** puts a worker and one or two such threads under an owner who calls
`initialize`, `start`, `stop` and the destructor. `use.kind` is the kind of service (router-dealer
proxy, xPub-xSub proxy with one or two authentications or by itself, connection
information); the kinds differ in when flags are set, whether the worker is told by a flag
or over the control socket, in what order threads are made, and in whose thread sockets are disconnected.
`blame` is a history of what the owner did that the code does not survive: a stop before the
thread has set its flag, a start without `initialize`, a second command to a proxy, sockets
disconnected under the worker, a table that cannot be created, a user added again
while being deleted.

**`ServicePromise`** is what an owner and a client may rely on, without flags, pipes or control
sockets: a service is `down`, `starting`, `up` or `stopping`. A start makes the threads of its
team and the service is up with the last of them; a thread ends, and a client loses its place,
only while the service is being stopped; a stop returns when no thread is left and nobody waits; or the
program ends, and all of it at once. `GuardedService` implements it: `Phase` follows from
the place of the owner (an idle one's service is up if it has threads), `Threads` are the worker and the
guards that were made and have not left, as long as the program lives, and `client` is the fate.
What the detail may do and the promise allows is never to return, or to end the program;
`EndsForCause` says for which causes.

| Property | Says |
|---|---|
| `PromiseSpec` | the service implements its promise |
| `HandshakeFits` | a client with a key is let in, or sent away, as the table was at a moment of its waiting |
| `UpdatesTheNamed` | a user's row changes only by a call about that user |
| `EndsForCause` | no abort and no endless join but for one of the causes in `blame` |
| `OwnerReturns` | every call of the owner returns, the same causes apart |
| `AskedIsAnswered` | who waits for the authentication gets an answer, or its socket is gone |

## The library

What a program uses inside its own process. UMPS writes its values alike: fields behind
`pImpl`, setters that keep, change or refuse what they are given, `have...()`, `clear()`, and for
messages a conversion through the getters and back through the setters.

**`ValueClass`** is that pattern: a class is the function of its fields, a field is its first
value and, per value offered, the set of what the setter keeps (empty when it throws).
**`MessageClasses`**, **`ConnectionDetails`** and **`OptionClasses`** are the classes of `src/`, a few lines each.
Where a class departs from the pattern its definition says so: a setter that
compares two fields, a `clear()` that keeps one, a conversion that loses a field.

**`Delivery`**: a program makes an object, sets fields in any order, sends it as two
frames when the class can pack it; a subscriber has a registry of formats, takes a copy of
it in `initialize()` and unpacks what comes. **`Configuration`**: options are set, cleared and parsed
from a file in any order, and a component is initialized with them.
**`RequestReply`**: clients with strict REQ sockets, services with strict REP sockets and
a polling thread, time-outs, reconnection, late answers, callbacks that fail, and the look-up
of a socket by name. **`Credentials`**: a user with a cached password, an account with
cached hashes, keys and their files, security options made of them and applied to a
socket. **`Library`** runs each part by itself: they share no state.

| Property | Says |
|---|---|
| `DeliveredAsSent` | what is received has the fields that were sent; `receive` throws only for a dropped format or the stamp of a cleared status |
| `OptionsFit` | in any order of calls, options that `initialize` accepts fit together; where only one setter compares, the exception is named |
| `AnswersOwnRequest` | an answer is to the request just made, also after a time-out and a reconnection; a look-up finds what was listed |
| `SocketHasOneUser` | one polling thread at most, and none while the socket is disconnected or connected |
| `CredentialsHold` | the cached password and hashes are never stale; no order of setters leaves options that cannot be applied |

## Runs

| Run | Instance | Shows |
|---|---|---|
| `takeover` | 2 connections, 1 name, 1 rung, 1 start | competition for a name under pings, eviction, shutdown, crashes |
| `lifecycle` | 1 connection, 3 registrations, 2 rungs, 2 starts | late answers, restarts, the ladder |
| `requests` | 2 connections, one of which retries, 2 names of which one is not there, 1 client, clock stopped | where a request can be and be lost, and that answers fit |
| `progress` | 1 connection, 1 client, fair | eviction and shutdown end, requests settle |
| `local_command` | 3 processes of a name, 1 client, fair | the properties of `LocalCommand` |
| `hub` | 22 ini files with up to three proxies and blocks of one to eight ports, and a module; 2 statuses; fair | the properties of `Hub` |
| `services` | every kind of service with up to 2 starts, 1 or 2 clients; a table under 2 administrators with 3 calls; fair | the properties of `GuardedService` |
| `library` | every class of messages and of options, 3 calls; 2 clients, 1 service, 2 requests, connections and starts each | the properties of the library's parts |
| `thread_safe_map`, `ping_ladder`, `told_on_stop`, `local_overlap` | small | the divergences below |

**Why the bounds are enough.** `MaxStarts` (starts of the proxy), `MaxAttempts`
(registrations per connection), `MaxInFlight` (messages under way while the clock
may tick) are bounds on the model, named as constants. A conflict over a name
needs two connections; a third adds no new kind of step. One client suffices,
since clients meet only in the poller, which takes one message at a time. A late
answer needs a second attempt, and to be followed by another late one a third. The
restart hazards need one restart. Two rungs tell "in order" from "once". With
`MaxInFlight` zero the clock does not tick: the request runs have no eviction by age,
but owners change there by deregistration and termination. For `LocalCommand`, a
takeover that is overtaken needs three processes (the dead owner, the successor,
the start that still believes in the dead one). A client holds one session. For `Hub`, the
files are chosen so that each clash happens: a proposal inside the block, at the
directory's port or beyond it, equal names, a registry named like the directory, too few ports, a
block that starts below the first port allowed, no address, an occupied port, no heartbeat, no table; `MaxStatuses` (statuses pushed) is two, enough for one to be overtaken. For
`GuardedService` a second start meets what the first one left; three calls of two
administrators let a row be looked up, deleted and added again under another
identifier. For the library, three calls reach every pair of setters and what follows;
two requests tell a late answer from the right one, two connections an old one
from the new; texts, numbers and stamps have one value for every case their setters and
comparisons tell apart. A part of the library starts with the key files that matter
to it (`FirstFiles`). A
deadlock is a legal end everywhere (all processes gone), so it is not checked;
the liveness properties look for the bad ones.

**Fairness.** `RemoteCommand`'s `Fairness`: both threads of the proxy run; the clock
ticks between two passes of the pinger (it sleeps 100 ms there; strong fairness, as
the bound can suspend ticks); a live replier reads and its callback returns; a
ROUTER socket takes its peers' messages in turn (strong fairness per peer, as
others' messages come between); a requestor reads an answer that is there. Nobody is
obliged to start, stop, ask, retry, leave or time out. `LocalCommand`'s: the router's
thread and the main thread of each process run, and the main thread carries out
a stop it was asked for; nobody is obliged to launch, crash, connect or quit.
`Hub`'s: all threads of a program run (the command service's comes to set its flag), and one that needs a mutex that others take and
give back gets it some time (strong fairness for the main and the heartbeat's threads); nobody
has to send a signal, a command or a request. `GuardedService`'s: every thread goes on
when it can (weak fairness); nobody has to make another call or to connect.

**Mutants.** Beside the definitions there are mutated forms of some of them
(marked as such): a dropped guard, a missing reset. Each property is violated when
the definition is replaced by its mutant: the property can fail.

## Proofs

Each theorem holds for every value of the constants that the named assumptions of the
modules allow. An inductive invariant was checked by TLC on the run's instance before
it was proved; it is the conjunction of the parts named below, and each step is one
lemma or one case per action.

**Remote command**, for any sets of connections, modules and clients, any
increasing ladder of intervals and any bounds.

`RemoteCommand_proofs`:

- `TypeInvariant`. One lemma per part (`PingerTypes`, `BackendTypes`,
  `PollerTypes`, `ReplierTypes`, `RequestorTypes`) says that its steps keep the
  types, from lemmas about the map's operators (`InsertProperties`,
  `EraseProperties`, ...) and about the channels (`SentTypes`, `ChannelTypes`).
- `UniqueModuleInvariant`. `MapChanges` lists what a step can do
  to the map: add a name that is not there, drop an entry, or change the other
  fields of entries. Each keeps names unique. The invariant is inductive with `TypeOK`.
- `LadderClimbedInvariant`. `NextRungProperties` shows that the rung marked
  is the least that is due; with intervals that increase (`IntervalsAssumption`) all lower rungs
  are marked already. The lemma `LadderBounds` keeps the saturated ages above every interval.

`Eviction_proofs`:

- `KillsOnlyOverdueInvariant`. The pinger erases after its walk what it saw during it, and the
  poller registers and erases meanwhile. `KillOK`: an address that the pinger collected is in the map
  and still overdue, or not there and never again (`NeverAgain`), and it was collected once. That a
  module which deregistered does not register again through the same connection is
  `RepliersOK`: behind its last words in the channel no registration follows.
- `NoUntoldOrphanInvariant`. `AwareOK`, for a replier that serves *or may still read a grant*:
  if it was dropped, or is in the pinger's kill queue, a terminate request is queued for it, or in its
  channel with no grant behind. Without the second half the invariant is not
  inductive: a late answer to a registration would make a dropped replier serve.

`Directory_proofs`: `ImplementsDirectory`, `Spec => DirectorySpec`, the refinement. The owner of a
name and its silence are functions of the map, so there is a lemma for each way in which
the map changes, and each is a step of the directory or none. That an
erasure is a release or an expiry needs `NoUntoldOrphan` and `KillOK`; that it concerns one name
needs `UniqueModule` and `Faithful` (an entry is about its connection's module).

`Requests_proofs`: `AtMostOneAnswerInvariant`, `AnswerFitsInvariant`, `LostOnlyWithPeerHolds`. `RequestsOK`
says where the one request of a client can be, among the channels of all clients and
modules (`Whereabouts`), and what it is about there (`ContentOK`); `RepliesNamed` that a channel
carries answers of its own module only. Most steps leave a channel with what
it had of a client, or less (`NoMore`).

**Local command**, `LocalCommand_proofs`, for any processes, names and clients. The four
invariants and both action properties:
`TypeInvariant`, `TerminateIsAnsweredInvariant` (with `RouterOK`: where the router's thread can be),
`DisplacedByStaleStartHolds` (with `RowsOK`: a row, and what a start has read, is of a process of that
name that did start), `CleanExitLeavesNothingInvariant` (with `OwedOK`: while there is a row or a
file, a process that is not past the step that removes it, or that crashed),
`ReachableIfExclusiveInvariant` and `RefusedForCauseHolds` (with `ExclusiveOK`: a
process that shares its name with no living one finds the row as it left it).

**Services and authentication**, `GuardedService_proofs`, for any services, starts, clients, users
and administrators:

- `TypeInvariant`.
- `UpdatesTheNamedTheorem`. `updateUser()` and `deleteUser()`
  look a row's identifier up and write to that row in a later step, without the mutex; in
  between the row may be deleted and its user added again. `RowsFit` adds that the row with
  the identifier an administrator holds, if it is still there, is a row of the user of its
  call. It is kept because identifiers only grow (`RowsOK`). `OneUserAssumption` says that a
  table starts with one user at most.
- `HandshakeFitsInvariant`. `WaitingOK`: a client that asks is in one place, with one
  guard. `MomentsOK`: what the table says of it now is among the moments of its waiting,
  whatever administrators do to the table.
- `EndsForCauseInvariant`. `WorkerOK` and `SidesOK` say where the worker and the guards can be for
  each place of their owner, `StoppedOK` and `DismissedOK` what `stop()` has reached once it joins: a
  thread without its flag, or with TERMINATE to read, unless `blame` has the reason why not.
- `ImplementsPromise`, `Spec => PromiseSpec`, the refinement. Three things are not in the invariants
  above. That a thread leaves only while the owner stops the service is not visible in the step in
  which it leaves: it was steered, or read TERMINATE, some steps before. `WorkerEndsOK` and
  `GuardsEndOK` follow that command from the owner through the socket or the pipe. That an idle
  owner has its whole team or no thread is `TeamOK`, which needs that a stop made them
  all leave (`StoppedOK`, `DismissedOK`). That nobody is left asking when the guards are joined is
  `PlacesOK`: who asks has a place with a guard that still answers, and a guard that leaves empties
  its places. There is one lemma for each group of steps; each is a step of the promise or none.
- `WholeInvariant`, from the promise alone: an idle owner's service has all of its threads, or
  none and no client that waits.

**The hub**, `Hub_proofs`, for any files that the reader can produce (`IniAssumption`) and any
number of statuses:

- `TypeInvariant`, with `PlacesInv` for the places of both programs.
- `AddressesDistinctInvariant`. The parser visits the sections in order; `HasRoom` counts that the
  free ports left are at least two for each section still to come, and each pair takes at
  most two that others could have (`SocketsOK` has the sockets made so far). `LeastIn` and `GreatestIn`
  give the bounds of a set of ports, from well-founded induction on the naturals.
- `ListedIsServedInvariant`. `RunningOK` and `ListedOK` say, for each place
  of `main`, which proxies run and which names are listed: the list is behind the proxies at
  start-up and ahead of them at shutdown.
- `NothingOutlivesInvariant`, from those, from `BeatOK` below and from `CommandsOK`: a thread that
  serves or asks has its flag set until a stop finds it (`FlagOK`), and once the process manager has passed it,
  it is gone or `untold` (`GoneOK`). So the destructors find at most a thread that was not told, which they tell
  and join, or wait for without end.
- `WireGrammarInvariant`. `WireOK` and `QueueOK` for what is on the wire and in the queue, and
  `BeatOK` for where the heartbeat's threads are.
- `EndsForCauseHolds`, an action property: one lemma per kind of step that can end a program. `NamesOK`
  (names given are names asked for), `KeptOK` (what was listed stays listed until its turn) and
  `BoundOK` (what is bound is an address already reached) exclude the other causes.

**The library**, `Library_proofs`, for any clients, services, connections, lists of details,
passwords, senders, configured classes and files:

- `SocketHasOneUserTheorem`. A thread is spawned only when
  the list of threads is empty, and `OneThread` shows that its own steps keep the list or empty it.
- `AnswersOwnRequestTheorem`. Whatever is under way for a client is the one message its REQ socket
  waits for (`Awaited`), and it is in one place only (`OneMessage`): among the requests, at a
  service, or among the answers. A client that gives up keeps its socket, which refuses to send
  again; were it a new socket, a late answer would pass for the new one's (the
  property's mutant). `LookupFinds` says that the first of a name is there to be found.
- `CredentialsHoldInvariant`, with `PasswordOK`, `HashesOK` and `SecurityOK`: each cached value is that of the
  present field.
- `DeliveredAsSentInvariant`. `Arrives` says of an object that its class reads back what it packed;
  it holds of each class of messages (`ConnectionsArrive` for the nested details, `OthersArrive`), for
  fields that setters kept; `WireCarriesObject` that what is on its way is the sender's object.
- `OptionsFitInvariant`. `OptionsOK`: each field has a value that its setter keeps, and the
  two addresses of a proxy are equal only where `Compared` allows it. `EveryClass`, `ProxyClasses` and
  `ProxyApart` go through the 24 classes; `OptionsParsed` needs the order in which a file's fields are set.

**Assumptions.** They say what the code relies on and nothing that a property could
rest on: values that stand for "none" are not among the values they stand beside
(`AddressAssumption`, `RowAssumption`, `FileAssumption`, `PasswordsAssumption`, `UnsetAssumption`); bounds are natural
numbers; functions have their domains (`DetailsAssumption`, `NameAssumption`); what is
enumerated is of its kind (`UsesAssumption`, `IniAssumption`, `SidesAssumption`, `SendersAssumption`,
`ConfiguredAssumption`). TLC evaluates each on every run whose module extends the one that states it.

**Written for the provers.** `Parsed` sets the fields of a file in the code's order without
recursion: a setter's turn sees those set before it. Alternatives of a CASE exclude one
another. A sorted list of intervals is chosen among the sequences of a set (the code sorts
and drops repeats), since the library's sort is defined through recursion.

**Checked on instances only.** The liveness properties (`DeadModuleEvicted`, `ShutdownCompletes`,
`EveryRequestSettles`, `StopEnds`, `StopRequestHeeded`, `OwnerReturns`, `AskedIsAnswered`):
liveness under fairness and ENABLED are out of the prover's reach. The four runs that end in a violation. Out of reach too are
induction over data and RECURSIVE operators; no module here has one.

## Where the code and its documentation part

Four runs end in a violation by intent; `PROJECT.json` quotes the lines.

- `WalkIsExclusive`: `ModulesMap` is called thread-safe, and the pinger walks it without the
  lock while the poller inserts and erases.
- `EveryRungBeforeEviction`: a ping on every interval is promised before the terminate request; the time-out
  is 100 ms above the longest interval and the pinger naps at least as long, so the last
  ping, or all, can be left out.
- `EvictedIsTold`: a module that is silent is promised a terminate request; one queued by the
  pinger's last pass stays in the queue when the proxy stops.
- `ReachableWhileRunning`: a user is promised to reach an application through the table;
  a second process of its name rebinds its IPC file before it is refused.

Met while modelling, and in the models, without a run of their own:

- *Operator.* When all remaining ports are used elsewhere in the file,
  `makeNextAvailableAddress` returns the last of them instead of throwing
  (`operator.cpp:1073`); `LeavesRoom` excludes it from `AddressesDistinct`. The heartbeat of a module is
  always called "Unknown" (`publisherProcess.cpp`, `mModule`). A stop right after the start does not reach the
  command service (`operator.cpp:401`), and its destructor may wait forever; the same holds
  of the proxies (`hung`), and `NothingOutlives` says how far the end is in order nevertheless.
- *Authentication.* With PLAIN the code reads frames 5 and 6 of the ZAP request, which are the
  mechanism and the user (`service.cpp:290`). ALLOW and DENY on the pipe are not
  handled. `updateUser` and `deleteUser` take no lock.
- *Proxies.* `start()` is documented to resume a paused broadcast proxy
  (`xPublisherXSubscriber/proxy.hpp:95`); the REQ control socket refuses the second command.
- *Sockets.* A request that timed out makes the REQ socket unusable, also after
  `initialize()`; `requestRouter`'s `Request` stays initialized after `disconnect()`; a callback
  that fails leaves the REP socket waiting forever; a subscriber that is initialized
  again keeps its old subscriptions and throws for their messages; `Reply::stop` does
  not join; the directory's requestor reports a time-out as "no details found".
- *Values.* `Status::clear` leaves a stamp that `operator>` and the setters scan wrongly;
  `Status`'s `operator>` is to mean "lhs is larger" (`status.hpp:163`), and is true as soon as one part
  of the date is larger (`status.cpp:364-370`): for some pairs in both directions;
  a `User` with a field that is not set is packed as null, which cannot be read;
  `AvailableConnectionsResponse::setDetails` with an empty list keeps the old one;
  the connection information's `ServiceOptions::clear` keeps the security options; the local
  `ServiceOptions::setModuleTable` throws when the directory exists and otherwise keeps the default;
  the local `RequestorOptions::setModuleName` calls `remove_if` without `erase`;
  a socket re-initialized with weaker options keeps the mechanism of the earlier ones;
  `uUserTable` ignores the password of its file.

## Not modelled

Of the modelled parts: `initialize()` of a replier that is still registered (`mRegistered` is kept, and
the new connection is not registered); the bytes of messages (CBOR, JSON text, ini syntax), other socket
options, high-water marks (no
message is lost to a full queue), exceptions for bad frames (a debug build
aborts on a frame count it does not expect; the model is of the release build except
where a debug assertion is named),
duplicates among ping responses (a second one changes nothing). The shutdown's own
walk of the map (`PollerEvictsAll`) is one step: it relies, as the code does, on
the pinger having finished its pass by then. A process of `LocalCommand` runs one service and
initializes it once; of a row only the process identifier is kept, and the UNIQUE
constraint on the file name adds nothing to that of the name it derives from. Reconnection of the
command proxy's peers is a new address. Cryptography is what it promises: a hash stands
for its password, a key is there or not.

Not modelled at all:

- *The black and white lists* of the authenticator: the pipe's commands that would fill
  them are read and dropped, and the black list is never opened by the operator.
- *Files that no target of the build includes*: `modules/module.cpp`,
  `connectionInformation/getConnections.cpp`, `services/moduleRegistry/`, `heartbeat/proxy.cpp` and
  `proxyOptions.cpp`, `private/authentication/zapOptions.hpp`, `private/messaging/replySocket.hpp`.
- *Logging, the Python bindings, the examples, command-line parsing and interactive prompts* of the
  programs (`uRemoteCommand`, `uLocalCommand`, the table and key tools): they print or
  forward one call each and keep no state of their own that a property could be about.

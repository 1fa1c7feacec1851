--------------------------- MODULE MCGuardedService ---------------------------
(* Services of GuardedService for TLC: each kind of service started up to  *)
(* twice with a client or two, a service whose table of users changes while*)
(* a client connects, and one whose clients have passwords.                *)
EXTENDS GuardedService

User(name, key, privileges) ==
  [name |-> name, key |-> key, password |-> "secret", privileges |-> privileges]

Ann == User("ann", "k1", 1)
Anna == User("ann", "k1", 0)
Bob == User("bob", "k2", 1)
MCUsers == {Ann, Anna, Bob}
Client(name, key) == [name |-> name, key |-> key, password |-> "secret"]
MCClients == {Client("ann", "k1"), Client("bob", "k2")}

Use(kind, level, table, times) ==
  [kind |-> kind, level |-> level, table |-> table, starts |-> times, stops |-> TRUE,
   operations |-> 0, sharing |-> {}, users |-> {}, clients |-> {Client("ann", "k1")}]

Lifecycles ==
  {Use(kind, "Strawhouse", "none", 2) : kind \in ServiceKinds}
    \cup {[Use("directory", "Strawhouse", "none", 1) EXCEPT !.clients = MCClients]}

(* One process or two, one of them the program's, or two threads of it.    *)
Administered ==
  {[Use("service", "Stonehouse", "existing", 1) EXCEPT
      !.operations = 3, !.stops = FALSE, !.sharing = sharing, !.users = {Ann}] :
     sharing \in {{"a1"}, {"a1", "a2"}}}

Plain == [Use("service", "Woodhouse", "missing", 1) EXCEPT !.users = {Ann}]

MCUses == Lifecycles \cup Administered \cup {Plain}
=============================================================================

-------------------------------- MODULE MCHub --------------------------------
(* Initialization files of Hub for TLC: blocks of one to eight ports, a    *)
(* required and an optional broadcast and a service, whose addresses the   *)
(* file proposes or not, with names that clash or not.                     *)
EXTENDS Hub

(* The n-th port from the first that the operator takes, or no address.    *)
Port(n) == IF n = 0 THEN NoAddress ELSE FirstPort + n - 1

Section(section, name, front, back) ==
  [section |-> section, name |-> name, front |-> Port(front), back |-> Port(back)]

File(portEnd, registryBack, broadcasts, services) ==
  [program |-> "operator", addressed |-> TRUE,
   portStart |-> Port(1), portEnd |-> Port(portEnd),
   userTable |-> TRUE, guarded |-> FALSE, occupied |-> {},
   registry |-> Section("ModuleRegistry", "ModuleRegistry", 0, registryBack),
   broadcasts |-> broadcasts, services |-> services]

Heartbeat == Section("Heartbeat", "Heartbeat", 0, 0)

(* Another broadcast, named by its section or after the first, with a      *)
(* backend inside the block or at the connection information's address.    *)
Others == {Section("B", "Heartbeat", 0, 0), Section("B", "B", 0, 1),
           Section("B", "B", 0, 6)}

(* A service, named by its section or like the broadcast, with a backend   *)
(* at the port that its frontend will get, or outside of the block.        *)
Services == {Section("S", "Heartbeat", 0, 0), Section("S", "S", 0, 6),
             Section("S", "S", 0, 9)}

HeartbeatOnly ==
  {File(portEnd, back, <<Heartbeat>>, << >>) : portEnd \in {1, 4}, back \in {0, 2}}
    \cup {File(5, 1, <<Heartbeat>>, << >>),
          File(5, 5, <<Section("B", "B", 0, 0), Heartbeat>>, << >>)}

TwoBroadcasts == {File(8, 0, <<b, Heartbeat>>, << >>) : b \in Others}

WithService == {File(7, 0, <<Heartbeat>>, <<s>>) : s \in Services}

Special ==
  LET plain == File(5, 0, <<Heartbeat>>, << >>) IN
  {[plain EXCEPT !.userTable = FALSE, !.guarded = TRUE],
   [plain EXCEPT !.guarded = TRUE],
   [plain EXCEPT !.occupied = {Port(1)}],
   [plain EXCEPT !.occupied = {Port(4)}],
   [plain EXCEPT !.registry.front = Port(9), !.registry.back = Port(9)],
   [plain EXCEPT !.registry.name = CIName],
   [plain EXCEPT !.addressed = FALSE],
   [plain EXCEPT !.portStart = FirstPort - 1],
   [plain EXCEPT !.broadcasts = << >>],
   [plain EXCEPT !.broadcasts = <<Section("uOperator", "B", 0, 0)>>]}

Module ==
  [File(5, 0, << >>, << >>) EXCEPT !.program = "module"]

Files == HeartbeatOnly \cup TwoBroadcasts \cup WithService \cup Special \cup {Module}
=============================================================================

\* Three processes of one module, one after the other or at once, and a client.
CONSTANTS
  p1 = p1
  p2 = p2
  p3 = p3
  a = a
  c1 = c1
  NoRow = NoRow
  NoFile = NoFile
  NoClient = NoClient
  Names = {a}
  Processes = {p1, p2, p3}
  NameOf <- OneModule
  Clients = {c1}
SPECIFICATION FairSpec
INVARIANTS TypeOK ReachableIfExclusive CleanExitLeavesNothing TerminateIsAnswered
PROPERTIES RefusedForCause DisplacedByStaleStart StopEnds
CHECK_DEADLOCK FALSE

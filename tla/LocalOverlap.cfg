\* Two processes of one module and a client.
CONSTANTS
  p1 = p1
  p2 = p2
  p3 = p3
  a = a
  c1 = c1
  NoRow = NoRow
  NoFile = NoFile
  NoClient = NoClient
  Names = {a}
  Processes = {p1, p2}
  NameOf <- OneModule
  Clients = {c1}
SPECIFICATION Spec
INVARIANT ReachableWhileRunning
CHECK_DEADLOCK FALSE

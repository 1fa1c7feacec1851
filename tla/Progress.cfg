\* One connection and a client: requests, eviction and shutdown come to
\* an end.
CONSTANTS
  w1 = w1
  w2 = w2
  c1 = c1
  c2 = c2
  m1 = m1
  m2 = m2
  NoAddress = NoAddress
  NoRequest = NoRequest
  Workers = {w1}
  Modules = {m1}
  Clients = {c1}
  Details <- OneName
  Intervals <- OneInterval
  Slack = 1
  MaxAttempts <- OneAttempt
  MaxStarts = 1
  MaxInFlight = 1
SPECIFICATION FairSpec
PROPERTIES DeadModuleEvicted ShutdownCompletes EveryRequestSettles
CHECK_DEADLOCK FALSE

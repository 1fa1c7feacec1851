\* Two connections compete for one name, with the whole control plane.
CONSTANTS
  w1 = w1
  w2 = w2
  c1 = c1
  c2 = c2
  m1 = m1
  m2 = m2
  NoAddress = NoAddress
  NoRequest = NoRequest
  Workers = {w1, w2}
  Modules = {m1}
  Clients = {}
  Details <- OneName
  Intervals <- OneInterval
  Slack = 1
  MaxAttempts <- OneAttempt
  MaxStarts = 1
  MaxInFlight = 2
SPECIFICATION Spec
INVARIANTS TypeOK UniqueModule NoUntoldOrphan
PROPERTIES DirectorySpec
CHECK_DEADLOCK FALSE

\* setPingIntervals documents a terminate request for a module that does not respond.
CONSTANTS
  w1 = w1
  w2 = w2
  c1 = c1
  c2 = c2
  m1 = m1
  m2 = m2
  NoAddress = NoAddress
  NoRequest = NoRequest
  Workers = {w1}
  Modules = {m1}
  Clients = {}
  Details <- OneName
  Intervals <- TwoIntervals
  Slack = 1
  MaxAttempts <- OneAttempt
  MaxStarts = 1
  MaxInFlight = 2
SPECIFICATION Spec
INVARIANTS EvictedIsTold
CHECK_DEADLOCK FALSE

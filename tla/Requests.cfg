\* A client that asks a module for whose name two connections compete, or one that
\* is not there; the clock stands still.
CONSTANTS
  w1 = w1
  w2 = w2
  c1 = c1
  c2 = c2
  m1 = m1
  m2 = m2
  NoAddress = NoAddress
  NoRequest = NoRequest
  Workers = {w1, w2}
  Modules = {m1, m2}
  Clients = {c1}
  Details <- OneName
  Intervals <- OneInterval
  Slack = 1
  MaxAttempts <- RetryOnFirst
  MaxStarts = 1
  MaxInFlight = 0
SPECIFICATION Spec
INVARIANTS AtMostOneAnswer AnswerFits
PROPERTIES LostOnlyWithPeer
CHECK_DEADLOCK FALSE

\* Each kind of service, and one whose users change while a client connects.
CONSTANTS
  Uses <- MCUses
  Users <- MCUsers
  Clients <- MCClients
  Admins = {"a1", "a2"}
  AllSides = {"front", "back"}
  NoKey = "nokey"
  MinimumUserPrivileges = 1
SPECIFICATION FairSpec
INVARIANTS TypeOK HandshakeFits EndsForCause
PROPERTIES PromiseSpec UpdatesTheNamed OwnerReturns AskedIsAnswered
CHECK_DEADLOCK FALSE

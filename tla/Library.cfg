\* Each part of the library by itself.
CONSTANTS
  Unset = Unset
  Senders <- MCSenders
  Configured <- MCConfigured
  Files <- MCFiles
  MaxCalls = 3
  Clients = {"c1", "c2"}
  RouterClients = {"c1"}
  Directories = {"c1"}
  Services = {"s1"}
  Listed <- MCListed
  Sought <- MCSought
  MaxRequests = 2
  MaxConnections = 2
  MaxStarts = 2
  Passwords = {"", "p", "q"}
SPECIFICATION Spec
INVARIANTS DeliveredAsSent OptionsFit AnswersOwnRequest CredentialsHold
PROPERTY SocketHasOneUser
CHECK_DEADLOCK FALSE

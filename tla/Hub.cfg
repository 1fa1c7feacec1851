\* Initialization files of an operator with up to three proxies, and a module.
CONSTANTS
  Inis <- Files
  MaxProxies = 3
  MaxStatuses = 2
SPECIFICATION FairSpec
INVARIANTS TypeOK AddressesDistinct ListedIsServed NothingOutlives WireGrammar
PROPERTIES EndsForCause StopRequestHeeded
CHECK_DEADLOCK FALSE

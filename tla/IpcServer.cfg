CONSTANTS
  c1 = c1
  c2 = c2
  Clients <- MCClients
  Kinds <- MCKinds
  MaxRequests = 3
  MaxEvents = 1
  FirstSize = 4
  SizeLimit = 8
  None = None
SPECIFICATION FairSpec
INVARIANTS
  ClientsInStep
PROPERTIES
  EveryListenerHears
  Answered
CHECK_DEADLOCK FALSE

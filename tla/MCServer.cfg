\* Two clients, one slot; every split of the streams.
CONSTANTS
  c1 = c1
  c2 = c2
  Clients = {c1, c2}
  Slots = 1
  MaxErrors = 2
  HeaderLen = 2
  MaxPayload = 1
  MaxRequest = 1
  Budget = 3
  Declared <- MCDeclared
  Request <- MCRequest
  NoClient = NoClient
SPECIFICATION FairSpec
INVARIANTS FramesWhole ReplyFitsRequest
PROPERTIES PoolSpec ServingEnds
CHECK_DEADLOCK FALSE

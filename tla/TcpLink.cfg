\* One peer, two connections, queues of one frame, one event too large.
CONSTANTS
  Events = {e1, e2, e3, e4}
  Peers = {p1}
  MaxKnown = 4
  MaxPending = 3
  MaxDelivered = 5
  HealBatch = 1
  PumpBatch = 2
  Oversized = {e4}
  Capacity = 1
  MaxConns = 2
  WriterStarts = {"polling", "none"}
SPECIFICATION FairLinkSpec
INVARIANTS MarkedIsSomewhere AtMostOneCopy
PROPERTIES GossipSpec Delivery StopEnds
CHECK_DEADLOCK FALSE

\* Every kind of event and of error, received again once forgotten, as the weights of
\* reports and penalties decay.  A grace opens at 2 at the earliest and is over at 3,
\* where its stamps still count; at 4 they do not.
CONSTANTS
  me = me
  a = a
  b = b
  Me = me
  Authors = {a, b}
  Events <- MixedEvents
  BasePow <- BothTrusted
  Peers = {}
  MaxKnown = 2
  MaxPending = 1
  MaxDelivered = 1
  HealBatch = 1
  PumpBatch = 1
  Window = 1
  Budget = 1
  HealFactor = 2
  Silence = 2
  Grace = 1
  Hour = 2
  MaxTracked = 2
  MaxReports = 2
  MaxTime = 4
SPECIFICATION AdmissionSpec
INVARIANTS ReportWeighsOnce FloodBounded
CHECK_DEADLOCK FALSE

\* A silence, a catch-up under grace, one more event after it.
CONSTANTS
  me = me
  a = a
  b = b
  Me = me
  Authors = {a, b}
  Events <- HonestEvents
  BasePow <- BothTrusted
  Peers = {}
  MaxKnown = 5
  MaxPending = 1
  MaxDelivered = 1
  HealBatch = 1
  PumpBatch = 1
  Window = 1
  Budget = 1
  HealFactor = 2
  Silence = 2
  Grace = 2
  Hour = 2
  MaxTracked = 2
  MaxReports = 2
  MaxTime = 5
SPECIFICATION AdmissionSpec
PROPERTY HealTrafficNotPenalised
CHECK_DEADLOCK FALSE

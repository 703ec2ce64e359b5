\* Gossip: two outbox places, a per-peer list of exactly 2 * MaxPending - 1 places and
\* more events than are remembered, so that ids leave and come back.  Updates: one
\* distributor, one receiver, two faults of any kind.  Router: three nodes that meet
\* at will, buffers of two copies.
CONSTANTS
  Events = {e1, e2, e3, e4}
  Peers = {p1, p2}
  MaxKnown = 3
  MaxPending = 2
  MaxDelivered = 3
  HealBatch = 1
  PumpBatch = 2
  MaxInserts = 7
  old = old
  new = new
  Members = {d, r}
  Distributors = {d}
  Releases <- MCReleases
  Size <- MCSize
  ChunkSize = 2
  BaseVersion = 0
  None = None
  MaxFaults = 2
  a = a
  b = b
  c = c
  Nodes = {a, b, c}
  Messages <- MCMessages
  MaxBuffer = 2
  MaxTasks = 1
SPECIFICATION ExchangeSpec
INVARIANTS
  TypeOK OutboxKnown HandedStaysMarked
  InstalledIntact
  CopiesAccounted NeverReturns
PROPERTIES
  CatchUpEnds
  InstallRaisesVersion UpdateEnds
  FloodEnds
CHECK_DEADLOCK FALSE

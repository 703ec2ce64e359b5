\* A budget of three messages or fewer; two identities.  The interval between two
\* publications changes with the trust in the node and with the battery.
CONSTANTS
  Alerts <- MCAlerts
  Drafts <- MCDrafts
  Retention <- MCRetention
  Critical = 1
  PlaceLen = 2
  PrefixLen = 1
  Budget = 3
  MaxSkew = 1
  Fuzz = 1
  Interval = 2
  StrangerInterval = 3
  BatteryFactor = 2
  NoSeed = NoSeed
  MaxIdentities = 2
  MaxTime = 4
SPECIFICATION StoreSpec
INVARIANTS StoreTypeOK UnexpiredRestored PublicationsSpaced
CHECK_DEADLOCK FALSE

\* The same ring, with room for one event of each signer in a window.
CONSTANTS
  f = f
  g = g
  a = a
  x = x
  Nodes = {f, g, a}
  Keys = {f, g, a, x}
  Founders = {f}
  Links <- Ring
  Required = 1
  Budgets = {1}
  Wishes <- ChainWishes
  Malformed = {}
  Reported = {}
  Restarts <- MCRestarts
SPECIFICATION Spec
INVARIANT NoiseUnpunished
CHECK_DEADLOCK FALSE

\* One founder: the endorsement by a reaches g by two ways, before and after g restarts;
\* a is reported to itself and handed malformed payloads of f.
CONSTANTS
  f = f
  g = g
  a = a
  x = x
  Nodes = {f, g, a}
  Keys = {f, g, a, x}
  Founders = {f}
  Links <- Ring
  Required = 1
  Budgets = {1, 2}
  Wishes <- ChainWishes
  Malformed <- MCMalformed
  Reported <- MCReported
  Restarts <- MCRestarts
SPECIFICATION Spec
INVARIANT ExcessAlonePunished
CHECK_DEADLOCK FALSE

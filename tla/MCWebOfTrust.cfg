\* Two endorsements by founders promote; a ring with a chord, whose pumps go on, and a
\* restart of g.
CONSTANTS
  f = f
  g = g
  a = a
  x = x
  Nodes = {f, g, a}
  Keys = {f, g, a, x}
  Founders = {f, g}
  Links <- MCLinks
  Required = 2
  Budgets = {1}
  Wishes <- MCWishes
  Malformed = {}
  Reported = {}
  Restarts <- MCRestarts
SPECIFICATION FairSpec
INVARIANT TrustGrounded
PROPERTY Spreads
CHECK_DEADLOCK FALSE

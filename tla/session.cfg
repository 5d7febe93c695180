\* Two browsers, three tabs, one token; five calls, two per window of two instants, a map that is
\* cleared when it holds two addresses.
SPECIFICATION Spec
CONSTANTS
  h1 = h1
  h2 = h2
  t1 = t1
  t2 = t2
  t3 = t3
  Hosts = {h1, h2}
  Tabs = {t1, t2, t3}
  Home <- MCHome
  Tokens = {k1}
  Max = 2
  Window = 2
  MapCap = 1
  MaxCalls = 5
  Horizon = 3
  None = None
INVARIANTS
  BurstBound
  SignOutSticks
PROPERTIES
  RefusedOnlyWhenSpent

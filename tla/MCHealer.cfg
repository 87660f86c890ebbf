SPECIFICATION MCFairSpec
CONSTANTS
  Stores = {s1, s2}
  Keys = {k1, k2}
  NoKey = NoKey
  Puts = {p1, p2}
  Reads = {r1}
  MaxFaults = 3
  Limits = {1, 2}
  MaxRuns = 2
  s1 = s1
  k2 = k2
  p2 = p2
INVARIANTS Durable StaleNoneIsTransient
PROPERTY HealingConverges
CHECK_DEADLOCK FALSE

SPECIFICATION MCFairSpec
CONSTANTS
  Stores = {s1, s2}
  Keys = {k1, k2}
  NoKey = NoKey
  Puts = {p1, p2}
  Reads = {r1}
  MaxFaults = 2
  Limits = {1}
  MaxRuns = 1
  s1 = s1
  k2 = k2
  p2 = p2
INVARIANT GetAfterPut
CHECK_DEADLOCK FALSE

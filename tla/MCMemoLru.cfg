CONSTANTS
  k1 = k1
  k2 = k2
  k3 = k3
  Keys = {k1, k2, k3}
  Tasks = {t1, t2}
  Weight <- MCWeight
  EntryLimit = 2
  WeightLimit = 2
  MaxAgain = 1
  MaxFills = 6
SPECIFICATION FairSpec
CHECK_DEADLOCK FALSE
INVARIANT LruOrder

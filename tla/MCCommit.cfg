CONSTANTS
  r = r
  a = a
  b = b
  m = m
  g = g
  z = z
  e0 = e0
  e1 = e1
  e2 = e2
  Commits = {r, a, b, m, g, z}
  Base = {r}
  Parents <- MCParents
  Entries = {e0, e1, e2}
  Manifest <- MCManifest
  History <- MCHistory
  Pushes = {1, 2, 3, 4, 5, 6, 7, 8, 9}
  Bundle <- MCBundle
  Sent <- MCSent
  Rebases = {7}
  Drafts = {9}
  Together <- MCTogether
  MaxFaults = 2
SPECIFICATION FairSpec
CHECK_DEADLOCK FALSE
INVARIANTS CompleteData RowsClosed DoneIsStored
PROPERTY PushLands

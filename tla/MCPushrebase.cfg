SPECIFICATION MCSpec
CONSTANTS
  Pushers = {"p1", "p2"}
  Stack <- MCStacks
  Base <- MCBases
  FileSets <- MCFileSets
  OtherFileSets <- MCOtherFileSets
  RewriteDates = FALSE
  CreateIfNotExists = TRUE
  RecursionLimit = 4
  MAX_REBASE_ATTEMPTS = 1
  MaxEvents = 2
INVARIANTS LandedStays LandedOnceAndWhole LandedWithoutConflict RetriesAreMoves
CHECK_DEADLOCK FALSE

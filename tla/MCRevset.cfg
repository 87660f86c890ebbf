CONSTANTS
  SkipEdges = 3
  Indexers = {x1, x2}
  None = None
  Item = Item
  NotReady = NotReady
  Finished = Finished
  Failed = Failed
SPECIFICATION MCSpec
CHECK_DEADLOCK FALSE
INVARIANTS
  EdgesAreSafe
  WalkExact
  QueryExact
  CombinedExact
PROPERTY StreamEnds

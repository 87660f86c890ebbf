SPECIFICATION FairSpec
CONSTANTS
  Names = {n1, n2}
  Commits = {c1, c2}
  None = None
  Txns = {t1, t2}
  NoTxn = NoTxn
  Start <- MCStart
  Kinds = {"force_set", "create", "update", "noop", "force_delete", "delete"}
  n1 = n1
  c1 = c1
INVARIANTS LogReplays LogChains
PROPERTIES ImplementsContract CommitReturns
CHECK_DEADLOCK FALSE

CONSTANTS
  Paths = {"p", "q", "d"}
  Shards = {1, 2}
  ShardOf <- MCShardOf
  IsTree <- MCIsTree
  Adders = {a1, a2}
  Readers = {r1}
  None = None
  ValueMax = 1
  MaxRetries = 1
  Hosts = {c1, c2}
  Clients = {c1, c2}
  Bonsais = {"b1", "b2"}
  HgIds = {"h1", "h2"}
SPECIFICATION MCSpec
INVARIANTS
  NoHalfFilenode
  NotFoundIsTrue
  CalmReadsSucceed
  ListIsSnapshot
  MappingExact

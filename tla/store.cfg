SPECIFICATION Spec
CONSTANTS
  d1 = d1
  d2 = d2
  d3 = d3
  Docs <- MCDocs
  Hash <- MCHash
  ShardFlags <- MCShardFlags
  NameBase = 4
  NameWidth = 1
  maxShardCount = 3
  MaxBatch = 2
  MaxCrashes = 2
  MaxFaults = 1
INVARIANTS
  TypeOK
  DocumentFound
  StartFailsOnlyIfCut
  DeletedStaysDeleted

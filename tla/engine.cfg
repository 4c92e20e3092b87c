SPECIFICATION Spec
CONSTANTS
  Events <- MCEvents
  RefTime <- MCRefTime
  Hash <- MCHash
  NumShards <- MCNumShards
  IndexDuration <- MCIndexDuration
  RetentionPeriod <- MCRetentionPeriod
  MaxNow <- MCMaxNow
  Callers = {w1}
  MaxBatch = 2
  MaxRestarts = 1
  MaxFaults = 1
INVARIANTS
  TypeOK
  IndexesOrdered
  AckedRetained
  OneOpenIndexPerPath
PROPERTIES
  RetentionOnlyTruncates

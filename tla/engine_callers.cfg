SPECIFICATION Spec
CONSTANTS
  Events <- MCEvents
  RefTime <- MCRefTime
  Hash <- MCHash
  NumShards <- MCNumShards
  IndexDuration <- MCIndexDuration
  RetentionPeriod <- MCRetentionPeriod
  MaxNow <- MCMaxNow
  Callers = {w1, w2}
  MaxBatch = 1
  MaxRestarts = 0
  MaxFaults = 0
INVARIANTS
  OneOpenIndexPerPath
PROPERTIES
  IndexReturns
  ExpiredRemoved

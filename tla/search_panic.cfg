SPECIFICATION SSpec
CONSTANTS
  Events <- MCEvents
  RefTime <- MCRefTime
  Hash <- MCHash
  NumShards <- MCNumShards
  IndexDuration <- MCIndexDuration
  RetentionPeriod <- MCRetentionPeriod
  MaxNow <- MCMaxNow
  MaxHits = 2
  Callers = {w1}
  MaxBatch = 1
  MaxRestarts = 0
  MaxFaults = 0
INVARIANT SearchNeverPanics

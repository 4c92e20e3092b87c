SPECIFICATION Spec
CONSTANTS
  Events <- MCEvents
  RefTime <- MCRefTime
  Hash <- MCHash
  NumShards <- MCNumShards
  IndexDuration <- MCIndexDuration
  RetentionPeriod <- MCRetentionPeriod
  MaxNow <- MCMaxNow
  Callers = {w1}
  MaxBatch = 1
  MaxRestarts = 0
  MaxFaults = 1
PROPERTY ExpiredRemovedDespiteFault

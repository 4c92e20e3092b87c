SPECIFICATION ESpec
CONSTANTS
  Size = 2
  MaxPending = 1
  NumEvents = 5
  MaxIndexErrors = 0
  Timestamps <- MCTimestamps
  NoTimestamp = NoTimestamp
  IndexDuration = 4
  WordSize = 16
  Downtimes <- MCDowntimes
  MaxStops = 1
  MaxDropped = 1
INVARIANTS
  LossIsRecent
  StoredKept
  IDOrder
PROPERTIES
  EventuallyStored

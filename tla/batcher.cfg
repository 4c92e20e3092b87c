SPECIFICATION Spec
CONSTANTS
  Size <- MCSize
  MaxPending <- MCMaxPending
  NumEvents <- MCNumEvents
  MaxIndexErrors = 2
INVARIANTS
  TypeOK
  ExactlyOnceInOrder
  WaitingBatchIsTimed
  OutstandingBound
PROPERTIES
  EventuallyIndexed
  DeliversInOrder

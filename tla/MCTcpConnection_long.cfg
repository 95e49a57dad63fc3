SPECIFICATION Spec
CONSTANTS
  Radix = 4
  Messages <- LongMessage
  OutSize = 2
  InSize = 3
  WireSize = 3
  MaxBeats = 0
  MaxRewrites = 2
INVARIANT DeliveredInOrder
CHECK_DEADLOCK FALSE

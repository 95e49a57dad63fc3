SPECIFICATION Spec
CONSTANTS
  Radix = 4
  Messages <- ThreeMessages
  OutSize = 6
  InSize = 2
  WireSize = 2
  MaxBeats = 1
  MaxRewrites = 1
INVARIANTS SizesReadBack TypeOK NoLostWakeup InOrderIfUndisturbed
PROPERTY EventuallyDeliveredIfRoom
CHECK_DEADLOCK FALSE

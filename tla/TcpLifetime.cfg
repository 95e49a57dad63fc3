SPECIFICATION Spec
CONSTANTS
  OutSize = 1
  InSize = 2
  MaxDescriptions = 2
INVARIANTS CommunicatorReady DeathTold NothingAfterDestruction
PROPERTIES DestroyReturns SilenceNoticed
CHECK_DEADLOCK FALSE

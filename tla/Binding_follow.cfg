SPECIFICATION Spec
CONSTANTS
  MaxPublish = 3
  MaxCalls = 4
INVARIANTS RunningCounted NoMissedChange NothingAfterDestruction
PROPERTY DestroyReturnsUndisturbed
CHECK_DEADLOCK FALSE

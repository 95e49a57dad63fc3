SPECIFICATION Spec
CONSTANTS
  Calls = {c1, c2}
  NoCall = NoCall
INVARIANTS NothingLate ConnectionsGenuine SocketSettled
PROPERTY OperationsEnd
CHECK_DEADLOCK FALSE

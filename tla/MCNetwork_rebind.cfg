SPECIFICATION Spec
CONSTANTS
  A = A
  B = B
  C = C
  N = N
  M = M
  tx = tx
  ty = ty
  b1 = b1
  Kind = "deaf_mute"
  Identifiers = {tx}
  Members = {b1}
  TerminalOf <- OfTx
  Leafs <- StarLeafs
  Nodes <- StarNodes
  Links <- StarLinks
  Unreliable = {}
  TerminalNames <- StarTerminals
  BindingNames <- StarBindings
  MaxIds <- TwoIds
  MaxInFlight = 3
  MaxLosses = 0
  MaxOperations = 4
  MaxPublished = 0
INVARIANT NoMissedBinding
CHECK_DEADLOCK FALSE

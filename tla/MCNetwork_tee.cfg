SPECIFICATION Spec
CONSTANTS
  A = A
  B = B
  C = C
  N = N
  M = M
  tx = tx
  ty = ty
  b1 = b1
  Kind = "publish_subscribe"
  Identifiers = {tx}
  Members = {b1}
  TerminalOf <- OfTx
  Leafs <- TeeLeafs
  Nodes <- TeeNodes
  Links <- TeeLinks
  Unreliable <- NodeLink
  TerminalNames <- TeeTerminals
  BindingNames <- TeeBindings
  MaxIds <- OneBindingAtATime
  MaxInFlight = 2
  MaxLosses = 1
  MaxOperations = 4
  MaxPublished = 0
INVARIANTS TypeOK NoAssertionFails AssociationsMutual OwnersTracked BindingsExact SubscriptionsExact
CHECK_DEADLOCK FALSE

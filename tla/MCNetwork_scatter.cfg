SPECIFICATION Spec
CONSTANTS
  A = A
  B = B
  C = C
  N = N
  M = M
  tx = tx
  ty = ty
  b1 = b1
  Kind = "scatter_gather"
  Identifiers = {tx, ty}
  Members = {b1}
  TerminalOf <- OfTy
  Leafs <- TeeLeafs
  Nodes <- HubNodes
  Links <- HubLinks
  Unreliable <- LinkOfB
  TerminalNames <- HubTerminals
  BindingNames <- SinkBindings
  MaxIds <- OneBindingAtATime
  MaxInFlight = 1
  MaxLosses = 1
  MaxOperations = 5
  MaxPublished = 2
INVARIANTS NoAssertionFails AnswersMatch OnlyForsakenHang
CHECK_DEADLOCK FALSE

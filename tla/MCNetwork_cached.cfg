SPECIFICATION Spec
CONSTANTS
  A = A
  B = B
  C = C
  N = N
  M = M
  tx = tx
  ty = ty
  b1 = b1
  Kind = "cached_publish_subscribe"
  Identifiers = {tx}
  Members = {b1}
  TerminalOf <- OfTx
  Leafs <- TeeLeafs
  Nodes <- TeeNodes
  Links <- TeeLinks
  Unreliable <- LeafAndNodeLink
  TerminalNames <- SourceTerminals
  BindingNames <- SinkBindings
  MaxIds <- OneBindingAtATime
  MaxInFlight = 3
  MaxLosses = 1
  MaxOperations = 3
  MaxPublished = 2
INVARIANTS DataArrives CacheCurrent
CHECK_DEADLOCK FALSE

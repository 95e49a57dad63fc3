SPECIFICATION Spec
CONSTANTS
  A = A
  B = B
  x = x
  y = y
  b1 = b1
  b2 = b2
  Identifiers = {x, y}
  Kind = "deaf_mute"
  TerminalOf <- OfX
  Members = {b1, b2}
  Leafs <- MCLeafs
  TerminalNames <- TwoNamesTerminals
  BindingNames <- TwoNamesBindings
  MaxIds = 2
  MaxInFlight = 2
  MaxConnections = 2
INVARIANTS TypeOK NoAssertionFails Agreement IdsConserved BindingStates NoStaleMapping
SYMMETRY Symmetry

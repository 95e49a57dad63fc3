SPECIFICATION Spec
CONSTANTS
  A = A
  B = B
  x = x
  y = y
  b1 = b1
  b2 = b2
  Identifiers = {x}
  Kind = "deaf_mute"
  TerminalOf <- OfX
  Members = {b1}
  Leafs <- MCLeafs
  TerminalNames <- OneWayTerminals
  BindingNames <- OneWayBindings
  MaxIds = 2
  MaxInFlight = 1
  MaxConnections = 1
PROPERTIES HiddenErased EventuallyEstablished

SPECIFICATION Spec
CONSTANTS
  MAX_SIZE = 4
  Byte = {0, 1}
  MaxChunk = 4
  Inputs <- MCInputs
  Sizes <- MCSizes
INVARIANTS AssertionsHold SlotsDisjoint
PROPERTY IsFifo

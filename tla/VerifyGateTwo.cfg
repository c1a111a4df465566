SPECIFICATION Spec
CONSTANTS
  Addresses = {a1, a2}
  NoAddress = NoAddress
  Buffers = {c1, c2, c3}
  MaxPerKey = 2
  MaxPending = 2
INVARIANT GateHoldsOnlyInFlight
SYMMETRY Symmetry

SPECIFICATION Spec
CONSTANTS
  Externals <- TwoExternals
  Others <- Timer
  Byte = 4
  MaxRefs = 2
INVARIANTS Exclusive BusRestored

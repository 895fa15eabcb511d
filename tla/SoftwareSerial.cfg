SPECIFICATION Spec
CONSTANTS
  Ports = {p1, p2}
  NULL = NULL
  Torn = Torn
  Size = 3
INVARIANTS SwitchSafe RingFaithful
SYMMETRY Symmetry

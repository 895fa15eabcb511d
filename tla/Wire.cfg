SPECIFICATION MCSpec
CONSTANTS
  BufLen = 2
  MaxQuantity = 3
INVARIANTS ReadsFaithful TransmissionFaithful

SPECIFICATION MCSpec
CONSTANTS
  BufLen = 2
  Byte = 8
  Calls <- Writes
  Lengths <- Single
  Timeouts <- NeverTimesOut
  MultiMaster = TRUE
  Addressed = TRUE
  MaxBytes = 1
  Roles = {"racing"}
INVARIANT WriteTruthful

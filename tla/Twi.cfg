SPECIFICATION MCSpec
CONSTANTS
  BufLen = 2
  Byte = 8
  Calls <- BothCalls
  Lengths <- WriteOrRead
  Timeouts <- TimesOut
  MultiMaster = TRUE
  Addressed = TRUE
  MaxBytes = 4
  Roles = {"master", "slave", "both"}
INVARIANTS WriteTruthful ReadTruthful BusReleased SlaveTruthful
PROPERTIES CallsReturn ReadyAgain

SPECIFICATION MCSpec
CONSTANTS
  EpSize = 2
  Banks = 2
  MaxSize = 5
  Tries = 2
  WdtPeriod = 2
  BootPeriod = 2
  MaxCommands = 2
INVARIANTS SendInOrder TransferEnds ReceiveInOrder TouchUndone
PROPERTIES CallsReturn Delivered RightProgram TouchResets BootEnds

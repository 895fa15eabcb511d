SPECIFICATION BridgeSpec
CONSTANTS
  Size = 3
  NearlyFull = 2
  Wrap = 6
INVARIANTS RingSound
PROPERTY Flushed

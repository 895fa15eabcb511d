SPECIFICATION BridgeSpec
CONSTANTS
  Size = 3
  NearlyFull = 2
  Wrap = 6
INVARIANT MinimumStored

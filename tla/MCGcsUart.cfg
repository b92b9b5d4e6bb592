SPECIFICATION FairSpec
CONSTANTS
  Byte <- MCByte
  Sizes <- MCSizes
  size = 4
  Limit = 2
  MaxPackets = 2
  Endpoints = {station1, station2}
INVARIANTS CutByOneAtMost RepliesHaveAnAddress
PROPERTIES RingIsQueue NoPhantomByte OverflowPasses
CHECK_DEADLOCK FALSE

SPECIFICATION Spec
CONSTANTS
  N = 4
  Reserve = 3
  Blocks <- MC_Blocks
  MaxNest = 1
  EarlyIrqs = TRUE
INVARIANT DepthMatches

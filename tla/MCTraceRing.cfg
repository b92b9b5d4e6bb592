SPECIFICATION FairSpec
CONSTANTS
  N = 4
  Reserve = 3
  Blocks <- MC_Blocks
  MaxNest = 1
  EarlyIrqs = FALSE
INVARIANTS NoEventLost DepthMatches CoverageExact
PROPERTY DrainEnds

SPECIFICATION FairSpec
CONSTANTS
  MaxEpoch = 4
  Seeds = 1
  Timeouts = TRUE
  EarlyAsserts = FALSE
INVARIANTS JudgesStillCoverage InputMeetsItsSnapshot BufferIsHeld
PROPERTIES VerdictIsOfItsInput InputIsJudged
CHECK_DEADLOCK FALSE

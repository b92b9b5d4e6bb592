SPECIFICATION FairSpec
CONSTANTS
  MaxSeq = 3
  MaxRestores = 2
  Capacity = 2
  MaxResponses = 1
  GivesUp = TRUE
INVARIANTS RunsInItsSession DoneFreezesCoverage DoneMeansTaken
PROPERTIES NothingAfterDone EveryRequestAnswered
CHECK_DEADLOCK FALSE

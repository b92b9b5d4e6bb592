SPECIFICATION FairSpec
CONSTANTS
  Lines <- MC_Lines
  Models <- MC_One
  Claims <- MC_OneOwner
  Others <- MC_TimerVector
  ConnectR0 <- MC_ConnectR0
  Preempts <- MC_Preempts
  MaxAttempts = 2
  Flaky = TRUE
INVARIANTS TypeOK PendingIsHalted OneAtATime
PROPERTIES ResumedByOwnReturn ForwardsEachIrqOnce EveryIrqServed
CHECK_DEADLOCK FALSE

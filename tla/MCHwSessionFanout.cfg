SPECIFICATION Spec
CONSTANTS
  Lines <- MC_Lines
  Models <- MC_Two
  Claims <- MC_TwoOwners
  Others <- MC_TimerVector
  ConnectR0 <- MC_ConnectR0
  Preempts <- MC_Preempts
  MaxAttempts = 2
  Flaky = FALSE
PROPERTY ResumedByOwnReturn

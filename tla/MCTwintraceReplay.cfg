SPECIFICATION TwinFairSpec
CONSTANTS
  Main <- MC_Main
  Handler <- MC_Handler
  Lines <- MC_Lines
  Others <- MC_Others
  Registered <- MC_Lines
  Targets <- MC_Lines
  MaxIrqs = 2
  MaxOthers = 1
  MaxIcount = 5
INVARIANTS PendingIsNext
PROPERTIES DivergesOnlyWhenLate ReplayEnds

SPECIFICATION Spec
CONSTANTS
  Models <- MC_Models
  Priority = "elder"
  RegionSize = 8
  SLOT_SIZE = 2
  HwMod = 16384
  UMod = 128
  Config <- MC_Config
INVARIANTS WriteReachesItsModels ReadIsAnswered InterruptReachesModelsOnce
CHECK_DEADLOCK FALSE

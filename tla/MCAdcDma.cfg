SPECIFICATION Spec
CONSTANTS
    Block = 2
    Samples = 2
    Delay = 2
    Configs <- MCConfigs
    Programs <- MCPrograms
    PowersDownAnyTime = FALSE
INVARIANTS WorkHasTimer StreamInBlock FlagHasInterrupt
PROPERTIES BlockIsConsecutive CalibrationEnds

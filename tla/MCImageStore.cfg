SPECIFICATION MachineSpec
CONSTANTS
    MaxImports = 2
    MaxFaults = 2
    MaxCrashes = 1
    MaxSlips = 1
    MaxClicks = 1
INVARIANTS ActiveImageWhole FailedImportKeepsImage MachineWhole
PROPERTY MachineComesUp
CHECK_DEADLOCK FALSE

SPECIFICATION MachineSpec
CONSTANTS
    MaxImports = 2
    MaxFaults = 0
    MaxCrashes = 1
    MaxSlips = 0
    MaxClicks = 0
INVARIANT AtomicInstall
CHECK_DEADLOCK FALSE

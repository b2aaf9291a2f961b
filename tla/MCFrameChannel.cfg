SPECIFICATION FairSpec
CONSTANTS
    MaxSlot = 1
    MaxTries = 1
    MaxFrames = 2
    MaxGenerations = 2
INVARIANTS NoTornSnapshot NoStaleSurface
 
CHECK_DEADLOCK FALSE

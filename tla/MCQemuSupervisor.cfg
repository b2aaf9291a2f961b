SPECIFICATION FairSpec
CONSTANTS
    Sources = {s1, s2}
    NoSource = NoSource
    MayHang = TRUE
    MaxImports = 2
    MaxInstalls = 1
    MaxCrashes = 1
INVARIANTS NoOrphanQemu NoUseAfterFree OneImportJob
PROPERTIES QuitCompletesOtherwise QemuComesUp PendingServed
CHECK_DEADLOCK FALSE

SPECIFICATION Spec
CONSTANTS
    Sources = {s1}
    NoSource = NoSource
    MayHang = FALSE
    MaxImports = 1
    MaxInstalls = 0
    MaxCrashes = 0
PROPERTY NoLaunchWindow
CHECK_DEADLOCK FALSE

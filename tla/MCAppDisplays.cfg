SPECIFICATION Spec
CONSTANTS
    Apps = {a1, a2}
    NoApp = NoApp
    MaxDisplay = 2
    AddOutcomes = {"ok", "refused"}
    RetryOpen = FALSE
    QuickRelaunch = FALSE
    MaxLaunches = 3
    MaxResizes = 0
    MaxFaults = 1
SYMMETRY AppSymmetry
INVARIANTS TypeOK BindingsConsistent  NoHiddenTask
CHECK_DEADLOCK FALSE

SPECIFICATION Spec
CONSTANTS
    Apps = {a1}
    NoApp = NoApp
    MaxDisplay = 1
    AddOutcomes = {"ok", "refused"}
    RetryOpen = TRUE
    QuickRelaunch = FALSE
    MaxLaunches = 2
    MaxResizes = 0
    MaxFaults = 0
INVARIANT NoHiddenTask
CHECK_DEADLOCK FALSE

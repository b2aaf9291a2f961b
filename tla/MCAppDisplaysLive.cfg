SPECIFICATION FairSpec
CONSTANTS
    Apps = {a1}
    NoApp = NoApp
    MaxDisplay = 1
    AddOutcomes = {"ok", "refused"}
    RetryOpen = FALSE
    QuickRelaunch = FALSE
    MaxLaunches = 2
    MaxResizes = 1
    MaxFaults = 2
PROPERTIES LaunchSettles CloseSettles
CHECK_DEADLOCK FALSE

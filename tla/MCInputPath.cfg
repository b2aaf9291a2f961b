SPECIFICATION FairSpec
CONSTANTS
    Displays = {d1, d2}
    None = None
    Keys = {a}
    Caps = Caps
    LeftMod = LeftMod
    RightMod = RightMod
    ReportKeys = 1
    Room = 1
    MaxInputs = 2
    MaxLeaving = 1
    MaxRestarts = 1
    MaxReconnects = 2
INVARIANTS KeysFollow ModsExact FreshPackets
PROPERTIES TouchWhole  KeysReleased
CHECK_DEADLOCK FALSE

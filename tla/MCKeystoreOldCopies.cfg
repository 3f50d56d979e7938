SPECIFICATION StorySpec
CONSTANTS
    App = app
    Workspaces = {w1}
    Serials = {1, 2, 3}
    DeviceIds = {d1}
    RecoveryIds = {}
    None = none
    MayAbort = {}
    MayMove = FALSE
INVARIANTS
    NewKeyUnderNewProtection

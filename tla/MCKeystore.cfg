SPECIFICATION StorySpec
CONSTANTS
    App = app
    Workspaces = {w1}
    Serials = {1, 2, 3}
    DeviceIds = {d1, d2}
    RecoveryIds = {r1, r2}
    None = none
    MayAbort = {w1}
    MayMove = TRUE
INVARIANTS TypeOK ProtectedNeverQuiet FlagsAgree NoLockout LockHolds SecretsStay ParentsNeedMaster PasswordTravels
PROPERTY ImplementsRotation

CONSTANTS
    App = app
    Workspaces = {w1}
    Serials = {n1, n2, n3}
    None = none
    Pool = {js}
    Js = js
    Main = none
    Before = {"missing", "plain", "legacy"}
    OldWorkspaces = {o1, o2}
    WithVault = {o2}
    MaxFaults = 2
    Servers = {a, b}
    Later = {b}
    NoFile = nofile
    MaxSteps = 3
SPECIFICATION StartSpec
INVARIANTS StartTypeOK DataStays ClosedWhenLocked NothingStale
PROPERTIES UnlockStands StartReturns
CHECK_DEADLOCK FALSE

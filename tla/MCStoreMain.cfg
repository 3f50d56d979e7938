CONSTANTS
    App = app
    Workspaces = {w1}
    Serials = {n1, n2, n3}
    None = none
    Pool = {js}
    Js = js
    Main = none
    Before = {"missing", "plain", "legacy"}
SPECIFICATION Spec
INVARIANT MainOpens
CHECK_DEADLOCK FALSE

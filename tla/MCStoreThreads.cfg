CONSTANTS
    App = app
    Workspaces = {w1}
    Serials = {n1, n2, n3, n4}
    None = none
    Pool = {pool}
    Js = js
    Main = none
    Before = {"missing", "plain", "legacy"}
SPECIFICATION Spec
SYMMETRY Names
INVARIANT Finishable
CHECK_DEADLOCK FALSE

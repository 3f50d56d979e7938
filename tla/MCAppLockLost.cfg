CONSTANTS
  Unlocks = {u1}
  Waiters = {}
  Jobs = {}
  None = none
SPECIFICATION Spec
INVARIANTS NothingLeftOpen

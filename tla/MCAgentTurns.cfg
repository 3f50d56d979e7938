CONSTANTS
  Callers = {r1, r2, r3}
  Limits = {0, 2}
  Default = 1
  MaxLoops = 2
  MaxRetries = 1
  MaxCalls = 2
SPECIFICATION FairSpec
INVARIANTS TypeOK SlotOnlyForStream ShownOnce Paired SlotsSound 
PROPERTIES Finishes

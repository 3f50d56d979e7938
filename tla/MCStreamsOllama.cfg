CONSTANTS
  Providers = {"ollama"}
  MaxRetries = 1
  MaxPieces = 2
  Quirks = {"no_effort"}
SPECIFICATION StreamsSpec
INVARIANT NeverCut
CHECK_DEADLOCK FALSE

CONSTANTS
  Providers = {"openai", "anthropic", "gemini", "ollama", "deepseek", "zhipu", "kimi", "minimax", "minimaxChat", "qwen"}
  MaxRetries = 1
  MaxPieces = 2
  Quirks = {"no_effort"}
  Wires = {"openai", "anthropic", "gemini", "ollama", "deepseek", "zhipu", "kimi", "minimax", "minimaxChat", "qwen"}
  MaxRounds = 2
  MaxCalls = 2
  MaxText = 6
  MaxChunk = 3
  Commands = {k1, k2}
  MaxChat = 2
  MaxOutput = 3
  Hosts = {h1, h2}
  Stoppers = {s1}
  Invocations = {i1}
  Writes = {w1, w2}
  NoHost = nohost
  Clients = {c1, c2}
  ToolCalls = {r1, r2}
  NoClient = noclient
  Targets = {t1, t2}
  None = none
  Grace = 3
  SaveExtension = 2
  MaxSaves = 1
  MaxAlerts = 2
  MaxStalls = 1
  MaxClicks = 2
  Spaces = {d1, d2}
  FirstSpace = d1
  Guarded = {d1, d2}
  NoSpace = nospace
  Replies = {a1}
  MaxTokens = 1
  MaxSwitches = 2
  MaxEdits = 2
SPECIFICATION ServicesSpec
INVARIANTS ServicesTypeOK TurnsTold WatchedRight OnTheWire ChatIntact OneOfEach KeptApart
PROPERTIES AskedFirst CallsKept AllSettle
CHECK_DEADLOCK FALSE

CONSTANTS
  Spaces = {d1, d2}
  FirstSpace = d1
  Guarded = {}
  NoSpace = nospace
  Replies = {a1}
  MaxTokens = 1
  MaxSwitches = 1
  MaxEdits = 0
SPECIFICATION WorkspacesSpec
INVARIANT ChatsPerWorkspace
CHECK_DEADLOCK FALSE

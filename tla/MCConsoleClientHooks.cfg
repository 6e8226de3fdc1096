CONSTANTS
  Hook = {h1}
  Rpc = {}
  MaxChanges = 3
  MaxDrops = 1
  MaxDeltas = 1
  Fallible = TRUE
  PromptCommits = FALSE
SPECIFICATION Spec
INVARIANT TypeOK HookFed
PROPERTY NeverOlderData
CHECK_DEADLOCK FALSE

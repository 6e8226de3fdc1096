CONSTANTS
  Hook = {h1}
  Rpc = {}
  MaxChanges = 2
  MaxDrops = 0
  MaxDeltas = 0
  Fallible = FALSE
  PromptCommits = TRUE
SPECIFICATION Spec
INVARIANT UnmountedUnsubscribed
CHECK_DEADLOCK FALSE

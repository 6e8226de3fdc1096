CONSTANTS
  Hook = {h1}
  Rpc = {r1}
  MaxChanges = 1
  MaxDrops = 1
  MaxDeltas = 0
  Fallible = FALSE
  PromptCommits = TRUE
SPECIFICATION FairSpec
PROPERTY QueuedRpcSettles
CHECK_DEADLOCK FALSE

CONSTANTS
  Hook = {h1}
  Rpc = {r1}
  MaxChanges = 2
  MaxDrops = 1
  MaxDeltas = 0
  Fallible = TRUE
  PromptCommits = TRUE
SPECIFICATION FairSpec
INVARIANT OnlyAbandonedOutlive
PROPERTY HookServed RpcSettles
CHECK_DEADLOCK FALSE

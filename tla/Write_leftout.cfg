SPECIFICATION Spec
CONSTANTS
  Tables <- MCTables
  MaxDepth = 3
  Starts <- MCStarts
  Items <- BossItems
  MaxItems = 1
INVARIANT LeftOutIsKept

SPECIFICATION Spec
CONSTANTS
  Tables <- MCTables
  MaxDepth = 3
  Starts <- MCStarts
  Items <- MCItems
  MaxItems = 2
INVARIANTS TypeOK PayloadIsStored MergeIsExact OnlyUnderItsParent BatchIsSequential AnswersAreTheirOwn

SPECIFICATION Spec
CONSTANTS
  Tables <- CompositeTables
  MaxDepth = 3
  Starts <- CompositeStarts
  Items <- CompositeItems
  MaxItems = 1
INVARIANT OnlyUnderItsParent

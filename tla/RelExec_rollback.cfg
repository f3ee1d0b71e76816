SPECIFICATION Spec
CONSTANTS
  MaxItems = 1
  MaxRows = 1
  Buffers = {0, 2}
INVARIANTS RollbackUndoes

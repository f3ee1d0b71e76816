SPECIFICATION Spec
CONSTANTS
  MaxItems = 3
  MaxRows = 1
  Buffers = {0, 4}
INVARIANTS TypeOK AllOrNothing  ErrorIsRolledBack HeldUntilCommitted RolledBackInvisible 

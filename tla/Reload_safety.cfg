SPECIFICATION Spec
CONSTANTS
  Requests = {r1, r2}
  Conns = {c1, c2}
  NoConn = NoConn
  MaxSchema = 2
  MaxFiles = 1
INVARIANTS TypeOK DrainedDuringMigration ScratchMatches PoolClosedLast HelperNeverAhead
PROPERTIES RefinesServing
SYMMETRY Symmetry

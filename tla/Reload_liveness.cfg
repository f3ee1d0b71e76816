SPECIFICATION FairSpec
CONSTANTS
  Requests = {r1, r2}
  Conns = {c1}
  NoConn = NoConn
  MaxSchema = 1
  MaxFiles = 1
PROPERTIES  SignalHonoured ShutdownCompletes

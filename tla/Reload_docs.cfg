SPECIFICATION Spec
CONSTANTS
  Requests = {r1}
  Conns = {c1}
  NoConn = NoConn
  MaxSchema = 2
  MaxFiles = 1
PROPERTIES FailedIntrospectionKeepsSnapshot

CONSTANTS
  r1 = r1
  r2 = r2
  Requests <- AllRequests
  Conns = {c1, c2, c3}
  Nobody = Nobody
  Sites <- AllSites
  Scenarios <- AllScenarios
  Placeholders <- AllPlaceholders
  UploadRoot <- UploadDirs
  Hidden <- DotNames
  Served <- UploadName
  MaxSessionAge = 20
  RenewAfter = 50
  AnonymousRole = "anonymous"
  Now = 11
  MaxBodySize = 2
  MaxPartCount = 2
  UploadMaxSize = 2
SPECIFICATION Spec
INVARIANTS TypeOK    NothingLeaks FileIsCommitted ContentKept
PROPERTIES EveryRequestEnds

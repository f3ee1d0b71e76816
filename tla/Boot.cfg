SPECIFICATION Spec
CONSTANTS
  f1 = f1
  f2 = f2
  v1 = v1
  v2 = v2
  Flows = {f1, f2}
  Tabs = {v1, v2}
  FirstDelay = 1
  MaxDelay = 10
  AttemptMax = 10
  Slack = 1
  Paths <- MCPaths
  Scenarios <- MCScenarios
  MaxBoots = 3
  MaxSessionAge = 5
  RenewAfter = 50
  AnonymousRole = "anon"
  MaxAge = 4
  StateMaxAge = 2
  MaxNow = 7
INVARIANTS WaitIsBounded PairMatches 
PROPERTIES EveryoneReturns

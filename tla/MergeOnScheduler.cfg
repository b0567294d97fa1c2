SPECIFICATION Spec
CONSTANTS
  Depth = 3
  Client = client
  Workers = {}
  SizeMax = 15
  MaxTicks = 0
  AutoRequest = {TRUE}
  Demands = {2}
  MaxCalls = 2
  MayCancel = TRUE
  Merged <- MCPair
  SourcesLater = {FALSE}
  SourceEnds = {"onComplete"}
  Scheduled = {TRUE}
INVARIANTS MergesAll

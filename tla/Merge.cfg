SPECIFICATION FairSpec
CONSTANTS
  Depth = 4
  Client = client
  Workers = {}
  SizeMax = 15
  MaxTicks = 0
  AutoRequest = {TRUE, FALSE}
  Demands = {2}
  MaxCalls = 2
  MayCancel = TRUE
  Merged <- MCMerged
  SourcesLater = {TRUE, FALSE}
  SourceEnds = {"onComplete", "onError"}
  Scheduled = {TRUE, FALSE}
INVARIANTS TypeOK IndexInRange WithinDemand PassesDemand EndsOnce
PROPERTIES TakesTurns Interleaves ComesToAnEnd

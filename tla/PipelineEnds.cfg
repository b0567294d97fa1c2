SPECIFICATION FairSpec
CONSTANTS
  Depth = 2
  Client = client
  Workers = {worker}
  SizeMax = 2
  MaxTicks = 4
  Inputs <- MCInputs
  Predicate <- MCPredicate
  Method <- MCMethod
  Operation <- MCOperation
  InitialValue = 0
  DefaultValue = 7
  Counts = {1, 2}
  Others <- MCOthers
  SourceKinds = {"empty", "just", "range", "error", "defer"}
  OperatorNames <- MCRenewing
  AutoRequest = {TRUE}
  Demands = {1, 2}
  MaxCalls = 3
  MayCancel = TRUE
PROPERTIES ComesToAnEnd

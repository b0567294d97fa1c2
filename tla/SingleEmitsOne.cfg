SPECIFICATION Spec
CONSTANTS
  Depth = 1
  Client = client
  Workers = {worker}
  SizeMax = 15
  MaxTicks = 4
  Inputs <- MCInputs
  Predicate <- MCPredicate
  Method <- MCMethod
  Operation <- MCOperation
  InitialValue = 0
  DefaultValue = 7
  Counts = {0, 1, 2}
  Others <- MCOthers
  SourceKinds = {"just"}
  OperatorNames = {"anyOf"}
  AutoRequest = {TRUE}
  Demands = {1, 2}
  MaxCalls = 3
  MayCancel = FALSE
INVARIANTS SingleEmitsOne

SPECIFICATION Spec
CONSTANTS
  Depth = 2
  Client = client
  Workers = {worker}
  SizeMax = 15
  MaxTicks = 3
  Inputs <- MCDemandInputs
  Predicate <- MCPredicate
  Method <- MCMethod
  Operation <- MCOperation
  InitialValue = 0
  DefaultValue = 7
  Counts = {1}
  Others <- MCOthers
  SourceKinds = {"empty", "range", "interval"}
  OperatorNames <- Streaming
  AutoRequest = {TRUE, FALSE}
  Demands = {1, 2}
  MaxCalls = 3
  MayCancel = TRUE
INVARIANTS WithinDemand DemandServed CountsDemand
PROPERTIES CancelStops

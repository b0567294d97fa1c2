SPECIFICATION Spec
CONSTANTS
  Depth = 2
  Client = client
  Workers = {worker}
  SizeMax = 15
  MaxTicks = 4
  Inputs <- MCInputs
  Predicate <- MCPredicate
  Method <- MCMethod
  Operation <- MCOperation
  InitialValue = 0
  DefaultValue = 7
  Counts = {0, 2}
  Others <- MCOthers
  SourceKinds <- Kinds
  OperatorNames <- Operators
  AutoRequest = {TRUE}
  Demands = {1, 2}
  MaxCalls = 0
  MayCancel = FALSE
INVARIANTS TypeOK EmitsPromised CompletesAsPromised KeepsClass EndsOnce

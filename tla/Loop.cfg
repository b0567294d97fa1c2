SPECIFICATION FairSpec
CONSTANTS
  NoTask = NoTask
  NoThread = NoThread
  Tasks = {t1, t2}
  Cancellable = {}
  Clients = {client}
  Workers = {host}
  Host = host
  Stoppers = {client, host}
  MaxTime = 1
INVARIANTS
  TypeOK
  NoneLost
PROPERTIES
  DispatchesInOrder
  LastsLongEnough
  RunForReturns
  StopEndsRun

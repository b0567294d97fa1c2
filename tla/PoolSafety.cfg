SPECIFICATION Spec
CONSTANTS
  NoTask = NoTask
  NoThread = NoThread
  Tasks = {t1, t2}
  Cancellable = {}
  Clients = {owner, client}
  Workers = {w1, w2}
  Owner = owner
  MaxTime = 1
SYMMETRY Interchangeable
INVARIANTS
  TypeOK
  OneOwner
  NoneLost
  CallerOrder
  SomeWorkerAwake
PROPERTY DispatchesInOrder

SPECIFICATION Spec
CONSTANTS
  NoTask = NoTask
  NoThread = NoThread
  Tasks = {t1, t2}
  Cancellable = {}
  Clients = {}
  Workers = {host}
  Host = host
  Stoppers = {host}
  MaxTime = 0
PROPERTY NothingRunsAfterStop

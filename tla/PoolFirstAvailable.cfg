SPECIFICATION FairSpec
CONSTANTS
  NoTask = NoTask
  NoThread = NoThread
  Tasks = {t1}
  Cancellable = {}
  Clients = {owner}
  Workers = {w1}
  Owner = owner
  MaxTime = 0
PROPERTY AcceptedIsRun

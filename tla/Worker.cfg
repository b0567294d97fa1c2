SPECIFICATION FairSpec
CONSTANTS
  NoTask = NoTask
  NoThread = NoThread
  Tasks = {t1, t2}
  Cancellable = {t1}
  Clients = {owner}
  Workers = {thread}
  Thread = thread
  Owner = owner
  MaxTime = 1
INVARIANTS
  TypeOK
  NeverWaits
PROPERTIES
  DispatchesInOrder
  DueTaken
  DestructorEnds

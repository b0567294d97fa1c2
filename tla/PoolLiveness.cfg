SPECIFICATION FairSpec
CONSTANTS
  NoTask = NoTask
  NoThread = NoThread
  Tasks = {t1, t2}
  Cancellable = {}
  Clients = {owner}
  Workers = {w1, w2}
  Owner = owner
  MaxTime = 0
PROPERTIES
  DueTaken
  DestructorEnds

SPECIFICATION FairSpec
CONSTANTS
  Threads = {w1, w2, w3}
  Tasks = {t1, t2, t3}
  NoTask = NoTask
CHECK_DEADLOCK FALSE
INVARIANTS
  TypeOK
  StartedInOrder
  NoLostWakeup
PROPERTIES
  ImplementsTaskPool
  EveryTaskStarts
  DestructorReturns

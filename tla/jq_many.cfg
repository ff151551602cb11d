SPECIFICATION Spec
CONSTANTS
  Size = 2
  Producers = {p1, p2}
  Consumers = {c1, c2}
  LastId = 4
  Ids <- MCIds
SYMMETRY Interchangeable
INVARIANTS TypeOK SemaphoresExact CapacityRespected
PROPERTIES FalseMeansDrained FalseMeansFull FifoUntilOvertaken
\* Every id is put in once: when all have gone through, nothing is left to do.
CHECK_DEADLOCK FALSE

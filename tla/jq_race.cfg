SPECIFICATION Spec
CONSTANTS
  Size = 3
  Producers = {p1, p2}
  Consumers = {c1}
  LastId = 2
  Ids <- MCIds
SYMMETRY Interchangeable
INVARIANTS EachJobHandedOutOnce
\* Every id is put in once: when all have gone through, nothing is left to do.
CHECK_DEADLOCK FALSE

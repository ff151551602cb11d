SPECIFICATION Spec
CONSTANTS
  c1 = c1
  c2 = c2
  c3 = c3
  Clients = {c1}
  Threads = {w1}
  Wishes <- MCEmpty
  Pieces = {11, 30}
  Contents = {}
  NoClient = NoClient
CHECK_DEADLOCK FALSE
INVARIANT GoodWhenComplete

SPECIFICATION FairSpec
CONSTANTS
  c1 = c1
  c2 = c2
  c3 = c3
  Clients <- MCClients
  Threads = {w1, w2}
  Wishes <- MCWishes
  Pieces = {11, 30}
  Contents <- MCContents
  NoClient = NoClient
CHECK_DEADLOCK FALSE
INVARIANTS
  TypeOK
  ParsesExactly
  RoutesPlainPath
  AnswerFits
  JudgedAsSent
PROPERTIES
  EveryClientServed

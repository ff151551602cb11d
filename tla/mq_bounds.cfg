SPECIFICATION Spec
CONSTANTS
  Size = 2
  Threads = {h1, h2}
  Submissions = {s1, s2}
  None = None
SYMMETRY Interchangeable
INVARIANTS GetMsgInBounds

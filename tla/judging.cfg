SPECIFICATION Spec
CONSTANTS
  Visible = {"a", "b"}
  Cases <- MCCases
  Memories = {10, 140000}
  Submissions = 2
CHECK_DEADLOCK FALSE
INVARIANTS
  TypeOK
  TestsPaired
  VerdictFits
  JudgesOwnProgram

SPECIFICATION Spec
CONSTANTS
  JsqSize = 1
  JqSize = 1
  Posters = {h1}
  Pollers = {}
  Workers = {w1, w2}
  Submissions = {s1}
  Unsupported = {}
  Outcomes = {"compile_error"}
  SaveEnds = {"written"}
  PollIds = {}
  None = None
SYMMETRY Interchangeable
INVARIANTS ServerSurvivesJudging
\* The submissions run out, and the process may be gone.
CHECK_DEADLOCK FALSE

SPECIFICATION Spec
CONSTANTS
  JsqSize = 2
  JqSize = 2
  Posters = {h1, h2}
  Pollers = {h1, h2}
  Workers = {w1, w2}
  Submissions = {s1, s2, s3}
  Unsupported = {}
  Outcomes = {"tests"}
  SaveEnds = {"written", "unwritten"}
  PollIds = {0}
  None = None
SYMMETRY Interchangeable
INVARIANTS TypeOK HandedIdReadable AnsweredIsQueued ExclusiveJudging ReplyConsistent
PROPERTIES UsesJudgeQueue FinalVerdictStable ServiceUntilUndefined
\* The submissions run out, and the process may be gone.
CHECK_DEADLOCK FALSE

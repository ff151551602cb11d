SPECIFICATION FairSpec
CONSTANTS
  JsqSize = 2
  JqSize = 2
  Posters = {h1, h2}
  Pollers = {}
  Workers = {w1, w2}
  Submissions = {s1, s2, s3}
  Unsupported = {s3}
  Outcomes = {"tests"}
  SaveEnds = {"written"}
  PollIds = {}
  None = None
PROPERTIES EverySubmissionJudged
\* The submissions run out, and the process may be gone.
CHECK_DEADLOCK FALSE

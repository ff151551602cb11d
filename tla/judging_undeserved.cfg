SPECIFICATION Spec
CONSTANTS
  Visible = {"a", "b"}
  Cases <- MCUndeserved
  Memories = {10, 200}
  Submissions = 1
CHECK_DEADLOCK FALSE
INVARIANT AcceptedIsDeserved

CONSTANTS
  d1 = d1
  d2 = d2
  Dbs = {d1, d2}
  Existing = {}
  None = None
  SampleSize = 2
  MaxInFlight = 2
  MaxTokens = 2
SPECIFICATION Spec
INVARIANTS TokensOwn PreviewOwn RotatedTokenOwn
SYMMETRY Symmetry
PROPERTIES PollLeavesPanels
\* The user may sign out, or have no request left to make.
CHECK_DEADLOCK FALSE

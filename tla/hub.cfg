CONSTANTS
  l1 = l1
  l2 = l2
  Ids = {l1, l2}
  Name <- SameEnds
  MaxFlows = 2
  MaxBegun = 3
SPECIFICATION FairSpec
INVARIANTS RecordedNotebookExists AtRestMatched
PROPERTIES OthersUntouched EveryFlowEnds CreateComesBack
\* The user stops after MaxBegun operations.
CHECK_DEADLOCK FALSE

CONSTANTS
  Ids = {1, 2}
  Vals = {1}
  Capacity = 2
  Home <- HomesClash
  UndoMax = 2
  MaxSeq = 2
  MaxCrashes = 1
  Commands = {"BEGIN", "RESTORE", "TRUNCATE", "CDCTRIM"}
  Faults = {}
SPECIFICATION FairSpec
PROPERTIES PromptReturns CommitCompletes ReplaceCompletes Implements

CONSTANTS
  Ids = {1, 2}
  Vals = {1, 2}
  Capacity = 3
  Home <- HomesClash
  UndoMax = 1
  MaxSeq = 3
  MaxCrashes = 1
  Commands = {"RESTORE"}
  Faults = {"power", "nobackup"}
SPECIFICATION Spec
INVARIANTS CountExact VerifyClean
\* A database whose restore cannot be finished is not opened again.
CHECK_DEADLOCK FALSE

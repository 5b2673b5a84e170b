CONSTANTS
  Ids = {1, 2}
  Vals = {1, 2}
  Capacity = 4
  Home <- HomesClash
  UndoMax = 2
  MaxSeq = 2
  MaxCrashes = 2
  Commands = {"RESTORE", "BENCH"}
  Faults = {"power"}
SPECIFICATION Spec
PROPERTIES Implements

CONSTANTS
  Ids = {1, 2}
  Vals = {1, 2}
  Capacity = 3
  Home <- HomesClash
  UndoMax = 2
  MaxSeq = 3
  MaxCrashes = 0
  Commands = {"BEGIN"}
  Faults = {}
SPECIFICATION Spec
PROPERTIES FrameExact

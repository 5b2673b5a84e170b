CONSTANTS
  Ids = {1, 2}
  Vals = {1, 2}
  Capacity = 2
  Home <- HomesApart
  UndoMax = 2
  MaxSeq = 2
  MaxCrashes = 2
  Commands = {"BEGIN", "TRUNCATE IN TXN", "CDCTRIM"}
  Faults = {"power", "nolog"}
SPECIFICATION Spec
INVARIANTS TypeOK LogAhead
PROPERTIES FrameExact

CONSTANTS
  Ids = {1, 2}
  Vals = {1}
  Capacity = 2
  Home <- HomesApart
  UndoMax = 1
  MaxSeq = 3
  MaxCrashes = 1
  Commands = {"TRUNCATE"}
  Faults = {"nolog"}
  AskedLimit = 3
  GatewayLimit = 2
  RelayCap = 1
  PreviewLimit = 3
  Budget = 1
  HardDelete = FALSE
  MaxReseeds = 2
  MaxRestarts = 2
  MaxAttempts = 2
  MaxEnds = 1
SPECIFICATION FairSyncSpec
INVARIANTS LakehouseIsACommit NoFrameSkipped PreviewLive
PROPERTIES CatchesUp

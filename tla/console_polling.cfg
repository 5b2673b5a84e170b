CONSTANTS
  d1 = d1
  d2 = d2
  Dbs = {d1, d2}
  Sleepers = {d1}
  None = None
  Threshold = 2
  MaxStats = 2
SPECIFICATION FairSpec
INVARIANTS MissesTold
PROPERTIES KeepsPolling HiddenGoesQuiet MonitorCatchesUp

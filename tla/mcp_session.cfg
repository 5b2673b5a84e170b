CONSTANTS
  MaxCommands = 4
  Size <- Sizes
  Cap = 2
  PipeCap = 1
SPECIFICATION FairSpec
INVARIANTS OwnAnswer InStep
PROPERTIES EveryCallEnds CloseEnds KeepsPromise
\* The session may be closed, or the server have died.
CHECK_DEADLOCK FALSE

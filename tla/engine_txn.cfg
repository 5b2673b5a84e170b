CONSTANTS
  Ids = {1, 2}
  Vals = {1, 2}
  Capacity = 3
  Home <- HomesClash
  UndoMax = 2
  MaxSeq = 2
  MaxCrashes = 2
  Commands = {"BEGIN", "TRUNCATE IN TXN"}
  Faults = {"power"}
SPECIFICATION Spec
INVARIANTS UndoFits DurableWhenIdle RollbackExact NeverRefused
PROPERTIES Implements

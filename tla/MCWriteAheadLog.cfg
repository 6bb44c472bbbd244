SPECIFICATION Spec
CONSTANTS
  Shapes <- MCShapes
  MaxTx = 2
  MaxTruncates = 1
  MaxCrashes = 2
  MaxFaults = 2
  Faults = {"entry", "write", "sync", "header", "truncate", "replay"}
INVARIANTS AckedFound AllOrNothing
CHECK_DEADLOCK FALSE

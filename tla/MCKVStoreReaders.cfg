SPECIFICATION StoreSpec
CONSTANTS
  Tx = {t1, t2, t3}
  Keys = {1}
  Vals = {v}
  Tomb = Tomb
  Absent = Absent
  Nobody = Nobody
  Compactor = Compactor
  LogThreshold = 1
  GrowthFactor = 2
  AutoCompact = FALSE
  MaxVersion = 5
  MaxFaults = 0
SYMMETRY TxSymmetry
INVARIANTS SnapshotStable TablesPinned NothingLeaks
PROPERTY ImplementsTransactions

SPECIFICATION StoreSpec
CONSTANTS
  Tx = {t1, t2}
  Keys = {1, 2}
  Vals = {v}
  Tomb = Tomb
  Absent = Absent
  Nobody = Nobody
  Compactor = Compactor
  LogThreshold = 1
  GrowthFactor = 2
  AutoCompact = FALSE
  MaxVersion = 4
  MaxFaults = 1
SYMMETRY TxSymmetry
INVARIANTS LevelsComplete CompactionInStep CloseDrains

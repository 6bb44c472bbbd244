SPECIFICATION FairStoreSpec
CONSTANTS
  Tx = {t1, t2}
  Keys = {1}
  Vals = {v}
  Tomb = Tomb
  Absent = Absent
  Nobody = Nobody
  Compactor = Compactor
  LogThreshold = 1
  GrowthFactor = 2
  AutoCompact = TRUE
  MaxVersion = 3
  MaxFaults = 0
PROPERTIES CallsReturn FlushHappens

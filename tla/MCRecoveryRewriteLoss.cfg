SPECIFICATION Spec
CONSTANTS
  Keys = {1}
  Vals = {v, w}
  Tomb = Tomb
  Absent = Absent
  LogThreshold = 1
  GrowthFactor = 2
  MaxCommits = 2
  MaxBatch = 1
  MaxVersion = 3
  MaxFailures = 2
  Faults = {}
INVARIANTS
  Durable
CHECK_DEADLOCK FALSE

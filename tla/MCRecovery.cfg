SPECIFICATION Spec
CONSTANTS
  Keys = {1, 2}
  Vals = {v}
  Tomb = Tomb
  Absent = Absent
  LogThreshold = 1
  GrowthFactor = 2
  MaxCommits = 3
  MaxBatch = 1
  MaxVersion = 3
  MaxFailures = 2
  Faults = {"create", "metawrite", "metasync", "rewrite", "log", "damage"}
INVARIANTS LossOnlyWhileRewriting RefusalLosesNothing LevelsComplete DirectoryExact
CHECK_DEADLOCK FALSE

CONSTANTS
  k1 = k1
  v1 = v1
  v2 = v2
  Keys = {k1}
  Vals = {v1, v2}
  Absent = Absent
  Commands <- MCCommands
  Faults = {}
  MaxWrites = 2
  MaxTerms = 1
  MaxLog = 8
  MaxReaders = 1
  MaxEvents = 0
SPECIFICATION Spec
INVARIANT SettledReadFresh
PROPERTY ReadStopsWaiting
CHECK_DEADLOCK FALSE

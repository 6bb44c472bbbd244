CONSTANTS
  k1 = k1
  v1 = v1
  v2 = v2
  Keys = {k1}
  Vals = {v1, v2}
  Absent = Absent
  Commands <- MCCommands
  Faults = {"stream", "close", "rename", "syncdir", "remove"}
  MaxLog = 2
  MaxReaders = 1
  MaxEvents = 3
SPECIFICATION FSMFairSpec
INVARIANTS ReplicaConverges ReplayConverges StoreIsOpen
PROPERTY RestoreEnds
CHECK_DEADLOCK FALSE

SPECIFICATION ClientSpec
CONSTANTS
  Keys <- MCKeys
  Vals = {v}
  Tomb = Tomb
  Absent = Absent
  Reserved <- MCReserved
  Stores <- MCStores
  Requests <- MCRequests
  Limit = 2
  CheckEvery = 1
  MaxRedirects = 1
  Batch = 2
  MaxWrites = 1
  Callers = {c1, c2}
  Addrs = {s1, s2}
  Seed = s1
  NoServer = NoServer
  Redirections = 2
  MaxTerms = 1
INVARIANTS ScanComplete RowsFaithful RestoreFaithful NoConnLeaks 
PROPERTIES NothingAfterClose CallReturns
CHECK_DEADLOCK FALSE

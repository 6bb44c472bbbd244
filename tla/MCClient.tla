------------------------------ MODULE MCClient ------------------------------
(***************************************************************************)
(* What a process does with one client: it dumps a server and restores the *)
(* dump, or its goroutines write.                                          *)
(***************************************************************************)
EXTENDS RangeScan, ClientCalls

MCKeys == 1..4
MCReserved == {1}
\* A flushed run that holds the reserved key and no tombstones, under a run with at
\* most two entries.
MCStores ==
  {<<new, old>> : new \in {r \in Level : SizeOf(r) <= 2 /\ r[1] = Absent},
                  old \in {r \in [Keys -> Vals \cup {Absent}] : r[1] # Absent}}
MCRequests ==
  {[start |-> 0, stop |-> 0, desc |-> FALSE], [start |-> 2, stop |-> 3, desc |-> FALSE],
   [start |-> 0, stop |-> 0, desc |-> TRUE], [start |-> 3, stop |-> 2, desc |-> TRUE]}

ClientInit == Init /\ CallInit

Unused == leaderAddr = Seed /\ terms = 0 /\ ~closed /\ \A c \in Callers : call[c] = NotCalled
Writing ==
  /\ phase = "idle"
  /\ levels = <<EmptyLevel, [EmptyLevel EXCEPT ![1] = CHOOSE v \in Vals : TRUE]>>
  /\ req = [start |-> 0, stop |-> 0, desc |-> FALSE]

ClientNext ==
  \/ Next /\ Unused /\ UNCHANGED callVars
  \/ CallNext /\ Writing /\ UNCHANGED vars

ClientSpec == ClientInit /\ [][ClientNext]_<<vars, callVars>> /\ CallFairness
=============================================================================

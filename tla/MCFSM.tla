-------------------------------- MODULE MCFSM --------------------------------
EXTENDS FSM

CONSTANTS k1, v1, v2

Put(v, mode) == [op |-> "put", key |-> k1, val |-> v, mode |-> mode]
Del == [op |-> "del", key |-> k1]

\* The outcome of an update and of an insert depends on the store they meet; the last
\* two are rejected for a bad mode, after a good mutation and at once.
MCCommands ==
  { [op |-> "put", muts |-> <<Put(v1, "update")>>],
    [op |-> "batch", muts |-> <<Del, Put(v1, "upsert")>>],
    [op |-> "put", muts |-> <<Put(v2, "insert")>>],
    [op |-> "delete", muts |-> <<Del>>],
    [op |-> "batch", muts |-> <<Del, Put(v2, "bad")>>],
    [op |-> "put", muts |-> <<Put(v2, "bad")>>] }
=============================================================================

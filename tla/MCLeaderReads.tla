---------------------------- MODULE MCLeaderReads ----------------------------
EXTENDS LeaderReads

CONSTANTS k1, v1, v2

Put(v, mode) == [op |-> "put", key |-> k1, val |-> v, mode |-> mode]

MCCommands ==
  { [op |-> "put", muts |-> <<Put(v1, "upsert")>>],
    [op |-> "put", muts |-> <<Put(v2, "update")>>] }
=============================================================================

SPECIFICATION ClusterSpec
CONSTANTS
  s1 = s1
  Servers = {s1}
  Configs <- MCConfigs
  NoLeader = NoLeader
  Timers = {1, 2}
  MaxEvents <- MCMaxEvents
  MaxMoves = 1
  Nodes = {1, 2, 3}
  Expect = 3
INVARIANTS GraceHonoured VotersCaughtUp OneFounder
PROPERTIES BecomesVoter DeadRemoved
CHECK_DEADLOCK FALSE

SPECIFICATION FairSpec
CONSTANTS
  t1 = t1  t2 = t2
  RingSize = 8
  Peers <- MCPeers
  Keys <- MCNoKeys
  First = 3
  SuccLen = 2
  Tasks <- MCTasks2
  Calm = FALSE
  MaxHops = 3
  MaxPuts = 0
  MaxJoins = 2
  MaxRestarts = 1
  MaxLeaves = 1
  MaxCrashes = 1
  MaxSuspicions = 1
  MaxFaults = 1
INVARIANT OneRing
PROPERTY OperationsEnd
CHECK_DEADLOCK FALSE

SPECIFICATION Spec
CONSTANTS
  t1 = t1  t2 = t2
  RingSize = 8
  Peers <- MCPeers
  Keys <- MCNoKeys
  First = 3
  SuccLen = 2
  Tasks <- MCTasks2
  Calm = TRUE
  MaxHops = 3
  MaxPuts = 0
  MaxJoins = 2
  MaxRestarts = 0
  MaxLeaves = 0
  MaxCrashes = 0
  MaxSuspicions = 0
  MaxFaults = 0
INVARIANT SomebodysSuccessor
CHECK_DEADLOCK FALSE

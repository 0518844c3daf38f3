SPECIFICATION Spec
CONSTANTS
  t1 = t1  t2 = t2
  RingSize = 8
  Peers <- MCPeers4
  Keys <- MCKeys
  First = 3
  SuccLen = 2
  Tasks <- MCTasks1
  Calm = TRUE
  MaxPuts = 2
  MaxJoins = 4
  MaxLeaves = 0
  MaxCrashes = 1
  MaxHops = 3
  MaxRestarts = 1
  MaxFaults = 9
  MaxSuspicions = 0
INVARIANT TypeOK
INVARIANT NoLoss
INVARIANT ReplicaCovers
INVARIANT HasNextHop

SPECIFICATION FairSpec
CONSTANTS
  t1 = t1  t2 = t2
  RingSize = 8
  Peers <- MCPeers4
  Keys <- MCKey
  First = 3
  SuccLen = 2
  Tasks <- MCTasks1
  Calm = TRUE
  MaxPuts = 1
  MaxJoins = 3
  MaxLeaves = 1
  MaxCrashes = 2
  MaxHops = 4
  MaxRestarts = 0
  MaxFaults = 9
  MaxSuspicions = 0
PROPERTY Heals
INVARIANT NoLoss
INVARIANT ReplicaCovers

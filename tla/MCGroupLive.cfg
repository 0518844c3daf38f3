SPECIFICATION FairSpec
CONSTANTS
  t1 = t1  t2 = t2  t3 = t3  t4 = t4
  Members <- MCMembers2
  Tasks <- MCTasks2
  Values <- MCValues
  NoValue = "none"
  FixedPorts = FALSE
  AtomicInstall = FALSE
  MaxMulticasts = 1
  MaxFaults = 2
  MaxLostReplies = 1
PROPERTY FanoutEnds
CHECK_DEADLOCK FALSE

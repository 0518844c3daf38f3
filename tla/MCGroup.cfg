SPECIFICATION Spec
CONSTANTS
  t1 = t1  t2 = t2  t3 = t3  t4 = t4
  Members <- MCMembers2
  Tasks <- MCTasks3
  Values <- MCValues
  NoValue = "none"
  FixedPorts = TRUE
  AtomicInstall = TRUE
  MaxMulticasts = 1
  MaxFaults = 1
  MaxLostReplies = 0
SYMMETRY TaskSymmetry
INVARIANT TypeOK
INVARIANT QuietAgreement
INVARIANT LatestIsCurrent
INVARIANT DeliveredApplied
CHECK_DEADLOCK FALSE

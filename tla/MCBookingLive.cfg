SPECIFICATION FairSpec
CONSTANTS
  c1 = c1
  c2 = c2
  c3 = c3
  p1 = p1
  p2 = p2
  Calls <- MCCalls2
  Properties <- MCProperties
  Listed <- MCListed
  Unknown = Unknown
  NoCall = NoCall
  MaxTimeouts = 1
  MaxCrashes = 1
  MaxRestarts = 1
  MaxHostCalls = 0
PROPERTY EveryCallAnswered
CHECK_DEADLOCK FALSE

SPECIFICATION FairSpec
CONSTANTS
  p1 = p1  p2 = p2  s1 = s1  s2 = s2
  Publishers <- MCPublishers
  Subscribers <- MCSubscribers
  NoThread = NoThread
  Buffer = 3
  MaxEvents = 2
  MaxFaults = 1
INVARIANT TypeOK
INVARIANT FramesWhole
INVARIANT PublisherOrder
INVARIANT NotMissed
PROPERTY PublishEnds
CHECK_DEADLOCK FALSE

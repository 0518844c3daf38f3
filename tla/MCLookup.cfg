SPECIFICATION FairSpec
CONSTANTS
  RingSize = 7
  SuccLen = 3
  MaxHops = 9
INVARIANT TypeOK
INVARIANT OneOwner
INVARIANT AnsweredByOwner
INVARIANT HopsBounded
PROPERTY ComesCloser
PROPERTY LookupEnds
CHECK_DEADLOCK FALSE

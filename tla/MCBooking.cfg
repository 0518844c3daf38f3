SPECIFICATION Spec
CONSTANTS
  c1 = c1
  c2 = c2
  c3 = c3
  p1 = p1
  p2 = p2
  Calls <- MCCalls3
  Properties <- MCProperties
  Listed <- MCListed
  Unknown = Unknown
  NoCall = NoCall
  MaxTimeouts = 2
  MaxCrashes = 1
  MaxRestarts = 1
  MaxHostCalls = 1
SYMMETRY CallSymmetry
INVARIANT TypeOK
INVARIANT NoDoubleBooking
INVARIANT AnswerTruth
INVARIANT ReservedIsUnavailable
INVARIANT HeldHasReason
CHECK_DEADLOCK FALSE
PROPERTY ActsAtOnce

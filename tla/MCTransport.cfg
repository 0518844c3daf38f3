SPECIFICATION FairSpec
CONSTANTS
  Ints <- MCInts
  Tenths <- MCTenths
  Outbox <- MCOutbox
  HeaderSize = 2
  MaxFrame = 3
INVARIANT InStep
INVARIANT Intact
 
PROPERTY Arrives
CHECK_DEADLOCK FALSE

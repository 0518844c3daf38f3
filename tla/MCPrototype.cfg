SPECIFICATION FairSpec
CONSTANTS
  c1 = c1
  c2 = c2
  c3 = c3
  Clients = {c1, c2, c3}
  Requests <- MCRequests
  Stock <- MCStock
  Unknown = 104
  Nobody = Nobody
INVARIANT AnswersFit
INVARIANT NoCollateral
PROPERTY ClientsEnd
CHECK_DEADLOCK FALSE

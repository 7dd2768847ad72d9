SPECIFICATION FairSpec
CONSTANTS
  MaxConns = 3
  MAX_CLIENTS = 2
  Count = 2
  Capacity = 4
  MaxFaults = 1
  NULL = NULL
CHECK_DEADLOCK FALSE
INVARIANT FitsInData
INVARIANT LossNeedsSplit
PROPERTY ClientHeard

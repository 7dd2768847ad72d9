SPECIFICATION Spec
CONSTANTS
  MaxGuests = 2
  MaxHosts = 1
  MAX_FREE_SOCKETS = 5
  NULL = NULL
  LISTEN = LISTEN
  MAIN = MAIN
  MaxFaults = 0
CHECK_DEADLOCK FALSE
INVARIANT FreeAreLocal

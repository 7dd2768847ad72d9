SPECIFICATION FairSpec
CONSTANTS
  MaxGuests = 4
  MaxHosts = 2
  MAX_FREE_SOCKETS = 3
  NULL = NULL
  LISTEN = LISTEN
  MAIN = MAIN
  MaxFaults = 1
CHECK_DEADLOCK FALSE
INVARIANT OwnedUntilReused
INVARIANT FreeIsAwaited
INVARIANT NoOrphanSocket
PROPERTY GuestServed
PROPERTY HostLossEnds

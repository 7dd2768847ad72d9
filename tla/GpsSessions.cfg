SPECIFICATION FairSpec
CONSTANTS
  MaxSessions = 2
  Backlog = 1
  MaxCommands = 2
  SendBuffer = 1
  MaxClock = 2
  DayLength = 2
  MaxFaults = 1
  NULL = NULL
CHECK_DEADLOCK FALSE
INVARIANT ThreadOwnsState
INVARIANT SettledSession
INVARIANT FixOfOneSecond
INVARIANT DropsBounded
PROPERTY CleanupReturns
PROPERTY NextSessionServed

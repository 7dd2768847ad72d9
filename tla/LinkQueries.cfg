SPECIFICATION Spec
CONSTANTS
  MaxQueries = 3
  MaxPlayers = 2
CHECK_DEADLOCK FALSE
INVARIANT FrameIsWhole
PROPERTY ImplementsQueryChannel

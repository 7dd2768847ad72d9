SPECIFICATION FairSpec
CONSTANTS
  Buffers = {b1, b2}
  NULL = NULL
  PreviewFormats <- AllFormats
  PromptSpawn = FALSE
  MaxFaults = 1
PROPERTY ApiReturns
PROPERTY FramesArrive

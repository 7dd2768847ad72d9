SPECIFICATION Spec
CONSTANTS
  Buffers = {b1, b2}
  NULL = NULL
  PreviewFormats <- YuvFormats
  PromptSpawn = FALSE
  MaxFaults = 0
INVARIANT StopWaitsForWorker

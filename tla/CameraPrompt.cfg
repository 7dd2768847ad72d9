SPECIFICATION Spec
CONSTANTS
  Buffers = {b1, b2, b3}
  NULL = NULL
  PreviewFormats <- AllFormats
  PromptSpawn = TRUE
  MaxFaults = 2
SYMMETRY BufferSymmetry
INVARIANT OneQueryAtATime
INVARIANT FrameBufferLive
INVARIANT StoppedDeviceHasNoWorker
INVARIANT BurstDeliversOne
INVARIANT NoOrphanBuffer
INVARIANT PreviewIsFed
INVARIANT CleanClose
PROPERTY DeviceStableDuringFrame
PROPERTY CallbacksOutliveWorker

SPECIFICATION FairSpec
CONSTANTS
  Threads = {t1, t2, t3}
  Inputs = {i1, i2}
  NULL = NULL
  OutRate = 44100
  InRate = 44100
  MaxCalls = 5
  MaxFaults = 1
CHECK_DEADLOCK FALSE
INVARIANT PcmLiveDuringIo
PROPERTY InputKeepsRateGroup
PROPERTY CallsReturn

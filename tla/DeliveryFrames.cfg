SPECIFICATION DeliverySpec
CONSTANTS
  Windows = {w1, w2}
  NULL = NULL
  Dims = {d1, d2}
  Memory = {m1, m2, m3}
  MaxFrames = 4
SYMMETRY Symmetry
INVARIANT BufferGivenBack
INVARIANT PreviewInSync
INVARIANT OneLateFrame
INVARIANT GivenBackIsFreed

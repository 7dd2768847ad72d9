-------------------------- MODULE MCEmulatedCamera --------------------------
\* Instances of EmulatedCamera for TLC.
EXTENDS EmulatedCamera, TLC

\* The three preview formats EmulatedCamera::Initialize advertises, and the two
\* of them that a device can be started with.
AllFormats == {"NV21", "YUV420", "RGB32"}
YuvFormats == {"NV21", "YUV420"}

BufferSymmetry == Permutations(Buffers)
=============================================================================

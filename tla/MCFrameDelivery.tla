-------------------------- MODULE MCFrameDelivery --------------------------
\* Instances of FrameDelivery for TLC.
EXTENDS FrameDelivery, TLC

Symmetry == Permutations(Windows) \cup Permutations(Dims) \cup Permutations(Memory)
=============================================================================

----------------------------- MODULE MCGralloc -----------------------------
\* Instances of Gralloc for TLC.
EXTENDS Gralloc, TLC

\* A buffer drawn by software, one drawn by hardware, one used by both, and the
\* software-drawn kind that the composer reads.
AllUsages == {{"sw"}, {"hw"}, {"sw", "hw"}, {"sw", "composer"}}

Symmetry == Permutations(Processes) \cup Permutations(Handles)
            \cup Permutations(Buffers) \cup Permutations(Addresses)
=============================================================================

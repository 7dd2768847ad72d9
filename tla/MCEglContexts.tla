--------------------------- MODULE MCEglContexts ---------------------------
\* Instances of EglContexts for TLC.
EXTENDS EglContexts, TLC

Symmetry == Permutations(Threads) \cup Permutations(Contexts)
            \cup Permutations(Surfaces)
=============================================================================

-------------------------- MODULE MCNanogemmSweep --------------------------
EXTENDS NanogemmSweep, TLC
Symmetry == Permutations(Tasks) \cup Permutations(Workers)
=============================================================================

------------------------- MODULE MCImmersiveSession -------------------------
EXTENDS ImmersiveSession, TLC

WorkerSymmetry == Permutations(Workers)
=============================================================================

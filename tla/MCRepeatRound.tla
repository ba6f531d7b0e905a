--------------------------- MODULE MCRepeatRound ---------------------------
EXTENDS RepeatRound, TLC

Symmetry == Permutations(Handlers) \cup Permutations(Users) \cup Permutations(Texts)
=============================================================================

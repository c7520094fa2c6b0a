--------------------------- MODULE MCLoopRollback ---------------------------
EXTENDS LoopRollback, TLC

Symmetric == Permutations(Workers) \cup Permutations(Reqs)
=============================================================================

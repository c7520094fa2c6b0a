----------------------------- MODULE MCPaidTier -----------------------------
EXTENDS PaidTier, TLC

Symmetric == Permutations(Tasks) \cup Permutations(Refs) \cup Permutations(Sessions)
=============================================================================

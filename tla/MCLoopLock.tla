----------------------------- MODULE MCLoopLock -----------------------------
(***************************************************************************)
(* Instances of LoopLock for TLC.                                          *)
(***************************************************************************)
EXTENDS LoopLock, TLC

CONSTANTS l1, l2, k1

Sym == Permutations(Loops)

\* All loops are started on one project by one user.
OneKey == [l \in Loops |-> k1]
=============================================================================

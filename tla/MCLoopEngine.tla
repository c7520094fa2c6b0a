---------------------------- MODULE MCLoopEngine ----------------------------
(* LoopEngine for TLC: model values and symmetry.                          *)
EXTENDS LoopEngine, TLC

CONSTANTS p1, p2, t1, t2

MCPipes     == {p1, p2}
MCShipTasks == {t1, t2}
Sym         == Permutations(MCPipes) \cup Permutations(MCShipTasks)

OnePipe     == {p1}
OneShipTask == {t1}
AllLevels   == {"L1", "L2", "L3"}
OnlyL3      == {"L3"}
=============================================================================

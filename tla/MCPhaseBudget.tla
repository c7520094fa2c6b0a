--------------------------- MODULE MCPhaseBudget ----------------------------
(* PhaseBudget for TLC: budgets in minutes, rounded (7, 6, 3 and 2).       *)
EXTENDS PhaseBudget

MCBudget == <<7, 6, 3, 2>>
=============================================================================

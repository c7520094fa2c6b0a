----------------------------- MODULE MCLoopShip -----------------------------
(* LoopShip for TLC: two workers, two requests, three engine objects.      *)
EXTENDS LoopShip, TLC

CONSTANTS w1, w2, e1, e2, e3, r1, r2

MCWorkers  == {w1, w2}
MCEngines  == {e1, e2, e3}
MCRequests == {r1, r2}
=============================================================================

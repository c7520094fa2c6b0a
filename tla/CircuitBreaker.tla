--------------------------- MODULE CircuitBreaker ---------------------------
(***************************************************************************)
(* What the class ParliamentCircuitBreaker promises to its callers:        *)
(*     CLOSED -> OPEN -> HALF_OPEN -> CLOSED (or back to OPEN),            *)
(* a full cooldown each time it opens, one that nothing postpones, and no  *)
(* probe before it has elapsed.  An answer that arrives while it is OPEN   *)
(* may close it.                                                           *)
(***************************************************************************)
EXTENDS Integers

CONSTANT Cooldown    \* a natural number

VARIABLES state, cool    \* cool: time left until the cooldown has elapsed

Init == state = "closed" /\ cool = 0

Opens == state' = "open" /\ cool' = Cooldown

Trip == state = "closed" /\ Opens

Elapse == cool > 0 /\ cool' = cool - 1 /\ UNCHANGED state

Probe == state = "open" /\ cool = 0 /\ state' = "half_open" /\ UNCHANGED cool

Reopen == state = "half_open" /\ Opens

Close == state # "closed" /\ state' = "closed" /\ UNCHANGED cool

Next == Trip \/ Elapse \/ Probe \/ Reopen \/ Close

Spec == Init /\ [][Next]_<<state, cool>>
=============================================================================

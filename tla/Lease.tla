------------------------------- MODULE Lease -------------------------------
(***************************************************************************)
(* What the loop lock of services/loop_safety.py promises, without any of  *)
(* its mechanism: one lease per key, taken only when the key is free, and  *)
(* taken away from its holder only once the holder has been declared over  *)
(* or the lease is more than LockStale old.  LoopLock implements it.       *)
(***************************************************************************)
EXTENDS Naturals

CONSTANTS Loops,      \* loop_ids
          Keys,       \* (project_id, user_id) pairs
          KeyOf,      \* the key each loop is started on
          LockStale,  \* STALE_S: age after which a lease may be broken
          NoLock      \* the key is free

VARIABLES lock,       \* the lease of each key, or NoLock
          over,       \* loops declared over
          now         \* wall clock

vars == <<lock, over, now>>

Row(l, t) == [loop |-> l, at |-> t]

Init == /\ lock = [k \in Keys |-> NoLock]
        /\ over = {}
        /\ now = 0

\* The lease of key k is taken by l; the stamp may lie in the past, by as
\* much as the request has been running.
Take(k, l) == \E t \in 0 .. now :
                 /\ lock[k] = NoLock
                 /\ KeyOf[l] = k
                 /\ lock' = [lock EXCEPT ![k] = Row(l, t)]
                 /\ UNCHANGED <<over, now>>

\* The lease of key k ends, with cause.
Drop(k) == /\ lock[k] # NoLock
           /\ \/ lock[k].loop \in over'
              \/ lock[k].at + LockStale < now
           /\ lock' = [lock EXCEPT ![k] = NoLock]
           /\ over \subseteq over'
           /\ now' = now

DeclareOver == /\ over \subseteq over'
               /\ UNCHANGED <<lock, now>>

Pass == /\ now' > now
        /\ UNCHANGED <<lock, over>>

Next == \/ \E k \in Keys, l \in Loops : Take(k, l)
        \/ \E k \in Keys : Drop(k)
        \/ DeclareOver
        \/ Pass

Spec == Init /\ [][Next]_vars
=============================================================================

------------------------- MODULE PhaseBudget_proofs -------------------------
(* Theorems of PhaseBudget, for every number of phases, budget, backoff,   *)
(* restart count and staleness threshold the assumptions allow.            *)
EXTENDS PhaseBudget, TLAPS

\* The longest a phase takes from its first entry to the end of its k-th
\* restart's backoff.
Attempt == Budget[n] + Lag
Sleep   == Backoff + Lag

\* The row of a live attempt is never older than the attempt; the attempt
\* never overruns its limit by more than Lag; earlier attempts and backoffs
\* took at most one Attempt and one Sleep each.
TimeInv ==
    /\ TypeOK
    /\ at = "phase" =>
         /\ sess = "running"
         /\ quiet <= spent /\ spent <= Attempt
         /\ elapsed <= tries * (Attempt + Sleep) + spent
    /\ at = "backoff" =>
         /\ sess = "running"
         /\ quiet <= spent /\ spent <= Sleep
         /\ tries > 0
         /\ elapsed <= (tries - 1) * (Attempt + Sleep) + Attempt + spent

\* The initial state satisfies the invariant.
LEMMA InitTime == Init => TimeInv
BY PhaseBudgetAssumption DEF Init, TimeInv, TypeOK, Attempt, Sleep

\* Multiplication by a restart count, as far as the steps need it.
LEMMA OneMore ==
    ASSUME NEW k \in Nat, NEW c \in Nat
    PROVE  /\ k * c \in Nat
           /\ (k + 1) * c = k * c + c
           /\ (k + 1) - 1 = k
OBVIOUS

\* A smaller count gives a smaller product.
LEMMA Monotone ==
    ASSUME NEW m \in Nat, NEW k \in 0..m, NEW c \in Nat
    PROVE  k * c <= m * c
<1> DEFINE d == m - k
<1>1. d \in Nat /\ m = k + d
  OBVIOUS
<1>2. (k + d) * c = k * c + d * c
  BY <1>1
<1>3. d * c >= 0 /\ k * c \in Int /\ d * c \in Int
  BY <1>1
<1>4. QED
  BY <1>1, <1>2, <1>3

\* Every step keeps the invariant.
LEMMA NextTime == TimeInv /\ [Next]_vars => TimeInv'
<1> SUFFICES ASSUME TimeInv, [Next]_vars PROVE TimeInv'
  OBVIOUS
<1> USE PhaseBudgetAssumption, StaleAfterAssumption
<1>0. /\ n \in 1..Phases /\ Budget[n] \in Nat /\ Attempt \in Nat /\ Sleep \in Nat
      /\ tries \in Nat /\ spent \in Nat /\ elapsed \in Nat /\ quiet \in Nat
  BY DEF TimeInv, TypeOK, Attempt, Sleep
<1>1. CASE Emit
  BY <1>0, <1>1 DEF Emit, TimeInv, TypeOK, Attempt, Sleep
<1>2. CASE NextPhase
  <2>1. n' \in 1..Phases /\ Budget[n'] \in Nat
    BY <1>0, <1>2 DEF NextPhase
  <2>2. TypeOK'
    BY <1>0, <1>2, <2>1 DEF NextPhase, TypeOK
  <2>3. PICK c \in Nat, d \in Nat : c = Attempt' /\ d = Sleep'
    BY <2>1 DEF Attempt, Sleep
  <2>4. /\ at' = "phase" /\ sess' = "running"
        /\ tries' = 0 /\ spent' = 0 /\ elapsed' = 0 /\ quiet' = 0
    BY <1>2 DEF NextPhase
  <2>5. tries' * (c + d) = 0 /\ 0 <= c
    BY <2>4
  <2>6. tries' * (Attempt' + Sleep') = 0 /\ 0 <= Attempt'
    BY <2>3, <2>5, Zenon
  <2>7. elapsed' <= tries' * (Attempt' + Sleep') + spent' /\ spent' <= Attempt'
    BY <2>4, <2>6
  <2>8. QED
    BY <2>2, <2>4, <2>7 DEF TimeInv
<1>3. CASE Stop
  BY <1>0, <1>3 DEF Stop, TimeInv, TypeOK
<1>4. CASE TimeOut
  <2>1. CASE tries < MaxRestarts
    <3>1. tries' = tries + 1 /\ tries' \in 0..MaxRestarts /\ tries' - 1 = tries
      BY <1>0, <1>4, <2>1 DEF TimeOut
    <3>2. Attempt' = Attempt /\ Sleep' = Sleep
      BY <1>4 DEF TimeOut, Attempt, Sleep
    <3>3. elapsed' <= tries * (Attempt + Sleep) + Attempt
      <4>1. tries * (Attempt + Sleep) \in Nat
        BY <1>0, OneMore
      <4>2. elapsed <= tries * (Attempt + Sleep) + spent /\ spent <= Attempt
        BY <1>4 DEF TimeOut, TimeInv
      <4>3. QED
        BY <1>0, <1>4, <4>1, <4>2 DEF TimeOut
    <3>4. elapsed' <= (tries' - 1) * (Attempt' + Sleep') + Attempt' + 0
      BY <1>0, <3>1, <3>2, <3>3
    <3>5. QED
      BY <1>0, <1>4, <2>1, <3>1, <3>2, <3>4 DEF TimeOut, TimeInv, TypeOK
  <2>2. CASE ~(tries < MaxRestarts)
    BY <1>0, <1>4, <2>2 DEF TimeOut, TimeInv, TypeOK
  <2>3. QED
    BY <2>1, <2>2
<1>5. CASE Restart
  <2>1. Attempt' = Attempt /\ Sleep' = Sleep /\ tries' = tries
    BY <1>5 DEF Restart, Attempt, Sleep
  <2>2. tries - 1 \in Nat /\ (tries - 1) + 1 = tries
    BY <1>0, <1>5 DEF Restart, TimeInv
  <2>3. tries * (Attempt + Sleep)
          = (tries - 1) * (Attempt + Sleep) + (Attempt + Sleep)
    BY <1>0, <2>2, OneMore
  <2>4. elapsed <= (tries - 1) * (Attempt + Sleep) + Attempt + spent
        /\ spent <= Sleep
    BY <1>5 DEF Restart, TimeInv
  <2>5. (tries - 1) * (Attempt + Sleep) \in Nat
    BY <1>0, <2>2, OneMore
  <2>6. elapsed <= tries * (Attempt + Sleep) + 0
    BY <1>0, <2>3, <2>4, <2>5
  <2>7. elapsed' <= tries' * (Attempt' + Sleep') + spent'
    BY <1>5, <2>1, <2>6 DEF Restart
  <2>8. QED
    BY <1>0, <1>5, <2>1, <2>7 DEF Restart, TimeInv, TypeOK
<1>6. CASE Crash
  BY <1>0, <1>6 DEF Crash, TimeInv, TypeOK
<1>7. CASE ResumeStale
  <2>1. ~Live
    BY <1>0, <1>7 DEF ResumeStale, TimeInv, Live, Attempt, Sleep
  <2>2. QED
    BY <1>0, <1>7, <2>1 DEF ResumeStale, TimeInv, TypeOK, Live
<1>8. CASE Tick
  <2>1. /\ Attempt' = Attempt /\ Sleep' = Sleep /\ tries' = tries
        /\ at' = at /\ sess' = sess /\ n' = n
    BY <1>8 DEF Tick, Attempt, Sleep
  <2>2. CASE at = "phase"
    <3>1. spent < Attempt /\ spent' = spent + 1 /\ elapsed' = elapsed + 1
          /\ quiet' <= spent' /\ quiet' \in Nat
      <4>1. quiet <= spent /\ spent <= Attempt
        BY <2>2 DEF TimeInv
      <4>2. QED
        BY <1>0, <1>8, <2>2, <4>1 DEF Tick, Live, Limit, Attempt
    <3>2. tries * (Attempt + Sleep) \in Nat
      BY <1>0, OneMore
    <3>3. elapsed <= tries * (Attempt + Sleep) + spent
      BY <2>2 DEF TimeInv
    <3>4. elapsed' <= tries * (Attempt + Sleep) + spent'
      BY <1>0, <3>1, <3>2, <3>3
    <3>5. QED
      BY <1>0, <2>1, <2>2, <3>1, <3>4 DEF TimeInv, TypeOK
  <2>3. CASE at = "backoff"
    <3>1. spent < Sleep /\ spent' = spent + 1 /\ elapsed' = elapsed + 1
          /\ quiet' <= spent' /\ quiet' \in Nat
      <4>1. quiet <= spent /\ spent <= Sleep
        BY <2>3 DEF TimeInv
      <4>2. QED
        BY <1>0, <1>8, <2>3, <4>1 DEF Tick, Live, Limit, Sleep
    <3>2. tries - 1 \in Nat
      BY <1>0, <2>3 DEF TimeInv
    <3>3. (tries - 1) * (Attempt + Sleep) \in Nat
      BY <1>0, <3>2, OneMore
    <3>4. elapsed <= (tries - 1) * (Attempt + Sleep) + Attempt + spent
      BY <2>3 DEF TimeInv
    <3>5. elapsed' <= (tries - 1) * (Attempt + Sleep) + Attempt + spent'
      BY <1>0, <3>1, <3>3, <3>4
    <3>6. QED
      BY <1>0, <2>1, <2>3, <3>1, <3>5 DEF TimeInv, TypeOK
  <2>4. CASE at \notin {"phase", "backoff"}
    BY <1>0, <1>8, <2>1, <2>4 DEF Tick, Live, TimeInv, TypeOK
  <2>5. QED
    BY <2>2, <2>3, <2>4
<1>9. CASE UNCHANGED vars
  BY <1>9 DEF vars, TimeInv, TypeOK, Attempt, Sleep
<1>10. QED
  BY <1>1, <1>2, <1>3, <1>4, <1>5, <1>6, <1>7, <1>8, <1>9 DEF Next

\* The invariant holds throughout.
LEMMA TimeInvariant == Spec => []TimeInv
BY InitTime, NextTime, PTL DEF Spec

\* Every variable keeps its type; in particular a phase never gets more than
\* MAX_PHASE_RESTARTS restarts.
THEOREM TypeCorrect == Spec => []TypeOK
<1>1. TimeInv => TypeOK
  BY DEF TimeInv
<1>2. QED
  BY <1>1, TimeInvariant, PTL

\* resume_stale never pauses the session of a live phase, whatever the
\* budgets, as long as the import-time assert holds.
THEOREM ReaperSpares == Spec => []ReaperSparesPhases
<1>1. TimeInv => ReaperSparesPhases
  BY DEF TimeInv, ReaperSparesPhases, Live
<1>2. QED
  BY <1>1, TimeInvariant, PTL

\* A phase occupies the loop no longer than its attempts and backoffs allow.
THEOREM PhaseBounded == Spec => []PhaseIsBounded
<1>1. TimeInv => PhaseIsBounded
  <2> SUFFICES ASSUME TimeInv, Live PROVE elapsed <= WorstCase
    BY DEF PhaseIsBounded
  <2> USE PhaseBudgetAssumption
  <2>0. /\ Budget[n] \in Nat /\ Attempt \in Nat /\ Sleep \in Nat
        /\ tries \in 0..MaxRestarts /\ spent \in Nat /\ elapsed \in Nat
        /\ MaxRestarts \in Nat
    BY DEF TimeInv, TypeOK, Attempt, Sleep
  <2>1. WorstCase = MaxRestarts * (Attempt + Sleep) + Attempt
    <3>1. (MaxRestarts + 1) * Attempt = MaxRestarts * Attempt + Attempt
      BY <2>0, OneMore
    <3>2. MaxRestarts * (Attempt + Sleep)
            = MaxRestarts * Attempt + MaxRestarts * Sleep
      BY <2>0
    <3>3. MaxRestarts * Attempt \in Nat /\ MaxRestarts * Sleep \in Nat
      BY <2>0, OneMore
    <3>4. WorstCase = (MaxRestarts + 1) * Attempt + MaxRestarts * Sleep
      BY DEF WorstCase, Attempt, Sleep
    <3>5. QED
      BY <2>0, <3>1, <3>2, <3>3, <3>4
  <2>2. CASE at = "phase"
    <3>1. tries * (Attempt + Sleep) <= MaxRestarts * (Attempt + Sleep)
      BY <2>0, Monotone
    <3>2. tries * (Attempt + Sleep) \in Nat /\ MaxRestarts * (Attempt + Sleep) \in Nat
      BY <2>0, OneMore
    <3>3. elapsed <= tries * (Attempt + Sleep) + spent /\ spent <= Attempt
      BY <2>2 DEF TimeInv
    <3>4. QED
      BY <2>0, <2>1, <3>1, <3>2, <3>3
  <2>3. CASE at = "backoff"
    <3>1. tries - 1 \in Nat /\ tries = (tries - 1) + 1
      BY <2>0, <2>3 DEF TimeInv
    <3>2. tries * (Attempt + Sleep)
            = (tries - 1) * (Attempt + Sleep) + (Attempt + Sleep)
      BY <2>0, <3>1, OneMore
    <3>3. tries * (Attempt + Sleep) <= MaxRestarts * (Attempt + Sleep)
      BY <2>0, Monotone
    <3>4. /\ (tries - 1) * (Attempt + Sleep) \in Nat
          /\ tries * (Attempt + Sleep) \in Nat
          /\ MaxRestarts * (Attempt + Sleep) \in Nat
      BY <2>0, <3>1, OneMore
    <3>5. elapsed <= (tries - 1) * (Attempt + Sleep) + Attempt + spent
          /\ spent <= Sleep
      BY <2>3 DEF TimeInv
    <3>6. QED
      BY <2>0, <2>1, <3>2, <3>3, <3>4, <3>5
  <2>4. QED
    BY <2>2, <2>3 DEF Live
<1>2. QED
  BY <1>1, TimeInvariant, PTL
=============================================================================

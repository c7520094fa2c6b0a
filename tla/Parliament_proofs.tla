------------------------- MODULE Parliament_proofs -------------------------
(***************************************************************************)
(* Proofs about the breaker of Parliament, for any number of callers, any  *)
(* council, threshold, timeout, cooldown and semaphore.                    *)
(***************************************************************************)
EXTENDS Parliament, TLAPS

\* A probe that is out has recorded nothing: all its calls are still pending.
Pending(r) ==
    \/ /\ phase[r] = "vote"
       /\ \A m \in Members : call[r][m] \in {"waiting", "flying"}
    \/ phase[r] = "heal" /\ call[r][Solo] \in {"waiting", "flying"}

ProbeOut == probe /\ prober # NoRun => Pending(prober)

IInv == TypeOK /\ ProbeOut

-----------------------------------------------------------------------------
(* The operators of the breaker. *)

\* The three ways the methods of ParliamentCircuitBreaker leave its fields.
BreakerOK ==
    /\ state \in States /\ fails \in 0 .. Threshold /\ cool \in 0 .. Cooldown
    /\ probe \in BOOLEAN
    /\ probe => state = "half_open"
    /\ state = "closed" => fails < Threshold

LEMMA ReadStateOK ==
    ASSUME BreakerOK, ReadState
    PROVE  BreakerOK' /\ (probe' => probe /\ state' = state)
  <1>1. (probe' => probe /\ Seen = state) /\ probe' \in BOOLEAN
    BY Zenon DEF ReadState, SeenProbe
  <1>2. state' = Seen /\ fails' = fails /\ cool' = cool
    BY DEF ReadState
  <1> QED  BY <1>1, <1>2 DEF BreakerOK, States, Seen

\* A caller that may attempt leaves no other probe out.
LEMMA AttemptOK ==
    ASSUME BreakerOK, NEW r \in Runs, Attempt(r)
    PROVE  BreakerOK' /\ (probe' => prober' = r) /\ prober' \in {r, prober}
  <1>1. /\ state' = Seen /\ fails' = fails /\ cool' = cool
        /\ prober' = IF Seen = "half_open" THEN r ELSE prober
    BY DEF Attempt
  <1>2. (probe' <=> probe \/ Seen = "half_open") /\ probe' \in BOOLEAN
    BY Zenon DEF Attempt
  <1>3. ~probe \/ Seen = "half_open"
    BY DEF BreakerOK, Seen
  <1> QED  BY <1>1, <1>2, <1>3 DEF BreakerOK, States, Seen

\* A recorded answer takes the probe's flag back.
LEMMA RecordOK ==
    ASSUME BreakerOK, RecordSuccess \/ RecordFailure
    PROVE  BreakerOK' /\ ~probe'
  <1>1. ~(probe /\ state = "closed") /\ ~(probe /\ state # "half_open")
    BY DEF BreakerOK
  <1>2. ~probe' /\ probe' \in BOOLEAN
    BY <1>1, Zenon DEF RecordSuccess, RecordFailure
  <1>3. CASE RecordSuccess
    BY <1>2, <1>3, ParliamentAssumption DEF RecordSuccess, BreakerOK, States
  <1>4. CASE RecordFailure
    BY <1>2, <1>4, ParliamentAssumption DEF RecordFailure, BreakerOK, States
  <1> QED  BY <1>2, <1>3, <1>4

-----------------------------------------------------------------------------
(* Type correctness, and the probe. *)

\* What TypeOK says of the callers and their calls.
CallsOK ==
    /\ phase \in [Runs -> Phases]
    /\ call \in [Runs -> [Calls -> {"none", "waiting", "flying", "ok", "bad"}]]
    /\ left \in [Runs -> [Calls -> 0 .. Timeout]]
    /\ trouble \in BOOLEAN
    /\ prober \in Runs \cup {NoRun}

LEMMA Split == /\ TypeOK <=> BreakerOK /\ CallsOK
               /\ TypeOK' <=> BreakerOK' /\ CallsOK'
  BY DEF TypeOK, BreakerOK, CallsOK

\* A step of r that moves it to a phase with fresh calls.
LEMMA BeginOK ==
    ASSUME CallsOK, NEW r \in Runs, NEW from, NEW to \in Phases,
           NEW calls \in {NoCalls, OneCall, Council}, Begin(r, from, to, calls),
           prober' \in Runs \cup {NoRun}
    PROVE  CallsOK'
  <1>1. calls \in [Calls -> {"none", "waiting", "flying", "ok", "bad"}]
    BY DEF NoCalls, OneCall, Council, Calls
  <1> QED  BY <1>1 DEF CallsOK, Begin

\* It leaves what another run has out, and only an idle, a vote that is in, a
\* judge or a single call that has ended begins anything.
LEMMA BeginElsewhere ==
    ASSUME CallsOK, NEW r \in Runs, NEW from, NEW to, NEW calls, Begin(r, from, to, calls),
           NEW p \in Runs \ {r}, Pending(p)
    PROVE  Pending(p)'
  BY DEF Begin, Pending, CallsOK, Calls

LEMMA Initially == Init => IInv
  <1> SUFFICES ASSUME Init PROVE IInv
    OBVIOUS
  <1>1. BreakerOK
    <2>1. ~probe /\ probe \in BOOLEAN
      BY Zenon DEF Init
    <2> QED  BY <2>1, ParliamentAssumption DEF Init, BreakerOK, States
  <1>2. CallsOK
    BY ParliamentAssumption DEF Init, CallsOK, NoCalls, Phases
  <1>3. ProbeOut
    BY DEF Init, ProbeOut
  <1> QED  BY <1>1, <1>2, <1>3, Split DEF IInv

\* The start of a council or a heal.
LEMMA Starts ==
    ASSUME IInv, NEW r \in Runs, StartCouncil(r) \/ StartHeal(r)
    PROVE  IInv'
  <1> USE Split DEF IInv
  <1>1. Attempt(r) /\ phase[r] = "idle"
    BY DEF StartCouncil, StartHeal, Begin
  <1>2. BreakerOK' /\ (probe' => prober' = r) /\ prober' \in {r, prober}
    BY <1>1, AttemptOK
  <1>3. CallsOK'
    <2>1. prober' \in Runs \cup {NoRun}
      BY <1>2 DEF CallsOK
    <2>2. CASE StartCouncil(r)
      BY <2>1, <2>2, BeginOK DEF StartCouncil, Phases
    <2>3. CASE StartHeal(r)
      BY <2>1, <2>3, BeginOK DEF StartHeal, Phases
    <2> QED  BY <2>2, <2>3
  <1>4. Pending(r)'
    <2>1. CASE StartCouncil(r)
      BY <2>1, ParliamentAssumption
      DEF StartCouncil, Begin, Pending, Council, Calls, CallsOK
    <2>2. CASE StartHeal(r)
      BY <2>2, ParliamentAssumption
      DEF StartHeal, Begin, Pending, OneCall, NoCalls, Calls, CallsOK
    <2> QED  BY <2>1, <2>2
  <1>5. ProbeOut'
    BY <1>2, <1>4 DEF ProbeOut, Pending
  <1> QED  BY <1>2, <1>3, <1>5

\* A step of r that begins something else while it is not the probe that is
\* out, or lets the breaker be read, keeps the invariant.
LEMMA Others ==
    ASSUME IInv, NEW r \in Runs, NEW from, NEW to \in Phases,
           NEW calls \in {NoCalls, OneCall}, Begin(r, from, to, calls),
           ReadState \/ UNCHANGED breaker, UNCHANGED prober,
           ~Pending(r)
    PROVE  IInv'
  <1> USE Split DEF IInv
  <1>1. BreakerOK' /\ (probe' => probe)
    <2>1. CASE ReadState  BY <2>1, ReadStateOK
    <2>2. CASE UNCHANGED breaker  BY <2>2 DEF breaker, BreakerOK
    <2> QED  BY <2>1, <2>2
  <1>2. CallsOK'
    BY BeginOK DEF CallsOK
  <1>3. ASSUME probe', prober # NoRun PROVE Pending(prober)'
    <2>1. Pending(prober) /\ prober \in Runs \ {r}
      BY <1>1, <1>3 DEF ProbeOut, CallsOK
    <2> QED  BY <2>1, BeginElsewhere
  <1>4. ProbeOut'
    BY <1>3 DEF ProbeOut, Pending
  <1> QED  BY <1>1, <1>2, <1>4

LEMMA NotPending ==
    ASSUME NEW r \in Runs,
           \/ phase[r] \notin {"vote", "heal"}
           \/ phase[r] = "vote" /\ \A m \in Members : call[r][m] \in {"ok", "bad"}
           \/ phase[r] = "heal" /\ call[r][Solo] \in {"ok", "bad"}
    PROVE  ~Pending(r)
  BY ParliamentAssumption DEF Pending

\* A call that begins to fly, or ends, or a run that is cancelled.
LEMMA CallSteps ==
    ASSUME IInv, NEW r \in Runs, NEW c \in Calls, NEW ok \in BOOLEAN,
           Acquire(r, c) \/ Answer(r, c, ok) \/ Cancel(r)
    PROVE  IInv'
  <1> USE Split DEF IInv
  <1>1. CASE Acquire(r, c)
    <2>1. BreakerOK' /\ probe' = probe /\ prober' = prober
      BY <1>1 DEF Acquire, breaker, BreakerOK
    <2>2. CallsOK'
      BY <1>1, ParliamentAssumption DEF Acquire, CallsOK, breaker
    <2>3. ASSUME probe', prober' # NoRun PROVE Pending(prober)'
      <3>1. Pending(prober) /\ prober \in Runs
        BY <2>1, <2>3 DEF ProbeOut, CallsOK
      <3> QED  BY <1>1, <2>1, <3>1 DEF Acquire, Pending, CallsOK, Calls
    <2> QED  BY <2>1, <2>2, <2>3 DEF ProbeOut, Pending
  <1>2. CASE Answer(r, c, ok)
    <2>1. BreakerOK' /\ ~probe'
      BY <1>2, RecordOK DEF Answer
    <2>2. CallsOK'
      BY <1>2, ParliamentAssumption DEF Answer, CallsOK, breaker
    <2> QED  BY <2>1, <2>2 DEF ProbeOut
  <1>3. CASE Cancel(r)
    <2>1. BreakerOK' /\ probe' = probe
      BY <1>3 DEF Cancel, breaker, BreakerOK
    <2>2. CallsOK'
      BY <1>3, ParliamentAssumption DEF Cancel, CallsOK, NoCalls, breaker, Phases
    <2>3. ASSUME probe', prober' # NoRun PROVE Pending(prober)'
      <3>1. prober' = prober /\ prober # r
        BY <1>3, <2>3 DEF Cancel
      <3>2. Pending(prober) /\ prober \in Runs \ {r}
        BY <2>1, <2>3, <3>1 DEF ProbeOut, CallsOK
      <3> QED  BY <1>3, <3>1, <3>2 DEF Cancel, Pending, CallsOK
    <2> QED  BY <2>1, <2>2, <2>3 DEF ProbeOut, Pending
  <1> QED  BY <1>1, <1>2, <1>3

\* Time passes, the provider changes, a heal is refused.
LEMMA OtherSteps ==
    ASSUME IInv, Tick \/ Weather \/ \E r \in Runs : RefuseHeal(r)
    PROVE  IInv'
  <1> USE Split DEF IInv
  <1>1. /\ BreakerOK' /\ (probe' => probe)
        /\ UNCHANGED <<phase, call, prober>>
    <2>1. CASE Tick
      <3>1. probe' = probe /\ UNCHANGED <<phase, call, prober>>
        BY <2>1 DEF Tick
      <3>2. cool' \in 0 .. Cooldown /\ state' = state /\ fails' = fails
        BY <2>1, ParliamentAssumption DEF Tick, BreakerOK
      <3> QED  BY <3>1, <3>2 DEF BreakerOK
    <2>2. CASE Weather
      BY <2>2 DEF Weather, BreakerOK, breaker
    <2>3. CASE \E r \in Runs : RefuseHeal(r)
      BY <2>3, ReadStateOK DEF RefuseHeal, Refuse
    <2> QED  BY <2>1, <2>2, <2>3
  <1>2. CallsOK'
    <2>1. CASE Tick
      <3>1. ASSUME NEW r \in Runs, NEW c \in Calls, call[r][c] = "flying"
            PROVE  left[r][c] - 1 \in 0 .. Timeout
        <4>1. <<r, c>> \in Flying
          BY <3>1 DEF Flying
        <4>2. left[r][c] > 0
          BY <2>1, <4>1 DEF Tick
        <4> QED  BY <4>2, ParliamentAssumption DEF CallsOK
      <3>2. left' \in [Runs -> [Calls -> 0 .. Timeout]]
        BY <2>1, <3>1, ParliamentAssumption DEF Tick
      <3> QED  BY <1>1, <2>1, <3>2 DEF Tick, CallsOK
    <2>2. CASE ~Tick
      BY <2>2 DEF Weather, RefuseHeal, CallsOK
    <2> QED  BY <2>1, <2>2
  <1>3. ProbeOut'
    BY <1>1 DEF ProbeOut, Pending
  <1> QED  BY <1>1, <1>2, <1>3

\* What ends or continues a run.
LEMMA RunSteps ==
    ASSUME IInv, NEW r \in Runs, StartFallback(r) \/ Proceed(r)
    PROVE  IInv'
  <1>1. CASE StartFallback(r)
    <2>1. Begin(r, "idle", "single", OneCall) /\ ReadState /\ UNCHANGED prober
      BY <1>1 DEF StartFallback, Refuse
    <2>2. ~Pending(r)
      BY <2>1, NotPending DEF Begin
    <2> QED  BY <2>1, <2>2, Others DEF Phases
  <1>2. CASE Decide(r)
    <2>1. phase[r] = "vote" /\ \A m \in Members : call[r][m] \in {"ok", "bad"}
      BY <1>2 DEF Decide, Return, Begin
    <2>2. ~Pending(r)
      BY <2>1, NotPending
    <2>3. CASE Return(r, "vote")
      BY <2>2, <2>3, Others DEF Return, Phases
    <2>4. CASE Begin(r, "vote", "judge", OneCall) /\ UNCHANGED <<breaker, prober>>
      BY <2>2, <2>4, Others DEF Phases
    <2> QED  BY <1>2, <2>3, <2>4 DEF Decide
  <1>3. CASE Rescue(r)
    <2>1. Begin(r, "judge", "rescue", OneCall) /\ UNCHANGED <<breaker, prober>>
      BY <1>3 DEF Rescue
    <2>2. ~Pending(r)
      BY <2>1, NotPending DEF Begin
    <2> QED  BY <2>1, <2>2, Others DEF Phases
  <1>4. CASE EndRun(r)
    <2>1. PICK from \in {"single", "rescue", "judge"} : Return(r, from)
      BY <1>4 DEF EndRun
    <2>2. ~Pending(r)
      BY <2>1, NotPending DEF Return, Begin
    <2> QED  BY <2>1, <2>2, Others DEF Return, Phases
  <1>5. CASE EndHeal(r)
    <2>1. /\ Begin(r, "heal", "idle", NoCalls) /\ UNCHANGED <<breaker, prober>>
          /\ phase[r] = "heal" /\ call[r][Solo] \in {"ok", "bad"}
      BY <1>5 DEF EndHeal, Begin
    <2>2. ~Pending(r)
      BY <2>1, NotPending
    <2> QED  BY <2>1, <2>2, Others DEF Phases
  <1> QED  BY <1>1, <1>2, <1>3, <1>4, <1>5 DEF Proceed

LEMMA Inductive == IInv /\ [Next]_vars => IInv'
  <1> SUFFICES ASSUME IInv, [Next]_vars PROVE IInv'
    OBVIOUS
  <1>1. CASE Tick \/ Weather \/ \E r \in Runs : RefuseHeal(r)
    BY <1>1, OtherSteps
  <1>2. ASSUME NEW r \in Runs, StartCouncil(r) \/ StartHeal(r) PROVE IInv'
    BY <1>2, Starts
  <1>3. ASSUME NEW r \in Runs, StartFallback(r) \/ Proceed(r) PROVE IInv'
    BY <1>3, RunSteps
  <1>4. ASSUME NEW r \in Runs, Cancel(r) PROVE IInv'
    <2>1. Solo \in Calls
      BY DEF Calls
    <2> QED  BY <1>4, <2>1, CallSteps
  <1>5. ASSUME NEW r \in Runs, NEW c \in Calls, Acquire(r, c) PROVE IInv'
    BY <1>5, CallSteps
  <1>6. ASSUME NEW r \in Runs, NEW c \in Calls, NEW ok \in BOOLEAN, Answer(r, c, ok)
        PROVE  IInv'
    BY <1>6, CallSteps
  <1>7. CASE UNCHANGED vars
    BY <1>7 DEF vars, breaker, IInv, TypeOK, ProbeOut, Pending
  <1> QED  BY <1>1, <1>2, <1>3, <1>4, <1>5, <1>6, <1>7 DEF Next, Run, Heal

\* The types of Parliament: a probe is out only while the breaker is half
\* open, and a closed breaker has counted fewer failures than the threshold.
THEOREM TypeCorrect == Spec => []TypeOK
  <1>1. IInv => TypeOK
    BY DEF IInv
  <1> QED  BY <1>1, Initially, Inductive, PTL DEF Spec

\* _half_open_probe never outlives its probe, unless that probe was cancelled:
\* whatever the other runs record meanwhile, a half-open breaker that refuses
\* its callers still waits for an answer that will change its state.
THEOREM ProbeAlive == Spec => []ProbeIsAlive
  <1>1. IInv => ProbeIsAlive
    <2> SUFFICES ASSUME IInv, probe, prober # NoRun
                 PROVE  \E c \in Calls : call[prober][c] \in {"waiting", "flying"}
      BY DEF ProbeIsAlive
    <2>1. Pending(prober)
      BY DEF IInv, ProbeOut
    <2> QED  BY <2>1, ParliamentAssumption DEF Pending, Calls
  <1> QED  BY <1>1, Initially, Inductive, PTL DEF Spec

-----------------------------------------------------------------------------
(* Parliament implements CircuitBreaker. *)

LEMMA ReadRefines == ASSUME ReadState \/ \E r \in Runs : Attempt(r)
                     PROVE  [Promise!Next]_<<state, cool>>
  BY DEF ReadState, Attempt, Seen, Promise!Next, Promise!Probe

LEMMA RecordRefines ==
    ASSUME IInv, RecordSuccess \/ RecordFailure
    PROVE  [Promise!Next]_<<state, cool>>
  BY DEF IInv, TypeOK, States, RecordSuccess, RecordFailure, Promise!Next, Promise!Opens,
         Promise!Trip, Promise!Reopen, Promise!Close

\* Every run of the shared breaker, whoever calls it and in whatever order
\* answers arrive, is a run of the breaker its class describes: it opens for a
\* full cooldown that no later failure prolongs, and probes only after it.
THEOREM Refinement == Spec => KeepsPromise
  <1>1. Init => Promise!Init
    BY DEF Init, Promise!Init
  <1>2. IInv /\ [Next]_vars => [Promise!Next]_<<state, cool>>
    <2> SUFFICES ASSUME IInv, [Next]_vars PROVE [Promise!Next]_<<state, cool>>
      OBVIOUS
    <2>1. CASE UNCHANGED <<state, cool>>
      BY <2>1
    <2>2. CASE ReadState \/ \E r \in Runs : Attempt(r)
      BY <2>2, ReadRefines
    <2>3. CASE RecordSuccess \/ RecordFailure
      BY <2>3, RecordRefines
    <2>4. CASE Tick
      BY <2>4 DEF Tick, IInv, TypeOK, Promise!Next, Promise!Elapse
    <2>5. \/ UNCHANGED <<state, cool>> \/ Tick
          \/ ReadState \/ (\E r \in Runs : Attempt(r))
          \/ RecordSuccess \/ RecordFailure
      <3>1. ASSUME NEW r \in Runs, Run(r) \/ Heal(r)
            PROVE  ReadState \/ Attempt(r)
        BY <3>1 DEF Run, Heal, StartCouncil, StartFallback, StartHeal, RefuseHeal, Refuse
      <3>2. ASSUME NEW r \in Runs, Proceed(r) PROVE ReadState \/ UNCHANGED <<state, cool>>
        BY <3>2 DEF Proceed, Decide, Rescue, EndRun, EndHeal, Return, breaker
      <3>3. ASSUME NEW r \in Runs, NEW c \in Calls, Acquire(r, c)
            PROVE  UNCHANGED <<state, cool>>
        BY <3>3 DEF Acquire, breaker
      <3>4. ASSUME NEW r \in Runs, NEW c \in Calls, NEW ok \in BOOLEAN, Answer(r, c, ok)
            PROVE  RecordSuccess \/ RecordFailure
        BY <3>4 DEF Answer
      <3>5. (\E r \in Runs : Cancel(r)) \/ Weather \/ UNCHANGED vars
            => UNCHANGED <<state, cool>>
        BY DEF Cancel, Weather, vars, breaker
      <3> QED  BY <3>1, <3>2, <3>3, <3>4, <3>5 DEF Next
    <2> QED  BY <2>1, <2>2, <2>3, <2>4, <2>5
  <1> QED  BY <1>1, <1>2, Initially, Inductive, PTL DEF Spec, KeepsPromise, Promise!Spec
=============================================================================

----------------------------- MODULE Parliament -----------------------------
(***************************************************************************)
(* The circuit breaker that all Parliament runs of a process share, the    *)
(* semaphore that caps their LLM calls, and the runs themselves: a council *)
(* vote and its judge, the single call that replaces them while the        *)
(* breaker refuses, and the healer's call.                                 *)
(*                                                                         *)
(* One process, one event loop: what runs between two awaits is one step.  *)
(* Abstracted: what the calls return beyond success or failure; the        *)
(* observability window; clock readings, kept as times left.               *)
(***************************************************************************)
EXTENDS Integers, FiniteSets

CONSTANTS Runs,        \* callers of Parliament.run and SelfHeal.heal
          Members,     \* members of a council
          Solo,        \* the call of a judge, a fallback or a healer
          NoRun,
          Threshold,   \* FAILURE_THRESHOLD
          Timeout,     \* TIMEOUT_PER_CALL, in ticks
          Cooldown,    \* COOLDOWN_SECONDS, in ticks
          MaxCalls,    \* MAX_CONCURRENT_LLM_CALLS
          CeoRescue    \* CEO_RESCUE_ENABLED

ASSUME ParliamentAssumption ==
    /\ {Threshold, Timeout, Cooldown, MaxCalls} \subseteq Nat /\ Threshold > 0
    /\ Members # {} /\ Solo \notin Members /\ NoRun \notin Runs
    /\ CeoRescue \in BOOLEAN

VARIABLES state,    \* _state of the breaker
          fails,    \* _consec_failures; from Threshold on all values act alike
          cool,     \* time until _opened_at is COOLDOWN_SECONDS ago
          probe,    \* _half_open_probe
          phase,    \* what each caller does
          call,     \* its LLM calls: "waiting" for the semaphore, "flying", ...
          left,     \* time left to a flying call
          trouble,  \* environment: calls may fail, callers may be cancelled
          prober    \* ghost: the run that took the probe, unless it was cancelled

breaker == <<state, fails, cool, probe>>
vars == <<breaker, phase, call, left, trouble, prober>>

Calls == Members \cup {Solo}
States == {"closed", "open", "half_open"}
Phases == {"idle", "vote", "judge", "rescue", "single", "heal"}
NoCalls == [c \in Calls |-> "none"]
OneCall == [NoCalls EXCEPT ![Solo] = "waiting"]
Council == [c \in Calls |-> IF c = Solo THEN "none" ELSE "waiting"]

Init ==
    /\ state = "closed" /\ fails = 0 /\ cool = 0 /\ probe = FALSE
    /\ phase = [r \in Runs |-> "idle"]
    /\ call = [r \in Runs |-> NoCalls]
    /\ left = [r \in Runs |-> [c \in Calls |-> 0]]
    /\ trouble = TRUE
    /\ prober = NoRun

Flying == {rc \in Runs \X Calls : call[rc[1]][rc[2]] = "flying"}

-----------------------------------------------------------------------------
(* ParliamentCircuitBreaker *)

\* The property `state': OPEN turns to HALF_OPEN when read after the cooldown.
Seen == IF state = "open" /\ cool = 0 THEN "half_open" ELSE state
SeenProbe == probe /\ Seen = state
ReadState == state' = Seen /\ probe' = SeenProbe /\ UNCHANGED <<fails, cool>>

\* should_attempt() is True; the caller is now the probe of a half-open breaker.
Attempt(r) ==
    /\ Seen = "closed" \/ (Seen = "half_open" /\ ~SeenProbe)
    /\ state' = Seen
    /\ probe' = (probe \/ Seen = "half_open")
    /\ prober' = IF Seen = "half_open" THEN r ELSE prober
    /\ UNCHANGED <<fails, cool>>

\* should_attempt() is False.
Refuse ==
    /\ Seen = "open" \/ (Seen = "half_open" /\ SeenProbe)
    /\ ReadState

\* Variant: a success closes the breaker, the count of failures stays.
RecordSuccessOnly ==
    /\ state' = "closed"
    /\ probe' = (probe /\ state = "closed")
    /\ UNCHANGED <<fails, cool>>

RecordSuccess ==
    /\ fails' = 0
    /\ state' = "closed"
    /\ probe' = (probe /\ state = "closed")
    /\ UNCHANGED cool

\* Variant: every failure restarts the cooldown.
RecordLateFailure ==
    /\ fails' = IF fails < Threshold THEN fails + 1 ELSE fails
    /\ probe' = (probe /\ state # "half_open")
    /\ IF state # "closed" \/ fails + 1 >= Threshold
       THEN state' = "open" /\ cool' = Cooldown
       ELSE UNCHANGED <<state, cool>>

RecordFailure ==
    /\ fails' = IF fails < Threshold THEN fails + 1 ELSE fails
    /\ probe' = (probe /\ state # "half_open")
    /\ IF state = "half_open" \/ (state = "closed" /\ fails + 1 >= Threshold)
       THEN state' = "open" /\ cool' = Cooldown
       ELSE UNCHANGED <<state, cool>>

-----------------------------------------------------------------------------
(* Parliament.run, SelfHeal.heal *)

Begin(r, from, to, calls) ==
    /\ phase[r] = from
    /\ phase' = [phase EXCEPT ![r] = to]
    /\ call' = [call EXCEPT ![r] = calls]
    /\ UNCHANGED <<left, trouble>>

StartCouncil(r) == Begin(r, "idle", "vote", Council) /\ Attempt(r)

StartFallback(r) ==
    /\ Begin(r, "idle", "single", OneCall)
    /\ Refuse
    /\ UNCHANGED prober

StartHeal(r) == Begin(r, "idle", "heal", OneCall) /\ Attempt(r)

\* heal() answers circuit_open; all that can change is what a read changes.
RefuseHeal(r) ==
    /\ phase[r] = "idle"
    /\ Refuse
    /\ UNCHANGED <<phase, call, left, trouble, prober>>

\* _llm_call_protected enters _GLOBAL_LLM_SEM and starts its timeout.
Acquire(r, c) ==
    /\ call[r][c] = "waiting"
    /\ Cardinality(Flying) < MaxCalls
    /\ call' = [call EXCEPT ![r][c] = "flying"]
    /\ left' = [left EXCEPT ![r][c] = Timeout]
    /\ UNCHANGED <<breaker, phase, trouble, prober>>

\* Variant: what a fallback call did is not recorded.
AnswerUnlessFallback(r, c, ok) ==
    /\ call[r][c] = "flying"
    /\ ok \/ trouble
    /\ call' = [call EXCEPT ![r][c] = IF ok THEN "ok" ELSE "bad"]
    /\ left' = [left EXCEPT ![r][c] = 0]
    /\ IF phase[r] = "single" THEN UNCHANGED breaker
       ELSE IF ok THEN RecordSuccess ELSE RecordFailure
    /\ UNCHANGED <<phase, trouble, prober>>

\* Variant: an empty answer is no failure of the provider.
AnswerUnlessEmpty(r, c, ok) ==
    /\ call[r][c] = "flying"
    /\ ok \/ trouble
    /\ call' = [call EXCEPT ![r][c] = IF ok THEN "ok" ELSE "bad"]
    /\ left' = [left EXCEPT ![r][c] = 0]
    /\ IF ok THEN RecordSuccess ELSE RecordFailure \/ UNCHANGED breaker
    /\ UNCHANGED <<phase, trouble, prober>>

\* The call ends: an answer, or an error, an empty answer or the timeout.
Answer(r, c, ok) ==
    /\ call[r][c] = "flying"
    /\ ok \/ trouble
    /\ call' = [call EXCEPT ![r][c] = IF ok THEN "ok" ELSE "bad"]
    /\ left' = [left EXCEPT ![r][c] = 0]
    /\ IF ok THEN RecordSuccess ELSE RecordFailure
    /\ UNCHANGED <<phase, trouble, prober>>

\* The run is over: its decision carries the state of the breaker.
Return(r, from) ==
    /\ Begin(r, from, "idle", NoCalls)
    /\ ReadState
    /\ UNCHANGED prober

\* gather() has all the votes.  No usable one, or one above the floor, ends
\* the run; otherwise the CEO asks its judge.
Decide(r) ==
    /\ \A m \in Members : call[r][m] \in {"ok", "bad"}
    /\ \/ Return(r, "vote")
       \/ /\ \E m \in Members : call[r][m] = "ok"
          /\ Begin(r, "vote", "judge", OneCall)
          /\ UNCHANGED <<breaker, prober>>

\* _ceo_judge_call_with_rescue: a judge that failed, or that took longer than
\* CEO_PRIMARY_TIMEOUT_S and is cancelled, is followed by another model.
Rescue(r) ==
    /\ CeoRescue /\ call[r][Solo] # "ok"
    /\ Begin(r, "judge", "rescue", OneCall)
    /\ UNCHANGED <<breaker, prober>>

EndRun(r) ==
    /\ call[r][Solo] \in {"ok", "bad"}
    /\ \/ Return(r, "single") \/ Return(r, "rescue")
       \/ (call[r][Solo] = "ok" \/ ~CeoRescue) /\ Return(r, "judge")

EndHeal(r) ==
    /\ call[r][Solo] \in {"ok", "bad"}
    /\ Begin(r, "heal", "idle", NoCalls)
    /\ UNCHANGED <<breaker, prober>>

\* PER_FILE_TIMEOUT_S, SELF_HEAL_LLM_TIMEOUT_S, a phase budget or the user
\* cancels the caller.  CancelledError passes every handler: nothing is recorded.
Cancel(r) ==
    /\ trouble /\ phase[r] # "idle"
    /\ phase' = [phase EXCEPT ![r] = "idle"]
    /\ call' = [call EXCEPT ![r] = NoCalls]
    /\ left' = [left EXCEPT ![r] = [c \in Calls |-> 0]]
    /\ prober' = IF prober = r THEN NoRun ELSE prober
    /\ UNCHANGED <<breaker, trouble>>

-----------------------------------------------------------------------------
\* wait_for has ended every call that is out of time before more time passes.
Tick ==
    /\ \A rc \in Flying : left[rc[1]][rc[2]] > 0
    /\ cool > 0 \/ Flying # {}
    /\ cool' = IF cool > 0 THEN cool - 1 ELSE 0
    /\ left' = [r \in Runs |-> [c \in Calls |->
                  IF call[r][c] = "flying" THEN left[r][c] - 1 ELSE 0]]
    /\ UNCHANGED <<state, fails, probe, phase, call, trouble, prober>>

\* The provider falls sick or recovers.
Weather ==
    /\ trouble' = ~trouble
    /\ UNCHANGED <<breaker, phase, call, left, prober>>

Run(r) == StartCouncil(r) \/ StartFallback(r)
Heal(r) == StartHeal(r) \/ RefuseHeal(r)
Proceed(r) == Decide(r) \/ Rescue(r) \/ EndRun(r) \/ EndHeal(r)

\* Variant: the provider's answer is awaited without a timeout.
DueNever(r, c) == ~trouble /\ left[r][c] = 0 /\ \E ok \in BOOLEAN : Answer(r, c, ok)

Due(r, c) == left[r][c] = 0 /\ \E ok \in BOOLEAN : Answer(r, c, ok)

Next ==
    \/ \E r \in Runs : Run(r) \/ Heal(r) \/ Proceed(r) \/ Cancel(r)
    \/ \E r \in Runs, c \in Calls : Acquire(r, c) \/ \E ok \in BOOLEAN : Answer(r, c, ok)
    \/ Tick \/ Weather

\* The event loop runs what is ready, time passes, wait_for ends a call in
\* time, and the semaphore serves its waiters in order.
Fairness ==
    /\ WF_vars(Tick)
    /\ \A r \in Runs : /\ WF_vars(Proceed(r))
                       /\ WF_vars(\E c \in Calls : Due(r, c))
                       /\ SF_vars(\E c \in Calls : Acquire(r, c))

Spec == Init /\ [][Next]_vars
FairSpec == Spec /\ Fairness

-----------------------------------------------------------------------------
\* Types; only a half-open breaker has a probe, and a closed one has counted
\* fewer failures than the threshold.
TypeOK ==
    /\ state \in States
    /\ fails \in 0 .. Threshold
    /\ cool \in 0 .. Cooldown
    /\ probe \in BOOLEAN
    /\ phase \in [Runs -> Phases]
    /\ call \in [Runs -> [Calls -> {"none", "waiting", "flying", "ok", "bad"}]]
    /\ left \in [Runs -> [Calls -> 0 .. Timeout]]
    /\ trouble \in BOOLEAN
    /\ prober \in Runs \cup {NoRun}
    /\ probe => state = "half_open"
    /\ state = "closed" => fails < Threshold

\* A half-open breaker that refuses callers because its probe is out is still
\* waiting for a call of that probe: however its answers are interleaved with
\* those of other runs, only a cancelled probe leaves the flag behind.
ProbeIsAlive ==
    state = "half_open" /\ probe =>
        prober = NoRun \/ \E c \in Calls : call[prober][c] \in {"waiting", "flying"}

\* Every run, and every heal, ends: the timeout of each call and the order of
\* the semaphore see to it whatever the provider does.
RunsEnd == \A r \in Runs : phase[r] # "idle" ~> phase[r] = "idle"

\* Once the provider stays well, and as long as runs keep coming, the breaker
\* closes for good, even when a cancelled probe has left its flag behind: the
\* fallback calls of refused runs are recorded too.
Recovers ==
    <>[]~trouble /\ []<><<\E r \in Runs : Run(r)>>_vars => <>[](state = "closed")

\* The shared breaker, under all interleavings of its callers, is the breaker
\* its class promises.
Promise == INSTANCE CircuitBreaker WITH state <- state, cool <- cool, Cooldown <- Cooldown
KeepsPromise == Promise!Spec
=============================================================================

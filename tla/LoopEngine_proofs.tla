------------------------- MODULE LoopEngine_proofs -------------------------
(***************************************************************************)
(* Machine-checked proofs about LoopEngine, for any number of pipelines,   *)
(* confirm_ship tasks, versions and requests, any trust levels and any     *)
(* budget of restarts and heals.                                           *)
(***************************************************************************)
EXTENDS LoopEngine, TLAPS

-----------------------------------------------------------------------------
(* The inductive invariant, by the variables it constrains.                *)

Phases == Phase \cup {"plan", "self_heal"}

\* The versions that passed both ship gates.
Gated == passed.guard \cap passed.verifier

\* A commit record is an error or on GitHub.  A state that says the ship is
\* completed goes with one on GitHub, or with an error some confirm_ship adopted.
Recording(c) == c # 0 /\ (c = ShipError => adopted)

StateInv ==
    /\ est \in State /\ sess \in State
    /\ phase \in Phases /\ sphase \in Phases
    /\ claimed \in BOOLEAN
    /\ commit \in {0, ShipError} \cup pushed
    /\ est = "completed" /\ phase = "ship" => Recording(commit)
    /\ sess = "completed" /\ sphase = "ship" => Recording(commit)
    /\ adopted \in BOOLEAN

\* What is offered passed the gates, and so did what is pushed.
FileInv ==
    /\ files \in 0..MaxVer /\ pending \in 0..MaxVer /\ ver \in 0..MaxVer
    /\ passed \in [{"guard", "verifier"} -> SUBSET (1..MaxVer)]
    /\ pushed \subseteq Gated
    /\ pending # 0 => pending \in Gated

\* A pipeline between the gates holds a copy that passed the first one.
TaskInv(task, guard) ==
    /\ task \in Task
    /\ task.at = "heal" => task.heals < MaxSelfHeals
    /\ task.at = "gate" => task.ph = "ship" /\ task.mine \in guard

PipeInv ==
    /\ pipe \in [Pipes -> Task]
    /\ \A p \in Pipes : TaskInv(pipe[p], passed.guard)
    /\ handle \in Pipes \cup {NoPipe}

\* A confirm_ship task past its check holds a copy that passed both.
ShipTask == [at : ShipStep, approved : BOOLEAN, body : 0..MaxVer]

ShipTaskInv(task, gated, done) ==
    /\ task \in ShipTask
    /\ task.at \notin {"idle", "start"} => task.body \in gated
    /\ task.at = "pushed" => task.body \in done

ShipInv ==
    /\ ship \in [ShipTasks -> ShipTask]
    /\ \A t \in ShipTasks : ShipTaskInv(ship[t], Gated, pushed)

\* After a clean skip every pipeline stops before SHIP and nothing is offered.
SkipInv ==
    skipped => cancelled /\ pending = 0 /\ \A p \in Pipes : ~Shipping(pipe[p])

\* Requests that are not over were counted.
CountInv ==
    /\ confirming \in Nat /\ cancelling \in Nat /\ ops \in 0..MaxOps
    /\ confirming + cancelling <= ops
    /\ trust \in Levels \cup {"L2"}
    /\ plan \in {"running", "ready", "failed"}
    /\ sweep \in {"none", "rescue", "expire"}
    /\ cancelled \in BOOLEAN /\ live \in BOOLEAN /\ skipped \in BOOLEAN

IInv == StateInv /\ FileInv /\ PipeInv /\ ShipInv /\ SkipInv /\ CountInv

-----------------------------------------------------------------------------
(* Initial states and small facts.                                         *)

LEMMA Bounds ==
    /\ MaxRestarts \in Nat /\ MaxSelfHeals \in Nat /\ MaxScanHeals \in Nat
    /\ MaxOps \in Nat /\ MaxVer \in Nat
    /\ NoPipe \notin Pipes /\ ShipError = MaxVer + 1
BY LoopEngineAssumption DEF ShipError

LEMMA NoTaskOK == TaskInv(NoTask, passed.guard) /\ NoTask.at = "idle" /\ NoTask.ph = "execute"
BY Bounds DEF TaskInv, NoTask, Task, Phase, Step

LEMMA DoneIsAStep == "done" \in Step /\ "backoff" \in Step
BY DEF Step

LEMMA NoShipOK == ShipTaskInv(NoShip, Gated, pushed)
BY Bounds DEF ShipTaskInv, NoShip, ShipTask, ShipStep

LEMMA InitOK == Init => IInv
<1> SUFFICES ASSUME Init PROVE IInv
  OBVIOUS
<1> USE Bounds DEF Init
<1>1. StateInv
  <2>1. adopted \in BOOLEAN
    BY Zenon
  <2> QED
    BY <2>1 DEF StateInv, State, Phases
<1>2. FileInv
  BY DEF FileInv, Gated
<1>3. PipeInv
  BY NoTaskOK DEF PipeInv, TaskInv
<1>4. ShipInv
  BY NoShipOK DEF ShipInv, ShipTaskInv
<1>5. SkipInv
  BY DEF SkipInv
<1>6. CountInv
  <2>1. confirming + cancelling <= ops
    OBVIOUS
  <2>2. cancelled \in BOOLEAN /\ live \in BOOLEAN /\ skipped \in BOOLEAN
    BY Zenon
  <2> QED
    BY <2>1, <2>2 DEF CountInv
<1> QED
  BY <1>1, <1>2, <1>3, <1>4, <1>5, <1>6 DEF IInv

\* The invariant implies what the runs check.
LEMMA TypesHold == IInv => TypeOK
<1> SUFFICES ASSUME IInv PROVE TypeOK
  OBVIOUS
<1>1. pushed \subseteq 1..MaxVer
  BY DEF IInv, FileInv, Gated
<1>2. commit \in 0..ShipError
  BY <1>1, Bounds DEF IInv, StateInv
<1>3. {confirming, cancelling, ops} \subseteq 0..MaxOps
  BY Bounds DEF IInv, CountInv
<1>4. {phase, sphase} \subseteq Phase \cup {"plan", "self_heal"}
  BY DEF IInv, StateInv, Phases
<1>5. {cancelled, claimed, live} \subseteq BOOLEAN /\ {skipped, adopted} \subseteq BOOLEAN
  BY Zenon DEF IInv, StateInv, CountInv
<1> QED
  BY <1>1, <1>2, <1>3, <1>4, <1>5
     DEF TypeOK, IInv, StateInv, FileInv, PipeInv, ShipInv, CountInv, ShipTask

\* The idle members of CountInv.
LEMMA CountKept ==
  ASSUME CountInv, trust' \in Levels \cup {"L2"}, skipped' \in BOOLEAN,
         UNCHANGED <<confirming, cancelling, ops, plan, sweep, cancelled, live>>
  PROVE  CountInv'
BY DEF CountInv

\* What the engine says of itself is left, repeated or set to paused, or set to
\* anything but a completed ship.
QuietState ==
    \/ unchangedState
    \/ Persist(est, phase)
    \/ est' = "paused" /\ UNCHANGED <<phase, sess, sphase, claimed>>
    \/ \E s \in State, ph \in Phases :
         (s = "completed" => ph # "ship") /\ Persist(s, ph)

\* A commit record is only ever replaced by the error of a ship that fails.
Recorded ==
    /\ commit' = commit \/ (commit' = ShipError /\ Persist("failed", "ship"))
    /\ UNCHANGED <<pushed, adopted>>

LEMMA QuietStateOK ==
  ASSUME StateInv, QuietState, Recorded
  PROVE  StateInv'
<1>1. ShipError' = ShipError /\ Recording(commit)' = (commit' # 0 /\ (commit' = ShipError => adopted'))
  BY DEF ShipError, Recording
<1>2. adopted' = adopted /\ adopted' \in BOOLEAN
  BY DEF Recorded, StateInv
<1>3. commit' \in {0, ShipError} \cup pushed'
  BY DEF Recorded, StateInv
<1>4. CASE commit' = commit
  <2>1. Recording(commit)' <=> Recording(commit)
    BY <1>1, <1>2, <1>4 DEF Recording
  <2>2. CASE unchangedState
    BY <1>1, <1>2, <1>3, <2>1, <2>2 DEF StateInv, unchangedState
  <2>3. CASE Persist(est, phase)
    BY <1>1, <1>2, <1>3, <2>1, <2>3 DEF StateInv, Persist
  <2>4. CASE est' = "paused" /\ UNCHANGED <<phase, sess, sphase, claimed>>
    BY <1>1, <1>2, <1>3, <2>1, <2>4 DEF StateInv, State, Idle
  <2>5. CASE \E s \in State, ph \in Phases :
               (s = "completed" => ph # "ship") /\ Persist(s, ph)
    BY <1>1, <1>2, <1>3, <2>1, <2>5 DEF StateInv, Persist
  <2> QED
    BY <2>2, <2>3, <2>4, <2>5 DEF QuietState
<1>5. CASE commit' # commit
  <2>1. Persist("failed", "ship")
    BY <1>5 DEF Recorded
  <2> QED
    BY <1>1, <1>2, <1>3, <2>1 DEF StateInv, Persist, State, Terminal, Phases, Phase
<1> QED
  BY <1>4, <1>5

\* What passed the gates stays passed, so what is offered may stay or go.
LEMMA FileKept ==
  ASSUME FileInv, files' \in 0..MaxVer, ver' \in 0..MaxVer, pending' \in {0, pending},
         UNCHANGED <<passed, pushed>>
  PROVE  FileInv'
BY Bounds DEF FileInv, Gated

LEMMA ShipKept ==
  ASSUME ShipInv, UNCHANGED <<ship, passed, pushed>>
  PROVE  ShipInv'
BY DEF ShipInv, ShipTaskInv, Gated

LEMMA PipeKept ==
  ASSUME PipeInv, UNCHANGED <<pipe, passed>>, handle' \in Pipes \cup {NoPipe}
  PROVE  PipeInv'
BY DEF PipeInv, TaskInv

-----------------------------------------------------------------------------
(* The pipelines.                                                          *)

\* A version that passed a gate has passed it for good.
Grows ==
    /\ passed' \in [{"guard", "verifier"} -> SUBSET (1..MaxVer)]
    /\ passed.guard \subseteq passed'.guard
    /\ passed.verifier \subseteq passed'.verifier

\* One step of a pipeline that pushes nothing: it may enter SHIP only if it
\* looked at _cancelled, and offers only what passed the gates.
PipeStep(p, rec) ==
    /\ Move(p, rec)
    /\ TaskInv(rec, passed'.guard)
    /\ Shipping(rec) => Shipping(pipe[p]) \/ ~cancelled
    /\ handle' \in Pipes \cup {NoPipe}
    /\ QuietState /\ Recorded
    /\ files' \in 0..MaxVer /\ ver' \in 0..MaxVer
    /\ \/ pending' \in {0, pending}
       \/ pending' \in Gated' /\ ~skipped
    /\ Grows
    /\ UNCHANGED <<trust, skipped>> /\ unchangedGlobal

LEMMA TaskGrows ==
  ASSUME NEW task, TaskInv(task, passed.guard), Grows
  PROVE  TaskInv(task, passed'.guard)
BY DEF TaskInv, Grows

LEMMA ShipGrows ==
  ASSUME ShipInv, ship' = ship, pushed' = pushed, Grows
  PROVE  ShipInv'
BY DEF ShipInv, ShipTaskInv, Gated, Grows

LEMMA PipeStepOK ==
  ASSUME IInv, NEW p \in Pipes, NEW rec, PipeStep(p, rec)
  PROVE  IInv'
<1> USE DEF IInv
<1>1. StateInv'
  BY QuietStateOK DEF PipeStep
<1>2. FileInv'
  BY Bounds DEF FileInv, PipeStep, Grows, Gated, Recorded
<1>3. PipeInv'
  <2>1. pipe' = [pipe EXCEPT ![p] = rec] /\ rec \in Task /\ handle' \in Pipes \cup {NoPipe}
    BY DEF PipeStep, Move, TaskInv
  <2>2. \A q \in Pipes : TaskInv(pipe'[q], passed'.guard)
    <3> SUFFICES ASSUME NEW q \in Pipes PROVE TaskInv(pipe'[q], passed'.guard)
      OBVIOUS
    <3>1. CASE q = p
      <4>1. pipe'[q] = rec
        BY <2>1, <3>1 DEF PipeInv
      <4> QED
        BY <4>1 DEF PipeStep, TaskInv
    <3>2. CASE q # p
      <4>1. pipe'[q] = pipe[q]
        BY <2>1, <3>2 DEF PipeInv
      <4> QED
        BY <4>1 DEF PipeStep, TaskInv, PipeInv, Grows
    <3> QED
      BY <3>1, <3>2
  <2> QED
    BY <2>1, <2>2 DEF PipeInv
<1>4. ShipInv'
  BY ShipGrows DEF PipeStep, unchangedGlobal, Recorded
<1>5. SkipInv'
  BY DEF SkipInv, PipeStep, Move, PipeInv, unchangedGlobal
<1>6. CountInv'
  BY CountKept DEF CountInv, PipeStep, unchangedGlobal
<1> QED
  BY <1>1, <1>2, <1>3, <1>4, <1>5, <1>6

\* What most steps of a pipeline leave alone.
Quiet(p) ==
    /\ handle' \in Pipes \cup {NoPipe}
    /\ QuietState /\ Recorded
    /\ files' \in 0..MaxVer /\ ver' \in 0..MaxVer
    /\ pending' \in {0, pending}
    /\ passed' = passed
    /\ UNCHANGED <<trust, skipped>> /\ unchangedGlobal

LEMMA QuietStepOK ==
  ASSUME IInv, NEW p \in Pipes, NEW rec, Move(p, rec), TaskInv(rec, passed.guard),
         Shipping(rec) => Shipping(pipe[p]) \/ ~cancelled, Quiet(p)
  PROVE  IInv'
<1>1. Grows
  BY DEF Grows, Quiet, IInv, FileInv
<1>2. TaskInv(rec, passed'.guard)
  BY <1>1, TaskGrows
<1> QED
  BY <1>1, <1>2, PipeStepOK DEF PipeStep, Quiet

\* The ways to write the session that say nothing of a completed ship.
LEMMA PersistQuiet ==
  ASSUME NEW s \in State, NEW ph \in Phases, Persist(s, ph), s # "completed" \/ ph # "ship"
  PROVE  QuietState
BY DEF QuietState

\* Returning from a phase and ending the task.
LEMMA ReturnOK ==
  ASSUME IInv, NEW p \in Pipes, Return(p), Quiet(p)
  PROVE  IInv'
<1> DEFINE rec == [NoTask EXCEPT !.ph = pipe[p].ph, !.at = "done"]
<1>1. TaskInv(rec, passed.guard) /\ ~Shipping(rec)
  <2>1. pipe[p].ph \in Phase
    BY DEF IInv, PipeInv, Task
  <2>2. rec \in Task /\ rec.at = "done"
    BY <2>1, NoTaskOK, DoneIsAStep DEF TaskInv, Task
  <2> HIDE DEF rec
  <2> QED
    BY <2>2 DEF TaskInv, Shipping
<1>2. Move(p, rec)
  BY DEF Return
<1> HIDE DEF rec
<1> QED
  BY <1>1, <1>2, QuietStepOK

LEMMA ExitOK ==
  ASSUME IInv, NEW p \in Pipes, Exit(p), Quiet(p)
  PROVE  IInv'
<1>1. TaskInv(NoTask, passed.guard) /\ ~Shipping(NoTask)
  BY NoTaskOK DEF Shipping
<1> QED
  BY <1>1, QuietStepOK DEF Exit

\* Entering a phase.
LEMMA EnterOK ==
  ASSUME IInv, NEW p \in Pipes, NEW ph \in Phase, NEW tries \in 0..MaxRestarts,
         Enter(p, ph, tries), handle' = handle, Recorded,
         UNCHANGED <<files, ver, pending, passed, trust, skipped>>, unchangedGlobal,
         ph = "ship" => ~cancelled \/ Shipping(pipe[p])
  PROVE  IInv'
<1> DEFINE rec == [ph |-> ph, at |-> "work", mine |-> files, tries |-> tries, heals |-> 0]
<1>1. TaskInv(rec, passed.guard) /\ (Shipping(rec) <=> ph = "ship")
  BY Bounds DEF IInv, FileInv, TaskInv, Task, Shipping, Step
<1>2. Move(p, rec) /\ Persist(PhaseState[ph], ph)
  BY DEF Enter
<1>3. PhaseState[ph] \in State /\ PhaseState[ph] # "completed" /\ ph \in Phases
  BY DEF PhaseState, Phase, State, Running, Phases
<1>4. Quiet(p)
  BY <1>2, <1>3, PersistQuiet DEF Quiet, IInv, FileInv, PipeInv
<1> HIDE DEF rec
<1> QED
  BY <1>1, <1>2, <1>4, QuietStepOK

\* The frame of a pipeline step, from the conjuncts the actions are made of.
LEMMA QuietFrame ==
  ASSUME IInv, NEW p \in Pipes, handle' = handle \/ handle' = NoPipe, QuietState,
         files' \in 0..MaxVer, ver' \in 0..MaxVer, pending' \in {0, pending},
         Recorded, UNCHANGED <<passed, trust, skipped>>,
         unchangedGlobal
  PROVE  Quiet(p)
BY DEF Quiet, Recorded, IInv, PipeInv

\* What a step leaves of the counters and the offers is in range.
LEMMA Ranges ==
  ASSUME IInv
  PROVE  /\ files \in 0..MaxVer /\ ver \in 0..MaxVer /\ 0 \in 0..MaxVer
         /\ phase \in Phases
         /\ \A p \in Pipes : pipe[p] \in Task /\ pipe[p].ph \in Phase
BY Bounds DEF IInv, FileInv, StateInv, PipeInv, Task

\* The states a phase writes.
LEMMA StateNames ==
  /\ {"failed", "paused", "executing", "verifying", "scanning", "self_healing",
      "completed"} \subseteq State
  /\ Phase \cup {"self_heal"} \subseteq Phases
  /\ Phase = {"execute", "verify", "scan", "ship"}
BY DEF State, Running, Idle, Terminal, Phase, Phases

\* A phase that returns with files and offer as they were, and a new session
\* state at most.
LEMMA ReturnsOK ==
  ASSUME IInv, NEW p \in Pipes, Return(p), handle' = handle, QuietState,
         files' \in 0..MaxVer, ver' \in 0..MaxVer, pending' \in {0, pending}, passed' = passed,
         Recorded, trust' = trust, skipped' = skipped, unchangedGlobal
  PROVE  IInv'
BY QuietFrame, ReturnOK

LEMMA ControlOK ==
  ASSUME IInv, NEW p \in Pipes,
         Begin(p) \/ NextPhase(p) \/ PhaseFails(p) \/ PipelineError(p) \/ TimeOut(p)
         \/ Restart(p)
  PROVE  IInv'
<1> USE DEF unchangedPipeline
<1>0. /\ 0 \in 0..MaxRestarts
      /\ "execute" \in Phase
      /\ \A q \in Pipes : pipe[q].tries \in 0..MaxRestarts /\ pipe[q].ph \in Phase
  BY Bounds DEF Phase, IInv, PipeInv, Task
<1>1. CASE Begin(p)
  BY <1>0, <1>1, EnterOK DEF Begin, Recorded
<1>2. CASE NextPhase(p)
  <2>1. CASE ShouldStop \/ pipe[p].ph = "ship"
    <3>1. Exit(p) /\ unchangedState
      BY <1>2, <2>1 DEF NextPhase
    <3>2. Quiet(p)
      BY <1>2, <3>1, Ranges, QuietFrame DEF NextPhase, Exit, QuietState, Recorded
    <3> QED
      BY <3>1, <3>2, ExitOK
  <2>2. CASE ~(ShouldStop \/ pipe[p].ph = "ship")
    <3>1. NextOf[pipe[p].ph] \in Phase
      BY <1>0, <2>2 DEF NextOf, Phase
    <3>2. ~cancelled
      BY <2>2 DEF ShouldStop
    <3> QED
      BY <1>0, <1>2, <2>2, <3>1, <3>2, EnterOK DEF NextPhase, Recorded
  <2> QED
    BY <2>1, <2>2
<1>3. CASE PhaseFails(p)
  <2>1. QuietState
    BY <1>3, <1>0, StateNames, PersistQuiet DEF PhaseFails
  <2> QED
    BY <1>3, <2>1, Ranges, ReturnsOK DEF PhaseFails, histVars, Recorded
<1>4. CASE PipelineError(p)
  <2>1. QuietState
    BY <1>4, Ranges, StateNames, PersistQuiet DEF PipelineError
  <2>2. Quiet(p)
    BY <1>4, <2>1, Ranges, QuietFrame DEF PipelineError, Exit, Recorded
  <2> QED
    BY <1>4, <2>2, ExitOK DEF PipelineError
<1>5. CASE TimeOut(p)
  <2>1. CASE pipe[p].tries < MaxRestarts
    <3> DEFINE rec == [pipe[p] EXCEPT !.at = "backoff", !.tries = @ + 1]
    <3>1. /\ Move(p, rec) /\ Persist("self_healing", "self_heal")
          /\ files' \in {0, files}
      BY <1>5, <2>1 DEF TimeOut
    <3>2. TaskInv(rec, passed.guard)
      <4>1. pipe[p] \in Task /\ pipe[p].tries + 1 \in 0..MaxRestarts
        BY <2>1, Ranges, Bounds DEF Task
      <4>2. rec \in Task /\ rec.at = "backoff"
        BY <4>1, DoneIsAStep DEF Task
      <4> HIDE DEF rec
      <4> QED
        BY <4>2 DEF TaskInv
    <3>3. Shipping(rec) => Shipping(pipe[p])
      <4>1. pipe[p] \in Task /\ pipe[p].at \notin {"idle", "done"}
        BY <1>5, Ranges DEF TimeOut, Working
      <4>2. rec.ph = pipe[p].ph
        BY <4>1 DEF Task
      <4> QED
        BY <4>1, <4>2 DEF Shipping
    <3>4. QuietState
      BY <3>1, StateNames, PersistQuiet
    <3>5. Quiet(p)
      BY <1>5, <3>1, <3>4, Ranges, QuietFrame DEF TimeOut, Recorded
    <3> HIDE DEF rec
    <3> QED
      BY <3>1, <3>2, <3>3, <3>5, QuietStepOK
  <2>2. CASE ~(pipe[p].tries < MaxRestarts)
    <3>1. Return(p) /\ Persist("failed", pipe[p].ph) /\ files' = files
      BY <1>5, <2>2 DEF TimeOut
    <3>2. QuietState
      BY <3>1, Ranges, StateNames, PersistQuiet
    <3> QED
      BY <1>5, <3>1, <3>2, Ranges, ReturnsOK DEF TimeOut, Recorded
  <2> QED
    BY <2>1, <2>2
<1>6. CASE Restart(p)
  <2>1. pipe[p].ph = "ship" => Shipping(pipe[p])
    BY <1>6 DEF Restart, Shipping
  <2> QED
    BY <1>0, <1>6, <2>1, EnterOK DEF Restart, Recorded
<1> QED
  BY <1>1, <1>2, <1>3, <1>4, <1>5, <1>6

\* EXECUTE.
LEMMA ExecuteOK ==
  ASSUME IInv, NEW p \in Pipes, ReadOnlyPlan(p) \/ ScopeDrift(p) \/ Generate(p)
  PROVE  IInv'
<1> USE DEF unchangedPipeline
<1>1. QuietState
  BY StateNames, PersistQuiet DEF ReadOnlyPlan, ScopeDrift, Generate, Pause
<1>2. files' \in 0..MaxVer /\ ver' \in 0..MaxVer
  BY Ranges, Bounds DEF ReadOnlyPlan, ScopeDrift, Generate
<1> QED
  BY <1>1, <1>2, ReturnsOK DEF ReadOnlyPlan, ScopeDrift, Generate, Pause, Recorded

\* A task that changes place within a phase other than SHIP, to one where
\* nothing is claimed of it.
LEMMA PlaceOK ==
  ASSUME IInv, NEW p \in Pipes, NEW at \in Step,
         Goto(p, at), pipe[p].ph # "ship",
         at = "heal" => pipe[p].heals < MaxSelfHeals, at # "gate", Quiet(p)
  PROVE  IInv'
<1> DEFINE rec == [pipe[p] EXCEPT !.at = at]
<1>1. pipe[p] \in Task
  BY Ranges
<1>2. rec \in Task /\ rec.at = at /\ rec.ph = pipe[p].ph /\ rec.heals = pipe[p].heals
  BY <1>1 DEF Task
<1>3. Move(p, rec)
  BY DEF Goto, Move, IInv, PipeInv
<1> HIDE DEF rec
<1>4. TaskInv(rec, passed.guard) /\ ~Shipping(rec)
  BY <1>2 DEF TaskInv, Shipping
<1> QED
  BY <1>3, <1>4, QuietStepOK

\* VERIFY.
LEMMA VerifyOK ==
  ASSUME IInv, NEW p \in Pipes,
         VerifyPasses(p) \/ StartSelfHeal(p) \/ SelfHealed(p) \/ SelfHealCancelled(p)
         \/ SelfHealsExhausted(p)
  PROVE  IInv'
<1> USE DEF unchangedPipeline
<1>0. pipe[p] \in Task
  BY Ranges
<1>1. CASE VerifyPasses(p) \/ SelfHealCancelled(p)
  BY <1>1, Ranges, ReturnsOK DEF VerifyPasses, SelfHealCancelled, QuietState, Recorded
<1>2. CASE SelfHealsExhausted(p)
  <2>1. QuietState
    BY <1>2, StateNames, PersistQuiet DEF SelfHealsExhausted, Pause
  <2> QED
    BY <1>2, <2>1, Ranges, ReturnsOK DEF SelfHealsExhausted, Pause, Recorded
<1>3. CASE StartSelfHeal(p) /\ cancelled
  BY <1>3, Ranges, ReturnsOK DEF StartSelfHeal, QuietState, Recorded
<1>4. CASE StartSelfHeal(p) /\ ~cancelled
  <2>1. QuietState
    BY <1>4, StateNames, PersistQuiet DEF StartSelfHeal
  <2>2. Quiet(p)
    BY <1>4, <2>1, Ranges, QuietFrame DEF StartSelfHeal, Recorded
  <2>3. "heal" \in Step /\ pipe[p].ph # "ship"
    BY <1>4 DEF Step, StartSelfHeal, At
  <2> QED
    BY <1>4, <2>2, <2>3, PlaceOK DEF StartSelfHeal
<1>5. CASE SelfHealed(p)
  <2>1. PICK v \in {pipe[p].mine} \cup (IF ver < MaxVer THEN {ver + 1} ELSE {}) :
          /\ Move(p, [pipe[p] EXCEPT !.at = "work", !.mine = v, !.heals = @ + 1])
          /\ files' = v
          /\ ver' = IF v > ver THEN v ELSE ver
    BY <1>5 DEF SelfHealed
  <2>2. v \in 0..MaxVer /\ ver' \in 0..MaxVer
    BY <1>0, <2>1, Ranges, Bounds DEF Task
  <2> DEFINE rec == [pipe[p] EXCEPT !.at = "work", !.mine = v, !.heals = @ + 1]
  <2>3. pipe[p].heals + 1 \in 0..(MaxSelfHeals + MaxScanHeals)
    <3>1. pipe[p].heals \in 0..(MaxSelfHeals + MaxScanHeals)
      BY <1>0 DEF Task
    <3>2. pipe[p].heals < MaxSelfHeals
      BY <1>5 DEF SelfHealed, At, IInv, PipeInv, TaskInv
    <3> QED
      BY <3>1, <3>2, Bounds
  <2>4. rec \in Task /\ rec.at = "work" /\ rec.ph = "verify"
    <3>1. "work" \in Step /\ pipe[p].ph = "verify"
      BY <1>5 DEF Step, SelfHealed, At
    <3> QED
      BY <1>0, <2>2, <2>3, <3>1 DEF Task
  <2>5. QuietState
    BY <1>5, Ranges, StateNames, PersistQuiet DEF SelfHealed
  <2>6. Quiet(p)
    BY <1>5, <2>1, <2>2, <2>5, QuietFrame DEF SelfHealed, Recorded
  <2> HIDE DEF rec
  <2>7. TaskInv(rec, passed.guard) /\ ~Shipping(rec)
    BY <2>4 DEF TaskInv, Shipping
  <2>8. Move(p, rec)
    BY <2>1 DEF rec
  <2> QED
    BY <2>6, <2>7, <2>8, QuietStepOK
<1> QED
  BY <1>1, <1>2, <1>3, <1>4, <1>5

\* SCAN, without the heal that writes into every list that holds the files.
LEMMA ScanOK ==
  ASSUME IInv, NEW p \in Pipes,
         ScanPasses(p) \/ ScanFindsCritical(p) \/ ScanCrashes(p) \/ FullScanPasses(p)
         \/ FullScanBlocks(p)
  PROVE  IInv'
<1> USE DEF unchangedPipeline
<1>1. CASE ScanPasses(p)
  <2>1. QuietState
    BY <1>1, StateNames, PersistQuiet DEF ScanPasses, QuietState
  <2>2. Quiet(p)
    BY <1>1, <2>1, Ranges, QuietFrame DEF ScanPasses, Recorded
  <2>3. CASE Goto(p, "fullscan")
    <3>1. "fullscan" \in Step /\ pipe[p].ph # "ship"
      BY <1>1 DEF Step, ScanPasses, At
    <3> QED
      BY <2>2, <2>3, <3>1, PlaceOK
  <2>4. CASE Return(p)
    BY <2>2, <2>4, ReturnOK
  <2> QED
    BY <1>1, <2>3, <2>4 DEF ScanPasses
<1>2. CASE ScanFindsCritical(p) \/ ScanCrashes(p) \/ FullScanPasses(p) \/ FullScanBlocks(p)
  <2>1. QuietState
    BY <1>2, StateNames, PersistQuiet
       DEF ScanFindsCritical, ScanCrashes, FullScanPasses, FullScanBlocks, Pause
  <2> QED
    BY <1>2, <2>1, Ranges, ReturnsOK
       DEF ScanFindsCritical, ScanCrashes, FullScanPasses, FullScanBlocks, Pause, Recorded
<1> QED
  BY <1>1, <1>2

\* The full scan's heal reaches only pipelines in VERIFY and SCAN: the copy
\* that a pipeline took past the guard is not among the lists it writes to.
LEMMA FullScanHealsOK ==
  ASSUME IInv, NEW p \in Pipes, FullScanHeals(p)
  PROVE  IInv'
<1> DEFINE old == pipe[p].mine
           sharing == {q \in Pipes : pipe[q].ph \in {"verify", "scan"} /\ pipe[q].mine = old}
<1>0. pipe[p] \in Task /\ ver \in 0..MaxVer /\ files \in 0..MaxVer
  BY Ranges
<1>1. /\ ver' = ver + 1 /\ ver < MaxVer
      /\ pipe[p].ph = "scan" /\ pipe[p].at = "fullscan" /\ pipe[p].heals < MaxScanHeals
      /\ pipe' = [q \in Pipes |->
                    [pipe[q] EXCEPT !.mine  = IF q \in sharing THEN ver' ELSE @,
                                    !.heals = IF q = p THEN @ + 1 ELSE @]]
      /\ files' = IF files = old THEN ver' ELSE files
      /\ Persist("scanning", "scan")
      /\ UNCHANGED <<handle, pending, passed, trust, commit, pushed, skipped, adopted>>
      /\ unchangedGlobal
  BY DEF FullScanHeals, At, unchangedPipeline
<1> HIDE DEF sharing
<1>2. StateInv'
  <2>1. QuietState
    BY <1>1, StateNames, PersistQuiet
  <2> QED
    BY <1>1, <2>1, QuietStateOK DEF Recorded, IInv
<1>a. ver' \in 0..MaxVer
  <2>1. ver' = ver + 1 /\ ver < MaxVer
    BY <1>1
  <2> QED
    BY <1>0, <2>1, Bounds
<1>b. files' \in 0..MaxVer
  BY <1>0, <1>1, <1>a
<1>3. FileInv'
  BY <1>1, <1>a, <1>b, FileKept DEF IInv
<1>4. \A q \in Pipes : /\ pipe'[q] \in Task
                       /\ pipe'[q].ph = pipe[q].ph /\ pipe'[q].at = pipe[q].at
                       /\ pipe[q].at = "heal" => pipe'[q].heals = pipe[q].heals
                       /\ pipe[q].ph = "ship" => pipe'[q].mine = pipe[q].mine
  <2> SUFFICES ASSUME NEW q \in Pipes
               PROVE  /\ pipe'[q] \in Task
                      /\ pipe'[q].ph = pipe[q].ph /\ pipe'[q].at = pipe[q].at
                      /\ pipe[q].at = "heal" => pipe'[q].heals = pipe[q].heals
                      /\ pipe[q].ph = "ship" => pipe'[q].mine = pipe[q].mine
    OBVIOUS
  <2> DEFINE m == IF q \in sharing THEN ver' ELSE pipe[q].mine
             h == IF q = p THEN pipe[q].heals + 1 ELSE pipe[q].heals
  <2>1. pipe'[q] = [pipe[q] EXCEPT !.mine = m, !.heals = h]
    BY <1>1
  <2>2. pipe[q] \in Task
    BY Ranges
  <2>3. m \in 0..MaxVer /\ h \in 0..(MaxSelfHeals + MaxScanHeals)
    <3>1. pipe[q].mine \in 0..MaxVer /\ pipe[q].heals \in 0..(MaxSelfHeals + MaxScanHeals)
      BY <2>2 DEF Task
    <3>2. q = p => pipe[q].heals + 1 \in 0..(MaxSelfHeals + MaxScanHeals)
      <4>1. q = p => pipe[q].heals < MaxScanHeals
        BY <1>1
      <4> QED
        BY <3>1, <4>1, Bounds
    <3> QED
      BY <1>a, <3>1, <3>2
  <2>4. pipe[q].at = "heal" => h = pipe[q].heals
    BY <1>1
  <2>5. pipe[q].ph = "ship" => m = pipe[q].mine
    BY DEF sharing
  <2> HIDE DEF m, h
  <2> QED
    BY <2>1, <2>2, <2>3, <2>4, <2>5 DEF Task
<1>5. PipeInv'
  <2>1. pipe' \in [Pipes -> Task]
    BY <1>1, <1>4
  <2> QED
    BY <1>1, <1>4, <2>1 DEF IInv, PipeInv, TaskInv
<1>6. ShipInv'
  BY <1>1, ShipKept DEF IInv, unchangedGlobal
<1>7. SkipInv'
  BY <1>1, <1>4 DEF IInv, SkipInv, Shipping, unchangedGlobal
<1>8. CountInv'
  BY <1>1, CountKept DEF IInv, CountInv, unchangedGlobal
<1> QED
  BY <1>2, <1>3, <1>5, <1>6, <1>7, <1>8 DEF IInv

\* SHIP up to the gate.
LEMMA GatesOK ==
  ASSUME IInv, NEW p \in Pipes,
         NothingToShip(p) \/ IntegrityGuardRejects(p) \/ IntegrityGuardPasses(p)
         \/ VerifierRejects(p) \/ AuditLogged(p) \/ GatePasses(p)
  PROVE  IInv'
<1> USE DEF unchangedPipeline
<1>0. pipe[p] \in Task /\ files \in 0..MaxVer /\ ver \in 0..MaxVer
  BY Ranges
<1>1. CASE NothingToShip(p) \/ IntegrityGuardRejects(p) \/ AuditLogged(p)
  <2>1. QuietState
    BY <1>1, StateNames, PersistQuiet
       DEF NothingToShip, IntegrityGuardRejects, AuditLogged, Pause
  <2> QED
    BY <1>1, <2>1, Ranges, ReturnsOK
       DEF NothingToShip, IntegrityGuardRejects, AuditLogged, Pause, Recorded
<1>2. CASE IntegrityGuardPasses(p)
  <2> DEFINE rec == [pipe[p] EXCEPT !.at = "gate", !.mine = files]
  <2>1. /\ pipe[p].ph = "ship" /\ pipe[p].at = "work" /\ files # 0
        /\ Move(p, rec)
        /\ passed' = [passed EXCEPT !.guard = @ \cup {files}]
    BY <1>2 DEF IntegrityGuardPasses, At
  <2>2. files \in 1..MaxVer
    BY <1>0, <2>1, Bounds
  <2>3. Grows /\ files \in passed'.guard
    BY <2>1, <2>2 DEF Grows, IInv, FileInv
  <2>4. rec \in Task /\ rec.at = "gate" /\ rec.ph = "ship" /\ rec.mine = files
    <3>1. "gate" \in Step
      BY DEF Step
    <3> QED
      BY <1>0, <2>1, <3>1 DEF Task
  <2>5. QuietState
    BY <1>2 DEF IntegrityGuardPasses, QuietState
  <2> HIDE DEF rec
  <2>6. TaskInv(rec, passed'.guard)
    BY <2>3, <2>4 DEF TaskInv
  <2>7. Shipping(pipe[p])
    BY <2>1 DEF Shipping
  <2>8. handle' \in Pipes \cup {NoPipe}
    BY <1>2 DEF IntegrityGuardPasses, IInv, PipeInv
  <2>9. PipeStep(p, rec)
    BY <1>0, <1>2, <2>1, <2>3, <2>5, <2>6, <2>7, <2>8
       DEF PipeStep, IntegrityGuardPasses, Recorded
  <2> QED
    BY <2>9, PipeStepOK
<1>3. CASE VerifierRejects(p)
  <2>1. pipe[p].ph = "ship" /\ pipe[p].at = "gate" /\ AwaitAudit(p)
    BY <1>3 DEF VerifierRejects, At
  <2>2. QuietState
    BY <2>1 DEF AwaitAudit, QuietState
  <2>3. Quiet(p)
    BY <1>3, <2>2, Ranges, QuietFrame DEF VerifierRejects, Recorded
  <2> DEFINE rec == [pipe[p] EXCEPT !.at = "pausing"]
  <2>4. rec \in Task /\ rec.at = "pausing" /\ "pausing" \in Step
    BY <1>0 DEF Task, Step
  <2>5. Move(p, rec)
    BY <2>1 DEF AwaitAudit, Goto, Move, IInv, PipeInv
  <2> HIDE DEF rec
  <2>6. TaskInv(rec, passed.guard) /\ Shipping(pipe[p])
    BY <2>1, <2>4 DEF TaskInv, Shipping
  <2> QED
    BY <2>3, <2>5, <2>6, QuietStepOK
<1>4. CASE GatePasses(p)
  <2>1. /\ pipe[p].ph = "ship" /\ pipe[p].at = "gate"
        /\ pending' = pipe[p].mine
        /\ passed' = [passed EXCEPT !.verifier = @ \cup {pipe[p].mine}]
        /\ UNCHANGED <<handle, files, ver, trust, commit, pushed, skipped, adopted>>
        /\ unchangedGlobal
    BY <1>4 DEF GatePasses, At
  <2>2. pipe[p].mine \in passed.guard /\ passed.guard \subseteq 1..MaxVer
    BY <2>1 DEF IInv, PipeInv, TaskInv, FileInv
  <2>3. Grows /\ pending' \in Gated'
    BY <2>1, <2>2 DEF Grows, Gated, IInv, FileInv
  <2>4. Shipping(pipe[p]) /\ ~skipped
    BY <2>1 DEF Shipping, IInv, SkipInv
  <2>5. handle' \in Pipes \cup {NoPipe}
    BY <2>1 DEF IInv, PipeInv
  <2>6. CASE Pause(p, "ship")
    <3> DEFINE rec == [NoTask EXCEPT !.ph = pipe[p].ph, !.at = "done"]
    <3>1. rec \in Task /\ rec.at = "done"
      BY <1>0, NoTaskOK, DoneIsAStep DEF TaskInv, Task
    <3>2. Move(p, rec)
      BY <2>6 DEF Pause, Return
    <3>3. QuietState
      BY <2>6, StateNames, PersistQuiet DEF Pause
    <3> HIDE DEF rec
    <3>4. TaskInv(rec, passed'.guard)
      BY <3>1 DEF TaskInv
    <3>5. PipeStep(p, rec)
      BY <1>0, <2>1, <2>3, <2>4, <2>5, <3>2, <3>3, <3>4 DEF PipeStep, Recorded
    <3> QED
      BY <3>5, PipeStepOK
  <2>7. CASE Goto(p, "autoship") /\ unchangedState
    <3> DEFINE rec == [pipe[p] EXCEPT !.at = "autoship"]
    <3>1. rec \in Task /\ rec.at = "autoship"
      <4>1. "autoship" \in Step
        BY DEF Step
      <4> QED
        BY <1>0, <4>1 DEF Task
    <3>2. Move(p, rec)
      BY <2>7 DEF Goto, Move, IInv, PipeInv
    <3>3. QuietState
      BY <2>7 DEF QuietState
    <3> HIDE DEF rec
    <3>4. TaskInv(rec, passed'.guard)
      BY <3>1 DEF TaskInv
    <3>5. PipeStep(p, rec)
      BY <1>0, <2>1, <2>3, <2>4, <2>5, <3>2, <3>3, <3>4 DEF PipeStep, Recorded
    <3> QED
      BY <3>5, PipeStepOK
  <2>8. CASE AwaitAudit(p)
    <3> DEFINE rec == [pipe[p] EXCEPT !.at = "pausing"]
    <3>1. rec \in Task /\ rec.at = "pausing"
      <4>1. "pausing" \in Step
        BY DEF Step
      <4> QED
        BY <1>0, <4>1 DEF Task
    <3>2. Move(p, rec)
      BY <2>8 DEF AwaitAudit, Goto, Move, IInv, PipeInv
    <3>3. QuietState
      BY <2>8 DEF AwaitAudit, QuietState
    <3> HIDE DEF rec
    <3>4. TaskInv(rec, passed'.guard)
      BY <3>1 DEF TaskInv
    <3>5. PipeStep(p, rec)
      BY <1>0, <2>1, <2>3, <2>4, <2>5, <3>2, <3>3, <3>4 DEF PipeStep, Recorded
    <3> QED
      BY <3>5, PipeStepOK
  <2> QED
    BY <1>4, <2>6, <2>7, <2>8 DEF GatePasses
<1> QED
  BY <1>1, <1>2, <1>3, <1>4

\* AutoShip ends its pipeline like any error, except where another pipeline
\* paused the engine meanwhile: then a ship of what is offered begins.
LEMMA AutoShipOK ==
  ASSUME IInv, NEW p \in Pipes, AutoShip(p)
  PROVE  IInv'
<1>0. /\ Exit(p)
      /\ UNCHANGED <<trust, files, pending, ver, passed, pushed, skipped, adopted, cancelled, live,
                     plan, confirming, cancelling, sweep, ops>>
  BY DEF AutoShip, histVars
<1>1. CASE ship' = ship /\ Recorded
           /\ \E ph \in {phase, "ship"} : Persist("failed", ph)
  <2>1. QuietState
    BY <1>1, Ranges, StateNames, PersistQuiet
  <2>2. unchangedGlobal
    BY <1>0, <1>1 DEF unchangedGlobal
  <2>3. Quiet(p)
    BY <1>0, <1>1, <2>1, <2>2, Ranges, QuietFrame DEF Exit, Recorded
  <2> QED
    BY <1>0, <2>3, ExitOK
<1>2. CASE /\ est = "paused" /\ phase = "ship" /\ pending # 0
           /\ \E t \in ShipTasks :
                /\ ship[t].at = "idle"
                /\ ship' = [ship EXCEPT ![t] = [at |-> "claim", approved |-> TRUE,
                                                body |-> pending]]
           /\ unchangedState
           /\ UNCHANGED commit
  <2>1. StateInv'
    <3>1. QuietState /\ Recorded
      BY <1>0, <1>2 DEF QuietState, Recorded
    <3> QED
      BY <3>1, QuietStateOK DEF IInv
  <2>2. FileInv'
    BY <1>0, Ranges, FileKept DEF IInv, FileInv
  <2>3. PipeInv'
    <3>1. pipe' = [pipe EXCEPT ![p] = NoTask] /\ handle' = NoPipe /\ passed' = passed
      BY <1>0 DEF Exit, Move
    <3> QED
      BY <3>1, NoTaskOK DEF IInv, PipeInv, TaskInv
  <2>4. ShipInv'
    <3>1. PICK t \in ShipTasks :
            ship' = [ship EXCEPT ![t] = [at |-> "claim", approved |-> TRUE, body |-> pending]]
      BY <1>2
    <3>2. [at |-> "claim", approved |-> TRUE, body |-> pending] \in ShipTask
      BY DEF IInv, FileInv, ShipTask, ShipStep
    <3>3. pending \in Gated' /\ passed' = passed /\ pushed' = pushed
      BY <1>0, <1>2 DEF IInv, FileInv, Gated
    <3> QED
      BY <3>1, <3>2, <3>3 DEF IInv, ShipInv, ShipTaskInv, Gated
  <2>5. SkipInv'
    BY <1>0, NoTaskOK DEF Exit, Move, IInv, SkipInv, Shipping, PipeInv
  <2>6. CountInv'
    BY <1>0, CountKept DEF IInv, CountInv
  <2> QED
    BY <2>1, <2>2, <2>3, <2>4, <2>5, <2>6 DEF IInv
<1> QED
  BY <1>0, <1>1, <1>2 DEF AutoShip, Recorded

LEMMA PipelineOK ==
  ASSUME IInv, NEW p \in Pipes, Pipeline(p)
  PROVE  IInv'
BY ControlOK, ExecuteOK, VerifyOK, ScanOK, FullScanHealsOK, GatesOK, AutoShipOK
   DEF Pipeline

-----------------------------------------------------------------------------
(* The confirm_ship tasks.                                                 *)

\* One step of a task: it takes up only what passed both gates, and pushes
\* only what it took up.
ShipStepOf(t, rec) ==
    /\ ship' = [ship EXCEPT ![t] = rec]
    /\ ShipTaskInv(rec, Gated, pushed')
    /\ pushed \subseteq pushed' /\ pushed' \subseteq Gated
    /\ pending' \in {0, pending}
    /\ StateInv'
    /\ unchangedShip

LEMMA ShipStepOK ==
  ASSUME IInv, NEW t \in ShipTasks, NEW rec, ShipStepOf(t, rec)
  PROVE  IInv'
<1> USE DEF IInv
<1>0. UNCHANGED <<cancelled, trust, files, live, plan, pipe, handle, confirming,
                  cancelling, sweep, ver, passed, skipped, ops>>
  BY DEF ShipStepOf, unchangedShip
<1>1. FileInv'
  BY <1>0, Bounds DEF FileInv, ShipStepOf, Gated
<1>2. PipeInv'
  BY <1>0, PipeKept DEF PipeInv
<1>3. ShipInv'
  <2>1. rec \in ShipTask /\ ship' = [ship EXCEPT ![t] = rec]
    BY DEF ShipStepOf, ShipTaskInv
  <2>2. \A u \in ShipTasks : ShipTaskInv(ship'[u], Gated, pushed')
    <3> SUFFICES ASSUME NEW u \in ShipTasks PROVE ShipTaskInv(ship'[u], Gated, pushed')
      OBVIOUS
    <3>1. CASE u = t
      <4>1. ship'[u] = rec
        BY <2>1, <3>1 DEF ShipInv
      <4> QED
        BY <4>1 DEF ShipStepOf
    <3>2. CASE u # t
      <4>1. ship'[u] = ship[u] /\ pushed \subseteq pushed'
        BY <2>1, <3>2 DEF ShipInv, ShipStepOf
      <4> QED
        BY <4>1 DEF ShipTaskInv, ShipInv
    <3> QED
      BY <3>1, <3>2
  <2>3. Gated' = Gated
    BY <1>0 DEF Gated
  <2> QED
    BY <2>1, <2>2, <2>3 DEF ShipInv
<1>4. SkipInv'
  BY <1>0 DEF SkipInv, ShipStepOf, Shipping
<1>5. CountInv'
  BY <1>0, CountKept DEF CountInv
<1> QED
  BY <1>1, <1>2, <1>3, <1>4, <1>5 DEF ShipStepOf

\* A task that ends, with the session and the commit record in order.
LEMMA ShipEndsOK ==
  ASSUME IInv, NEW t \in ShipTasks, ShipEnds(t), pending' \in {0, pending},
         pushed' = pushed, StateInv', unchangedShip
  PROVE  IInv'
<1>1. ShipTaskInv(NoShip, Gated, pushed')
  BY NoShipOK
<1>2. pushed \subseteq Gated
  BY DEF IInv, FileInv
<1> QED
  BY <1>1, <1>2, ShipStepOK DEF ShipStepOf, ShipEnds

\* A task that goes on with what it took up.
LEMMA ShipGoesOK ==
  ASSUME IInv, NEW t \in ShipTasks, NEW at \in ShipStep \ {"pushed"}, ShipGoto(t, at),
         ship[t].at \notin {"idle", "start"}, pending' = pending, pushed' = pushed,
         StateInv', unchangedShip
  PROVE  IInv'
<1> DEFINE rec == [ship[t] EXCEPT !.at = at]
<1>1. ShipTaskInv(ship[t], Gated, pushed) /\ pushed \subseteq Gated
  BY DEF IInv, ShipInv, FileInv
<1>2. ship' = [ship EXCEPT ![t] = rec]
  BY DEF ShipGoto, IInv, ShipInv
<1>3. rec \in ShipTask /\ rec.at = at /\ rec.body = ship[t].body
  BY <1>1 DEF ShipTaskInv, ShipTask
<1> HIDE DEF rec
<1>4. ShipTaskInv(rec, Gated, pushed')
  BY <1>1, <1>3 DEF ShipTaskInv
<1> QED
  BY <1>1, <1>2, <1>4, ShipStepOK DEF ShipStepOf

\* A session that is written without a word of a completed ship.
LEMMA QuietShipState ==
  ASSUME IInv, QuietState, Recorded
  PROVE  StateInv'
BY QuietStateOK DEF IInv

LEMMA ShipChecksOK ==
  ASSUME IInv, NEW t \in ShipTasks,
         ShipRefused(t) \/ ShipStateLost(t) \/ ShipDeclined(t) \/ ShipApproved(t)
  PROVE  IInv'
<1>0. \A s \in {"failed", "aborted"} : s \in State /\ s # "completed"
  BY DEF State, Terminal
<1>1. QuietState
  BY <1>0, StateNames, PersistQuiet
     DEF ShipRefused, ShipStateLost, ShipDeclined, ShipApproved, QuietState
<1>2. StateInv'
  BY <1>1, QuietShipState
     DEF ShipRefused, ShipStateLost, ShipDeclined, ShipApproved, Recorded
<1>3. CASE ShipRefused(t) \/ ShipStateLost(t) \/ ShipDeclined(t)
  BY <1>2, <1>3, ShipEndsOK DEF ShipRefused, ShipStateLost, ShipDeclined
<1>4. CASE ShipApproved(t)
  <2> DEFINE rec == [ship[t] EXCEPT !.at = "claim", !.body = pending]
  <2>1. pending \in Gated /\ pending \in 0..MaxVer /\ pushed \subseteq Gated
    BY <1>4 DEF ShipApproved, IInv, FileInv
  <2>2. ship[t] \in ShipTask /\ "claim" \in ShipStep
    BY DEF IInv, ShipInv, ShipStep
  <2>3. rec \in ShipTask /\ rec.at = "claim" /\ rec.body = pending
    BY <2>1, <2>2 DEF ShipTask
  <2>4. ship' = [ship EXCEPT ![t] = rec]
    BY <1>4 DEF ShipApproved, IInv, ShipInv
  <2> HIDE DEF rec
  <2>5. ShipTaskInv(rec, Gated, pushed')
    BY <2>1, <2>3 DEF ShipTaskInv
  <2> QED
    BY <1>2, <1>4, <2>1, <2>4, <2>5, ShipStepOK DEF ShipApproved, ShipStepOf
<1> QED
  BY <1>3, <1>4

LEMMA ShipClaimsOK ==
  ASSUME IInv, NEW t \in ShipTasks, ShipClaimed(t) \/ ShipLostClaim(t)
  PROVE  IInv'
<1>1. CASE ShipClaimed(t)
  <2>1. StateInv'
    <3>1. "shipping" \in State
      BY DEF State, Running
    <3> QED
      BY <1>1, <3>1 DEF ShipClaimed, IInv, StateInv, Recording, ShipError
  <2>2. "won" \in ShipStep
    BY DEF ShipStep
  <2> QED
    BY <1>1, <2>1, <2>2, ShipGoesOK DEF ShipClaimed, ShipAt
<1>2. CASE ShipLostClaim(t)
  <2>1. adopted' \in BOOLEAN
    BY <1>2, Zenon DEF ShipLostClaim
  <2>3. Recording(commit)' <=> commit # 0
    BY <1>2, Bounds DEF ShipLostClaim, Recording, ShipError
  <2>4. Recording(commit) => Recording(commit)'
    BY <2>3 DEF Recording
  <2>5. StateInv'
    BY <1>2, StateNames, <2>1, <2>3, <2>4 DEF ShipLostClaim, IInv, StateInv, ShipError
  <2>2. pending' \in {0, pending}
    BY <1>2 DEF ShipLostClaim
  <2> QED
    BY <1>2, <2>5, <2>2, ShipEndsOK DEF ShipLostClaim
<1> QED
  BY <1>1, <1>2

LEMMA ShipPushesOK ==
  ASSUME IInv, NEW t \in ShipTasks,
         ShipStarts(t) \/ ShipNarrates(t) \/ Push(t) \/ ShipSucceeds(t) \/ ShipFails(t)
  PROVE  IInv'
<1>0. /\ ShipTaskInv(ship[t], Gated, pushed)
      /\ pushed \subseteq Gated /\ Gated \subseteq 1..MaxVer
  BY DEF IInv, ShipInv, FileInv, Gated
<1>1. CASE ShipStarts(t)
  <2>1. "shipping" \in State /\ "say" \in ShipStep
    BY DEF State, Running, ShipStep
  <2>2. StateInv'
    BY <1>1, <2>1, StateNames, PersistQuiet, QuietShipState DEF ShipStarts, Recorded
  <2> QED
    BY <1>1, <2>1, <2>2, ShipGoesOK DEF ShipStarts, ShipAt
<1>2. CASE ShipNarrates(t)
  <2>1. "push" \in ShipStep
    BY DEF ShipStep
  <2>2. StateInv'
    BY <1>2 DEF ShipNarrates, Persist, IInv, StateInv, Recording, ShipError
  <2> QED
    BY <1>2, <2>1, <2>2, ShipGoesOK DEF ShipNarrates, ShipAt
<1>3. CASE Push(t)
  <2> DEFINE rec == [ship[t] EXCEPT !.at = "pushed"]
  <2>1. ship[t].at = "push" /\ ship[t].body \in Gated /\ ship[t] \in ShipTask
    BY <1>0, <1>3 DEF Push, ShipAt, ShipTaskInv
  <2>2. pushed' = pushed \cup {ship[t].body} /\ unchangedState /\ commit' = commit
    BY <1>3 DEF Push
  <2>7. adopted' = adopted
    BY <1>3 DEF Push
  <2>3. rec \in ShipTask /\ rec.at = "pushed" /\ rec.body = ship[t].body
    <3>1. "pushed" \in ShipStep
      BY DEF ShipStep
    <3> QED
      BY <2>1, <3>1 DEF ShipTask
  <2>4. ship' = [ship EXCEPT ![t] = rec]
    BY <1>3 DEF Push, ShipGoto, IInv, ShipInv
  <2>5. StateInv'
    BY <2>2, <2>7 DEF unchangedState, IInv, StateInv, Recording, ShipError
  <2> HIDE DEF rec
  <2>6. ShipTaskInv(rec, Gated, pushed')
    BY <2>1, <2>2, <2>3 DEF ShipTaskInv
  <2> QED
    BY <1>0, <1>3, <2>1, <2>2, <2>4, <2>5, <2>6, ShipStepOK DEF Push, ShipStepOf
<1>4. CASE ShipSucceeds(t)
  <2>1. ship[t].body \in pushed /\ ship[t].body # 0
    BY <1>0, <1>4 DEF ShipSucceeds, ShipAt, ShipTaskInv
  <2>3. commit' \in 1..MaxVer /\ UNCHANGED <<pushed, adopted>> /\ ShipError' = MaxVer + 1
    BY <1>0, <1>4, <2>1, Bounds DEF ShipSucceeds, ShipError
  <2>4. Recording(commit)'
    BY <2>3, Bounds DEF Recording
  <2>2. StateInv'
    BY <1>4, <2>1, <2>3, <2>4, StateNames DEF ShipSucceeds, Persist, IInv, StateInv, Phases
  <2> QED
    BY <1>4, <2>2, ShipEndsOK DEF ShipSucceeds
<1>5. CASE ShipFails(t)
  <2>1. StateInv'
    BY <1>5, StateNames, PersistQuiet, QuietShipState DEF ShipFails, Recorded
  <2> QED
    BY <1>5, <2>1, ShipEndsOK DEF ShipFails
<1> QED
  BY <1>1, <1>2, <1>3, <1>4, <1>5

LEMMA ShipOK ==
  ASSUME IInv, NEW t \in ShipTasks, Ship(t)
  PROVE  IInv'
BY ShipChecksOK, ShipClaimsOK, ShipPushesOK DEF Ship

-----------------------------------------------------------------------------
(* The plan task, the user and housekeeping.                               *)

\* Steps that leave pipelines, ship tasks, files, offers and history alone.
Elsewhere ==
    /\ StateInv' /\ CountInv'
    /\ UNCHANGED <<cancelled, files, pending, pipe, handle, ship, histVars>>

LEMMA ElsewhereOK ==
  ASSUME IInv, Elsewhere
  PROVE  IInv'
<1> USE DEF IInv, Elsewhere, histVars
<1>1. FileInv'
  BY DEF FileInv, Gated
<1>2. PipeInv'
  BY PipeKept DEF PipeInv
<1>3. ShipInv'
  BY ShipKept
<1>4. SkipInv'
  BY DEF SkipInv, Shipping
<1> QED
  BY <1>1, <1>2, <1>3, <1>4

LEMMA PlanOK ==
  ASSUME IInv, Plan
  PROVE  IInv'
<1>1. QuietState /\ Recorded
  <2>1. {"awaiting", "failed"} \subseteq State /\ "plan" \in Phases
    BY DEF State, Idle, Terminal, Phases
  <2> QED
    BY <2>1, PersistQuiet DEF Plan, PlanReady, PlanFails, ctxVars, histVars, Recorded
<1>2. StateInv'
  BY <1>1, QuietStateOK DEF IInv
<1>3. CountInv'
  BY DEF IInv, CountInv, Plan, PlanReady, PlanFails, ctxVars, histVars
<1> QED
  BY <1>2, <1>3, ElsewhereOK
     DEF Elsewhere, Plan, PlanReady, PlanFails, ctxVars, histVars

\* Requests that only change the session, the files and the counters.
LEMMA AskOK ==
  ASSUME IInv, Confirm \/ Retry \/ Decline \/ CancelFinished
  PROVE  IInv'
<1> USE DEF Request, ctxVars, taskVars, histVars
<1>0. {"awaiting", "aborted"} \subseteq State /\ "plan" \in Phases
  BY DEF State, Idle, Terminal, Phases
<1>1. StateInv'
  <2>1. CASE Retry
    BY <1>0, <2>1 DEF IInv, StateInv, Retry, Recording, ShipError
  <2>2. CASE Confirm \/ Decline \/ CancelFinished
    <3>1. QuietState /\ Recorded
      BY <1>0, <2>2, PersistQuiet DEF Confirm, Decline, CancelFinished, Recorded, QuietState
    <3> QED
      BY <3>1, QuietStateOK DEF IInv
  <2> QED
    BY <2>1, <2>2
<1>2. CountInv'
  BY Bounds DEF IInv, CountInv, Confirm, Retry, Decline, CancelFinished
<1> QED
  BY <1>1, <1>2, ElsewhereOK DEF Elsewhere, Confirm, Retry, Decline, CancelFinished

LEMMA SubmitFilesOK ==
  ASSUME IInv, SubmitFiles
  PROVE  IInv'
<1>1. /\ ver' = ver + 1 /\ ver < MaxVer /\ files' = ver'
      /\ est = "awaiting" /\ Persist(est, phase) /\ Request
      /\ UNCHANGED <<cancelled, trust, pending, commit, live, plan, pipe, handle, ship,
                     confirming, cancelling, sweep, passed, pushed, skipped, adopted>>
  BY DEF SubmitFiles, taskVars
<1>2. StateInv'
  <2>1. QuietState /\ Recorded
    BY <1>1, PersistQuiet DEF IInv, StateInv, Recorded
  <2> QED
    BY <2>1, QuietStateOK DEF IInv
<1>3. FileInv'
  <2>1. ver' \in 0..MaxVer
    BY <1>1, Bounds DEF IInv, FileInv
  <2> QED
    BY <1>1, <2>1, FileKept DEF IInv
<1>4. PipeInv'
  BY <1>1, PipeKept DEF IInv, PipeInv
<1>5. ShipInv'
  BY <1>1, ShipKept DEF IInv
<1>6. SkipInv'
  BY <1>1 DEF IInv, SkipInv, Shipping
<1>7. CountInv'
  BY <1>1, Bounds DEF IInv, CountInv, Request
<1> QED
  BY <1>2, <1>3, <1>4, <1>5, <1>6, <1>7 DEF IInv

\* task.cancel() ends the task that the handle names, if it names one.
LEMMA CancelPipelineOK ==
  ASSUME IInv, CancelPipeline, passed' = passed
  PROVE  /\ PipeInv'
         /\ \A p \in Pipes : Shipping(pipe'[p]) => Shipping(pipe[p])
<1>1. CASE handle = NoPipe
  BY <1>1, PipeKept DEF CancelPipeline, IInv, PipeInv
<1>2. CASE handle # NoPipe
  <2>1. handle \in Pipes /\ pipe' = [pipe EXCEPT ![handle] = NoTask] /\ handle' = NoPipe
    BY <1>2 DEF CancelPipeline, IInv, PipeInv
  <2>2. ~Shipping(NoTask) /\ TaskInv(NoTask, passed.guard) /\ NoTask \in Task
    BY NoTaskOK DEF Shipping, TaskInv
  <2> QED
    BY <2>1, <2>2 DEF IInv, PipeInv
<1> QED
  BY <1>1, <1>2

LEMMA CancelOK ==
  ASSUME IInv, Cancel
  PROVE  IInv'
<1>1. /\ cancelled' = TRUE /\ CancelPipeline /\ Persist("aborted", phase) /\ Request
      /\ cancelling' \in {cancelling, cancelling + 1}
      /\ UNCHANGED <<trust, files, pending, commit, live, plan, ship, confirming, sweep,
                     ver, passed, pushed, skipped, adopted>>
  BY DEF Cancel, ctxVars, histVars
<1>2. StateInv'
  <2>1. QuietState /\ Recorded
    <3>1. "aborted" \in State /\ phase \in Phases
      BY Ranges DEF State, Terminal
    <3> QED
      BY <1>1, <3>1, PersistQuiet DEF Recorded
  <2> QED
    BY <2>1, QuietStateOK DEF IInv
<1>3. FileInv'
  BY <1>1, Ranges, FileKept DEF IInv, FileInv
<1>4. PipeInv'
  BY <1>1, CancelPipelineOK
<1>5. ShipInv'
  BY <1>1, ShipKept DEF IInv
<1>6. SkipInv'
  BY <1>1, CancelPipelineOK DEF IInv, SkipInv
<1>7. CountInv'
  <2>1. ops' \in 0..MaxOps /\ cancelling' \in Nat /\ confirming' + cancelling' <= ops'
    <3>1. ops' = ops + 1 /\ ops < MaxOps /\ confirming' = confirming
      BY <1>1 DEF Request
    <3>2. cancelling' = cancelling \/ cancelling' = cancelling + 1
      BY <1>1
    <3> QED
      BY <3>1, <3>2, Bounds DEF IInv, CountInv
  <2>2. cancelled' \in BOOLEAN
    BY <1>1
  <2> QED
    BY <1>1, <2>1, <2>2 DEF IInv, CountInv
<1> QED
  BY <1>2, <1>3, <1>4, <1>5, <1>6, <1>7 DEF IInv

\* A skip withdraws the offer; it is clean if no pipeline is inside SHIP.
LEMMA SkipAtShipOK ==
  ASSUME IInv, SkipAtShip
  PROVE  IInv'
<1>1. /\ cancelled' = TRUE /\ CancelPipeline /\ Persist("aborted", "ship") /\ Request
      /\ pending' = 0
      /\ skipped' = (skipped \/ \A p \in Pipes : ~Shipping(pipe'[p]))
      /\ UNCHANGED <<trust, files, commit, live, plan, ship, confirming, cancelling, sweep,
                     ver, passed, pushed, adopted>>
  BY DEF SkipAtShip
<1>2. StateInv'
  <2>1. QuietState /\ Recorded
    <3>1. "aborted" \in State /\ "ship" \in Phases
      BY DEF State, Terminal, Phases, Phase
    <3> QED
      BY <1>1, <3>1, PersistQuiet DEF Recorded
  <2> QED
    BY <2>1, QuietStateOK DEF IInv
<1>3. FileInv'
  BY <1>1, Ranges, FileKept DEF IInv
<1>4. PipeInv'
  BY <1>1, CancelPipelineOK
<1>5. ShipInv'
  BY <1>1, ShipKept DEF IInv
<1>6. skipped' => \A p \in Pipes : ~Shipping(pipe'[p])
  <2>1. skipped => \A p \in Pipes : ~Shipping(pipe[p])
    BY DEF IInv, SkipInv
  <2> QED
    BY <1>1, <2>1, CancelPipelineOK, Zenon
<1>7. SkipInv'
  BY <1>1, <1>6 DEF SkipInv
<1>8. CountInv'
  <2>1. skipped' \in BOOLEAN
    BY <1>1, Zenon DEF IInv, CountInv
  <2> QED
    BY <1>1, <2>1, Bounds DEF IInv, CountInv, Request
<1> QED
  BY <1>2, <1>3, <1>4, <1>5, <1>7, <1>8 DEF IInv

LEMMA ConfirmShipOK ==
  ASSUME IInv, NEW t \in ShipTasks, ConfirmShip(t)
  PROVE  IInv'
<1>1. PICK ok \in BOOLEAN :
        /\ ship' = [ship EXCEPT ![t] = [at |-> "start", approved |-> ok, body |-> 0]]
        /\ Request /\ unchangedState
        /\ UNCHANGED <<cancelled, trust, files, pending, commit, live, plan, pipe, handle,
                       confirming, cancelling, sweep, ver, passed, pushed, skipped, adopted>>
  BY DEF ConfirmShip, ctxVars, histVars
<1> DEFINE rec == [at |-> "start", approved |-> ok, body |-> 0]
<1>2. ShipTaskInv(rec, Gated, pushed)
  BY Bounds DEF ShipTaskInv, ShipTask, ShipStep
<1>3. StateInv'
  BY <1>1, QuietStateOK DEF QuietState, Recorded, IInv
<1>4. FileInv'
  BY <1>1, Ranges, FileKept DEF IInv
<1>5. PipeInv'
  BY <1>1, PipeKept DEF IInv, PipeInv
<1>6. ShipInv'
  <2>1. Gated' = Gated /\ pushed' = pushed
    BY <1>1 DEF Gated
  <2>2. rec \in ShipTask /\ ship' = [ship EXCEPT ![t] = rec]
    BY <1>1, <1>2 DEF ShipTaskInv
  <2> HIDE DEF rec
  <2> QED
    BY <1>2, <2>1, <2>2 DEF IInv, ShipInv
<1>7. SkipInv'
  BY <1>1 DEF IInv, SkipInv, Shipping
<1>8. CountInv'
  BY <1>1, Bounds DEF IInv, CountInv, Request
<1> QED
  BY <1>3, <1>4, <1>5, <1>6, <1>7, <1>8 DEF IInv

\* A pipeline that confirm() starts begins at EXECUTE.
LEMMA ConfirmReturnsOK ==
  ASSUME IInv, ConfirmReturns
  PROVE  IInv'
<1>1. PICK level \in Levels :
        /\ trust' = level
        /\ \/ /\ Persist("completed", "plan")
              /\ UNCHANGED <<pipe, handle>>
           \/ /\ \E p \in Pipes :
                   /\ pipe' = [pipe EXCEPT ![p] = [NoTask EXCEPT !.at = "begin"]]
                   /\ handle' = p
              /\ unchangedState
  BY DEF ConfirmReturns
<1>2. /\ confirming > 0 /\ confirming' = confirming - 1
      /\ UNCHANGED <<cancelled, files, pending, commit, live, plan, ship, cancelling, sweep,
                     ver, passed, pushed, skipped, adopted, ops>>
  BY DEF ConfirmReturns, histVars
<1> DEFINE rec == [NoTask EXCEPT !.at = "begin"]
<1>3. TaskInv(rec, passed.guard) /\ ~Shipping(rec)
  <2>1. "begin" \in Step
    BY DEF Step
  <2>2. rec \in Task /\ rec.at = "begin" /\ rec.ph = "execute"
    BY <2>1, NoTaskOK DEF TaskInv, Task
  <2> HIDE DEF rec
  <2> QED
    BY <2>2 DEF TaskInv, Shipping
<1>4. StateInv'
  <2>1. QuietState /\ Recorded
    <3>1. "plan" \in Phases
      BY DEF Phases
    <3> QED
      BY <1>1, <1>2, <3>1, StateNames, PersistQuiet DEF Recorded, QuietState
  <2> QED
    BY <2>1, QuietStateOK DEF IInv
<1>5. FileInv'
  BY <1>2, Ranges, FileKept DEF IInv
<1>6. PipeInv' /\ \A p \in Pipes : Shipping(pipe'[p]) => Shipping(pipe[p])
  <2> HIDE DEF rec
  <2>1. CASE UNCHANGED <<pipe, handle>>
    BY <1>2, <2>1, PipeKept DEF IInv, PipeInv
  <2>2. CASE \E p \in Pipes : pipe' = [pipe EXCEPT ![p] = rec] /\ handle' = p
    <3>1. rec \in Task /\ passed' = passed
      BY <1>2, <1>3 DEF TaskInv
    <3> QED
      BY <1>3, <2>2, <3>1 DEF IInv, PipeInv
  <2> QED
    BY <1>1, <2>1, <2>2 DEF rec
<1>7. ShipInv'
  BY <1>2, ShipKept DEF IInv
<1>8. SkipInv'
  BY <1>2, <1>6 DEF IInv, SkipInv
<1>9. CountInv'
  BY <1>1, <1>2, Bounds DEF IInv, CountInv
<1> QED
  BY <1>4, <1>5, <1>6, <1>7, <1>8, <1>9 DEF IInv

LEMMA SweepsOK ==
  ASSUME IInv, CancelWrites \/ Housekeeping
  PROVE  IInv'
<1> USE DEF ctxVars, histVars
<1>0. {"aborted", "paused", "expired"} \subseteq State
  BY DEF State, Terminal, Idle
<1>1. CASE CancelWrites
  <2>1. StateInv'
    BY <1>0, <1>1 DEF IInv, StateInv, CancelWrites, Recording, ShipError
  <2>2. CountInv'
    BY <1>1 DEF IInv, CountInv, CancelWrites
  <2> QED
    BY <1>1, <2>1, <2>2, ElsewhereOK DEF Elsewhere, CancelWrites
<1>2. CASE FindSession
  <2>1. StateInv'
    BY <1>2, QuietStateOK DEF IInv, FindSession, QuietState, Recorded
  <2>2. sweep' \in {"rescue", "expire"}
    BY <1>2 DEF FindSession, FindStale, FindExpired
  <2>3. CountInv'
    BY <1>2, <2>2 DEF IInv, CountInv, FindSession
  <2> QED
    BY <1>2, <2>1, <2>3, ElsewhereOK DEF Elsewhere, FindSession
<1>3. CASE UpdateSession
  <2>1. sess' \in {"paused", "expired"} /\ sweep' = "none" /\ live' \in {live, FALSE}
    BY <1>3 DEF UpdateSession, Rescue, Expire
  <2>2. StateInv'
    BY <1>0, <1>3, <2>1 DEF IInv, StateInv, UpdateSession, Recording, ShipError
  <2>3. live' \in BOOLEAN
    BY <2>1, Zenon DEF IInv, CountInv
  <2>4. CountInv'
    BY <1>3, <2>1, <2>3 DEF IInv, CountInv, UpdateSession
  <2> QED
    BY <1>3, <2>2, <2>4, ElsewhereOK DEF Elsewhere, UpdateSession
<1> QED
  BY <1>1, <1>2, <1>3 DEF Housekeeping

-----------------------------------------------------------------------------
(* The theorems.                                                           *)

LEMMA StepOK == IInv /\ [Next]_vars => IInv'
<1> SUFFICES ASSUME IInv, [Next]_vars PROVE IInv'
  OBVIOUS
<1>1. CASE Plan
  BY <1>1, PlanOK
<1>2. CASE User
  BY <1>2, AskOK, SubmitFilesOK, CancelOK, SkipAtShipOK, ConfirmShipOK DEF User
<1>3. CASE ConfirmReturns \/ CancelWrites \/ Housekeeping
  BY <1>3, ConfirmReturnsOK, SweepsOK
<1>4. ASSUME NEW p \in Pipes, Pipeline(p) PROVE IInv'
  BY <1>4, PipelineOK
<1>5. ASSUME NEW t \in ShipTasks, Ship(t) PROVE IInv'
  BY <1>5, ShipOK
<1>6. CASE UNCHANGED vars
  <2>1. UNCHANGED <<est, phase, sess, sphase, claimed, commit, pushed, trust, plan, sweep,
                    cancelled, live, skipped, confirming, cancelling, ops, files, pending,
                    pipe, handle, ship, ver, passed, adopted>>
    BY <1>6 DEF vars, ctxVars, taskVars, histVars
  <2>2. StateInv'
    BY <2>1 DEF IInv, StateInv, Recording, ShipError
  <2>3. CountInv'
    BY <2>1 DEF IInv, CountInv
  <2> QED
    BY <2>1, <2>2, <2>3, ElsewhereOK DEF Elsewhere, histVars
<1> QED
  BY <1>1, <1>2, <1>3, <1>4, <1>5, <1>6 DEF Next

LEMMA Invariance == Spec => []IInv
  BY InitOK, StepOK, PTL DEF Spec

\* Every variable keeps its type: no count of restarts, heals or requests
\* under way passes its bound, whatever pipelines and requests interleave.
THEOREM TypeSafety == Spec => []TypeOK
  BY Invariance, TypesHold, PTL

\* Every version that reaches GitHub passed the integrity guard and the
\* independent verifier (_phase_ship, confirm_ship), with any number of
\* pipelines, retries and in-place scan heals in between.
THEOREM GateSafety == Spec => []PushedPassedGates
<1>1. IInv => PushedPassedGates
  BY DEF IInv, FileInv, Gated, PushedPassedGates
<1> QED
  BY <1>1, Invariance, PTL

\* A loop that completed in its ship phase records a commit that is on GitHub
\* (confirm_ship, _fail_ship), however many confirm_ship tasks and pipelines
\* interleave, unless a task that lost its claim adopted the error of a failed
\* ship: the one way to COMPLETED that _do_ship's docstring does not allow.
THEOREM CompletionSafety == Spec => []CompletedMeansPushed
<1>1. IInv => CompletedMeansPushed
  BY DEF IInv, StateInv, Recording, CompletedMeansPushed
<1> QED
  BY <1>1, Invariance, PTL

\* After a clean skip no confirm_ship task passes its check any more: every
\* pipeline stops at _should_stop before it can offer anything again.
THEOREM SkipSafety == Spec => SkipStopsLaterShips
<1> DEFINE A == skipped => \A t \in ShipTasks : ~(ship[t].at = "start" /\ ship'[t].at = "claim")
<1>1. ASSUME IInv, [Next]_vars PROVE A
  <2> SUFFICES ASSUME skipped, NEW t \in ShipTasks, ship[t].at = "start",
                      ship'[t].at = "claim"
               PROVE  FALSE
    OBVIOUS
  <2>0. /\ pending = 0 /\ ship \in [ShipTasks -> ShipTask] /\ ship' # ship
        /\ \A p \in Pipes : ~Shipping(pipe[p])
    BY <1>1 DEF IInv, ShipInv, SkipInv
  <2>1. CASE Plan
    BY <2>0, <2>1 DEF Plan, PlanReady, PlanFails
  <2>2. CASE User
    <3>1. PICK u \in ShipTasks : ConfirmShip(u)
      BY <2>0, <2>2 DEF User, Confirm, Retry, Decline, SubmitFiles, Cancel, CancelFinished,
                        SkipAtShip, taskVars
    <3>2. ship[u].at = "idle" /\ \A v \in ShipTasks \ {u} : ship'[v] = ship[v]
      BY <2>0, <3>1 DEF ConfirmShip
    <3> QED
      BY <3>2
  <2>3. CASE ConfirmReturns \/ CancelWrites \/ Housekeeping
    BY <2>0, <2>3 DEF ConfirmReturns, CancelWrites, Housekeeping, FindSession, UpdateSession
  <2>4. ASSUME NEW p \in Pipes, Pipeline(p) PROVE FALSE
    <3>1. ~AutoShip(p)
      BY <2>0 DEF AutoShip, At, Shipping
    <3> QED
      BY <2>0, <2>4, <3>1
         DEF Pipeline, Begin, NextPhase, PhaseFails, PipelineError, TimeOut, Restart,
             ReadOnlyPlan, ScopeDrift, Generate, VerifyPasses, StartSelfHeal, SelfHealed,
             SelfHealCancelled, SelfHealsExhausted, ScanPasses, ScanFindsCritical,
             ScanCrashes, FullScanPasses, FullScanHeals, FullScanBlocks, NothingToShip,
             IntegrityGuardRejects, IntegrityGuardPasses, VerifierRejects, AuditLogged, GatePasses,
             unchangedPipeline, unchangedGlobal
  <2>5. ASSUME NEW u \in ShipTasks, Ship(u) PROVE FALSE
    <3>1. \A v \in ShipTasks \ {u} : ship'[v] = ship[v]
      BY <2>0, <2>5
         DEF Ship, ShipRefused, ShipStateLost, ShipDeclined, ShipApproved, ShipClaimed,
             ShipLostClaim, ShipStarts, ShipNarrates, Push, ShipSucceeds, ShipFails,
             ShipEnds, ShipGoto
    <3>2. u = t
      BY <3>1
    <3>3. ShipRefused(t) \/ ShipStateLost(t) \/ ShipDeclined(t)
      BY <2>0, <2>5, <3>2
         DEF Ship, ShipApproved, ShipClaimed, ShipLostClaim, ShipStarts, ShipNarrates,
             Push, ShipSucceeds, ShipFails, ShipAt
    <3>4. ship'[t] = NoShip
      BY <2>0, <3>3 DEF ShipRefused, ShipStateLost, ShipDeclined, ShipEnds
    <3> QED
      BY <3>4 DEF NoShip
  <2>6. CASE UNCHANGED vars
    BY <2>0, <2>6 DEF vars, taskVars
  <2> QED
    BY <1>1, <2>1, <2>2, <2>3, <2>4, <2>5, <2>6 DEF Next
<1>2. ASSUME IInv, [Next]_vars PROVE [A]_vars
  BY <1>1, <1>2
<1> QED
  BY <1>2, Invariance, PTL DEF Spec, SkipStopsLaterShips

=============================================================================

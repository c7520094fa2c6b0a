----------------------------- MODULE LoopEngine -----------------------------
(***************************************************************************)
(* One LoopEngine object of services/loop_engine.py, the requests of       *)
(* routers/loop.py that reach it, and the housekeeping sweeps, on one      *)
(* asyncio event loop.  Each action runs from one await to a later one:    *)
(* between two actions any other task of the worker may run.               *)
(*                                                                         *)
(* The plan task, up to |Pipes| pipeline tasks and up to |ShipTasks|       *)
(* confirm_ship tasks share the engine's state, phase and context.  A      *)
(* loop's files are one version number, 0 for none; `passed` remembers     *)
(* which versions passed which gate.  LoopShip has several engine objects  *)
(* of one loop, PhaseBudget the clock.                                     *)
(***************************************************************************)
EXTENDS Naturals, FiniteSets

CONSTANTS Pipes,         \* slots for concurrent _run_pipeline tasks
          ShipTasks,     \* slots for concurrent confirm_ship tasks
          NoPipe,        \* _pipeline_task is None
          Levels,        \* trust levels the user may have: L1, L2, L3
          MaxRestarts,   \* MAX_PHASE_RESTARTS
          MaxSelfHeals,  \* MAX_SELF_HEALS
          MaxScanHeals,  \* MAX_SCAN_HEALS
          MaxOps,        \* bound on user requests
          MaxVer,        \* bound on versions of the files
          Sweeps         \* housekeeping runs; an instance may leave it out

ASSUME LoopEngineAssumption ==
    /\ NoPipe \notin Pipes
    /\ Levels \subseteq {"L1", "L2", "L3"}
    /\ {MaxRestarts, MaxSelfHeals, MaxScanHeals, MaxOps, MaxVer} \subseteq Nat
    /\ Sweeps \in BOOLEAN

VARIABLES est,        \* engine.state
          phase,      \* engine.phase
          cancelled,  \* engine._cancelled
          handle,     \* engine._pipeline_task
          trust,      \* context.trust_level
          files,      \* context.submitted_files
          pending,    \* context.ship_pending, the version it holds
          commit,     \* context.commit: the version shipped, or ShipError
          sess,       \* loop_sessions.state
          sphase,     \* loop_sessions.phase
          claimed,    \* loop_sessions.context.ship_claimed_at exists
          live,       \* the engine is in _LIVE
          plan,       \* the task running start()
          pipe,       \* the _run_pipeline tasks
          ship,       \* the confirm_ship tasks
          confirming, \* confirm() calls past their state check
          cancelling, \* cancel requests whose second write is to come
          sweep,      \* what a sweep read and is about to write
          ver,        \* versions generated so far
          passed,     \* history: versions that passed each ship gate
          pushed,     \* history: versions committed to GitHub
          skipped,    \* history: the user skipped the ship, and no pipeline
                      \* was beyond the stop before it
          adopted,    \* history: a confirm_ship that lost its claim took over
                      \* the error of a failed ship as the loop's commit
          ops         \* user requests so far

ctxVars  == <<trust, files, pending, commit>>
taskVars == <<plan, pipe, handle, ship, confirming, cancelling, sweep>>
histVars == <<ver, passed, pushed, skipped, adopted>>
vars == <<est, phase, cancelled, ctxVars, sess, sphase, claimed, live,
          taskVars, histVars, ops>>

Running  == {"executing", "verifying", "scanning", "shipping", "self_healing"}
Idle     == {"awaiting", "paused"}
Terminal == {"completed", "failed", "aborted"}         \* _TERMINAL
State    == {"planning", "expired"} \cup Running \cup Idle \cup Terminal
Phase    == {"execute", "verify", "scan", "ship"}
Step     == {"idle", "begin", "work", "heal", "fullscan", "gate", "autoship",
             "pausing", "backoff", "done"}
ShipStep == {"idle", "start", "claim", "won", "say", "push", "pushed"}

PhaseState == [execute |-> "executing", verify |-> "verifying",
               scan |-> "scanning", ship |-> "shipping"]
NextOf     == [execute |-> "verify", verify |-> "scan", scan |-> "ship"]

NoTask   == [ph |-> "execute", at |-> "idle", mine |-> 0, tries |-> 0, heals |-> 0]
NoShip   == [at |-> "idle", approved |-> FALSE, body |-> 0]

\* context.commit as _fail_ship leaves it: {"error": ...}, without a sha.
ShipError == MaxVer + 1
HasSha    == commit \in 1..MaxVer

-----------------------------------------------------------------------------
Init ==
    /\ est = "planning" /\ phase = "plan" /\ cancelled = FALSE
    /\ trust = "L2" /\ files = 0 /\ pending = 0 /\ commit = 0
    /\ sess = "planning" /\ sphase = "plan" /\ claimed = FALSE /\ live = TRUE
    /\ plan = "running" /\ handle = NoPipe
    /\ pipe = [p \in Pipes |-> NoTask]
    /\ ship = [t \in ShipTasks |-> NoShip]
    /\ confirming = 0 /\ cancelling = 0 /\ sweep = "none"
    /\ ver = 0 /\ pushed = {} /\ skipped = FALSE /\ adopted = FALSE /\ ops = 0
    /\ passed = [c \in {"guard", "verifier"} |-> {}]

\* Set state and phase and write the session row.  `_doc` carries the whole
\* context, which never holds ship_claimed_at: the claim is overwritten.
Persist(s, ph) ==
    /\ est' = s /\ phase' = ph
    /\ sess' = s /\ sphase' = ph
    /\ claimed' = FALSE

unchangedState == UNCHANGED <<est, phase, sess, sphase, claimed>>
unchangedGlobal == UNCHANGED <<cancelled, live, plan, ship, confirming,
                               cancelling, sweep, ops>>

-----------------------------------------------------------------------------
(* The plan task.  It never looks at _cancelled or at the state.           *)

PlanReady ==
    /\ plan = "running"
    /\ plan' = "ready"
    /\ Persist("awaiting", "plan")
    /\ UNCHANGED <<cancelled, ctxVars, live, pipe, handle, ship, confirming,
                   cancelling, sweep, histVars, ops>>

\* Timeout, an exception or a failed PAT preflight: _fail.
PlanFails ==
    /\ plan = "running"
    /\ plan' = "failed"
    /\ Persist("failed", "plan")
    /\ UNCHANGED <<cancelled, ctxVars, live, pipe, handle, ship, confirming,
                   cancelling, sweep, histVars, ops>>

-----------------------------------------------------------------------------
(* User requests.                                                          *)

\* lookup_or_rehydrate returns this object: it is in _LIVE and, if it sits
\* idle, agrees with the session row.  Otherwise the request gets a 404 or
\* an object rebuilt from the row (LoopShip).
Reachable == live /\ (est \in Idle => sess = est /\ sphase = phase)
Request   == ops < MaxOps /\ ops' = ops + 1

\* POST /confirm approved: past the state check, before the trust level is
\* read.  The state does not change.
Confirm ==
    /\ Request /\ Reachable
    /\ est = "awaiting"
    /\ confirming' = confirming + 1
    /\ unchangedState
    /\ UNCHANGED <<cancelled, ctxVars, live, plan, pipe, handle, ship,
                   cancelling, sweep, histVars>>

\* POST /pause-response retry or skip: sets the state confirm() wants,
\* whatever the engine is doing, and calls it.  The UI offers it on a pause,
\* so not before the plan phase is over; a second click finds any state.
Retry ==
    /\ Request /\ Reachable
    /\ plan # "running"
    /\ est' = "awaiting"
    /\ confirming' = confirming + 1
    /\ UNCHANGED <<phase, sess, sphase, claimed, cancelled, ctxVars, live,
                   plan, pipe, handle, ship, cancelling, sweep, histVars>>

\* POST /confirm declined.
Decline ==
    /\ Request /\ Reachable
    /\ est = "awaiting"
    /\ Persist("aborted", "plan")
    /\ UNCHANGED <<cancelled, ctxVars, live, taskVars, histVars>>

\* The rest of confirm(): L1 completes with the plan, L2 and L3 schedule a
\* pipeline and keep its handle.
ConfirmReturns ==
    /\ confirming > 0
    /\ confirming' = confirming - 1
    /\ \E level \in Levels :
         /\ trust' = level
         /\ \/ /\ level = "L1"
               /\ Persist("completed", "plan")
               /\ UNCHANGED <<pipe, handle>>
            \/ /\ level # "L1"
               /\ \E p \in Pipes :
                    /\ pipe[p].at = "idle"
                    /\ pipe' = [pipe EXCEPT ![p] = [NoTask EXCEPT !.at = "begin"]]
                    /\ handle' = p
               /\ unchangedState
    /\ UNCHANGED <<cancelled, files, pending, commit, live, plan, ship,
                   cancelling, sweep, histVars, ops>>

\* submit_files: refused once the engine has left AWAITING_CONFIRMATION.
SubmitFiles ==
    /\ Request /\ Reachable
    /\ est = "awaiting" /\ ver < MaxVer
    /\ ver' = ver + 1
    /\ files' = ver'
    /\ Persist(est, phase)
    /\ UNCHANGED <<cancelled, trust, pending, commit, live, taskVars, passed,
                   pushed, skipped, adopted>>

\* task.cancel() on the handle; the done callback drops the handle.
CancelPipeline ==
    IF handle = NoPipe THEN UNCHANGED <<pipe, handle>>
    ELSE /\ pipe' = [pipe EXCEPT ![handle] = NoTask]
         /\ handle' = NoPipe

\* POST /cancel, or pause-response abort, on an engine that is not over.
Cancel ==
    /\ Request /\ live
    /\ est \notin Terminal
    /\ cancelled' = TRUE
    /\ CancelPipeline
    /\ Persist("aborted", phase)
    /\ \/ cancelling' = cancelling + 1
       \/ cancelling' = cancelling /\ Reachable
    /\ UNCHANGED <<ctxVars, live, plan, ship, confirming, sweep, histVars>>

\* POST /cancel on a finished engine: engine.cancel() returns early.
CancelFinished ==
    /\ Request /\ live
    /\ est \in Terminal
    /\ cancelling' = cancelling + 1
    /\ unchangedState
    /\ UNCHANGED <<cancelled, ctxVars, live, plan, pipe, handle, ship,
                   confirming, sweep, histVars>>

\* cancel_loop's second write of "aborted", whatever cancel() did.
CancelWrites ==
    /\ cancelling > 0
    /\ cancelling' = cancelling - 1
    /\ sess' = "aborted"
    /\ UNCHANGED <<est, phase, sphase, claimed, cancelled, ctxVars, live, plan,
                   pipe, handle, ship, confirming, sweep, histVars, ops>>

\* A pipeline is past its last look at _should_stop.
Shipping(task) == task.ph = "ship" /\ task.at \notin {"idle", "done"}

\* pause-response skip at a ship gate: skip_at_ship.
SkipAtShip ==
    /\ Request /\ Reachable
    /\ est = "paused" /\ phase = "ship"
    /\ cancelled' = TRUE
    /\ CancelPipeline
    /\ pending' = 0
    /\ Persist("aborted", "ship")
    /\ skipped' = (skipped \/ \A p \in Pipes : ~Shipping(pipe'[p]))
    /\ UNCHANGED <<trust, files, commit, live, plan, ship, confirming,
                   cancelling, sweep, ver, passed, pushed, adopted>>

\* POST /confirm-ship or /approve-ship: checks, then create_task.
ConfirmShip(t) ==
    /\ Request /\ Reachable
    /\ ship[t].at = "idle"
    /\ ~HasSha
    /\ est = "paused" /\ phase = "ship"
    /\ \E ok \in BOOLEAN :
         ship' = [ship EXCEPT ![t] = [at |-> "start", approved |-> ok, body |-> 0]]
    /\ unchangedState
    /\ UNCHANGED <<cancelled, ctxVars, live, plan, pipe, handle, confirming,
                   cancelling, sweep, histVars>>

-----------------------------------------------------------------------------
(* The pipeline: _run_pipeline, _with_budget and the five phase bodies.    *)

At(p, ph, step)  == pipe[p].ph = ph /\ pipe[p].at = step
Goto(p, step)    == pipe' = [pipe EXCEPT ![p].at = step]
Move(p, rec)     == pipe' = [pipe EXCEPT ![p] = rec]

\* The phase's coroutine returns to _with_budget.
Return(p) == Move(p, [NoTask EXCEPT !.ph = pipe[p].ph, !.at = "done"])

\* The pipeline task ends; its done callback clears _pipeline_task, whichever
\* task that names by now.
Exit(p) == Move(p, NoTask) /\ handle' = NoPipe

unchangedPipeline ==
    /\ unchangedGlobal
    /\ UNCHANGED <<trust, commit, pushed, skipped, adopted>>

\* The phase body is running, so an exception or its budget can end it.
Working(p) == pipe[p].at \in {"work", "heal", "fullscan", "gate", "pausing"}

\* A coroutine starts phase ph: state, phase, emit, and what it copies from
\* submitted_files.
Enter(p, ph, tries) ==
    /\ Move(p, [ph |-> ph, at |-> "work", mine |-> files, tries |-> tries,
                heals |-> 0])
    /\ Persist(PhaseState[ph], ph)

Begin(p) ==
    /\ pipe[p].at = "begin"
    /\ Enter(p, "execute", 0)
    /\ UNCHANGED <<handle, files, pending, ver, passed>>
    /\ unchangedPipeline

\* _should_stop.
ShouldStop == cancelled \/ est \in Terminal \cup {"paused"}

\* A phase returned: stop, or start the next one.
NextPhase(p) ==
    /\ pipe[p].at = "done"
    /\ IF ShouldStop \/ pipe[p].ph = "ship"
       THEN Exit(p) /\ unchangedState
       ELSE Enter(p, NextOf[pipe[p].ph], 0) /\ UNCHANGED handle
    /\ UNCHANGED <<files, pending, ver, passed>>
    /\ unchangedPipeline

\* _fail inside EXECUTE (no credentials, no output) or _fail_ship inside
\* SHIP, which also overwrites context.commit; then the phase returns.
PhaseFails(p) ==
    /\ pipe[p].at = "work" /\ pipe[p].ph \in {"execute", "ship"}
    /\ Return(p)
    /\ Persist("failed", pipe[p].ph)
    /\ commit' = IF pipe[p].ph = "ship" THEN ShipError ELSE commit
    /\ UNCHANGED <<handle, trust, files, pending, histVars>>
    /\ unchangedGlobal

\* An exception leaves the phase, or the narration stall detector fires:
\* _fail, and the pipeline task ends.
PipelineError(p) ==
    /\ Working(p)
    /\ Exit(p)
    /\ Persist("failed", phase)
    /\ UNCHANGED <<files, pending, ver, passed>>
    /\ unchangedPipeline

\* Variant: one restart too many.
ExtraRestart(p) ==
    /\ Working(p)
    /\ IF pipe[p].tries <= MaxRestarts
       THEN /\ Move(p, [pipe[p] EXCEPT !.at = "backoff", !.tries = @ + 1])
            /\ Persist("self_healing", "self_heal")
            /\ files' = IF pipe[p].ph = "execute" THEN 0 ELSE files
       ELSE /\ Return(p)
            /\ Persist("failed", pipe[p].ph)
            /\ UNCHANGED files
    /\ UNCHANGED <<handle, pending, ver, passed>>
    /\ unchangedPipeline

\* Variant: the restart is not counted.
UncountedRestart(p) ==
    /\ Working(p)
    /\ IF pipe[p].tries < MaxRestarts
       THEN /\ Move(p, [pipe[p] EXCEPT !.at = "backoff"])
            /\ Persist("self_healing", "self_heal")
            /\ files' = IF pipe[p].ph = "execute" THEN 0 ELSE files
       ELSE /\ Return(p)
            /\ Persist("failed", pipe[p].ph)
            /\ UNCHANGED files
    /\ UNCHANGED <<handle, pending, ver, passed>>
    /\ unchangedPipeline

\* The phase exceeds its budget: one restart after a backoff, then _fail.
TimeOut(p) ==
    /\ Working(p)
    /\ IF pipe[p].tries < MaxRestarts
       THEN /\ Move(p, [pipe[p] EXCEPT !.at = "backoff", !.tries = @ + 1])
            /\ Persist("self_healing", "self_heal")
            /\ files' = IF pipe[p].ph = "execute" THEN 0 ELSE files
       ELSE /\ Return(p)
            /\ Persist("failed", pipe[p].ph)
            /\ UNCHANGED files
    /\ UNCHANGED <<handle, pending, ver, passed>>
    /\ unchangedPipeline

Restart(p) ==
    /\ pipe[p].at = "backoff"
    /\ Enter(p, pipe[p].ph, pipe[p].tries)
    /\ UNCHANGED <<handle, files, pending, ver, passed>>
    /\ unchangedPipeline

Pause(p, ph) == Return(p) /\ Persist("paused", ph)

-----------------------------------------------------------------------------
(* EXECUTE *)

\* No plan, or no files in it: the plan is the report.
ReadOnlyPlan(p) ==
    /\ At(p, "execute", "work")
    /\ Return(p)
    /\ Persist("completed", "execute")
    /\ UNCHANGED <<handle, files, pending, ver, passed>>
    /\ unchangedPipeline

ScopeDrift(p) ==
    /\ At(p, "execute", "work")
    /\ plan = "ready"
    /\ Pause(p, "execute")
    /\ UNCHANGED <<handle, files, pending, ver, passed>>
    /\ unchangedPipeline

Generate(p) ==
    /\ At(p, "execute", "work")
    /\ plan = "ready"
    /\ ver < MaxVer
    /\ ver' = ver + 1
    /\ files' = ver'
    /\ Return(p)
    /\ Persist("executing", "execute")
    /\ UNCHANGED <<handle, pending, passed>>
    /\ unchangedPipeline

-----------------------------------------------------------------------------
(* VERIFY *)

VerifyPasses(p) ==
    /\ At(p, "verify", "work")
    /\ Return(p)
    /\ unchangedState
    /\ UNCHANGED <<handle, files, pending, ver, passed>>
    /\ unchangedPipeline

StartSelfHeal(p) ==
    /\ At(p, "verify", "work")
    /\ pipe[p].mine # 0
    /\ pipe[p].heals < MaxSelfHeals
    /\ IF cancelled
       THEN Return(p) /\ unchangedState
       ELSE Goto(p, "heal") /\ Persist("self_healing", "self_heal")
    /\ UNCHANGED <<handle, files, pending, ver, passed>>
    /\ unchangedPipeline

\* The healer rewrote the failing files, or gave up; submitted_files becomes
\* this pipeline's list either way and the lint runs again.
SelfHealed(p) ==
    /\ At(p, "verify", "heal")
    /\ \E v \in {pipe[p].mine} \cup (IF ver < MaxVer THEN {ver + 1} ELSE {}) :
         /\ Move(p, [pipe[p] EXCEPT !.at = "work", !.mine = v,
                                    !.heals = @ + 1])
         /\ files' = v
         /\ ver' = IF v > ver THEN v ELSE ver
    /\ Persist("verifying", phase)
    /\ UNCHANGED <<handle, pending, passed>>
    /\ unchangedPipeline

\* A cancel that found no handle is noticed between two files.
SelfHealCancelled(p) ==
    /\ At(p, "verify", "heal")
    /\ cancelled
    /\ Return(p)
    /\ unchangedState
    /\ UNCHANGED <<handle, files, pending, ver, passed>>
    /\ unchangedPipeline

SelfHealsExhausted(p) ==
    /\ At(p, "verify", "work")
    /\ pipe[p].mine # 0
    /\ pipe[p].heals = MaxSelfHeals
    /\ Pause(p, "verify")
    /\ UNCHANGED <<handle, files, pending, ver, passed>>
    /\ unchangedPipeline

-----------------------------------------------------------------------------
(* SCAN *)

\* Nothing critical in the diff: a narration emits the current state, a high
\* finding SCANNING before it; on to the full scan, if there are files.
ScanPasses(p) ==
    /\ At(p, "scan", "work")
    /\ Persist(est, phase) \/ Persist("scanning", "scan")
    /\ IF est' # "paused" /\ pipe[p].mine # 0 THEN Goto(p, "fullscan") ELSE Return(p)
    /\ UNCHANGED <<handle, files, pending, ver, passed>>
    /\ unchangedPipeline

ScanFindsCritical(p) ==
    /\ At(p, "scan", "work")
    /\ Pause(p, "scan")
    /\ UNCHANGED <<handle, files, pending, ver, passed>>
    /\ unchangedPipeline

\* Any exception in the scan fails closed.
ScanCrashes(p) ==
    /\ pipe[p].ph = "scan" /\ pipe[p].at \in {"work", "fullscan"}
    /\ Return(p)
    /\ Persist("failed", "scan")
    /\ UNCHANGED <<handle, files, pending, ver, passed>>
    /\ unchangedPipeline

\* Skipped, or no critical/high finding in the loop's own code.
FullScanPasses(p) ==
    /\ At(p, "scan", "fullscan")
    /\ Return(p)
    /\ Persist("scanning", "scan")
    /\ UNCHANGED <<handle, files, pending, ver, passed>>
    /\ unchangedPipeline

\* Triage marks findings in the file objects in place: every list that holds
\* them, submitted_files included, now holds the new content.  (The model call
\* after it asks Parliament for a method it does not have; its exception is
\* swallowed, which is the same step with nothing rewritten.)
FullScanHeals(p) ==
    /\ At(p, "scan", "fullscan")
    /\ pipe[p].heals < MaxScanHeals
    /\ ver < MaxVer
    /\ ver' = ver + 1
    /\ LET old == pipe[p].mine
           sharing == {q \in Pipes : pipe[q].ph \in {"verify", "scan"}
                                     /\ pipe[q].mine = old}
       IN /\ pipe' = [q \in Pipes |->
                        [pipe[q] EXCEPT
                            !.mine  = IF q \in sharing THEN ver' ELSE @,
                            !.heals = IF q = p THEN @ + 1 ELSE @]]
          /\ files' = IF files = old THEN ver' ELSE files
    /\ Persist("scanning", "scan")
    /\ UNCHANGED <<handle, pending, passed>>
    /\ unchangedPipeline

\* Findings remain: the healer gave up or its rounds are used up.
FullScanBlocks(p) ==
    /\ At(p, "scan", "fullscan")
    /\ Pause(p, "scan")
    /\ UNCHANGED <<handle, files, pending, ver, passed>>
    /\ unchangedPipeline

-----------------------------------------------------------------------------
(* SHIP up to the manual gate.  The body of every file is copied once,     *)
(* before the integrity guard; the later gates judge that copy.            *)

NothingToShip(p) ==
    /\ At(p, "ship", "work")
    /\ files = 0
    /\ Pause(p, "ship")
    /\ UNCHANGED <<handle, files, pending, ver, passed>>
    /\ unchangedPipeline

IntegrityGuardRejects(p) ==
    /\ At(p, "ship", "work")
    /\ files # 0
    /\ Return(p)
    /\ pending' = 0
    /\ Persist("failed", "ship")
    /\ UNCHANGED <<handle, files, ver, passed>>
    /\ unchangedPipeline

IntegrityGuardPasses(p) ==
    /\ At(p, "ship", "work")
    /\ files # 0
    /\ Move(p, [pipe[p] EXCEPT !.at = "gate", !.mine = files])
    /\ passed' = [passed EXCEPT !.guard = @ \cup {files}]
    /\ unchangedState
    /\ UNCHANGED <<handle, files, pending, ver>>
    /\ unchangedPipeline

\* The engine's state is PAUSED already while the audit entry is awaited.
AwaitAudit(p) ==
    /\ Goto(p, "pausing")
    /\ est' = "paused"
    /\ UNCHANGED <<phase, sess, sphase, claimed>>

AuditLogged(p) ==
    /\ At(p, "ship", "pausing")
    /\ Pause(p, "ship")
    /\ UNCHANGED <<handle, files, pending, ver, passed>>
    /\ unchangedPipeline

\* The independent verifier says "no": pause, ship_pending left as it was.
VerifierRejects(p) ==
    /\ At(p, "ship", "gate")
    /\ AwaitAudit(p)
    /\ UNCHANGED <<handle, files, pending, ver, passed>>
    /\ unchangedPipeline

\* Variant: what is offered is read again after the gates.
OfferSubmitted(p) ==
    /\ At(p, "ship", "gate")
    /\ pending' = files
    /\ passed' = [passed EXCEPT !.verifier = @ \cup {pipe[p].mine}]
    /\ \/ Pause(p, "ship")
       \/ trust = "L3" /\ Goto(p, "autoship") /\ unchangedState
    /\ UNCHANGED <<handle, files, ver>>
    /\ unchangedPipeline

\* It does not: a touched test file holds the ship for review, even for L3;
\* else the manual gate, or for L3 none.
GatePasses(p) ==
    /\ At(p, "ship", "gate")
    /\ pending' = pipe[p].mine
    /\ passed' = [passed EXCEPT !.verifier = @ \cup {pipe[p].mine}]
    /\ \/ AwaitAudit(p)
       \/ Pause(p, "ship")
       \/ trust = "L3" /\ Goto(p, "autoship") /\ unchangedState
    /\ UNCHANGED <<handle, files, ver>>
    /\ unchangedPipeline

\* L3: confirm_ship(True) inside the pipeline.  It raises unless another
\* pipeline has paused the engine at the ship phase meanwhile; _run_pipeline
\* turns the exception into _fail.  If one has, the ship goes on from here
\* like a task of its own: the end of that pipeline drops the handle.
AutoShip(p) ==
    /\ At(p, "ship", "autoship")
    /\ Exit(p)
    /\ \/ /\ est # "paused" \/ phase # "ship"
          /\ Persist("failed", phase)
          /\ UNCHANGED <<commit, ship>>
       \/ /\ est = "paused" /\ phase = "ship" /\ pending = 0
          /\ Persist("failed", "ship")
          /\ commit' = ShipError
          /\ UNCHANGED ship
       \/ /\ est = "paused" /\ phase = "ship" /\ pending # 0
          /\ \E t \in ShipTasks :
               /\ ship[t].at = "idle"
               /\ ship' = [ship EXCEPT ![t] = [at |-> "claim", approved |-> TRUE,
                                               body |-> pending]]
          /\ unchangedState
          /\ UNCHANGED commit
    /\ UNCHANGED <<trust, files, pending, histVars, cancelled, live, plan,
                   confirming, cancelling, sweep, ops>>

-----------------------------------------------------------------------------
(* confirm_ship as a task of its own; cancel() holds no handle on it.      *)

ShipAt(t, step) == ship[t].at = step
ShipEnds(t)     == ship' = [ship EXCEPT ![t] = NoShip]
ShipGoto(t, step) == ship' = [ship EXCEPT ![t].at = step]

unchangedShip == UNCHANGED <<cancelled, trust, files, live, plan, pipe, handle,
                             confirming, cancelling, sweep, ver, passed,
                             skipped, ops>>

\* The state moved on since the endpoint checked it: ValueError.
ShipRefused(t) ==
    /\ ShipAt(t, "start")
    /\ est # "paused" \/ phase # "ship"
    /\ ShipEnds(t)
    /\ unchangedState
    /\ UNCHANGED <<pending, commit, pushed, adopted>>
    /\ unchangedShip

ShipStateLost(t) ==
    /\ ShipAt(t, "start")
    /\ est = "paused" /\ phase = "ship"
    /\ pending = 0
    /\ ShipEnds(t)
    /\ commit' = ShipError
    /\ Persist("failed", "ship")
    /\ UNCHANGED <<pending, pushed, adopted>>
    /\ unchangedShip

ShipDeclined(t) ==
    /\ ShipAt(t, "start")
    /\ est = "paused" /\ phase = "ship"
    /\ pending # 0 /\ ~ship[t].approved
    /\ ShipEnds(t)
    /\ pending' = 0
    /\ Persist("aborted", "ship")
    /\ UNCHANGED <<commit, pushed, adopted>>
    /\ unchangedShip

\* Variant: the state is not looked at again.
ShipUnchecked(t) ==
    /\ ShipAt(t, "start")
    /\ ship[t].approved
    /\ ship' = [ship EXCEPT ![t].at = "claim", ![t].body = files]
    /\ unchangedState
    /\ UNCHANGED <<pending, commit, pushed, adopted>>
    /\ unchangedShip

ShipApproved(t) ==
    /\ ShipAt(t, "start")
    /\ est = "paused" /\ phase = "ship"
    /\ pending # 0 /\ ship[t].approved
    /\ ship' = [ship EXCEPT ![t].at = "claim", ![t].body = pending]
    /\ unchangedState
    /\ UNCHANGED <<pending, commit, pushed, adopted>>
    /\ unchangedShip

\* find_one_and_update: the loop is neither claimed nor committed.
ShipClaimed(t) ==
    /\ ShipAt(t, "claim")
    /\ ~claimed /\ ~HasSha
    /\ claimed' = TRUE
    /\ sess' = "shipping"
    /\ ShipGoto(t, "won")
    /\ UNCHANGED <<est, phase, sphase, pending, commit, pushed, adopted>>
    /\ unchangedShip

\* Variant: whoever loses the claim reports the ship as done.
LoserCompletes(t) ==
    /\ ShipAt(t, "claim")
    /\ claimed \/ HasSha
    /\ ShipEnds(t)
    /\ est' = "completed" /\ pending' = 0
    /\ UNCHANGED <<phase, sess, sphase, claimed, commit, pushed, adopted>>
    /\ unchangedShip

\* It is: surface the existing commit, an error as well as a sha, or do
\* nothing.
ShipLostClaim(t) ==
    /\ ShipAt(t, "claim")
    /\ claimed \/ HasSha
    /\ ShipEnds(t)
    /\ IF commit # 0
       THEN est' = "completed" /\ pending' = 0
       ELSE UNCHANGED <<est, pending>>
    /\ adopted' = (adopted \/ commit = ShipError)
    /\ UNCHANGED <<phase, sess, sphase, claimed, commit, pushed>>
    /\ unchangedShip

\* SHIPPING is emitted: the context written with it erases the claim.
ShipStarts(t) ==
    /\ ShipAt(t, "won")
    /\ ShipGoto(t, "say")
    /\ Persist("shipping", "ship")
    /\ UNCHANGED <<pending, commit, pushed, adopted>>
    /\ unchangedShip

\* The narration before the push emits whatever state the engine has by now.
ShipNarrates(t) ==
    /\ ShipAt(t, "say")
    /\ ShipGoto(t, "push")
    /\ Persist(est, phase)
    /\ UNCHANGED <<pending, commit, pushed, adopted>>
    /\ unchangedShip

\* commit_files takes effect on GitHub.
Push(t) ==
    /\ ShipAt(t, "push")
    /\ ShipGoto(t, "pushed")
    /\ pushed' = pushed \cup {ship[t].body}
    /\ unchangedState
    /\ UNCHANGED <<pending, commit, adopted>>
    /\ unchangedShip

ShipSucceeds(t) ==
    /\ ShipAt(t, "pushed")
    /\ ShipEnds(t)
    /\ commit' = ship[t].body
    /\ pending' = 0
    /\ Persist("completed", "ship")
    /\ UNCHANGED <<pushed, adopted>>
    /\ unchangedShip

\* commit_files raises, before or after GitHub took the commit: _fail_ship.
ShipFails(t) ==
    /\ ship[t].at \in {"push", "pushed"}
    /\ ShipEnds(t)
    /\ commit' = ShipError
    /\ Persist("failed", "ship")
    /\ UNCHANGED <<pending, pushed, adopted>>
    /\ unchangedShip

-----------------------------------------------------------------------------
(* Housekeeping: a sweep finds the session, then updates it by loop_id     *)
(* alone, whatever it says by then.                                        *)

\* Something writes to the session soon.  A push has neither heartbeat nor
\* budget and may stay quiet for longer than STALE_AFTER_S.
Busy == \/ \E p \in Pipes : pipe[p].at # "idle"
        \/ \E t \in ShipTasks : ship[t].at \notin {"idle", "push", "pushed"}

\* Variant: a state is missing from the sweep's list.
FindStaleShips ==
    /\ sweep = "none"
    /\ sess \in Running \ {"executing"}
    /\ ~Busy
    /\ sweep' = "rescue"

\* resume_stale finds a running session that went quiet.  A live phase is
\* never quiet that long (PhaseBudget).
FindStale ==
    /\ sweep = "none"
    /\ sess \in Running
    /\ ~Busy
    /\ sweep' = "rescue"

\* sweep_expired_awaiting_confirmations finds a session that waits.
FindExpired ==
    /\ sweep = "none"
    /\ sess \in Idle
    /\ sweep' = "expire"

FindSession ==
    /\ Sweeps
    /\ FindStale \/ FindExpired
    /\ unchangedState
    /\ UNCHANGED <<cancelled, ctxVars, live, plan, pipe, handle, ship,
                   confirming, cancelling, histVars, ops>>

Rescue ==
    /\ sweep = "rescue"
    /\ sweep' = "none"
    /\ sess' = "paused"
    /\ UNCHANGED live

Expire ==
    /\ sweep = "expire"
    /\ sweep' = "none"
    /\ sess' = "expired"
    /\ live' = FALSE

UpdateSession ==
    /\ Rescue \/ Expire
    /\ UNCHANGED <<est, phase, sphase, claimed, cancelled, ctxVars, plan, pipe,
                   handle, ship, confirming, cancelling, histVars, ops>>

-----------------------------------------------------------------------------
Plan == PlanReady \/ PlanFails

User == \/ Confirm \/ Retry \/ Decline \/ SubmitFiles \/ Cancel
        \/ CancelFinished \/ SkipAtShip
        \/ \E t \in ShipTasks : ConfirmShip(t)

Pipeline(p) ==
    \/ Begin(p) \/ NextPhase(p) \/ PhaseFails(p) \/ PipelineError(p)
    \/ TimeOut(p) \/ Restart(p)
    \/ ReadOnlyPlan(p) \/ ScopeDrift(p) \/ Generate(p)
    \/ VerifyPasses(p) \/ StartSelfHeal(p) \/ SelfHealed(p)
    \/ SelfHealCancelled(p) \/ SelfHealsExhausted(p)
    \/ ScanPasses(p) \/ ScanFindsCritical(p) \/ ScanCrashes(p)
    \/ FullScanPasses(p) \/ FullScanHeals(p) \/ FullScanBlocks(p)
    \/ NothingToShip(p) \/ IntegrityGuardRejects(p) \/ IntegrityGuardPasses(p)
    \/ VerifierRejects(p) \/ AuditLogged(p) \/ GatePasses(p) \/ AutoShip(p)

Ship(t) ==
    \/ ShipRefused(t) \/ ShipStateLost(t) \/ ShipDeclined(t) \/ ShipApproved(t)
    \/ ShipClaimed(t) \/ ShipLostClaim(t) \/ ShipStarts(t) \/ ShipNarrates(t)
    \/ Push(t) \/ ShipSucceeds(t) \/ ShipFails(t)

Housekeeping == FindSession \/ UpdateSession

Next ==
    \/ Plan \/ User \/ ConfirmReturns \/ CancelWrites \/ Housekeeping
    \/ \E p \in Pipes : Pipeline(p)
    \/ \E t \in ShipTasks : Ship(t)

\* asyncio runs every ready task; awaits end by an answer, an exception or
\* a budget; housekeeping ticks for ever.  Users owe nothing.
Fairness ==
    /\ WF_vars(Plan)
    /\ WF_vars(ConfirmReturns)
    /\ WF_vars(CancelWrites)
    /\ WF_vars(Housekeeping)
    /\ \A p \in Pipes : WF_vars(Pipeline(p))
    /\ \A t \in ShipTasks : WF_vars(Ship(t))

Spec     == Init /\ [][Next]_vars
FairSpec == Spec /\ Fairness

-----------------------------------------------------------------------------
(* Properties                                                              *)

Task == [ph : Phase, at : Step, mine : 0..MaxVer, tries : 0..MaxRestarts,
         heals : 0..(MaxSelfHeals + MaxScanHeals)]

TypeOK ==
    /\ est \in State /\ sess \in State
    /\ {phase, sphase} \subseteq Phase \cup {"plan", "self_heal"}
    /\ {cancelled, claimed, live} \subseteq BOOLEAN
    /\ handle \in Pipes \cup {NoPipe}
    /\ trust \in Levels \cup {"L2"}
    /\ {files, pending, ver} \subseteq 0..MaxVer
    /\ commit \in 0..ShipError
    /\ plan \in {"running", "ready", "failed"}
    /\ pipe \in [Pipes -> Task]
    /\ ship \in [ShipTasks -> [at : ShipStep, approved : BOOLEAN,
                               body : 0..MaxVer]]
    /\ {confirming, cancelling, ops} \subseteq 0..MaxOps
    /\ sweep \in {"none", "rescue", "expire"}
    /\ passed \in [{"guard", "verifier"} -> SUBSET (1..MaxVer)]
    /\ pushed \subseteq 1..MaxVer
    /\ {skipped, adopted} \subseteq BOOLEAN

\* Every version that reaches GitHub passed the integrity guard and was not
\* refused by the independent verifier, in one and the same ship pass over
\* one and the same content, although other pipelines, retries and in-place
\* scan heals change submitted_files between the gates and the push.
PushedPassedGates == pushed \subseteq passed.guard \cap passed.verifier

\* services/loop_engine.py, _do_ship: "only marks the loop COMPLETED after the
\* GitHub API returns a real commit_sha".  A loop that completed in its ship
\* phase, in memory or in its session row, records a commit that is on GitHub,
\* whichever of several confirm_ship tasks and pipelines came last - unless a
\* confirm_ship that lost its claim found the error of a failed ship where the
\* commit belongs: it adopts that and reports COMPLETED all the same, against
\* the sentence above.
CompletedMeansPushed ==
    \/ est = "completed" /\ phase = "ship"
    \/ sess = "completed" /\ sphase = "ship"
    => commit \in pushed \/ (adopted /\ commit = ShipError)

\* Once a pipeline runs, it ends: timeouts, restarts, self-heals and scan
\* heals cannot keep it going.
PipelineEnds ==
    \A p \in Pipes : pipe[p].at # "idle" ~> pipe[p].at = "idle"

\* A session that shows a running phase comes to rest: its pipeline pauses
\* or ends it, and one that nothing runs any more (a confirm that raced a
\* cancel) is rescued.
RunningComesToRest == sess \in Running ~> sess \notin Running

\* services/loop_engine.py, skip_at_ship: "Skipping a ship means: do NOT
\* commit".  A skip cannot stop a confirm_ship task that has passed its check
\* already, nor a second pipeline (of a double confirm) that is inside SHIP
\* by then and opens the gate again.  But without such a pipeline no task ever
\* passes that check again, whatever was under way when the user skipped and
\* however often they confirm or retry afterwards.
SkipStopsLaterShips ==
    [][skipped => \A t \in ShipTasks :
          ~(ship[t].at = "start" /\ ship'[t].at = "claim")]_vars
=============================================================================

# Loop Mode and its neighbours, specified

TLA+ models of those parts of this repository that have a protocol of their
own: *Loop Mode*, the autonomous PLAN → EXECUTE → VERIFY → SCAN → SHIP
pipeline of `backend/services/loop_engine.py` with its HTTP surface, its
per-project lock, its rollback and its event streams; the fix jobs and the
quota they charge; the circuit breaker that all LLM councils of a process
share; and the paid tier, from the Stripe webhook to the sweeper that deletes a
user's database project.  TLC checks the models on small instances; TLAPS checks
proofs, for all values of the constants, of every safety and action property
that the passing runs check.

## The system

| Component | State it keeps | Operations | What is hard about it |
|---|---|---|---|
| Concurrent-loop lock (`loop_safety.py`) | one `loop_locks` row per (project, user), with `acquired_at` | acquire (stale sweep, ghost sweep, insert), release, force-release | every acquire is up to six Mongo calls of which any may fail; releases are best effort; rows outlive crashed workers |
| Loop engine (`loop_engine.py`) | `state`, `phase`, `context`, `_cancelled`, `_pipeline_task`; the `loop_sessions` row | start, confirm, pipeline phases, self-heal, full scan, ship gates, cancel, skip, submit_files | several tasks share one object between awaits; cancel knows only one task |
| Ship (`confirm_ship`) and engine registry (`_LIVE`) | `ship_pending`, `ship_claimed_at`, `commit`; engine objects per worker | lookup, rehydrate, claim, push, record | two workers, two engine copies, one GitHub branch |
| Phase budgets (`_with_budget`) | attempt, heartbeat | timeout, restart, backoff | races `resume_stale` |
| Housekeeping (`main.py`) | none | `resume_stale`, expiry sweep, SSE eviction | find, then update by id alone |
| Loop rollback (`loop_rollback.py`) | `rollback_status`, `rollback_sha`, `last_event` of a session | check, queue, revert, record, report | check, then set; GitHub may answer too late or never; a worker dies half-way |
| SSE replay (`sse_replay_buffer.py`, `GET /stream`) | a ring of numbered events per loop and process | record, replay, poll, evict | sequence numbers are per process, browsers move between processes |
| Fix-job manager (`fix_job_manager.py`, `fix_pipeline.py`) | `_JOBS` of a process, `fix_jobs` rows | bulk, restart, worker, close, shutdown, boot sweep | several processes sweep each other's rows; a restart must not pay twice |
| Scan/fix quota | `scan_fix_usage.count` | check, increment | check, then work, then charge |
| Circuit breaker (`parliament.py`) | state, failure count, open time, probe flag | should_attempt, record_success, record_failure | one breaker, many concurrent callers; probes that are cancelled |
| Billing (`payments.py`, `billing.py`) | user's tier and subscription, `cto_payments`, referrals | checkout, webhook events, poll, referral reward | Stripe repeats and reorders; the poll races the webhook |
| Paid storage (`supabase.py`, provisioner, sweeper) | `supabase_projects` row, the project itself | provision, downgrade, transfer, destroy, sweep, rearm | rows are read, then acted on awaits later; deletes are by app |
| Loop failure circuit, token revocation | counters, cached epochs, blocklist | count, check, revoke | stale caches |
| LLM generation, lint, scanners, verifier, GitHub writer | none that outlives a call | calls | their verdicts are inputs of the models |
| Chat, deploy, scaffold, other routers, frontend, extension | rows and UI | endpoints | no protocol of their own |

A user starts a loop with `POST /loop/start`, which takes the lock, builds an
engine, and drives its plan phase in the background.  `POST /confirm` starts
the pipeline as an asyncio task.  Every phase writes the engine's state and
whole context to `loop_sessions`; a request that lands on another worker
rebuilds an engine from that row if it is paused.  Every phase asks LLMs, through
councils that share one breaker and one semaphore per process.  Housekeeping,
once a minute on every worker, pauses running sessions that went quiet and
expires sessions nobody answers.  A loop that pauses at the ship gate is pushed
by `POST /confirm-ship`, in a task of its own; a loop that completed can be
rolled back, with the browser following over SSE.  Findings of a scan
are fixed in bulk by a background worker that charges the month's quota for
each.  A paid plan buys an app a database project of its own, and
its end lets the sweeper delete that project after a grace period.

What makes the parts correct: one holder per lock row and no row that blocks a
project for a loop that is over; nothing pushed that did not pass the gates;
nothing pushed twice, or after a skip or a rejection; a loop that says it
completed did push; every pipeline ends and no session stays in a running
state; the reaper never pauses a live phase; one revert per loop, and a
browser that is told only what happened; no finding paid for twice, no job
done that was not gone through, no running job without a worker; a breaker that
opens for its cooldown, probes after it and closes again; plans backed by
subscriptions, referrers rewarded once; nothing deleted that nobody asked to
delete, nothing billed that no row names.

## Modules

| Module | Models | Granularity |
|---|---|---|
| `Lease` | the abstract lock: a row per key, taken when free, dropped with cause | one step per change |
| `LoopLock` | `acquire_loop_lock`, `release_loop_lock`, and everything that takes, keeps, frees or breaks a row | one Mongo call per step |
| `LoopEngine` | one engine object, the requests that reach it, its pipeline and ship tasks, the two sweeps | from one await to a later one |
| `LoopShip` | one loop at its ship gate on several workers | one Mongo call per step |
| `PhaseBudget` | `_with_budget` against `resume_stale`, on a clock | one timer or emit per step |
| `LoopRollback` | rollback requests and tasks of a completed loop, the rings of the workers, the polling streams, the browser | one write, event or poll per step |
| `FixJobs` | fix jobs, their workers and rows, restarts, processes that crash, shut down and boot, the quota | one row write or charge per step |
| `CircuitBreaker` | the abstract breaker: closed, open for a cooldown, half open | one step per change |
| `Parliament` | `ParliamentCircuitBreaker` with all its callers, their LLM calls, semaphore, timeouts, cancellations | from one await to the next, on a clock |
| `PaidTier` | one user's subscriptions and referral; one app's database project and its sweeper | one Stripe, Mongo or Supabase call per step |
| `*_proofs` | theorems about `LoopLock`, `LoopEngine`, `LoopShip`, `PhaseBudget`, `LoopRollback`, `FixJobs`, `Parliament`, `PaidTier` | |
| `MC*` | model values, symmetry and constants for TLC | |

Two abstract specifications are implemented by detailed ones, by theorem and by
run:

- `LoopLock` implements `Lease`: `L == INSTANCE Lease WITH lock <- lock, over <-
  over, now <- now, …`; property and theorem are `L!Spec` (`LeaseSpec`).
- `Parliament` implements `CircuitBreaker`: `Promise == INSTANCE
  CircuitBreaker WITH state <- state, cool <- cool, Cooldown <- Cooldown`;
  property and theorem are `Promise!Spec` (`KeepsPromise`).

In both, the variables of the abstract module have the same meaning in the
detailed one, so the mapping is the identity on them, and everything else of the
detailed module stutters.

### How the models relate to the code

**LoopLock.**  `pc[s]` is where the start request of loop `s` stands in
`acquire_loop_lock` (`find`, `check`, `delete`, `insert`, `read`) and after it
(`locked`, `started`, `refused`, `rejected`).  `stamp` is the `now` captured at
its beginning, which becomes `acquired_at`.  `lock` is `loop_locks`, `sess`
is `loop_sessions.state` with the running states grouped as `working` and the
two idle ones as `waiting`, `est` what the engine object believes.  Actions that
end a loop come in two kinds, as in the code: those that call
`release_loop_lock` afterwards (`EndAndRelease`, then `Release`) and
those that never do (`EndAndKeep`: `_fail_ship` and a declined plan).  Any
Mongo call inside a `try` may fail (`faults`), the insert after its row was
written as well, and a worker may die at any point (`Crash`).  `over`, `won`,
`settled` and `skipped` are history variables; `skipped` names the starts whose
ghost sweep a Mongo error cut off, the one exception *SettledNeverBlocks* makes.

**LoopEngine.**  `est`, `phase`, `cancelled`, `handle`, `trust`, `files`,
`pending`, `commit` are fields of the engine; `sess`, `sphase`, `claimed`
fields of its row.  `Persist` is `_emit` (or `_persist_session` of `_doc`): the
whole context goes to the row, which is why it erases `ship_claimed_at`.
`pipe[p]` is a `_run_pipeline` task: its phase, its step in that phase, the
list of files it copied, restarts and heals so far; a verifier's "no" and a
touched test file pause the engine before the audit entry and write the row
after it (step `pausing`). There are several slots because `confirm()` awaits
between its state check and `create_task`, and because pause-response sets the
state that `confirm()` wants whatever the engine is doing.  `ship[t]` is a
`confirm_ship` task; nothing holds a reference to it, so `CancelPipeline` does
not stop it.  Files are version numbers: a generation, a heal or a submit makes
a new version; `FullScanHeals` rewrites the file objects in place, so every
list that shares them sees the new version.  `passed`, `pushed`,
`skipped`, `adopted` are history variables; `adopted` says that the loser of a
ship claim took over an error record, the one exception *CompletedMeansPushed*
makes.

**LoopShip.**  `row` is the session document, `eng` the engine objects and
`live` the `_LIVE` registry of each worker.  A request goes through
`lookup_or_rehydrate` (`Lookup`, `Rehydrate`, which reads the row, and
`Register`, after the credentials were fetched), the endpoint's checks, the
task's check, the claim, the SHIPPING emit, the narration, the push and the
record.  Cancels, crashes and `resume_stale` interleave with each of these.
`Init` allows each worker other than the first to have an engine copy of its
own already.

**PhaseBudget.**  `spent` is the time in the current attempt or backoff,
`quiet` the age of `loop_sessions.updated_at`.  `Emit` stands for every emit of
a phase and for its heartbeat; it is never *required* to happen, so a phase
whose heartbeats are lost is included.  The import-time `assert` on
`STALE_AFTER_S` is an ASSUME; `Lag` is how late a timer of a busy event loop may
fire, within the 60 s margin that assertion adds.

**LoopRollback.**  `rb`, `sha` and `last` are `rollback_status`, `rollback_sha`
and `last_event` of the row.  `Check` is everything `rollback_loop` does before
it fetches the project and the token, `Queue` its write after that; then
`run_rollback` step by step: `StartTask`, `Progress`, `Revert`, `SaveDone` or
`SaveFailed`, `Report`.  `SetFields` and `Emit` may lose their write, as the
`try` blocks of the code allow; `Revert` may land without an answer. `ring[w]`
is worker `w`'s replay buffer, whose positions are the sequence numbers
(without a gap, so that a replay is one batch of news).  `Open` is `GET
/stream` with `Last-Event-ID`: the replay from the local ring; `Poll` the loop
that follows when the engine is not in this process: it records the row's last
event in the local ring and sends it, when its state, phase and message
(`Event`) differ from what was last sent, and ends unless a rollback is in
flight.  No route and no step of the engine takes a loop that completed out of
`_LIVE`, so on the worker that shipped it `GET /stream` takes the live branch
first: `leftover[w]` is what the engine left in its queue there, and
`TakeLeftover` the branch that takes one such event, finds the engine in a
terminal state and ends the stream; with the queue empty the live branch waits
5 s and polls like the other.  `Receive` is the browser: it drops what has a
number it has passed, and does not reconnect once it has seen a terminal state.

**FixJobs.**  `row` is `fix_jobs`, `mem` and `home` the job in the `_JOBS` of its
process, `task` and `todo` the coroutine `_run_bulk_job`.  A request of
process `r` is `req[r]`: `BulkCheck` and `BulkStart`; `RestartRead`,
`RestartCreate`, `RestartMark` (or `RestartNothing`); `SingleCheck`,
`SingleApply`, `SingleCharge`.  A finding is attempted up to `MaxAttempts`
times (`ApplyOk`, `ApplyRetry`, `GiveUp`), reported (`ReportFix`, which
persists) and then charged (`ChargeFix`).  `Crash` loses a process; `Shutdown`
closes its jobs as orphaned first; `Boot` and `OrphanSweep` are its return,
and the sweep may fail, which the code logs and forgets.  `Evict` is `_gc`
dropping a job from a full `_JOBS`, running ones before closed ones (their
`closed_at` counts as 0): from then on `Note` (`emit`) and `Snapshot` record nothing new, while the
worker goes on fixing and charging.  `IdOf` is what the worker calls a finding:
its `id`, else its `rule_id`, else `f_<n>`; `Unnamed` are those of the third
kind, which `/restart` looks up as `None` and so never finds among the done
(`Remaining`).  `handled`, `charged`, `clean`, `parent`, `lossy`, `unswept`,
`crowded` are history variables: which findings a job went through or charged,
which restarts read a row whose worker had run and stopped with none of its
progress lost, which jobs had a write swallowed or were evicted, which running
rows nobody owned when a boot's sweep failed, and whether a request was ever
admitted beside unfinished or ungated work.

**Parliament.**  `state`, `fails`, `cool`, `probe` are the breaker's fields, with
clock readings turned into time left.  `Seen` is the property `state`, which
turns open into half open when read.  `Attempt` and `Refuse` are the two
answers of `should_attempt()`.  A run is a council vote and a judge,
perhaps a rescue, or the single call that replaces them while the breaker
refuses; a heal is a caller of its own, as `_llm_call_protected` serves both.
Each call waits for `_GLOBAL_LLM_SEM`, flies, and ends within
`TIMEOUT_PER_CALL` (`Answer`).  `Cancel` is a budget, a per-file timeout or a
user: nothing is recorded then, the probe flag included.  `trouble` is the
environment: while it holds calls may fail and callers be cancelled.

**PaidTier.**  `sub` and `ended` are what Stripe knows and has still to
deliver; `pay`, `tier`, `subId`, `referral` are the user's rows; `row` is the
`supabase_projects` row of the app, `live` and `moved` what Supabase has.
`task[t]` is a handler under way: what it does, where it stands, what it
carries from earlier reads (`snap` is the row it read).  A delivery or a poll
may come any number of times and at any moment after its cause.  A call that
creates, deletes or transfers a project, or moves the referrer's renewal, may
take effect and lose its answer (`CreateProject`, `DeleteProject`,
`MoveProject`, `ExtendReferrer`); the handler then goes the way of a failure.
`CopyBack` keeps only what the copy reports: rows, nothing, some errors, a
failure.  `late`, `rewards`, `slip`, `asked`, `stray` are history variables.

### Abstractions worth knowing

- In `LoopEngine` a change of the engine's fields and the write of the row that
  follows it are one step.  `LoopShip` and `LoopLock` split row access further.
- Narrations change nothing but the row's timestamp, except the one between the
  SHIPPING emit and the push, which is a step because a crash, a cancel
  or a second ship may come before it.  The stall detector that turns repeated
  narrations into an exception is part of `PipelineError`; inside
  `confirm_ship` it is left out.
- A retry is offered once the plan phase is over (that is when the interface
  shows the card), and the awaits that follow the last state change of a phase
  do not time out.
- When L3's `confirm_ship(True)` finds that another pipeline paused the
  engine meanwhile, the ship continues in the model as a task of its own.
- In `LoopRollback` only the worker that shipped may hold an engine whose queue
  has events left, at most `MaxLeft` of them: copies on other workers are idle
  and not in a terminal state, and an event of theirs does not end a stream.
  What such an event says was in the replay already, so the browser drops it.
  The ring's limit of 200 events and its time to live are left out.
- In `FixJobs` the order in which a worker takes its findings is free; tiers,
  batches, pacing and the drawer's events are left out.
- In `Parliament` the breaker's window of observations is left out: nothing
  decides by it.  The second breaker, in `shared/resilience`, is used by modules
  that are not modelled.
- In `PaidTier` the names of plans, the copied rows themselves, and
  `storage_tier`, which nothing reads, are left out.
- `db is None` (development without Mongo: every lock granted, nothing
  persisted) is left out everywhere.
- Chat turns, audit rows and token accounting are left out.

## Runs

| Run | Instance | What it shows |
|---|---|---|
| `LoopLock` | 2 loops on 1 key, `LockStale` 1, clock to 2, 1 fault | `TypeOK`, `HolderKeepsLock`, `LockExclusion`, `SettledNeverBlocks`, and that it implements `Lease` |
| `LoopEngine` | 2 pipelines, 2 ship tasks, L3, 1 heal of each kind, 4 requests, 2 versions, no sweeps | `PushedPassedGates`, `CompletedMeansPushed` |
| `LoopEngineLive` | 1 pipeline, 2 ship tasks, all trust levels, 1 restart, 1 heal of each kind, 3 requests, 2 versions, sweeps, fairness | `TypeOK`, `SkipStopsLaterShips`, `PipelineEnds`, `RunningComesToRest` |
| `LoopShip` | 2 workers, 3 engine objects, 2 requests, 1 crash, fairness | `TypeOK`, `LateRequestNeverPushes`, `ShippingComesToRest` |
| `PhaseBudget` | budgets 7, 6, 3, 2, backoff 1, 1 restart, threshold 9, lag 1, fairness | `TypeOK`, `ReaperSparesPhases`, `PhaseIsBounded`, `RunningComesToRest` |
| `FixJobs` | 2 processes, 2 jobs, 2 findings (one without an id), 3 requests, cap 2, 2 attempts, 1 fault | `TypeOK`, `NoDoubleCharge`, `DoneMeansHandled`, `QuotaHolds`, `RunningRowIsOwned`, `SupersededStays` |
| `LoopRollback` | 2 workers, 2 requests, 1 browser with 2 connections, 1 event left in the queue, 1 cut, 1 fault | `TypeOK`, `OneRevertUnlessRaced`, `EndIsTrue`, `HeldWhileInFlight` |
| `Parliament` | 2 runs, councils of 2, threshold 3, timeout 1, cooldown 2, 2 calls at once, rescue on, fairness | `TypeOK`, `ProbeIsAlive`, `RunsEnd`, `Recovers`, and that it implements `CircuitBreaker` |
| `PaidProject` | 2 handlers at once, 1 session, 2 projects, all three policies that differ, 2 sweep attempts, 1 fault | `TypeOK`, `NoOrphan`, `SweptWasAsked` |
| `PaidBilling` | 3 handlers at once, 2 sessions, a referred user, 1 fault | `PaidIsBacked`, `RewardedOnce` |

Several properties have an exception written into them (*unless raced*, *lossy*,
*unswept*, *Unnamed*, *clean*, *crowded*, *late*, *skipped*, *adopted*, *slip*,
*stray*).  Each stands for something the
code really leaves open, and the property says that nothing else does: the
exception is a history variable that is set only by the step that opens
the gap, or (*Unnamed*, *leftover*) names the thing that falls into it.

Two runs each check one sentence of the repository that the code does not keep;
TLC finds the behaviour (see *findings* in `PROJECT.json`):

| Run | The sentence | What happens |
|---|---|---|
| `V_OnlyTheWinnerPushes` | `confirm_ship`: only the winner of the claim may push | the winner's own emit erases its claim, a second worker claims and pushes too |
| `V_DeletedOnlyIfCopied` | `supabase_sweeper.py`: verify that the reverse migration succeeded before the destructive delete | a copy that failed outright, or copied nothing but errors, counts as nothing to copy |

### Why these bounds

The lock's conflicts are between the holder of a row and one request at a time;
a second loop, a threshold of one tick and a clock of two reach every order of
"stale", "over" and "fresh", and the theorems cover the rest.  Two pipelines on
one engine need two requests (a double confirm, or a confirm and a retry); the
requests after them ship, skip or cancel, and with four requests and two ship
tasks the run reaches the loser of a claim that adopts an error record.  It
leaves the sweeps out (`Sweeps`), which write nothing but the row's state and
the registry; the run with one pipeline has them, and so do the theorems.  Two
versions are enough for "the gates saw one, the push another".  One restart and
one heal round reach both sides of each counter (the code has 1 restart, 2
self-heals and 3 scan heals).  In `LoopShip`, three engine objects allow one
per worker and one rebuilt after an eviction or a crash.

In `FixJobs` a job and its restart are the two jobs; the third request is a
second restart of the first or a single fix; two findings allow one to be
charged and one to be left, one of them without an id, and a bulk asks for both
or for the other one alone; the theorems cover findings that share an id, and
restarts of restarts. A rollback race needs two requests; a browser needs a
second connection to change workers.  In `Parliament` a council of two with the
other run's calls exceeds the semaphore of two, three failures take answers of
both runs, and a cooldown longer than a timeout lets late answers arrive in
every state.  A project needs a second one to be mistaken for; `read_only`
takes the path of a `migrate_back` that passed its verification and is not a
policy of its own in the instance.  The two billing handlers that overlap and
the poll are the three of `PaidBilling`.

`MaxTime`, `MaxFaults`, `MaxOps`, `MaxVer`, `MaxCrashes`, `MaxRequests`,
`MaxJobs`, `MaxConnects`, `MaxDrops`, `MaxLeft` are the only bounds on counters
(a bulk or a restart is accepted while a job number is left for it), and
`Tasks` and `Requests` of `PaidTier` on how many handlers of which kinds are
under way at once (not on how many there are over time).

Deadlock is checked for `PhaseBudget` only, whose clock never stops; in the
others a loop that is over with its user requests used up, or a job, a
rollback, a plan that is finished, has nothing left to do.

### Fairness

`LoopEngine!Fairness`: asyncio resumes every ready task; the awaits inside a
phase are bounded by its budget and those of a ship by GitHub's 60 s timeouts;
housekeeping ticks every minute.  Users are not fair: nobody must confirm,
retry or ship.  `LoopShip!FairSpec`: a request under way is served unless its
worker dies, and `resume_stale` runs.  `PhaseBudget!FairSpec`: time passes,
timers fire, the sweep runs; the phase body owes nothing.  These use weak
fairness only.  `Parliament!Fairness`: time passes, the event loop runs what is
ready, `wait_for` ends a call that is out of time; and strong fairness for a
run's calls that wait for the semaphore, because asyncio's semaphore serves
its waiters first come, first served, so that a waiter is passed over only
finitely often.  The provider owes nothing: `Recovers` is conditional on its
staying well and on runs that keep coming.

## Proofs

`LoopLock_proofs` proves for any number of loops and keys, any `LockStale`,
and without the bounds' values mattering:

- `TypeCorrect`, `HolderKeeps`, `Exclusion`, `SettledLoopsDoNotBlock`:
  `Spec => []Inv` for the invariants of the run;
- `ImplementsLease`: `Spec => L!Spec`.

*HolderKeepsLock* is not inductive.  What is missing is what rows look like: a
row in `lock[k]` was inserted by a loop of key `k`, with that loop's own stamp,
by an insert that happened; and stamps never lie in the future (`RowInv`).
What a request read (`seen`, `forced`) needs less: the ghost delete and the
release name the loop they delete, and a request reaches the ghost delete only
for a loop whose session was terminal, which therefore is in `over` for good;
force-release deletes blindly but declares over whatever it deletes.
*LockExclusion* follows the moment of insertion: the later of the two found the
key free, so by *HolderKeepsLock* the earlier row had outlived `LockStale` by
then, and `won` remembers that time.  *SettledNeverBlocks* follows a request
through its steps: past a ghost sweep that ran to its end, no loop of
`settled[s]` can own the row; it never comes back because loops insert once.
The exception is real: `acquire_loop_lock` swallows a Mongo error of the sweep
(`loop_safety.py:177-178`), and the insert then collides with the ghost row, so
that start is refused with a 409 naming a loop that is long over.  The
refinement maps each action to `Take`, `Drop`, `DeclareOver`, `Pass` or a
stutter, and `Drop`'s cause is the one *HolderKeepsLock* needs.

`PhaseBudget_proofs` proves `TypeCorrect`, `ReaperSpares` and
`PhaseBounded` for any phases, budgets and thresholds that satisfy the two
assumptions.  The strengthening for the reaper is that the age of the row is at
most the time spent in the attempt, and that is at most its limit plus the
lag, which the assumption puts below the threshold.  For the bound it is
that the elapsed time is at most what the completed attempts and backoffs
could have cost plus the time spent in this one.

`Parliament_proofs` proves `TypeCorrect`, `ProbeAlive` and `Refinement` for any
number of runs, council, threshold, timeout, cooldown and semaphore.
*ProbeIsAlive* says that some call of the probe is out; the inductive form
(`ProbeOut`) is that *none* of its calls has been answered yet, because any
answer of anybody takes the flag away (`RecordOK`), a run that may attempt finds
no other probe (`AttemptOK`), and a run moves on from its vote only with all
its answers in.  The refinement has one lemma for reads and one for records,
and the types (`fails < Threshold` while closed) decide which abstract step a
record is.

`LoopEngine_proofs` proves `TypeSafety`, `GateSafety`, `CompletionSafety` and
`SkipSafety` for any number of pipelines, ship tasks, requests, versions and
rounds.  For *PushedPassedGates* the invariant follows the content from the
gates to GitHub: a pipeline between the gates holds a copy that passed the first
(`TaskInv`), what `pending` offers passed both (`FileInv`), and a ship task past
its check copied it while it was offered (`ShipTaskInv`); `files` itself
promises nothing, because retries and in-place heals change it under a running
pipeline.  *CompletedMeansPushed* needs that a commit
record is an error or on GitHub, and that a state that says the ship completed
goes with such a record, an error only if a loser adopted it; the row is a second
copy with the same obligation (`StateInv`).
*SkipStopsLaterShips* rests on three facts that hold together after a skip:
the engine is cancelled, nothing is offered, and no pipeline is inside SHIP, so
that `_should_stop` keeps every pipeline, present or future, out of it
(`SkipInv`).

`LoopShip_proofs` proves `TypeSafety` and `LateRequestSafety` for any workers,
engine copies, requests and crashes.  One half of the invariant says that an
engine object lives in one process: registries and requests that name it are on
that worker (`HomeInv`).  The other says that once the ship is done the row
never reads paused again, so that nobody rebuilds a paused engine from it, and
that a request is then over, or still looking, or faced with an engine that is
not paused (`DoneInv`).

`FixJobs_proofs` proves `TypeSafety`, `ChargeSafety`, `DoneSafety`,
`QuotaSafety`, `OwnerSafety` and `SupersededSafety` for any processes, jobs,
findings (of shared ids, or of none), attempts, requests and faults.  The
invariant has a part per job and a part for restarts.  Per job: what the memory
or the row records was gone through, and the row never runs ahead of the memory
of a job that is alive (`ProgressInv`); a finding the worker has not gone
through is still on its list (`ListInv`); a fix that is charged, or about to
be, is in the memory and, unless its progress was lost, in the row
(`ChargeInv`: the order of `ReportFix` and `ChargeFix`).  For restarts: a
restart that read the row of a job that had run and stopped works on what that
row says is left, and since nothing writes a stopped job's progress any more
the row says so for good (`RestartInv`). `NoDoubleCharge` follows: what the
parent charged is in its row, what the child works on is not, unless it is a
finding without id and rule_id.  For the quota: until a request is admitted
beside others, at most one request or one job holds a claim, and the count plus
that claim is within the cap (`QuotaInv`).  *RunningRowIsOwned* is a part of
the invariant as it stands; its exceptions are real too:
`mark_running_orphaned` returns 0 when its update fails
(`fix_job_manager.py:348-350`) and the process comes up all the same.

`LoopRollback_proofs` proves `TypeSafety`, `NoSecondRevert`, `EndSafety` and
`HeldSafety` for any workers, requests, browsers, connections and faults.  For
the second revert the strengthening has a part about the row, which never says
`none` again once a request was queued, whatever writes are lost (`RowInv`), and
a part about requests that did not race: at most one is between its check
and its end, and while one is before its revert no revert has been made
(`AloneInv`).  For the browser it is that either the revert has landed and is
recorded (or its write lost), which stays so, or nobody says so: no ring of any
worker, no row, no browser holds the end of a success, and no task is about to
write one (`EndInv`).  A stream is held for a rollback the row goes on
knowing of (`WatchInv`), so that a poll that closes it has read a result; the
one other close by the server is an event left in the queue of a terminal engine.

`PaidTier_proofs` proves `TypeSafety`, `PlansAreBacked`, `OneReward`,
`OrphanSafety` and `SweepSafety` for any sessions, projects and handlers at
once.  For the plan the invariant relates the handlers to the user: a handler
that has reset a session finds the plan gone, or granted after the reset
(`PlanInv`).  For the reward: at most one handler is between reading a pending
referral and recording the reward, and a referral is pending after an
extension only while its handler is about to record it (`RewardInv`); what the
project's handlers carry does not matter there, so `TaskTypes` leaves their types
open.  For the project it is what they carry that matters (`Carried`): a
sweep has read a row in its queue, for whose project a downgrade was asked; a
handler about to record a project created it; a project about to be cleared from
its row exists no more.  With that *NoOrphan* is inductive.

The assumptions are those of the modules: bounds are natural numbers (attempts
at least one), the values that stand for "none" are not also members of the set
they are none of, sets whose members are counted or chosen from are finite, and for
`PhaseBudget` the import-time assertion of the code.  TLC evaluates them in the
runs.

Two properties that TLC had passed turned out to be false when their proofs were
attempted, and are stated now with the exception the code leaves:
*SkipStopsLaterShips* (with two pipelines the second one may be inside SHIP when
the user skips; the run that checks it has one) and *NoDoubleCharge* (with three
jobs, a restart of a restart that has not started yet finds a row without
progress and repeats the work; the run has two).

Checked by TLC only: liveness (`PipelineEnds`, both `RunningComesToRest`,
`ShippingComesToRest`, `RunsEnd`, `Recovers`), which needs fairness and ENABLED,
beyond this prover.

## Seen while modelling, without a run

Disagreements between a sentence and the code, for which no run is kept:

- `loop_engine.py:2368-2370`, the docstring of `_do_ship`: the loop is COMPLETED
  only "after the GitHub API returns a real commit_sha".  The loser of a ship
  claim (`:2875-2886`) adopts whatever commit record it finds, a failed ship's
  `{"error": …}` included, and emits COMPLETED.  *CompletedMeansPushed* keeps that
  adoption as its one exception, and the run `LoopEngine` reaches it.
- `loop_rollback.py:24-30` and `routers/loop.py:616-620`: the engine has
  deregistered itself once a loop completed, so the live queue "is NOT available
  for rollback".  Nothing calls `deregister` there; on the worker that shipped,
  an event left in the queue ends a stream in the middle of the rollback
  (`routers/loop.py:571-574`).  *HeldWhileInFlight* keeps it as its exception.
- `loop_safety.py:15`, at most one active loop per project: the lock row
  is never renewed (`:142`), so a loop of more than 15 minutes is joined by
  a second.  `LockExclusion` states what does hold.
- `loop_engine.py:324`, the expiry sweep releases the lock: the call
  (`:362`) lacks `loop_id`, and the TypeError is swallowed.
- `trust_level.py:18`, L3 commits straight away: `confirm_ship` refuses a
  SHIPPING engine (`loop_engine.py:2768`) and the loop fails.
- `loop_engine.py:2867`, skip does not commit: a ship task that is past its check
  (`:2799`) pushes all the same, and a second pipeline that is inside SHIP by
  then opens the gate again, since nothing after `:765` looks at `_cancelled`.
  `SkipStopsLaterShips` states what does hold.
- A "no" from the verifier leaves an earlier pass's `ship_pending`
  (`loop_engine.py:2634`), and confirm-ship accepts it.
- `parliament.py:171`, OPEN stays for the cooldown: `record_success` of a late
  answer closes it from OPEN as well (`:239`), and the "one probe" is a whole
  council.  `CircuitBreaker` is the promise without these two.
- `loop_engine.py:2340` calls `_parl.heal(...)`, which class `Parliament` does not
  have; the AttributeError is swallowed and only the architecture markers heal.

And what contradicts no sentence that could be quoted:

- *Loop.*  A cancel during PLAN is undone when the plan arrives; the second
  write of `/cancel` turns a loop that completed meanwhile into an aborted one;
  a ship whose worker died right after its claim is rescued to
  paused, but the claim in its row makes every later ship a no-op; a full-scan
  heal changes content that VERIFY already linted; a loop whose worker dies in
  PLANNING is rescued by no sweep; a session that the expiry sweep ended blocks
  its project until the row is 15 minutes old.
- *Rollback and streams.*  The event dicts have no `ts`, so a poll tells events
  apart by state, phase and message alone; sequence numbers of another worker
  make the browser drop what it has not seen; two pollers on one worker record
  the same event twice; a poll between the write of `done` and the last event
  ends the stream before the browser has heard of the end; a worker that dies
  leaves `queued` or `running` for good and every later rollback is refused.
- *Fix jobs.*  A restart passes no quota check; bulks that overlap overrun the
  cap; two restarts of one job put two workers on the same findings, and so does a
  restart of a restart whose worker has not started yet; a worker
  that was still alive overwrites `restarted` when it closes; the boot of one
  process orphans the live jobs of others; a retry after a lost answer commits
  twice; failures that are not terminal cannot be restarted once the job says
  done; a finding with neither id nor rule_id is recorded as `f_<n>`
  (`fix_pipeline.py:359`) but looked up as `None` (`:816`), so that every restart
  fixes and charges it again; a boot sweep that fails leaves running rows
  that nobody closes; a running job dropped from a full `_JOBS` goes on charging
  without a record; scanner findings that have only a `rule_id` share it, and a
  restart drops a finding nobody attempted when another of the same rule was done
  (`fix_pipeline.py:814-819`).
- *Paid tier.*  Nothing clears `downgrade_pending` when a user subscribes again,
  so that a paying user's project is deleted; provision answers
  `already_done` for a pending row; `export_artifact_url` is never written, so
  `export_delete` always ends with the founder; the `existing == 0` check passes
  on the app's own documents; an exception in the copy loses the
  downgrade; a late poll or event grants a cancelled plan again; two
  deliveries that overlap, or a crash or a lost answer of Stripe between the
  extension and its record, reward a referrer twice;
  `free_month_pending_upgrade` is never granted; `delete_one` is by app, so that
  a project provisioned during a sweep loses its row; projects that were
  transferred are still swept; `keep_bill_user` rows stay pending.

## Not modelled, and the plan

Done: the lock, engine, ship, budgets, rollback and streams, fix jobs and
quota, the breaker, the paid tier, with proofs of what the runs check of their
safety.  Next:

1. Abstract specifications of a rollback (one revert per loop, and its report)
   and of a fix job's ledger (each finding paid for once along a chain of
   restarts), and that `LoopRollback` and `FixJobs` implement them under the
   conditions their theorems name.
2. The live branch of `GET /stream` for a loop that still runs (several browsers
   share one queue), beside what a shipped loop leaves there.
3. The breaker of `shared/resilience` as a second implementation of
   `CircuitBreaker`.
4. Token revocation: epochs behind a cache with a time to live; the loop failure
   circuit's window of counts.

Left out for good:

- LLM generation, lint, scanners, the verifier and the GitHub writer are the
  environment of the pipeline: any verdict or failure they can return is a
  choice of the models.
- The bulk of the backend by size (`routers/admin.py`, `cto_projects.py`,
  `chat.py`, `mcp.py`, `services/orchestrator.py`, `local_tools.py`, `llm.py` and
  their neighbours) mostly answers one request at a time with reads and writes
  of single Mongo rows, prompts, text heuristics and calls to third parties.  A
  model of an endpoint that reads a row and writes it back would restate it:
  there is hardly a second actor, an order of steps or a state that outlives
  the request about which a property could be wrong.  This is why the models
  cover a small share of the lines.  Races of two such requests on one row were
  not looked for there.
- The frontend and the VS Code extension are the environment: any request they
  can send, at any moment, is a choice of the models.

----------------------------- MODULE PhaseBudget ----------------------------
(***************************************************************************)
(* The clock of a loop: _with_budget of services/loop_engine.py (timeout,  *)
(* one auto-restart after a backoff, heartbeat) against resume_stale, the  *)
(* housekeeping sweep that pauses a running session once its row has been  *)
(* quiet for STALE_AFTER_S.  LoopEngine has the same phases without time.  *)
(*                                                                         *)
(* Phases run in the order 1..Phases.  What a phase does is left open:     *)
(* at any moment it may emit an event, return, pause or fail.              *)
(***************************************************************************)
EXTENDS Integers

CONSTANTS Phases,      \* execute, verify, scan, ship
          Budget,      \* PHASE_TIMEOUTS_S of each phase
          Backoff,     \* sleep before the restart
          MaxRestarts, \* MAX_PHASE_RESTARTS
          StaleAfter,  \* STALE_AFTER_S
          Lag          \* how late a timer of the event loop may fire

ASSUME PhaseBudgetAssumption ==
    /\ Phases \in Nat \ {0}
    /\ Budget \in [1..Phases -> Nat \ {0}]
    /\ Backoff \in Nat /\ MaxRestarts \in Nat
    /\ StaleAfter \in Nat /\ Lag \in Nat

\* The import-time assert on STALE_AFTER_S, with room for Lag: the code adds
\* 60 s to the largest budget, and every backoff is shorter than that.
ASSUME StaleAfterAssumption ==
    /\ \A n \in 1..Phases : Budget[n] + Lag < StaleAfter
    /\ Backoff + Lag < StaleAfter

VARIABLES n,        \* the phase
          at,       \* "phase", "backoff", "stopped" or, after a crash, "dead"
          tries,    \* restarts of this phase so far
          spent,    \* time in this attempt or backoff
          elapsed,  \* history: time since this phase was first entered
          quiet,    \* age of loop_sessions.updated_at
          sess      \* loop_sessions.state: "running", "paused" or "over"

vars == <<n, at, tries, spent, elapsed, quiet, sess>>

Init ==
    /\ n = 1 /\ at = "phase" /\ tries = 0
    /\ spent = 0 /\ elapsed = 0 /\ quiet = 0
    /\ sess = "running"

Live  == at \in {"phase", "backoff"}
Limit == IF at = "phase" THEN Budget[n] ELSE Backoff

\* Any emit or persist of the phase, its heartbeat included: the row shows
\* the running state and is fresh again.
Emit ==
    /\ at = "phase"
    /\ quiet' = 0
    /\ sess' = "running"
    /\ UNCHANGED <<n, at, tries, spent, elapsed>>

\* The phase returned and _should_stop is false.
NextPhase ==
    /\ at = "phase" /\ n < Phases
    /\ n' = n + 1
    /\ tries' = 0 /\ spent' = 0 /\ elapsed' = 0
    /\ quiet' = 0
    /\ sess' = "running"
    /\ UNCHANGED at

\* The phase paused, failed or completed the loop.
Stop ==
    /\ at = "phase"
    /\ at' = "stopped"
    /\ sess' \in {"paused", "over"}
    /\ quiet' = 0
    /\ UNCHANGED <<n, tries, spent, elapsed>>

\* Variant: one restart too many.
ExtraRestart ==
    /\ at = "phase"
    /\ spent >= Budget[n]
    /\ IF tries <= MaxRestarts
       THEN /\ at' = "backoff"
            /\ tries' = tries + 1
            /\ spent' = 0
            /\ sess' = "running"
       ELSE /\ at' = "stopped"
            /\ sess' = "over"
            /\ UNCHANGED <<tries, spent>>
    /\ quiet' = 0
    /\ UNCHANGED <<n, elapsed>>

\* asyncio.wait_for gives up.
TimeOut ==
    /\ at = "phase"
    /\ spent >= Budget[n]
    /\ IF tries < MaxRestarts
       THEN /\ at' = "backoff"
            /\ tries' = tries + 1
            /\ spent' = 0
            /\ sess' = "running"
       ELSE /\ at' = "stopped"
            /\ sess' = "over"
            /\ UNCHANGED <<tries, spent>>
    /\ quiet' = 0
    /\ UNCHANGED <<n, elapsed>>

\* The backoff is over; the phase body starts with an emit.
Restart ==
    /\ at = "backoff"
    /\ spent >= Backoff
    /\ at' = "phase"
    /\ spent' = 0 /\ quiet' = 0
    /\ sess' = "running"
    /\ UNCHANGED <<n, tries, elapsed>>

\* The worker dies.
Crash ==
    /\ Live
    /\ at' = "dead"
    /\ UNCHANGED <<n, tries, spent, elapsed, quiet, sess>>

\* Variant: the sweep has a threshold below the largest budget.
StaleBelowBudget ==
    /\ sess = "running"
    /\ quiet > StaleAfter - 2
    /\ sess' = "paused"
    /\ quiet' = 0
    /\ UNCHANGED <<n, at, tries, spent, elapsed>>

\* Variant: the sweep has no SHIPPING in its list of states.
ForgetsShipping ==
    /\ sess = "running" /\ n < Phases
    /\ quiet > StaleAfter
    /\ sess' = "paused"
    /\ quiet' = 0
    /\ UNCHANGED <<n, at, tries, spent, elapsed>>

\* resume_stale.
ResumeStale ==
    /\ sess = "running"
    /\ quiet > StaleAfter
    /\ sess' = "paused"
    /\ quiet' = 0
    /\ UNCHANGED <<n, at, tries, spent, elapsed>>

\* Time passes; a live attempt overruns its limit by at most Lag.  The age
\* of the row is counted no further than the sweep can tell.
Tick ==
    /\ Live => spent < Limit + Lag
    /\ quiet' = IF quiet > StaleAfter THEN quiet ELSE quiet + 1
    /\ spent' = IF Live THEN spent + 1 ELSE spent
    /\ elapsed' = IF Live THEN elapsed + 1 ELSE elapsed
    /\ UNCHANGED <<n, at, tries, sess>>

Next == \/ Emit \/ NextPhase \/ Stop \/ TimeOut \/ Restart \/ Crash
        \/ ResumeStale \/ Tick

Spec == Init /\ [][Next]_vars

\* The clock advances, timers fire, and housekeeping runs every minute.  A
\* phase body owes nothing.
FairSpec == Spec /\ WF_vars(Tick) /\ WF_vars(TimeOut) /\ WF_vars(Restart)
                 /\ WF_vars(ResumeStale)

-----------------------------------------------------------------------------
TypeOK ==
    /\ n \in 1..Phases
    /\ at \in {"phase", "backoff", "stopped", "dead"}
    /\ tries \in 0..MaxRestarts
    /\ spent \in Nat /\ elapsed \in Nat /\ quiet \in Nat
    /\ sess \in {"running", "paused", "over"}

\* STALE_AFTER_S: "the resume_stale reaper can kill a legitimately-progressing
\* phase" unless it exceeds every budget.  With the import-time assert, the
\* reaper never pauses the session of a live attempt, its restarts and
\* backoffs included, even if no heartbeat gets through.
ReaperSparesPhases == Live => sess = "running"

\* MAX_PHASE_RESTARTS: a phase that keeps timing out costs at most one budget
\* per attempt and one backoff per restart.
WorstCase == (MaxRestarts + 1) * (Budget[n] + Lag) + MaxRestarts * (Backoff + Lag)
PhaseIsBounded == Live => elapsed <= WorstCase

\* A session that shows a running phase comes to rest, whether its phase
\* ends, keeps timing out or died with its worker.
RunningComesToRest == sess = "running" ~> sess # "running"
=============================================================================

------------------------------ MODULE FixJobs ------------------------------
(***************************************************************************)
(* Fix jobs: POST /fix-pipeline/bulk starts a background worker that fixes *)
(* findings one by one (apply_finding_fix commits to a fix branch), keeps  *)
(* its progress in the process and in a fix_jobs row, and charges one task *)
(* of the monthly quota per successful fix; POST /restart starts another   *)
(* worker on what the row says is left; the single-finding /fix endpoints  *)
(* share the quota.  Several server processes share the database; they     *)
(* crash, shut down and boot.                                              *)
(*                                                                         *)
(* Abstracted: the SSE events, batching, pacing, tiers and the patch       *)
(* itself (an attempt succeeds or fails, whatever GitHub took of it).      *)
(***************************************************************************)
EXTENDS Integers, FiniteSets

CONSTANTS Workers,      \* server processes, each with at most one request in flight
          MaxJobs,      \* bound: jobs ever created
          MaxRequests,  \* bound: requests ever sent
          Findings,     \* findings of the project
          Ids,          \* finding ids
          IdOf,         \* what the worker calls a finding: f["id"], else
                        \* f["rule_id"] (findings of one rule share it), else "f_<index>"
          Unnamed,      \* findings with neither, which only the worker has a name for
          Batches,      \* bound: the lists of findings a bulk request may ask for
          Cap,          \* tasks of the month
          MaxAttempts,  \* _MAX_FIX_ATTEMPTS
          MaxFaults,    \* bound: crashes, shutdowns, lost writes and answers,
                        \* exceptions, failed sweeps, evictions
          NoRow,        \* no fix_jobs row a reader can find
          NoOne         \* no worker, no finding

Jobs == 1 .. MaxJobs

Statuses == {"running", "done", "failed", "orphaned", "restarted"}
Row      == [status : Statuses, all : SUBSET Findings,
             done : SUBSET Ids, term : SUBSET Ids]

ASSUME FixConstants == /\ IdOf \in [Findings -> Ids] /\ IsFiniteSet(Findings)
                       /\ Unnamed \subseteq Findings /\ Batches \subseteq SUBSET Findings
                       /\ Cap \in Nat /\ MaxFaults \in Nat /\ MaxRequests \in Nat
                       /\ MaxAttempts \in Nat \ {0} /\ MaxJobs \in Nat
                       /\ NoRow \notin Row /\ NoOne \notin Workers

VARIABLES row,      \* fix_jobs, by job
          mem,      \* _JOBS: completed_ids and failed_terminal_ids of each job
          home,     \* the process that runs the job
          evicted,  \* jobs _gc has dropped from a full _JOBS while they ran
          task,     \* the worker coroutine of each job
          todo,     \* findings its loop has still to go through
          proc,     \* state of each process
          sent,     \* requests sent so far
          req,      \* requests in flight
          used,     \* scan_fix_usage.count
          handled,  \* ghost: findings each job's loop has finished with
          charged,  \* ghost: findings each job charged
          clean,    \* ghost: restarts of a job that had run and stopped by the read
          parent,   \* ghost: job each job restarts, or 0
          lossy,    \* ghost: jobs whose progress a swallowed _persist or _gc lost
          unswept,  \* ghost: running rows nobody owned when a boot's sweep failed
          crowded,  \* ghost: a request was admitted beside unfinished or ungated work
          faults

jobVars   == <<row, mem, home, task, todo, evicted>>
ghostVars == <<handled, charged, clean, parent, lossy, unswept, crowded>>
vars == <<jobVars, proc, req, sent, used, ghostVars, faults>>

NoProgress == [done |-> {}, term |-> {}]
NoTask   == [pc |-> "none", f |-> NoOne, att |-> 0]
Idle     == [pc |-> "idle", fs |-> {}, old |-> 0, new |-> 0, sane |-> FALSE]

Live(j)   == task[j].pc \in {"next", "report", "charge"}
Owned(j)  == Live(j) \/ \E r \in Workers : req[r].pc = "mark" /\ req[r].new = j
Up(w)     == proc[w] # "down"
Fresh     == {j \in Jobs : home[j] = NoOne /\ task[j] = NoTask}
NextJob   == CHOOSE j \in Fresh : TRUE
StatusOf(x) == IF x = NoRow THEN "none" ELSE x.status
Admitted  == \E r \in Workers : req[r].pc \in {"bulk", "single", "paid"}

\* The bound on jobs: a number is left for a request that will create one.
Creating  == {r \in Workers : req[r].pc \in {"bulk", "restart"} /\ req[r].fs # {}}
JobLeft   == Cardinality(Creating) < Cardinality(Fresh)

Init ==
    /\ row = [j \in Jobs |-> NoRow]
    /\ mem = [j \in Jobs |-> NoProgress]
    /\ home = [j \in Jobs |-> NoOne]
    /\ task = [j \in Jobs |-> NoTask]
    /\ todo = [j \in Jobs |-> {}]
    /\ proc = [w \in Workers |-> "up"]
    /\ req = [r \in Workers |-> Idle]
    /\ used = 0 /\ sent = 0
    /\ handled = [j \in Jobs |-> {}]
    /\ charged = [j \in Jobs |-> {}]
    /\ clean = {} /\ lossy = {} /\ unswept = {} /\ crowded = FALSE
    /\ evicted = {}
    /\ parent = [j \in Jobs |-> 0]
    /\ faults = 0

-----------------------------------------------------------------------------
\* _persist: the write of a snapshot, swallowed when Mongo fails.  A row whose
\* first write was lost has no user_id: no reader finds it later.
Persist(j, snapshot) ==
    \/ /\ row' = [row EXCEPT ![j] = IF @ = NoRow THEN NoRow ELSE snapshot]
       /\ UNCHANGED <<lossy, faults>>
    \/ /\ faults < MaxFaults
       /\ faults' = faults + 1
       /\ lossy' = lossy \cup {j}
       /\ UNCHANGED row

\* persist_event: progress only, the status field is left alone.
Snapshot(j, m) == [row[j] EXCEPT !.done = m.done, !.term = m.term]

NewRow(fs) == [status |-> "running", all |-> fs, done |-> {}, term |-> {}]

\* create_job, then asyncio.create_task when start holds.
CreateJob(w, j, fs, start) ==
    /\ home' = [home EXCEPT ![j] = w]
    /\ todo' = [todo EXCEPT ![j] = fs]
    /\ task' = [task EXCEPT ![j].pc = IF start THEN "next" ELSE "none"]
    /\ \/ /\ row' = [row EXCEPT ![j] = NewRow(fs)]
          /\ UNCHANGED <<lossy, faults>>
       \/ /\ faults < MaxFaults
          /\ faults' = faults + 1
          /\ lossy' = lossy \cup {j}
          /\ UNCHANGED row
    /\ UNCHANGED <<mem, evicted>>

Reply(r) == req' = [req EXCEPT ![r] = Idle]

Accept(r, x) ==
    /\ req[r].pc = "idle" /\ Up(r)
    /\ sent < MaxRequests
    /\ sent' = sent + 1
    /\ req' = [req EXCEPT ![r] = x]

-----------------------------------------------------------------------------
\* POST /bulk: assert_can_fix reads the quota, nothing is reserved.
BulkCheck(r, fs) ==
    /\ fs # {} /\ Cardinality(fs) <= Cap - used /\ JobLeft
    /\ Accept(r, [Idle EXCEPT !.pc = "bulk", !.fs = fs])
    /\ crowded' = (crowded \/ Admitted \/ \E j \in Jobs : Live(j))
    /\ UNCHANGED <<jobVars, proc, used, handled, charged, clean, parent, lossy, unswept, faults>>

BulkStart(r) ==
    /\ req[r].pc = "bulk" /\ Up(r) /\ Fresh # {}
    /\ CreateJob(r, NextJob, req[r].fs, TRUE)
    /\ Reply(r)
    /\ UNCHANGED <<proc, sent, used, handled, charged, clean, parent, unswept, crowded>>

\* Variant: off by one, the last task is handed out twice.
SingleCheckLate(r) ==
    /\ used <= Cap
    /\ Accept(r, [Idle EXCEPT !.pc = "single"])
    /\ crowded' = (crowded \/ Admitted \/ \E j \in Jobs : Live(j))
    /\ UNCHANGED <<jobVars, proc, used, handled, charged, clean, parent, lossy, unswept, faults>>

\* POST /security-scan/fix and /codebase-health/fix: check, apply, charge.
SingleCheck(r) ==
    /\ used < Cap
    /\ Accept(r, [Idle EXCEPT !.pc = "single"])
    /\ crowded' = (crowded \/ Admitted \/ \E j \in Jobs : Live(j))
    /\ UNCHANGED <<jobVars, proc, used, handled, charged, clean, parent, lossy, unswept, faults>>

SingleApply(r) ==
    /\ req[r].pc = "single" /\ Up(r)
    /\ req' = [req EXCEPT ![r].pc = "paid"] \/ Reply(r)
    /\ UNCHANGED <<jobVars, proc, sent, used, ghostVars, faults>>

SingleCharge(r) ==
    /\ req[r].pc = "paid" /\ Up(r)
    /\ \/ used' = used + 1 /\ UNCHANGED faults
       \/ faults < MaxFaults /\ faults' = faults + 1 /\ UNCHANGED used
    /\ Reply(r)
    /\ UNCHANGED <<jobVars, proc, sent, ghostVars>>

\* POST /restart/{job_id}: the row is read, the remaining findings computed.
\* A finding without id and rule_id is looked up as None, so it always remains,
\* although the worker recorded it under a name of its own ...
Remaining(x) == {f \in x.all : f \in Unnamed \/ IdOf[f] \notin x.done \cup x.term}

RestartRead(r, j) ==
    /\ StatusOf(row[j]) \in {"orphaned", "failed", "running"}
    /\ Remaining(row[j]) # {} => JobLeft
    /\ Accept(r, [Idle EXCEPT !.pc = "restart", !.fs = Remaining(row[j]), !.old = j,
                                 !.sane = task[j].pc = "ended" /\ j \notin lossy])
    /\ UNCHANGED <<jobVars, proc, used, ghostVars, faults>>

\* ... nothing left: the row is flipped to done (a failed write is swallowed);
Flip(j, status) ==
    \/ row' = [row EXCEPT ![j].status = status] /\ UNCHANGED faults
    \/ faults < MaxFaults /\ faults' = faults + 1 /\ UNCHANGED row

RestartNothing(r) ==
    /\ req[r].pc = "restart" /\ Up(r) /\ req[r].fs = {}
    /\ Flip(req[r].old, "done")
    /\ Reply(r)
    /\ UNCHANGED <<mem, home, task, todo, evicted, proc, sent, used, ghostVars>>

\* ... otherwise a new job is created, ungated by the quota, ...
RestartCreate(r) ==
    /\ req[r].pc = "restart" /\ Up(r) /\ req[r].fs # {} /\ Fresh # {}
    /\ CreateJob(r, NextJob, req[r].fs, FALSE)
    /\ parent' = [parent EXCEPT ![NextJob] = req[r].old]
    /\ clean' = IF req[r].sane THEN clean \cup {NextJob} ELSE clean
    /\ crowded' = TRUE
    /\ req' = [req EXCEPT ![r].pc = "mark", ![r].new = NextJob]
    /\ UNCHANGED <<proc, sent, used, handled, charged, unswept>>

\* ... and the old row is marked restarted, whatever it says by now, before
\* the new worker starts.
RestartMark(r) ==
    /\ req[r].pc = "mark" /\ Up(r)
    /\ Flip(req[r].old, "restarted")
    /\ task' = [task EXCEPT ![req[r].new].pc = "next"]
    /\ Reply(r)
    /\ UNCHANGED <<mem, home, todo, evicted, proc, sent, used, ghostVars>>

-----------------------------------------------------------------------------
\* _run_bulk_job: an attempt at finding f, a new one or the one being retried.
Attempt(j, f) == /\ task[j].pc = "next"
                 /\ f \in todo[j]
                 /\ task[j].f \in {NoOne, f}

\* apply_finding_fix commits and returns ok.
ApplyOk(j, f) ==
    /\ Attempt(j, f)
    /\ task' = [task EXCEPT ![j].pc = "report", ![j].f = f]
    /\ UNCHANGED <<row, mem, home, todo, evicted, proc, req, sent, used, ghostVars,
                   faults>>

\* Variant: one attempt too many.
ExtraAttempt(j, f) ==
    /\ Attempt(j, f)
    /\ task[j].att < MaxAttempts
    /\ task' = [task EXCEPT ![j].f = f, ![j].att = @ + 1]
    /\ UNCHANGED <<row, mem, home, todo, evicted, proc, req, sent, used, ghostVars,
                   faults>>

\* A retryable error before the last attempt.
ApplyRetry(j, f) ==
    /\ Attempt(j, f)
    /\ task[j].att + 1 < MaxAttempts
    /\ task' = [task EXCEPT ![j].f = f, ![j].att = @ + 1]
    /\ UNCHANGED <<row, mem, home, todo, evicted, proc, req, sent, used, ghostVars,
                   faults>>

LeaveFinding(j, f) ==
    /\ task' = [task EXCEPT ![j] = [NoTask EXCEPT !.pc = "next"]]
    /\ todo' = [todo EXCEPT ![j] = @ \ {f}]

Handle(j, f) == handled' = [handled EXCEPT ![j] = @ \cup {f}]

\* emit: a job that has left _JOBS takes no notes any more.
Note(j, m) == mem' = [mem EXCEPT ![j] = IF j \in evicted THEN @ ELSE m]

\* The finding is given up: attempts used up, or a terminal error, which
\* /restart will not try again.
GiveUp(j, f, terminal) ==
    /\ Attempt(j, f)
    /\ terminal \/ task[j].att + 1 = MaxAttempts
    /\ Note(j, [mem[j] EXCEPT !.term = IF terminal THEN @ \cup {IdOf[f]} ELSE @])
    /\ Persist(j, Snapshot(j, mem'[j]))
    /\ LeaveFinding(j, f) /\ Handle(j, f)
    /\ UNCHANGED <<home, evicted, proc, req, sent, used, charged, clean, parent, unswept,
                   crowded>>

\* Variant: the progress is persisted at the end of the batch only.
ReportUnsaved(j) ==
    /\ task[j].pc = "report"
    /\ Note(j, [mem[j] EXCEPT !.done = @ \cup {IdOf[task[j].f]}])
    /\ Handle(j, task[j].f)
    /\ task' = [task EXCEPT ![j].pc = "charge"]
    /\ UNCHANGED <<row, home, todo, evicted, proc, req, sent, used, charged, clean, parent,
                   lossy, unswept, crowded, faults>>

\* fix-done is emitted and persisted ...
ReportFix(j) ==
    /\ task[j].pc = "report"
    /\ Note(j, [mem[j] EXCEPT !.done = @ \cup {IdOf[task[j].f]}])
    /\ Persist(j, Snapshot(j, mem'[j]))
    /\ Handle(j, task[j].f)
    /\ task' = [task EXCEPT ![j].pc = "charge"]
    /\ UNCHANGED <<home, todo, evicted, proc, req, sent, used, charged, clean, parent,
                   unswept, crowded>>

\* ... and one task is recorded, after the row knows of the fix.
ChargeFix(j) ==
    /\ task[j].pc = "charge"
    /\ \/ /\ used' = used + 1
          /\ charged' = [charged EXCEPT ![j] = @ \cup {task[j].f}]
          /\ UNCHANGED faults
       \/ /\ faults < MaxFaults         \* record_scan_fixes raised: logged
          /\ faults' = faults + 1
          /\ UNCHANGED <<used, charged>>
    /\ LeaveFinding(j, task[j].f)
    /\ UNCHANGED <<row, mem, home, evicted, proc, req, sent, handled, clean, parent, lossy,
                   unswept, crowded>>

\* Variant: close forgets its status argument.
ClosedOk(j, status) == [row[j] EXCEPT !.status = "done", !.done = mem[j].done, !.term = mem[j].term]

\* close: the terminal status overwrites whatever the row says.
Closed(j, status) == [row[j] EXCEPT !.status = status, !.done = mem[j].done, !.term = mem[j].term]

\* _gc, called by every create_job: in a full _JOBS the jobs that have not
\* closed go first.  The worker runs on and charges, but its progress is no
\* longer noted; the writes that follow leave the row's progress as it is.
Evict(j) ==
    /\ home[j] # NoOne /\ j \notin evicted
    /\ faults < MaxFaults
    /\ faults' = faults + 1
    /\ evicted' = evicted \cup {j}
    /\ lossy' = lossy \cup {j}
    /\ mem' = [mem EXCEPT ![j] = IF row[j] = NoRow THEN NoProgress
                                 ELSE [done |-> row[j].done, term |-> row[j].term]]
    /\ UNCHANGED <<row, home, task, todo, proc, req, sent, used, handled, charged, clean,
                   parent, unswept, crowded>>

\* The coroutine is over; no step below reads the job's progress in memory again.
EndTasks(js) ==
    /\ task' = [j \in Jobs |-> IF j \in js THEN [NoTask EXCEPT !.pc = "ended"] ELSE task[j]]
    /\ todo' = [j \in Jobs |-> IF j \in js THEN {} ELSE todo[j]]
    /\ mem' = [j \in Jobs |-> IF j \in js THEN NoProgress ELSE mem[j]]
    /\ home' = [j \in Jobs |-> IF j \in js THEN NoOne ELSE home[j]]
    /\ evicted' = evicted \ js

CloseDone(j) ==
    /\ task[j].pc = "next" /\ todo[j] = {}
    /\ Persist(j, Closed(j, "done"))
    /\ EndTasks({j})
    /\ UNCHANGED <<proc, req, sent, used, handled, charged, clean, parent, unswept, crowded>>

\* An exception that escapes the per-finding block.
WorkerException(j) ==
    /\ task[j].pc \in {"next", "charge"}
    /\ faults < MaxFaults
    /\ faults' = faults + 1
    /\ row' = [row EXCEPT ![j] = IF @ = NoRow THEN NoRow ELSE Closed(j, "failed")]
    /\ EndTasks({j})
    /\ UNCHANGED <<proc, req, sent, used, ghostVars>>

-----------------------------------------------------------------------------
LoseProcess(w) ==
    /\ Up(w) /\ faults < MaxFaults
    /\ faults' = faults + 1
    /\ proc' = [proc EXCEPT ![w] = "down"]
    /\ req' = [req EXCEPT ![w] = Idle]
    /\ EndTasks({j \in Jobs : home[j] = w})
    /\ UNCHANGED <<sent, used, ghostVars>>

Crash(w) == LoseProcess(w) /\ UNCHANGED row

\* Graceful shutdown: CancelledError in every worker, which closes its job as
\* orphaned.
Shutdown(w) ==
    /\ LoseProcess(w)
    /\ row' = [j \in Jobs |-> IF home[j] = w /\ Live(j) /\ row[j] # NoRow
                              THEN Closed(j, "orphaned") ELSE row[j]]

Boot(w) ==
    /\ proc[w] = "down"
    /\ proc' = [proc EXCEPT ![w] = "booting"]
    /\ UNCHANGED <<jobVars, req, sent, used, ghostVars, faults>>

\* Variant: the boot does not call mark_running_orphaned.
BootOnly(w) ==
    /\ proc[w] = "booting"
    /\ proc' = [proc EXCEPT ![w] = "up"]
    /\ UNCHANGED <<jobVars, req, sent, used, ghostVars, faults>>

\* Variant: {"status": {"$ne": "done"}}.
SweepUnfinished(w) ==
    /\ proc[w] = "booting"
    /\ proc' = [proc EXCEPT ![w] = "up"]
    /\ row' = [j \in Jobs |-> IF StatusOf(row[j]) \notin {"none", "done"}
                              THEN [row[j] EXCEPT !.status = "orphaned"] ELSE row[j]]
    /\ UNCHANGED <<mem, home, task, todo, evicted, req, sent, used, ghostVars, faults>>

\* mark_running_orphaned, a background task of the boot: every running row,
\* those of other live processes too.  An error is logged and the process is up
\* all the same.
OrphanSweep(w) ==
    /\ proc[w] = "booting"
    /\ proc' = [proc EXCEPT ![w] = "up"]
    /\ \/ /\ row' = [j \in Jobs |-> IF StatusOf(row[j]) = "running"
                                    THEN [row[j] EXCEPT !.status = "orphaned"] ELSE row[j]]
          /\ UNCHANGED <<unswept, faults>>
       \/ /\ faults < MaxFaults
          /\ faults' = faults + 1
          /\ unswept' = unswept \cup {j \in Jobs : StatusOf(row[j]) = "running" /\ ~Owned(j)}
          /\ UNCHANGED row
    /\ UNCHANGED <<mem, home, task, todo, evicted, req, sent, used, handled, charged, clean,
                   parent, lossy, crowded>>

-----------------------------------------------------------------------------
RequestStep(r) ==
    \/ BulkStart(r) \/ SingleApply(r) \/ SingleCharge(r)
    \/ RestartNothing(r) \/ RestartCreate(r) \/ RestartMark(r)

WorkerStep(j) ==
    \/ \E f \in Findings :
          \/ ApplyOk(j, f) \/ ApplyRetry(j, f)
          \/ \E terminal \in BOOLEAN : GiveUp(j, f, terminal)
    \/ ReportFix(j) \/ ChargeFix(j) \/ CloseDone(j)

NextFix ==
    \/ \E r \in Workers :
          \/ \E fs \in Batches : BulkCheck(r, fs)
          \/ SingleCheck(r)
          \/ \E j \in Jobs : RestartRead(r, j)
    \/ \E r \in Workers : RequestStep(r)
    \/ \E j \in Jobs : WorkerStep(j) \/ WorkerException(j) \/ Evict(j)
    \/ \E w \in Workers : Crash(w) \/ Shutdown(w) \/ Boot(w) \/ OrphanSweep(w)

Spec == Init /\ [][NextFix]_vars

-----------------------------------------------------------------------------
\* Types of the rows, the in-memory jobs, the coroutines and the requests.
TypeOK ==
    /\ row \in [Jobs -> Row \cup {NoRow}]
    /\ mem \in [Jobs -> [done : SUBSET Ids, term : SUBSET Ids]]
    /\ home \in [Jobs -> Workers \cup {NoOne}]
    /\ task \in [Jobs -> [pc : {"none", "next", "report", "charge", "ended"},
                          f : Findings \cup {NoOne}, att : 0 .. MaxAttempts - 1]]
    /\ todo \in [Jobs -> SUBSET Findings]
    /\ proc \in [Workers -> {"up", "down", "booting"}]
    /\ \A r \in Workers : /\ req[r].pc \in {"idle", "bulk", "single", "paid", "restart", "mark"}
                       /\ req[r].fs \subseteq Findings
    /\ evicted \subseteq Jobs
    /\ used \in Nat /\ faults \in 0 .. MaxFaults

\* A restart never charges again what the job it continues has charged, as
\* long as that job's worker had run and stopped when its row was read and
\* none of its progress was lost: the row learns of a fix before it is paid
\* for, so no crash, shutdown or exception in between makes the user pay twice.
\* The exception is a finding without id and rule_id: the worker records it
\* as f_<index>, /restart looks for None, so every restart fixes it again.
NoDoubleCharge ==
    \A j \in Jobs : parent[j] # 0 /\ j \in clean =>
        charged[j] \cap charged[parent[j]] \subseteq Unnamed

\* A job whose row says done has gone through its findings, and those alone:
\* it fixed or gave up every one, or one of the same id where ids are shared.
\* The row is closed by its worker, by a crash victim's restart that finds
\* nothing left, or after a restart of a job that was still running.
DoneMeansHandled ==
    \A j \in Jobs : StatusOf(row[j]) = "done" =>
        /\ handled[j] \subseteq row[j].all
        /\ {IdOf[f] : f \in row[j].all} \subseteq {IdOf[f] : f \in handled[j]}

\* The month's cap holds as long as no request is admitted while other
\* admitted work is unpaid and no job is restarted: assert_can_fix counts
\* what was recorded and reserves nothing, and /restart does not ask it.
QuotaHolds == ~crowded => used <= Cap

\* A row marked restarted stays restarted, unless some restart of it read the
\* row before its worker had stopped or after one of its writes was lost: that
\* worker's close, or a second request that finds nothing left by then, makes
\* the superseded job done, failed or orphaned again.
SupersededStays ==
    [][\A j \in Jobs :
         StatusOf(row[j]) = "restarted" /\ StatusOf(row'[j]) # "restarted"
         => \E k \in Jobs : parent[k] = j /\ k \notin clean]_vars

\* A row that says running has a worker at work, or a restart about to start
\* one, or a boot on its way that will sweep it: the drawer never waits on a
\* job nobody will close.  The exceptions are a row one of whose writes _persist
\* swallowed (or whose job _gc dropped), and a row that lay there unowned when
\* the sweep of a boot failed: mark_running_orphaned swallows the error.
RunningRowIsOwned ==
    \A j \in Jobs : StatusOf(row[j]) = "running" /\ j \notin lossy \cup unswept =>
        Owned(j) \/ \E w \in Workers : proc[w] # "up"
=============================================================================

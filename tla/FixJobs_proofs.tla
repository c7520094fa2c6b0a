--------------------------- MODULE FixJobs_proofs ---------------------------
(***************************************************************************)
(* Machine-checked proofs about FixJobs, for any number of processes,      *)
(* jobs, requests, findings (with or without ids of their own), attempts   *)
(* and faults.                                                             *)
(***************************************************************************)
EXTENDS FixJobs, TLAPS, FiniteSetTheorems

-----------------------------------------------------------------------------
(* The inductive invariant.                                                *)

Progress == [done : SUBSET Ids, term : SUBSET Ids]
Task     == [pc : {"none", "next", "report", "charge", "ended"},
             f : Findings \cup {NoOne}, att : 0 .. MaxAttempts - 1]
Request  == [pc : {"idle", "bulk", "single", "paid", "restart", "mark"},
             fs : SUBSET Findings, old : Jobs \cup {0}, new : Jobs \cup {0},
             sane : BOOLEAN]

Types ==
    /\ row \in [Jobs -> Row \cup {NoRow}]
    /\ mem \in [Jobs -> Progress]
    /\ home \in [Jobs -> Workers \cup {NoOne}]
    /\ task \in [Jobs -> Task]
    /\ todo \in [Jobs -> SUBSET Findings]
    /\ proc \in [Workers -> {"up", "down", "booting"}]
    /\ req \in [Workers -> Request]
    /\ handled \in [Jobs -> SUBSET Findings]
    /\ charged \in [Jobs -> SUBSET Findings]
    /\ parent \in [Jobs -> Jobs \cup {0}]
    /\ clean \subseteq Jobs /\ lossy \subseteq Jobs /\ unswept \subseteq Jobs
    /\ evicted \subseteq Jobs
    /\ used \in Nat /\ sent \in Nat /\ faults \in 0 .. MaxFaults

Ended(j) == task[j].pc = "ended"
Unused(j) == home[j] = NoOne /\ task[j] = NoTask

\* An id that the job has gone through.
Through(j, i) == \E g \in handled[j] : IdOf[g] = i

\* A job number that is unused has no row and no history.  Progress is only
\* of findings gone through; the row lags behind the memory of a live job.
ProgressInv(j) ==
    /\ Unused(j) => /\ row[j] = NoRow /\ mem[j] = NoProgress
                    /\ handled[j] = {} /\ charged[j] = {}
                    /\ parent[j] = 0 /\ j \notin clean
    /\ Live(j) => home[j] # NoOne
    /\ Ended(j) => home[j] = NoOne
    /\ \A i \in mem[j].done \cup mem[j].term : Through(j, i)
    /\ row[j] # NoRow =>
          /\ \A i \in row[j].done \cup row[j].term : Through(j, i)
          /\ ~Ended(j) => /\ row[j].done \subseteq mem[j].done
                          /\ row[j].term \subseteq mem[j].term
    /\ ~Unused(j) /\ j \notin lossy => row[j] # NoRow
    /\ j \in evicted => home[j] # NoOne /\ j \in lossy

\* What a worker has not gone through is still on its list.
ListInv(j) ==
    /\ row[j] # NoRow => /\ handled[j] \subseteq row[j].all
                         /\ todo[j] \subseteq row[j].all
                         /\ ~Ended(j) => row[j].all \subseteq handled[j] \cup todo[j]
    /\ task[j].pc \in {"report", "charge"} => task[j].f \in todo[j]
    /\ StatusOf(row[j]) = "done" => \A f \in row[j].all : Through(j, IdOf[f])

\* A fix is in the memory and, unless a write was lost, in the row before it
\* is charged.
Known(j, f) ==
    /\ ~Ended(j) /\ j \notin evicted => IdOf[f] \in mem[j].done
    /\ j \notin lossy => row[j] # NoRow /\ IdOf[f] \in row[j].done

ChargeInv(j) ==
    /\ charged[j] \subseteq handled[j]
    /\ \A f \in charged[j] : Known(j, f)
    /\ task[j].pc = "charge" => task[j].f \in handled[j] /\ Known(j, task[j].f)

JobInv(j) == ProgressInv(j) /\ ListInv(j) /\ ChargeInv(j)

\* A restart works on what the row said was left; if its parent had stopped
\* by then, the row says so for good.
Stopped(j, fs) ==
    /\ Ended(j) /\ j \notin lossy /\ row[j] # NoRow
    /\ fs \subseteq Remaining(row[j]) /\ Remaining(row[j]) # {}

RestartInv ==
    /\ \A r \in Workers : req[r].pc \in {"restart", "mark"} =>
          /\ req[r].old \in Jobs /\ row[req[r].old] # NoRow
          /\ req[r].pc = "restart" /\ req[r].fs = {} => Remaining(row[req[r].old]) = {}
          /\ req[r].pc = "restart" /\ req[r].fs # {} /\ req[r].sane
             => Stopped(req[r].old, req[r].fs)
          /\ req[r].pc = "mark" => /\ req[r].new \in Jobs /\ home[req[r].new] = r
                                   /\ task[req[r].new] = NoTask
                                   /\ parent[req[r].new] = req[r].old
    /\ \A k \in Jobs : parent[k] # 0 => row[parent[k]] # NoRow
    /\ \A k \in clean : parent[k] # 0 => Stopped(parent[k], todo[k] \cup handled[k])
    /\ \A j \in Jobs : StatusOf(row[j]) = "restarted" => \E k \in Jobs : parent[k] = j

\* Until work is admitted beside unfinished work, one request or one job at a
\* time holds a claim on the quota, and the quota covers it.
Holds(r) == req[r].pc \in {"bulk", "single", "paid"}
Claim(r) == IF req[r].pc = "bulk" THEN Cardinality(req[r].fs) ELSE 1

QuotaInv ==
    ~crowded =>
        /\ used <= Cap
        /\ \A r \in Workers : Holds(r) => used + Claim(r) <= Cap
        /\ \A j \in Jobs : Live(j) => used + Cardinality(todo[j]) <= Cap
        /\ \A r, s \in Workers : Holds(r) /\ Holds(s) => r = s
        /\ \A j, k \in Jobs : Live(j) /\ Live(k) => j = k
        /\ \A r \in Workers, j \in Jobs : ~(Holds(r) /\ Live(j))
        /\ \A r \in Workers : req[r].pc # "mark"

IInv == /\ Types /\ RestartInv /\ RunningRowIsOwned /\ QuotaInv
        /\ \A j \in Jobs : JobInv(j)

-----------------------------------------------------------------------------
(* What a step does to one job, and what that preserves.                   *)

JobSame(j) ==
    /\ row'[j] = row[j] /\ mem'[j] = mem[j] /\ home'[j] = home[j]
    /\ task'[j] = task[j] /\ todo'[j] = todo[j]
    /\ handled'[j] = handled[j] /\ charged'[j] = charged[j] /\ parent'[j] = parent[j]
    /\ (j \in clean' <=> j \in clean) /\ (j \in lossy' <=> j \in lossy)
    /\ (j \in evicted' <=> j \in evicted)

\* A row only grows, a stopped job's row keeps its progress, a restart only
\* works through what it was given.
JobStep(j) ==
    /\ row[j] # NoRow => /\ row'[j] # NoRow /\ row'[j].all = row[j].all
                         /\ row[j].done \subseteq row'[j].done
                         /\ row[j].term \subseteq row'[j].term
                         /\ Ended(j) => /\ row'[j].done = row[j].done
                                        /\ row'[j].term = row[j].term
    /\ Ended(j) => task'[j].pc = "ended" /\ (j \in lossy' => j \in lossy)
    /\ j \in clean => todo'[j] \cup handled'[j] \subseteq todo[j] \cup handled[j]
    /\ StatusOf(row'[j]) = "restarted" =>
          StatusOf(row[j]) = "restarted" \/ \E k \in Jobs : parent[k] = j

\* A job nothing is done to keeps its invariant.
LEMMA SameOK ==
  ASSUME NEW j \in Jobs, JobSame(j), JobInv(j)
  PROVE  JobInv(j)' /\ JobStep(j)
<1>1. ProgressInv(j)'
  BY DEF JobSame, JobInv, ProgressInv, Unused, Live, Ended, Through
<1>2. ListInv(j)'
  BY DEF JobSame, JobInv, ListInv, Ended, Through
<1>3. ChargeInv(j)'
  BY DEF JobSame, JobInv, ChargeInv, Known, Ended
<1>4. JobStep(j)
  BY DEF JobSame, JobStep, Ended
<1> QED
  BY <1>1, <1>2, <1>3, <1>4 DEF JobInv

\* What a row says is left only shrinks, and not at all once the job has
\* stopped.
LEMMA RemainingShrinks ==
  ASSUME NEW j \in Jobs, row[j] # NoRow, JobStep(j)
  PROVE  /\ Remaining(row'[j]) \subseteq Remaining(row[j])
         /\ Ended(j) => Remaining(row'[j]) = Remaining(row[j])
BY DEF JobStep, Remaining

LEMMA StoppedStep ==
  ASSUME NEW o \in Jobs, NEW fs, NEW fs2 \in SUBSET fs, Stopped(o, fs), JobStep(o)
  PROVE  Stopped(o, fs2)'
BY RemainingShrinks DEF Stopped, Ended, JobStep

\* A restart's own half of the invariant survives any such step that does not
\* create one.
LEMMA RestartStep ==
  ASSUME IInv, \A j \in Jobs : JobStep(j), parent' = parent, clean' = clean,
         \A r \in Workers : req'[r].pc \in {"restart", "mark"} =>
             /\ req'[r] = req[r]
             /\ req[r].pc = "mark" => /\ home'[req[r].new] = home[req[r].new]
                                      /\ task'[req[r].new] = task[req[r].new]
  PROVE  RestartInv'
<1>1. ASSUME NEW r \in Workers, req'[r].pc \in {"restart", "mark"}
      PROVE  /\ req'[r].old \in Jobs /\ row'[req'[r].old] # NoRow
             /\ req'[r].pc = "restart" /\ req'[r].fs = {}
                => Remaining(row'[req'[r].old]) = {}
             /\ req'[r].pc = "restart" /\ req'[r].fs # {} /\ req'[r].sane
                => Stopped(req[r].old, req[r].fs)'
             /\ req'[r].pc = "mark" => /\ req'[r].new \in Jobs /\ home'[req'[r].new] = r
                                       /\ task'[req'[r].new] = NoTask
                                       /\ parent'[req'[r].new] = req'[r].old
  <2>1. req'[r] = req[r]
    BY <1>1
  <2>2. PICK o \in Jobs : o = req[r].old
    BY <1>1, <2>1 DEF IInv, RestartInv
  <2>3. PICK fs : fs = req[r].fs
    OBVIOUS
  <2>4. row[o] # NoRow /\ JobStep(o)
    BY <1>1, <2>1, <2>2 DEF IInv, RestartInv
  <2>5. /\ req[r].pc = "restart" /\ fs = {} => Remaining(row[o]) = {}
        /\ req[r].pc = "restart" /\ fs # {} /\ req[r].sane => Stopped(o, fs)
        /\ req[r].pc = "mark" => /\ req[r].new \in Jobs /\ home[req[r].new] = r
                                 /\ task[req[r].new] = NoTask
                                 /\ parent[req[r].new] = o
    BY <1>1, <2>1, <2>2, <2>3 DEF IInv, RestartInv
  <2>6. Stopped(o, fs) => Stopped(o, fs)'
    BY <2>4, StoppedStep
  <2>7. Stopped(o, fs)' => Stopped(req[r].old, req[r].fs)'
    BY <2>1, <2>2, <2>3
  <2>8. Remaining(row'[o]) \subseteq Remaining(row[o]) /\ row'[o] # NoRow
    BY <2>4, RemainingShrinks DEF JobStep
  <2> QED
    BY <1>1, <2>1, <2>2, <2>3, <2>5, <2>6, <2>7, <2>8
<1>2. \A k \in Jobs : parent'[k] # 0 => row'[parent'[k]] # NoRow
  <2>1. \A k \in Jobs : parent[k] # 0 => parent[k] \in Jobs /\ row[parent[k]] # NoRow
    BY DEF IInv, RestartInv, Types
  <2> QED
    BY <2>1 DEF JobStep
<1>3. ASSUME NEW k \in clean', parent'[k] # 0
      PROVE  Stopped(parent[k], todo[k] \cup handled[k])'
  <2>1. k \in Jobs /\ k \in clean /\ parent[k] # 0
    BY <1>3 DEF IInv, Types
  <2>2. PICK o \in Jobs : o = parent[k]
    BY <2>1 DEF IInv, Types
  <2>3. PICK fs, fs2 : fs = todo[k] \cup handled[k] /\ fs2 = todo'[k] \cup handled'[k]
    OBVIOUS
  <2>4. Stopped(o, fs) /\ fs2 \in SUBSET fs
    BY <2>1, <2>2, <2>3 DEF IInv, RestartInv, JobStep
  <2>5. Stopped(o, fs2)'
    BY <2>4, StoppedStep
  <2> QED
    BY <2>2, <2>3, <2>5
<1>4. \A j \in Jobs : StatusOf(row'[j]) = "restarted" => \E k \in Jobs : parent'[k] = j
  BY DEF IInv, RestartInv, JobStep
<1> QED
  BY <1>1, <1>2, <1>3, <1>4 DEF RestartInv

\* Nor does a running row lose its worker when no worker stops.
LEMMA RunningStep ==
  ASSUME RunningRowIsOwned, proc' = proc, unswept \subseteq unswept',
         \A r \in Workers : req[r].pc = "mark" => req'[r] = req[r],
         \A j \in Jobs : StatusOf(row'[j]) = "running" /\ j \notin lossy' =>
             /\ StatusOf(row[j]) = "running" /\ j \notin lossy
             /\ Live(j) => Live(j)'
  PROVE  RunningRowIsOwned'
BY DEF RunningRowIsOwned, Owned

LEMMA JobsSame ==
  ASSUME \A j \in Jobs : JobInv(j),
         UNCHANGED <<jobVars, handled, charged, clean, parent, lossy, unswept>>
  PROVE  \A j \in Jobs : JobInv(j)' /\ JobStep(j)
<1>1. \A j \in Jobs : JobSame(j)
  BY DEF JobSame, jobVars
<1> QED
  BY <1>1, SameOK

-----------------------------------------------------------------------------
(* Every action preserves the invariant.                                   *)

LEMMA IdleType == Idle \in Request
BY DEF Idle, Request

LEMMA InitOK == Init => IInv
<1> SUFFICES ASSUME Init PROVE IInv
  OBVIOUS
<1>1. NoTask \in Task /\ NoProgress \in Progress
  BY FixConstants DEF NoTask, Task, NoProgress, Progress
<1>2. Types
  BY <1>1, IdleType, FixConstants DEF Init, Types
<1>3. \A j \in Jobs : JobInv(j)
  BY DEF Init, JobInv, ProgressInv, ListInv, ChargeInv, Unused, Live, Ended, NoTask,
         NoProgress, StatusOf
<1>4. RestartInv
  BY DEF Init, RestartInv, Idle, StatusOf
<1>5. RunningRowIsOwned
  BY DEF Init, RunningRowIsOwned, StatusOf
<1>6. QuotaInv
  BY FixConstants DEF Init, QuotaInv, Holds, Live, Idle, NoTask
<1> QED
  BY <1>2, <1>3, <1>4, <1>5, <1>6 DEF IInv

\* Requests that are admitted against the quota, on no unfinished work.
LEMMA AdmitOK ==
  ASSUME IInv, NEW r \in Workers, NEW x \in Request, Accept(r, x),
         x.pc \in {"bulk", "single"},
         x.pc = "bulk" => Cardinality(x.fs) <= Cap - used,
         x.pc = "single" => used < Cap,
         crowded' = (crowded \/ Admitted \/ \E j \in Jobs : Live(j)),
         UNCHANGED <<jobVars, proc, used, handled, charged, clean, parent, lossy, unswept, faults>>
  PROVE  IInv'
<1>1. x.fs \in SUBSET Findings
  BY DEF Request
<1>2. req' = [req EXCEPT ![r] = x] /\ req[r].pc = "idle" /\ sent' = sent + 1
  BY DEF Accept
<1>3. Types'
  BY <1>2 DEF IInv, Types, jobVars
<1>4. \A s \in Workers : req'[s] = IF s = r THEN x ELSE req[s]
  BY <1>2 DEF IInv, Types
<1>5. \A j \in Jobs : JobInv(j)' /\ JobStep(j)
  BY JobsSame DEF IInv
<1>6. RestartInv'
  BY <1>1, <1>4, <1>5, RestartStep DEF jobVars
<1>7. RunningRowIsOwned'
  BY <1>1, <1>2, <1>4, RunningStep DEF IInv, jobVars, Live
<1>8. QuotaInv'
  <2> SUFFICES ASSUME ~crowded' PROVE QuotaInv'
    BY DEF QuotaInv
  <2>1. ~crowded /\ ~Admitted /\ \A j \in Jobs : ~Live(j)
    OBVIOUS
  <2>2. \A s \in Workers : ~Holds(s)
    BY <2>1 DEF Admitted, Holds
  <2>3. \A s \in Workers : Holds(s)' => s = r
    BY <1>4, <2>2 DEF Holds
  <2>4. \A s \in Workers : Holds(s)' => used' + Claim(s)' <= Cap
    <3>1. Cardinality(x.fs) \in Int
      <4>1. IsFiniteSet(x.fs)
        BY <1>1, FixConstants, FS_Subset
      <4> QED
        BY <4>1, FS_CardinalityType
    <3>2. used' + (IF x.pc = "bulk" THEN Cardinality(x.fs) ELSE 1) <= Cap
      BY <3>1, FixConstants DEF IInv, Types
    <3>3. Claim(r)' = IF x.pc = "bulk" THEN Cardinality(x.fs) ELSE 1
      BY <1>1, <1>4 DEF Claim
    <3> QED
      BY <2>3, <3>2, <3>3
  <2>5. \A j \in Jobs : ~Live(j)'
    BY <2>1 DEF Live, jobVars
  <2>6. used' <= Cap
    BY <2>1 DEF IInv, QuotaInv
  <2>7. \A s \in Workers : req'[s].pc # "mark"
    BY <1>1, <1>4, <2>1 DEF IInv, QuotaInv
  <2> QED
    BY <2>3, <2>4, <2>5, <2>6, <2>7 DEF QuotaInv
<1> QED
  BY <1>3, <1>5, <1>6, <1>7, <1>8 DEF IInv

LEMMA BulkCheckOK ==
  ASSUME IInv, NEW r \in Workers, NEW fs \in SUBSET Findings, BulkCheck(r, fs)
  PROVE  IInv'
<1> DEFINE x == [Idle EXCEPT !.pc = "bulk", !.fs = fs]
<1>1. x \in Request /\ x.pc = "bulk" /\ x.fs = fs
  BY DEF Idle, Request
<1>2. Accept(r, x)
  BY DEF BulkCheck
<1> HIDE DEF x
<1> QED
  BY <1>1, <1>2, AdmitOK DEF BulkCheck

LEMMA SingleCheckOK ==
  ASSUME IInv, NEW r \in Workers, SingleCheck(r)
  PROVE  IInv'
<1> DEFINE x == [Idle EXCEPT !.pc = "single"]
<1>1. x \in Request /\ x.pc = "single"
  BY DEF Idle, Request
<1>2. Accept(r, x)
  BY DEF SingleCheck
<1> HIDE DEF x
<1> QED
  BY <1>1, <1>2, AdmitOK DEF SingleCheck

\* Requests that move on without touching a job.
LEMMA SingleApplyOK ==
  ASSUME IInv, NEW r \in Workers, SingleApply(r)
  PROVE  IInv'
<1>1. PICK x : /\ req' = [req EXCEPT ![r] = x] /\ x \in Request
               /\ (x = Idle \/ x = [req[r] EXCEPT !.pc = "paid"])
  <2>1. CASE Reply(r)
    BY <2>1, IdleType DEF Reply
  <2>2. CASE req' = [req EXCEPT ![r].pc = "paid"]
    <3>1. [req[r] EXCEPT !.pc = "paid"] \in Request
      BY DEF IInv, Types, Request
    <3> QED
      BY <2>2, <3>1
  <2> QED
    BY <2>1, <2>2 DEF SingleApply
<1>2. req[r].pc = "single" /\ x.pc \in {"idle", "paid"}
  <2>1. req[r] \in Request
    BY DEF IInv, Types
  <2> QED
    BY <1>1, <2>1 DEF SingleApply, Idle, Request
<1>3. \A s \in Workers : req'[s] = IF s = r THEN x ELSE req[s]
  BY <1>1 DEF IInv, Types
<1>4. /\ UNCHANGED <<jobVars, handled, charged, clean, parent, lossy, unswept>>
      /\ UNCHANGED <<proc, sent, used, crowded, faults>>
  BY DEF SingleApply, ghostVars
<1>5. Types'
  BY <1>1, <1>4 DEF IInv, Types, jobVars
<1>6. \A j \in Jobs : JobInv(j)' /\ JobStep(j)
  BY <1>4, JobsSame DEF IInv
<1>7. RestartInv'
  BY <1>2, <1>3, <1>4, <1>6, RestartStep DEF jobVars
<1>8. RunningRowIsOwned'
  BY <1>2, <1>3, <1>4, RunningStep DEF IInv, jobVars, Live
<1>9. QuotaInv'
  <2> SUFFICES ASSUME ~crowded' PROVE QuotaInv'
    BY DEF QuotaInv
  <2>1. /\ Holds(r) /\ Claim(r) = 1
        /\ Holds(r)' => Claim(r)' = 1
    BY <1>2, <1>3 DEF Holds, Claim
  <2>2. \A s \in Workers : s # r => (Holds(s)' <=> Holds(s)) /\ Claim(s)' = Claim(s)
    BY <1>3 DEF Holds, Claim
  <2>3. \A j \in Jobs : (Live(j)' <=> Live(j)) /\ todo'[j] = todo[j]
    BY <1>4 DEF Live, jobVars
  <2>4. \A s \in Workers : req'[s].pc = "mark" => req[s].pc = "mark"
    BY <1>2, <1>3
  <2> QED
    BY <1>4, <2>1, <2>2, <2>3, <2>4 DEF IInv, QuotaInv
<1> QED
  BY <1>5, <1>6, <1>7, <1>8, <1>9 DEF IInv

LEMMA SingleChargeOK ==
  ASSUME IInv, NEW r \in Workers, SingleCharge(r)
  PROVE  IInv'
<1>1. req' = [req EXCEPT ![r] = Idle] /\ req[r].pc = "paid"
  BY DEF SingleCharge, Reply
<1>2. \A s \in Workers : req'[s] = IF s = r THEN Idle ELSE req[s]
  BY <1>1 DEF IInv, Types
<1>3. /\ UNCHANGED <<jobVars, handled, charged, clean, parent, lossy, unswept>>
      /\ UNCHANGED <<proc, sent, crowded>>
  BY DEF SingleCharge, ghostVars
<1>4. /\ used' \in Nat /\ used' \in {used, used + 1}
      /\ faults' \in 0 .. MaxFaults
  BY FixConstants DEF SingleCharge, IInv, Types
<1>5. Types'
  BY <1>1, <1>3, <1>4, IdleType DEF IInv, Types, jobVars
<1>6. \A j \in Jobs : JobInv(j)' /\ JobStep(j)
  BY <1>3, JobsSame DEF IInv
<1>7. RestartInv'
  BY <1>2, <1>3, <1>6, RestartStep DEF jobVars, Idle
<1>8. RunningRowIsOwned'
  BY <1>1, <1>2, <1>3, RunningStep DEF IInv, jobVars, Live
<1>9. QuotaInv'
  <2> SUFFICES ASSUME ~crowded' PROVE QuotaInv'
    BY DEF QuotaInv
  <2>1. /\ used + 1 <= Cap
        /\ \A s \in Workers : Holds(s) => s = r
        /\ \A j \in Jobs : ~Live(j)
        /\ \A s \in Workers : req[s].pc # "mark"
    BY <1>1, <1>3 DEF IInv, QuotaInv, Holds, Claim
  <2>2. \A s \in Workers : ~Holds(s)'
    BY <1>2, <2>1 DEF Holds, Idle
  <2>3. \A j \in Jobs : ~Live(j)'
    BY <1>3, <2>1 DEF Live, jobVars
  <2>4. \A s \in Workers : req'[s].pc # "mark"
    BY <1>2, <2>1 DEF Idle
  <2>5. used' <= Cap
    BY <1>4, <2>1, FixConstants DEF IInv, Types
  <2> QED
    BY <2>2, <2>3, <2>4, <2>5 DEF QuotaInv
<1> QED
  BY <1>5, <1>6, <1>7, <1>8, <1>9 DEF IInv

LEMMA RestartReadOK ==
  ASSUME IInv, NEW r \in Workers, NEW j \in Jobs, RestartRead(r, j)
  PROVE  IInv'
<1> DEFINE sane == task[j].pc = "ended" /\ j \notin lossy
           fs == Remaining(row[j])
           x == [Idle EXCEPT !.pc = "restart", !.fs = fs, !.old = j, !.sane = sane]
<1>1. /\ StatusOf(row[j]) \in {"orphaned", "failed", "running"}
      /\ req' = [req EXCEPT ![r] = x] /\ req[r].pc = "idle" /\ sent' = sent + 1
      /\ UNCHANGED <<jobVars, proc, used, ghostVars, faults>>
  BY DEF RestartRead, Accept
<1>2. row[j] # NoRow /\ row[j] \in Row /\ fs \in SUBSET Findings
  <2>1. row[j] # NoRow
    BY <1>1 DEF StatusOf
  <2>2. row[j] \in Row
    BY <2>1 DEF IInv, Types
  <2> QED
    BY <2>1, <2>2 DEF Row, Remaining
<1>3. /\ x \in Request /\ x.pc = "restart" /\ x.fs = fs /\ x.old = j
      /\ x.sane => Ended(j) /\ j \notin lossy
  <2>1. sane \in BOOLEAN
    BY Zenon
  <2> HIDE DEF sane
  <2>2. x \in Request /\ x.pc = "restart" /\ x.fs = fs /\ x.old = j /\ x.sane = sane
    BY <1>2, <2>1 DEF Idle, Request
  <2> QED
    BY <2>2 DEF sane, Ended
<1> HIDE DEF x, sane
<1>4. /\ UNCHANGED <<jobVars, handled, charged, clean, parent, lossy, unswept>>
      /\ UNCHANGED <<proc, used, crowded, faults>>
  BY <1>1 DEF ghostVars
<1>5. \A s \in Workers : req'[s] = IF s = r THEN x ELSE req[s]
  BY <1>1 DEF IInv, Types
<1>6. Types'
  BY <1>1, <1>3, <1>4 DEF IInv, Types, jobVars
<1>7. \A k \in Jobs : JobInv(k)' /\ JobStep(k)
  BY <1>4, JobsSame DEF IInv
<1>8. RestartInv'
  <2>1. UNCHANGED <<row, task, todo, handled, lossy, home, parent, clean>>
    BY <1>4 DEF jobVars
  <2>2. fs # {} /\ x.sane => Stopped(j, fs)
    BY <1>2, <1>3 DEF Stopped
  <2>3. ASSUME NEW s \in Workers, req'[s].pc \in {"restart", "mark"}
        PROVE  /\ req'[s].old \in Jobs /\ row[req'[s].old] # NoRow
               /\ req'[s].pc = "restart" /\ req'[s].fs = {}
                  => Remaining(row[req'[s].old]) = {}
               /\ req'[s].pc = "restart" /\ req'[s].fs # {} /\ req'[s].sane
                  => Stopped(req'[s].old, req'[s].fs)
               /\ req'[s].pc = "mark" => /\ req'[s].new \in Jobs /\ home[req'[s].new] = s
                                         /\ task[req'[s].new] = NoTask
                                         /\ parent[req'[s].new] = req'[s].old
    <3>1. CASE s = r
      BY <1>2, <1>3, <1>5, <2>2, <3>1
    <3>2. CASE s # r
      <4>1. req'[s] = req[s]
        BY <1>5, <3>2
      <4> QED
        BY <2>3, <4>1 DEF IInv, RestartInv
    <3> QED
      BY <3>1, <3>2
  <2>4. \A k, gs : Stopped(k, gs) => Stopped(k, gs)'
    BY <2>1 DEF Stopped, Ended
  <2> QED
    BY <2>1, <2>3, <2>4 DEF IInv, RestartInv, Stopped, Ended
<1>9. RunningRowIsOwned'
  BY <1>1, <1>4, <1>5, RunningStep DEF IInv, jobVars, Live
<1>10. QuotaInv'
  <2>1. \A s \in Workers : (Holds(s)' => Holds(s)) /\ (Holds(s) => Claim(s)' = Claim(s))
    BY <1>1, <1>3, <1>5 DEF Holds, Claim
  <2>2. \A k \in Jobs : (Live(k)' <=> Live(k)) /\ todo'[k] = todo[k]
    BY <1>4 DEF Live, jobVars
  <2>3. \A s \in Workers : req'[s].pc = "mark" => req[s].pc = "mark"
    BY <1>3, <1>5
  <2> QED
    BY <1>4, <2>1, <2>2, <2>3 DEF IInv, QuotaInv
<1> QED
  BY <1>6, <1>7, <1>8, <1>9, <1>10 DEF IInv


-----------------------------------------------------------------------------
(* Steps of one worker coroutine.                                          *)

\* What a step of job j's worker has to show.
LEMMA WorkerOK ==
  ASSUME IInv, NEW j \in Jobs, Live(j), Types',
         \A k \in Jobs \ {j} : JobSame(k),
         UNCHANGED <<proc, req, parent, clean, unswept, crowded>>,
         JobInv(j)', JobStep(j),
         StatusOf(row'[j]) = "running" /\ j \notin lossy' =>
             StatusOf(row[j]) = "running" /\ j \notin lossy /\ Live(j)',
         used' <= used + Cardinality(todo[j]),
         Live(j)' => used' + Cardinality(todo'[j]) <= used + Cardinality(todo[j])
  PROVE  IInv'
<1>1. \A k \in Jobs : JobInv(k)' /\ JobStep(k)
  BY SameOK DEF IInv
<1>2. \A r \in Workers : req[r].pc = "mark" => req[r].new \in Jobs \ {j}
  BY DEF IInv, RestartInv, Live, NoTask
<1>3. RestartInv'
  <2>1. \A r \in Workers : req[r].pc = "mark" => /\ home'[req[r].new] = home[req[r].new]
                                                /\ task'[req[r].new] = task[req[r].new]
    BY <1>2 DEF JobSame
  <2> QED
    BY <1>1, <2>1, RestartStep
<1>4. RunningRowIsOwned'
  BY RunningStep DEF IInv, JobSame, Live
<1>5. QuotaInv'
  <2> SUFFICES ASSUME ~crowded' PROVE QuotaInv'
    BY DEF QuotaInv
  <2>1. /\ \A k \in Jobs : Live(k) => k = j
        /\ \A r \in Workers : ~Holds(r) /\ req[r].pc # "mark"
        /\ used + Cardinality(todo[j]) <= Cap
    BY DEF IInv, QuotaInv
  <2>2. \A k \in Jobs : Live(k)' => k = j
    BY <2>1 DEF JobSame, Live
  <2>3. \A r \in Workers : ~Holds(r)' /\ req'[r].pc # "mark"
    BY <2>1 DEF Holds
  <2>4. used' <= Cap /\ (Live(j)' => used' + Cardinality(todo'[j]) <= Cap)
    <3>1. \A S \in SUBSET Findings : Cardinality(S) \in Int
      BY FixConstants, FS_Subset, FS_CardinalityType
    <3>2. todo[j] \in SUBSET Findings /\ todo'[j] \in SUBSET Findings
      BY DEF IInv, Types
    <3> QED
      BY <2>1, <3>1, <3>2, FixConstants DEF IInv, Types
  <2> QED
    BY <2>2, <2>3, <2>4 DEF QuotaInv
<1> QED
  BY <1>1, <1>3, <1>4, <1>5 DEF IInv

\* An attempt only moves the coroutine.
LEMMA AttemptOK ==
  ASSUME IInv, NEW j \in Jobs, NEW f \in Findings, ApplyOk(j, f) \/ ApplyRetry(j, f)
  PROVE  IInv'
<1>1. /\ task[j].pc = "next" /\ f \in todo[j] /\ task[j] \in Task
      /\ UNCHANGED <<row, mem, home, todo, evicted, proc, req, sent, used, ghostVars, faults>>
  BY DEF ApplyOk, ApplyRetry, Attempt, IInv, Types
<1>2. /\ task' \in [Jobs -> Task]
      /\ \A k \in Jobs \ {j} : task'[k] = task[k]
      /\ task'[j].pc \in {"next", "report"} /\ task'[j].f = f
  <2>1. CASE ApplyOk(j, f)
    <3>1. /\ [task[j] EXCEPT !.pc = "report", !.f = f] \in Task
          /\ [task[j] EXCEPT !.pc = "report", !.f = f].pc = "report"
          /\ [task[j] EXCEPT !.pc = "report", !.f = f].f = f
      BY <1>1 DEF Task
    <3>2. task' = [task EXCEPT ![j] = [task[j] EXCEPT !.pc = "report", !.f = f]]
      BY <2>1 DEF ApplyOk, IInv, Types
    <3> QED
      BY <3>1, <3>2 DEF IInv, Types
  <2>2. CASE ApplyRetry(j, f)
    <3> DEFINE t == [task[j] EXCEPT !.f = f, !.att = task[j].att + 1]
    <3>1. task[j].att + 1 \in 0 .. MaxAttempts - 1
      BY <1>1, <2>2, FixConstants DEF ApplyRetry, Task
    <3>2. t \in Task /\ t.pc = "next" /\ t.f = f
      BY <1>1, <3>1 DEF Task
    <3>3. task' = [task EXCEPT ![j] = t]
      BY <2>2 DEF ApplyRetry, IInv, Types
    <3> HIDE DEF t
    <3> QED
      BY <3>2, <3>3 DEF IInv, Types
  <2> QED
    BY <2>1, <2>2
<1>3. Types'
  BY <1>1, <1>2 DEF IInv, Types, ghostVars
<1>4. \A k \in Jobs \ {j} : JobSame(k)
  BY <1>1, <1>2 DEF JobSame, ghostVars
<1>5. JobInv(j)
  BY DEF IInv
<1>6. ProgressInv(j)'
  BY <1>1, <1>2, <1>5 DEF JobInv, ProgressInv, Unused, Live, Ended, Through, ghostVars, NoTask
<1>7. ListInv(j)'
  BY <1>1, <1>2, <1>5 DEF JobInv, ListInv, Ended, Through, ghostVars
<1>8. ChargeInv(j)'
  BY <1>1, <1>2, <1>5 DEF JobInv, ChargeInv, Known, Ended, ghostVars
<1>9. JobStep(j)
  BY <1>1 DEF JobStep, Ended, ghostVars
<1>10. Cardinality(todo[j]) \in Nat
  BY FixConstants, FS_Subset, FS_CardinalityType DEF IInv, Types
<1>11. used' <= used + Cardinality(todo[j])
  BY <1>1, <1>10 DEF IInv, Types
<1>12. used' + Cardinality(todo'[j]) <= used + Cardinality(todo[j])
  BY <1>1, <1>10 DEF IInv, Types
<1>13. JobInv(j)'
  BY <1>6, <1>7, <1>8 DEF JobInv
<1>14. Live(j) /\ Live(j)'
  BY <1>1, <1>2 DEF Live
<1>15. UNCHANGED <<row, lossy, proc, req, parent, clean, unswept, crowded>>
  BY <1>1 DEF ghostVars
<1> QED
  BY <1>3, <1>4, <1>9, <1>11, <1>12, <1>13, <1>14, <1>15, WorkerOK


\* What a swallowed or successful write leaves of a row.
LEMMA PersistOK ==
  ASSUME Types, NEW j \in Jobs, NEW x, Persist(j, x),
         row[j] # NoRow => x \in Row
  PROVE  /\ row' \in [Jobs -> Row \cup {NoRow}] /\ lossy' \subseteq Jobs
         /\ faults' \in 0 .. MaxFaults
         /\ \A k \in Jobs \ {j} : row'[k] = row[k] /\ (k \in lossy' <=> k \in lossy)
         /\ j \in lossy => j \in lossy'
         /\ row[j] = NoRow <=> row'[j] = NoRow
         /\ row[j] # NoRow => \/ row'[j] = x
                              \/ row'[j] = row[j] /\ j \in lossy'
<1>1. CASE /\ row' = [row EXCEPT ![j] = IF @ = NoRow THEN NoRow ELSE x]
           /\ UNCHANGED <<lossy, faults>>
  BY <1>1, FixConstants DEF Types
<1>2. CASE /\ faults < MaxFaults /\ faults' = faults + 1
           /\ lossy' = lossy \cup {j} /\ UNCHANGED row
  <2>1. faults' \in 0 .. MaxFaults
    BY <1>2, FixConstants DEF Types
  <2> QED
    BY <1>2, <2>1 DEF Types
<1> QED
  BY <1>1, <1>2 DEF Persist

LEMMA SnapshotType ==
  ASSUME NEW j \in Jobs, NEW m \in Progress, row[j] \in Row
  PROVE  /\ Snapshot(j, m) \in Row
         /\ Snapshot(j, m).status = row[j].status /\ Snapshot(j, m).all = row[j].all
         /\ Snapshot(j, m).done = m.done /\ Snapshot(j, m).term = m.term
BY DEF Snapshot, Row, Progress

\* Progress of a live job that is logged: the memory first, then the row.
LEMMA LogOK ==
  ASSUME IInv, NEW j \in Jobs, Live(j), NEW m \in Progress,
         mem' = [mem EXCEPT ![j] = m], Persist(j, Snapshot(j, m)),
         mem[j].done \subseteq m.done, mem[j].term \subseteq m.term
  PROVE  /\ row' \in [Jobs -> Row \cup {NoRow}] /\ lossy' \subseteq Jobs
         /\ mem' \in [Jobs -> Progress] /\ mem'[j] = m
         /\ faults' \in 0 .. MaxFaults
         /\ \A k \in Jobs \ {j} : /\ row'[k] = row[k] /\ mem'[k] = mem[k]
                                  /\ k \in lossy' <=> k \in lossy
         /\ j \in lossy => j \in lossy'
         /\ row[j] = NoRow <=> row'[j] = NoRow
         /\ row[j] # NoRow => /\ row'[j].all = row[j].all
                              /\ row'[j].status = row[j].status
                              /\ row[j].done \subseteq row'[j].done
                              /\ row[j].term \subseteq row'[j].term
                              /\ row'[j].done \subseteq m.done
                              /\ row'[j].term \subseteq m.term
                              /\ row'[j].done = m.done \/ j \in lossy'
<1>1. /\ row \in [Jobs -> Row \cup {NoRow}] /\ mem \in [Jobs -> Progress] /\ Types
      /\ row[j] # NoRow => /\ row[j].done \subseteq mem[j].done
                           /\ row[j].term \subseteq mem[j].term
  BY DEF IInv, Types, JobInv, ProgressInv, Live, Ended
<1>2. row[j] # NoRow => row[j] \in Row
  BY <1>1
<1> DEFINE x == Snapshot(j, m)
<1>3. row[j] # NoRow => /\ x \in Row /\ x.status = row[j].status /\ x.all = row[j].all
                        /\ x.done = m.done /\ x.term = m.term
  BY <1>2, SnapshotType
<1>4. /\ row' \in [Jobs -> Row \cup {NoRow}] /\ lossy' \subseteq Jobs
      /\ faults' \in 0 .. MaxFaults
      /\ \A k \in Jobs \ {j} : row'[k] = row[k] /\ (k \in lossy' <=> k \in lossy)
      /\ j \in lossy => j \in lossy'
      /\ row[j] = NoRow <=> row'[j] = NoRow
      /\ row[j] # NoRow => \/ row'[j] = x
                           \/ row'[j] = row[j] /\ j \in lossy'
  <2> HIDE DEF x
  <2>1. Persist(j, x)
    BY DEF x
  <2> QED
    BY <1>1, <1>3, <2>1, PersistOK
<1> HIDE DEF x
<1> QED
  BY <1>1, <1>3, <1>4

\* One finding less on the list.
LEMMA LeaveCount ==
  ASSUME Types, NEW j \in Jobs, NEW f \in todo[j]
  PROVE  /\ Cardinality(todo[j]) \in Nat
         /\ Cardinality(todo[j] \ {f}) = Cardinality(todo[j]) - 1
<1>1. IsFiniteSet(todo[j])
  BY FixConstants, FS_Subset DEF Types
<1>2. Cardinality(todo[j]) \in Nat
  BY <1>1, FS_CardinalityType
<1>3. Cardinality(todo[j] \ {f}) = Cardinality(todo[j]) - 1
  BY <1>1, FS_RemoveElement
<1> QED
  BY <1>2, <1>3

\* A finding given up is logged and leaves the list.
LEMMA GiveUpOK ==
  ASSUME IInv, NEW j \in Jobs, NEW f \in Findings, NEW terminal \in BOOLEAN,
         GiveUp(j, f, terminal)
  PROVE  IInv'
<1>1. /\ task[j].pc = "next" /\ f \in todo[j] /\ Live(j) /\ mem[j] \in Progress
      /\ UNCHANGED <<home, evicted, proc, req, sent, used, charged, clean, parent, unswept,
                  crowded>>
  BY DEF GiveUp, Attempt, Live, IInv, Types
<1> DEFINE n == [mem[j] EXCEPT !.term = IF terminal THEN mem[j].term \cup {IdOf[f]}
                                                    ELSE mem[j].term]
           m == IF j \in evicted THEN mem[j] ELSE n
<1>2. /\ m \in Progress /\ m.done = mem[j].done /\ mem[j].term \subseteq m.term
      /\ m.term \subseteq mem[j].term \cup {IdOf[f]}
  <2>1. IdOf[f] \in Ids
    BY FixConstants
  <2>2. /\ n \in Progress /\ n.done = mem[j].done /\ mem[j].term \subseteq n.term
        /\ n.term \subseteq mem[j].term \cup {IdOf[f]}
    BY <1>1, <2>1 DEF Progress
  <2> HIDE DEF n
  <2> QED
    BY <1>1, <2>2
<1>3. mem' = [mem EXCEPT ![j] = m] /\ mem'[j] = m
  BY DEF GiveUp, Note, IInv, Types
<1>4. Persist(j, Snapshot(j, m))
  <2> HIDE DEF m
  <2> QED
    BY <1>3 DEF GiveUp
<1> HIDE DEF m
<1>5. /\ row' \in [Jobs -> Row \cup {NoRow}] /\ lossy' \subseteq Jobs
      /\ mem' \in [Jobs -> Progress] /\ mem'[j] = m
      /\ faults' \in 0 .. MaxFaults
      /\ \A k \in Jobs \ {j} : /\ row'[k] = row[k] /\ mem'[k] = mem[k]
                               /\ k \in lossy' <=> k \in lossy
      /\ j \in lossy => j \in lossy'
      /\ row[j] = NoRow <=> row'[j] = NoRow
      /\ row[j] # NoRow => /\ row'[j].all = row[j].all
                           /\ row'[j].status = row[j].status
                           /\ row[j].done \subseteq row'[j].done
                           /\ row[j].term \subseteq row'[j].term
                           /\ row'[j].done \subseteq m.done
                           /\ row'[j].term \subseteq m.term
                           /\ row'[j].done = m.done \/ j \in lossy'
  BY <1>1, <1>2, <1>3, <1>4, LogOK
<1>6. /\ task' = [task EXCEPT ![j] = [NoTask EXCEPT !.pc = "next"]]
      /\ todo' = [todo EXCEPT ![j] = todo[j] \ {f}]
      /\ handled' = [handled EXCEPT ![j] = handled[j] \cup {f}]
  BY DEF GiveUp, LeaveFinding, Handle
<1>7. /\ [NoTask EXCEPT !.pc = "next"] \in Task
      /\ [NoTask EXCEPT !.pc = "next"].pc = "next"
  BY FixConstants DEF NoTask, Task
<1>8. /\ task' \in [Jobs -> Task] /\ todo' \in [Jobs -> SUBSET Findings]
      /\ handled' \in [Jobs -> SUBSET Findings]
      /\ task'[j].pc = "next" /\ todo'[j] = todo[j] \ {f} /\ handled'[j] = handled[j] \cup {f}
      /\ \A k \in Jobs \ {j} : /\ task'[k] = task[k] /\ todo'[k] = todo[k]
                               /\ handled'[k] = handled[k]
  BY <1>6, <1>7 DEF IInv, Types
<1>9. Types'
  BY <1>1, <1>5, <1>8 DEF IInv, Types
<1>10. \A k \in Jobs \ {j} : JobSame(k)
  BY <1>1, <1>5, <1>8 DEF JobSame
<1>11. ProgressInv(j) /\ ListInv(j) /\ ChargeInv(j)
  BY DEF IInv, JobInv
<1>12. \A i : Through(j, i) \/ i = IdOf[f] => Through(j, i)'
  BY <1>8 DEF Through
<1>13. ProgressInv(j)'
  <2>1. ~Unused(j) /\ ~Unused(j)' /\ Live(j)' /\ ~Ended(j) /\ ~Ended(j)'
    BY <1>1, <1>8 DEF Unused, Live, Ended, NoTask
  <2>2. \A i \in m.done \cup m.term : Through(j, i)'
    BY <1>2, <1>11, <1>12 DEF ProgressInv
  <2> QED
    BY <1>1, <1>5, <1>11, <2>1, <2>2 DEF ProgressInv
<1>14. ListInv(j)'
  <2>1. row[j] # NoRow => /\ handled[j] \subseteq row[j].all /\ todo[j] \subseteq row[j].all
                          /\ row[j].all \subseteq handled[j] \cup todo[j]
    BY <1>1, <1>11 DEF ListInv, Ended
  <2>2. StatusOf(row'[j]) = "done" => \A g \in row'[j].all : Through(j, IdOf[g])'
    BY <1>5, <1>11, <1>12 DEF ListInv, StatusOf
  <2> QED
    BY <1>1, <1>5, <1>8, <2>1, <2>2 DEF ListInv
<1>15. ChargeInv(j)'
  <2>1. ASSUME NEW g \in charged[j] PROVE Known(j, g)'
    BY <1>1, <1>2, <1>5, <1>11 DEF ChargeInv, Known, Ended
  <2> QED
    BY <1>1, <1>8, <1>11, <2>1 DEF ChargeInv
<1>16. JobStep(j)
  BY <1>1, <1>5, <1>8 DEF JobStep, Ended, StatusOf
<1>17. /\ used' <= used + Cardinality(todo[j])
       /\ used' + Cardinality(todo'[j]) <= used + Cardinality(todo[j])
  <2>1. /\ Cardinality(todo[j]) \in Nat
        /\ Cardinality(todo'[j]) = Cardinality(todo[j]) - 1
    BY <1>1, <1>8, LeaveCount DEF IInv
  <2>2. used \in Nat
    BY DEF IInv, Types
  <2> QED
    BY <1>1, <2>1, <2>2
<1>18. Live(j)'
  BY <1>8 DEF Live
<1>19. StatusOf(row'[j]) = "running" /\ j \notin lossy' =>
          StatusOf(row[j]) = "running" /\ j \notin lossy
  BY <1>5 DEF StatusOf
<1>20. JobInv(j)'
  BY <1>13, <1>14, <1>15 DEF JobInv
<1> QED
  BY <1>1, <1>9, <1>10, <1>16, <1>17, <1>18, <1>19, <1>20, WorkerOK


\* A fix is logged; the finding stays on the list until it is charged.
LEMMA ReportFixOK ==
  ASSUME IInv, NEW j \in Jobs, ReportFix(j)
  PROVE  IInv'
<1>1. PICK f \in Findings : f = task[j].f /\ f \in todo[j]
  BY DEF ReportFix, IInv, JobInv, ListInv, Types
<1>2. /\ task[j].pc = "report" /\ Live(j) /\ mem[j] \in Progress /\ task[j] \in Task
      /\ UNCHANGED <<home, todo, evicted, proc, req, sent, used, charged, clean, parent,
                  unswept, crowded>>
  BY DEF ReportFix, Live, IInv, Types
<1> DEFINE n == [mem[j] EXCEPT !.done = mem[j].done \cup {IdOf[f]}]
           m == IF j \in evicted THEN mem[j] ELSE n
<1>3. /\ m \in Progress /\ m.term = mem[j].term
      /\ mem[j].done \subseteq m.done /\ m.done \subseteq mem[j].done \cup {IdOf[f]}
      /\ j \notin evicted => IdOf[f] \in m.done
  <2>1. IdOf[f] \in Ids
    BY FixConstants
  <2>2. /\ n \in Progress /\ n.done = mem[j].done \cup {IdOf[f]} /\ n.term = mem[j].term
    BY <1>2, <2>1 DEF Progress
  <2> HIDE DEF n
  <2> QED
    BY <1>2, <2>2
<1>4. mem' = [mem EXCEPT ![j] = m] /\ mem'[j] = m
  BY <1>1 DEF ReportFix, Note, IInv, Types
<1>5. Persist(j, Snapshot(j, m))
  <2> HIDE DEF m
  <2> QED
    BY <1>4 DEF ReportFix
<1> HIDE DEF m
<1>6. /\ row' \in [Jobs -> Row \cup {NoRow}] /\ lossy' \subseteq Jobs
      /\ mem' \in [Jobs -> Progress] /\ mem'[j] = m
      /\ faults' \in 0 .. MaxFaults
      /\ \A k \in Jobs \ {j} : /\ row'[k] = row[k] /\ mem'[k] = mem[k]
                               /\ k \in lossy' <=> k \in lossy
      /\ j \in lossy => j \in lossy'
      /\ row[j] = NoRow <=> row'[j] = NoRow
      /\ row[j] # NoRow => /\ row'[j].all = row[j].all
                           /\ row'[j].status = row[j].status
                           /\ row[j].done \subseteq row'[j].done
                           /\ row[j].term \subseteq row'[j].term
                           /\ row'[j].done \subseteq m.done
                           /\ row'[j].term \subseteq m.term
                           /\ row'[j].done = m.done \/ j \in lossy'
  BY <1>2, <1>3, <1>4, <1>5, LogOK
<1>7. /\ [task[j] EXCEPT !.pc = "charge"] \in Task
      /\ [task[j] EXCEPT !.pc = "charge"].pc = "charge"
      /\ [task[j] EXCEPT !.pc = "charge"].f = f
  BY <1>1, <1>2 DEF Task
<1>8. /\ task' = [task EXCEPT ![j] = [task[j] EXCEPT !.pc = "charge"]]
      /\ handled' = [handled EXCEPT ![j] = handled[j] \cup {f}]
  BY <1>1 DEF ReportFix, Handle, IInv, Types
<1>9. /\ task' \in [Jobs -> Task] /\ handled' \in [Jobs -> SUBSET Findings]
      /\ task'[j].pc = "charge" /\ task'[j].f = f /\ handled'[j] = handled[j] \cup {f}
      /\ \A k \in Jobs \ {j} : task'[k] = task[k] /\ handled'[k] = handled[k]
  BY <1>7, <1>8 DEF IInv, Types
<1>10. Types'
  BY <1>2, <1>6, <1>9 DEF IInv, Types
<1>11. \A k \in Jobs \ {j} : JobSame(k)
  BY <1>2, <1>6, <1>9 DEF JobSame
<1>12. ProgressInv(j) /\ ListInv(j) /\ ChargeInv(j)
  BY DEF IInv, JobInv
<1>13. \A i : Through(j, i) \/ i = IdOf[f] => Through(j, i)'
  BY <1>9 DEF Through
<1>14. ~Unused(j) /\ ~Unused(j)' /\ Live(j)' /\ ~Ended(j) /\ ~Ended(j)'
  BY <1>2, <1>9 DEF Unused, Live, Ended, NoTask
<1>15. ProgressInv(j)'
  <2>1. \A i \in m.done \cup m.term : Through(j, i)'
    BY <1>3, <1>12, <1>13 DEF ProgressInv
  <2> QED
    BY <1>2, <1>6, <1>12, <1>14, <2>1 DEF ProgressInv
<1>16. ListInv(j)'
  <2>1. row[j] # NoRow => /\ handled[j] \subseteq row[j].all /\ todo[j] \subseteq row[j].all
                          /\ row[j].all \subseteq handled[j] \cup todo[j]
    BY <1>12, <1>14 DEF ListInv
  <2>2. StatusOf(row'[j]) = "done" => \A g \in row'[j].all : Through(j, IdOf[g])'
    BY <1>6, <1>12, <1>13 DEF ListInv, StatusOf
  <2> QED
    BY <1>1, <1>2, <1>6, <1>9, <2>1, <2>2 DEF ListInv
<1>17. ChargeInv(j)'
  <2>1. ASSUME NEW g \in charged[j] PROVE Known(j, g)'
    <3>1. /\ j \notin evicted => IdOf[g] \in mem[j].done
          /\ j \notin lossy => row[j] # NoRow /\ IdOf[g] \in row[j].done
      BY <1>12, <1>14 DEF ChargeInv, Known
    <3>2. evicted' = evicted /\ (j \notin lossy' => j \notin lossy)
      BY <1>2, <1>6
    <3>3. j \notin evicted => IdOf[g] \in mem'[j].done
      BY <1>3, <1>6, <3>1
    <3>4. j \notin lossy' => row'[j] # NoRow /\ IdOf[g] \in row'[j].done
      BY <1>6, <3>1, <3>2
    <3> QED
      BY <3>2, <3>3, <3>4 DEF Known
  <2>2. j \notin lossy' => row'[j] # NoRow
    BY <1>6, <1>12, <1>14 DEF ProgressInv
  <2>3. /\ j \notin evicted' => IdOf[f] \in mem'[j].done
        /\ j \notin lossy' => row'[j] # NoRow /\ IdOf[f] \in row'[j].done
    BY <1>2, <1>3, <1>6, <1>12, <2>2 DEF ProgressInv
  <2>4. Known(j, task[j].f)'
    BY <1>9, <2>3 DEF Known
  <2> QED
    BY <1>2, <1>9, <1>12, <2>1, <2>4 DEF ChargeInv
<1>18. JobStep(j)
  BY <1>1, <1>2, <1>6, <1>9, <1>14 DEF JobStep, Ended, StatusOf
<1>19. /\ used' <= used + Cardinality(todo[j])
       /\ used' + Cardinality(todo'[j]) <= used + Cardinality(todo[j])
  <2>1. Cardinality(todo[j]) \in Nat
    BY <1>1, LeaveCount DEF IInv
  <2>2. used \in Nat
    BY DEF IInv, Types
  <2> QED
    BY <1>2, <2>1, <2>2
<1>20. StatusOf(row'[j]) = "running" /\ j \notin lossy' =>
          StatusOf(row[j]) = "running" /\ j \notin lossy
  BY <1>6 DEF StatusOf
<1>21. JobInv(j)'
  BY <1>15, <1>16, <1>17 DEF JobInv
<1> QED
  BY <1>2, <1>10, <1>11, <1>14, <1>18, <1>19, <1>20, <1>21, WorkerOK

\* A charge takes one task of the quota and one finding off the list.
LEMMA ChargeFixOK ==
  ASSUME IInv, NEW j \in Jobs, ChargeFix(j)
  PROVE  IInv'
<1>1. PICK f \in Findings : f = task[j].f /\ f \in todo[j] /\ f \in handled[j] /\ Known(j, f)
  BY DEF ChargeFix, IInv, JobInv, ListInv, ChargeInv, Types
<1>2. /\ task[j].pc = "charge" /\ Live(j)
      /\ UNCHANGED <<row, mem, home, evicted, proc, req, sent, handled, clean, parent, lossy,
                  unswept, crowded>>
  BY DEF ChargeFix, Live
<1>3. /\ task' = [task EXCEPT ![j] = [NoTask EXCEPT !.pc = "next"]]
      /\ todo' = [todo EXCEPT ![j] = todo[j] \ {f}]
  BY <1>1 DEF ChargeFix, LeaveFinding
<1>4. /\ [NoTask EXCEPT !.pc = "next"] \in Task
      /\ [NoTask EXCEPT !.pc = "next"].pc = "next"
  BY FixConstants DEF NoTask, Task
<1>5. /\ task' \in [Jobs -> Task] /\ todo' \in [Jobs -> SUBSET Findings]
      /\ task'[j].pc = "next" /\ todo'[j] = todo[j] \ {f}
      /\ \A k \in Jobs \ {j} : task'[k] = task[k] /\ todo'[k] = todo[k]
  BY <1>3, <1>4 DEF IInv, Types
<1>6. /\ used' \in Nat /\ used' \in {used, used + 1} /\ faults' \in 0 .. MaxFaults
  BY FixConstants DEF ChargeFix, IInv, Types
<1>7. /\ charged' \in [Jobs -> SUBSET Findings]
      /\ charged'[j] \in {charged[j], charged[j] \cup {f}}
      /\ \A k \in Jobs \ {j} : charged'[k] = charged[k]
  <2>1. charged' = charged \/ charged' = [charged EXCEPT ![j] = charged[j] \cup {f}]
    BY <1>1 DEF ChargeFix
  <2> QED
    BY <2>1 DEF IInv, Types
<1>8. Types'
  BY <1>2, <1>5, <1>6, <1>7 DEF IInv, Types
<1>9. \A k \in Jobs \ {j} : JobSame(k)
  BY <1>2, <1>5, <1>7 DEF JobSame
<1>10. ProgressInv(j) /\ ListInv(j) /\ ChargeInv(j)
  BY DEF IInv, JobInv
<1>11. ~Unused(j) /\ ~Unused(j)' /\ Live(j)' /\ ~Ended(j) /\ ~Ended(j)'
  BY <1>2, <1>5 DEF Unused, Live, Ended, NoTask
<1>12. ProgressInv(j)'
  BY <1>2, <1>10, <1>11 DEF ProgressInv, Through
<1>13. ListInv(j)'
  BY <1>1, <1>2, <1>5, <1>10, <1>11 DEF ListInv, Through
<1>14. ChargeInv(j)'
  BY <1>1, <1>2, <1>5, <1>7, <1>10, <1>11 DEF ChargeInv, Known
<1>15. JobStep(j)
  BY <1>2, <1>5, <1>11 DEF JobStep
<1>16. /\ used' <= used + Cardinality(todo[j])
       /\ used' + Cardinality(todo'[j]) <= used + Cardinality(todo[j])
  <2>1. Cardinality(todo[j]) \in Nat /\ Cardinality(todo'[j]) = Cardinality(todo[j]) - 1
    BY <1>1, <1>5, LeaveCount DEF IInv
  <2>2. used \in Nat /\ Cardinality(todo'[j]) \in Nat
    <3>1. todo'[j] \in SUBSET Findings
      BY <1>5
    <3> QED
      BY <3>1, FixConstants, FS_Subset, FS_CardinalityType DEF IInv, Types
  <2> QED
    BY <1>6, <2>1, <2>2
<1>17. JobInv(j)'
  BY <1>12, <1>13, <1>14 DEF JobInv
<1> QED
  BY <1>2, <1>8, <1>9, <1>11, <1>15, <1>16, <1>17, WorkerOK


-----------------------------------------------------------------------------
(* Steps that stop workers.                                                *)

Halted(j) == /\ task'[j].pc = "ended" /\ todo'[j] = {}
             /\ mem'[j] = NoProgress /\ home'[j] = NoOne /\ j \notin evicted'

LEMMA EndTasksOK ==
  ASSUME Types, NEW js \in SUBSET Jobs, EndTasks(js)
  PROVE  /\ task' \in [Jobs -> Task] /\ todo' \in [Jobs -> SUBSET Findings]
         /\ mem' \in [Jobs -> Progress] /\ home' \in [Jobs -> Workers \cup {NoOne}]
         /\ \A j \in js : Halted(j)
         /\ evicted' \subseteq Jobs
         /\ \A j \in Jobs \ js : /\ task'[j] = task[j] /\ todo'[j] = todo[j]
                                 /\ mem'[j] = mem[j] /\ home'[j] = home[j]
                                 /\ j \in evicted' <=> j \in evicted
<1> DEFINE t == [NoTask EXCEPT !.pc = "ended"]
<1>1. t \in Task /\ t.pc = "ended" /\ NoProgress \in Progress
  BY FixConstants DEF NoTask, Task, NoProgress, Progress
<1>2. task' = [j \in Jobs |-> IF j \in js THEN t ELSE task[j]]
  BY DEF EndTasks
<1> HIDE DEF t
<1> QED
  BY <1>1, <1>2 DEF EndTasks, Types, Halted

LEMMA ClosedType ==
  ASSUME Types, NEW j \in Jobs, NEW status \in Statuses, row[j] # NoRow
  PROVE  LET x == Closed(j, status) IN
         /\ x \in Row /\ x.status = status /\ x.all = row[j].all
         /\ x.done = mem[j].done /\ x.term = mem[j].term
<1>1. row[j] \in Row /\ mem[j] \in Progress
  BY DEF Types
<1> QED
  BY <1>1 DEF Closed, Row, Progress

\* A job whose worker stops: its row is left alone, or closed with what the
\* memory says.
LEMMA HaltOK ==
  ASSUME IInv, NEW j \in Jobs, ~Unused(j), Halted(j),
         handled'[j] = handled[j], charged'[j] = charged[j], parent'[j] = parent[j],
         clean' = clean, j \in lossy => j \in lossy', Ended(j) => (j \in lossy' => j \in lossy),
         row[j] = NoRow <=> row'[j] = NoRow,
         \/ row'[j] = row[j]
         \/ /\ ~Ended(j) /\ row[j] # NoRow
            /\ \E status \in {"done", "failed", "orphaned"} :
                  /\ row'[j] = Closed(j, status)
                  /\ status = "done" => todo[j] = {}
  PROVE  /\ JobInv(j)' /\ JobStep(j)
         /\ StatusOf(row'[j]) = "running" => StatusOf(row[j]) = "running"
<1>1. ProgressInv(j) /\ ListInv(j) /\ ChargeInv(j) /\ Types
  BY DEF IInv, JobInv
<1>2. Ended(j)' /\ ~Unused(j)' /\ ~Live(j)' /\ todo'[j] = {}
      /\ mem'[j].done = {} /\ mem'[j].term = {} /\ task'[j].pc = "ended"
      /\ j \notin evicted' /\ home'[j] = NoOne
  BY DEF Halted, Ended, Unused, Live, NoTask, NoProgress
<1>3. \A i : Through(j, i)' <=> Through(j, i)
  BY DEF Through
<1>4. row[j] # NoRow =>
        /\ row'[j] # NoRow /\ row'[j].all = row[j].all
        /\ row[j].done \subseteq row'[j].done /\ row[j].term \subseteq row'[j].term
        /\ Ended(j) => row'[j] = row[j]
        /\ ~Ended(j) => row'[j] = row[j]
                        \/ /\ row'[j].done = mem[j].done /\ row'[j].term = mem[j].term
                           /\ row'[j].status \in {"done", "failed", "orphaned"}
                           /\ row'[j].status = "done" => todo[j] = {}
  <2> SUFFICES ASSUME row[j] # NoRow, row'[j] # row[j]
               PROVE  /\ row'[j] # NoRow /\ row'[j].all = row[j].all
                      /\ row'[j].done = mem[j].done /\ row'[j].term = mem[j].term
                      /\ row'[j].status \in {"done", "failed", "orphaned"}
                      /\ row'[j].status = "done" => todo[j] = {}
    BY <1>1 DEF ProgressInv
  <2>1. PICK status \in {"done", "failed", "orphaned"} :
               row'[j] = Closed(j, status) /\ (status = "done" => todo[j] = {})
    OBVIOUS
  <2>2. status \in Statuses
    BY DEF Statuses
  <2>3. /\ row'[j].all = row[j].all /\ row'[j].status = status
        /\ row'[j].done = mem[j].done /\ row'[j].term = mem[j].term
    BY <1>1, <2>1, <2>2, ClosedType
  <2> QED
    BY <2>1, <2>3
<1>5. ProgressInv(j)'
  <2>1. row'[j] # NoRow => \A i \in row'[j].done \cup row'[j].term : Through(j, i)
    BY <1>1, <1>4 DEF ProgressInv
  <2> QED
    BY <1>1, <1>2, <1>3, <1>4, <2>1 DEF ProgressInv
<1>6. ListInv(j)'
  <2>1. row'[j] # NoRow => handled'[j] \subseteq row'[j].all /\ todo'[j] \subseteq row'[j].all
    BY <1>1, <1>2, <1>4 DEF ListInv
  <2>2. ASSUME StatusOf(row'[j]) = "done" PROVE \A f \in row'[j].all : Through(j, IdOf[f])
    <3>1. row[j] # NoRow /\ row'[j] # NoRow /\ row'[j].status = "done"
      BY <2>2 DEF StatusOf
    <3>2. CASE row'[j] = row[j]
      BY <1>1, <2>2, <3>2 DEF ListInv
    <3>3. CASE row'[j] # row[j]
      <4>1. ~Ended(j) /\ todo[j] = {}
        BY <1>4, <3>1, <3>3
      <4>2. row'[j].all \subseteq handled[j]
        BY <1>1, <1>4, <3>1, <4>1 DEF ListInv
      <4> QED
        BY <4>2 DEF Through
    <3> QED
      BY <3>2, <3>3
  <2> QED
    BY <1>2, <1>3, <2>1, <2>2 DEF ListInv
<1>7. ChargeInv(j)'
  <2>1. ASSUME NEW f \in charged[j] PROVE Known(j, f)'
    <3>1. Known(j, f)
      BY <1>1 DEF ChargeInv
    <3> QED
      BY <1>2, <1>4, <3>1 DEF Known
  <2> QED
    BY <1>1, <1>2, <2>1 DEF ChargeInv
<1>8. JobStep(j)
  BY <1>2, <1>4 DEF JobStep, StatusOf
<1>9. StatusOf(row'[j]) = "running" => StatusOf(row[j]) = "running"
  BY <1>4 DEF StatusOf
<1> QED
  BY <1>5, <1>6, <1>7, <1>8, <1>9 DEF JobInv

\* A worker that ends by itself.
LEMMA CloseOK ==
  ASSUME IInv, NEW j \in Jobs, Live(j), EndTasks({j}),
         row' \in [Jobs -> Row \cup {NoRow}], lossy' \subseteq Jobs, faults' \in 0 .. MaxFaults,
         \A k \in Jobs \ {j} : row'[k] = row[k] /\ (k \in lossy' <=> k \in lossy),
         j \in lossy => j \in lossy', row[j] = NoRow <=> row'[j] = NoRow,
         \/ row'[j] = row[j] /\ (row[j] = NoRow \/ j \in lossy')
         \/ /\ row[j] # NoRow
            /\ \E status \in {"done", "failed"} : /\ row'[j] = Closed(j, status)
                                                  /\ status = "done" => todo[j] = {},
         UNCHANGED <<proc, req, sent, used, handled, charged, clean, parent, unswept, crowded>>
  PROVE  IInv'
<1>1. ~Unused(j) /\ ~Ended(j)
  BY DEF Live, Unused, Ended, NoTask
<1>2. /\ task' \in [Jobs -> Task] /\ todo' \in [Jobs -> SUBSET Findings]
      /\ mem' \in [Jobs -> Progress] /\ home' \in [Jobs -> Workers \cup {NoOne}]
      /\ Halted(j) /\ evicted' \subseteq Jobs
      /\ \A k \in Jobs \ {j} : /\ task'[k] = task[k] /\ todo'[k] = todo[k]
                               /\ mem'[k] = mem[k] /\ home'[k] = home[k]
                               /\ k \in evicted' <=> k \in evicted
  BY EndTasksOK DEF IInv
<1>3. Types'
  BY <1>2 DEF IInv, Types
<1>4. \A k \in Jobs \ {j} : JobSame(k)
  BY <1>2 DEF JobSame
<1>5. JobInv(j)' /\ JobStep(j)
  <2>1. \/ row'[j] = row[j]
        \/ /\ ~Ended(j) /\ row[j] # NoRow
           /\ \E status \in {"done", "failed", "orphaned"} :
                 /\ row'[j] = Closed(j, status)
                 /\ status = "done" => todo[j] = {}
    BY <1>1
  <2> QED
    BY <1>1, <1>2, <2>1, HaltOK
<1>6. ~Live(j)'
  BY <1>2 DEF Halted, Live
<1>7. ~(StatusOf(row'[j]) = "running" /\ j \notin lossy')
  <2>1. CASE row'[j] = row[j] /\ (row[j] = NoRow \/ j \in lossy')
    BY <2>1 DEF StatusOf
  <2>2. CASE row[j] # NoRow /\ \E status \in {"done", "failed"} : row'[j] = Closed(j, status)
    <3>1. \A status \in {"done", "failed"} : status \in Statuses /\ status # "running"
      BY DEF Statuses
    <3> QED
      BY <2>2, <3>1, ClosedType DEF IInv, StatusOf
  <2> QED
    BY <2>1, <2>2
<1>8. used' <= used + Cardinality(todo[j])
  <2>1. Cardinality(todo[j]) \in Nat
    BY FixConstants, FS_Subset, FS_CardinalityType DEF IInv, Types
  <2> QED
    BY <2>1 DEF IInv, Types
<1> QED
  BY <1>3, <1>4, <1>5, <1>6, <1>7, <1>8, WorkerOK

LEMMA CloseDoneOK ==
  ASSUME IInv, NEW j \in Jobs, CloseDone(j)
  PROVE  IInv'
<1>1. /\ Live(j) /\ todo[j] = {} /\ EndTasks({j}) /\ Persist(j, Closed(j, "done"))
      /\ UNCHANGED <<proc, req, sent, used, handled, charged, clean, parent, unswept, crowded>>
  BY DEF CloseDone, Live
<1> DEFINE x == Closed(j, "done")
<1>2. Types /\ (row[j] # NoRow => x \in Row)
  <2>1. "done" \in Statuses
    BY DEF Statuses
  <2> QED
    BY <2>1, ClosedType DEF IInv
<1> HIDE DEF x
<1>3. Persist(j, x)
  BY <1>1 DEF x
<1>4. /\ row' \in [Jobs -> Row \cup {NoRow}] /\ lossy' \subseteq Jobs
      /\ faults' \in 0 .. MaxFaults
      /\ \A k \in Jobs \ {j} : row'[k] = row[k] /\ (k \in lossy' <=> k \in lossy)
      /\ j \in lossy => j \in lossy'
      /\ row[j] = NoRow <=> row'[j] = NoRow
      /\ row[j] # NoRow => \/ row'[j] = x
                           \/ row'[j] = row[j] /\ j \in lossy'
  BY <1>2, <1>3, PersistOK
<1>5. \/ row'[j] = row[j] /\ (row[j] = NoRow \/ j \in lossy')
      \/ /\ row[j] # NoRow
         /\ \E status \in {"done", "failed"} : /\ row'[j] = Closed(j, status)
                                               /\ status = "done" => todo[j] = {}
  BY <1>1, <1>4 DEF x
<1> QED
  BY <1>1, <1>4, <1>5, CloseOK

LEMMA WorkerExceptionOK ==
  ASSUME IInv, NEW j \in Jobs, WorkerException(j)
  PROVE  IInv'
<1>1. /\ Live(j) /\ EndTasks({j})
      /\ row' = [row EXCEPT ![j] = IF row[j] = NoRow THEN NoRow ELSE Closed(j, "failed")]
      /\ faults < MaxFaults /\ faults' = faults + 1
      /\ UNCHANGED <<proc, req, sent, used, handled, charged, clean, parent, unswept, crowded>>
      /\ lossy' = lossy
  BY DEF WorkerException, Live, ghostVars
<1> DEFINE x == Closed(j, "failed")
<1>2. row[j] # NoRow => x \in Row
  <2>1. "failed" \in Statuses
    BY DEF Statuses
  <2> QED
    BY <2>1, ClosedType DEF IInv
<1>3. row' = [row EXCEPT ![j] = IF row[j] = NoRow THEN NoRow ELSE x]
  BY <1>1
<1> HIDE DEF x
<1>4. /\ row' \in [Jobs -> Row \cup {NoRow}] /\ lossy' \subseteq Jobs
      /\ \A k \in Jobs \ {j} : row'[k] = row[k]
      /\ row[j] = NoRow <=> row'[j] = NoRow
      /\ row'[j] = IF row[j] = NoRow THEN NoRow ELSE x
  BY <1>1, <1>2, <1>3, FixConstants DEF IInv, Types
<1>5. \/ row'[j] = row[j] /\ (row[j] = NoRow \/ j \in lossy')
      \/ /\ row[j] # NoRow
         /\ \E status \in {"done", "failed"} : /\ row'[j] = Closed(j, status)
                                               /\ status = "done" => todo[j] = {}
  BY <1>4 DEF x
<1>6. faults' \in 0 .. MaxFaults
  BY <1>1, FixConstants DEF IInv, Types
<1> QED
  BY <1>1, <1>4, <1>5, <1>6, CloseOK


\* A job that leaves the process's table keeps what its row says of it.
LEMMA EvictOK ==
  ASSUME IInv, NEW j \in Jobs, Evict(j)
  PROVE  IInv'
<1> DEFINE m == IF row[j] = NoRow THEN NoProgress
                ELSE [done |-> row[j].done, term |-> row[j].term]
<1>1. /\ home[j] # NoOne /\ faults < MaxFaults /\ faults' = faults + 1
      /\ evicted' = evicted \cup {j} /\ lossy' = lossy \cup {j}
      /\ mem' = [mem EXCEPT ![j] = m]
      /\ UNCHANGED <<row, home, task, todo, proc, req, sent, used, handled, charged, clean,
                     parent, unswept, crowded>>
  BY DEF Evict
<1>2. m \in Progress /\ (row[j] = NoRow => m.done = {} /\ m.term = {})
      /\ (row[j] # NoRow => m.done = row[j].done /\ m.term = row[j].term)
  <2>1. row[j] # NoRow => row[j] \in Row
    BY DEF IInv, Types
  <2> QED
    BY <2>1 DEF Progress, NoProgress, Row
<1> HIDE DEF m
<1>3. mem' \in [Jobs -> Progress] /\ mem'[j] = m /\ \A k \in Jobs \ {j} : mem'[k] = mem[k]
  BY <1>1, <1>2 DEF IInv, Types
<1>4. faults' \in 0 .. MaxFaults
  BY <1>1, FixConstants DEF IInv, Types
<1>5. Types'
  BY <1>1, <1>3, <1>4 DEF IInv, Types
<1>6. ProgressInv(j) /\ ListInv(j) /\ ChargeInv(j)
  BY DEF IInv, JobInv
<1>7. /\ ~Unused(j) /\ ~Unused(j)' /\ (Ended(j)' <=> Ended(j)) /\ (Live(j)' <=> Live(j))
      /\ \A i : Through(j, i)' <=> Through(j, i)
  BY <1>1 DEF Unused, Ended, Live, Through
<1>8. ~Ended(j)
  BY <1>1 DEF IInv, JobInv, ProgressInv
<1>9. JobInv(j)' /\ JobStep(j)
  <2>1. ProgressInv(j)'
    BY <1>1, <1>2, <1>3, <1>6, <1>7 DEF ProgressInv
  <2>2. ListInv(j)'
    BY <1>1, <1>6, <1>7 DEF ListInv
  <2>3. ChargeInv(j)'
    BY <1>1, <1>6, <1>7 DEF ChargeInv, Known
  <2>4. JobStep(j)
    BY <1>1, <1>8 DEF JobStep
  <2> QED
    BY <2>1, <2>2, <2>3, <2>4 DEF JobInv
<1>10. \A k \in Jobs : JobInv(k)' /\ JobStep(k)
  <2>1. \A k \in Jobs \ {j} : JobSame(k)
    BY <1>1, <1>3 DEF JobSame
  <2> QED
    BY <1>9, <2>1, SameOK DEF IInv
<1>11. RestartInv'
  BY <1>1, <1>10, RestartStep
<1>12. RunningRowIsOwned'
  BY <1>1, RunningStep DEF IInv, Live
<1>13. QuotaInv'
  BY <1>1 DEF IInv, QuotaInv, Holds, Claim, Live
<1> QED
  BY <1>5, <1>10, <1>11, <1>12, <1>13 DEF IInv

\* A process that goes away takes its workers and its request with it.
LEMMA LoseProcessOK ==
  ASSUME IInv, NEW w \in Workers, LoseProcess(w), row' \in [Jobs -> Row \cup {NoRow}],
         \A j \in Jobs : \/ row'[j] = row[j]
                         \/ /\ home[j] = w /\ Live(j) /\ row[j] # NoRow
                            /\ row'[j] = Closed(j, "orphaned")
  PROVE  IInv'
<1> DEFINE js == {j \in Jobs : home[j] = w}
<1>1. /\ EndTasks(js) /\ faults < MaxFaults /\ faults' = faults + 1
      /\ proc' = [proc EXCEPT ![w] = "down"] /\ req' = [req EXCEPT ![w] = Idle]
      /\ UNCHANGED <<sent, used, handled, charged, clean, parent, lossy, unswept, crowded>>
  BY DEF LoseProcess, ghostVars
<1>2. /\ task' \in [Jobs -> Task] /\ todo' \in [Jobs -> SUBSET Findings]
      /\ mem' \in [Jobs -> Progress] /\ home' \in [Jobs -> Workers \cup {NoOne}]
      /\ \A j \in js : Halted(j)
      /\ evicted' \subseteq Jobs
      /\ \A j \in Jobs \ js : /\ task'[j] = task[j] /\ todo'[j] = todo[j]
                              /\ mem'[j] = mem[j] /\ home'[j] = home[j]
                              /\ j \in evicted' <=> j \in evicted
  BY <1>1, EndTasksOK DEF IInv
<1>3. faults' \in 0 .. MaxFaults
  BY <1>1, FixConstants DEF IInv, Types
<1>4. Types'
  BY <1>1, <1>2, <1>3, IdleType DEF IInv, Types
<1>5. \A s \in Workers : req'[s] = IF s = w THEN Idle ELSE req[s]
  BY <1>1 DEF IInv, Types
<1>6. ASSUME NEW j \in Jobs PROVE JobInv(j)' /\ JobStep(j)
  <2>1. CASE home[j] # w
    <3>1. JobSame(j)
      BY <1>1, <1>2, <2>1 DEF JobSame
    <3> QED
      BY <3>1, SameOK DEF IInv
  <2>2. CASE home[j] = w
    <3>1. ~Unused(j) /\ Halted(j)
      BY <1>2, <2>2, FixConstants DEF Unused
    <3>2. Closed(j, "orphaned") # NoRow \/ row[j] = NoRow
      <4>1. "orphaned" \in Statuses
        BY DEF Statuses
      <4> QED
        BY <4>1, ClosedType, FixConstants DEF IInv
    <3>3. row[j] = NoRow <=> row'[j] = NoRow
      BY <3>2
    <3>4. \/ row'[j] = row[j]
          \/ /\ ~Ended(j) /\ row[j] # NoRow
             /\ \E status \in {"done", "failed", "orphaned"} :
                   /\ row'[j] = Closed(j, status)
                   /\ status = "done" => todo[j] = {}
      <4>1. Live(j) => ~Ended(j)
        BY DEF Live, Ended
      <4> QED
        BY <4>1
    <3> QED
      BY <1>1, <3>1, <3>3, <3>4, HaltOK
  <2> QED
    BY <2>1, <2>2
<1>7. RestartInv'
  <2>1. ASSUME NEW s \in Workers, req'[s].pc = "mark"
        PROVE  /\ home'[req[s].new] = home[req[s].new]
               /\ task'[req[s].new] = task[req[s].new]
    <3>1. s # w /\ req'[s] = req[s]
      BY <1>5, <2>1 DEF Idle
    <3>2. req[s].new \in Jobs /\ home[req[s].new] = s
      BY <2>1, <3>1 DEF IInv, RestartInv
    <3> QED
      BY <1>2, <3>1, <3>2
  <2>2. \A s \in Workers : req'[s].pc \in {"restart", "mark"} => req'[s] = req[s]
    BY <1>5 DEF Idle
  <2> QED
    BY <1>1, <1>6, <2>1, <2>2, RestartStep
<1>8. RunningRowIsOwned'
  <2>1. proc'[w] = "down"
    BY <1>1 DEF IInv, Types
  <2> QED
    BY <2>1 DEF RunningRowIsOwned
<1>9. QuotaInv'
  <2>1. \A s \in Workers : /\ Holds(s)' => Holds(s) /\ Claim(s)' = Claim(s)
                           /\ req'[s].pc = "mark" => req[s].pc = "mark"
    BY <1>5 DEF Holds, Claim, Idle
  <2>2. \A j \in Jobs : Live(j)' => Live(j) /\ todo'[j] = todo[j]
    BY <1>2 DEF Halted, Live
  <2> QED
    BY <1>1, <2>1, <2>2 DEF IInv, QuotaInv
<1> QED
  BY <1>4, <1>6, <1>7, <1>8, <1>9 DEF IInv

LEMMA CrashOK ==
  ASSUME IInv, NEW w \in Workers, Crash(w)
  PROVE  IInv'
BY LoseProcessOK DEF Crash, IInv, Types

LEMMA ShutdownOK ==
  ASSUME IInv, NEW w \in Workers, Shutdown(w)
  PROVE  IInv'
<1>1. row' = [j \in Jobs |-> IF home[j] = w /\ Live(j) /\ row[j] # NoRow
                             THEN Closed(j, "orphaned") ELSE row[j]]
  BY DEF Shutdown
<1>2. \A j \in Jobs : row[j] # NoRow => Closed(j, "orphaned") \in Row
  <2>1. "orphaned" \in Statuses
    BY DEF Statuses
  <2> QED
    BY <2>1, ClosedType DEF IInv
<1>3. row' \in [Jobs -> Row \cup {NoRow}]
  BY <1>1, <1>2 DEF IInv, Types
<1>4. \A j \in Jobs : \/ row'[j] = row[j]
                      \/ /\ home[j] = w /\ Live(j) /\ row[j] # NoRow
                         /\ row'[j] = Closed(j, "orphaned")
  BY <1>1
<1> QED
  BY <1>3, <1>4, LoseProcessOK DEF Shutdown

-----------------------------------------------------------------------------
(* Steps that only touch the status of a row, or start a worker.           *)

LEMMA TouchOK ==
  ASSUME IInv, NEW j \in Jobs,
         \/ row'[j] = row[j]
         \/ /\ row[j] # NoRow
            /\ \E s \in Statuses : /\ row'[j] = [row[j] EXCEPT !.status = s]
                                   /\ s = "done" => Remaining(row[j]) = {}
                                   /\ s = "restarted" => \E k \in Jobs : parent[k] = j,
         \/ task'[j] = task[j]
         \/ task[j] = NoTask /\ home[j] # NoOne /\ task'[j].pc = "next",
         mem'[j] = mem[j], home'[j] = home[j], todo'[j] = todo[j],
         UNCHANGED <<handled, charged, parent, clean, lossy, evicted>>
  PROVE  JobInv(j)' /\ JobStep(j)
<1>1. ProgressInv(j) /\ ListInv(j) /\ ChargeInv(j) /\ row[j] \in Row \cup {NoRow}
  BY DEF IInv, JobInv, Types
<1>2. /\ row'[j] = NoRow <=> row[j] = NoRow
      /\ row[j] # NoRow =>
            /\ row'[j].all = row[j].all
            /\ row'[j].done = row[j].done /\ row'[j].term = row[j].term
            /\ row'[j].status = "done" => row[j].status = "done" \/ Remaining(row[j]) = {}
            /\ row'[j].status = "restarted" => row[j].status = "restarted"
                                               \/ \E k \in Jobs : parent[k] = j
  <2>1. CASE row'[j] = row[j]
    BY <2>1
  <2>2. CASE row'[j] # row[j]
    <3>1. PICK s \in Statuses : /\ row'[j] = [row[j] EXCEPT !.status = s]
                                /\ s = "done" => Remaining(row[j]) = {}
                                /\ s = "restarted" => \E k \in Jobs : parent[k] = j
      BY <2>2
    <3>2. row[j] \in Row
      BY <1>1, <2>2
    <3>3. /\ row'[j] \in Row /\ row'[j].status = s /\ row'[j].all = row[j].all
          /\ row'[j].done = row[j].done /\ row'[j].term = row[j].term
      BY <3>1, <3>2 DEF Row
    <3> QED
      BY <3>1, <3>2, <3>3, FixConstants
  <2> QED
    BY <2>1, <2>2
<1>3. /\ Ended(j)' <=> Ended(j)
      /\ Unused(j)' <=> Unused(j)
      /\ task'[j] # task[j] => home[j] # NoOne /\ task'[j].pc = "next"
      /\ Live(j)' => home[j] # NoOne
  BY <1>1 DEF Ended, Unused, Live, NoTask, ProgressInv
<1>4. \A i : Through(j, i)' <=> Through(j, i)
  BY DEF Through
<1>5. ProgressInv(j)'
  BY <1>1, <1>2, <1>3, <1>4 DEF ProgressInv
<1>6. ListInv(j)'
  <2>1. ASSUME StatusOf(row'[j]) = "done", NEW f \in row'[j].all
        PROVE  Through(j, IdOf[f])
    <3>1. row[j] # NoRow /\ row'[j].status = "done" /\ f \in row[j].all
      BY <1>2, <2>1 DEF StatusOf
    <3>2. CASE row[j].status = "done"
      BY <1>1, <3>1, <3>2 DEF ListInv, StatusOf
    <3>3. CASE Remaining(row[j]) = {}
      <4>1. IdOf[f] \in row[j].done \cup row[j].term
        BY <3>1, <3>3 DEF Remaining
      <4> QED
        BY <1>1, <3>1, <4>1 DEF ProgressInv
    <3> QED
      BY <1>2, <3>1, <3>2, <3>3
  <2> QED
    BY <1>1, <1>2, <1>3, <1>4, <2>1 DEF ListInv
<1>7. ChargeInv(j)'
  <2>1. \A f : Known(j, f) => Known(j, f)'
    BY <1>2, <1>3 DEF Known
  <2> QED
    BY <1>1, <1>3, <2>1 DEF ChargeInv
<1>8. JobStep(j)
  BY <1>1, <1>2, <1>3 DEF JobStep, Ended, StatusOf
<1> QED
  BY <1>5, <1>6, <1>7, <1>8 DEF JobInv


LEMMA BootOK ==
  ASSUME IInv, NEW w \in Workers, Boot(w)
  PROVE  IInv'
<1>1. /\ proc[w] = "down" /\ proc' = [proc EXCEPT ![w] = "booting"]
      /\ UNCHANGED <<jobVars, handled, charged, clean, parent, lossy, unswept>>
      /\ UNCHANGED <<req, sent, used, crowded, faults>>
  BY DEF Boot, ghostVars
<1>2. Types'
  BY <1>1 DEF IInv, Types, jobVars
<1>3. \A j \in Jobs : JobInv(j)' /\ JobStep(j)
  BY <1>1, JobsSame DEF IInv
<1>4. RestartInv'
  BY <1>1, <1>3, RestartStep DEF jobVars
<1>5. RunningRowIsOwned'
  <2>1. proc'[w] = "booting"
    BY <1>1 DEF IInv, Types
  <2> QED
    BY <2>1 DEF RunningRowIsOwned
<1>6. QuotaInv'
  BY <1>1 DEF IInv, QuotaInv, Holds, Claim, Live, jobVars
<1> QED
  BY <1>2, <1>3, <1>4, <1>5, <1>6 DEF IInv

LEMMA OrphanSweepOK ==
  ASSUME IInv, NEW w \in Workers, OrphanSweep(w)
  PROVE  IInv'
<1>1. /\ proc' = [proc EXCEPT ![w] = "up"]
      /\ UNCHANGED <<mem, home, task, todo, evicted, handled, charged, clean, parent, lossy>>
      /\ UNCHANGED <<req, sent, used, crowded>>
  BY DEF OrphanSweep
<1>2. ASSUME NEW j \in Jobs, StatusOf(row[j]) = "running"
      PROVE  LET x == [row[j] EXCEPT !.status = "orphaned"]
             IN  row[j] # NoRow /\ x \in Row /\ x.status = "orphaned"
  <2>1. row[j] # NoRow
    BY <1>2 DEF StatusOf
  <2>2. row[j] \in Row
    BY <2>1 DEF IInv, Types
  <2> QED
    BY <2>1, <2>2 DEF Row, Statuses
<1>3. \/ /\ row' = [j \in Jobs |-> IF StatusOf(row[j]) = "running"
                                   THEN [row[j] EXCEPT !.status = "orphaned"] ELSE row[j]]
         /\ UNCHANGED <<unswept, faults>>
      \/ /\ faults < MaxFaults /\ faults' = faults + 1 /\ row' = row
         /\ unswept' = unswept \cup {j \in Jobs : StatusOf(row[j]) = "running" /\ ~Owned(j)}
  BY DEF OrphanSweep
<1>4. row' \in [Jobs -> Row \cup {NoRow}]
  BY <1>2, <1>3 DEF IInv, Types
<1>5. faults' \in 0 .. MaxFaults /\ unswept' \subseteq Jobs
  BY <1>3, FixConstants DEF IInv, Types
<1>6. Types'
  BY <1>1, <1>4, <1>5 DEF IInv, Types
<1>7. ASSUME NEW j \in Jobs PROVE JobInv(j)' /\ JobStep(j)
  <2>1. \/ row'[j] = row[j]
        \/ /\ row[j] # NoRow
           /\ \E s \in Statuses : /\ row'[j] = [row[j] EXCEPT !.status = s]
                                  /\ s = "done" => Remaining(row[j]) = {}
                                  /\ s = "restarted" => \E k \in Jobs : parent[k] = j
    <3>1. "orphaned" \in Statuses
      BY DEF Statuses
    <3> QED
      BY <1>2, <1>3, <3>1
  <2> QED
    BY <1>1, <2>1, TouchOK
<1>8. RestartInv'
  BY <1>1, <1>7, RestartStep
<1>9. RunningRowIsOwned'
  <2>1. CASE row' = row
    <3>1. \A j \in Jobs : Owned(j)' <=> Owned(j)
      BY <1>1 DEF Owned, Live
    <3>2. \A j \in Jobs : StatusOf(row[j]) = "running" /\ j \notin unswept' => Owned(j)
      BY <1>2, <1>3, <2>1, FixConstants DEF StatusOf
    <3> QED
      BY <2>1, <3>1, <3>2 DEF RunningRowIsOwned
  <2>2. CASE row' # row
    <3>1. \A j \in Jobs : StatusOf(row'[j]) # "running"
      BY <1>2, <1>3, <2>2, FixConstants DEF StatusOf
    <3> QED
      BY <3>1 DEF RunningRowIsOwned
  <2> QED
    BY <2>1, <2>2
<1>10. QuotaInv'
  BY <1>1 DEF IInv, QuotaInv, Holds, Claim, Live
<1> QED
  BY <1>6, <1>7, <1>8, <1>9, <1>10 DEF IInv

\* A restart that flips its old row.
LEMMA FlipOK ==
  ASSUME IInv, NEW j \in Jobs, NEW s \in Statuses, Flip(j, s), row[j] # NoRow
  PROVE  /\ row' \in [Jobs -> Row \cup {NoRow}] /\ faults' \in 0 .. MaxFaults
         /\ \A k \in Jobs \ {j} : row'[k] = row[k]
         /\ row'[j] = row[j] \/ row'[j] = [row[j] EXCEPT !.status = s]
         /\ s # "running" => \A k \in Jobs : StatusOf(row'[k]) = "running" => row'[k] = row[k]
<1>1. row[j] \in Row
  BY DEF IInv, Types
<1> DEFINE x == [row[j] EXCEPT !.status = s]
<1>2. x \in Row /\ x.status = s
  BY <1>1 DEF Row
<1>3. row' = [row EXCEPT ![j] = x] \/ row' = row
  BY DEF Flip, IInv, Types
<1>4. faults' \in 0 .. MaxFaults
  BY FixConstants DEF Flip, IInv, Types
<1>5. /\ row' \in [Jobs -> Row \cup {NoRow}]
      /\ \A k \in Jobs \ {j} : row'[k] = row[k]
      /\ row'[j] = row[j] \/ row'[j] = x
  <2> HIDE DEF x
  <2> QED
    BY <1>2, <1>3 DEF IInv, Types
<1>6. StatusOf(x) = s
  BY <1>2, FixConstants DEF StatusOf
<1> HIDE DEF x
<1> QED
  BY <1>4, <1>5, <1>6 DEF x

LEMMA RestartNothingOK ==
  ASSUME IInv, NEW r \in Workers, RestartNothing(r)
  PROVE  IInv'
<1>1. PICK j \in Jobs : j = req[r].old /\ row[j] # NoRow /\ Remaining(row[j]) = {}
  BY DEF RestartNothing, IInv, RestartInv
<1>2. /\ Flip(j, "done") /\ req' = [req EXCEPT ![r] = Idle] /\ req[r].pc = "restart"
      /\ UNCHANGED <<mem, home, task, todo, evicted, handled, charged, clean, parent, lossy>>
      /\ UNCHANGED <<proc, sent, used, unswept, crowded>>
  BY <1>1 DEF RestartNothing, Reply, ghostVars
<1>3. "done" \in Statuses
  BY DEF Statuses
<1>4. /\ row' \in [Jobs -> Row \cup {NoRow}] /\ faults' \in 0 .. MaxFaults
      /\ \A k \in Jobs \ {j} : row'[k] = row[k]
      /\ row'[j] = row[j] \/ row'[j] = [row[j] EXCEPT !.status = "done"]
      /\ \A k \in Jobs : StatusOf(row'[k]) = "running" => row'[k] = row[k]
  BY <1>1, <1>2, <1>3, FlipOK
<1>5. Types'
  BY <1>2, <1>4, IdleType DEF IInv, Types
<1>6. \A s \in Workers : req'[s] = IF s = r THEN Idle ELSE req[s]
  BY <1>2 DEF IInv, Types
<1>7. ASSUME NEW k \in Jobs PROVE JobInv(k)' /\ JobStep(k)
  <2>1. \/ row'[k] = row[k]
        \/ /\ row[k] # NoRow
           /\ \E s \in Statuses : /\ row'[k] = [row[k] EXCEPT !.status = s]
                                  /\ s = "done" => Remaining(row[k]) = {}
                                  /\ s = "restarted" => \E i \in Jobs : parent[i] = k
    BY <1>1, <1>3, <1>4
  <2> QED
    BY <1>2, <2>1, TouchOK
<1>8. RestartInv'
  BY <1>2, <1>6, <1>7, RestartStep DEF Idle
<1>9. RunningRowIsOwned'
  BY <1>2, <1>4, <1>6, RunningStep DEF IInv, Live
<1>10. QuotaInv'
  <2>1. \A s \in Workers : /\ Holds(s)' => Holds(s) /\ Claim(s)' = Claim(s)
                           /\ req'[s].pc = "mark" => req[s].pc = "mark"
    BY <1>6 DEF Holds, Claim, Idle
  <2> QED
    BY <1>2, <2>1 DEF IInv, QuotaInv, Live
<1> QED
  BY <1>5, <1>7, <1>8, <1>9, <1>10 DEF IInv

LEMMA RestartMarkOK ==
  ASSUME IInv, NEW r \in Workers, RestartMark(r)
  PROVE  IInv'
<1>1. PICK j \in Jobs, n \in Jobs :
         /\ j = req[r].old /\ n = req[r].new /\ row[j] # NoRow
         /\ home[n] = r /\ task[n] = NoTask /\ parent[n] = j
  BY DEF RestartMark, IInv, RestartInv
<1>2. /\ Flip(j, "restarted") /\ req' = [req EXCEPT ![r] = Idle] /\ req[r].pc = "mark"
      /\ task' = [task EXCEPT ![n].pc = "next"]
      /\ UNCHANGED <<mem, home, todo, evicted, handled, charged, clean, parent, lossy>>
      /\ UNCHANGED <<proc, sent, used, unswept, crowded>>
  BY <1>1 DEF RestartMark, Reply, ghostVars
<1>3. "restarted" \in Statuses
  BY DEF Statuses
<1>4. /\ row' \in [Jobs -> Row \cup {NoRow}] /\ faults' \in 0 .. MaxFaults
      /\ \A k \in Jobs \ {j} : row'[k] = row[k]
      /\ row'[j] = row[j] \/ row'[j] = [row[j] EXCEPT !.status = "restarted"]
      /\ \A k \in Jobs : StatusOf(row'[k]) = "running" => row'[k] = row[k]
  BY <1>1, <1>2, <1>3, FlipOK
<1>5. /\ task' \in [Jobs -> Task] /\ task'[n].pc = "next"
      /\ \A k \in Jobs \ {n} : task'[k] = task[k]
  <2>1. task[n] \in Task
    BY DEF IInv, Types
  <2>2. [task[n] EXCEPT !.pc = "next"] \in Task /\ [task[n] EXCEPT !.pc = "next"].pc = "next"
    BY <2>1 DEF Task
  <2>3. task' = [task EXCEPT ![n] = [task[n] EXCEPT !.pc = "next"]]
    BY <1>2 DEF IInv, Types
  <2> QED
    BY <2>2, <2>3 DEF IInv, Types
<1>6. Types'
  BY <1>2, <1>4, <1>5, IdleType DEF IInv, Types
<1>7. \A s \in Workers : req'[s] = IF s = r THEN Idle ELSE req[s]
  BY <1>2 DEF IInv, Types
<1>8. ASSUME NEW k \in Jobs PROVE JobInv(k)' /\ JobStep(k)
  <2>1. \/ row'[k] = row[k]
        \/ /\ row[k] # NoRow
           /\ \E s \in Statuses : /\ row'[k] = [row[k] EXCEPT !.status = s]
                                  /\ s = "done" => Remaining(row[k]) = {}
                                  /\ s = "restarted" => \E i \in Jobs : parent[i] = k
    BY <1>1, <1>3, <1>4
  <2>2. \/ task'[k] = task[k]
        \/ task[k] = NoTask /\ home[k] # NoOne /\ task'[k].pc = "next"
    BY <1>1, <1>5, FixConstants
  <2> QED
    BY <1>2, <2>1, <2>2, TouchOK
<1>9. RestartInv'
  <2>1. ASSUME NEW s \in Workers, req'[s].pc = "mark"
        PROVE  task'[req[s].new] = task[req[s].new]
    <3>1. s # r /\ req'[s] = req[s]
      BY <1>7, <2>1 DEF Idle
    <3>2. req[s].new \in Jobs /\ home[req[s].new] = s
      BY <2>1, <3>1 DEF IInv, RestartInv
    <3> QED
      BY <1>1, <1>5, <3>1, <3>2
  <2> QED
    BY <1>2, <1>7, <1>8, <2>1, RestartStep DEF Idle
<1>10. RunningRowIsOwned'
  <2> SUFFICES ASSUME NEW k \in Jobs, StatusOf(row'[k]) = "running",
                      k \notin lossy' \cup unswept'
               PROVE  \/ Live(k)'
                      \/ \E s \in Workers : req'[s].pc = "mark" /\ req'[s].new = k
                      \/ \E w \in Workers : proc'[w] # "up"
    BY DEF RunningRowIsOwned, Owned
  <2>1. \/ Live(k)
        \/ \E s \in Workers : req[s].pc = "mark" /\ req[s].new = k
        \/ \E w \in Workers : proc[w] # "up"
    BY <1>2, <1>4 DEF IInv, RunningRowIsOwned, Owned
  <2>2. Live(n)'
    BY <1>5 DEF Live
  <2>3. Live(k) => Live(k)'
    BY <1>5, <2>2 DEF Live
  <2> QED
    BY <1>1, <1>2, <1>7, <2>1, <2>2, <2>3
<1>11. QuotaInv'
  BY <1>2 DEF IInv, QuotaInv
<1> QED
  BY <1>6, <1>8, <1>9, <1>10, <1>11 DEF IInv


-----------------------------------------------------------------------------
(* Steps that create a job.                                                *)

LEMMA NextJobUnused == Fresh # {} => NextJob \in Jobs /\ Unused(NextJob)
BY DEF Fresh, NextJob, Unused

\* A job created with its worker, and one whose worker starts later.
Launch(w, n, fs) == CreateJob(w, n, fs, TRUE)
Enter(w, n, fs)  == CreateJob(w, n, fs, FALSE)

LEMMA CreateOK ==
  ASSUME IInv, NEW w \in Workers, NEW n \in Jobs, Unused(n), NEW fs \in SUBSET Findings,
         Launch(w, n, fs) \/ Enter(w, n, fs),
         UNCHANGED <<handled, charged>>
  PROVE  /\ row' \in [Jobs -> Row \cup {NoRow}] /\ mem' = mem /\ evicted' = evicted
         /\ home' \in [Jobs -> Workers \cup {NoOne}] /\ home'[n] = w
         /\ task' \in [Jobs -> Task]
         /\ Launch(w, n, fs) => Live(n)'
         /\ Enter(w, n, fs) => task'[n] = NoTask
         /\ todo' \in [Jobs -> SUBSET Findings] /\ todo'[n] = fs /\ handled'[n] = {}
         /\ lossy' \subseteq Jobs /\ faults' \in 0 .. MaxFaults
         /\ \A k \in Jobs \ {n} : /\ row'[k] = row[k] /\ home'[k] = home[k]
                                  /\ task'[k] = task[k] /\ todo'[k] = todo[k]
                                  /\ k \in lossy' <=> k \in lossy
         /\ StatusOf(row'[n]) \in {"none", "running"}
         /\ JobInv(n)' /\ JobStep(n)
<1>1. /\ row[n] = NoRow /\ mem[n] = NoProgress /\ handled[n] = {} /\ charged[n] = {}
      /\ parent[n] = 0 /\ n \notin clean /\ task[n] = NoTask /\ n \notin {k \in Jobs : Live(k)}
      /\ n \notin evicted
  BY DEF IInv, JobInv, ProgressInv, Unused, Live, NoTask
<1> DEFINE x == NewRow(fs)
<1>2. /\ x \in Row /\ x.status = "running" /\ x.all = fs /\ x.done = {} /\ x.term = {}
  BY DEF NewRow, Row, Statuses
<1> HIDE DEF x
<1>3. /\ row' \in [Jobs -> Row \cup {NoRow}] /\ lossy' \subseteq Jobs
      /\ faults' \in 0 .. MaxFaults
      /\ \A k \in Jobs \ {n} : row'[k] = row[k] /\ (k \in lossy' <=> k \in lossy)
      /\ row'[n] = x \/ (row'[n] = NoRow /\ n \in lossy')
  <2>1. \/ row' = [row EXCEPT ![n] = x] /\ UNCHANGED <<lossy, faults>>
        \/ /\ faults < MaxFaults /\ faults' = faults + 1
           /\ lossy' = lossy \cup {n} /\ UNCHANGED row
    BY DEF Launch, Enter, CreateJob, x
  <2>2. faults' \in 0 .. MaxFaults
    BY <2>1, FixConstants DEF IInv, Types
  <2> QED
    BY <1>1, <1>2, <2>1, <2>2 DEF IInv, Types
<1>4. /\ home' = [home EXCEPT ![n] = w] /\ todo' = [todo EXCEPT ![n] = fs]
      /\ mem' = mem /\ evicted' = evicted
  BY DEF Launch, Enter, CreateJob
<1>5. /\ task' \in [Jobs -> Task] /\ task'[n].pc \in {"next", "none"}
      /\ Launch(w, n, fs) => task'[n].pc = "next"
      /\ Enter(w, n, fs) => task'[n] = NoTask
      /\ \A k \in Jobs \ {n} : task'[k] = task[k]
  <2> DEFINE t(pc) == [NoTask EXCEPT !.pc = pc]
  <2>1. /\ t("next") \in Task /\ t("next").pc = "next"
        /\ t("none") = NoTask /\ NoTask \in Task /\ NoTask.pc = "none"
    BY FixConstants DEF NoTask, Task
  <2>2. /\ Launch(w, n, fs) => task' = [task EXCEPT ![n] = t("next")]
        /\ Enter(w, n, fs) => task' = [task EXCEPT ![n] = t("none")]
    BY <1>1 DEF Launch, Enter, CreateJob, IInv, Types
  <2> HIDE DEF t
  <2> QED
    BY <2>1, <2>2 DEF IInv, Types
<1>6. /\ home' \in [Jobs -> Workers \cup {NoOne}] /\ home'[n] = w
      /\ todo' \in [Jobs -> SUBSET Findings] /\ todo'[n] = fs
      /\ \A k \in Jobs \ {n} : home'[k] = home[k] /\ todo'[k] = todo[k]
  BY <1>4 DEF IInv, Types
<1>7. StatusOf(row'[n]) \in {"none", "running"}
  BY <1>2, <1>3 DEF StatusOf
<1>8. /\ ~Unused(n)' /\ ~Ended(n)' /\ w # NoOne
      /\ task'[n].pc \notin {"report", "charge", "ended"}
  BY <1>5, <1>6, FixConstants DEF Unused, Ended
<1>9. ProgressInv(n)'
  <2>1. mem'[n].done = {} /\ mem'[n].term = {}
    BY <1>1, <1>4 DEF NoProgress
  <2> QED
    BY <1>1, <1>2, <1>3, <1>4, <1>6, <1>8, <2>1, FixConstants DEF ProgressInv
<1>10. ListInv(n)'
  BY <1>1, <1>2, <1>3, <1>6, <1>7, <1>8 DEF ListInv
<1>11. ChargeInv(n)'
  BY <1>1, <1>8 DEF ChargeInv
<1>12. JobStep(n)
  BY <1>1, <1>7 DEF JobStep, Ended, NoTask
<1>13. Launch(w, n, fs) => Live(n)'
  BY <1>5 DEF Live
<1> QED
  BY <1>1, <1>3, <1>4, <1>5, <1>6, <1>7, <1>9, <1>10, <1>11, <1>12, <1>13 DEF JobInv

LEMMA BulkStartOK ==
  ASSUME IInv, NEW r \in Workers, BulkStart(r)
  PROVE  IInv'
<1>1. PICK n \in Jobs, fs \in SUBSET Findings :
         n = NextJob /\ Unused(n) /\ fs = req[r].fs
  BY NextJobUnused DEF BulkStart, IInv, Types, Request
<1>2. /\ Launch(r, n, fs) /\ req' = [req EXCEPT ![r] = Idle] /\ req[r].pc = "bulk"
      /\ UNCHANGED <<proc, sent, used, handled, charged, clean, parent, unswept, crowded>>
  BY <1>1 DEF BulkStart, Reply, Launch
<1>3. /\ row' \in [Jobs -> Row \cup {NoRow}] /\ mem' = mem /\ evicted' = evicted
      /\ home' \in [Jobs -> Workers \cup {NoOne}] /\ home'[n] = r
      /\ task' \in [Jobs -> Task] /\ Live(n)'
      /\ todo' \in [Jobs -> SUBSET Findings] /\ todo'[n] = fs
      /\ lossy' \subseteq Jobs /\ faults' \in 0 .. MaxFaults
      /\ \A k \in Jobs \ {n} : /\ row'[k] = row[k] /\ home'[k] = home[k]
                               /\ task'[k] = task[k] /\ todo'[k] = todo[k]
                               /\ k \in lossy' <=> k \in lossy
      /\ JobInv(n)' /\ JobStep(n)
  <2>1. UNCHANGED <<handled, charged>> /\ Launch(r, n, fs) /\ Unused(n)
    BY <1>1, <1>2
  <2> QED
    BY <2>1, CreateOK
<1>4. Types'
  BY <1>2, <1>3, IdleType DEF IInv, Types
<1>5. \A s \in Workers : req'[s] = IF s = r THEN Idle ELSE req[s]
  BY <1>2 DEF IInv, Types
<1>6. \A k \in Jobs : JobInv(k)' /\ JobStep(k)
  <2>1. \A k \in Jobs \ {n} : JobSame(k)
    BY <1>2, <1>3 DEF JobSame
  <2> QED
    BY <1>3, <2>1, SameOK DEF IInv
<1>7. \A s \in Workers : req[s].pc = "mark" => req[s].new \in Jobs \ {n}
  BY <1>1, FixConstants DEF IInv, RestartInv, Unused
<1>8. RestartInv'
  <2>1. \A s \in Workers : req'[s].pc \in {"restart", "mark"} =>
             /\ req'[s] = req[s]
             /\ req[s].pc = "mark" => /\ home'[req[s].new] = home[req[s].new]
                                      /\ task'[req[s].new] = task[req[s].new]
    BY <1>3, <1>5, <1>7 DEF Idle
  <2> QED
    BY <1>2, <1>6, <2>1, RestartStep
<1>9. RunningRowIsOwned'
  <2>1. \A k \in Jobs : Live(k) => Live(k)'
    BY <1>3 DEF Live
  <2> QED
    BY <1>2, <1>3, <1>5, <2>1 DEF IInv, RunningRowIsOwned, Owned
<1>10. QuotaInv'
  <2> SUFFICES ASSUME ~crowded' PROVE QuotaInv'
    BY DEF QuotaInv
  <2>1. Holds(r) /\ Claim(r) = Cardinality(fs)
    BY <1>1, <1>2 DEF Holds, Claim
  <2>2. /\ used <= Cap /\ used + Cardinality(fs) <= Cap
        /\ \A s \in Workers : (Holds(s) => s = r) /\ req[s].pc # "mark"
        /\ \A k \in Jobs : ~Live(k)
    BY <1>2, <2>1 DEF IInv, QuotaInv
  <2>3. \A s \in Workers : ~Holds(s)' /\ req'[s].pc # "mark"
    BY <1>5, <2>2 DEF Holds, Idle
  <2>4. \A k \in Jobs : Live(k)' => k = n
    BY <1>3, <2>2 DEF Live
  <2> QED
    BY <1>2, <1>3, <2>2, <2>3, <2>4 DEF QuotaInv
<1> QED
  BY <1>4, <1>6, <1>8, <1>9, <1>10 DEF IInv

LEMMA RestartCreateOK ==
  ASSUME IInv, NEW r \in Workers, RestartCreate(r)
  PROVE  IInv'
<1>1. PICK n \in Jobs, o \in Jobs, fs \in SUBSET Findings :
         /\ n = NextJob /\ Unused(n) /\ fs = req[r].fs /\ o = req[r].old /\ row[o] # NoRow
         /\ req[r].sane => Stopped(o, fs)
  BY NextJobUnused DEF RestartCreate, IInv, Types, Request, RestartInv
<1> DEFINE x == [req[r] EXCEPT !.pc = "mark", !.new = n]
<1>2. /\ Enter(r, n, fs) /\ req[r].pc = "restart"
      /\ parent' = [parent EXCEPT ![n] = o] /\ crowded'
      /\ clean' = IF req[r].sane THEN clean \cup {n} ELSE clean
      /\ UNCHANGED <<proc, sent, used, handled, charged, unswept>>
  BY <1>1 DEF RestartCreate, Enter
<1>3. /\ req' = [req EXCEPT ![r] = x] /\ x \in Request
      /\ x.pc = "mark" /\ x.new = n /\ x.old = o
  <2>1. req[r] \in Request
    BY DEF IInv, Types
  <2>2. x \in Request /\ x.pc = "mark" /\ x.new = n /\ x.old = o
    BY <1>1, <2>1 DEF Request
  <2>3. req' = [req EXCEPT ![r] = x]
    BY <1>1 DEF RestartCreate, IInv, Types
  <2> QED
    BY <2>2, <2>3
<1> HIDE DEF x
<1>4. /\ row' \in [Jobs -> Row \cup {NoRow}] /\ mem' = mem /\ evicted' = evicted
      /\ home' \in [Jobs -> Workers \cup {NoOne}] /\ home'[n] = r
      /\ task' \in [Jobs -> Task] /\ task'[n] = NoTask
      /\ todo' \in [Jobs -> SUBSET Findings] /\ todo'[n] = fs /\ handled'[n] = {}
      /\ lossy' \subseteq Jobs /\ faults' \in 0 .. MaxFaults
      /\ \A k \in Jobs \ {n} : /\ row'[k] = row[k] /\ home'[k] = home[k]
                               /\ task'[k] = task[k] /\ todo'[k] = todo[k]
                               /\ k \in lossy' <=> k \in lossy
      /\ StatusOf(row'[n]) \in {"none", "running"}
      /\ JobInv(n)' /\ JobStep(n)
  <2>1. UNCHANGED <<handled, charged>> /\ Enter(r, n, fs) /\ Unused(n)
    BY <1>1, <1>2
  <2> QED
    BY <2>1, CreateOK
<1>5. /\ parent' \in [Jobs -> Jobs \cup {0}] /\ parent'[n] = o
      /\ \A k \in Jobs \ {n} : parent'[k] = parent[k]
      /\ clean' \subseteq Jobs /\ \A k \in Jobs \ {n} : k \in clean' <=> k \in clean
      /\ n \in clean' => req[r].sane
  <2>1. n \notin clean
    BY <1>1 DEF IInv, JobInv, ProgressInv
  <2> QED
    BY <1>2, <2>1 DEF IInv, Types
<1>6. Types'
  BY <1>2, <1>3, <1>4, <1>5 DEF IInv, Types
<1>7. \A s \in Workers : req'[s] = IF s = r THEN x ELSE req[s]
  BY <1>3 DEF IInv, Types
<1>8. \A k \in Jobs \ {n} : JobSame(k)
  BY <1>2, <1>4, <1>5 DEF JobSame
<1>9. \A k \in Jobs : JobInv(k)' /\ JobStep(k)
  BY <1>4, <1>8, SameOK DEF IInv
<1>10. row[n] = NoRow /\ parent[n] = 0 /\ home[n] = NoOne
  BY <1>1 DEF IInv, JobInv, ProgressInv, Unused
<1>11. \A k \in Jobs : row[k] # NoRow => row'[k] = row[k] /\ k # n
  BY <1>4, <1>10
<1>12. \A k \in Jobs : \A gs : Stopped(k, gs) => Stopped(k, gs)'
  <2>1. ASSUME NEW k \in Jobs, NEW gs, Stopped(k, gs) PROVE Stopped(k, gs)'
    <3>1. row[k] # NoRow /\ JobStep(k)
      BY <1>9, <2>1 DEF Stopped
    <3> QED
      BY <2>1, <3>1, StoppedStep
  <2> QED
    BY <2>1
<1>13. RestartInv'
  <2>1. ASSUME NEW s \in Workers, req'[s].pc \in {"restart", "mark"}
        PROVE  /\ req'[s].old \in Jobs /\ row'[req'[s].old] # NoRow
               /\ req'[s].pc = "restart" /\ req'[s].fs = {}
                  => Remaining(row'[req'[s].old]) = {}
               /\ req'[s].pc = "restart" /\ req'[s].fs # {} /\ req'[s].sane
                  => Stopped(req[s].old, req[s].fs)'
               /\ req'[s].pc = "mark" => /\ req'[s].new \in Jobs /\ home'[req'[s].new] = s
                                         /\ task'[req'[s].new] = NoTask
                                         /\ parent'[req'[s].new] = req'[s].old
    <3>1. CASE s = r
      BY <1>1, <1>3, <1>4, <1>5, <1>7, <1>11, <3>1
    <3>2. CASE s # r
      <4>1. req'[s] = req[s]
        BY <1>7, <3>2
      <4>2. PICK p \in Jobs : p = req[s].old /\ row[p] # NoRow
        BY <2>1, <4>1 DEF IInv, RestartInv
      <4>3. PICK gs : gs = req[s].fs
        OBVIOUS
      <4>4. req[s].pc = "restart" /\ gs # {} /\ req[s].sane => Stopped(p, gs)
        BY <4>2, <4>3 DEF IInv, RestartInv
      <4>5. Stopped(p, gs)' => Stopped(req[s].old, req[s].fs)'
        BY <4>1, <4>2, <4>3
      <4>6. req[s].pc = "mark" => /\ req[s].new \in Jobs \ {n} /\ home[req[s].new] = s
                                  /\ task[req[s].new] = NoTask
                                  /\ parent[req[s].new] = p
        BY <1>10, <4>2, FixConstants DEF IInv, RestartInv
      <4>7. req[s].pc = "restart" /\ gs = {} => Remaining(row[p]) = {}
        BY <4>2, <4>3 DEF IInv, RestartInv
      <4>8. row'[p] = row[p]
        BY <1>11, <4>2
      <4> QED
        BY <1>4, <1>5, <1>12, <4>1, <4>2, <4>3, <4>4, <4>5, <4>6, <4>7, <4>8
    <3> QED
      BY <3>1, <3>2
  <2>2. \A k \in Jobs : parent'[k] # 0 => row'[parent'[k]] # NoRow
    <3>1. \A k \in Jobs : parent[k] # 0 => parent[k] \in Jobs /\ row[parent[k]] # NoRow
      BY DEF IInv, RestartInv, Types
    <3> QED
      BY <1>1, <1>5, <1>11, <3>1
  <2>3. ASSUME NEW k \in clean', parent'[k] # 0
        PROVE  Stopped(parent[k], todo[k] \cup handled[k])'
    <3>1. CASE k = n
      <4>1. Stopped(o, fs)'
        BY <1>1, <1>5, <1>12, <2>3, <3>1
      <4>2. PICK p, gs : p = parent'[k] /\ gs = todo'[k] \cup handled'[k]
        OBVIOUS
      <4>3. p = o /\ gs = fs
        BY <1>4, <1>5, <3>1, <4>2
      <4>4. Stopped(p, gs)'
        BY <4>1, <4>3
      <4> QED
        BY <4>2, <4>4
    <3>2. CASE k # n
      <4>1. k \in Jobs \ {n} /\ k \in clean /\ parent'[k] = parent[k] /\ parent[k] # 0
        BY <1>5, <2>3, <3>2
      <4>2. PICK p \in Jobs : p = parent[k]
        BY <4>1 DEF IInv, Types
      <4>3. PICK gs : gs = todo[k] \cup handled[k] /\ gs = todo'[k] \cup handled'[k]
        BY <1>8, <4>1 DEF JobSame
      <4>4. Stopped(p, gs)
        <5>1. Stopped(parent[k], todo[k] \cup handled[k])
          BY <4>1 DEF IInv, RestartInv
        <5> QED
          BY <4>2, <4>3, <5>1
      <4>5. Stopped(p, gs)'
        BY <1>12, <4>4
      <4> QED
        BY <4>1, <4>2, <4>3, <4>5
    <3> QED
      BY <3>1, <3>2
  <2>4. ASSUME NEW k \in Jobs, StatusOf(row'[k]) = "restarted"
        PROVE  \E i \in Jobs : parent'[i] = k
    <3>1. StatusOf(row[k]) = "restarted"
      BY <1>4, <2>4
    <3>2. PICK i \in Jobs : parent[i] = k
      BY <3>1 DEF IInv, RestartInv
    <3>3. i # n
      BY <1>10, <3>2, FixConstants DEF Jobs
    <3> QED
      BY <1>5, <3>2, <3>3
  <2> QED
    BY <2>1, <2>2, <2>3, <2>4 DEF RestartInv
<1>14. RunningRowIsOwned'
  <2> SUFFICES ASSUME NEW k \in Jobs, StatusOf(row'[k]) = "running",
                      k \notin lossy' \cup unswept'
               PROVE  \/ Live(k)'
                      \/ \E s \in Workers : req'[s].pc = "mark" /\ req'[s].new = k
                      \/ \E w \in Workers : proc'[w] # "up"
    BY DEF RunningRowIsOwned, Owned
  <2>1. CASE k = n
    BY <1>3, <1>7, <2>1
  <2>2. CASE k # n
    <3>1. \/ Live(k)
          \/ \E s \in Workers : req[s].pc = "mark" /\ req[s].new = k
          \/ \E w \in Workers : proc[w] # "up"
      BY <1>2, <1>4, <2>2 DEF IInv, RunningRowIsOwned, Owned
    <3>2. Live(k) => Live(k)'
      BY <1>4, <2>2 DEF Live
    <3> QED
      BY <1>2, <1>7, <3>1, <3>2
  <2> QED
    BY <2>1, <2>2
<1>15. QuotaInv'
  BY <1>2 DEF QuotaInv
<1> QED
  BY <1>6, <1>9, <1>13, <1>14, <1>15 DEF IInv


-----------------------------------------------------------------------------
(* The theorems.                                                           *)

\* Every step preserves the invariant.
LEMMA StepOK == IInv /\ [NextFix]_vars => IInv'
<1> SUFFICES ASSUME IInv, [NextFix]_vars PROVE IInv'
  OBVIOUS
<1>1. ASSUME NEW r \in Workers, NEW fs \in Batches, BulkCheck(r, fs) PROVE IInv'
  BY <1>1, BulkCheckOK, FixConstants
<1>2. ASSUME NEW r \in Workers, SingleCheck(r) PROVE IInv'
  BY <1>2, SingleCheckOK
<1>3. ASSUME NEW r \in Workers, NEW j \in Jobs, RestartRead(r, j) PROVE IInv'
  BY <1>3, RestartReadOK
<1>4. ASSUME NEW r \in Workers, RequestStep(r) PROVE IInv'
  BY <1>4, BulkStartOK, SingleApplyOK, SingleChargeOK, RestartNothingOK, RestartCreateOK,
     RestartMarkOK DEF RequestStep
<1>5. ASSUME NEW j \in Jobs, WorkerStep(j) PROVE IInv'
  BY <1>5, AttemptOK, GiveUpOK, ReportFixOK, ChargeFixOK, CloseDoneOK DEF WorkerStep
<1>6. ASSUME NEW j \in Jobs, WorkerException(j) \/ Evict(j) PROVE IInv'
  BY <1>6, WorkerExceptionOK, EvictOK
<1>7. ASSUME NEW w \in Workers, Crash(w) \/ Shutdown(w) \/ Boot(w) \/ OrphanSweep(w)
      PROVE  IInv'
  BY <1>7, CrashOK, ShutdownOK, BootOK, OrphanSweepOK
<1>8. CASE UNCHANGED vars
  <2>1. /\ UNCHANGED <<jobVars, handled, charged, clean, parent, lossy, unswept>>
        /\ UNCHANGED <<proc, req, sent, used, crowded, faults>>
    BY <1>8 DEF vars, ghostVars
  <2>2. \A j \in Jobs : JobInv(j)' /\ JobStep(j)
    BY <2>1, JobsSame DEF IInv
  <2>3. Types'
    BY <2>1 DEF IInv, Types, jobVars
  <2>4. RestartInv'
    BY <2>1, <2>2, RestartStep DEF jobVars
  <2>5. RunningRowIsOwned'
    BY <2>1 DEF IInv, RunningRowIsOwned, Owned, jobVars, Live
  <2>6. QuotaInv'
    BY <2>1 DEF IInv, QuotaInv, Holds, Claim, Live, jobVars
  <2> QED
    BY <2>2, <2>3, <2>4, <2>5, <2>6 DEF IInv
<1> QED
  BY <1>1, <1>2, <1>3, <1>4, <1>5, <1>6, <1>7, <1>8 DEF NextFix

\* Every variable keeps its type, through any restarts and crashes.
THEOREM TypeSafety == Spec => []TypeOK
<1>1. IInv => TypeOK
  BY DEF IInv, Types, TypeOK, Progress, Task, Request
<1> QED
  BY InitOK, StepOK, <1>1, PTL DEF Spec

\* /restart of a job that had run and stopped charges none of the findings with
\* an id or rule_id that job charged (the row learns of a fix in persist_event
\* before record_scan_fixes counts it), whatever crashes, shutdowns and
\* exceptions come in between.  A finding with neither always remains.
THEOREM ChargeSafety == Spec => []NoDoubleCharge
<1>1. IInv => NoDoubleCharge
  <2> SUFFICES ASSUME IInv, NEW j \in Jobs, parent[j] # 0, j \in clean
               PROVE  charged[j] \cap charged[parent[j]] \subseteq Unnamed
    BY DEF NoDoubleCharge
  <2>1. PICK p \in Jobs : p = parent[j]
    BY DEF IInv, Types
  <2>2. Stopped(parent[j], todo[j] \cup handled[j])
    BY DEF IInv, RestartInv
  <2>3. p \notin lossy /\ todo[j] \cup handled[j] \subseteq Remaining(row[p])
    BY <2>1, <2>2 DEF Stopped
  <2>4. \A f \in charged[p] : IdOf[f] \in row[p].done
    BY <2>3 DEF IInv, JobInv, ChargeInv, Known
  <2>5. charged[j] \subseteq Remaining(row[p])
    BY <2>3 DEF IInv, JobInv, ChargeInv
  <2> QED
    BY <2>1, <2>4, <2>5 DEF Remaining
<1> QED
  BY InitOK, StepOK, <1>1, PTL DEF Spec

\* A row says done only of a job that went through all of its findings (close,
\* /restart with nothing left).
THEOREM DoneSafety == Spec => []DoneMeansHandled
<1>1. IInv => DoneMeansHandled
  <2> SUFFICES ASSUME IInv, NEW j \in Jobs, StatusOf(row[j]) = "done"
               PROVE  /\ handled[j] \subseteq row[j].all
                      /\ {IdOf[f] : f \in row[j].all} \subseteq {IdOf[f] : f \in handled[j]}
    BY DEF DoneMeansHandled
  <2>1. row[j] # NoRow
    BY DEF StatusOf
  <2>2. /\ handled[j] \subseteq row[j].all
        /\ \A f \in row[j].all : Through(j, IdOf[f])
    BY <2>1 DEF IInv, JobInv, ListInv
  <2> QED
    BY <2>2 DEF Through
<1> QED
  BY InitOK, StepOK, <1>1, PTL DEF Spec

\* The month's cap holds while nothing was admitted beside unpaid work
\* (assert_can_fix, record_scan_fixes) and nothing was restarted.
THEOREM QuotaSafety == Spec => []QuotaHolds
<1>1. IInv => QuotaHolds
  BY DEF IInv, QuotaInv, QuotaHolds
<1> QED
  BY InitOK, StepOK, <1>1, PTL DEF Spec

\* A row that says running is somebody's to close: a worker, a restart about
\* to start one, or mark_running_orphaned of a process that has to boot; unless
\* _persist swallowed one of its writes, _gc dropped its job, or the sweep of a
\* boot that would have closed it failed.
THEOREM OwnerSafety == Spec => []RunningRowIsOwned
<1>1. IInv => RunningRowIsOwned
  BY DEF IInv
<1> QED
  BY InitOK, StepOK, <1>1, PTL DEF Spec

\* A stopped job with work left keeps the status restarted.
LEMMA RestartedStays ==
  ASSUME IInv, NextFix, NEW j \in Jobs, Ended(j), row[j] # NoRow, Remaining(row[j]) # {},
         StatusOf(row[j]) = "restarted"
  PROVE  StatusOf(row'[j]) = "restarted"
<1>1. ~Live(j) /\ ~Unused(j) /\ row \in [Jobs -> Row \cup {NoRow}] /\ row[j] \in Row
      /\ row[j].status = "restarted"
  BY DEF Live, Unused, Ended, NoTask, IInv, Types, StatusOf
<1>2. ASSUME row' = row PROVE row'[j] = row[j]
  BY <1>2
<1>3. ASSUME NEW i \in Jobs, WorkerStep(i) \/ WorkerException(i) \/ Evict(i)
      PROVE  row'[j] = row[j]
  <2>1. CASE i = j
    BY <1>1, <1>3, <2>1 DEF WorkerStep, WorkerException, ApplyOk, ApplyRetry, GiveUp,
       Attempt, ReportFix, ChargeFix, CloseDone, Evict, Live
  <2>2. CASE i # j
    BY <1>1, <1>3, <2>2 DEF WorkerStep, WorkerException, ApplyOk, ApplyRetry, GiveUp,
       ReportFix, ChargeFix, CloseDone, Evict, Persist
  <2> QED
    BY <2>1, <2>2
<1>4. ASSUME NEW r \in Workers, BulkStart(r) \/ RestartCreate(r) PROVE row'[j] = row[j]
  <2>1. NextJob # j
    BY <1>1, <1>4, NextJobUnused DEF BulkStart, RestartCreate
  <2> QED
    BY <1>1, <1>4, <2>1 DEF BulkStart, RestartCreate, CreateJob
<1>5. ASSUME NEW r \in Workers, RestartNothing(r) PROVE row'[j] = row[j]
  <2>1. req[r].old # j
    BY <1>5 DEF RestartNothing, IInv, RestartInv
  <2> QED
    BY <1>1, <1>5, <2>1 DEF RestartNothing, Flip
<1>6. ASSUME NEW r \in Workers, RestartMark(r)
      PROVE  row'[j] = row[j] \/ row'[j] = [row[j] EXCEPT !.status = "restarted"]
  BY <1>1, <1>6 DEF RestartMark, Flip
<1>7. ASSUME NEW w \in Workers, Shutdown(w) \/ OrphanSweep(w) PROVE row'[j] = row[j]
  BY <1>1, <1>7 DEF Shutdown, OrphanSweep, StatusOf
<1>8. row'[j] = row[j] \/ row'[j] = [row[j] EXCEPT !.status = "restarted"]
  <2>1. ASSUME NEW r \in Workers, RequestStep(r)
        PROVE  row'[j] = row[j] \/ row'[j] = [row[j] EXCEPT !.status = "restarted"]
    <3>1. SingleApply(r) \/ SingleCharge(r) => row' = row
      BY DEF SingleApply, SingleCharge, jobVars
    <3> QED
      BY <1>2, <1>4, <1>5, <1>6, <2>1, <3>1 DEF RequestStep
  <2>2. ASSUME NEW r \in Workers,
               \/ \E fs \in Batches : BulkCheck(r, fs)
               \/ SingleCheck(r)
               \/ \E i \in Jobs : RestartRead(r, i)
        PROVE  row'[j] = row[j]
    BY <2>2 DEF BulkCheck, SingleCheck, RestartRead, jobVars
  <2>3. ASSUME NEW w \in Workers, Crash(w) \/ Boot(w) PROVE row'[j] = row[j]
    BY <2>3 DEF Crash, Boot, jobVars
  <2> QED
    BY <1>3, <1>7, <2>1, <2>2, <2>3 DEF NextFix
<1> DEFINE x == [row[j] EXCEPT !.status = "restarted"]
<1>9. x \in Row /\ x.status = "restarted"
  BY <1>1 DEF Row, Statuses
<1> HIDE DEF x
<1>10. row'[j] = row[j] \/ row'[j] = x
  BY <1>8 DEF x
<1> QED
  BY <1>1, <1>9, <1>10, FixConstants DEF StatusOf

\* A superseded job stays restarted, but for the restarts that read its row
\* too early or after a lost write.
THEOREM SupersededSafety == Spec => SupersededStays
<1> DEFINE Stays == \A j \in Jobs :
              StatusOf(row[j]) = "restarted" /\ StatusOf(row'[j]) # "restarted"
              => \E k \in Jobs : parent[k] = j /\ k \notin clean
<1>1. IInv /\ [NextFix]_vars => [Stays]_vars
  <2> SUFFICES ASSUME IInv, NextFix, NEW j \in Jobs, StatusOf(row[j]) = "restarted",
                      StatusOf(row'[j]) # "restarted",
                      \A k \in Jobs : parent[k] = j => k \in clean
               PROVE  FALSE
    OBVIOUS
  <2>1. PICK k \in clean : parent[k] = j
    BY DEF IInv, RestartInv
  <2>2. j # 0
    BY FixConstants DEF Jobs
  <2>3. Stopped(parent[k], todo[k] \cup handled[k])
    BY <2>1, <2>2 DEF IInv, RestartInv
  <2>4. Ended(j) /\ row[j] # NoRow /\ Remaining(row[j]) # {}
    BY <2>1, <2>3 DEF Stopped, Ended
  <2> QED
    BY <2>4, RestartedStays
<1>2. Spec => [][Stays]_vars
  BY InitOK, StepOK, <1>1, PTL DEF Spec
<1> QED
  BY <1>2 DEF SupersededStays

=============================================================================

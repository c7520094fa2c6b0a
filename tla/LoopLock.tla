------------------------------ MODULE LoopLock ------------------------------
(***************************************************************************)
(* The concurrent-loop lock: acquire_loop_lock / release_loop_lock of      *)
(* services/loop_safety.py, and everything in services/loop_engine.py and  *)
(* routers/loop.py that takes, frees or breaks a lock row.                 *)
(*                                                                         *)
(* A POST /loop/start request is a process: every Mongo round trip of      *)
(* acquire_loop_lock is a step, so any number of requests, engines, and    *)
(* housekeeping ticks interleave between them.  The loop itself is reduced *)
(* to what its engine believes (est) and what loop_sessions says (sess);   *)
(* the two disagree after a crash or when another worker wrote the row.    *)
(* LoopEngine and LoopShip model the pipeline in detail.                   *)
(***************************************************************************)
EXTENDS Naturals, FiniteSets

CONSTANTS Loops,       \* loop_ids, each started at most once
          Keys,        \* (project_id, user_id) pairs
          KeyOf,       \* the key each loop is started on
          LockStale,   \* STALE_S of acquire_loop_lock (15 min)
          NoLock,      \* no row in loop_locks for a key
          NoLoop,      \* no loop
          MaxTime,     \* bound on the clock
          MaxFaults    \* bound on Mongo errors and crashes

ASSUME LoopLockAssumption ==
    /\ KeyOf \in [Loops -> Keys]
    /\ LockStale \in Nat
    /\ MaxTime \in Nat
    /\ MaxFaults \in Nat
    /\ NoLoop \notin Loops
    /\ NoLock \notin [loop : Loops, at : Nat]

VARIABLES now,      \* time.time(), shared by all workers
          lock,     \* loop_locks: key -> row or NoLock
          pc,       \* where each POST /loop/start stands
          stamp,    \* `now` captured by acquire_loop_lock
          seen,     \* loop_id read by the ghost sweep
          blocker,  \* existing_loop_id of a 409 answer
          est,      \* what the loop's engine object believes
          sess,     \* loop_sessions.state, grouped
          unlock,   \* a release_loop_lock call is still to come
          forced,   \* loop_id read by force-release-lock, per key
          faults,   \* Mongo errors and crashes so far
          over,     \* history: loops ever declared over
          won,      \* history: when each loop's row was inserted
          settled,  \* history: loops over throughout a start request
          skipped   \* history: starts whose ghost sweep a Mongo error cut off

vars == <<now, lock, pc, stamp, seen, blocker, est, sess, unlock,
          forced, faults, over, won, settled, skipped>>

Terminal  == {"completed", "failed", "aborted"}      \* _TERMINAL
EngState  == {"none", "planning", "working", "waiting", "over"}
SessState == {"none", "planning", "working", "waiting", "expired"} \cup Terminal
PcState   == {"idle", "find", "check", "delete", "insert", "read",
              "locked", "started", "refused", "rejected", "dead"}
InRequest == {"find", "check", "delete", "insert", "read", "locked"}

Row(l, t) == [loop |-> l, at |-> t]
LockRow   == [loop : Loops, at : Nat]

Acquired(l) == pc[l] \in {"locked", "started", "rejected"}

-----------------------------------------------------------------------------
Init ==
    /\ now = 0
    /\ lock = [k \in Keys |-> NoLock]
    /\ pc = [l \in Loops |-> "idle"]
    /\ stamp = [l \in Loops |-> 0]
    /\ seen = [l \in Loops |-> NoLoop]
    /\ blocker = [l \in Loops |-> NoLoop]
    /\ est = [l \in Loops |-> "none"]
    /\ sess = [l \in Loops |-> "none"]
    /\ unlock = [l \in Loops |-> FALSE]
    /\ forced = [k \in Keys |-> NoLoop]
    /\ faults = 0
    /\ over = {}
    /\ won = [l \in Loops |-> 0]
    /\ settled = [l \in Loops |-> {}]
    /\ skipped = {}

unchangedReq  == UNCHANGED <<pc, stamp, seen, blocker, won, skipped>>
unchangedLoop == UNCHANGED <<est, sess, unlock, settled>>

\* loop_sessions.update_one on loop l.  A write that takes the session out
\* of a terminal state ends its being settled.
WriteSession(l, v) ==
    /\ sess' = [sess EXCEPT ![l] = v]
    /\ over' = IF v \in Terminal THEN over \cup {l} ELSE over
    /\ settled' = IF v \in Terminal THEN settled
                  ELSE [s \in Loops |-> settled[s] \ {l}]

-----------------------------------------------------------------------------
(* acquire_loop_lock, one action per Mongo round trip.                     *)

\* Variant: the row counts as stale when it is exactly STALE_S old.
SweepAtThreshold(s) ==
    /\ pc[s] = "idle"
    /\ pc' = [pc EXCEPT ![s] = "find"]
    /\ stamp' = [stamp EXCEPT ![s] = now]
    /\ settled' = [settled EXCEPT ![s] = {l \in Loops : sess[l] \in Terminal}]
    /\ LET k == KeyOf[s] IN
       \/ /\ lock' = IF lock[k] # NoLock /\ lock[k].at + LockStale <= now
                     THEN [lock EXCEPT ![k] = NoLock] ELSE lock
          /\ UNCHANGED faults
       \/ /\ faults < MaxFaults
          /\ faults' = faults + 1
          /\ UNCHANGED lock
    /\ UNCHANGED <<now, seen, blocker, won, est, sess, unlock, forced, over,
                   skipped>>

\* delete_many of rows older than STALE_S.  A Mongo error skips it.
SweepStale(s) ==
    /\ pc[s] = "idle"
    /\ pc' = [pc EXCEPT ![s] = "find"]
    /\ stamp' = [stamp EXCEPT ![s] = now]
    /\ settled' = [settled EXCEPT ![s] = {l \in Loops : sess[l] \in Terminal}]
    /\ LET k == KeyOf[s] IN
       \/ /\ lock' = IF lock[k] # NoLock /\ lock[k].at + LockStale < now
                     THEN [lock EXCEPT ![k] = NoLock] ELSE lock
          /\ UNCHANGED faults
       \/ /\ faults < MaxFaults
          /\ faults' = faults + 1
          /\ UNCHANGED lock
    /\ UNCHANGED <<now, seen, blocker, won, est, sess, unlock, forced, over,
                   skipped>>

\* find_one of the row that survived.
FindHolder(s) ==
    /\ pc[s] = "find"
    /\ IF lock[KeyOf[s]] = NoLock
       THEN /\ pc' = [pc EXCEPT ![s] = "insert"]
            /\ UNCHANGED seen
       ELSE /\ pc' = [pc EXCEPT ![s] = "check"]
            /\ seen' = [seen EXCEPT ![s] = lock[KeyOf[s]].loop]
    /\ UNCHANGED <<now, lock, stamp, blocker, won, forced, faults, over, skipped>>
    /\ unchangedLoop

\* Variant: "failed" is missing from the ghost sweep's list of states.
CheckAbortedOnly(s) ==
    /\ pc[s] = "check"
    /\ pc' = [pc EXCEPT ![s] = IF sess[seen[s]] \in Terminal \ {"failed"}
                               THEN "delete" ELSE "insert"]
    /\ UNCHANGED <<now, lock, stamp, seen, blocker, won, forced, faults, over,
                   skipped>>
    /\ unchangedLoop

\* Is the holder's session aborted, failed or completed?
CheckHolder(s) ==
    /\ pc[s] = "check"
    /\ pc' = [pc EXCEPT ![s] = IF sess[seen[s]] \in Terminal
                               THEN "delete" ELSE "insert"]
    /\ UNCHANGED <<now, lock, stamp, seen, blocker, won, forced, faults, over,
                   skipped>>
    /\ unchangedLoop

\* delete_one of the ghost row, by loop_id.
DeleteGhost(s) ==
    /\ pc[s] = "delete"
    /\ pc' = [pc EXCEPT ![s] = "insert"]
    /\ LET k == KeyOf[s] IN
       lock' = IF lock[k] # NoLock /\ lock[k].loop = seen[s]
               THEN [lock EXCEPT ![k] = NoLock] ELSE lock
    /\ UNCHANGED <<now, stamp, seen, blocker, won, forced, faults, over, skipped>>
    /\ unchangedLoop

\* A Mongo error anywhere in the ghost sweep is swallowed and skips the rest
\* of it: the request goes on to its insert with the ghost row in place.
SkipGhostSweep(s) ==
    /\ pc[s] \in {"find", "check", "delete"}
    /\ faults < MaxFaults
    /\ faults' = faults + 1
    /\ pc' = [pc EXCEPT ![s] = "insert"]
    /\ skipped' = skipped \cup {s}
    /\ UNCHANGED <<now, lock, stamp, seen, blocker, won, forced, over>>
    /\ unchangedLoop

\* Variant: no unique index, so the row of another loop is replaced.
InsertWithoutIndex(s) ==
    /\ pc[s] = "insert"
    /\ lock' = [lock EXCEPT ![KeyOf[s]] = Row(s, stamp[s])]
    /\ pc' = [pc EXCEPT ![s] = "locked"]
    /\ won' = [won EXCEPT ![s] = now]
    /\ settled' = [settled EXCEPT ![s] = {}]
    /\ seen' = [seen EXCEPT ![s] = NoLoop]
    /\ UNCHANGED <<now, stamp, blocker, forced, faults, over, est, sess, unlock,
                   skipped>>

\* insert_one; the unique index refuses a second row for the key.  A Mongo
\* error counts as a refusal, although the row may have been written.
InsertRow(s) ==
    /\ pc[s] = "insert"
    /\ LET k == KeyOf[s]
           taken == [lock EXCEPT ![k] = Row(s, stamp[s])]
       IN \/ /\ lock[k] = NoLock
             /\ lock' = taken
             /\ pc' = [pc EXCEPT ![s] = "locked"]
             /\ won' = [won EXCEPT ![s] = now]
             /\ settled' = [settled EXCEPT ![s] = {}]
             /\ UNCHANGED faults
          \/ /\ lock[k] # NoLock
             /\ pc' = [pc EXCEPT ![s] = "read"]
             /\ UNCHANGED <<lock, won, settled, faults>>
          \/ /\ faults < MaxFaults
             /\ faults' = faults + 1
             /\ lock' = lock \/ (lock[k] = NoLock /\ lock' = taken)
             /\ pc' = [pc EXCEPT ![s] = "read"]
             /\ UNCHANGED <<won, settled>>
    /\ seen' = [seen EXCEPT ![s] = NoLoop]
    /\ UNCHANGED <<now, stamp, blocker, forced, over, est, sess, unlock, skipped>>

\* find_one of the row that was in the way, if it is still there: 409.
AnswerBusy(s) ==
    /\ pc[s] = "read"
    /\ pc' = [pc EXCEPT ![s] = "refused"]
    /\ blocker' = [blocker EXCEPT ![s] = IF lock[KeyOf[s]] = NoLock THEN NoLoop
                                         ELSE lock[KeyOf[s]].loop]
    /\ UNCHANGED <<now, lock, stamp, seen, won, forced, faults, over, skipped>>
    /\ unchangedLoop

\* start_loop after the lock: build_ora_context raises 400/403 ...
RejectStart(s) ==
    /\ pc[s] = "locked"
    /\ pc' = [pc EXCEPT ![s] = "rejected"]
    /\ UNCHANGED <<now, lock, stamp, seen, blocker, won, forced, faults, over,
                   skipped>>
    /\ unchangedLoop

\* ... or the engine is built and its plan task scheduled.
StartEngine(s) ==
    /\ pc[s] = "locked"
    /\ pc' = [pc EXCEPT ![s] = "started"]
    /\ est' = [est EXCEPT ![s] = "planning"]
    /\ UNCHANGED <<now, lock, stamp, seen, blocker, won, forced, faults, over,
                   sess, unlock, settled, skipped>>

-----------------------------------------------------------------------------
(* The engine: what it persists and when it lets go of the lock.           *)

\* A live engine enters a state and persists it: the emits of the plan
\* phase, plan ready, confirm or retry, a phase, a pause, a heartbeat.
\* pause-response re-enters the pipeline even from a finished engine.
Advance(l) ==
    \E v \in {"planning", "working", "waiting"} :
        /\ \/ est[l] = "planning" /\ v \in {"planning", "waiting"}
           \/ est[l] \in {"working", "waiting"} /\ v \in {"working", "waiting"}
           \/ est[l] = "over" /\ v = "working"
        /\ est' = [est EXCEPT ![l] = v]
        /\ WriteSession(l, v)
        /\ UNCHANGED <<now, lock, unlock, forced, faults>>
        /\ unchangedReq

\* _fail, the scan and integrity failures, the read-only and L1 endings, a
\* successful ship, skip_at_ship, a declined ship and cancel persist a
\* terminal state and then call release_loop_lock.  A cancel during PLAN
\* does not stop the plan task.
EndAndRelease(l) ==
    /\ est[l] \in {"planning", "working", "waiting"}
    /\ \E v \in Terminal :
         /\ WriteSession(l, v)
         /\ \/ est' = [est EXCEPT ![l] = "over"]
            \/ /\ est[l] = "planning"
               /\ v = "aborted"
               /\ UNCHANGED est
    /\ unlock' = [unlock EXCEPT ![l] = TRUE]
    /\ UNCHANGED <<now, lock, forced, faults>>
    /\ unchangedReq

\* Variant: the declined loop gets a state that LoopState does not have.
EndCancelled(l) ==
    /\ \/ est[l] \in {"working", "waiting"} /\ WriteSession(l, "failed")
       \/ est[l] = "waiting" /\ WriteSession(l, "cancelled")
    /\ est' = [est EXCEPT ![l] = "over"]
    /\ UNCHANGED <<now, lock, unlock, forced, faults>>
    /\ unchangedReq

\* confirm(approved=False) and _fail_ship persist a terminal state and
\* never release.
EndAndKeep(l) ==
    /\ \/ est[l] \in {"working", "waiting"} /\ WriteSession(l, "failed")
       \/ est[l] = "waiting" /\ WriteSession(l, "aborted")
    /\ est' = [est EXCEPT ![l] = "over"]
    /\ UNCHANGED <<now, lock, unlock, forced, faults>>
    /\ unchangedReq

\* POST /cancel on a worker that does not hold the loop's engine: the
\* session is aborted and the lock released, but an engine on another
\* worker goes on.
CancelElsewhere(l) ==
    /\ sess[l] # "none"
    /\ WriteSession(l, "aborted")
    /\ unlock' = [unlock EXCEPT ![l] = TRUE]
    /\ UNCHANGED <<now, lock, est, forced, faults>>
    /\ unchangedReq

\* Variant: delete_one by key alone, as force-release does.
ReleaseByKey(l) ==
    /\ unlock[l]
    /\ unlock' = [unlock EXCEPT ![l] = FALSE]
    /\ lock' = [lock EXCEPT ![KeyOf[l]] = NoLock]
    /\ UNCHANGED <<now, est, sess, settled, forced, faults, over>>
    /\ unchangedReq

\* release_loop_lock: delete_one by key and loop_id; a Mongo error is
\* logged and the row stays.
Release(l) ==
    /\ unlock[l]
    /\ unlock' = [unlock EXCEPT ![l] = FALSE]
    /\ LET k == KeyOf[l] IN
       \/ /\ lock' = IF lock[k] # NoLock /\ lock[k].loop = l
                     THEN [lock EXCEPT ![k] = NoLock] ELSE lock
          /\ UNCHANGED faults
       \/ /\ faults < MaxFaults
          /\ faults' = faults + 1
          /\ UNCHANGED lock
    /\ UNCHANGED <<now, est, sess, settled, forced, over>>
    /\ unchangedReq

-----------------------------------------------------------------------------
(* Housekeeping and the escape hatch.                                      *)

\* resume_stale: a running session that went quiet becomes paused.  How
\* long it was quiet is left open here (PhaseBudget keeps the time).
ResumeStale(l) ==
    /\ sess[l] = "working"
    /\ WriteSession(l, "waiting")
    /\ UNCHANGED <<now, lock, est, unlock, forced, faults>>
    /\ unchangedReq

\* sweep_expired_awaiting_confirmations: release_loop_lock is called
\* without its loop_id argument, so the call raises TypeError, is caught,
\* and deletes nothing.  The engine leaves this worker's registry.
SweepExpired(l) ==
    /\ sess[l] = "waiting"
    /\ WriteSession(l, "expired")
    /\ est' \in {est, [est EXCEPT ![l] = IF @ = "waiting" THEN "none" ELSE @]}
    /\ UNCHANGED <<now, lock, unlock, forced, faults>>
    /\ unchangedReq

\* POST /force-release-lock reads the row ...
ForceReleaseRead(k) ==
    /\ forced[k] = NoLoop
    /\ lock[k] # NoLock
    /\ forced' = [forced EXCEPT ![k] = lock[k].loop]
    /\ UNCHANGED <<now, lock, faults, over>>
    /\ unchangedReq
    /\ unchangedLoop

\* ... then deletes by key, whichever loop holds it by now, and aborts the
\* session of the loop it read, without upsert.
ForceReleaseDelete(k) ==
    /\ forced[k] # NoLoop
    /\ forced' = [forced EXCEPT ![k] = NoLoop]
    /\ lock' = [lock EXCEPT ![k] = NoLock]
    /\ sess' = [sess EXCEPT ![forced[k]] = IF @ = "none" THEN @ ELSE "aborted"]
    /\ over' = over \cup {forced[k]}
                    \cup {l \in Loops : lock[k] # NoLock /\ lock[k].loop = l}
    /\ UNCHANGED <<now, faults, est, unlock, settled>>
    /\ unchangedReq

\* The worker running loop l dies: engine, pending release and a start
\* request in progress are gone, Mongo stays as it is.
Crash(l) ==
    /\ faults < MaxFaults
    /\ est[l] # "none" \/ pc[l] \in InRequest
    /\ faults' = faults + 1
    /\ est' = [est EXCEPT ![l] = "none"]
    /\ unlock' = [unlock EXCEPT ![l] = FALSE]
    /\ pc' = [pc EXCEPT ![l] = IF @ \in InRequest \ {"locked"} THEN "dead"
                               ELSE IF @ = "locked" THEN "rejected" ELSE @]
    /\ UNCHANGED <<now, lock, stamp, seen, blocker, sess, forced, over,
                   won, settled, skipped>>

Tick == /\ now < MaxTime
        /\ now' = now + 1
        /\ UNCHANGED <<lock, forced, faults, over>>
        /\ unchangedReq
        /\ unchangedLoop

-----------------------------------------------------------------------------
Next ==
    \/ \E s \in Loops : \/ SweepStale(s) \/ FindHolder(s) \/ CheckHolder(s)
                        \/ DeleteGhost(s) \/ SkipGhostSweep(s) \/ InsertRow(s)
                        \/ AnswerBusy(s) \/ RejectStart(s) \/ StartEngine(s)
    \/ \E l \in Loops : \/ Advance(l) \/ EndAndRelease(l) \/ EndAndKeep(l)
                        \/ CancelElsewhere(l) \/ Release(l)
                        \/ ResumeStale(l) \/ SweepExpired(l) \/ Crash(l)
    \/ \E k \in Keys : ForceReleaseRead(k) \/ ForceReleaseDelete(k)
    \/ Tick

Spec == Init /\ [][Next]_vars

-----------------------------------------------------------------------------
(* Properties                                                              *)

TypeOK ==
    /\ now \in Nat
    /\ lock \in [Keys -> LockRow \cup {NoLock}]
    /\ pc \in [Loops -> PcState]
    /\ stamp \in [Loops -> Nat]
    /\ seen \in [Loops -> Loops \cup {NoLoop}]
    /\ blocker \in [Loops -> Loops \cup {NoLoop}]
    /\ est \in [Loops -> EngState]
    /\ sess \in [Loops -> SessState]
    /\ unlock \in [Loops -> BOOLEAN]
    /\ forced \in [Keys -> Loops \cup {NoLoop}]
    /\ faults \in Nat
    /\ over \in SUBSET Loops
    /\ won \in [Loops -> Nat]
    /\ settled \in [Loops -> SUBSET Loops]
    /\ skipped \in SUBSET Loops

\* A loop that took the lock and was never declared over still owns its row,
\* or the row has outlived STALE_S: no release, ghost sweep, cancel or
\* force-release aimed at another loop takes the lock away from it, however
\* stale the loop_id that call read.
HolderKeepsLock ==
    \A l \in Loops : Acquired(l) /\ l \notin over =>
        lock[KeyOf[l]] = Row(l, stamp[l]) \/ stamp[l] + LockStale < now

\* Two loops of one project and user that were never declared over can both
\* hold a successful acquire only if one inserted its row more than STALE_S
\* after the other's stamp.
LockExclusion ==
    \A l1, l2 \in Loops :
        /\ l1 # l2
        /\ KeyOf[l1] = KeyOf[l2]
        /\ Acquired(l1) /\ l1 \notin over
        /\ Acquired(l2) /\ l2 \notin over
        => stamp[l1] + LockStale < won[l2] \/ stamp[l2] + LockStale < won[l1]

\* POST /start is never refused with 409 on account of a loop whose session
\* was aborted, failed or completed from before the request until its
\* answer, even when that loop leaked its row (_fail_ship, a declined plan,
\* a failed release): the ghost sweep of acquire_loop_lock frees the project.
\* The one exception is a start whose own ghost sweep met a Mongo error: the
\* sweep swallows it, and the 409 may then name a loop that is long over.
SettledNeverBlocks ==
    \A s \in Loops :
        pc[s] = "refused" /\ blocker[s] \in settled[s] => s \in skipped

\* Every row of loop_locks that disappears does so with cause: its loop was
\* declared over or the row outlived STALE_S.
L == INSTANCE Lease WITH lock <- lock, over <- over, now <- now,
                         Loops <- Loops, Keys <- Keys, KeyOf <- KeyOf,
                         LockStale <- LockStale, NoLock <- NoLock
LeaseSpec == L!Spec
=============================================================================

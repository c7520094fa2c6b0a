-------------------------- MODULE LoopLock_proofs --------------------------
(***************************************************************************)
(* Machine-checked proofs about LoopLock, for any set of loops, keys, any  *)
(* STALE_S, and any interleaving of requests, engines and housekeeping.    *)
(***************************************************************************)
EXTENDS LoopLock, TLAPS

-----------------------------------------------------------------------------
(* The inductive invariant.                                                *)

\* Releases, ghost deletions and terminal sessions concern loops declared
\* over, so whatever they delete was no longer protected.
OverInv ==
    /\ \A l \in Loops : unlock[l] => l \in over
    /\ \A l \in Loops : sess[l] \in Terminal => l \in over
    /\ \A s \in Loops : pc[s] \in {"check", "delete"} => seen[s] \in Loops
    /\ \A s \in Loops : pc[s] = "delete" => seen[s] \in over

\* A row belongs to a loop whose request got as far as its insert, even if
\* the answer was lost, and carries the stamp of that request.
Inserted(l) == pc[l] \in {"read", "refused", "dead"} \/ Acquired(l)

RowInv ==
    /\ \A l \in Loops : stamp[l] <= now
    /\ \A k \in Keys : lock[k] # NoLock =>
          /\ Inserted(lock[k].loop)
          /\ KeyOf[lock[k].loop] = k
          /\ lock[k].at = stamp[lock[k].loop]

LockInv == TypeOK /\ OverInv /\ RowInv /\ HolderKeepsLock

\* The initial state has no rows, no requests and no sessions.
LEMMA InitLockInv == Init => LockInv
  BY LoopLockAssumption
     DEF Init, LockInv, TypeOK, OverInv, RowInv, HolderKeepsLock, Inserted,
         Acquired, Terminal, EngState, SessState, PcState

\* A step of a start request keeps the invariant: it deletes only a row that
\* is stale or whose loop is over, and inserts only where there is none.
LEMMA StartStep ==
  ASSUME LockInv, NEW s \in Loops,
         SweepStale(s) \/ FindHolder(s) \/ CheckHolder(s) \/ DeleteGhost(s)
         \/ SkipGhostSweep(s) \/ InsertRow(s) \/ AnswerBusy(s) \/ RejectStart(s)
         \/ StartEngine(s)
  PROVE  LockInv'
<1> USE LoopLockAssumption DEF LockInv, TypeOK, OverInv, RowInv, HolderKeepsLock
<1>1. CASE SweepStale(s)
  <2>1. TypeOK'
    BY <1>1 DEF SweepStale, PcState, LockRow
  <2>2. OverInv'
    BY <1>1 DEF SweepStale, Terminal, PcState
  <2>3. RowInv'
    BY <1>1 DEF SweepStale, Inserted, Acquired, LockRow
  <2>4. HolderKeepsLock'
    BY <1>1 DEF SweepStale, Acquired, Row, LockRow
  <2> QED BY <2>1, <2>2, <2>3, <2>4
<1>2. CASE FindHolder(s)
  <2>1. TypeOK'
    <3>1. KeyOf[s] \in Keys /\ lock[KeyOf[s]] \in LockRow \cup {NoLock}
      OBVIOUS
    <3>2. lock[KeyOf[s]] # NoLock => lock[KeyOf[s]].loop \in Loops
      BY <3>1 DEF LockRow
    <3>3. pc' \in [Loops -> PcState] /\ seen' \in [Loops -> Loops \cup {NoLoop}]
      BY <1>2, <3>2 DEF FindHolder, PcState
    <3> QED
      BY <1>2, <3>3 DEF FindHolder, unchangedLoop
  <2>2. OverInv'
    BY <1>2 DEF FindHolder, unchangedLoop, LockRow, PcState
  <2>3. RowInv'
    BY <1>2 DEF FindHolder, unchangedLoop, Inserted, Acquired, LockRow, PcState
  <2>4. HolderKeepsLock'
    BY <1>2 DEF FindHolder, unchangedLoop, Acquired, Row
  <2> QED BY <2>1, <2>2, <2>3, <2>4
<1>3. CASE CheckHolder(s)
  <2>1. TypeOK'
    BY <1>3 DEF CheckHolder, unchangedLoop, PcState
  <2>2. OverInv'
    BY <1>3 DEF CheckHolder, unchangedLoop, Terminal, PcState
  <2>3. RowInv'
    BY <1>3 DEF CheckHolder, unchangedLoop, Inserted, Acquired
  <2>4. HolderKeepsLock'
    BY <1>3 DEF CheckHolder, unchangedLoop, Acquired, Row
  <2> QED BY <2>1, <2>2, <2>3, <2>4
<1>4. CASE DeleteGhost(s)
  <2>1. TypeOK'
    BY <1>4 DEF DeleteGhost, unchangedLoop, PcState, LockRow
  <2>2. OverInv'
    BY <1>4 DEF DeleteGhost, unchangedLoop, PcState
  <2>3. RowInv'
    BY <1>4 DEF DeleteGhost, unchangedLoop, Inserted, Acquired, LockRow
  <2>4. HolderKeepsLock'
    BY <1>4 DEF DeleteGhost, unchangedLoop, Acquired, Row, LockRow
  <2> QED BY <2>1, <2>2, <2>3, <2>4
<1>5. CASE SkipGhostSweep(s)
  <2>1. TypeOK'
    BY <1>5 DEF SkipGhostSweep, unchangedLoop, PcState
  <2>2. OverInv'
    BY <1>5 DEF SkipGhostSweep, unchangedLoop, Terminal, PcState
  <2>3. RowInv'
    BY <1>5 DEF SkipGhostSweep, unchangedLoop, Inserted, Acquired
  <2>4. HolderKeepsLock'
    BY <1>5 DEF SkipGhostSweep, unchangedLoop, Acquired, Row
  <2> QED BY <2>1, <2>2, <2>3, <2>4
<1>6. CASE InsertRow(s)
  <2> DEFINE k == KeyOf[s]
  <2>0. k \in Keys /\ lock[k] \in LockRow \cup {NoLock}
    OBVIOUS
  <2>1. CASE lock' # lock
    <3>0. /\ lock[k] = NoLock
          /\ lock' = [lock EXCEPT ![k] = Row(s, stamp[s])]
          /\ pc[s] = "insert"
          /\ \E v \in {"locked", "read"} : pc' = [pc EXCEPT ![s] = v]
          /\ UNCHANGED <<now, stamp, unlock, sess, over>>
          /\ seen' = [seen EXCEPT ![s] = NoLoop]
      BY <1>6, <2>1 DEF InsertRow
    <3>1. Row(s, stamp[s]) \in LockRow
      BY DEF Row, LockRow
    <3>2. TypeOK'
      BY <1>6, <2>0, <3>0, <3>1 DEF InsertRow, PcState
    <3>3. OverInv'
      BY <3>0 DEF PcState
    <3>4. RowInv'
      BY <2>0, <3>0 DEF Inserted, Acquired, Row
    <3>5. HolderKeepsLock'
      <4> SUFFICES ASSUME NEW l \in Loops, Acquired(l)', l \notin over'
                   PROVE  \/ lock'[KeyOf[l]] = Row(l, stamp'[l])
                          \/ stamp'[l] + LockStale < now'
        BY DEF Row
      <4>1. CASE l = s
        BY <4>1, <2>0, <3>0
      <4>2. CASE l # s /\ KeyOf[l] = k
        <5>1. Row(l, stamp[l]) # NoLock
          BY DEF Row
        <5> QED BY <4>2, <5>1, <3>0 DEF Acquired
      <4>3. CASE l # s /\ KeyOf[l] # k
        BY <4>3, <2>0, <3>0 DEF Acquired, Row
      <4> QED BY <4>1, <4>2, <4>3
    <3> QED BY <3>2, <3>3, <3>4, <3>5
  <2>2. CASE lock' = lock
    <3>0. /\ pc' = [pc EXCEPT ![s] = "read"]
          /\ pc[s] = "insert"
          /\ seen' = [seen EXCEPT ![s] = NoLoop]
          /\ UNCHANGED <<now, lock, stamp, won, settled, unlock, sess, over>>
      <4>1. lock[k] = NoLock => [lock EXCEPT ![k] = Row(s, stamp[s])][k] # lock[k]
        BY <2>0 DEF Row
      <4> QED BY <1>6, <2>2, <4>1 DEF InsertRow
    <3>1. TypeOK'
      BY <1>6, <3>0 DEF InsertRow, PcState
    <3>2. OverInv'
      BY <3>0 DEF PcState
    <3>3. RowInv' /\ HolderKeepsLock'
      BY <3>0 DEF Inserted, Acquired, Row
    <3> QED BY <3>1, <3>2, <3>3
  <2> QED BY <2>1, <2>2
<1>7. CASE RejectStart(s)
  <2>1. TypeOK'
    BY <1>7 DEF RejectStart, unchangedLoop, PcState
  <2>2. OverInv'
    BY <1>7 DEF RejectStart, unchangedLoop, PcState
  <2>3. RowInv'
    BY <1>7 DEF RejectStart, unchangedLoop, Inserted, Acquired
  <2>4. HolderKeepsLock'
    BY <1>7 DEF RejectStart, unchangedLoop, Acquired, Row
  <2> QED BY <2>1, <2>2, <2>3, <2>4
<1>8. CASE StartEngine(s)
  <2>1. TypeOK'
    BY <1>8 DEF StartEngine, PcState, EngState
  <2>2. OverInv'
    BY <1>8 DEF StartEngine, Terminal, PcState
  <2>3. RowInv'
    BY <1>8 DEF StartEngine, Inserted, Acquired
  <2>4. HolderKeepsLock'
    BY <1>8 DEF StartEngine, Acquired, Row
  <2> QED BY <2>1, <2>2, <2>3, <2>4
<1>9. CASE AnswerBusy(s)
  <2>1. TypeOK'
    <3>1. lock[KeyOf[s]] # NoLock => lock[KeyOf[s]].loop \in Loops
      BY DEF LockRow
    <3> QED BY <1>9, <3>1 DEF AnswerBusy, unchangedLoop, PcState
  <2>2. OverInv'
    BY <1>9 DEF AnswerBusy, unchangedLoop, PcState
  <2>3. RowInv'
    BY <1>9 DEF AnswerBusy, unchangedLoop, Inserted, Acquired
  <2>4. HolderKeepsLock'
    BY <1>9 DEF AnswerBusy, unchangedLoop, Acquired, Row
  <2> QED BY <2>1, <2>2, <2>3, <2>4
<1> QED BY <1>1, <1>2, <1>3, <1>4, <1>5, <1>6, <1>7, <1>8, <1>9

\* A step of an engine, of a sweep or of a crash keeps the invariant: whatever
\* asks for a release has declared its own loop over first.
LEMMA LoopStep ==
  ASSUME LockInv, NEW l \in Loops,
         Advance(l) \/ EndAndRelease(l) \/ EndAndKeep(l) \/ CancelElsewhere(l)
         \/ Release(l) \/ ResumeStale(l) \/ SweepExpired(l) \/ Crash(l)
  PROVE  LockInv'
<1> USE LoopLockAssumption DEF LockInv, TypeOK, OverInv, RowInv, HolderKeepsLock
<1>1. CASE Advance(l)
  <2>1. TypeOK'
    BY <1>1 DEF Advance, WriteSession, unchangedReq, EngState, SessState,
                Terminal
  <2>2. OverInv'
    BY <1>1 DEF Advance, WriteSession, unchangedReq, Terminal
  <2>3. RowInv'
    BY <1>1 DEF Advance, WriteSession, unchangedReq, Inserted, Acquired
  <2>4. HolderKeepsLock'
    BY <1>1 DEF Advance, WriteSession, unchangedReq, Acquired, Row
  <2> QED BY <2>1, <2>2, <2>3, <2>4
<1>2. CASE EndAndRelease(l)
  <2>1. TypeOK'
    BY <1>2 DEF EndAndRelease, WriteSession, unchangedReq, EngState,
                SessState, Terminal, LockRow
  <2>2. OverInv'
    BY <1>2 DEF EndAndRelease, WriteSession, unchangedReq, Terminal
  <2>3. RowInv'
    BY <1>2 DEF EndAndRelease, WriteSession, unchangedReq, Inserted, Acquired, LockRow
  <2>4. HolderKeepsLock'
    BY <1>2 DEF EndAndRelease, WriteSession, unchangedReq, Acquired, Row,
                LockRow
  <2> QED BY <2>1, <2>2, <2>3, <2>4
<1>3. CASE EndAndKeep(l)
  <2>1. TypeOK'
    BY <1>3 DEF EndAndKeep, WriteSession, unchangedReq, EngState, SessState,
                Terminal
  <2>2. OverInv'
    BY <1>3 DEF EndAndKeep, WriteSession, unchangedReq, Terminal
  <2>3. RowInv'
    BY <1>3 DEF EndAndKeep, WriteSession, unchangedReq, Inserted, Acquired
  <2>4. HolderKeepsLock'
    BY <1>3 DEF EndAndKeep, WriteSession, unchangedReq, Acquired, Row
  <2> QED BY <2>1, <2>2, <2>3, <2>4
<1>4. CASE CancelElsewhere(l)
  <2>1. TypeOK'
    BY <1>4 DEF CancelElsewhere, WriteSession, unchangedReq, SessState,
                Terminal, LockRow
  <2>2. OverInv'
    BY <1>4 DEF CancelElsewhere, WriteSession, unchangedReq, Terminal
  <2>3. RowInv'
    BY <1>4 DEF CancelElsewhere, WriteSession, unchangedReq, Inserted, Acquired, LockRow
  <2>4. HolderKeepsLock'
    BY <1>4 DEF CancelElsewhere, WriteSession, unchangedReq, Acquired, Row,
                LockRow
  <2> QED BY <2>1, <2>2, <2>3, <2>4
<1>5. CASE Release(l)
  <2>1. TypeOK'
    BY <1>5 DEF Release, unchangedReq, LockRow
  <2>2. OverInv'
    BY <1>5 DEF Release, unchangedReq, Terminal, LockRow
  <2>3. RowInv'
    BY <1>5 DEF Release, unchangedReq, Inserted, Acquired, LockRow
  <2>4. HolderKeepsLock'
    BY <1>5 DEF Release, unchangedReq, Acquired, Row, LockRow
  <2> QED BY <2>1, <2>2, <2>3, <2>4
<1>6. CASE ResumeStale(l)
  <2>1. TypeOK'
    BY <1>6 DEF ResumeStale, WriteSession, unchangedReq, SessState, Terminal
  <2>2. OverInv'
    BY <1>6 DEF ResumeStale, WriteSession, unchangedReq, Terminal
  <2>3. RowInv'
    BY <1>6 DEF ResumeStale, WriteSession, unchangedReq, Inserted, Acquired
  <2>4. HolderKeepsLock'
    BY <1>6 DEF ResumeStale, WriteSession, unchangedReq, Acquired, Row
  <2> QED BY <2>1, <2>2, <2>3, <2>4
<1>7. CASE SweepExpired(l)
  <2>1. TypeOK'
    BY <1>7 DEF SweepExpired, WriteSession, unchangedReq, EngState,
                SessState, Terminal
  <2>2. OverInv'
    BY <1>7 DEF SweepExpired, WriteSession, unchangedReq, Terminal
  <2>3. RowInv'
    BY <1>7 DEF SweepExpired, WriteSession, unchangedReq, Inserted, Acquired
  <2>4. HolderKeepsLock'
    BY <1>7 DEF SweepExpired, WriteSession, unchangedReq, Acquired, Row
  <2> QED BY <2>1, <2>2, <2>3, <2>4
<1>8. CASE Crash(l)
  <2>1. TypeOK'
    BY <1>8 DEF Crash, InRequest, PcState, EngState, LockRow
  <2>2. OverInv'
    BY <1>8 DEF Crash, InRequest, Terminal, PcState
  <2>3. RowInv'
    BY <1>8 DEF Crash, InRequest, Inserted, Acquired, LockRow
  <2>4. HolderKeepsLock'
    BY <1>8 DEF Crash, InRequest, Acquired, Row, LockRow
  <2> QED BY <2>1, <2>2, <2>3, <2>4
<1> QED BY <1>1, <1>2, <1>3, <1>4, <1>5, <1>6, <1>7, <1>8

\* A force release keeps the invariant: the loop whose row it deletes is
\* declared over in the same step.
LEMMA ForceStep ==
  ASSUME LockInv, NEW k \in Keys,
         ForceReleaseRead(k) \/ ForceReleaseDelete(k)
  PROVE  LockInv'
<1> USE LoopLockAssumption DEF LockInv, TypeOK, OverInv, RowInv, HolderKeepsLock
<1>1. CASE ForceReleaseRead(k)
  <2>1. TypeOK'
    BY <1>1 DEF ForceReleaseRead, unchangedReq, unchangedLoop, LockRow
  <2>2. OverInv'
    BY <1>1 DEF ForceReleaseRead, unchangedReq, unchangedLoop, LockRow
  <2>3. RowInv'
    BY <1>1 DEF ForceReleaseRead, unchangedReq, unchangedLoop, Inserted, Acquired,
                LockRow
  <2>4. HolderKeepsLock'
    BY <1>1 DEF ForceReleaseRead, unchangedReq, unchangedLoop, Acquired, Row,
                LockRow
  <2> QED BY <2>1, <2>2, <2>3, <2>4
<1>2. CASE ForceReleaseDelete(k)
  <2>1. TypeOK'
    BY <1>2 DEF ForceReleaseDelete, unchangedReq, SessState, Terminal, LockRow
  <2>2. OverInv'
    BY <1>2 DEF ForceReleaseDelete, unchangedReq, Terminal, LockRow
  <2>3. RowInv'
    BY <1>2 DEF ForceReleaseDelete, unchangedReq, Inserted, Acquired, LockRow
  <2>4. HolderKeepsLock'
    BY <1>2 DEF ForceReleaseDelete, unchangedReq, Acquired, Row, LockRow
  <2> QED BY <2>1, <2>2, <2>3, <2>4
<1> QED BY <1>1, <1>2

-----------------------------------------------------------------------------
\* Every step preserves LockInv.
LEMMA NextLockInv == LockInv /\ [Next]_vars => LockInv'
<1> SUFFICES ASSUME LockInv, [Next]_vars PROVE LockInv'
  OBVIOUS
<1>1. CASE \E s \in Loops : \/ SweepStale(s) \/ FindHolder(s) \/ CheckHolder(s)
                            \/ DeleteGhost(s) \/ SkipGhostSweep(s) \/ InsertRow(s)
                            \/ AnswerBusy(s) \/ RejectStart(s) \/ StartEngine(s)
  BY <1>1, StartStep
<1>2. CASE \E l \in Loops : \/ Advance(l) \/ EndAndRelease(l) \/ EndAndKeep(l)
                            \/ CancelElsewhere(l) \/ Release(l)
                            \/ ResumeStale(l) \/ SweepExpired(l) \/ Crash(l)
  BY <1>2, LoopStep
<1>3. CASE \E k \in Keys : ForceReleaseRead(k) \/ ForceReleaseDelete(k)
  BY <1>3, ForceStep
<1>4. CASE Tick
  BY <1>4, LoopLockAssumption
     DEF Tick, unchangedReq, unchangedLoop, LockInv, TypeOK, OverInv, RowInv,
         HolderKeepsLock, Inserted, Acquired, Row
<1>5. CASE UNCHANGED vars
  BY <1>5
     DEF vars, LockInv, TypeOK, OverInv, RowInv, HolderKeepsLock, Inserted,
         Acquired, Row
<1> QED BY <1>1, <1>2, <1>3, <1>4, <1>5 DEF Next

\* The invariant holds in every reachable state.
LEMMA LockInvariant == Spec => []LockInv
BY InitLockInv, NextLockInv, PTL DEF Spec

\* Type correctness.
THEOREM TypeCorrect == Spec => []TypeOK
BY LockInvariant, PTL DEF LockInv

\* A loop never declared over keeps its row for STALE_S.
THEOREM HolderKeeps == Spec => []HolderKeepsLock
BY LockInvariant, PTL DEF LockInv

-----------------------------------------------------------------------------
(* Exclusion.                                                              *)

\* Requests and rows never move an acquire into the past.
LEMMA NextExclusion ==
  ASSUME LockInv, LockExclusion, [Next]_vars
  PROVE  LockExclusion'
<1> USE LoopLockAssumption DEF LockExclusion
<1>1. CASE \E s \in Loops : InsertRow(s) /\ pc'[s] = "locked"
  <2>1. PICK s \in Loops : InsertRow(s) /\ pc'[s] = "locked"
    BY <1>1
  <2>2. /\ lock[KeyOf[s]] = NoLock
        /\ pc' = [pc EXCEPT ![s] = "locked"]
        /\ won' = [won EXCEPT ![s] = now]
        /\ UNCHANGED <<stamp, over>>
    BY <2>1 DEF InsertRow, LockInv, TypeOK
  <2>3. pc \in [Loops -> PcState] /\ won \in [Loops -> Nat]
    BY DEF LockInv, TypeOK
  <2>4. ASSUME NEW l \in Loops, l # s, KeyOf[l] = KeyOf[s],
               Acquired(l), l \notin over
        PROVE  stamp[l] + LockStale < now
    <3>1. Row(l, stamp[l]) # NoLock
      BY DEF LockInv, TypeOK, Row
    <3> QED BY <2>2, <2>4, <3>1 DEF LockInv, HolderKeepsLock
  <2> QED BY <2>2, <2>3, <2>4 DEF Acquired
<1>2. CASE /\ UNCHANGED won
           /\ over \subseteq over'
           /\ \A l \in Loops : Acquired(l)' => Acquired(l) /\ stamp'[l] = stamp[l]
  BY <1>2
<1>3. ASSUME NEW s \in Loops,
             \/ SweepStale(s) \/ FindHolder(s) \/ CheckHolder(s)
             \/ DeleteGhost(s) \/ SkipGhostSweep(s)
             \/ InsertRow(s) /\ pc'[s] # "locked"
             \/ AnswerBusy(s) \/ RejectStart(s) \/ StartEngine(s)
      PROVE  /\ UNCHANGED won
             /\ over \subseteq over'
             /\ \A l \in Loops : Acquired(l)' => Acquired(l) /\ stamp'[l] = stamp[l]
  BY <1>3 DEF SweepStale, FindHolder, CheckHolder, DeleteGhost, SkipGhostSweep,
              InsertRow, AnswerBusy, RejectStart, StartEngine, Acquired, LockInv,
              TypeOK, PcState
<1>4. ASSUME NEW l \in Loops,
             \/ Advance(l) \/ EndAndRelease(l) \/ EndAndKeep(l)
             \/ CancelElsewhere(l) \/ Release(l)
             \/ ResumeStale(l) \/ SweepExpired(l) \/ Crash(l)
      PROVE  /\ UNCHANGED won
             /\ over \subseteq over'
             /\ \A x \in Loops : Acquired(x)' => Acquired(x) /\ stamp'[x] = stamp[x]
  BY <1>4 DEF Advance, EndAndRelease, EndAndKeep, CancelElsewhere, Release,
              ResumeStale, SweepExpired, Crash, WriteSession, unchangedReq,
              InRequest, Acquired, LockInv, TypeOK, PcState
<1>5. ASSUME \/ \E k \in Keys : ForceReleaseRead(k) \/ ForceReleaseDelete(k)
             \/ Tick \/ UNCHANGED vars
      PROVE  /\ UNCHANGED won
             /\ over \subseteq over'
             /\ \A l \in Loops : Acquired(l)' => Acquired(l) /\ stamp'[l] = stamp[l]
  BY <1>5 DEF ForceReleaseRead, ForceReleaseDelete, Tick, unchangedReq, vars, Acquired
<1> QED BY <1>1, <1>2, <1>3, <1>4, <1>5 DEF Next

\* Two successful acquires on one key that nobody declared over lie more than
\* STALE_S apart: the whole guarantee the lock gives, for any number of
\* concurrent requests.
THEOREM Exclusion == Spec => []LockExclusion
<1>1. Init => LockExclusion
  BY DEF Init, LockExclusion, Acquired
<1>2. LockInv /\ LockExclusion /\ [Next]_vars => LockExclusion'
  BY NextExclusion
<1> QED BY <1>1, <1>2, LockInvariant, PTL DEF Spec

-----------------------------------------------------------------------------
(* A settled loop never blocks a start.                                    *)

\* While a request that counts l as settled is under way, l stays terminal,
\* and once a complete ghost sweep is behind it the row is not l's.
SettledInv ==
    /\ \A l \in Loops : pc[l] # "started" => est[l] = "none" /\ sess[l] = "none"
    /\ \A s \in Loops : \A l \in settled[s] : sess[l] \in Terminal
    /\ \A s \in Loops : pc[s] \in {"check", "delete"} /\ lock[KeyOf[s]] # NoLock
          => (lock[KeyOf[s]].loop \in settled[s] => lock[KeyOf[s]].loop = seen[s])
    /\ \A s \in Loops :
          pc[s] \in {"insert", "read"} /\ s \notin skipped /\ lock[KeyOf[s]] # NoLock
          => lock[KeyOf[s]].loop \notin settled[s]
    /\ SettledNeverBlocks

\* A step of a start request preserves SettledInv.
LEMMA StartSettled ==
  ASSUME LockInv, SettledInv, NEW s \in Loops,
         SweepStale(s) \/ FindHolder(s) \/ CheckHolder(s) \/ DeleteGhost(s)
         \/ SkipGhostSweep(s) \/ InsertRow(s) \/ AnswerBusy(s) \/ RejectStart(s)
         \/ StartEngine(s)
  PROVE  SettledInv'
<1> USE LoopLockAssumption
    DEF LockInv, TypeOK, OverInv, RowInv, SettledInv, SettledNeverBlocks
<1>1. CASE SweepStale(s)
  BY <1>1 DEF SweepStale, PcState, Terminal, LockRow
<1>2. CASE FindHolder(s)
  BY <1>2 DEF FindHolder, unchangedLoop, PcState, LockRow
<1>3. CASE CheckHolder(s)
  BY <1>3 DEF CheckHolder, unchangedLoop, PcState, LockRow
<1>4. CASE DeleteGhost(s)
  BY <1>4 DEF DeleteGhost, unchangedLoop, PcState, LockRow
<1>5. CASE SkipGhostSweep(s)
  BY <1>5 DEF SkipGhostSweep, unchangedLoop, PcState, LockRow
<1>6. CASE InsertRow(s)
  <2> DEFINE k == KeyOf[s]
  <2>0. /\ sess[s] = "none" /\ est[s] = "none" /\ pc[s] = "insert"
        /\ \A t \in Loops : s \notin settled[t]
    BY <1>6 DEF InsertRow, Terminal
  <2>1. /\ \E v \in {"locked", "read"} : pc' = [pc EXCEPT ![s] = v]
        /\ settled' \in {settled, [settled EXCEPT ![s] = {}]}
        /\ seen' = [seen EXCEPT ![s] = NoLoop]
        /\ UNCHANGED <<est, sess, blocker, skipped>>
    BY <1>6 DEF InsertRow
  <2>2. CASE lock' = lock
    <3>1. \A t \in Loops : /\ pc'[t] # "insert" => pc[t] = pc'[t] \/ t = s
                           /\ t # s => pc'[t] = pc[t] /\ seen'[t] = seen[t]
                           /\ settled'[t] \subseteq settled[t]
      BY <2>1
    <3> QED BY <2>0, <2>1, <2>2, <3>1
  <2>3. CASE lock' = [lock EXCEPT ![k] = Row(s, stamp[s])]
    <3>1. \A t \in Loops : lock'[KeyOf[t]] # lock[KeyOf[t]]
             => lock'[KeyOf[t]].loop = s
      BY <2>3 DEF Row
    <3>2. \A t \in Loops : /\ t # s => pc'[t] = pc[t] /\ seen'[t] = seen[t]
                           /\ settled'[t] \subseteq settled[t]
      BY <2>1
    <3> QED BY <2>0, <2>1, <3>1, <3>2
  <2> QED BY <1>6, <2>2, <2>3 DEF InsertRow
<1>7. CASE RejectStart(s)
  BY <1>7 DEF RejectStart, unchangedLoop, PcState, LockRow
<1>8. CASE StartEngine(s)
  BY <1>8 DEF StartEngine, PcState, EngState, LockRow
<1>9. CASE AnswerBusy(s)
  <2>1. /\ pc' = [pc EXCEPT ![s] = "refused"]
        /\ UNCHANGED <<lock, seen, settled, est, sess, skipped>>
        /\ pc[s] = "read"
    BY <1>9 DEF AnswerBusy, unchangedLoop
  <2>2. s \notin skipped => blocker'[s] \notin settled[s]
    BY <1>9 DEF AnswerBusy
  <2>3. \A t \in Loops \ {s} : blocker'[t] = blocker[t] /\ pc'[t] = pc[t]
    BY <1>9 DEF AnswerBusy
  <2>4. SettledNeverBlocks'
    BY <2>1, <2>2, <2>3
  <2>5. pc'[s] = "refused"
    BY <2>1
  <2> QED BY <2>1, <2>3, <2>4, <2>5
<1> QED BY <1>1, <1>2, <1>3, <1>4, <1>5, <1>6, <1>7, <1>8, <1>9

\* A step of an engine, of a sweep or of a crash preserves SettledInv: a
\* session that leaves its terminal state is settled for nobody any more.
LEMMA LoopSettled ==
  ASSUME LockInv, SettledInv, NEW l \in Loops,
         Advance(l) \/ EndAndRelease(l) \/ EndAndKeep(l) \/ CancelElsewhere(l)
         \/ Release(l) \/ ResumeStale(l) \/ SweepExpired(l) \/ Crash(l)
  PROVE  SettledInv'
<1> USE LoopLockAssumption
    DEF LockInv, TypeOK, OverInv, RowInv, SettledInv, SettledNeverBlocks,
        WriteSession, unchangedReq, EngState, SessState, PcState, Terminal
<1>1. CASE Advance(l)
  BY <1>1 DEF Advance
<1>2. CASE EndAndRelease(l)
  BY <1>2 DEF EndAndRelease
<1>3. CASE EndAndKeep(l)
  <2>1. /\ \E v \in Terminal : sess' = [sess EXCEPT ![l] = v]
        /\ est' = [est EXCEPT ![l] = "over"]
        /\ UNCHANGED <<lock, pc, seen, blocker, settled, skipped>>
    BY <1>3 DEF EndAndKeep
  <2>2. pc[l] = "started"
    BY <1>3 DEF EndAndKeep
  <2> QED BY <2>1, <2>2
<1>4. CASE CancelElsewhere(l)
  BY <1>4 DEF CancelElsewhere
<1>5. CASE Release(l)
  BY <1>5 DEF Release, LockRow
<1>6. CASE ResumeStale(l)
  BY <1>6 DEF ResumeStale
<1>7. CASE SweepExpired(l)
  BY <1>7 DEF SweepExpired
<1>8. CASE Crash(l)
  BY <1>8 DEF Crash, InRequest
<1> QED BY <1>1, <1>2, <1>3, <1>4, <1>5, <1>6, <1>7, <1>8

\* Every step preserves SettledInv.
LEMMA NextSettled == LockInv /\ SettledInv /\ [Next]_vars => SettledInv'
<1> SUFFICES ASSUME LockInv, SettledInv, [Next]_vars PROVE SettledInv'
  OBVIOUS
<1>1. CASE \E s \in Loops : \/ SweepStale(s) \/ FindHolder(s) \/ CheckHolder(s)
                            \/ DeleteGhost(s) \/ SkipGhostSweep(s) \/ InsertRow(s)
                            \/ AnswerBusy(s) \/ RejectStart(s) \/ StartEngine(s)
  BY <1>1, StartSettled
<1>2. CASE \E l \in Loops : \/ Advance(l) \/ EndAndRelease(l) \/ EndAndKeep(l)
                            \/ CancelElsewhere(l) \/ Release(l)
                            \/ ResumeStale(l) \/ SweepExpired(l) \/ Crash(l)
  BY <1>2, LoopSettled
<1>3. CASE \E k \in Keys : ForceReleaseRead(k)
  BY <1>3 DEF ForceReleaseRead, unchangedReq, unchangedLoop, SettledInv, SettledNeverBlocks
<1>4. CASE \E k \in Keys : ForceReleaseDelete(k)
  BY <1>4, LoopLockAssumption
     DEF ForceReleaseDelete, unchangedReq, SettledInv, SettledNeverBlocks,
         LockInv, TypeOK, Terminal
<1>5. CASE Tick \/ UNCHANGED vars
  BY <1>5 DEF Tick, vars, unchangedReq, unchangedLoop, SettledInv, SettledNeverBlocks
<1> QED BY <1>1, <1>2, <1>3, <1>4, <1>5 DEF Next

\* A loop aborted, failed or completed from before a start request until its
\* answer is never the reason for a 409, even if its row leaked, unless that
\* request's own ghost sweep was cut off by a Mongo error.
THEOREM SettledLoopsDoNotBlock == Spec => []SettledNeverBlocks
<1>1. Init => SettledInv
  BY DEF Init, SettledInv, SettledNeverBlocks
<1>2. SettledInv => SettledNeverBlocks
  BY DEF SettledInv
<1> QED BY <1>1, <1>2, NextSettled, LockInvariant, PTL DEF Spec

-----------------------------------------------------------------------------
(* LoopLock implements Lease.                                              *)

\* No row at the start, so every lease is free.
LEMMA InitLease == Init => L!Init
BY DEF Init, L!Init

\* Every step of LoopLock is a step of Lease or leaves its variables alone.
LEMMA NextLease == LockInv /\ [Next]_vars => [L!Next]_L!vars
<1> SUFFICES ASSUME LockInv, [Next]_vars PROVE [L!Next]_L!vars
  OBVIOUS
<1> USE LoopLockAssumption DEF LockInv, TypeOK, OverInv, RowInv
<1>1. ASSUME NEW s \in Loops, SweepStale(s) PROVE [L!Next]_L!vars
  <2>1. CASE lock' = lock
    BY <1>1, <2>1 DEF SweepStale, L!vars
  <2>2. CASE lock' # lock
    <3>1. L!Drop(KeyOf[s])
      BY <1>1, <2>2 DEF SweepStale, L!Drop
    <3> QED BY <3>1 DEF L!Next
  <2> QED BY <2>1, <2>2
<1>2. ASSUME NEW s \in Loops,
             \/ FindHolder(s) \/ CheckHolder(s) \/ SkipGhostSweep(s)
             \/ AnswerBusy(s) \/ RejectStart(s) \/ StartEngine(s)
      PROVE  UNCHANGED L!vars
  BY <1>2 DEF FindHolder, CheckHolder, SkipGhostSweep, AnswerBusy, RejectStart,
              StartEngine, unchangedLoop, L!vars
<1>3. ASSUME NEW s \in Loops, DeleteGhost(s) PROVE [L!Next]_L!vars
  <2>1. CASE lock' = lock
    BY <1>3, <2>1 DEF DeleteGhost, L!vars
  <2>2. CASE lock' # lock
    <3>1. L!Drop(KeyOf[s])
      BY <1>3, <2>2 DEF DeleteGhost, L!Drop
    <3> QED BY <3>1 DEF L!Next
  <2> QED BY <2>1, <2>2
<1>4. ASSUME NEW s \in Loops, InsertRow(s) PROVE [L!Next]_L!vars
  <2>1. CASE lock' = lock
    BY <1>4, <2>1 DEF InsertRow, L!vars
  <2>2. CASE lock' # lock
    <3>1. stamp[s] \in 0 .. now
      OBVIOUS
    <3>2. L!Take(KeyOf[s], s)
      BY <1>4, <2>2, <3>1 DEF InsertRow, L!Take, Row, L!Row
    <3> QED BY <3>2 DEF L!Next
  <2> QED BY <2>1, <2>2
<1>5. ASSUME NEW l \in Loops,
             \/ Advance(l) \/ EndAndRelease(l) \/ EndAndKeep(l) \/ CancelElsewhere(l)
             \/ ResumeStale(l) \/ SweepExpired(l) \/ Crash(l)
      PROVE  L!DeclareOver
  BY <1>5 DEF Advance, EndAndRelease, EndAndKeep, CancelElsewhere, ResumeStale,
              SweepExpired, Crash, WriteSession, L!DeclareOver
<1>6. ASSUME NEW l \in Loops, Release(l) PROVE [L!Next]_L!vars
  <2>1. CASE lock' = lock
    BY <1>6, <2>1 DEF Release, L!vars
  <2>2. CASE lock' # lock
    <3>1. L!Drop(KeyOf[l])
      BY <1>6, <2>2 DEF Release, L!Drop
    <3> QED BY <3>1 DEF L!Next
  <2> QED BY <2>1, <2>2
<1>7. ASSUME NEW k \in Keys, ForceReleaseRead(k) PROVE UNCHANGED L!vars
  BY <1>7 DEF ForceReleaseRead, L!vars
<1>8. ASSUME NEW k \in Keys, ForceReleaseDelete(k) PROVE [L!Next]_L!vars
  <2>1. CASE lock[k] = NoLock
    <3>1. L!DeclareOver
      BY <1>8, <2>1 DEF ForceReleaseDelete, L!DeclareOver
    <3> QED BY <3>1 DEF L!Next
  <2>2. CASE lock[k] # NoLock
    <3>1. lock[k].loop \in Loops
      BY <2>2 DEF LockRow
    <3>2. L!Drop(k)
      BY <1>8, <2>2, <3>1 DEF ForceReleaseDelete, L!Drop
    <3> QED BY <3>2 DEF L!Next
  <2> QED BY <2>1, <2>2
<1>9. CASE Tick
  <2>1. L!Pass
    BY <1>9 DEF Tick, unchangedReq, unchangedLoop, L!Pass
  <2> QED BY <2>1 DEF L!Next
<1>10. CASE UNCHANGED vars
  BY <1>10 DEF vars, L!vars
<1> QED BY <1>1, <1>2, <1>3, <1>4, <1>5, <1>6, <1>7, <1>8, <1>9, <1>10
        DEF Next, L!Next

\* Rows of loop_locks appear on free keys only and disappear only with cause.
THEOREM ImplementsLease == Spec => LeaseSpec
<1>1. LockInv /\ [Next]_vars => [L!Next]_L!vars
  BY NextLease
<1> QED BY <1>1, InitLease, LockInvariant, PTL DEF Spec, LeaseSpec, L!Spec
=============================================================================

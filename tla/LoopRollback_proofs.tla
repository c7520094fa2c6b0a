------------------------ MODULE LoopRollback_proofs ------------------------
(***************************************************************************)
(* Proofs about LoopRollback, for any number of workers, requests, browser *)
(* streams, crashes and lost writes.  The first half is about the tasks:   *)
(* the row, the reverts and the requests, the rings and streams unseen.    *)
(* The second half is about what a browser is told of them.                *)
(***************************************************************************)
EXTENDS LoopRollback, TLAPS

Pcs == {"idle", "checked", "queued", "running", "reverting", "reverted", "saved",
        "reported", "failing", "reported_failure", "saved_failure", "ended", "dead"}

\* What the session row remembers: a request was queued, for good.
RowInv ==
    /\ rb \in {"none", "queued", "running", "done", "failed"}
    /\ rb = "done" => sha
    /\ rb = "none" => reverts = 0 /\ \A r \in Reqs : pc[r] \in {"idle", "checked", "dead"}

\* Between its check and its end a request is the only one, and a request that
\* has not come to the revert finds no revert made.
Active(r) == pc[r] \notin {"idle", "dead"}
Before(r) == pc[r] \in {"checked", "queued", "running", "reverting"}

AloneInv ==
    ~raced => /\ reverts <= 1
              /\ \A q, r \in Reqs : Active(q) /\ Active(r) => q = r
              /\ \A r \in Reqs : Before(r) => reverts = 0
              /\ \A r \in Reqs : pc[r] = "checked" => rb = "none"

IInv == /\ pc \in [Reqs -> Pcs]
        /\ reverts \in Nat
        /\ RowInv /\ AloneInv

-----------------------------------------------------------------------------
LEMMA Initially == Init => IInv
  <1> SUFFICES ASSUME Init PROVE IInv
    OBVIOUS
  <1>1. /\ pc = [r \in Reqs |-> "idle"] /\ reverts = 0 /\ rb = "none"
    BY DEF Init
  <1> QED  BY <1>1 DEF IInv, RowInv, AloneInv, Active, Before, Pcs

\* rollback_loop lets a request through only while the row says nothing.
LEMMA CheckOK == ASSUME IInv, NEW r \in Reqs, Check(r) PROVE IInv'
  <1>1. rb = "none" /\ pc[r] = "idle" /\ pc' = [pc EXCEPT ![r] = "checked"]
        /\ rb' = rb /\ sha' = sha /\ reverts' = reverts
    BY DEF Check, Go, IInv, RowInv
  <1>2. RowInv'
    BY <1>1 DEF IInv, RowInv
  <1>3. ~raced' => ~raced /\ \A q \in Reqs : pc[q] # "checked"
    BY Zenon DEF Check
  <1>4. AloneInv'
    <2> SUFFICES ASSUME ~raced' PROVE AloneInv'
      BY DEF AloneInv
    <2>1. reverts = 0 /\ \A q \in Reqs : ~Active(q)
      BY <1>1, <1>3 DEF IInv, RowInv, Active
    <2> QED  BY <1>1, <2>1 DEF AloneInv, Active, Before, IInv
  <1> QED  BY <1>1, <1>2, <1>4 DEF IInv, Pcs

\* From then on the row says something, and goes on saying it.
LEMMA QueueOK == ASSUME IInv, NEW r \in Reqs, Queue(r) PROVE IInv'
  <1>1. pc[r] = "checked" /\ pc' = [pc EXCEPT ![r] = "queued"]
        /\ rb' = "queued" /\ sha' = sha /\ reverts' = reverts /\ raced' = raced
    BY DEF Queue, Go, unchangedGhosts
  <1>2. RowInv'
    BY <1>1 DEF IInv, RowInv
  <1>3. AloneInv'
    BY <1>1 DEF IInv, AloneInv, Active, Before
  <1> QED  BY <1>1, <1>2, <1>3 DEF IInv, Pcs

\* A step of the background task other than the revert: whatever becomes of
\* its writes.
LEMMA TaskOK ==
    ASSUME IInv, NEW r \in Reqs, NEW from, NEW to \in Pcs, Go(r, from, to),
           \/ rb' = rb /\ sha' = sha
           \/ rb' = "done" /\ sha'
           \/ rb' \in {"running", "failed"},
           from \notin {"idle", "checked", "dead"},
           to \notin {"idle", "checked", "dead"},
           to \in {"running", "reverting"} => from \in {"queued", "running"},
           to # "queued",
           UNCHANGED <<reverts, raced>>
    PROVE  IInv'
  <1>1. rb # "none"
    BY DEF IInv, RowInv, Go
  <1>2. pc[r] = from /\ pc' = [pc EXCEPT ![r] = to]
    BY DEF Go
  <1>3. RowInv'
    BY <1>1 DEF IInv, RowInv
  <1>4. AloneInv'
    BY <1>2 DEF IInv, AloneInv, Active, Before
  <1> QED  BY <1>2, <1>3, <1>4 DEF IInv

LEMMA RevertOK == ASSUME IInv, NEW r \in Reqs, Revert(r) PROVE IInv'
  <1>1. PICK to \in {"reverted", "failing"} :
            /\ pc[r] = "reverting" /\ pc' = [pc EXCEPT ![r] = to]
            /\ reverts' \in {reverts, reverts + 1}
    BY DEF Revert, Go
  <1>2. rb' = rb /\ sha' = sha /\ raced' = raced
    BY DEF Revert
  <1>3. RowInv'
    BY <1>1, <1>2 DEF IInv, RowInv
  <1>4. ASSUME ~raced
        PROVE  reverts = 0 /\ \A q \in Reqs \ {r} : ~Active(q)
    BY <1>1, <1>4 DEF IInv, AloneInv, Active, Before
  <1>5. AloneInv'
    BY <1>1, <1>2, <1>4 DEF AloneInv, Active, Before, IInv
  <1> QED  BY <1>1, <1>3, <1>5 DEF IInv, Pcs

LEMMA CrashOK == ASSUME IInv, NEW w \in Workers, Crash(w) PROVE IInv'
  <1>1. /\ pc' = [r \in Reqs |-> IF at[r] = w /\ pc[r] # "idle" THEN "dead" ELSE pc[r]]
        /\ rb' = rb /\ sha' = sha /\ reverts' = reverts /\ raced' = raced
    BY DEF Crash
  <1>2. \A r \in Reqs : pc'[r] \in {pc[r], "dead"}
    BY <1>1
  <1>3. RowInv'
    BY <1>1, <1>2 DEF IInv, RowInv
  <1>4. AloneInv'
    BY <1>1, <1>2 DEF IInv, AloneInv, Active, Before
  <1> QED  BY <1>1, <1>3, <1>4 DEF IInv, Pcs

LEMMA Inductive == IInv /\ [Next]_vars => IInv'
  <1> SUFFICES ASSUME IInv, [Next]_vars PROVE IInv'
    OBVIOUS
  <1>1. ASSUME NEW r \in Reqs, Task(r) PROVE IInv'
    <2>1. CASE Check(r)
      BY <2>1, CheckOK
    <2>2. CASE Queue(r)
      BY <2>2, QueueOK
    <2>3. CASE StartTask(r)
      <3>1. Go(r, "queued", "running")
            /\ ((rb' = rb /\ sha' = sha) \/ rb' = "running")
            /\ UNCHANGED <<reverts, raced>>
        BY <2>3 DEF StartTask, SetFields, unchangedGhosts
      <3> QED  BY <3>1, TaskOK DEF Pcs
    <2>4. CASE Progress(r)
      BY <2>4, TaskOK DEF Progress, unchangedGhosts, Pcs
    <2>5. CASE Revert(r)
      BY <2>5, RevertOK
    <2>6. CASE SaveDone(r)
      <3>1. Go(r, "reverted", "saved") /\ UNCHANGED <<reverts, raced>>
        BY <2>6, Zenon DEF SaveDone, unchangedGhosts
      <3>2. (rb' = rb /\ sha' = sha) \/ (rb' = "done" /\ sha')
        BY <2>6, Zenon DEF SaveDone, SetFields
      <3> QED  BY <3>1, <3>2, TaskOK DEF Pcs
    <2>7. CASE SaveFailed(r)
      <3>1. Go(r, "reported_failure", "saved_failure")
            /\ ((rb' = rb /\ sha' = sha) \/ rb' = "failed")
            /\ UNCHANGED <<reverts, raced>>
        BY <2>7 DEF SaveFailed, SetFields, unchangedGhosts
      <3> QED  BY <3>1, TaskOK DEF Pcs
    <2>8. CASE Report(r)
      <3>1. rb' = rb /\ sha' = sha /\ UNCHANGED <<reverts, raced>>
        BY <2>8 DEF Report, unchangedGhosts
      <3>2. \/ Go(r, "saved", "reported") \/ Go(r, "failing", "reported_failure")
            \/ Go(r, "reported", "ended") \/ Go(r, "saved_failure", "ended")
        BY <2>8 DEF Report
      <3> QED  BY <3>1, <3>2, TaskOK DEF Pcs
    <2> QED  BY <1>1, <2>1, <2>2, <2>3, <2>4, <2>5, <2>6, <2>7, <2>8 DEF Task
  <1>2. ASSUME NEW w \in Workers, Crash(w) PROVE IInv'
    BY <1>2, CrashOK
  <1>3. ASSUME UNCHANGED <<rb, sha, pc, reverts, raced>> PROVE IInv'
    BY <1>3 DEF IInv, RowInv, AloneInv, Active, Before
  <1>4. ASSUME NEW c \in Clients, Stream(c) PROVE UNCHANGED <<rb, sha, pc, reverts, raced>>
    BY <1>4 DEF Stream, Open, TakeLeftover, Poll, Drop, taskVars
  <1> QED  BY <1>1, <1>2, <1>3, <1>4 DEF Next, vars, taskVars

\* However many requests, workers, crashes, lost answers and swallowed writes:
\* a second revert commit takes two requests that were both past rollback_loop's
\* check and before its write.
THEOREM NoSecondRevert == Spec => []OneRevertUnlessRaced
  <1>1. IInv => OneRevertUnlessRaced
    BY DEF IInv, AloneInv, OneRevertUnlessRaced
  <1> QED  BY <1>1, Initially, Inductive, PTL DEF Spec
-----------------------------------------------------------------------------
(***************************************************************************)
(* What the browser is told.  Once the revert is on the branch and on the  *)
(* row (or its write lost) that stays so; until then no event, wherever it *)
(* is kept, and no task about to write one announces a success.            *)
(***************************************************************************)
Kinds == {"none", "shipped", "progress", "reverted", "end_ok", "error", "end_failed"}

Landed == reverts > 0 /\ (sha \/ lost)

Silent ==
    /\ last.kind # "end_ok"
    /\ \A w \in Workers : \A i \in 1 .. Len(ring[w]) : ring[w][i].kind # "end_ok"
    /\ \A c \in Clients : \A e \in conn[c].ends : e.kind # "end_ok"
    /\ \A r \in Reqs : pc[r] \notin {"saved", "reported"}

EndInv == /\ \A r \in Reqs : pc[r] = "reverted" => reverts > 0
          /\ Landed \/ Silent

\* A stream is held for a rollback that the row goes on knowing of.
WatchInv == \A c \in Clients : conn[c].watching => rb # "none"

ToldInv == TypeOK /\ EndInv /\ WatchInv

LEMMA EventType == \A kind \in Kinds, by \in Reqs \cup {"any"} : Event(kind, by) \in Events
  BY DEF Event, Events, Kinds

\* What the browser makes of a batch: it learns of nothing but the batch, and
\* the server's fields of the connection stay.
LEMMA ReceiveType ==
    ASSUME NEW x \in Conn, NEW top \in Nat \cup {-1}, NEW events \in SUBSET Events
    PROVE  /\ Receive(x, top, events) \in Conn
           /\ Receive(x, top, events).ends \subseteq x.ends \cup events
           /\ Receive(x, top, events).on = x.on
           /\ Receive(x, top, events).w = x.w
           /\ Receive(x, top, events).tries = x.tries
           /\ Receive(x, top, events).watching = x.watching
  <1>1. CASE top <= x.seq
    BY <1>1 DEF Receive
  <1>2. CASE ~(top <= x.seq)
    <2> DEFINE heard == {e \in events : e.kind \in {"end_ok", "end_failed"}}
               over == x.terminal \/ \E e \in events : Terminal(e)
    <2>1. over \in BOOLEAN
      BY Zenon
    <2>2. heard \subseteq events /\ heard \in SUBSET Events
      OBVIOUS
    <2>3. Receive(x, top, events) = [x EXCEPT !.seq = top, !.terminal = over, !.ends = @ \cup heard]
      BY <1>2, Zenon DEF Receive
    <2> HIDE DEF heard, over
    <2> QED  BY <2>1, <2>2, <2>3 DEF Conn
  <1> QED  BY <1>1, <1>2

LEMMA ClosedType ==
    ASSUME NEW x \in Conn
    PROVE  /\ Closed(x) \in Conn /\ Closed(x).on # "open"
           /\ Closed(x).ends = x.ends /\ (Closed(x).watching => x.watching)
  <1> DEFINE y == [NoConn EXCEPT !.on = "finished", !.ends = x.ends]
             z == [x EXCEPT !.on = "off", !.w = "none", !.sig = NoConn.sig]
  <1>1. NoConn \in Conn /\ NoConn.watching = FALSE /\ NoConn.sig \in Events
    BY RollbackConstants DEF NoConn, Conn, Event, Events
  <1>2. y \in Conn /\ y.on = "finished" /\ y.ends = x.ends /\ y.watching = FALSE
    BY <1>1 DEF Conn
  <1>3. z \in Conn /\ z.on = "off" /\ z.ends = x.ends /\ z.watching = x.watching
    BY <1>1 DEF Conn
  <1>4. Closed(x) = y \/ Closed(x) = z
    BY Zenon DEF Closed
  <1> HIDE DEF y, z
  <1> QED  BY <1>2, <1>3, <1>4

LEMMA ToldInitially == Init => ToldInv
  <1> SUFFICES ASSUME Init PROVE ToldInv
    OBVIOUS
  <1> USE DEF Init
  <1>1. PICK v \in Workers :
           /\ ring = [x \in Workers |-> IF x = v THEN <<Shipped>> ELSE <<>>]
           /\ \E n \in 0 .. MaxLeft : leftover = [x \in Workers |-> IF x = v THEN n ELSE 0]
    OBVIOUS
  <1>2. Shipped \in Events /\ Shipped.kind = "shipped"
    BY DEF Shipped, Event, Events
  <1>3. NoConn \in Conn /\ NoConn.on = "off" /\ NoConn.ends = {} /\ NoConn.watching = FALSE
    BY RollbackConstants DEF NoConn, Conn, Event, Events
  <1>4. <<Shipped>> \in Seq(Events) /\ <<>> \in Seq(Events)
    BY <1>2
  <1>5. ring \in [Workers -> Seq(Events)]
    BY <1>1, <1>4
  <1>6. conn \in [Clients -> Conn] /\ \A c \in Clients : conn[c] = NoConn
    BY <1>3
  <1>7. TypeOK
    <2>1. /\ rb = "none" /\ sha = FALSE /\ last = Shipped /\ at \in [Reqs -> Workers]
          /\ drops = 0 /\ faults = 0 /\ reverts = 0 /\ raced = FALSE /\ lost = FALSE
      OBVIOUS
    <2>2. pc \in [Reqs -> Pcs]
      BY DEF Pcs
    <2>3. \A c \in Clients : conn[c].on = "open" => conn[c].w \in Workers
      BY <1>3, <1>6
    <2>4. drops \in 0 .. MaxDrops /\ faults \in 0 .. MaxFaults
      BY <2>1, RollbackConstants
    <2>5. leftover \in [Workers -> Nat]
      BY <1>1, RollbackConstants
    <2> HIDE DEF Init
    <2> QED  BY <1>2, <1>5, <1>6, <2>1, <2>2, <2>3, <2>4, <2>5 DEF TypeOK, Pcs
  <1>8. \A w \in Workers : \A i \in 1 .. Len(ring[w]) : ring[w][i].kind # "end_ok"
    <2> SUFFICES ASSUME NEW w \in Workers, NEW i \in 1 .. Len(ring[w])
                 PROVE  ring[w][i].kind # "end_ok"
      OBVIOUS
    <2>1. ring[w] = <<Shipped>> \/ ring[w] = <<>>
      BY <1>1
    <2>2. i = 1 /\ ring[w][1] = Shipped
      BY <2>1
    <2> QED  BY <1>2, <2>2
  <1>9. Silent
    BY <1>2, <1>3, <1>6, <1>8 DEF Silent
  <1> QED  BY <1>3, <1>6, <1>7, <1>9 DEF ToldInv, EndInv, WatchInv

-----------------------------------------------------------------------------
\* The tasks.  They leave the connections alone; what they write to the row is
\* a status other than "none", and an event that says what they have done.
LEMMA EmitOK ==
    ASSUME TypeOK, NEW r \in Reqs, NEW kind \in Kinds, Emit(r, kind)
    PROVE  /\ last' \in {last, Event(kind, r)} /\ last' \in Events
           /\ ring' \in [Workers -> Seq(Events)]
           /\ \A w \in Workers : \A i \in 1 .. Len(ring'[w]) :
                \/ ring'[w][i].kind = kind
                \/ i \in 1 .. Len(ring[w]) /\ ring'[w][i] = ring[w][i]
           /\ faults' \in 0 .. MaxFaults
  <1> DEFINE e == Event(kind, r)
  <1>1. e \in Events /\ e.kind = kind
    BY EventType DEF Event
  <1>2. at[r] \in Workers /\ ring \in [Workers -> Seq(Events)] /\ last \in Events
        /\ faults \in 0 .. MaxFaults
    BY DEF TypeOK
  <1>3. ring' = [ring EXCEPT ![at[r]] = Append(@, e)]
    BY DEF Emit
  <1>4. last' \in {last, e} /\ faults' \in 0 .. MaxFaults
    BY <1>2, RollbackConstants DEF Emit, Fault
  <1> HIDE DEF e
  <1>5. ring' \in [Workers -> Seq(Events)]
    BY <1>1, <1>2, <1>3
  <1>6. ASSUME NEW w \in Workers, NEW i \in 1 .. Len(ring'[w])
        PROVE  \/ ring'[w][i].kind = kind
               \/ i \in 1 .. Len(ring[w]) /\ ring'[w][i] = ring[w][i]
    <2>1. CASE w = at[r]
      <3>1. ring'[w] = Append(ring[w], e) /\ ring[w] \in Seq(Events)
        BY <1>2, <1>3, <2>1
      <3>2. Len(ring'[w]) = Len(ring[w]) + 1 /\ Len(ring[w]) \in Nat
        BY <1>1, <3>1
      <3>3. CASE i = Len(ring[w]) + 1
        BY <1>1, <3>1, <3>3
      <3>4. CASE i \in 1 .. Len(ring[w])
        BY <1>1, <3>1, <3>4
      <3> QED  BY <3>2, <3>3, <3>4
    <2>2. CASE w # at[r]
      BY <1>2, <1>3, <2>2
    <2> QED  BY <2>1, <2>2
  <1> QED  BY <1>1, <1>2, <1>4, <1>5, <1>6 DEF e

\* _set_fields: what it writes, and that what it loses is remembered.
LEMMA SetFieldsOK ==
    ASSUME TypeOK, NEW status, NEW done \in BOOLEAN, SetFields(status, done)
    PROVE  /\ rb' \in {rb, status} /\ (faults' = faults \/ Fault)
           /\ sha' \in BOOLEAN /\ lost' \in BOOLEAN
           /\ (sha => sha') /\ (lost => lost')
           /\ done => sha' \/ lost'
  <1>1. sha \in BOOLEAN /\ lost \in BOOLEAN
    BY DEF TypeOK
  <1>2. CASE rb' = status /\ sha' = (sha \/ done) /\ UNCHANGED <<faults, lost>>
    <2>1. sha' <=> sha \/ done
      BY <1>2, Zenon
    <2>2. sha' \in BOOLEAN
      BY <1>2, Zenon
    <2>3. rb' = status /\ faults' = faults /\ lost' = lost
      BY <1>2
    <2> QED  BY <1>1, <2>1, <2>2, <2>3
  <1>3. CASE Fault /\ lost' = TRUE /\ UNCHANGED <<rb, sha>>
    BY <1>1, <1>3
  <1> QED  BY <1>2, <1>3 DEF SetFields

\* A step that writes the row's status at most, and sends nothing.
LEMMA StatusOK ==
    ASSUME ToldInv, NEW r \in Reqs, NEW from, NEW to \in Pcs, Go(r, from, to),
           UNCHANGED <<last, at, ring, leftover, conn, drops>>,
           rb' \in {rb, "queued", "running", "done", "failed"},
           sha' \in BOOLEAN, lost' \in BOOLEAN, raced' \in BOOLEAN,
           sha => sha', lost => lost',
           faults' \in 0 .. MaxFaults, reverts' \in {reverts, reverts + 1},
           to = "reverted" => reverts' > 0,
           to \in {"saved", "reported"} => Landed'
    PROVE  ToldInv'
  <1>1. TypeOK /\ EndInv /\ WatchInv
    BY DEF ToldInv
  <1>2. pc' = [pc EXCEPT ![r] = to] /\ pc \in [Reqs -> Pcs]
    BY <1>1 DEF Go, TypeOK, Pcs
  <1>3. TypeOK'
    <2>1. pc' \in [Reqs -> Pcs] /\ reverts' \in Nat
      BY <1>1, <1>2 DEF TypeOK
    <2>2. rb' \in {"none", "queued", "running", "done", "failed"}
      BY <1>1 DEF TypeOK
    <2> QED  BY <1>1, <2>1, <2>2 DEF TypeOK, Pcs
  <1>4. WatchInv'
    BY <1>1 DEF WatchInv
  <1>5. \A q \in Reqs : pc'[q] = "reverted" => reverts' > 0
    BY <1>1, <1>2 DEF EndInv, TypeOK
  <1>6. Landed => Landed'
    BY <1>1 DEF TypeOK, Landed
  <1>7. Silent => Landed' \/ Silent'
    BY <1>2 DEF Silent
  <1>8. EndInv'
    BY <1>1, <1>5, <1>6, <1>7 DEF EndInv
  <1> QED  BY <1>3, <1>4, <1>8 DEF ToldInv

\* A step that sends one event: the end of a success only after it was saved.
LEMMA TellOK ==
    ASSUME ToldInv, NEW r \in Reqs, NEW from, NEW to \in Pcs, Go(r, from, to),
           NEW kind \in Kinds, Emit(r, kind),
           UNCHANGED <<rb, sha, at, lost, leftover, conn, drops, reverts, raced>>,
           to \notin {"reverted", "saved"}, to = "reported" => from = "saved",
           kind = "end_ok" => from = "reported"
    PROVE  ToldInv'
  <1>1. TypeOK /\ EndInv /\ WatchInv
    BY DEF ToldInv
  <1>2. pc' = [pc EXCEPT ![r] = to] /\ pc[r] = from /\ pc \in [Reqs -> Pcs]
    BY <1>1 DEF Go, TypeOK, Pcs
  <1>3. /\ last' \in {last, Event(kind, r)} /\ last' \in Events
        /\ ring' \in [Workers -> Seq(Events)]
        /\ faults' \in 0 .. MaxFaults
    BY <1>1, EmitOK
  <1>4. \A w \in Workers : \A i \in 1 .. Len(ring'[w]) :
                \/ ring'[w][i].kind = kind
                \/ i \in 1 .. Len(ring[w]) /\ ring'[w][i] = ring[w][i]
    BY <1>1, EmitOK
  <1>5. TypeOK'
    <2>1. pc' \in [Reqs -> Pcs]
      BY <1>2
    <2> QED  BY <1>1, <1>3, <2>1 DEF TypeOK, Pcs
  <1>6. WatchInv'
    BY <1>1 DEF WatchInv
  <1>7. \A q \in Reqs : pc'[q] = "reverted" => reverts' > 0
    BY <1>1, <1>2 DEF EndInv
  <1>8. Landed => Landed'
    BY DEF Landed
  <1>9. ASSUME Silent PROVE Silent'
    <2>1. kind # "end_ok" /\ to \notin {"saved", "reported"}
      BY <1>2, <1>9 DEF Silent
    <2>2. last'.kind # "end_ok"
      BY <1>3, <1>9, <2>1 DEF Silent, Event
    <2>3. \A w \in Workers : \A i \in 1 .. Len(ring'[w]) : ring'[w][i].kind # "end_ok"
      BY <1>4, <1>9, <2>1 DEF Silent
    <2>4. \A q \in Reqs : pc'[q] \notin {"saved", "reported"}
      BY <1>2, <1>9, <2>1 DEF Silent
    <2> QED  BY <1>9, <2>2, <2>3, <2>4 DEF Silent
  <1>10. EndInv'
    BY <1>1, <1>7, <1>8, <1>9 DEF EndInv
  <1> QED  BY <1>5, <1>6, <1>10 DEF ToldInv

LEMMA FaultRange == ASSUME TypeOK, faults' = faults \/ Fault PROVE faults' \in 0 .. MaxFaults
  BY RollbackConstants DEF TypeOK, Fault

LEMMA TaskTold == ASSUME ToldInv, NEW r \in Reqs, Task(r) PROVE ToldInv'
  <1>0. TypeOK /\ EndInv
    BY DEF ToldInv
  <1>1. CASE Check(r)
    <2>1. /\ Go(r, "idle", "checked") /\ UNCHANGED <<last, at, ring, leftover, conn, drops>>
          /\ UNCHANGED <<rb, sha, lost, faults, reverts>>
      BY <1>1 DEF Check, unchangedClients
    <2>2. raced' \in BOOLEAN /\ sha \in BOOLEAN /\ lost \in BOOLEAN
      <3>1. raced' \in BOOLEAN
        BY <1>1, Zenon DEF Check
      <3> QED  BY <1>0, <3>1 DEF TypeOK
    <2>3. faults' \in 0 .. MaxFaults
      BY <1>0, <2>1, FaultRange
    <2> QED  BY <2>1, <2>2, <2>3, StatusOK DEF Pcs
  <1>2. CASE Queue(r)
    <2>1. /\ Go(r, "checked", "queued") /\ UNCHANGED <<last, at, ring, leftover, conn, drops>>
          /\ rb' = "queued" /\ UNCHANGED <<sha, lost, faults, reverts, raced>>
      BY <1>2 DEF Queue, unchangedClients, unchangedGhosts
    <2>2. raced' \in BOOLEAN /\ sha \in BOOLEAN /\ lost \in BOOLEAN /\ faults' \in 0 .. MaxFaults
      BY <1>0, <2>1 DEF TypeOK
    <2> QED  BY <2>1, <2>2, StatusOK DEF Pcs
  <1>3. CASE StartTask(r)
    <2>1. /\ Go(r, "queued", "running") /\ UNCHANGED <<last, at, ring, leftover, conn, drops>>
          /\ UNCHANGED <<reverts, raced>>
      BY <1>3 DEF StartTask, unchangedClients, unchangedGhosts
    <2>2. SetFields("running", FALSE)
      BY <1>3 DEF StartTask
    <2>3. /\ rb' \in {rb, "running"} /\ (faults' = faults \/ Fault)
          /\ sha' \in BOOLEAN /\ lost' \in BOOLEAN /\ (sha => sha') /\ (lost => lost')
      BY <1>0, <2>2, SetFieldsOK
    <2>4. raced' \in BOOLEAN /\ faults' \in 0 .. MaxFaults
      BY <1>0, <2>1, <2>3, FaultRange DEF TypeOK
    <2> QED  BY <2>1, <2>3, <2>4, StatusOK DEF Pcs
  <1>4. CASE Progress(r)
    <2>1. /\ Go(r, "running", "reverting") /\ Emit(r, "progress")
          /\ UNCHANGED <<rb, sha, at, lost, leftover, conn, drops, reverts, raced>>
      BY <1>4 DEF Progress, unchangedClients, unchangedGhosts
    <2> QED  BY <2>1, TellOK DEF Pcs, Kinds
  <1>5. CASE Revert(r)
    <2>1. PICK to \in {"reverted", "failing"} :
            /\ Go(r, "reverting", to)
            /\ reverts' \in {reverts, reverts + 1}
            /\ to = "reverted" => reverts' = reverts + 1
            /\ faults' = faults \/ Fault
      BY <1>5 DEF Revert
    <2>2. UNCHANGED <<last, at, ring, leftover, conn, drops>> /\ UNCHANGED <<rb, sha, raced, lost>>
      BY <1>5 DEF Revert, unchangedClients
    <2>3. raced' \in BOOLEAN /\ sha \in BOOLEAN /\ lost \in BOOLEAN /\ faults' \in 0 .. MaxFaults
      BY <1>0, <2>1, <2>2, FaultRange DEF TypeOK
    <2>4. to = "reverted" => reverts' > 0
      BY <1>0, <2>1 DEF TypeOK
    <2>5. to \in Pcs /\ to \notin {"saved", "reported"}
      BY DEF Pcs
    <2> QED  BY <2>1, <2>2, <2>3, <2>4, <2>5, StatusOK
  <1>6. CASE SaveDone(r)
    <2>1. /\ Go(r, "reverted", "saved") /\ UNCHANGED <<last, at, ring, leftover, conn, drops>>
          /\ UNCHANGED <<reverts, raced>>
      BY <1>6 DEF SaveDone, unchangedClients, unchangedGhosts
    <2>2. SetFields("done", TRUE)
      BY <1>6 DEF SaveDone
    <2>3. /\ rb' \in {rb, "done"} /\ (faults' = faults \/ Fault)
          /\ sha' \in BOOLEAN /\ lost' \in BOOLEAN /\ (sha => sha') /\ (lost => lost')
          /\ sha' \/ lost'
      BY <1>0, <2>2, SetFieldsOK
    <2>4. raced' \in BOOLEAN /\ faults' \in 0 .. MaxFaults
      BY <1>0, <2>1, <2>3, FaultRange DEF TypeOK
    <2>5. reverts > 0
      BY <1>0, <2>1 DEF EndInv, Go
    <2>6. Landed'
      BY <2>1, <2>3, <2>5 DEF Landed
    <2> QED  BY <2>1, <2>3, <2>4, <2>6, StatusOK DEF Pcs
  <1>7. CASE SaveFailed(r)
    <2>1. /\ Go(r, "reported_failure", "saved_failure") /\ UNCHANGED <<last, at, ring, leftover, conn, drops>>
          /\ UNCHANGED <<reverts, raced>>
      BY <1>7 DEF SaveFailed, unchangedClients, unchangedGhosts
    <2>2. SetFields("failed", FALSE)
      BY <1>7 DEF SaveFailed
    <2>3. /\ rb' \in {rb, "failed"} /\ (faults' = faults \/ Fault)
          /\ sha' \in BOOLEAN /\ lost' \in BOOLEAN /\ (sha => sha') /\ (lost => lost')
      BY <1>0, <2>2, SetFieldsOK
    <2>4. raced' \in BOOLEAN /\ faults' \in 0 .. MaxFaults
      BY <1>0, <2>1, <2>3, FaultRange DEF TypeOK
    <2> QED  BY <2>1, <2>3, <2>4, StatusOK DEF Pcs
  <1>8. CASE Report(r)
    <2>1. UNCHANGED <<rb, sha, at, lost, leftover, conn, drops, reverts, raced>>
      BY <1>8 DEF Report, unchangedClients, unchangedGhosts
    <2>2. CASE Go(r, "saved", "reported") /\ Emit(r, "reverted")
      BY <2>1, <2>2, TellOK DEF Pcs, Kinds
    <2>3. CASE Go(r, "failing", "reported_failure") /\ Emit(r, "error")
      BY <2>1, <2>3, TellOK DEF Pcs, Kinds
    <2>4. CASE Go(r, "reported", "ended") /\ Emit(r, "end_ok")
      BY <2>1, <2>4, TellOK DEF Pcs, Kinds
    <2>5. CASE Go(r, "saved_failure", "ended") /\ Emit(r, "end_failed")
      BY <2>1, <2>5, TellOK DEF Pcs, Kinds
    <2> QED  BY <1>8, <2>2, <2>3, <2>4, <2>5 DEF Report
  <1> QED  BY <1>1, <1>2, <1>3, <1>4, <1>5, <1>6, <1>7, <1>8 DEF Task

-----------------------------------------------------------------------------
\* The streams.  They write nothing to the row, and what they show was in a
\* ring or in the row.
LEMMA StreamOK ==
    ASSUME ToldInv, NEW c \in Clients, NEW y, conn' = [conn EXCEPT ![c] = y],
           y \in Conn, y.on = "open" => y.w \in Workers, y.watching => rb # "none",
           Silent => \A e \in y.ends : e.kind # "end_ok",
           ring' \in [Workers -> Seq(Events)],
           Silent => \A w \in Workers : \A i \in 1 .. Len(ring'[w]) : ring'[w][i].kind # "end_ok",
           UNCHANGED <<rb, sha, last, pc, at, faults, reverts, raced, lost>>,
           leftover' \in [Workers -> Nat], drops' \in 0 .. MaxDrops
    PROVE  ToldInv'
  <1>1. TypeOK /\ EndInv /\ WatchInv
    BY DEF ToldInv
  <1>2. conn \in [Clients -> Conn] /\ conn' \in [Clients -> Conn]
    BY <1>1 DEF TypeOK
  <1>3. \A d \in Clients : conn'[d] = IF d = c THEN y ELSE conn[d]
    BY <1>2
  <1>4. \A d \in Clients : conn'[d].on = "open" => conn'[d].w \in Workers
    BY <1>1, <1>3 DEF TypeOK
  <1>5. TypeOK'
    BY <1>1, <1>2, <1>4 DEF TypeOK
  <1>6. WatchInv'
    BY <1>1, <1>3 DEF WatchInv
  <1>7. Silent => Silent'
    BY <1>3 DEF Silent
  <1>8. EndInv'
    BY <1>1, <1>7 DEF EndInv, Landed
  <1> QED  BY <1>5, <1>6, <1>8 DEF ToldInv

LEMMA OpenOK == ASSUME ToldInv, NEW c \in Clients, NEW w \in Workers, Open(c, w) PROVE ToldInv'
  <1>1. TypeOK /\ WatchInv
    BY DEF ToldInv
  <1> DEFINE x == conn[c]
             top == Len(ring[w]) - 1
             news == {ring[w][i] : i \in x.seq + 2 .. Len(ring[w])}
             y == Receive(x, top, news)
             sig == IF top <= x.seq THEN NoConn.sig ELSE Last(ring[w])
             held == x.watching \/ InFlight(rb)
             z == [y EXCEPT !.on = "open", !.w = w, !.tries = @ + 1, !.sig = sig,
                            !.watching = @ \/ InFlight(rb)]
  <1>2. x \in Conn /\ ring[w] \in Seq(Events) /\ ring \in [Workers -> Seq(Events)]
    BY <1>1 DEF TypeOK
  <1>3. x.tries < MaxConnects /\ conn' = [conn EXCEPT ![c] = z]
        /\ UNCHANGED <<taskVars, leftover, drops, faults, reverts, raced, lost>>
    BY Zenon DEF Open
  <1>4. x.seq \in Nat \cup {-1} /\ top \in Nat \cup {-1} /\ Len(ring[w]) \in Nat
    BY <1>2 DEF Conn
  <1>5. \A i \in x.seq + 2 .. Len(ring[w]) : i \in 1 .. Len(ring[w]) /\ ring[w][i] \in Events
    BY <1>2, <1>4
  <1>6. news \in SUBSET Events
    BY <1>5
  <1>7. /\ y \in Conn /\ y.ends \subseteq x.ends \cup news /\ y.tries = x.tries
        /\ y.watching = x.watching
    <2> HIDE DEF x, top, news
    <2> QED  BY <1>2, <1>4, <1>6, ReceiveType
  <1>8. sig \in Events
    <2>1. NoConn.sig \in Events
      BY DEF NoConn, Event, Events
    <2>2. CASE top <= x.seq
      BY <2>1, <2>2
    <2>3. CASE ~(top <= x.seq)
      <3>1. Len(ring[w]) \in 1 .. Len(ring[w])
        BY <1>4, <2>3
      <3>2. Last(ring[w]) \in Events
        BY <1>2, <3>1 DEF Last
      <3> QED  BY <2>3, <3>2
    <2> QED  BY <2>2, <2>3
  <1>9. held \in BOOLEAN /\ (held => rb # "none")
    <2>1. x.watching => rb # "none"
      BY <1>1 DEF WatchInv
    <2> QED  BY <2>1 DEF InFlight
  <1>10. z = [y EXCEPT !.on = "open", !.w = w, !.tries = @ + 1, !.sig = sig, !.watching = held]
    BY <1>7, Zenon
  <1>11. z \in Conn /\ z.on = "open" /\ z.w = w /\ z.watching = held /\ z.ends = y.ends
    <2>1. y.tries + 1 \in 0 .. MaxConnects
      BY <1>2, <1>3, <1>7, RollbackConstants DEF Conn
    <2> HIDE DEF x, top, news, y, sig, held, z
    <2> QED  BY <1>7, <1>8, <1>9, <1>10, <2>1 DEF Conn
  <1>12. Silent => \A e \in z.ends : e.kind # "end_ok"
    <2> SUFFICES ASSUME Silent, NEW e \in z.ends PROVE e.kind # "end_ok"
      OBVIOUS
    <2>1. e \in x.ends \/ e \in news
      BY <1>7, <1>11
    <2>2. CASE e \in x.ends
      BY <2>2 DEF Silent
    <2>3. CASE e \in news
      BY <1>5, <2>3 DEF Silent
    <2> QED  BY <2>1, <2>2, <2>3
  <1>13. ring' = ring /\ UNCHANGED <<rb, sha, last, pc, at, faults, reverts, raced, lost>>
         /\ drops' \in 0 .. MaxDrops /\ leftover' \in [Workers -> Nat]
    BY <1>1, <1>3 DEF taskVars, TypeOK
  <1>14. Silent => \A v \in Workers : \A i \in 1 .. Len(ring'[v]) : ring'[v][i].kind # "end_ok"
    BY <1>13 DEF Silent
  <1> HIDE DEF z
  <1>15. z.on = "open" => z.w \in Workers
    BY <1>11
  <1>16. z.watching => rb # "none"
    BY <1>9, <1>11
  <1> QED  BY <1>2, <1>3, <1>11, <1>12, <1>13, <1>14, <1>15, <1>16, StreamOK

LEMMA PollOK == ASSUME ToldInv, NEW c \in Clients, Poll(c) PROVE ToldInv'
  <1>1. TypeOK /\ WatchInv
    BY DEF ToldInv
  <1> DEFINE x == conn[c]
             fresh == last # x.sig
             got == Receive(x, Len(ring[x.w]), {last})
             y == IF fresh THEN [got EXCEPT !.sig = last] ELSE x
             z == IF InFlight(rb) THEN y ELSE Closed(y)
  <1>2. x \in Conn /\ last \in Events /\ ring \in [Workers -> Seq(Events)]
    BY <1>1 DEF TypeOK
  <1>3. x.on = "open" /\ conn' = [conn EXCEPT ![c] = z]
        /\ ring' = (IF fresh THEN [ring EXCEPT ![x.w] = Append(@, last)] ELSE ring)
        /\ UNCHANGED <<rb, sha, last, pc, at, leftover, drops, faults, reverts, raced, lost>>
    BY Zenon DEF Poll
  <1>4. x.w \in Workers
    BY <1>1, <1>3 DEF TypeOK
  <1>5. /\ got \in Conn /\ got.ends \subseteq x.ends \cup {last} /\ got.on = x.on
        /\ got.w = x.w /\ got.watching = x.watching
    <2>1. Len(ring[x.w]) \in Nat \cup {-1} /\ {last} \in SUBSET Events
      BY <1>2, <1>4
    <2> HIDE DEF x
    <2> QED  BY <1>2, <2>1, ReceiveType
  <1>6. /\ y \in Conn /\ y.ends \subseteq x.ends \cup {last}
        /\ y.w = x.w /\ y.watching = x.watching
    <2> HIDE DEF x, got
    <2> QED  BY <1>2, <1>5 DEF Conn
  <1>7. /\ z \in Conn /\ z.ends \subseteq x.ends \cup {last}
        /\ (z.watching => x.watching) /\ (z.on = "open" => z.w = x.w)
    <2> HIDE DEF y
    <2>1. CASE InFlight(rb)
      BY <1>6, <2>1
    <2>2. CASE ~InFlight(rb)
      BY <1>6, <2>2, ClosedType
    <2> QED  BY <2>1, <2>2
  <1>8. Silent => \A e \in z.ends : e.kind # "end_ok"
    BY <1>7 DEF Silent
  <1>9. ring' \in [Workers -> Seq(Events)]
    <2>1. Append(ring[x.w], last) \in Seq(Events)
      BY <1>2, <1>4
    <2> QED  BY <1>2, <1>3, <1>4, <2>1
  <1>10. ASSUME Silent, NEW v \in Workers, NEW i \in 1 .. Len(ring'[v])
         PROVE  ring'[v][i].kind # "end_ok"
    <2>1. CASE fresh /\ v = x.w
      <3>1. ring'[v] = Append(ring[v], last) /\ ring[v] \in Seq(Events)
        BY <1>2, <1>3, <1>4, <2>1
      <3>2. i \in 1 .. Len(ring[v]) + 1
        BY <1>2, <3>1
      <3>3. ring'[v][i] = IF i = Len(ring[v]) + 1 THEN last ELSE ring[v][i]
        BY <1>2, <3>1, <3>2
      <3>4. i \in 1 .. Len(ring[v]) \/ i = Len(ring[v]) + 1
        BY <3>1, <3>2
      <3> QED  BY <1>10, <3>3, <3>4 DEF Silent
    <2>2. CASE ~(fresh /\ v = x.w)
      <3>1. ring'[v] = ring[v]
        BY <1>2, <1>3, <2>2
      <3> QED  BY <1>10, <3>1 DEF Silent
    <2> QED  BY <2>1, <2>2
  <1>11. drops' \in 0 .. MaxDrops /\ leftover' \in [Workers -> Nat]
    BY <1>1, <1>3 DEF TypeOK
  <1>12. z.on = "open" => z.w \in Workers
    BY <1>4, <1>7
  <1>13. z.watching => rb # "none"
    BY <1>1, <1>7 DEF WatchInv
  <1> HIDE DEF z, fresh
  <1> QED  BY <1>3, <1>7, <1>8, <1>9, <1>10, <1>11, <1>12, <1>13, StreamOK

LEMMA TakeOK == ASSUME ToldInv, NEW c \in Clients, TakeLeftover(c) PROVE ToldInv'
  <1>1. TypeOK /\ WatchInv
    BY DEF ToldInv
  <1> DEFINE x == conn[c]
             z == Closed(x)
  <1>2. x \in Conn /\ ring \in [Workers -> Seq(Events)] /\ leftover \in [Workers -> Nat]
    BY <1>1 DEF TypeOK
  <1>3. x.on = "open" /\ leftover[x.w] > 0 /\ conn' = [conn EXCEPT ![c] = z]
        /\ leftover' = [leftover EXCEPT ![x.w] = leftover[x.w] - 1]
        /\ UNCHANGED <<taskVars, drops, faults, reverts, raced, lost>>
    BY Zenon DEF TakeLeftover
  <1>4. x.w \in Workers
    BY <1>1, <1>3 DEF TypeOK
  <1>5. leftover' \in [Workers -> Nat]
    <2>1. leftover[x.w] - 1 \in Nat
      BY <1>2, <1>3, <1>4
    <2> QED  BY <1>2, <1>3, <2>1
  <1>6. z \in Conn /\ z.on # "open" /\ z.ends = x.ends /\ (z.watching => x.watching)
    BY <1>2, ClosedType
  <1>7. z.watching => rb # "none"
    BY <1>1, <1>6 DEF WatchInv
  <1>8. ring' = ring /\ UNCHANGED <<rb, sha, last, pc, at, faults, reverts, raced, lost>>
        /\ drops' \in 0 .. MaxDrops
    BY <1>1, <1>3 DEF taskVars, TypeOK
  <1>9. Silent => \A e \in z.ends : e.kind # "end_ok"
    BY <1>6 DEF Silent
  <1>10. Silent => \A v \in Workers : \A i \in 1 .. Len(ring'[v]) : ring'[v][i].kind # "end_ok"
    BY <1>8 DEF Silent
  <1>11. z.on = "open" => z.w \in Workers
    BY <1>6
  <1>12. ring' \in [Workers -> Seq(Events)]
    BY <1>2, <1>8
  <1> HIDE DEF z
  <1> QED  BY <1>3, <1>5, <1>6, <1>7, <1>8, <1>9, <1>10, <1>11, <1>12, StreamOK

LEMMA DropOK == ASSUME ToldInv, NEW c \in Clients, Drop(c) PROVE ToldInv'
  <1>1. TypeOK /\ WatchInv
    BY DEF ToldInv
  <1> DEFINE z == Closed(conn[c])
  <1>2. conn[c] \in Conn /\ ring \in [Workers -> Seq(Events)] /\ drops \in 0 .. MaxDrops
    BY <1>1 DEF TypeOK
  <1>3. conn' = [conn EXCEPT ![c] = z] /\ drops < MaxDrops /\ drops' = drops + 1
        /\ UNCHANGED <<taskVars, leftover, faults, reverts, raced, lost>>
    BY Zenon DEF Drop
  <1>4. z \in Conn /\ z.on # "open" /\ z.ends = conn[c].ends /\ (z.watching => conn[c].watching)
    BY <1>2, ClosedType
  <1>5. z.watching => rb # "none"
    BY <1>1, <1>4 DEF WatchInv
  <1>6. ring' = ring /\ UNCHANGED <<rb, sha, last, pc, at, faults, reverts, raced, lost>>
    BY <1>3 DEF taskVars
  <1>7. drops' \in 0 .. MaxDrops /\ leftover' \in [Workers -> Nat]
    BY <1>1, <1>2, <1>3, RollbackConstants DEF TypeOK
  <1>8. Silent => \A e \in z.ends : e.kind # "end_ok"
    BY <1>4 DEF Silent
  <1>9. Silent => \A v \in Workers : \A i \in 1 .. Len(ring'[v]) : ring'[v][i].kind # "end_ok"
    BY <1>6 DEF Silent
  <1> HIDE DEF z
  <1> QED  BY <1>2, <1>3, <1>4, <1>5, <1>6, <1>7, <1>8, <1>9, StreamOK

LEMMA CrashTold == ASSUME ToldInv, NEW w \in Workers, Crash(w) PROVE ToldInv'
  <1>1. TypeOK /\ EndInv /\ WatchInv
    BY DEF ToldInv
  <1>2. /\ Fault /\ UNCHANGED <<rb, sha, last, at, drops, reverts, raced, lost>>
        /\ ring' = [ring EXCEPT ![w] = <<>>] /\ leftover' = [leftover EXCEPT ![w] = 0]
        /\ pc' = [r \in Reqs |-> IF at[r] = w /\ pc[r] # "idle" THEN "dead" ELSE pc[r]]
    BY DEF Crash
  <1>3. \A d \in Clients : /\ conn'[d] \in Conn /\ conn'[d].ends = conn[d].ends
                           /\ (conn'[d].watching => conn[d].watching)
                           /\ conn'[d].on = "open" => conn'[d].w \in Workers
    <2> TAKE d \in Clients
    <2>1. conn[d] \in Conn /\ (conn[d].on = "open" => conn[d].w \in Workers)
      BY <1>1 DEF TypeOK
    <2>2. conn'[d] = IF conn[d].on = "open" /\ conn[d].w = w
                     THEN Closed(conn[d]) ELSE conn[d]
      BY DEF Crash
    <2> QED  BY <2>1, <2>2, ClosedType
  <1>4. conn' \in [Clients -> Conn]
    <2>1. DOMAIN conn' = Clients /\ conn' = [d \in Clients |-> conn'[d]]
      BY DEF Crash
    <2> QED  BY <1>3, <2>1
  <1>5. pc' \in [Reqs -> Pcs] /\ \A r \in Reqs : pc'[r] \in {pc[r], "dead"}
    BY <1>1, <1>2 DEF TypeOK, Pcs
  <1>6. ring' \in [Workers -> Seq(Events)]
    BY <1>1, <1>2 DEF TypeOK
  <1>7. \A v \in Workers : v # w => ring'[v] = ring[v]
    BY <1>1, <1>2 DEF TypeOK
  <1>8. ring'[w] = <<>>
    BY <1>1, <1>2 DEF TypeOK
  <1>9. faults' \in 0 .. MaxFaults
    BY <1>1, <1>2, FaultRange
  <1>10. TypeOK'
    <2>1. leftover' \in [Workers -> Nat]
      BY <1>1, <1>2 DEF TypeOK
    <2> QED  BY <2>1, <1>1, <1>2, <1>3, <1>4, <1>5, <1>6, <1>9 DEF TypeOK, Pcs
  <1>11. WatchInv'
    BY <1>1, <1>2, <1>3 DEF WatchInv
  <1>12. ASSUME Silent PROVE Silent'
    <2>1. \A v \in Workers : \A i \in 1 .. Len(ring'[v]) : ring'[v][i].kind # "end_ok"
      BY <1>7, <1>8, <1>12 DEF Silent
    <2> QED  BY <1>2, <1>3, <1>5, <1>12, <2>1 DEF Silent
  <1>13. \A r \in Reqs : pc'[r] = "reverted" => reverts' > 0
    BY <1>1, <1>2, <1>5 DEF EndInv
  <1>14. Landed => Landed'
    BY <1>2 DEF Landed
  <1>15. EndInv'
    BY <1>1, <1>12, <1>13, <1>14 DEF EndInv
  <1> QED  BY <1>10, <1>11, <1>15 DEF ToldInv

LEMMA ToldInductive == ToldInv /\ [Next]_vars => ToldInv'
  <1> SUFFICES ASSUME ToldInv, [Next]_vars PROVE ToldInv'
    OBVIOUS
  <1>1. ASSUME NEW c \in Clients, Stream(c) PROVE ToldInv'
    BY <1>1, OpenOK, TakeOK, PollOK, DropOK DEF Stream
  <1>2. CASE UNCHANGED vars
    <2>1. UNCHANGED <<rb, sha, last, pc, at, ring, leftover, conn, drops, faults, reverts, raced, lost>>
      BY <1>2 DEF vars, taskVars
    <2> QED  BY <2>1 DEF ToldInv, TypeOK, EndInv, WatchInv, Landed, Silent
  <1> QED  BY <1>1, <1>2, TaskTold, CrashTold DEF Next

-----------------------------------------------------------------------------
\* The types of the session row, the background tasks, the rings and the
\* browsers' connections, for any number of each.
THEOREM TypeSafety == Spec => []TypeOK
  <1>1. ToldInv => TypeOK
    BY DEF ToldInv
  <1> QED  BY <1>1, ToldInitially, ToldInductive, PTL DEF Spec

\* A browser that was sent the end of a rollback, from the ring of whatever
\* worker or from the session row, can rely on it: run_rollback sends it only
\* once the revert is on the branch and its write was made or swallowed.
THEOREM EndSafety == Spec => []EndIsTrue
  <1>1. ToldInv => EndIsTrue
    <2> SUFFICES ASSUME ToldInv, NEW c \in Clients, NEW e \in conn[c].ends, e.kind = "end_ok"
                 PROVE  reverts > 0 /\ (sha \/ lost)
      BY DEF EndIsTrue
    <2> QED  BY DEF ToldInv, EndInv, Silent, Landed
  <1> QED  BY <1>1, ToldInitially, ToldInductive, PTL DEF Spec

\* loop_stream closes a stream that was opened during a rollback only once the
\* row holds a result of it, or for an event left in the queue of the loop's
\* engine, which nothing deregistered: every other close is a cut or a crash.
THEOREM HeldSafety == Spec => HeldWhileInFlight
  <1> DEFINE Held == \A c \in Clients :
                 conn[c].watching /\ conn[c].on = "open" /\ conn'[c].on # "open"
                 => \/ rb \in {"done", "failed"}
                    \/ leftover'[conn[c].w] < leftover[conn[c].w]
                    \/ drops' # drops \/ faults' # faults
  <1>1. ASSUME ToldInv, [Next]_vars PROVE [Held]_vars
    <2> SUFFICES ASSUME NEW c \in Clients,
                        conn[c].watching, conn[c].on = "open", conn'[c].on # "open"
                 PROVE  \/ rb \in {"done", "failed"}
                        \/ leftover'[conn[c].w] < leftover[conn[c].w]
                        \/ drops' # drops \/ faults' # faults
      OBVIOUS
    <2>1. TypeOK /\ rb # "none"
      BY <1>1 DEF ToldInv, WatchInv
    <2>2. conn \in [Clients -> Conn] /\ faults \in Nat /\ drops \in Nat
      BY <2>1, RollbackConstants DEF TypeOK
    <2>3. conn' # conn
      OBVIOUS
    <2>4. ASSUME NEW r \in Reqs, Task(r) PROVE FALSE
      <3>1. conn' = conn
        BY <2>4 DEF Task, Check, Queue, StartTask, Progress, Revert, SaveDone, SaveFailed, Report,
                    unchangedClients
      <3> QED  BY <2>3, <3>1
    <2>5. ASSUME NEW w \in Workers, Crash(w) PROVE faults' # faults
      BY <2>2, <2>5 DEF Crash, Fault
    <2>6. ASSUME NEW d \in Clients, Drop(d) PROVE drops' # drops
      BY <2>2, <2>6 DEF Drop
    <2>7. ASSUME NEW d \in Clients, NEW w \in Workers, Open(d, w) PROVE FALSE
      <3>1. conn[d].on = "off"
        BY <2>7 DEF Open
      <3>2. d # c
        BY <3>1
      <3>3. \E z : conn' = [conn EXCEPT ![d] = z]
        BY <2>7 DEF Open
      <3> QED  BY <2>2, <3>2, <3>3
    <2>8. ASSUME NEW d \in Clients, Poll(d), InFlight(rb) PROVE FALSE
      <3> DEFINE x == conn[d]
                 fresh == last # x.sig
                 got == Receive(x, Len(ring[x.w]), {last})
                 y == IF fresh THEN [got EXCEPT !.sig = last] ELSE x
      <3>1. x.on = "open" /\ conn' = [conn EXCEPT ![d] = y]
        BY <2>8, Zenon DEF Poll
      <3>2. x \in Conn /\ x.w \in Workers /\ last \in Events /\ ring[x.w] \in Seq(Events)
        BY <2>1, <2>2, <3>1 DEF TypeOK
      <3>3. got \in Conn /\ got.on = x.on
        <4>1. Len(ring[x.w]) \in Nat \cup {-1} /\ {last} \in SUBSET Events
          BY <3>2
        <4> HIDE DEF x
        <4> QED  BY <3>2, <4>1, ReceiveType
      <3>4. y.on = "open"
        <4> HIDE DEF x, got
        <4> QED  BY <3>1, <3>2, <3>3 DEF Conn
      <3> HIDE DEF y
      <3> QED  BY <2>2, <3>1, <3>4
    <2>9. ASSUME ~InFlight(rb) PROVE rb \in {"done", "failed"}
      BY <2>1, <2>9 DEF TypeOK, InFlight
    <2>10. ASSUME NEW d \in Clients, TakeLeftover(d)
           PROVE  leftover'[conn[c].w] < leftover[conn[c].w]
      <3>1. /\ conn' = [conn EXCEPT ![d] = Closed(conn[d])]
            /\ leftover' = [leftover EXCEPT ![conn[d].w] = leftover[conn[d].w] - 1]
        BY <2>10 DEF TakeLeftover
      <3>2. d = c
        BY <2>2, <3>1
      <3>3. conn[c].w \in Workers /\ leftover \in [Workers -> Nat]
        BY <2>1 DEF TypeOK
      <3> QED  BY <3>1, <3>2, <3>3
    <2>11. CASE Next
      BY <2>4, <2>5, <2>6, <2>7, <2>8, <2>9, <2>10, <2>11 DEF Next, Stream
    <2>12. CASE UNCHANGED vars
      BY <2>3, <2>12 DEF vars
    <2> QED  BY <1>1, <2>11, <2>12
  <1> QED  BY <1>1, ToldInitially, ToldInductive, PTL DEF Spec, HeldWhileInFlight

=============================================================================

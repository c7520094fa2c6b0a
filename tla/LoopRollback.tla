---------------------------- MODULE LoopRollback ----------------------------
(***************************************************************************)
(* POST /loop/{id}/rollback on a completed loop, its background task       *)
(* run_rollback, and the SSE streams that show its progress.  A stream     *)
(* replays the ring of its own worker (sse_replay_buffer).  Nothing has    *)
(* deregistered the loop's engine: on a worker that holds a copy of it the *)
(* stream then takes what is left in that copy's queue, which closes it at *)
(* once when the copy is in a terminal state, and polls the session row    *)
(* when the queue is empty; elsewhere it polls from the start.  The        *)
(* browser drops events whose seq it has passed, and stops reconnecting    *)
(* once it has seen an event with a terminal state.                        *)
(*                                                                         *)
(* Abstracted: wording, GitHub's own progress callbacks (one progress      *)
(* event stands for them, as one does for all that a loop emitted before   *)
(* it shipped), the ring's limit of 200 events and its TTL.                *)
(***************************************************************************)
EXTENDS Integers, Sequences, SequencesExt

CONSTANTS Workers,      \* server processes
          Reqs,         \* rollback requests
          Clients,      \* browser streams
          MaxConnects,  \* bound: connections per client
          MaxDrops,     \* bound: connections cut by the network or STREAM_MAX_S
          MaxLeft,      \* bound: events the shipped loop left in its queue
          MaxFaults     \* bound: crashes, swallowed writes, lost GitHub answers

ASSUME RollbackConstants == MaxConnects \in Nat /\ MaxDrops \in Nat
                             /\ MaxLeft \in Nat /\ MaxFaults \in Nat

VARIABLES rb,       \* rollback_status of the session row
          sha,      \* rollback_sha is set
          last,     \* last_event of the session row
          pc,       \* progress of each request and its background task
          at,       \* worker of each request
          ring,     \* replay buffer of each worker: seq = position - 1
          leftover, \* events left in the queue of each worker's engine copy,
                    \* which is in a terminal state if there are any
          conn,     \* each client's connection
          drops, faults,
          reverts,  \* ghost: revert commits on the branch
          raced,    \* ghost: two requests were between check and write at once
          lost      \* ghost: _set_fields swallowed a write

taskVars == <<rb, sha, last, pc, at, ring>>
vars == <<taskVars, leftover, conn, drops, faults, reverts, raced, lost>>

\* Events, told apart as a stream does, by state, phase and message: the sha in
\* the message tells two successes apart, nothing tells two failures apart.
Event(kind, r) ==
    [kind |-> kind, by |-> IF kind \in {"reverted", "end_ok"} THEN r ELSE "any"]
Events == [kind : {"none", "shipped", "progress", "reverted", "end_ok", "error", "end_failed"},
           by : Reqs \cup {"any"}]

Terminal(e) == e.kind \in {"shipped", "end_ok", "end_failed"}
InFlight(s) == s \in {"queued", "running"}
Shipped == Event("shipped", "any")
NoConn == [on |-> "off", w |-> "none", sig |-> Event("none", "any"), seq |-> -1,
           terminal |-> FALSE, ends |-> {}, tries |-> 0, watching |-> FALSE]

\* The browser's side of a stream, with what the server remembers of it.
Conn == [on : {"off", "open", "finished"}, w : Workers \cup {"none"}, sig : Events,
         seq : Nat \cup {-1}, terminal : BOOLEAN, ends : SUBSET Events,
         tries : 0 .. MaxConnects, watching : BOOLEAN]

Init ==
    /\ rb = "none" /\ sha = FALSE /\ last = Shipped
    /\ pc = [r \in Reqs |-> "idle"]
    /\ at \in [Reqs -> Workers]
    /\ \E w \in Workers :
          /\ ring = [x \in Workers |-> IF x = w THEN <<Shipped>> ELSE <<>>]
          /\ \E n \in 0 .. MaxLeft : leftover = [x \in Workers |-> IF x = w THEN n ELSE 0]
    /\ conn = [c \in Clients |-> NoConn]
    /\ drops = 0 /\ faults = 0 /\ reverts = 0
    /\ raced = FALSE /\ lost = FALSE

Fault == faults < MaxFaults /\ faults' = faults + 1
unchangedClients == UNCHANGED <<leftover, conn, drops>>
unchangedGhosts == UNCHANGED <<reverts, raced>>

Go(r, from, to) == pc[r] = from /\ pc' = [pc EXCEPT ![r] = to]

-----------------------------------------------------------------------------
\* Variant: rollback_sha is not looked at.
CheckStatusOnly(r) ==
    /\ Go(r, "idle", "checked")
    /\ rb \notin {"queued", "running", "failed"}
    /\ raced' = (raced \/ \E q \in Reqs : pc[q] = "checked")
    /\ UNCHANGED <<rb, sha, last, at, ring, faults, reverts, lost>>
    /\ unchangedClients

\* rollback_loop reads the session and checks it ...
Check(r) ==
    /\ Go(r, "idle", "checked")
    /\ ~sha /\ rb \notin {"queued", "running", "failed"}
    /\ raced' = (raced \/ \E q \in Reqs : pc[q] = "checked")
    /\ UNCHANGED <<rb, sha, last, at, ring, faults, reverts, lost>>
    /\ unchangedClients

\* ... and, after it has fetched the project and the token, queues the task
\* whatever the session says by then.
Queue(r) ==
    /\ Go(r, "checked", "queued")
    /\ rb' = "queued"
    /\ UNCHANGED <<sha, last, at, ring, faults, lost>>
    /\ unchangedGhosts /\ unchangedClients

\* _set_fields: a merge of fields, swallowed when Mongo fails.
SetFields(status, done) ==
    \/ /\ rb' = status /\ sha' = (sha \/ done)
       /\ UNCHANGED <<faults, lost>>
    \/ /\ Fault /\ lost' = TRUE
       /\ UNCHANGED <<rb, sha>>

\* _emit_rollback_event: the ring of this worker, then the session row, whose
\* write may be swallowed too.
Emit(r, kind) ==
    /\ ring' = [ring EXCEPT ![at[r]] = Append(@, Event(kind, r))]
    /\ \/ last' = Event(kind, r) /\ UNCHANGED faults
       \/ Fault /\ UNCHANGED last

\* Variant: the task reports its start under a name of its own.
StartRenamed(r) ==
    /\ Go(r, "queued", "running")
    /\ SetFields("reverting", FALSE)
    /\ UNCHANGED <<last, at, ring>> /\ unchangedGhosts /\ unchangedClients

StartTask(r) ==
    /\ Go(r, "queued", "running")
    /\ SetFields("running", FALSE)
    /\ UNCHANGED <<last, at, ring>> /\ unchangedGhosts /\ unchangedClients

Progress(r) ==
    /\ Go(r, "running", "reverting")
    /\ Emit(r, "progress")
    /\ UNCHANGED <<rb, sha, at, lost>> /\ unchangedGhosts /\ unchangedClients

\* revert_commit: it lands and answers, lands without an answer, or fails.
Revert(r) ==
    /\ \/ Go(r, "reverting", "reverted") /\ reverts' = reverts + 1 /\ UNCHANGED faults
       \/ Go(r, "reverting", "failing") /\ reverts' = reverts + 1 /\ Fault
       \/ Go(r, "reverting", "failing") /\ UNCHANGED <<reverts, faults>>
    /\ UNCHANGED <<rb, sha, last, at, ring, raced, lost>> /\ unchangedClients

\* Variant: the result is not written before the events.
SaveNothing(r) ==
    /\ Go(r, "reverted", "saved")
    /\ UNCHANGED <<rb, sha, faults, lost, last, at, ring>>
    /\ unchangedGhosts /\ unchangedClients

SaveDone(r) ==
    /\ Go(r, "reverted", "saved")
    /\ SetFields("done", TRUE)
    /\ UNCHANGED <<last, at, ring>> /\ unchangedGhosts /\ unchangedClients

SaveFailed(r) ==
    /\ Go(r, "reported_failure", "saved_failure")
    /\ SetFields("failed", FALSE)
    /\ UNCHANGED <<last, at, ring>> /\ unchangedGhosts /\ unchangedClients

Report(r) ==
    /\ \/ Go(r, "saved", "reported") /\ Emit(r, "reverted")
       \/ Go(r, "failing", "reported_failure") /\ Emit(r, "error")
       \/ Go(r, "reported", "ended") /\ Emit(r, "end_ok")
       \/ Go(r, "saved_failure", "ended") /\ Emit(r, "end_failed")
    /\ UNCHANGED <<rb, sha, at, lost>> /\ unchangedGhosts /\ unchangedClients

\* A stream is over: the browser opens another one, unless it has seen an end
\* or spent its connections, and then keeps no more than what it was told.
Closed(x) ==
    IF x.terminal \/ x.tries = MaxConnects
    THEN [NoConn EXCEPT !.on = "finished", !.ends = x.ends]
    ELSE [x EXCEPT !.on = "off", !.w = "none", !.sig = NoConn.sig]

\* A worker dies: its tasks, its ring, its engines and its connections are
\* gone; nothing resumes or closes its rollbacks.
Crash(w) ==
    /\ Fault
    /\ pc' = [r \in Reqs |-> IF at[r] = w /\ pc[r] # "idle" THEN "dead" ELSE pc[r]]
    /\ ring' = [ring EXCEPT ![w] = <<>>]
    /\ leftover' = [leftover EXCEPT ![w] = 0]
    /\ conn' = [c \in Clients |->
                  IF conn[c].on = "open" /\ conn[c].w = w
                  THEN Closed(conn[c]) ELSE conn[c]]
    /\ UNCHANGED <<rb, sha, last, at, drops, reverts, raced, lost>>

-----------------------------------------------------------------------------
\* The browser takes the events numbered up to seq, unless it has passed seq.
Receive(x, seq, events) ==
    IF seq <= x.seq THEN x
    ELSE [x EXCEPT !.seq = seq, !.terminal = @ \/ \E e \in events : Terminal(e),
                   !.ends = @ \cup {e \in events : e.kind \in {"end_ok", "end_failed"}}]

\* GET /stream: what the ring of this worker holds beyond Last-Event-ID, all
\* of it news, since a ring numbers its events from 0 without a gap.
Open(c, w) ==
    LET x == conn[c]
        top == Len(ring[w]) - 1
        y == Receive(x, top, {ring[w][i] : i \in x.seq + 2 .. Len(ring[w])})
    IN /\ x.on = "off" /\ x.tries < MaxConnects
       /\ conn' = [conn EXCEPT ![c] =
             [y EXCEPT !.on = "open", !.w = w, !.tries = @ + 1,
                       !.sig = IF top <= x.seq THEN NoConn.sig ELSE Last(ring[w]),
                       !.watching = @ \/ InFlight(rb)]]
       /\ UNCHANGED <<taskVars, leftover, drops, faults, reverts, raced, lost>>

\* An event left in the queue of this worker's engine copy.  The replay has
\* sent it already, so that the browser drops it; but the copy's state is
\* terminal, which ends the stream whatever the row says of a rollback.
TakeLeftover(c) ==
    LET x == conn[c]
    IN /\ x.on = "open" /\ leftover[x.w] > 0
       /\ leftover' = [leftover EXCEPT ![x.w] = @ - 1]
       /\ conn' = [conn EXCEPT ![c] = Closed(x)]
       /\ UNCHANGED <<taskVars, drops, faults, reverts, raced, lost>>

\* Variant: the poll holds the stream for a running rollback only.
PollRunning(c) ==
    LET x == conn[c]
        fresh == last # x.sig
        y == IF fresh THEN [Receive(x, Len(ring[x.w]), {last}) EXCEPT !.sig = last] ELSE x
    IN /\ x.on = "open" /\ leftover[x.w] = 0
       /\ ring' = IF fresh THEN [ring EXCEPT ![x.w] = Append(@, last)] ELSE ring
       /\ conn' = [conn EXCEPT ![c] = IF rb = "running" THEN y ELSE Closed(y)]
       /\ UNCHANGED <<rb, sha, last, pc, at, leftover, drops, faults, reverts, raced, lost>>

\* The queue is empty, or there is no engine here: the row's last event is
\* recorded in the local ring and sent if it is not the one sent before; the
\* stream ends unless a rollback is in flight.
Poll(c) ==
    LET x == conn[c]
        fresh == last # x.sig
        y == IF fresh THEN [Receive(x, Len(ring[x.w]), {last}) EXCEPT !.sig = last] ELSE x
    IN /\ x.on = "open" /\ leftover[x.w] = 0
       /\ ring' = IF fresh THEN [ring EXCEPT ![x.w] = Append(@, last)] ELSE ring
       /\ conn' = [conn EXCEPT ![c] = IF InFlight(rb) THEN y ELSE Closed(y)]
       /\ fresh \/ ~InFlight(rb)
       /\ UNCHANGED <<rb, sha, last, pc, at, leftover, drops, faults, reverts, raced, lost>>

\* The network cuts the connection, or STREAM_MAX_S does.
Drop(c) ==
    /\ conn[c].on = "open" /\ drops < MaxDrops
    /\ drops' = drops + 1
    /\ conn' = [conn EXCEPT ![c] = Closed(@)]
    /\ UNCHANGED <<taskVars, leftover, faults, reverts, raced, lost>>

-----------------------------------------------------------------------------
Task(r) == \/ Check(r) \/ Queue(r) \/ StartTask(r) \/ Progress(r) \/ Revert(r)
           \/ SaveDone(r) \/ SaveFailed(r) \/ Report(r)

Stream(c) == \/ \E w \in Workers : Open(c, w)
             \/ TakeLeftover(c) \/ Poll(c) \/ Drop(c)

Next == \/ \E r \in Reqs : Task(r)
        \/ \E c \in Clients : Stream(c)
        \/ \E w \in Workers : Crash(w)

Spec == Init /\ [][Next]_vars

-----------------------------------------------------------------------------
\* Types of the row, the tasks, the rings and the connections.
TypeOK ==
    /\ rb \in {"none", "queued", "running", "done", "failed"}
    /\ sha \in BOOLEAN
    /\ pc \in [Reqs -> {"idle", "checked", "queued", "running", "reverting", "reverted",
                        "saved", "reported", "failing", "reported_failure",
                        "saved_failure", "ended", "dead"}]
    /\ last \in Events /\ ring \in [Workers -> Seq(Events)] /\ at \in [Reqs -> Workers]
    /\ leftover \in [Workers -> Nat]
    /\ conn \in [Clients -> Conn]
    /\ \A c \in Clients : conn[c].on = "open" => conn[c].w \in Workers
    /\ reverts \in Nat /\ drops \in 0 .. MaxDrops /\ faults \in 0 .. MaxFaults
    /\ raced \in BOOLEAN /\ lost \in BOOLEAN

\* A second revert commit takes two requests that were both between their
\* check and their write: whatever the events, crashes and swallowed writes, a
\* request that comes after the first one's write is refused.
OneRevertUnlessRaced == reverts > 1 => raced

\* A browser that was told the rollback finished can rely on it: the revert
\* is on the branch, and recorded on the session unless that write was
\* swallowed, so that no later request reverts again.
EndIsTrue ==
    \A c \in Clients : (\E e \in conn[c].ends : e.kind = "end_ok") =>
        reverts > 0 /\ (sha \/ lost)

\* A stream opened while a rollback is in flight is not closed by the server
\* before a result of it is persisted, with one exception: on a worker that
\* still holds the loop's engine, over but never deregistered, with an event
\* left in its queue, that event ends the stream.  Otherwise only the network,
\* STREAM_MAX_S or a crash cuts it, and the browser reconnects unless it has
\* been sent an end.
HeldWhileInFlight ==
    [][\A c \in Clients :
         conn[c].watching /\ conn[c].on = "open" /\ conn'[c].on # "open"
         => \/ rb \in {"done", "failed"}
            \/ leftover'[conn[c].w] < leftover[conn[c].w]
            \/ drops' # drops \/ faults' # faults]_vars
=============================================================================

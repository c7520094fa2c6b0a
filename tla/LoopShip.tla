------------------------------ MODULE LoopShip ------------------------------
(***************************************************************************)
(* The ship of one loop on several workers: routers/loop.py confirm-ship,  *)
(* lookup_or_rehydrate and confirm_ship of services/loop_engine.py.        *)
(*                                                                         *)
(* Every worker process has its own _LIVE registry and builds its own      *)
(* engine object for the loop; the loop_sessions row is what they share.   *)
(* Each Mongo round trip is a step, so the requests of a double click, of  *)
(* two browser tabs or of two workers interleave between them.  The model  *)
(* starts where the pipeline stops: paused at the ship gate.  A worker has *)
(* an engine if it ran the pipeline or an earlier request (an approval, a  *)
(* submit-files, a pause-response that raised) rehydrated one there.       *)
(***************************************************************************)
EXTENDS Naturals, FiniteSets

CONSTANTS Workers,     \* worker processes
          Engines,     \* LoopEngine objects, in order of creation
          Requests,    \* POST /confirm-ship requests
          NoEngine,    \* nothing in _LIVE for the loop
          First,       \* the worker that ran the pipeline
          MaxCrashes   \* bound on worker crashes

ASSUME LoopShipAssumption ==
    /\ NoEngine \notin Engines
    /\ First \in Workers
    /\ Engines # {} /\ IsFiniteSet(Engines)
    /\ MaxCrashes \in Nat

VARIABLES row,      \* the loop_sessions document
          eng,      \* the engine objects; state "none" if not built, or dead
          live,     \* _LIVE of each worker
          req,      \* the confirm-ship requests and the tasks they create
          pushes,   \* commits on GitHub
          done,     \* history: a request recorded its commit while no
                    \* other was under way
          crashes   \* worker crashes so far

vars == <<row, eng, live, req, pushes, done, crashes>>

State == {"none", "paused", "shipping", "completed", "failed", "aborted"}
Step  == {"idle", "lookup", "rehydrate", "build", "validate", "start", "claim",
          "won", "say", "push", "pushed", "lost", "end"}

\* What an engine holds and `_doc` writes: claim is context.ship_claimed_at,
\* commit tells whether context.commit is there and holds a sha or an error.
Doc == [state : State \ {"none"}, claim : BOOLEAN,
        commit : {"none", "sha", "error"}]

Dead      == [state |-> "none", claim |-> FALSE, commit |-> "none"]
AtTheGate == [state |-> "paused", claim |-> FALSE, commit |-> "none"]
NoRequest == [at |-> "idle", on |-> First, e |-> NoEngine, late |-> FALSE]

Init ==
    /\ row = AtTheGate
    /\ live \in [Workers -> Engines \cup {NoEngine}]
    /\ live[First] # NoEngine
    /\ \A v, w \in Workers : v # w /\ live[v] = live[w] => live[v] = NoEngine
    /\ eng = [e \in Engines |-> IF \E w \in Workers : live[w] = e
                                THEN AtTheGate ELSE Dead]
    /\ req = [r \in Requests |-> NoRequest]
    /\ pushes = 0 /\ done = FALSE /\ crashes = 0

-----------------------------------------------------------------------------
At(r, step)     == req[r].at = step
Goto(r, step)   == req' = [req EXCEPT ![r].at = step]
Mine(r)         == eng[req[r].e]

\* _persist_session: $set of state and the whole context.
Save(e, doc) == eng' = [eng EXCEPT ![e] = doc] /\ row' = doc

unchangedHist == UNCHANGED <<pushes, done, crashes>>

\* The request reaches a worker.
Arrive(r, w) ==
    /\ At(r, "idle")
    /\ req' = [req EXCEPT ![r] = [at |-> "lookup", on |-> w, e |-> NoEngine,
                                  late |-> done]]
    /\ UNCHANGED <<row, eng, live>>
    /\ unchangedHist

\* lookup_or_rehydrate: the local engine is returned, unless it sits paused
\* and the row no longer does; then it leaves _LIVE.
Lookup(r) ==
    /\ At(r, "lookup")
    /\ LET w == req[r].on
           e == live[w]
           stale == e # NoEngine /\ eng[e].state = "paused" /\ row.state # "paused"
       IN IF e # NoEngine /\ ~stale
          THEN /\ req' = [req EXCEPT ![r].at = "validate", ![r].e = e]
               /\ UNCHANGED live
          ELSE /\ Goto(r, "rehydrate")
               /\ live' = [live EXCEPT ![w] = NoEngine]
    /\ UNCHANGED <<row, eng>>
    /\ unchangedHist

\* The second half: load the row, and answer 404 or build an engine that
\* shows it, if it is paused.
Rehydrate(r) ==
    /\ At(r, "rehydrate")
    /\ \/ /\ row.state = "paused"
          /\ \E e \in Engines :
               /\ eng[e] = Dead
               /\ eng' = [eng EXCEPT ![e] = row]
               /\ req' = [req EXCEPT ![r].at = "build", ![r].e = e]
       \/ /\ row.state # "paused"
          /\ Goto(r, "end")
          /\ UNCHANGED eng
    /\ UNCHANGED <<row, live>>
    /\ unchangedHist

\* The engine is registered after build_ora_context: by then the row may say
\* something else, and the engine of another request may be there.
Register(r) ==
    /\ At(r, "build")
    /\ Goto(r, "validate")
    /\ live' = [live EXCEPT ![req[r].on] = req[r].e]
    /\ UNCHANGED <<row, eng>>
    /\ unchangedHist

\* The endpoint reads the row's commit, checks the engine's state and
\* creates the task.
Validate(r) ==
    /\ At(r, "validate")
    /\ Goto(r, IF row.commit # "sha" /\ Mine(r).state = "paused"
               THEN "start" ELSE "end")
    /\ UNCHANGED <<row, eng, live>>
    /\ unchangedHist

\* The task starts: confirm_ship checks the engine's state again.
StartTask(r) ==
    /\ At(r, "start")
    /\ Goto(r, IF Mine(r).state = "paused" THEN "claim" ELSE "end")
    /\ UNCHANGED <<row, eng, live>>
    /\ unchangedHist

\* find_one_and_update on the row.
Claim(r) ==
    /\ At(r, "claim")
    /\ IF ~row.claim /\ row.commit # "sha"
       THEN /\ row' = [row EXCEPT !.claim = TRUE, !.state = "shipping"]
            /\ Goto(r, "won")
       ELSE Goto(r, "lost") /\ UNCHANGED row
    /\ UNCHANGED <<eng, live>>
    /\ unchangedHist

\* The loser reads the row again and adopts what it finds as its commit.
LostClaim(r) ==
    /\ At(r, "lost")
    /\ Goto(r, "end")
    /\ eng' = IF row.commit # "none"
              THEN [eng EXCEPT ![req[r].e].state = "completed",
                               ![req[r].e].commit = row.commit]
              ELSE eng
    /\ UNCHANGED <<row, live>>
    /\ unchangedHist

\* state = SHIPPING and its emit: the engine's context replaces the row's,
\* and the claim that was set in the row alone is gone.
EmitShipping(r) ==
    /\ At(r, "won")
    /\ Goto(r, "say")
    /\ Save(req[r].e, [Mine(r) EXCEPT !.state = "shipping"])
    /\ UNCHANGED live
    /\ unchangedHist

\* The narration before the push saves whatever the engine holds by now.
Narrate(r) ==
    /\ At(r, "say")
    /\ Goto(r, "push")
    /\ Save(req[r].e, Mine(r))
    /\ UNCHANGED live
    /\ unchangedHist

Push(r) ==
    /\ At(r, "push")
    /\ Goto(r, "pushed")
    /\ pushes' = pushes + 1
    /\ UNCHANGED <<row, eng, live, done, crashes>>

Alone(r) == \A s \in Requests \ {r} : req[s].at \in {"idle", "end"}

\* Variant: the result stays in the engine and is never saved.
RecordInMemory(r) ==
    /\ At(r, "pushed")
    /\ Goto(r, "end")
    /\ eng' = [eng EXCEPT ![req[r].e] = [@ EXCEPT !.state = "completed",
                                                  !.commit = "sha"]]
    /\ done' = (done \/ Alone(r))
    /\ UNCHANGED <<row, live, pushes, crashes>>

\* The commit is recorded in the engine and, by the emit, in the row.
Record(r) ==
    /\ At(r, "pushed")
    /\ Goto(r, "end")
    /\ Save(req[r].e, [Mine(r) EXCEPT !.state = "completed", !.commit = "sha"])
    /\ done' = (done \/ Alone(r))
    /\ UNCHANGED <<live, pushes, crashes>>

\* commit_files raises, before or after GitHub took the commit: _fail_ship,
\* which puts an error in the place of any commit.
FailShip(r) ==
    /\ At(r, "push") \/ At(r, "pushed")
    /\ Goto(r, "end")
    /\ Save(req[r].e, [Mine(r) EXCEPT !.state = "failed", !.commit = "error"])
    /\ UNCHANGED live
    /\ unchangedHist

-----------------------------------------------------------------------------
\* POST /cancel on a worker whose _LIVE has an engine that is not over:
\* cancel() writes its own context, then the state again.
CancelLive(w) ==
    /\ live[w] # NoEngine
    /\ eng[live[w]].state \notin {"completed", "failed", "aborted"}
    /\ Save(live[w], [eng[live[w]] EXCEPT !.state = "aborted"])
    /\ UNCHANGED <<live, req>>
    /\ unchangedHist

\* Variant: a state that LoopState does not have.
CancelRowWrong(w) ==
    /\ live[w] = NoEngine /\ row.state # "paused"
    /\ row' = [row EXCEPT !.state = "cancelled"]
    /\ UNCHANGED <<eng, live, req>>
    /\ unchangedHist

\* POST /cancel on an engine that is over, or on a worker that has none and
\* may not rehydrate one: only the row's state is written.
CancelRow(w) ==
    /\ \/ live[w] # NoEngine /\ eng[live[w]].state \in {"completed", "failed", "aborted"}
       \/ live[w] = NoEngine /\ row.state # "paused"
    /\ row' = [row EXCEPT !.state = "aborted"]
    /\ UNCHANGED <<eng, live, req>>
    /\ unchangedHist

Crash(w) ==
    /\ crashes < MaxCrashes
    /\ crashes' = crashes + 1
    /\ live' = [live EXCEPT ![w] = NoEngine]
    /\ LET dying == {live[w]} \cup {req[r].e : r \in {s \in Requests : req[s].on = w}}
       IN eng' = [e \in Engines |-> IF e \in dying THEN Dead ELSE eng[e]]
    /\ req' = [r \in Requests |->
                 IF req[r].on = w /\ ~At(r, "idle")
                 THEN [req[r] EXCEPT !.at = "end", !.e = NoEngine] ELSE req[r]]
    /\ UNCHANGED <<row, pushes, done>>

\* Variant: the sweep leaves a claimed ship alone.
ResumeUnclaimed ==
    /\ row.state = "shipping" /\ ~row.claim
    /\ \A r \in Requests : ~At(r, "won") /\ ~At(r, "say")
    /\ row' = [row EXCEPT !.state = "paused"]
    /\ UNCHANGED <<eng, live, req>>
    /\ unchangedHist

\* resume_stale: a shipping row that was quiet for STALE_AFTER_S.  The
\* winner of a claim emits at once; the push has neither heartbeat nor
\* budget, so its row may be quiet that long.
ResumeStale ==
    /\ row.state = "shipping"
    /\ \A r \in Requests : ~At(r, "won") /\ ~At(r, "say")
    /\ row' = [row EXCEPT !.state = "paused"]
    /\ UNCHANGED <<eng, live, req>>
    /\ unchangedHist

Serve(r) ==
    \/ Lookup(r) \/ Rehydrate(r) \/ Register(r) \/ Validate(r) \/ StartTask(r)
    \/ Claim(r) \/ LostClaim(r) \/ EmitShipping(r) \/ Narrate(r) \/ Push(r) \/ Record(r) \/ FailShip(r)

Next ==
    \/ \E r \in Requests : Serve(r) \/ \E w \in Workers : Arrive(r, w)
    \/ \E w \in Workers : CancelLive(w) \/ CancelRow(w) \/ Crash(w)
    \/ ResumeStale

Spec == Init /\ [][Next]_vars

\* A request under way is served, the push ends by an answer or an
\* exception (every GitHub call has a 60 s timeout), and housekeeping ticks.
FairSpec == /\ Spec
            /\ \A r \in Requests : WF_vars(Serve(r))
            /\ WF_vars(ResumeStale)

-----------------------------------------------------------------------------
TypeOK ==
    /\ row \in Doc
    /\ eng \in [Engines -> Doc \cup {Dead}]
    /\ live \in [Workers -> Engines \cup {NoEngine}]
    /\ req \in [Requests -> [at : Step, on : Workers,
                             e : Engines \cup {NoEngine}, late : BOOLEAN]]
    /\ pushes \in Nat /\ crashes \in Nat
    /\ done \in BOOLEAN

\* Once a ship that overlapped no other request has recorded its commit, no
\* later confirm-ship request pushes again, on whichever worker it lands,
\* whatever stale engine it finds there, and after any crash or cancel.
LateRequestNeverPushes ==
    \A r \in Requests : req[r].late => req[r].at \notin {"push", "pushed"}

\* A session that shows a ship in progress comes to rest: its push ends, or
\* its worker died in the middle of it and the row is rescued.
ShippingComesToRest == row.state = "shipping" ~> row.state # "shipping"

\* confirm_ship: "only the winner of this find_one_and_update may push -
\* every other caller becomes a no-op".
OnlyTheWinnerPushes == pushes <= 1
=============================================================================

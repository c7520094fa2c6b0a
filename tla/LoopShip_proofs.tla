-------------------------- MODULE LoopShip_proofs --------------------------
(***************************************************************************)
(* Machine-checked proofs about LoopShip, for any number of workers,       *)
(* engine objects, confirm-ship requests and crashes.                      *)
(***************************************************************************)
EXTENDS LoopShip, TLAPS

-----------------------------------------------------------------------------
(* The inductive invariant.                                                *)

\* From the end of its rehydration on, a request works with an engine object.
Holding == {"build", "validate", "start", "claim", "won", "say", "push", "pushed", "lost"}

\* An engine object lives in one process: a registry or a request that names
\* it is on that worker, and it is built.
HomeInv ==
    /\ \A r \in Requests : /\ req[r].at \in Holding => req[r].e # NoEngine
                           /\ req[r].at = "idle" => req[r].e = NoEngine
    /\ \A r, s \in Requests : req[r].e = req[s].e /\ req[r].e # NoEngine
                              => req[r].on = req[s].on
    /\ \A r \in Requests, w \in Workers :
          req[r].e = live[w] /\ req[r].e # NoEngine => req[r].on = w
    /\ \A v, w \in Workers : live[v] = live[w] /\ live[v] # NoEngine => v = w
    /\ \A r \in Requests : req[r].e # NoEngine => eng[req[r].e] # Dead
    /\ \A w \in Workers : live[w] # NoEngine => eng[live[w]] # Dead

\* Once a ship is done the row never says paused again, so nobody rehydrates
\* an engine from it, and a request that arrives later gets no further than
\* an engine that is not paused.
Harmless(r) ==
    \/ req[r].at \in {"idle", "end"}
    \/ req[r].at \in {"lookup", "rehydrate"}
    \/ req[r].at = "validate" /\ eng[req[r].e].state # "paused"

DoneInv ==
    /\ \A r \in Requests : req[r].late => done
    /\ done => /\ row.state \in {"completed", "aborted"}
               /\ \A r \in Requests : Harmless(r)

IInv == TypeOK /\ HomeInv /\ DoneInv

-----------------------------------------------------------------------------
(* Initial states and the small operators.                                 *)

\* In the initial states nobody has asked and each engine is in one registry.
LEMMA InitOK == Init => IInv
<1> SUFFICES ASSUME Init PROVE IInv
  OBVIOUS
<1> USE LoopShipAssumption DEF Init, NoRequest
<1>1. AtTheGate \in Doc
  BY DEF AtTheGate, Doc, State
<1>2. TypeOK
  BY <1>1 DEF TypeOK, Step
<1>3. AtTheGate # Dead
  BY DEF AtTheGate, Dead
<1>4. HomeInv
  BY <1>3 DEF HomeInv, Holding
<1>5. DoneInv
  BY DEF DoneInv
<1> QED
  BY <1>2, <1>4, <1>5 DEF IInv

\* A built engine holds a document.
LEMMA BuiltEngine ==
  ASSUME TypeOK, NEW e \in Engines, eng[e] # Dead
  PROVE  eng[e] \in Doc
BY DEF TypeOK

\* A request that holds an engine holds a built one, whatever step it is at.
LEMMA HeldEngine ==
  ASSUME TypeOK, HomeInv, NEW r \in Requests, req[r].at \in Holding
  PROVE  req[r].e \in Engines /\ eng[req[r].e] \in Doc /\ eng[req[r].e] # Dead
BY DEF TypeOK, HomeInv

\* A document with some of its fields replaced is a document, and built.
LEMMA DocUpdate ==
  ASSUME NEW d \in Doc, NEW st \in State \ {"none"}, NEW c \in {"none", "sha", "error"}
  PROVE  /\ [d EXCEPT !.state = st] \in Doc
         /\ [d EXCEPT !.state = st].state = st
         /\ [d EXCEPT !.state = st, !.commit = c] \in Doc
         /\ [d EXCEPT !.state = st, !.commit = c].state = st
         /\ Dead \notin Doc
BY DEF Doc, Dead, State

\* A request that moves on without changing what it holds, and an engine that
\* is written without being dropped, leave every engine where it lives.
LEMMA HomeKept ==
  ASSUME TypeOK, HomeInv, NEW r \in Requests, NEW step \in Step,
         req' = [req EXCEPT ![r].at = step], UNCHANGED live,
         step \in Holding => req[r].at \in Holding, step # "idle",
         \A e \in Engines : eng[e] # Dead => eng'[e] # Dead
  PROVE  HomeInv'
<1>1. \A s \in Requests : /\ req'[s].e = req[s].e /\ req'[s].on = req[s].on
                          /\ req'[s].at \in Holding => req[s].at \in Holding
                          /\ req'[s].at = "idle" => req[s].at = "idle"
                          /\ req[s].e \in Engines \cup {NoEngine}
  BY DEF TypeOK
<1>2. \A w \in Workers : live[w] \in Engines \cup {NoEngine}
  BY DEF TypeOK
<1> QED
  BY <1>1, <1>2 DEF HomeInv

-----------------------------------------------------------------------------
(* A request arrives, finds or rebuilds its engine, and is validated.      *)

LEMMA ArriveOK ==
  ASSUME IInv, NEW r \in Requests, NEW w \in Workers, Arrive(r, w)
  PROVE  IInv'
<1> USE DEF IInv, Arrive, At, unchangedHist
<1>1. TypeOK'
  BY DEF TypeOK, Step
<1>2. HomeInv'
  BY DEF HomeInv, TypeOK, Holding
<1>3. DoneInv'
  BY DEF DoneInv, Harmless, TypeOK
<1> QED
  BY <1>1, <1>2, <1>3

LEMMA LookupOK ==
  ASSUME IInv, NEW r \in Requests, Lookup(r)
  PROVE  IInv'
<1> USE DEF IInv, At, unchangedHist
<1> DEFINE w == req[r].on
           e == live[w]
<1>0. w \in Workers /\ e \in Engines \cup {NoEngine} /\ req[r].at = "lookup"
  BY DEF TypeOK, Lookup
<1>1. CASE /\ e # NoEngine /\ ~(eng[e].state = "paused" /\ row.state # "paused")
           /\ req' = [req EXCEPT ![r].at = "validate", ![r].e = e]
           /\ UNCHANGED <<live, row, eng, pushes, done, crashes>>
  <2>1. TypeOK'
    BY <1>0, <1>1 DEF TypeOK, Step
  <2>2. HomeInv'
    BY <1>0, <1>1 DEF HomeInv, TypeOK, Holding
  <2>3. DoneInv'
    BY <1>0, <1>1 DEF DoneInv, Harmless, TypeOK
  <2> QED
    BY <2>1, <2>2, <2>3
<1>2. CASE /\ req' = [req EXCEPT ![r].at = "rehydrate"]
           /\ live' = [live EXCEPT ![w] = NoEngine]
           /\ UNCHANGED <<row, eng, pushes, done, crashes>>
  <2>1. TypeOK'
    BY <1>0, <1>2 DEF TypeOK, Step
  <2>2. HomeInv'
    BY <1>0, <1>2 DEF HomeInv, TypeOK, Holding
  <2>3. DoneInv'
    BY <1>0, <1>2 DEF DoneInv, Harmless, TypeOK
  <2> QED
    BY <2>1, <2>2, <2>3
<1> QED
  BY <1>1, <1>2 DEF Lookup, Goto

LEMMA RehydrateOK ==
  ASSUME IInv, NEW r \in Requests, Rehydrate(r)
  PROVE  IInv'
<1> USE DEF IInv, At, unchangedHist
<1>0. req[r].on \in Workers /\ req[r].at = "rehydrate"
  BY DEF TypeOK, Rehydrate
<1>1. CASE row.state = "paused"
  <2>1. PICK e \in Engines :
          /\ eng[e] = Dead
          /\ eng' = [eng EXCEPT ![e] = row]
          /\ req' = [req EXCEPT ![r].at = "build", ![r].e = e]
          /\ UNCHANGED <<row, live, pushes, done, crashes>>
    BY <1>1 DEF Rehydrate
  <2>2. row \in Doc /\ row # Dead
    BY DEF TypeOK, Doc, Dead
  <2>3. TypeOK'
    BY <1>0, <2>1, <2>2 DEF TypeOK, Step
  <2>4. e # NoEngine
    BY LoopShipAssumption
  <2>5. HomeInv'
    <3>1. \A s \in Requests : req[s].e # e
      BY <2>1, <2>4 DEF HomeInv
    <3>2. \A v \in Workers : live[v] # e
      BY <2>1, <2>4 DEF HomeInv
    <3> QED
      BY <1>0, <2>1, <2>2, <2>4, <3>1, <3>2 DEF HomeInv, TypeOK, Holding
  <2>6. DoneInv'
    BY <1>1, <2>1 DEF DoneInv, TypeOK
  <2> QED
    BY <2>3, <2>5, <2>6
<1>2. CASE row.state # "paused"
  <2>1. /\ req' = [req EXCEPT ![r].at = "end"]
        /\ UNCHANGED <<row, eng, live, pushes, done, crashes>>
    BY <1>2 DEF Rehydrate, Goto
  <2>2. TypeOK'
    BY <2>1 DEF TypeOK, Step
  <2>3. HomeInv'
    BY <2>1, HomeKept DEF Holding, Step
  <2>4. DoneInv'
    BY <2>1 DEF DoneInv, Harmless, TypeOK
  <2> QED
    BY <2>2, <2>3, <2>4
<1> QED
  BY <1>1, <1>2

\* The engine a request built enters the registry of the worker it is on.
LEMMA RegisterOK ==
  ASSUME IInv, NEW r \in Requests, Register(r)
  PROVE  IInv'
<1> USE DEF IInv, At, unchangedHist
<1>0. /\ req[r].at = "build" /\ req[r].on \in Workers
      /\ req[r].e \in Engines /\ req[r].e # NoEngine
  BY LoopShipAssumption DEF TypeOK, HomeInv, Holding, Register
<1>1. /\ req' = [req EXCEPT ![r].at = "validate"]
      /\ live' = [live EXCEPT ![req[r].on] = req[r].e]
      /\ UNCHANGED <<row, eng, pushes, done, crashes>>
  BY DEF Register, Goto
<1>2. TypeOK'
  BY <1>0, <1>1 DEF TypeOK, Step
<1>3. HomeInv'
  BY <1>0, <1>1 DEF HomeInv, TypeOK, Holding
<1>4. DoneInv'
  BY <1>0, <1>1 DEF DoneInv, Harmless, TypeOK
<1> QED
  BY <1>2, <1>3, <1>4

\* Steps that only move a request on, from a place where it holds an engine:
\* once a ship is done they end it.
LEMMA MoveOK ==
  ASSUME IInv, NEW r \in Requests, NEW step \in Step \ {"idle"},
         req[r].at \in Holding, Goto(r, step), UNCHANGED <<eng, live, done>>,
         row' \in Doc, done => row' = row /\ step = "end",
         pushes' \in Nat, crashes' = crashes
  PROVE  IInv'
<1> USE DEF IInv, Goto
<1>1. TypeOK'
  BY DEF TypeOK
<1>2. HomeInv'
  BY HomeKept
<1>3. DoneInv'
  BY DEF DoneInv, Harmless, TypeOK
<1> QED
  BY <1>1, <1>2, <1>3

\* Once a ship is done, nobody is past validate.
LEMMA NobodyPastValidate ==
  ASSUME IInv, done, NEW r \in Requests
  PROVE  /\ req[r].at \notin {"build", "start", "claim", "won", "say", "push", "pushed", "lost"}
         /\ req[r].at = "validate" => Mine(r).state # "paused"
BY DEF IInv, DoneInv, Harmless, Mine

LEMMA ValidateOK ==
  ASSUME IInv, NEW r \in Requests, Validate(r)
  PROVE  IInv'
<1>1. PICK step \in {"start", "end"} :
        /\ Goto(r, step)
        /\ done => step = "end"
  BY NobodyPastValidate DEF Validate, At
<1> QED
  BY <1>1, MoveOK DEF Validate, At, unchangedHist, Holding, Step, IInv, TypeOK

LEMMA StartTaskOK ==
  ASSUME IInv, NEW r \in Requests, StartTask(r)
  PROVE  IInv'
<1>1. PICK step \in {"claim", "end"} : Goto(r, step)
  BY DEF StartTask
<1> QED
  BY <1>1, MoveOK, NobodyPastValidate
     DEF StartTask, At, unchangedHist, Holding, Step, IInv, TypeOK

LEMMA ClaimOK ==
  ASSUME IInv, NEW r \in Requests, Claim(r)
  PROVE  IInv'
<1>1. PICK step \in {"won", "lost"} : Goto(r, step) /\ row' \in Doc
  BY DEF Claim, IInv, TypeOK, Doc, State
<1> QED
  BY <1>1, MoveOK, NobodyPastValidate
     DEF Claim, At, unchangedHist, Holding, Step, IInv, TypeOK

LEMMA PushOK ==
  ASSUME IInv, NEW r \in Requests, Push(r)
  PROVE  IInv'
BY MoveOK, NobodyPastValidate
   DEF Push, At, unchangedHist, Holding, Step, IInv, TypeOK

-----------------------------------------------------------------------------
(* The holder of an engine writes it.                                      *)

\* A request past validate writes its engine and, perhaps, the row; if the
\* ship is done with it, the row is completed and no other is under way.
LEMMA WriteOK ==
  ASSUME IInv, NEW r \in Requests, NEW step \in Holding \cup {"end"},
         req[r].at \in Holding \ {"build", "validate"}, Goto(r, step), UNCHANGED <<live, crashes>>,
         NEW doc \in Doc, eng' = [eng EXCEPT ![req[r].e] = doc],
         row' \in Doc, pushes' \in Nat,
         \/ done' = done
         \/ done' \in BOOLEAN /\ row'.state = "completed" /\ step = "end" /\ Alone(r)
  PROVE  IInv'
<1> USE DEF IInv, Goto
<1>0. ~done
  BY NobodyPastValidate DEF Holding
<1>1. TypeOK'
  BY <1>0, HeldEngine DEF TypeOK, Step, Holding
<1>2. HomeInv'
  <2>1. doc # Dead
    BY DEF Doc, Dead
  <2>2. \A e \in Engines : eng[e] # Dead => eng'[e] # Dead
    BY <2>1 DEF TypeOK
  <2> QED
    BY <2>2, HomeKept DEF Holding, Step
<1>3. DoneInv'
  <2>1. CASE done' = done
    BY <1>0, <2>1 DEF DoneInv, TypeOK
  <2>2. CASE row'.state = "completed" /\ step = "end" /\ Alone(r)
    <3>1. \A s \in Requests : Harmless(s)'
      BY <2>2 DEF Alone, Harmless, TypeOK
    <3>2. \A s \in Requests : ~req'[s].late
      BY <1>0 DEF DoneInv, TypeOK
    <3> QED
      BY <2>2, <3>1, <3>2 DEF DoneInv
  <2> QED
    BY <2>1, <2>2
<1> QED
  BY <1>1, <1>2, <1>3

LEMMA LostClaimOK ==
  ASSUME IInv, NEW r \in Requests, LostClaim(r)
  PROVE  IInv'
<1>0. req[r].at = "lost" /\ Goto(r, "end") /\ UNCHANGED <<row, live, pushes, done, crashes>>
  BY DEF LostClaim, At, unchangedHist
<1>1. CASE eng' = eng
  BY <1>0, <1>1, MoveOK, NobodyPastValidate DEF Holding, Step, IInv, TypeOK
<1>2. CASE eng' # eng
  <2> DEFINE doc == [Mine(r) EXCEPT !.state = "completed", !.commit = row.commit]
  <2>1. req[r].e \in Engines /\ Mine(r) \in Doc
    BY <1>0, HeldEngine DEF Holding, IInv, Mine
  <2>2. row.commit \in {"none", "sha", "error"} /\ "completed" \in State \ {"none"}
    BY DEF IInv, TypeOK, Doc, State
  <2>3. doc \in Doc
    BY <2>1, <2>2, DocUpdate
  <2>4. eng' = [eng EXCEPT ![req[r].e] = doc]
    BY <1>2, <2>1 DEF LostClaim, Mine, IInv, TypeOK
  <2>5. row' \in Doc /\ pushes' \in Nat /\ req[r].at \in Holding \ {"build", "validate"}
    BY <1>0 DEF IInv, TypeOK, Holding
  <2> HIDE DEF doc
  <2> QED
    BY <1>0, <2>3, <2>4, <2>5, WriteOK
<1> QED
  BY <1>1, <1>2

\* Every _persist_session of a request is a write of its engine and the row.
LEMMA SaveOK ==
  ASSUME IInv, NEW r \in Requests, NEW step \in Holding \cup {"end"},
         req[r].at \in Holding \ {"build", "validate"}, Goto(r, step), UNCHANGED <<live, pushes, crashes>>,
         NEW doc \in Doc, Save(req[r].e, doc),
         \/ done' = done
         \/ done' = (done \/ Alone(r)) /\ doc.state = "completed" /\ step = "end"
  PROVE  IInv'
<1>1. /\ eng' = [eng EXCEPT ![req[r].e] = doc]
      /\ row' = doc
      /\ pushes' \in Nat
  BY DEF Save, IInv, TypeOK
<1>2. \/ done' = done
      \/ done' \in BOOLEAN /\ row'.state = "completed" /\ step = "end" /\ Alone(r)
  <2>1. CASE Alone(r)
    BY <1>1, <2>1
  <2>2. CASE ~Alone(r)
    <3>1. (done \/ Alone(r)) = done
      BY <2>2 DEF IInv, TypeOK
    <3> QED
      BY <3>1
  <2> QED
    BY <2>1, <2>2
<1> QED
  BY <1>1, <1>2, WriteOK

LEMMA EmitShippingOK ==
  ASSUME IInv, NEW r \in Requests, EmitShipping(r)
  PROVE  IInv'
<1>1. req[r].at \in Holding \ {"build", "validate"} /\ Mine(r) \in Doc /\ "shipping" \in State \ {"none"}
  BY HeldEngine DEF EmitShipping, At, Holding, IInv, Mine, State
<1>2. [Mine(r) EXCEPT !.state = "shipping"] \in Doc
  BY <1>1, DocUpdate
<1> QED
  BY <1>1, <1>2, SaveOK DEF EmitShipping, unchangedHist, Holding

LEMMA NarrateOK ==
  ASSUME IInv, NEW r \in Requests, Narrate(r)
  PROVE  IInv'
<1>1. req[r].at \in Holding \ {"build", "validate"} /\ Mine(r) \in Doc
  BY HeldEngine DEF Narrate, At, Holding, IInv, Mine
<1> QED
  BY <1>1, SaveOK DEF Narrate, unchangedHist, Holding

LEMMA RecordOK ==
  ASSUME IInv, NEW r \in Requests, Record(r)
  PROVE  IInv'
<1>1. req[r].at \in Holding \ {"build", "validate"} /\ Mine(r) \in Doc /\ "completed" \in State \ {"none"}
  BY HeldEngine DEF Record, At, Holding, IInv, Mine, State
<1> DEFINE doc == [Mine(r) EXCEPT !.state = "completed", !.commit = "sha"]
<1>2. doc \in Doc /\ doc.state = "completed"
  BY <1>1, DocUpdate
<1>3. Save(req[r].e, doc) /\ done' = (done \/ Alone(r)) /\ Goto(r, "end")
      /\ UNCHANGED <<live, pushes, crashes>>
  BY DEF Record
<1> HIDE DEF doc
<1> QED
  BY <1>1, <1>2, <1>3, SaveOK

LEMMA FailShipOK ==
  ASSUME IInv, NEW r \in Requests, FailShip(r)
  PROVE  IInv'
<1>1. req[r].at \in Holding \ {"build", "validate"} /\ Mine(r) \in Doc /\ "failed" \in State \ {"none"}
  BY HeldEngine DEF FailShip, At, Holding, IInv, Mine, State
<1>2. [Mine(r) EXCEPT !.state = "failed", !.commit = "error"] \in Doc
  BY <1>1, DocUpdate
<1> QED
  BY <1>1, <1>2, SaveOK DEF FailShip, unchangedHist

-----------------------------------------------------------------------------
(* Cancels, crashes and housekeeping, and the theorems.                    *)

\* A cancel says aborted, which nobody rehydrates.
LEMMA CancelLiveOK ==
  ASSUME IInv, NEW w \in Workers, CancelLive(w)
  PROVE  IInv'
<1> DEFINE e == live[w]
           doc == [eng[e] EXCEPT !.state = "aborted"]
<1>1. e \in Engines /\ eng[e] \in Doc /\ "aborted" \in State \ {"none"}
  BY BuiltEngine DEF IInv, TypeOK, HomeInv, CancelLive, State
<1>2. doc \in Doc /\ doc.state = "aborted" /\ doc # Dead
  BY <1>1, DocUpdate
<1>3. /\ eng' = [eng EXCEPT ![e] = doc]
      /\ row' = doc
      /\ UNCHANGED <<live, req, pushes, done, crashes>>
  BY DEF CancelLive, Save, unchangedHist
<1> HIDE DEF doc
<1>4. TypeOK'
  BY <1>1, <1>2, <1>3 DEF IInv, TypeOK
<1>5. HomeInv'
  BY <1>1, <1>2, <1>3 DEF IInv, TypeOK, HomeInv
<1>6. DoneInv'
  BY <1>1, <1>2, <1>3 DEF IInv, TypeOK, DoneInv, Harmless
<1> QED
  BY <1>4, <1>5, <1>6 DEF IInv

\* So does the write of the row alone; a rescue writes paused, but only over
\* shipping, which a done ship's row does not say.
LEMMA RowWriteOK ==
  ASSUME IInv, NEW st \in State \ {"none"}, row' = [row EXCEPT !.state = st],
         UNCHANGED <<eng, live, req, pushes, done, crashes>>,
         st = "aborted" \/ row.state = "shipping"
  PROVE  IInv'
<1>1. TypeOK'
  BY DEF IInv, TypeOK, Doc
<1>2. HomeInv'
  BY DEF IInv, HomeInv
<1>3. DoneInv'
  BY DEF IInv, TypeOK, Doc, DoneInv, Harmless
<1> QED
  BY <1>1, <1>2, <1>3 DEF IInv

\* A crash drops what lives on the worker and nothing else.
LEMMA CrashOK ==
  ASSUME IInv, NEW w \in Workers, Crash(w)
  PROVE  IInv'
<1> DEFINE dying == {live[w]} \cup {req[r].e : r \in {s \in Requests : req[s].on = w}}
<1>1. /\ live' = [live EXCEPT ![w] = NoEngine]
      /\ eng' = [e \in Engines |-> IF e \in dying THEN Dead ELSE eng[e]]
      /\ UNCHANGED <<row, pushes, done>>
      /\ crashes' = crashes + 1
  BY DEF Crash
<1>2. req' = [r \in Requests |->
                IF req[r].on = w /\ req[r].at # "idle"
                THEN [req[r] EXCEPT !.at = "end", !.e = NoEngine] ELSE req[r]]
  BY DEF Crash, At
<1>3. \A e \in Engines : eng'[e] = IF e \in dying THEN Dead ELSE eng[e]
  BY <1>1
<1>4. \A r \in Requests :
        req'[r] = IF req[r].on = w /\ req[r].at # "idle"
                  THEN [req[r] EXCEPT !.at = "end", !.e = NoEngine] ELSE req[r]
  BY <1>2
<1>5. \A r \in Requests : /\ req'[r].on = req[r].on /\ req'[r].late = req[r].late
                          /\ req'[r].at \in {req[r].at, "end"}
                          /\ req'[r].e # NoEngine => req'[r] = req[r] /\ req[r].on # w
                          /\ req'[r].e = NoEngine => req'[r].at \notin Holding
  <2> SUFFICES ASSUME NEW r \in Requests
               PROVE  /\ req'[r].on = req[r].on /\ req'[r].late = req[r].late
                      /\ req'[r].at \in {req[r].at, "end"}
                      /\ req'[r].e # NoEngine => req'[r] = req[r] /\ req[r].on # w
                      /\ req'[r].e = NoEngine => req'[r].at \notin Holding
    OBVIOUS
  <2>0. /\ req[r] \in [at : Step, on : Workers, e : Engines \cup {NoEngine}, late : BOOLEAN]
        /\ req[r].at \in Holding => req[r].e # NoEngine
        /\ req[r].at = "idle" => req[r].e = NoEngine
    BY DEF IInv, TypeOK, HomeInv
  <2>1. CASE req[r].on = w /\ req[r].at # "idle"
    <3>1. req'[r] = [req[r] EXCEPT !.at = "end", !.e = NoEngine]
      BY <1>4, <2>1
    <3>2. /\ req'[r].on = req[r].on /\ req'[r].late = req[r].late
          /\ req'[r].at = "end" /\ req'[r].e = NoEngine
      BY <2>0, <3>1
    <3> QED
      BY <3>2 DEF Holding
  <2>2. CASE ~(req[r].on = w /\ req[r].at # "idle")
    <3>1. req'[r] = req[r]
      BY <1>4, <2>2
    <3> QED
      BY <2>0, <2>2, <3>1
  <2> QED
    BY <2>1, <2>2
<1>6. TypeOK'
  <2>1. req' \in [Requests -> [at : Step, on : Workers, e : Engines \cup {NoEngine},
                               late : BOOLEAN]]
    BY <1>2 DEF IInv, TypeOK, Step
  <2>2. eng' \in [Engines -> Doc \cup {Dead}]
    BY <1>1 DEF IInv, TypeOK
  <2> QED
    BY <1>1, <2>1, <2>2 DEF IInv, TypeOK
<1>7. HomeInv'
  <2>1. \A v \in Workers : live'[v] = IF v = w THEN NoEngine ELSE live[v]
    BY <1>1 DEF IInv, TypeOK
  <2>2. \A r \in Requests : req'[r].e # NoEngine => req'[r].e \notin dying
    BY <1>5 DEF IInv, HomeInv
  <2>3. \A v \in Workers : live'[v] # NoEngine => live'[v] \notin dying
    BY <2>1 DEF IInv, HomeInv
  <2>4. \A e \in Engines : e \notin dying => eng'[e] = eng[e]
    BY <1>3
  <2> HIDE DEF dying
  <2>5. \A r \in Requests : req[r].e \in Engines \cup {NoEngine}
    BY DEF IInv, TypeOK
  <2>6. \A v \in Workers : live[v] \in Engines \cup {NoEngine}
    BY DEF IInv, TypeOK
  <2> QED
    BY <1>5, <2>1, <2>2, <2>3, <2>4, <2>5, <2>6 DEF IInv, HomeInv, Holding
<1>8. DoneInv'
  <2>1. \A r \in Requests : done => Harmless(r)'
    <3> SUFFICES ASSUME NEW r \in Requests, done PROVE Harmless(r)'
      OBVIOUS
    <3>1. CASE req'[r].e = NoEngine
      <4>1. Harmless(r)
        BY DEF IInv, DoneInv
      <4> QED
        BY <1>5, <3>1, <4>1 DEF Harmless, Holding
    <3>2. CASE req'[r].e # NoEngine
      <4>1. Harmless(r) /\ req'[r] = req[r] /\ req[r].e \in Engines
        BY <1>5, <3>2 DEF IInv, DoneInv, TypeOK
      <4> QED
        BY <1>3, <4>1 DEF Harmless, Dead
    <3> QED
      BY <3>1, <3>2
  <2> QED
    BY <1>1, <1>5, <2>1 DEF IInv, DoneInv
<1> QED
  BY <1>6, <1>7, <1>8 DEF IInv

\* Every step preserves the invariant.
LEMMA StepOK == IInv /\ [Next]_vars => IInv'
<1> SUFFICES ASSUME IInv, [Next]_vars PROVE IInv'
  OBVIOUS
<1>1. ASSUME NEW r \in Requests, Serve(r) PROVE IInv'
  BY <1>1, LookupOK, RehydrateOK, RegisterOK, ValidateOK, StartTaskOK, ClaimOK, LostClaimOK,
     EmitShippingOK, NarrateOK, PushOK, RecordOK, FailShipOK DEF Serve
<1>2. ASSUME NEW r \in Requests, NEW w \in Workers, Arrive(r, w) PROVE IInv'
  BY <1>2, ArriveOK
<1>3. ASSUME NEW w \in Workers, CancelLive(w) \/ CancelRow(w) \/ Crash(w) PROVE IInv'
  <2>1. CASE CancelRow(w)
    BY <2>1, RowWriteOK DEF CancelRow, unchangedHist, State
  <2> QED
    BY <1>3, <2>1, CancelLiveOK, CrashOK
<1>4. CASE ResumeStale
  BY <1>4, RowWriteOK DEF ResumeStale, unchangedHist, State
<1>5. CASE UNCHANGED vars
  BY <1>5 DEF vars, IInv, TypeOK, HomeInv, DoneInv, Harmless
<1> QED
  BY <1>1, <1>2, <1>3, <1>4, <1>5 DEF Next

\* Every variable keeps its type: whatever races and crashes do, a worker
\* never saves an engine object that is not there (Narrate saves what it
\* holds by then), and a request never works with another worker's object.
THEOREM TypeSafety == Spec => []TypeOK
<1>1. IInv => TypeOK
  BY DEF IInv
<1> QED
  BY InitOK, StepOK, <1>1, PTL DEF Spec

\* Once a ship that overlapped no other request has recorded its commit, no
\* later confirm-ship request pushes again (confirm_ship and
\* lookup_or_rehydrate on any number of workers, through any cancels, crashes
\* and rescues).
THEOREM LateRequestSafety == Spec => []LateRequestNeverPushes
<1>1. IInv => LateRequestNeverPushes
  BY NobodyPastValidate DEF IInv, DoneInv, LateRequestNeverPushes
<1> QED
  BY InitOK, StepOK, <1>1, PTL DEF Spec

=============================================================================

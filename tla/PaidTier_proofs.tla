-------------------------- MODULE PaidTier_proofs --------------------------
(***************************************************************************)
(* Proofs about PaidTier, for any number of sessions, projects and handlers *)
(* at once: the user's half (the plan and the referral reward), then the   *)
(* half of the project.                                                    *)
(***************************************************************************)
EXTENDS PaidTier, TLAPS

Kinds == {"idle", "completed", "ended", "poll", "provision", "downgrade", "transfer",
          "destroy", "sweep"}
Places == {"idle", "referral", "extend", "rewarded", "reset", "grant", "record", "create",
           "project", "copy", "marker", "move", "moved", "delete", "verify", "clear"}

\* Handlers that carry members of D, whatever these are: the user's half does
\* not look at what the project's half carries.
Handlers(D) == [do : Kinds, at : Places, s : Sessions \cup {None}, ok : D,
                policy : D, copy : D, snap : D]
TaskTypes == \E D : task \in [Tasks -> Handlers(D)]

\* The handlers of the user's events carry their session.
SessionInv == \A t \in Tasks :
                  task[t].do \in {"completed", "ended", "poll"} => task[t].s \in Sessions

UserTypes ==
    /\ sub \in [Sessions -> {"none", "active", "ended"}]
    /\ ended \in [Sessions -> {"none", "due", "done"}]
    /\ \A s \in Sessions : sub[s] = "ended" => ended[s] # "none"

\* Whoever has the plan has its subscription; a plan not granted late is
\* backed; a handler that has reset a session finds its plan gone or granted
\* late.
PlanInv ==
    /\ tier = subId
    /\ tier # None => tier \in Sessions
    /\ PaidIsBacked
    /\ \A t \in Tasks : tier # None /\ HasReset(t, tier) => late

Rewarding(t) == task[t].at \in {"extend", "rewarded"}

\* Only one delivery at a time has read a pending referral, and nothing was
\* extended before it.
RewardInv ==
    /\ rewards \in Nat
    /\ ~slip => /\ rewards <= 1
                /\ \A t, u \in Tasks : Rewarding(t) /\ Rewarding(u) => t = u
                /\ \A t \in Tasks : task[t].at = "extend" => rewards = 0
                /\ rewards > 0 => \/ referral # "pending"
                                  \/ \E t \in Tasks : task[t].at = "rewarded"

IInv == TaskTypes /\ SessionInv /\ UserTypes /\ PlanInv /\ RewardInv

-----------------------------------------------------------------------------
(* Handlers. *)

\* Handler t, and no other, moves on.
Becomes(t, do, at, s) ==
    /\ TaskTypes'
    /\ task'[t].do = do /\ task'[t].at = at /\ task'[t].s = s
    /\ \A u \in Tasks \ {t} : task'[u] = task[u]

LEMMA UpdateOK ==
    ASSUME TaskTypes, NEW t \in Tasks, NEW D, NEW new \in Handlers(D),
           task' = [task EXCEPT ![t] = new]
    PROVE  Becomes(t, new.do, new.at, new.s)
  <1>1. PICK E : task \in [Tasks -> Handlers(E)]
    BY DEF TaskTypes
  <1>2. task' \in [Tasks -> Handlers(D \cup E)]
    BY <1>1 DEF Handlers
  <1> QED  BY <1>1, <1>2 DEF Becomes, TaskTypes

LEMMA GotoOK ==
    ASSUME TaskTypes, NEW t \in Tasks, NEW at \in Places, Goto(t, at)
    PROVE  Becomes(t, task[t].do, at, task[t].s)
  <1>1. PICK D : task \in [Tasks -> Handlers(D)]
    BY DEF TaskTypes
  <1> DEFINE new == [task[t] EXCEPT !.at = at]
  <1>2. new \in Handlers(D) /\ new.do = task[t].do /\ new.at = at /\ new.s = task[t].s
    BY <1>1 DEF Handlers
  <1>3. task' = [task EXCEPT ![t] = new]
    BY DEF Goto
  <1> HIDE DEF new
  <1> QED  BY <1>2, <1>3, UpdateOK

LEMMA FinishOK ==
    ASSUME TaskTypes, NEW t \in Tasks, Finish(t)
    PROVE  Becomes(t, "idle", "idle", None)
  <1>1. Idle \in Handlers({FALSE, None, "none", NoRow})
    BY DEF Idle, Handlers, Kinds, Places
  <1>2. Idle.do = "idle" /\ Idle.at = "idle" /\ Idle.s = None
    BY DEF Idle
  <1> HIDE DEF Idle
  <1> QED  BY <1>1, <1>2, UpdateOK DEF Finish

LEMMA BeginOK ==
    ASSUME TaskTypes, NEW t \in Tasks, NEW D, NEW new \in Handlers(D), Begin(t, new)
    PROVE  task[t] = Idle /\ Becomes(t, new.do, new.at, new.s)
  BY UpdateOK DEF Begin

\* A step of a handler that has to do with the project only.
QuietMove(t, do, at, s) ==
    /\ Becomes(t, do, at, s)
    /\ ~Rewarding(t) /\ at \notin {"extend", "rewarded"}
    /\ do \notin {"completed", "poll"}
    /\ do = "ended" => HasReset(t, s) /\ s \in Sessions
    /\ UNCHANGED <<sub, tier, subId, referral, rewards, slip, late>>
    /\ \/ ended' = ended
       \/ \E x \in Sessions : HasReset(t, x) /\ ended' = [ended EXCEPT ![x] = "done"]

LEMMA QuietOK ==
    ASSUME IInv, NEW t \in Tasks, NEW do, NEW at, NEW s, QuietMove(t, do, at, s)
    PROVE  IInv'
  <1>1. TaskTypes' /\ SessionInv'
    BY DEF IInv, SessionInv, QuietMove, Becomes
  <1>2. UserTypes'
    BY DEF IInv, UserTypes, QuietMove
  <1>3. \A u \in Tasks, x \in Sessions : HasReset(u, x)' => HasReset(u, x)
    BY DEF QuietMove, Becomes, HasReset
  <1>4. PlanInv'
    <2>1. PaidIsBacked'
      BY DEF IInv, PlanInv, PaidIsBacked, UserTypes, QuietMove
    <2> QED  BY <1>3, <2>1 DEF IInv, PlanInv, QuietMove
  <1>5. RewardInv'
    <2>1. \A u \in Tasks : /\ Rewarding(u)' <=> Rewarding(u)
                           /\ Rewarding(u) => task'[u].at = task[u].at
      BY DEF QuietMove, Becomes, Rewarding
    <2> QED  BY <2>1 DEF IInv, RewardInv, QuietMove, Rewarding
  <1> QED  BY <1>1, <1>2, <1>4, <1>5 DEF IInv

-----------------------------------------------------------------------------
(* The project's half. *)

LEMMA QuietGoto ==
    ASSUME TaskTypes, NEW t \in Tasks, NEW at \in Places \ {"extend", "rewarded"},
           Goto(t, at), ~Rewarding(t), unchangedOutside, ended' = ended,
           task[t].do \notin {"completed", "ended", "poll"}
    PROVE  QuietMove(t, task[t].do, at, task[t].s)
  BY GotoOK DEF QuietMove, unchangedOutside, userVars, rewardVars

LEMMA QuietFinish ==
    ASSUME TaskTypes, NEW t \in Tasks, Finish(t), ~Rewarding(t), unchangedOutside,
           \/ ended' = ended
           \/ \E x \in Sessions : HasReset(t, x) /\ ended' = [ended EXCEPT ![x] = "done"]
    PROVE  QuietMove(t, "idle", "idle", None)
  BY FinishOK DEF QuietMove, unchangedOutside, userVars, rewardVars

LEMMA QuietBegin ==
    ASSUME TaskTypes, NEW t \in Tasks, NEW D, NEW new \in Handlers(D), Begin(t, new),
           unchangedOutside, ended' = ended,
           new.do \notin {"completed", "ended", "poll"}, new.at \notin {"extend", "rewarded"}
    PROVE  QuietMove(t, new.do, new.at, new.s)
  <1>1. task[t] = Idle /\ Becomes(t, new.do, new.at, new.s)
    BY BeginOK
  <1>2. ~Rewarding(t)
    BY <1>1 DEF Rewarding, Idle
  <1> QED  BY <1>1, <1>2 DEF QuietMove, unchangedOutside, userVars, rewardVars

\* The requests about the project, and the sweep.
LEMMA RequestsOK ==
    ASSUME IInv, NEW t \in Tasks,
           Provision(t) \/ Downgrade(t) \/ Transfer(t) \/ Destroy(t) \/ Sweep(t)
    PROVE  IInv'
  <1>1. PICK new : /\ Begin(t, new) /\ (\E D : new \in Handlers(D))
                   /\ new.do \in {"provision", "downgrade", "transfer", "destroy", "sweep"}
                   /\ new.at \in {"create", "project", "move", "delete", "verify"}
    <2>1. CASE Provision(t)
      <3> DEFINE new == [Idle EXCEPT !.do = "provision", !.at = "create"]
      <3>1. new \in Handlers({FALSE, None, "none", NoRow})
        BY DEF Idle, Handlers, Kinds, Places
      <3>2. new.do = "provision" /\ new.at = "create"
        BY DEF Idle
      <3>3. Begin(t, new)
        BY <2>1 DEF Provision
      <3> HIDE DEF new
      <3> QED  BY <3>1, <3>2, <3>3
    <2>2. CASE Downgrade(t)
      <3>1. PICK p \in Policies :
                Begin(t, [Idle EXCEPT !.do = "downgrade", !.at = "project", !.policy = p])
        BY <2>2 DEF Downgrade
      <3> DEFINE new == [Idle EXCEPT !.do = "downgrade", !.at = "project", !.policy = p]
      <3>2. new \in Handlers({FALSE, p, "none", NoRow})
        BY DEF Idle, Handlers, Kinds, Places
      <3>3. new.do = "downgrade" /\ new.at = "project"
        BY DEF Idle
      <3>4. Begin(t, new)
        BY <3>1
      <3> HIDE DEF new
      <3> QED  BY <3>2, <3>3, <3>4
    <2>3. CASE Transfer(t)
      <3> DEFINE new == [Idle EXCEPT !.do = "transfer", !.at = "move", !.snap.ref = row.ref]
      <3>1. new \in Handlers({FALSE, None, "none", new.snap})
        BY DEF Idle, Handlers, Kinds, Places
      <3>2. new.do = "transfer" /\ new.at = "move"
        BY DEF Idle
      <3>3. Begin(t, new)
        BY <2>3 DEF Transfer
      <3> HIDE DEF new
      <3> QED  BY <3>1, <3>2, <3>3
    <2>4. CASE Destroy(t)
      <3> DEFINE new == [Idle EXCEPT !.do = "destroy", !.at = "delete", !.snap.ref = row.ref]
      <3>1. new \in Handlers({FALSE, None, "none", new.snap})
        BY DEF Idle, Handlers, Kinds, Places
      <3>2. new.do = "destroy" /\ new.at = "delete"
        BY DEF Idle
      <3>3. Begin(t, new)
        BY <2>4 DEF Destroy
      <3> HIDE DEF new
      <3> QED  BY <3>1, <3>2, <3>3
    <2>5. CASE Sweep(t)
      <3> DEFINE new == [Idle EXCEPT !.do = "sweep", !.at = "verify",
                                     !.snap = [row EXCEPT !.moved = FALSE]]
      <3>1. new \in Handlers({FALSE, None, "none", new.snap})
        BY DEF Idle, Handlers, Kinds, Places
      <3>2. new.do = "sweep" /\ new.at = "verify"
        BY DEF Idle
      <3>3. Begin(t, new)
        BY <2>5 DEF Sweep
      <3> HIDE DEF new
      <3> QED  BY <3>1, <3>2, <3>3
    <2> QED  BY <2>1, <2>2, <2>3, <2>4, <2>5
  <1>2. unchangedOutside /\ ended' = ended
    BY DEF Provision, Downgrade, Transfer, Destroy, Sweep
  <1>3. QuietMove(t, new.do, new.at, new.s)
    BY <1>1, <1>2, QuietBegin DEF IInv
  <1> QED  BY <1>3, QuietOK

\* What the handlers of the project do from there on.
LEMMA ProjectOK ==
    ASSUME IInv, NEW t \in Tasks,
           \/ RecordProject(t) \/ MoveProject(t) \/ MarkMoved(t) \/ Verify(t) \/ ClearRow(t)
    PROVE  IInv'
  <1>1. ~Rewarding(t) /\ task[t].do \notin {"completed", "ended", "poll"}
    BY DEF RecordProject, MoveProject, MarkMoved, Verify, ClearRow, Is, Rewarding
  <1>2. unchangedOutside /\ ended' = ended
    BY DEF RecordProject, MoveProject, MarkMoved, Verify, ClearRow
  <1>3. Finish(t) \/ Goto(t, "moved") \/ Goto(t, "delete")
    BY DEF RecordProject, MoveProject, MarkMoved, Verify, ClearRow, MarkError
  <1>4. CASE Finish(t)
    BY <1>1, <1>2, <1>4, QuietFinish, QuietOK DEF IInv
  <1>5. CASE Goto(t, "moved") \/ Goto(t, "delete")
    BY <1>1, <1>2, <1>5, QuietGoto, QuietOK DEF IInv, Places
  <1> QED  BY <1>3, <1>4, <1>5

\* A handler that moves on with something new in what it carries.
LEMMA CarryOK ==
    ASSUME TaskTypes, NEW t \in Tasks, NEW at \in Places, NEW new,
           task' = [task EXCEPT ![t] = new],
           \/ \E ref : new = [task[t] EXCEPT !.at = at, !.snap.ref = ref]
           \/ \E ref, policy : new = [task[t] EXCEPT !.at = at, !.policy = policy,
                                                     !.snap.ref = ref]
           \/ \E copy : new = [task[t] EXCEPT !.at = at, !.copy = copy]
           \/ new = [task[t] EXCEPT !.at = at, !.snap.policy = None, !.snap.copy = "none"]
    PROVE  Becomes(t, task[t].do, at, task[t].s)
  <1>1. PICK D : task \in [Tasks -> Handlers(D)]
    BY DEF TaskTypes
  <1>2. /\ new \in Handlers(D \cup {new.snap, new.policy, new.copy})
        /\ new.do = task[t].do /\ new.at = at /\ new.s = task[t].s
    BY <1>1 DEF Handlers
  <1> QED  BY <1>2, UpdateOK

LEMMA CreateOK == ASSUME IInv, NEW t \in Tasks, CreateProject(t) PROVE IInv'
  <1>1. /\ task[t].do = "provision" /\ task[t].at = "create"
        /\ unchangedOutside /\ ended' = ended
    BY DEF CreateProject, Is
  <1>2. \/ Finish(t)
        \/ \E ref : task' = [task EXCEPT ![t].at = "record", ![t].snap.ref = ref]
    BY DEF CreateProject
  <1>3. CASE Finish(t)
    BY <1>1, <1>3, QuietFinish, QuietOK DEF IInv, Rewarding
  <1>4. ASSUME NEW ref, task' = [task EXCEPT ![t].at = "record", ![t].snap.ref = ref]
        PROVE  IInv'
    <2> DEFINE new == [task[t] EXCEPT !.at = "record", !.snap.ref = ref]
    <2>1. task' = [task EXCEPT ![t] = new]
      BY <1>4
    <2>2. Becomes(t, task[t].do, "record", task[t].s)
      BY <2>1, CarryOK DEF IInv, Places
    <2>3. QuietMove(t, task[t].do, "record", task[t].s)
      BY <1>1, <2>2 DEF QuietMove, Rewarding, unchangedOutside, userVars, rewardVars
    <2> QED  BY <2>3, QuietOK
  <1> QED  BY <1>2, <1>3, <1>4

LEMMA DeleteOK == ASSUME IInv, NEW t \in Tasks, DeleteProject(t) PROVE IInv'
  <1>1. /\ task[t].do \in {"sweep", "destroy"} /\ task[t].at = "delete"
        /\ unchangedOutside /\ ended' = ended
    BY DEF DeleteProject, Is
  <1>2. \/ Finish(t)
        \/ task' = [task EXCEPT ![t].at = "clear", ![t].snap.policy = None,
                                ![t].snap.copy = "none"]
    BY DEF DeleteProject, NotDeleted, MarkError
  <1>3. CASE Finish(t)
    BY <1>1, <1>3, QuietFinish, QuietOK DEF IInv, Rewarding
  <1>4. ASSUME task' = [task EXCEPT ![t].at = "clear", ![t].snap.policy = None,
                                    ![t].snap.copy = "none"]
        PROVE  IInv'
    <2> DEFINE new == [task[t] EXCEPT !.at = "clear", !.snap.policy = None,
                                      !.snap.copy = "none"]
    <2>1. task' = [task EXCEPT ![t] = new]
      BY <1>4
    <2>2. Becomes(t, task[t].do, "clear", task[t].s)
      BY <2>1, CarryOK DEF IInv, Places
    <2>3. QuietMove(t, task[t].do, "clear", task[t].s)
      BY <1>1, <2>2 DEF QuietMove, Rewarding, unchangedOutside, userVars, rewardVars
    <2> QED  BY <2>3, QuietOK
  <1> QED  BY <1>2, <1>3, <1>4

\* The downgrade, whose end is also the end of the event that asked for it.
LEMMA DowngradeOK ==
    ASSUME IInv, NEW t \in Tasks, ReadProject(t) \/ CopyBack(t) \/ MarkPending(t)
    PROVE  IInv'
  <1>1. /\ task[t].do \in Downgrades /\ task[t].at \in {"project", "copy", "marker"}
        /\ unchangedOutside
    BY DEF ReadProject, CopyBack, MarkPending, Is
  <1>2. /\ ~Rewarding(t)
        /\ task[t].do = "ended" => HasReset(t, task[t].s) /\ task[t].s \in Sessions
    BY <1>1 DEF Rewarding, HasReset, IInv, SessionInv
  <1>3. CASE EndDowngrade(t)
    BY <1>1, <1>2, <1>3, QuietFinish, QuietOK DEF IInv, EndDowngrade
  <1>4. ASSUME NEW new, NEW at \in {"copy", "marker"},
               task' = [task EXCEPT ![t] = new], ended' = ended,
               \/ \E ref, policy : new = [task[t] EXCEPT !.at = at, !.policy = policy,
                                                         !.snap.ref = ref]
               \/ \E copy : new = [task[t] EXCEPT !.at = at, !.copy = copy]
        PROVE  IInv'
    <2>1. Becomes(t, task[t].do, at, task[t].s)
      BY <1>4, CarryOK DEF IInv, Places
    <2>2. QuietMove(t, task[t].do, at, task[t].s)
      BY <1>1, <1>2, <1>4, <2>1
      DEF QuietMove, unchangedOutside, userVars, rewardVars, Downgrades
    <2> QED  BY <2>2, QuietOK
  <1>5. CASE ReadProject(t) /\ ~EndDowngrade(t)
    <2> DEFINE policy == IF task[t].do = "ended" THEN Default ELSE task[t].policy
               at == IF policy = "migrate_back" THEN "copy" ELSE "marker"
               new == [task[t] EXCEPT !.at = at, !.policy = policy, !.snap.ref = row.ref]
    <2>1. /\ task' = [task EXCEPT ![t].at = at, ![t].policy = policy, ![t].snap.ref = row.ref]
          /\ ended' = ended
      BY <1>5 DEF ReadProject
    <2>2. at \in {"copy", "marker"} /\ task' = [task EXCEPT ![t] = new]
      BY <2>1
    <2> HIDE DEF policy, at
    <2> QED  BY <2>1, <2>2, <1>4
  <1>6. CASE CopyBack(t) /\ ~EndDowngrade(t)
    <2>1. PICK copy : task' = [task EXCEPT ![t].at = "marker", ![t].copy = copy]
                      /\ ended' = ended
      BY <1>6 DEF CopyBack
    <2> DEFINE new == [task[t] EXCEPT !.at = "marker", !.copy = copy]
    <2>2. task' = [task EXCEPT ![t] = new]
      BY <2>1
    <2> QED  BY <2>1, <2>2, <1>4
  <1>7. CASE MarkPending(t)
    BY <1>3, <1>7 DEF MarkPending
  <1> QED  BY <1>3, <1>5, <1>6, <1>7

-----------------------------------------------------------------------------
(* The user's half. *)

\* A step of handler t after which only that handler may stand elsewhere.
LEMMA SessionOK ==
    ASSUME IInv, NEW t \in Tasks, NEW do, NEW at, NEW s, Becomes(t, do, at, s),
           do \in {"completed", "ended", "poll"} => s \in Sessions
    PROVE  TaskTypes' /\ SessionInv'
  BY DEF Becomes, IInv, SessionInv

\* The plan is granted, by a handler that resets nothing.
LEMMA GrantOK ==
    ASSUME IInv, NEW s \in Sessions, sub[s] # "none", Grant(s), UNCHANGED <<sub, ended>>,
           \A u \in Tasks, x \in Sessions : HasReset(u, x)' => HasReset(u, x)
    PROVE  PlanInv'
  <1>1. tier' = s /\ subId' = s
    BY DEF Grant
  <1>2. ended[s] = "done" \/ (\E u \in Tasks : HasReset(u, s)) => late'
    BY Zenon DEF Grant
  <1>3. PaidIsBacked'
    BY <1>1, <1>2 DEF PaidIsBacked, IInv, UserTypes
  <1> QED  BY <1>1, <1>2, <1>3 DEF PlanInv

\* Nothing granted, ended or reset.
LEMMA PlanStays ==
    ASSUME IInv, UNCHANGED <<sub, ended, tier, subId, late>>,
           \A u \in Tasks, x \in Sessions : HasReset(u, x)' => HasReset(u, x)
    PROVE  UserTypes' /\ PlanInv'
  BY DEF IInv, UserTypes, PlanInv, PaidIsBacked

\* Nothing extended or read.
LEMMA RewardStays ==
    ASSUME IInv, UNCHANGED <<referral, rewards, slip>>, NEW t \in Tasks,
           ~Rewarding(t), ~Rewarding(t)', \A u \in Tasks \ {t} : task'[u] = task[u]
    PROVE  RewardInv'
  BY DEF IInv, RewardInv, Rewarding

LEMMA EventBegins ==
    ASSUME IInv, NEW t \in Tasks, NEW D, NEW new \in Handlers(D), Begin(t, new),
           new.at \in {"referral", "reset", "grant"}
    PROVE  /\ Becomes(t, new.do, new.at, new.s) /\ ~Rewarding(t) /\ ~Rewarding(t)'
           /\ \A u \in Tasks, x \in Sessions : HasReset(u, x)' => HasReset(u, x)
  <1>1. task[t] = Idle /\ Becomes(t, new.do, new.at, new.s)
    BY BeginOK DEF IInv
  <1>2. Idle.at = "idle"
    BY DEF Idle
  <1> QED  BY <1>1, <1>2 DEF Becomes, Rewarding, HasReset

LEMMA EventsOK ==
    ASSUME IInv, NEW t \in Tasks, NEW s \in Sessions,
           Completed(t, s) \/ Ended(t, s) \/ Poll(t, s)
    PROVE  IInv'
  <1>1. CASE Completed(t, s)
    <2> DEFINE new == [Idle EXCEPT !.do = "completed", !.at = "referral", !.s = s]
    <2>1. /\ new \in Handlers({FALSE, None, "none", NoRow})
          /\ new.do = "completed" /\ new.at = "referral" /\ new.s = s
      BY DEF Idle, Handlers, Kinds, Places
    <2>2. /\ Becomes(t, "completed", "referral", s) /\ ~Rewarding(t) /\ ~Rewarding(t)'
          /\ \A u \in Tasks, x \in Sessions : HasReset(u, x)' => HasReset(u, x)
      <3>1. Begin(t, new)
        BY <1>1 DEF Completed
      <3> HIDE DEF new
      <3> QED  BY <2>1, <3>1, EventBegins
    <2>3. TaskTypes' /\ SessionInv'
      BY <2>2, SessionOK
    <2>4. UserTypes' /\ PlanInv'
      BY <1>1, <2>2, GrantOK DEF Completed, stripeVars, IInv, UserTypes
    <2>5. RewardInv'
      BY <1>1, <2>2, RewardStays DEF Completed, rewardVars, Becomes
    <2> QED  BY <2>3, <2>4, <2>5 DEF IInv
  <1>2. CASE Ended(t, s) \/ Poll(t, s)
    <2>1. PICK do \in {"ended", "poll"}, at \in {"reset", "grant"}, ok \in BOOLEAN :
              Begin(t, [Idle EXCEPT !.do = do, !.at = at, !.s = s, !.ok = ok])
      <3>1. CASE Ended(t, s)
        BY <3>1, Zenon DEF Ended
      <3>2. CASE Poll(t, s)
        BY <3>2, Zenon DEF Poll
      <3> QED  BY <1>2, <3>1, <3>2
    <2> DEFINE new == [Idle EXCEPT !.do = do, !.at = at, !.s = s, !.ok = ok]
    <2>2. /\ Becomes(t, do, at, s) /\ ~Rewarding(t) /\ ~Rewarding(t)'
          /\ \A u \in Tasks, x \in Sessions : HasReset(u, x)' => HasReset(u, x)
      <3>1. /\ new \in Handlers({ok, None, "none", NoRow})
            /\ new.do = do /\ new.at = at /\ new.s = s
        BY DEF Idle, Handlers, Kinds, Places
      <3>2. Begin(t, new)
        BY <2>1
      <3> HIDE DEF new
      <3> QED  BY <3>1, <3>2, EventBegins
    <2>3. TaskTypes' /\ SessionInv'
      BY <2>2, SessionOK
    <2>4. UserTypes' /\ PlanInv'
      BY <1>2, <2>2, PlanStays DEF Ended, Poll, stripeVars, userVars
    <2>5. RewardInv'
      BY <1>2, <2>2, RewardStays DEF Ended, Poll, rewardVars, Becomes
    <2> QED  BY <2>3, <2>4, <2>5 DEF IInv
  <1> QED  BY <1>1, <1>2

\* The reset of a plan: whoever has the session's subscription loses it.
LEMMA ResetOK == ASSUME IInv, NEW t \in Tasks, ResetTier(t) PROVE IInv'
  <1>1. task[t].do = "ended" /\ task[t].at = "reset" /\ task[t].s \in Sessions
    BY DEF ResetTier, Is, IInv, SessionInv
  <1>2. UNCHANGED <<sub, pay, referral, rewards, slip>>
    BY DEF ResetTier, rewardVars
  <1>3. \/ Goto(t, "project") /\ ended' = ended
        \/ Finish(t) /\ ended' = [ended EXCEPT ![task[t].s] = "done"]
    BY DEF ResetTier
  <1>4. \/ Becomes(t, "ended", "project", task[t].s)
        \/ Becomes(t, "idle", "idle", None)
    BY <1>1, <1>3, GotoOK, FinishOK DEF IInv, Places
  <1>5. TaskTypes' /\ SessionInv'
    BY <1>1, <1>4, SessionOK
  <1>6. UserTypes'
    BY <1>1, <1>2, <1>3 DEF IInv, UserTypes
  <1>7. /\ subId' = tier' /\ (tier' # None => tier' = tier /\ late' = late)
        /\ tier' # None => tier' # task[t].s
    BY DEF ResetTier, IInv, PlanInv
  <1>8. PlanInv'
    <2>1. PaidIsBacked'
      BY <1>1, <1>2, <1>3, <1>7 DEF PaidIsBacked, IInv, UserTypes, PlanInv
    <2>2. \A u \in Tasks, x \in Sessions : HasReset(u, x)' => HasReset(u, x) \/ x = task[t].s
      BY <1>4 DEF Becomes, HasReset
    <2> QED  BY <1>7, <2>1, <2>2 DEF IInv, PlanInv
  <1>9. RewardInv'
    BY <1>1, <1>2, <1>4, RewardStays DEF Rewarding, Becomes
  <1> QED  BY <1>5, <1>6, <1>8, <1>9 DEF IInv

LEMMA PollsOK == ASSUME IInv, NEW t \in Tasks, PollGrants(t) \/ PollRecords(t) PROVE IInv'
  <1>1. /\ task[t].do = "poll" /\ task[t].at \in {"grant", "record"} /\ task[t].s \in Sessions
    BY DEF PollGrants, PollRecords, Is, IInv, SessionInv
  <1>2. UNCHANGED <<sub, ended, referral, rewards, slip>>
    BY DEF PollGrants, PollRecords, rewardVars, stripeVars
  <1>3. Goto(t, "record") \/ Finish(t)
    BY DEF PollGrants, PollRecords
  <1>4. \/ Becomes(t, "poll", "record", task[t].s) \/ Becomes(t, "idle", "idle", None)
    BY <1>1, <1>3, GotoOK, FinishOK DEF IInv, Places
  <1>5. \A u \in Tasks, x \in Sessions : HasReset(u, x)' => HasReset(u, x)
    BY <1>4 DEF Becomes, HasReset
  <1>6. TaskTypes' /\ SessionInv'
    BY <1>1, <1>4, SessionOK
  <1>7. \/ UNCHANGED <<tier, subId, late>>
        \/ Grant(task[t].s) /\ sub[task[t].s] # "none"
    BY DEF PollGrants, PollRecords
  <1>8. UserTypes' /\ PlanInv'
    BY <1>1, <1>2, <1>5, <1>7, GrantOK, PlanStays DEF IInv, UserTypes
  <1>9. RewardInv'
    BY <1>1, <1>2, <1>4, RewardStays DEF Rewarding, Becomes
  <1> QED  BY <1>6, <1>8, <1>9 DEF IInv

\* The reward: what is left when the plan is out of it.
LEMMA RewardMoves ==
    ASSUME IInv, NEW t \in Tasks, NEW do, NEW at, NEW s, Becomes(t, do, at, s),
           (do = task[t].do /\ s = task[t].s) \/ (do = "idle" /\ s = None),
           do \in {"completed", "idle"},
           UNCHANGED <<sub, ended, tier, subId, late>>, RewardInv'
    PROVE  IInv'
  <1>1. TaskTypes' /\ SessionInv'
    BY DEF Becomes, IInv, SessionInv
  <1>2. \A u \in Tasks, x \in Sessions : HasReset(u, x)' => HasReset(u, x)
    BY DEF Becomes, HasReset
  <1> QED  BY <1>1, <1>2, PlanStays DEF IInv

LEMMA ReadReferralOK == ASSUME IInv, NEW t \in Tasks, ReadReferral(t) PROVE IInv'
  <1>1. /\ task[t].do = "completed" /\ task[t].at = "referral"
        /\ UNCHANGED <<sub, ended, tier, subId, late, referral, rewards>>
    BY DEF ReadReferral, Is, stripeVars, userVars
  <1>2. CASE referral = "pending"
    <2>1. Becomes(t, task[t].do, "extend", task[t].s)
      BY <1>2, GotoOK DEF ReadReferral, IInv, Places
    <2>2. ~slip' => ~slip /\ \A u \in Tasks \ {t} : ~Rewarding(u)
      BY <1>2, Zenon DEF ReadReferral, Overlaps, Others, Rewarding
    <2>3. RewardInv'
      BY <1>1, <1>2, <2>1, <2>2 DEF IInv, RewardInv, Rewarding, Becomes
    <2> QED  BY <1>1, <2>1, <2>3, RewardMoves
  <1>3. CASE referral # "pending"
    <2>1. Becomes(t, "idle", "idle", None) /\ slip' = slip
      BY <1>3, FinishOK DEF ReadReferral, IInv
    <2>2. RewardInv'
      BY <1>1, <2>1, RewardStays DEF Rewarding, Becomes
    <2> QED  BY <1>1, <2>1, <2>2, RewardMoves
  <1> QED  BY <1>2, <1>3

LEMMA ExtendOK == ASSUME IInv, NEW t \in Tasks, ExtendReferrer(t) PROVE IInv'
  <1>1. /\ task[t].do = "completed" /\ task[t].at = "extend"
        /\ UNCHANGED <<sub, ended, tier, subId, late>>
    BY DEF ExtendReferrer, Is, stripeVars, userVars
  <1>2. ~slip => rewards = 0 /\ \A u \in Tasks \ {t} : ~Rewarding(u)
    BY <1>1 DEF IInv, RewardInv, Rewarding
  <1>3. CASE rewards' = rewards + 1 /\ Goto(t, "rewarded") /\ UNCHANGED <<referral, slip>>
    <2>1. Becomes(t, task[t].do, "rewarded", task[t].s)
      BY <1>3, GotoOK DEF IInv, Places
    <2>2. RewardInv'
      BY <1>1, <1>2, <1>3, <2>1 DEF IInv, RewardInv, Rewarding, Becomes
    <2> QED  BY <1>1, <2>1, <2>2, RewardMoves
  <1>4. CASE /\ Finish(t)
             /\ (rewards' = rewards /\ slip' = slip) \/ (rewards' = rewards + 1 /\ slip' = TRUE)
    <2>1. Becomes(t, "idle", "idle", None)
      BY <1>4, FinishOK DEF IInv
    <2>2. RewardInv'
      BY <1>1, <1>2, <1>4, <2>1 DEF IInv, RewardInv, Rewarding, Becomes
    <2> QED  BY <1>1, <2>1, <2>2, RewardMoves
  <1> QED  BY <1>3, <1>4 DEF ExtendReferrer

LEMMA MarkRewardedOK == ASSUME IInv, NEW t \in Tasks, MarkRewarded(t) PROVE IInv'
  <1>1. /\ task[t].do = "completed" /\ task[t].at = "rewarded"
        /\ UNCHANGED <<sub, ended, tier, subId, late, rewards>>
    BY DEF MarkRewarded, Is, stripeVars, userVars
  <1>2. Becomes(t, "idle", "idle", None)
    BY FinishOK DEF MarkRewarded, IInv
  <1>3. slip' \/ (slip' = slip /\ referral' = "rewarded")
    BY Zenon DEF MarkRewarded
  <1>4. RewardInv'
    BY <1>1, <1>2, <1>3 DEF IInv, RewardInv, Rewarding, Becomes
  <1> QED  BY <1>1, <1>2, <1>4, RewardMoves

LEMMA CrashOK == ASSUME IInv, NEW t \in Tasks, Crash(t) PROVE IInv'
  <1>1. UNCHANGED <<sub, ended, tier, subId, late, referral, rewards>>
    BY DEF Crash, stripeVars, userVars
  <1>2. Becomes(t, "idle", "idle", None)
    BY FinishOK DEF Crash, IInv
  <1>3. ~slip' => ~slip /\ task[t].at # "rewarded"
    BY Zenon DEF Crash
  <1>4. RewardInv'
    BY <1>1, <1>2, <1>3 DEF IInv, RewardInv, Rewarding, Becomes
  <1> QED  BY <1>1, <1>2, <1>4, RewardMoves

\* What Stripe, the clock and the founder do.
LEMMA OutsideOK ==
    ASSUME IInv, \/ \E s \in Sessions : OpenCheckout(s) \/ Pay(s) \/ Unsubscribe(s)
                 \/ Rearm \/ GraceOver
    PROVE  IInv'
  <1>1. UNCHANGED <<task, tier, subId, late, referral, rewards, slip>>
    BY DEF OpenCheckout, Pay, Unsubscribe, Rearm, GraceOver, userVars, rewardVars, unchangedOutside
  <1>2. \/ UNCHANGED <<sub, ended>>
        \/ \E s \in Sessions : /\ sub[s] = "none" /\ ended' = ended
                               /\ sub' = [sub EXCEPT ![s] = "active"]
        \/ \E s \in Sessions : /\ sub' = [sub EXCEPT ![s] = "ended"]
                               /\ ended' = [ended EXCEPT ![s] = "due"]
    BY DEF OpenCheckout, Pay, Unsubscribe, Rearm, GraceOver, stripeVars, unchangedOutside
  <1>3. UserTypes'
    BY <1>2 DEF IInv, UserTypes
  <1>4. PlanInv'
    BY <1>1, <1>2 DEF IInv, UserTypes, PlanInv, PaidIsBacked, HasReset
  <1> QED  BY <1>1, <1>3, <1>4 DEF IInv, TaskTypes, SessionInv, RewardInv, Rewarding

-----------------------------------------------------------------------------
LEMMA Initially == Init => IInv
  <1> SUFFICES ASSUME Init PROVE IInv
    OBVIOUS
  <1>1. TaskTypes
    <2>1. Idle \in Handlers({FALSE, None, "none", NoRow})
      BY DEF Idle, Handlers, Kinds, Places
    <2> QED  BY <2>1 DEF Init, TaskTypes
  <1>2. \A t \in Tasks : task[t].do = "idle" /\ task[t].at = "idle"
    BY DEF Init, Idle
  <1> QED  BY <1>1, <1>2 DEF Init, IInv, SessionInv, UserTypes, PlanInv, PaidIsBacked,
              HasReset, RewardInv, Rewarding

LEMMA Inductive == IInv /\ [Next]_vars => IInv'
  <1> SUFFICES ASSUME IInv, [Next]_vars PROVE IInv'
    OBVIOUS
  <1>1. CASE \/ \E s \in Sessions : OpenCheckout(s) \/ Pay(s) \/ Unsubscribe(s)
             \/ Rearm \/ GraceOver
    BY <1>1, OutsideOK
  <1>2. ASSUME NEW t \in Tasks, Request(t) \/ Sweep(t) PROVE IInv'
    <2>1. \/ \E s \in Sessions : Completed(t, s) \/ Ended(t, s) \/ Poll(t, s)
          \/ Provision(t) \/ Downgrade(t) \/ Transfer(t) \/ Destroy(t) \/ Sweep(t)
      BY <1>2 DEF Request
    <2> QED  BY <2>1, EventsOK, RequestsOK
  <1>3. ASSUME NEW t \in Tasks, Proceed(t) PROVE IInv'
    BY <1>3, ReadReferralOK, ExtendOK, MarkRewardedOK, ResetOK, PollsOK, CreateOK, DowngradeOK,
       ProjectOK, DeleteOK DEF Proceed
  <1>4. ASSUME NEW t \in Tasks, Crash(t) PROVE IInv'
    BY <1>4, CrashOK
  <1>5. CASE UNCHANGED vars
    BY <1>5 DEF vars, stripeVars, userVars, rewardVars, IInv, TaskTypes, SessionInv, UserTypes,
            PlanInv, PaidIsBacked, HasReset, RewardInv, Rewarding
  <1> QED  BY <1>1, <1>2, <1>3, <1>4, <1>5 DEF Next

\* Whatever Stripe repeats or reorders, whatever handlers overlap or die: a
\* user keeps a plan beyond the end of its subscription only while that end has
\* not been handled, or because a poll or an event granted it after that.
THEOREM PlansAreBacked == Spec => []PaidIsBacked
  <1>1. IInv => PaidIsBacked
    BY DEF IInv, PlanInv
  <1> QED  BY <1>1, Initially, Inductive, PTL DEF Spec

\* However many deliveries and sessions, the referrer is extended at most once
\* unless two deliveries overlapped or one was cut off in between.
THEOREM OneReward == Spec => []RewardedOnce
  <1>1. IInv => RewardedOnce
    BY DEF IInv, RewardInv, RewardedOnce
  <1> QED  BY <1>1, Initially, Inductive, PTL DEF Spec

-----------------------------------------------------------------------------
(* The project's half: what its handlers carry, the row, and the projects  *)
(* that exist.                                                             *)

Policy == Policies \cup {Default, None}
Copies == {"none", "rows", "empty", "partial", "failed"}
Rows   == [ref : Refs \cup {None}, pending : BOOLEAN, policy : Policy, over : BOOLEAN,
           copy : Copies, attempts : 0 .. MaxAttempts, founder : BOOLEAN, moved : BOOLEAN]
Handler == [do : Kinds, at : Places, s : Sessions \cup {None}, ok : BOOLEAN,
            policy : Policy, copy : Copies, snap : Rows]

\* A sweep has read a row in its queue, whose project a downgrade was asked
\* for; a poll carries no project; a project about to be cleared is gone.
Carried(x, requested, existing) ==
    /\ x.do = "sweep" => x.snap.attempts < MaxAttempts
    /\ x.do = "sweep" /\ x.at \in {"verify", "delete"} => x.snap.ref \in requested
    /\ x.do = "poll" => x.snap.ref = None
    /\ x.at = "record" => x.do = "poll" \/ (x.do = "provision" /\ x.snap.ref \in Refs)
    /\ x.at = "clear" => x.snap.ref \notin existing

RowOK(x, requested) ==
    /\ x \in Rows
    /\ x.attempts = MaxAttempts => x.founder
    /\ x.pending => x.ref # None /\ x.ref \in requested

HandlersOK(f, requested, existing) ==
    /\ f \in [Tasks -> Handler]
    /\ \A t \in Tasks : Carried(f[t], requested, existing)

ProjectInv ==
    /\ RowOK(row, asked)
    /\ HandlersOK(task, asked, live)
    /\ live \subseteq Refs /\ moved \subseteq live
    /\ referral \in {"none", "pending", "rewarded", "credited"}
    /\ NoOrphan

LEMMA IdleOK == /\ NoRow \in Rows /\ NoRow.ref = None /\ ~NoRow.pending /\ NoRow.attempts = 0
                /\ Idle \in Handler /\ Idle.do = "idle" /\ Idle.at = "idle"
                /\ Idle.snap = NoRow
<1>1. NoRow \in Rows /\ NoRow.ref = None /\ ~NoRow.pending /\ NoRow.attempts = 0
  BY PaidConstants DEF NoRow, Rows, Policy, Copies
<1> HIDE DEF NoRow
<1> QED  BY <1>1 DEF Idle, Handler, Kinds, Places, Policy, Copies

\* Handler t moves on to what new says, and no project is left to nobody.
LEMMA HandlerStep ==
    ASSUME ProjectInv, NEW t \in Tasks, NEW new \in Handler,
           task' = [task EXCEPT ![t] = new], Carried(new, asked', live'),
           RowOK(row', asked'), asked \subseteq asked',
           live' \subseteq live, moved' \subseteq live', live' \ moved' \subseteq live \ moved,
           referral' \in {"none", "pending", "rewarded", "credited"},
           \A ref \in live' \ moved' :
               \/ ref \in stray \/ row.ref = ref
               \/ Is(t, {"provision"}, "record") /\ task[t].snap.ref = ref
               => ref \in stray' \/ row'.ref = ref
    PROVE  ProjectInv'
  <1>1. task \in [Tasks -> Handler] /\ \A u \in Tasks : Carried(task[u], asked, live)
    BY DEF ProjectInv, HandlersOK
  <1>2. \A u \in Tasks : task'[u] = IF u = t THEN new ELSE task[u]
    BY <1>1
  <1>3. task' \in [Tasks -> Handler]
    BY <1>1
  <1>4. ASSUME NEW u \in Tasks PROVE Carried(task'[u], asked', live')
    BY <1>1, <1>2 DEF Carried
  <1>5. HandlersOK(task', asked', live')
    BY <1>3, <1>4 DEF HandlersOK
  <1>6. NoOrphan'
    <2> SUFFICES ASSUME NEW ref \in live' \ moved'
                 PROVE  \/ row'.ref = ref \/ ref \in stray'
                        \/ \E u \in Tasks : task'[u].at = "record" /\ task'[u].snap.ref = ref
      BY DEF NoOrphan
    <2>1. \/ row.ref = ref \/ ref \in stray
          \/ \E u \in Tasks : task[u].at = "record" /\ task[u].snap.ref = ref
      BY DEF ProjectInv, NoOrphan
    <2>2. CASE row.ref = ref \/ ref \in stray
      BY <2>2
    <2>3. ASSUME NEW u \in Tasks, task[u].at = "record", task[u].snap.ref = ref
          PROVE  \/ row'.ref = ref \/ ref \in stray'
                 \/ \E v \in Tasks : task'[v].at = "record" /\ task'[v].snap.ref = ref
      <3>1. CASE u = t
        <4>1. ref # None
          BY PaidConstants DEF ProjectInv
        <4>2. Is(t, {"provision"}, "record")
          BY <1>1, <2>3, <3>1, <4>1 DEF Carried, Is
        <4> QED  BY <2>3, <3>1, <4>2
      <3>2. CASE u # t
        BY <1>2, <2>3, <3>2
      <3> QED  BY <3>1, <3>2
    <2> QED  BY <2>1, <2>2, <2>3
  <1> QED  BY <1>5, <1>6 DEF ProjectInv

\* A step that leaves the projects and the row alone.
LEMMA HandlerMoves ==
    ASSUME ProjectInv, NEW t \in Tasks, NEW new \in Handler,
           task' = [task EXCEPT ![t] = new], Carried(new, asked', live),
           UNCHANGED <<row, live, moved, stray>>, asked \subseteq asked',
           referral' \in {"none", "pending", "rewarded", "credited"},
           ~Is(t, {"provision"}, "record")
    PROVE  ProjectInv'
  <1>1. RowOK(row', asked')
    BY DEF ProjectInv, RowOK
  <1>2. live' = live /\ moved' \subseteq live'
    BY DEF ProjectInv
  <1> QED  BY <1>1, <1>2, HandlerStep

\* A handler that ends, and leaves what projects there are to the row or among
\* the strays.
LEMMA HandlerLeaves ==
    ASSUME ProjectInv, NEW t \in Tasks, Finish(t), RowOK(row', asked'),
           live' \subseteq live, moved' \subseteq live', live' \ moved' \subseteq live \ moved,
           referral' = referral, asked \subseteq asked',
           stray \cap live' \subseteq stray',
           row.ref \in {None, row'.ref} \cup stray' \/ row.ref \notin live',
           Is(t, {"provision"}, "record") => task[t].snap.ref \in {row'.ref} \cup stray'
    PROVE  ProjectInv'
  <1>1. /\ Idle \in Handler /\ Carried(Idle, asked', live')
        /\ task' = [task EXCEPT ![t] = Idle]
    BY IdleOK DEF Carried, Finish
  <1>2. referral' \in {"none", "pending", "rewarded", "credited"} /\ None \notin live
    BY PaidConstants DEF ProjectInv
  <1> QED  BY <1>1, <1>2, HandlerStep

\* A handler that ends and leaves the projects alone.
LEMMA HandlerEnds ==
    ASSUME ProjectInv, NEW t \in Tasks, Finish(t), RowOK(row', asked'),
           UNCHANGED <<live, moved, referral>>, asked \subseteq asked', stray \subseteq stray',
           row.ref \in {None, row'.ref} \cup stray' \/ row.ref \notin live,
           Is(t, {"provision"}, "record") => task[t].snap.ref \in {row'.ref} \cup stray'
    PROVE  ProjectInv'
  <1>1. moved' \subseteq live' /\ live' = live
    BY DEF ProjectInv
  <1> QED  BY <1>1, HandlerLeaves

LEMMA QuietEnds ==
    ASSUME ProjectInv, NEW t \in Tasks, Finish(t),
           UNCHANGED <<row, live, moved, asked, stray>>,
           referral' \in {"none", "pending", "rewarded", "credited"},
           ~Is(t, {"provision"}, "record")
    PROVE  ProjectInv'
  <1>1. Idle \in Handler /\ Carried(Idle, asked', live) /\ task' = [task EXCEPT ![t] = Idle]
    BY IdleOK DEF Carried, Finish
  <1> QED  BY <1>1, HandlerMoves

\* A handler of the user's half that goes elsewhere.
LEMMA QuietGoes ==
    ASSUME ProjectInv, NEW t \in Tasks, NEW at \in Places \ {"verify", "delete", "clear"},
           Goto(t, at), at = "record" => task[t].do = "poll",
           UNCHANGED <<row, live, moved, asked, stray>>,
           referral' \in {"none", "pending", "rewarded", "credited"},
           ~Is(t, {"provision"}, "record")
    PROVE  ProjectInv'
  <1> DEFINE new == [task[t] EXCEPT !.at = at]
  <1>1. task[t] \in Handler /\ Carried(task[t], asked, live)
    BY DEF ProjectInv, HandlersOK
  <1>2. /\ new \in Handler /\ new.at = at /\ new.do = task[t].do
        /\ new.snap = task[t].snap
    BY <1>1 DEF Handler
  <1>3. task' = [task EXCEPT ![t] = new]
    BY DEF Goto
  <1> HIDE DEF new
  <1>4. Carried(new, asked', live)
    BY <1>1, <1>2 DEF Carried
  <1> QED  BY <1>2, <1>3, <1>4, HandlerMoves

\* A request, or a sweep, begins.
LEMMA HandlerBegins ==
    ASSUME ProjectInv, NEW t \in Tasks, NEW new \in Handler, Begin(t, new),
           new.at \notin {"record", "clear"}, Carried(new, asked, live),
           UNCHANGED <<projectVars, referral>>
    PROVE  ProjectInv'
  <1>1. task[t] = Idle /\ task' = [task EXCEPT ![t] = new]
    BY DEF Begin
  <1>2. ~Is(t, {"provision"}, "record")
    BY <1>1, IdleOK DEF Is
  <1>3. /\ UNCHANGED <<row, live, moved, stray, asked>>
        /\ referral' \in {"none", "pending", "rewarded", "credited"}
        /\ Carried(new, asked', live)
    BY DEF projectVars, ProjectInv
  <1> QED  BY <1>1, <1>2, <1>3, HandlerMoves

LEMMA UserRequests ==
    ASSUME ProjectInv, NEW t \in Tasks, NEW s \in Sessions,
           Completed(t, s) \/ Ended(t, s) \/ Poll(t, s)
    PROVE  ProjectInv'
  <1>1. PICK new \in Handler : /\ Begin(t, new) /\ new.do \in {"completed", "ended", "poll"}
                               /\ new.at \in {"referral", "reset", "grant"}
                               /\ new.snap = NoRow
    <2>1. CASE Completed(t, s)
      <3> DEFINE new == [Idle EXCEPT !.do = "completed", !.at = "referral", !.s = s]
      <3>1. new \in Handler /\ new.do = "completed" /\ new.at = "referral" /\ new.snap = NoRow
        BY IdleOK DEF Handler, Kinds, Places
      <3>2. Begin(t, new)
        BY <2>1 DEF Completed
      <3> HIDE DEF new
      <3> QED  BY <3>1, <3>2
    <2>2. CASE Ended(t, s) \/ Poll(t, s)
      <3>1. PICK do \in {"ended", "poll"}, at \in {"reset", "grant"}, ok \in BOOLEAN :
                Begin(t, [Idle EXCEPT !.do = do, !.at = at, !.s = s, !.ok = ok])
        <4>1. CASE Ended(t, s)
          BY <4>1, Zenon DEF Ended
        <4>2. CASE Poll(t, s)
          BY <4>2, Zenon DEF Poll
        <4> QED  BY <2>2, <4>1, <4>2
      <3> DEFINE new == [Idle EXCEPT !.do = do, !.at = at, !.s = s, !.ok = ok]
      <3>2. new \in Handler /\ new.do = do /\ new.at = at /\ new.snap = NoRow
        BY IdleOK DEF Handler, Kinds, Places
      <3>3. Begin(t, new)
        BY <3>1
      <3> HIDE DEF new
      <3> QED  BY <3>2, <3>3
    <2> QED  BY <2>1, <2>2
  <1>2. UNCHANGED <<projectVars, referral>>
    BY DEF Completed, Ended, Poll, rewardVars
  <1>3. Carried(new, asked, live)
    BY <1>1, IdleOK DEF Carried
  <1> QED  BY <1>1, <1>2, <1>3, HandlerBegins

LEMMA ProjectRequests ==
    ASSUME ProjectInv, NEW t \in Tasks,
           Provision(t) \/ Downgrade(t) \/ Transfer(t) \/ Destroy(t) \/ Sweep(t)
    PROVE  ProjectInv'
  <1>1. UNCHANGED <<projectVars, referral>>
    BY DEF Provision, Downgrade, Transfer, Destroy, Sweep, unchangedOutside, rewardVars
  <1>2. row \in Rows /\ row.ref \in Refs \cup {None} /\ Idle.snap \in Rows
    BY IdleOK DEF ProjectInv, RowOK, Rows
  <1>3. CASE Provision(t)
    <2> DEFINE new == [Idle EXCEPT !.do = "provision", !.at = "create"]
    <2>1. new \in Handler /\ new.do = "provision" /\ new.at = "create"
      BY IdleOK DEF Handler, Kinds, Places
    <2>2. Begin(t, new)
      BY <1>3 DEF Provision
    <2> HIDE DEF new
    <2>3. Carried(new, asked, live)
      BY <2>1 DEF Carried
    <2> QED  BY <1>1, <2>1, <2>2, <2>3, HandlerBegins
  <1>4. CASE Downgrade(t)
    <2>1. PICK p \in Policies :
              Begin(t, [Idle EXCEPT !.do = "downgrade", !.at = "project", !.policy = p])
      BY <1>4 DEF Downgrade
    <2> DEFINE new == [Idle EXCEPT !.do = "downgrade", !.at = "project", !.policy = p]
    <2>2. new \in Handler /\ new.do = "downgrade" /\ new.at = "project"
      BY IdleOK DEF Handler, Kinds, Places, Policy
    <2>3. Begin(t, new)
      BY <2>1
    <2> HIDE DEF new
    <2>4. Carried(new, asked, live)
      BY <2>2 DEF Carried
    <2> QED  BY <1>1, <2>2, <2>3, <2>4, HandlerBegins
  <1>5. ASSUME NEW do \in {"transfer", "destroy"}, NEW at \in {"move", "delete"},
               Begin(t, [Idle EXCEPT !.do = do, !.at = at, !.snap.ref = row.ref])
        PROVE  ProjectInv'
    <2> DEFINE new == [Idle EXCEPT !.do = do, !.at = at, !.snap.ref = row.ref]
    <2>1. new \in Handler /\ new.do = do /\ new.at = at
      BY <1>2, IdleOK DEF Handler, Kinds, Places, Rows
    <2>2. Begin(t, new)
      BY <1>5
    <2> HIDE DEF new
    <2>3. Carried(new, asked, live)
      BY <2>1 DEF Carried
    <2> QED  BY <1>1, <2>1, <2>2, <2>3, HandlerBegins
  <1>6. CASE Sweep(t)
    <2> DEFINE snap == [row EXCEPT !.moved = FALSE]
               new == [Idle EXCEPT !.do = "sweep", !.at = "verify", !.snap = snap]
    <2>1. /\ snap \in Rows /\ snap.ref = row.ref /\ snap.attempts = row.attempts
      BY <1>2 DEF Rows
    <2>2. row.attempts < MaxAttempts /\ row.ref \in asked
      BY <1>2, <1>6, PaidConstants DEF Sweep, Due, ProjectInv, RowOK, Rows
    <2>3. Begin(t, new)
      BY <1>6 DEF Sweep
    <2> HIDE DEF snap
    <2>4. new \in Handler /\ new.do = "sweep" /\ new.at = "verify" /\ new.snap = snap
      BY <2>1, IdleOK DEF Handler, Kinds, Places
    <2> HIDE DEF new
    <2>5. Carried(new, asked, live)
      BY <2>1, <2>2, <2>4 DEF Carried
    <2> QED  BY <1>1, <2>3, <2>4, <2>5, HandlerBegins
  <1> QED  BY <1>3, <1>4, <1>5, <1>6 DEF Transfer, Destroy

\* The user's half does nothing to the project.
LEMMA UserMoves ==
    ASSUME ProjectInv, NEW t \in Tasks,
           \/ ReadReferral(t) \/ ExtendReferrer(t) \/ MarkRewarded(t) \/ ResetTier(t)
           \/ PollGrants(t) \/ PollRecords(t)
    PROVE  ProjectInv'
  <1>1. /\ UNCHANGED <<row, live, moved, asked, stray>>
        /\ referral' \in {"none", "pending", "rewarded", "credited"}
    BY DEF ReadReferral, ExtendReferrer, MarkRewarded, ResetTier, PollGrants, PollRecords,
           projectVars, rewardVars, ProjectInv
  <1>2. ~Is(t, {"provision"}, "record")
    BY DEF ReadReferral, ExtendReferrer, MarkRewarded, ResetTier, PollGrants, PollRecords, Is
  <1>3. \/ Finish(t) \/ Goto(t, "extend") \/ Goto(t, "rewarded") \/ Goto(t, "project")
        \/ Goto(t, "record") /\ task[t].do = "poll"
    BY DEF ReadReferral, ExtendReferrer, MarkRewarded, ResetTier, PollGrants, PollRecords, Is
  <1>4. CASE Finish(t)
    BY <1>1, <1>2, <1>4, QuietEnds
  <1>5. ASSUME NEW at \in {"extend", "rewarded", "project", "record"}, Goto(t, at),
               at = "record" => task[t].do = "poll"
        PROVE  ProjectInv'
    BY <1>1, <1>2, <1>5, QuietGoes DEF Places
  <1> QED  BY <1>3, <1>4, <1>5

\* The handlers of the project.
LEMMA RecordOK == ASSUME ProjectInv, NEW t \in Tasks, RecordProject(t) PROVE ProjectInv'
  <1>1. /\ task[t].do = "provision" /\ task[t].at = "record" /\ Finish(t)
        /\ row' = [row EXCEPT !.ref = task[t].snap.ref]
        /\ stray' = IF row.ref = None THEN stray ELSE stray \cup {row.ref}
        /\ asked' = IF row.pending /\ row.ref # None THEN asked \cup {task[t].snap.ref}
                                                    ELSE asked
        /\ UNCHANGED <<live, moved, referral>>
    BY DEF RecordProject, Is, unchangedOutside, rewardVars
  <1>2. task[t].snap.ref \in Refs /\ task[t].snap.ref # None
    BY <1>1, PaidConstants DEF ProjectInv, HandlersOK, Carried
  <1>3. /\ row' \in Rows /\ row'.ref = task[t].snap.ref /\ row'.pending = row.pending
        /\ row'.attempts = row.attempts /\ row'.founder = row.founder
    BY <1>1, <1>2 DEF ProjectInv, RowOK, Rows
  <1>4. RowOK(row', asked')
    BY <1>1, <1>2, <1>3 DEF ProjectInv, RowOK
  <1> QED  BY <1>1, <1>3, <1>4, HandlerEnds

\* What apply_downgrade works through.
LEMMA DowngradeSteps ==
    ASSUME ProjectInv, NEW t \in Tasks, ReadProject(t) \/ CopyBack(t)
    PROVE  ProjectInv'
  <1>1. /\ task[t] \in Handler /\ task[t].snap \in Rows /\ task[t].policy \in Policy
        /\ row.ref \in Refs \cup {None} /\ task[t].do \in Downgrades
        /\ UNCHANGED <<row, live, moved, stray, referral>> /\ asked \subseteq asked'
    BY DEF ProjectInv, HandlersOK, Handler, RowOK, Rows, ReadProject, CopyBack, Is,
           unchangedOutside, rewardVars
  <1>2. ~Is(t, {"provision"}, "record")
    BY <1>1 DEF Is, Downgrades
  <1>3. CASE EndDowngrade(t)
    <2>1. Finish(t) /\ RowOK(row', asked')
      BY <1>1, <1>3 DEF EndDowngrade, ProjectInv, RowOK
    <2> QED  BY <1>1, <1>2, <2>1, HandlerEnds
  <1>4. CASE ~EndDowngrade(t)
    <2>1. PICK new \in Handler : /\ task' = [task EXCEPT ![t] = new]
                                 /\ new.do \in Downgrades /\ new.at \in {"copy", "marker"}
      <3>1. CASE ReadProject(t)
        <4> DEFINE p  == IF task[t].do = "ended" THEN Default ELSE task[t].policy
                   at == IF p = "migrate_back" THEN "copy" ELSE "marker"
                   new == [task[t] EXCEPT !.at = at, !.policy = p, !.snap.ref = row.ref]
        <4>1. task' = [task EXCEPT ![t] = new]
          BY <1>4, <3>1 DEF ReadProject
        <4>2. p \in Policy /\ at \in {"copy", "marker"}
          BY <1>1 DEF Policy
        <4> HIDE DEF p, at
        <4>3. new \in Handler /\ new.do = task[t].do /\ new.at = at
          BY <1>1, <4>2 DEF Handler, Places, Rows
        <4> HIDE DEF new
        <4> QED  BY <1>1, <4>1, <4>2, <4>3
      <3>2. CASE CopyBack(t)
        <4>1. PICK c \in Copies : task' = [task EXCEPT ![t].at = "marker", ![t].copy = c]
          BY <1>4, <3>2 DEF CopyBack, Copies
        <4> DEFINE new == [task[t] EXCEPT !.at = "marker", !.copy = c]
        <4>2. task' = [task EXCEPT ![t] = new]
          BY <4>1
        <4>3. new \in Handler /\ new.do = task[t].do /\ new.at = "marker"
          BY <1>1 DEF Handler, Places
        <4> HIDE DEF new
        <4> QED  BY <1>1, <4>2, <4>3
      <3> QED  BY <3>1, <3>2
    <2>2. Carried(new, asked', live)
      BY <2>1 DEF Carried, Downgrades
    <2>3. referral' \in {"none", "pending", "rewarded", "credited"}
      BY <1>1 DEF ProjectInv
    <2> QED  BY <1>1, <1>2, <2>1, <2>2, <2>3, HandlerMoves
  <1> QED  BY <1>3, <1>4

LEMMA MarkPendingOK == ASSUME ProjectInv, NEW t \in Tasks, MarkPending(t) PROVE ProjectInv'
  <1>1. /\ task[t] \in Handler /\ task[t].policy \in Policy /\ task[t].copy \in Copies
        /\ task[t].do \in Downgrades /\ Finish(t)
        /\ UNCHANGED <<live, moved, stray, referral>> /\ asked \subseteq asked'
        /\ row \in Rows
    BY DEF ProjectInv, HandlersOK, RowOK, Handler, MarkPending, EndDowngrade, Is, unchangedOutside, rewardVars
  <1>2. ~Is(t, {"provision"}, "record")
    BY <1>1 DEF Is, Downgrades
  <1>3. RowOK(row', asked') /\ row'.ref = row.ref
    <2>1. CASE row.ref = None
      BY <2>1 DEF MarkPending, ProjectInv
    <2>2. CASE row.ref # None
      <3> DEFINE over == task[t].policy = "keep_bill_user"
                 new  == [row EXCEPT !.pending = TRUE, !.policy = task[t].policy, !.over = over,
                                     !.copy = task[t].copy]
      <3>1. over \in BOOLEAN
        BY Zenon
      <3>2. row' = new /\ asked' = asked \cup {row.ref}
        BY <2>2 DEF MarkPending
      <3> HIDE DEF over
      <3>3. /\ new \in Rows /\ new.ref = row.ref /\ new.attempts = row.attempts
            /\ new.founder = row.founder
        BY <1>1, <3>1 DEF Rows
      <3> HIDE DEF new
      <3> QED  BY <2>2, <3>2, <3>3 DEF ProjectInv, RowOK
    <2> QED  BY <2>1, <2>2
  <1> QED  BY <1>1, <1>2, <1>3, HandlerEnds

\* _mark_error counts on from what the sweep has read.
LEMMA MarkErrorOK ==
    ASSUME ProjectInv, NEW t \in Tasks, MarkError(t), task[t].do = "sweep",
           live' \subseteq live, moved' \subseteq live', stray \cap live' \subseteq stray',
           UNCHANGED <<moved, referral, asked>>
    PROVE  ProjectInv'
  <1>1. /\ task[t].snap \in Rows /\ task[t].snap.attempts \in 0 .. MaxAttempts
        /\ task[t].snap.attempts < MaxAttempts /\ row \in Rows /\ Finish(t)
    BY DEF ProjectInv, HandlersOK, Handler, Carried, RowOK, Rows, MarkError
  <1>2. PICK n : n = task[t].snap.attempts + 1 /\ n \in 0 .. MaxAttempts
    BY <1>1, PaidConstants
  <1>3. RowOK(row', asked') /\ row'.ref = row.ref
    <2>1. CASE row.ref = None
      BY <2>1 DEF MarkError, ProjectInv
    <2>2. CASE row.ref # None
      <3> DEFINE founder == row.founder \/ n >= MaxAttempts
                 new == [row EXCEPT !.attempts = n, !.founder = founder]
      <3>1. row' = new
        BY <1>2, <2>2 DEF MarkError
      <3>2. founder \in BOOLEAN /\ (n = MaxAttempts => founder)
        <4>1. founder \in BOOLEAN
          BY Zenon
        <4>2. n = MaxAttempts => n >= MaxAttempts
          BY PaidConstants
        <4> QED  BY <4>1, <4>2, Zenon
      <3> HIDE DEF founder
      <3>3. /\ new \in Rows /\ new.ref = row.ref /\ new.attempts = n
            /\ new.founder = founder /\ new.pending = row.pending
        BY <1>1, <1>2, <3>2 DEF Rows
      <3> HIDE DEF new
      <3> QED  BY <3>1, <3>2, <3>3 DEF ProjectInv, RowOK
    <2> QED  BY <2>1, <2>2
  <1>4. ~Is(t, {"provision"}, "record")
    BY DEF Is
  <1> QED  BY <1>1, <1>3, <1>4, HandlerLeaves

LEMMA VerifyOK == ASSUME ProjectInv, NEW t \in Tasks, Verify(t) PROVE ProjectInv'
  <1>1. /\ task[t].do = "sweep" /\ task[t].at = "verify"
        /\ UNCHANGED <<live, moved, referral, asked, stray>>
        /\ task[t] \in Handler /\ Carried(task[t], asked, live)
    BY DEF Verify, Is, unchangedOutside, rewardVars, ProjectInv, HandlersOK
  <1>2. referral' \in {"none", "pending", "rewarded", "credited"} /\ ~Is(t, {"provision"}, "record")
    BY <1>1 DEF ProjectInv, Is
  <1>3. CASE MarkError(t)
    BY <1>1, <1>3, MarkErrorOK DEF ProjectInv
  <1>4. CASE Finish(t) /\ row' = row
    BY <1>1, <1>2, <1>4, QuietEnds
  <1>5. CASE Goto(t, "delete") /\ row' = row
    <2> DEFINE new == [task[t] EXCEPT !.at = "delete"]
    <2>1. /\ new \in Handler /\ new.at = "delete" /\ new.do = task[t].do
          /\ new.snap = task[t].snap
      BY <1>1 DEF Handler, Places
    <2>2. task' = [task EXCEPT ![t] = new]
      BY <1>5 DEF Goto
    <2> HIDE DEF new
    <2>3. Carried(new, asked', live)
      BY <1>1, <2>1 DEF Carried
    <2> QED  BY <1>1, <1>2, <1>5, <2>1, <2>2, <2>3, HandlerMoves
  <1> QED  BY <1>3, <1>4, <1>5 DEF Verify

LEMMA DeleteProjectOK == ASSUME ProjectInv, NEW t \in Tasks, DeleteProject(t) PROVE ProjectInv'
  <1>1. /\ task[t].do \in {"sweep", "destroy"} /\ task[t].at = "delete"
        /\ UNCHANGED <<moved, referral, asked>>
        /\ task[t] \in Handler /\ task[t].snap \in Rows
    BY DEF DeleteProject, Is, unchangedOutside, rewardVars, ProjectInv, HandlersOK, Handler
  <1>2. referral' \in {"none", "pending", "rewarded", "credited"} /\ ~Is(t, {"provision"}, "record")
    BY <1>1 DEF ProjectInv, Is
  <1>3. CASE NotDeleted(t)
    <2>1. \/ UNCHANGED <<live, stray>>
          \/ /\ task[t].snap.ref \in live \ moved
             /\ live' = live \ {task[t].snap.ref} /\ stray' = stray \ {task[t].snap.ref}
      BY <1>1, <1>3 DEF DeleteProject, NotDeleted, MarkError, Finish
    <2>2. live' \subseteq live /\ moved' \subseteq live' /\ stray \cap live' \subseteq stray'
      BY <1>1, <2>1 DEF ProjectInv
    <2>3. CASE task[t].do = "sweep"
      BY <1>1, <1>3, <2>2, <2>3, MarkErrorOK DEF NotDeleted
    <2>4. CASE task[t].do # "sweep"
      <3>1. Finish(t) /\ row' = row /\ RowOK(row', asked')
        BY <1>1, <1>3, <2>4 DEF NotDeleted, ProjectInv
      <3> QED  BY <1>1, <1>2, <2>2, <3>1, HandlerLeaves
    <2> QED  BY <2>3, <2>4
  <1>5. CASE /\ task[t].snap.ref \in live \ moved
             /\ live' = live \ {task[t].snap.ref} /\ stray' = stray \ {task[t].snap.ref}
             /\ task' = [task EXCEPT ![t].at = "clear", ![t].snap.policy = None,
                                     ![t].snap.copy = "none"]
             /\ row' = row
    <2> DEFINE new == [task[t] EXCEPT !.at = "clear", !.snap.policy = None,
                                      !.snap.copy = "none"]
    <2>1. /\ new \in Handler /\ new.at = "clear" /\ new.do = task[t].do
          /\ new.snap.ref = task[t].snap.ref /\ new.snap.attempts = task[t].snap.attempts
      BY <1>1 DEF Handler, Places, Rows, Policy, Copies
    <2>2. task' = [task EXCEPT ![t] = new]
      BY <1>5
    <2> HIDE DEF new
    <2>3. Carried(task[t], asked, live)
      BY DEF ProjectInv, HandlersOK
    <2>4. Carried(new, asked', live')
      BY <1>1, <1>5, <2>1, <2>3 DEF Carried
    <2>5. RowOK(row', asked') /\ moved' \subseteq live'
      BY <1>1, <1>5 DEF ProjectInv
    <2> QED  BY <1>1, <1>2, <1>5, <2>1, <2>2, <2>4, <2>5, HandlerStep
  <1> QED  BY <1>3, <1>5 DEF DeleteProject

LEMMA ClearRowOK == ASSUME ProjectInv, NEW t \in Tasks, ClearRow(t) PROVE ProjectInv'
  <1>1. /\ task[t].do \in {"sweep", "destroy"} /\ task[t].at = "clear"
        /\ UNCHANGED <<live, moved, referral, asked>>
        /\ Carried(task[t], asked, live)
    BY DEF ClearRow, Is, unchangedOutside, rewardVars, ProjectInv, HandlersOK
  <1>2. CASE MarkError(t) /\ task[t].do = "sweep" /\ stray' = stray
    BY <1>1, <1>2, MarkErrorOK DEF ProjectInv
  <1>3. CASE /\ row' = NoRow /\ Finish(t)
             /\ stray' = IF row.ref \in {None, task[t].snap.ref} THEN stray
                         ELSE stray \cup {row.ref}
    <2>1. RowOK(row', asked')
      BY <1>3, IdleOK, PaidConstants DEF RowOK
    <2>2. row.ref \in {None} \cup stray' \/ row.ref \notin live
      BY <1>1, <1>3 DEF Carried
    <2>3. ~Is(t, {"provision"}, "record") /\ stray \subseteq stray'
      BY <1>1, <1>3 DEF Is
    <2> QED  BY <1>1, <1>3, <2>1, <2>2, <2>3, HandlerEnds
  <1> QED  BY <1>2, <1>3 DEF ClearRow

LEMMA MovesOK ==
    ASSUME ProjectInv, NEW t \in Tasks, MoveProject(t) \/ MarkMoved(t)
    PROVE  ProjectInv'
  <1>1. /\ task[t].do = "transfer" /\ UNCHANGED <<live, referral, asked, stray>>
        /\ task[t] \in Handler
    BY DEF MoveProject, MarkMoved, Is, unchangedOutside, rewardVars, ProjectInv, HandlersOK
  <1>2. referral' \in {"none", "pending", "rewarded", "credited"} /\ ~Is(t, {"provision"}, "record")
    BY <1>1 DEF ProjectInv, Is
  <1>3. CASE MoveProject(t) /\ Finish(t)
    <2>1. /\ row' = row /\ RowOK(row', asked') /\ moved' \subseteq live'
          /\ live' \ moved' \subseteq live \ moved
      BY <1>1, <1>3 DEF MoveProject, ProjectInv
    <2> QED  BY <1>1, <1>2, <1>3, <2>1, HandlerLeaves
  <1>4. CASE MoveProject(t) /\ Goto(t, "moved")
    <2> DEFINE new == [task[t] EXCEPT !.at = "moved"]
    <2>1. new \in Handler /\ new.at = "moved" /\ new.do = task[t].do
      BY <1>1 DEF Handler, Places
    <2>2. task' = [task EXCEPT ![t] = new]
      BY <1>4 DEF Goto
    <2> HIDE DEF new
    <2>3. Carried(new, asked', live')
      BY <1>1, <2>1 DEF Carried
    <2>4. /\ row' = row /\ RowOK(row', asked') /\ moved \subseteq moved' /\ moved' \subseteq live'
      BY <1>1, <1>4 DEF MoveProject, ProjectInv
    <2> QED  BY <1>1, <1>2, <2>1, <2>2, <2>3, <2>4, HandlerStep
  <1>5. CASE MarkMoved(t)
    <2>1. Finish(t) /\ moved' = moved
      BY <1>5 DEF MarkMoved
    <2>2. RowOK(row', asked') /\ row'.ref = row.ref
      <3> DEFINE new == [row EXCEPT !.moved = TRUE]
      <3>1. row \in Rows
        BY DEF ProjectInv, RowOK
      <3>2. /\ new \in Rows /\ new.ref = row.ref /\ new.pending = row.pending
            /\ new.attempts = row.attempts /\ new.founder = row.founder
        BY <3>1 DEF Rows
      <3>3. row' = row \/ row' = new
        BY <1>5 DEF MarkMoved
      <3> HIDE DEF new
      <3> QED  BY <1>1, <3>2, <3>3 DEF ProjectInv, RowOK
    <2> QED  BY <1>1, <1>2, <2>1, <2>2, HandlerEnds
  <1> QED  BY <1>3, <1>4, <1>5 DEF MoveProject

\* A new project is nobody's yet, and nobody has asked anything of it.
LEMMA CreateProjectOK == ASSUME ProjectInv, NEW t \in Tasks, CreateProject(t) PROVE ProjectInv'
  <1>1. /\ task[t].do = "provision" /\ task[t].at = "create" /\ UNCHANGED <<row, moved, referral>>
        /\ task \in [Tasks -> Handler] /\ task[t].snap \in Rows
    BY DEF CreateProject, Is, unchangedOutside, rewardVars, ProjectInv, HandlersOK, Handler
  <1>2. CASE Finish(t) /\ UNCHANGED <<live, asked, stray>>
    <2>1. ~Is(t, {"provision"}, "record")
      BY <1>1 DEF Is
    <2>2. referral' \in {"none", "pending", "rewarded", "credited"}
      BY <1>1 DEF ProjectInv
    <2> QED  BY <1>1, <1>2, <2>1, <2>2, QuietEnds
  <1>3. ASSUME NEW ref \in Refs, New(ref), asked' = asked \ {ref}, live' = live \cup {ref},
               \/ /\ task' = [task EXCEPT ![t].at = "record", ![t].snap.ref = ref]
                  /\ stray' = stray
               \/ Finish(t) /\ stray' = stray \cup {ref}
        PROVE  ProjectInv'
    <2>1. PICK new \in Handler :
             /\ task' = [task EXCEPT ![t] = new]
             /\ \/ new = Idle /\ stray' = stray \cup {ref}
                \/ /\ new.do = "provision" /\ new.at = "record" /\ new.snap.ref = ref
                   /\ stray' = stray
      <3>1. CASE Finish(t) /\ stray' = stray \cup {ref}
        BY <3>1, IdleOK DEF Finish
      <3>2. CASE /\ task' = [task EXCEPT ![t].at = "record", ![t].snap.ref = ref]
                 /\ stray' = stray
        <4> DEFINE new == [task[t] EXCEPT !.at = "record", !.snap.ref = ref]
        <4>1. /\ new \in Handler /\ new.do = "provision" /\ new.at = "record"
              /\ new.snap.ref = ref
          BY <1>1 DEF Handler, Places, Rows
        <4>2. task' = [task EXCEPT ![t] = new]
          BY <3>2
        <4> HIDE DEF new
        <4> QED  BY <3>2, <4>1, <4>2
      <3> QED  BY <1>3, <3>1, <3>2
    <2>2. /\ ref \notin live /\ ref \notin stray /\ ref # row.ref
          /\ \A u \in Tasks : task[u].snap.ref # ref
      BY <1>3 DEF New
    <2>3. \A u \in Tasks : task'[u] = IF u = t THEN new ELSE task[u]
      BY <1>1, <2>1
    <2>4. ASSUME NEW u \in Tasks PROVE Carried(task'[u], asked', live')
      <3>1. CASE u = t
        BY <1>3, <2>1, <2>3, <3>1, IdleOK DEF Carried
      <3>2. CASE u # t
        BY <1>3, <2>2, <2>3, <3>2 DEF Carried, ProjectInv, HandlersOK
      <3> QED  BY <3>1, <3>2
    <2>5. HandlersOK(task', asked', live')
      BY <1>1, <2>1, <2>4 DEF HandlersOK
    <2>6. RowOK(row', asked') /\ live' \subseteq Refs /\ moved' \subseteq live'
          /\ referral' \in {"none", "pending", "rewarded", "credited"}
      BY <1>1, <1>3, <2>2 DEF ProjectInv, RowOK
    <2>7. NoOrphan'
      <3> SUFFICES ASSUME NEW old \in live' \ moved'
                   PROVE  \/ row'.ref = old \/ old \in stray'
                          \/ \E u \in Tasks : task'[u].at = "record" /\ task'[u].snap.ref = old
        BY DEF NoOrphan
      <3>1. CASE old = ref
        BY <2>1, <2>3, <3>1
      <3>2. CASE old # ref
        <4>1. \/ row.ref = old \/ old \in stray
              \/ \E u \in Tasks : task[u].at = "record" /\ task[u].snap.ref = old
          BY <1>1, <1>3, <3>2 DEF ProjectInv, NoOrphan
        <4> QED  BY <1>1, <2>1, <2>3, <4>1
      <3> QED  BY <3>1, <3>2
    <2> QED  BY <2>5, <2>6, <2>7 DEF ProjectInv
  <1> QED  BY <1>2, <1>3 DEF CreateProject

LEMMA HandlerDies == ASSUME ProjectInv, NEW t \in Tasks, Crash(t) PROVE ProjectInv'
  <1>1. /\ Finish(t) /\ UNCHANGED <<row, live, moved, referral, asked>>
        /\ stray \subseteq stray'
        /\ Is(t, {"provision"}, "record") => task[t].snap.ref \in stray'
    BY DEF Crash, Is
  <1>2. RowOK(row', asked')
    BY <1>1 DEF ProjectInv
  <1> QED  BY <1>1, <1>2, HandlerEnds

LEMMA OthersOK ==
    ASSUME ProjectInv, \/ \E s \in Sessions : OpenCheckout(s) \/ Pay(s) \/ Unsubscribe(s)
                       \/ Rearm \/ GraceOver
    PROVE  ProjectInv'
  <1>1. UNCHANGED <<task, live, moved, referral, asked, stray>>
    BY DEF OpenCheckout, Pay, Unsubscribe, Rearm, GraceOver, projectVars, rewardVars,
           unchangedOutside
  <1>2. RowOK(row', asked') /\ row'.ref = row.ref
    <2>1. row \in Rows
      BY DEF ProjectInv, RowOK
    <2> DEFINE r1 == [row EXCEPT !.founder = FALSE, !.attempts = 0]
               r2 == [row EXCEPT !.over = TRUE]
    <2>2. /\ r1 \in Rows /\ r1.ref = row.ref /\ r1.pending = row.pending /\ r1.attempts = 0
          /\ r2 \in Rows /\ r2.ref = row.ref /\ r2.pending = row.pending
          /\ r2.attempts = row.attempts /\ r2.founder = row.founder
      <3>1. 0 \in 0 .. MaxAttempts
        BY PaidConstants
      <3>2. r1 \in Rows /\ r1.ref = row.ref /\ r1.pending = row.pending /\ r1.attempts = 0
        BY <2>1, <3>1 DEF Rows
      <3>3. /\ r2 \in Rows /\ r2.ref = row.ref /\ r2.pending = row.pending
            /\ r2.attempts = row.attempts /\ r2.founder = row.founder
        BY <2>1 DEF Rows
      <3> QED  BY <3>2, <3>3
    <2>3. row' \in {row, r1, r2}
      BY DEF OpenCheckout, Pay, Unsubscribe, Rearm, GraceOver, projectVars
    <2> HIDE DEF r1, r2
    <2> QED  BY <1>1, <2>2, <2>3, PaidConstants DEF ProjectInv, RowOK
  <1> QED  BY <1>1, <1>2 DEF ProjectInv, NoOrphan

LEMMA ProjectStart == Init => ProjectInv
  <1> SUFFICES ASSUME Init PROVE ProjectInv
    OBVIOUS
  <1>1. RowOK(row, asked)
    BY IdleOK, PaidConstants DEF Init, RowOK
  <1>2. HandlersOK(task, asked, live)
    <2>1. \A t \in Tasks : task[t] = Idle
      BY DEF Init
    <2>2. task \in [Tasks -> Handler]
      BY IdleOK DEF Init
    <2> QED  BY <2>1, <2>2, IdleOK DEF HandlersOK, Carried
  <1> QED  BY <1>1, <1>2 DEF Init, ProjectInv, NoOrphan

LEMMA ProjectStep == ProjectInv /\ [Next]_vars => ProjectInv'
  <1> SUFFICES ASSUME ProjectInv, [Next]_vars PROVE ProjectInv'
    OBVIOUS
  <1>1. CASE \/ \E s \in Sessions : OpenCheckout(s) \/ Pay(s) \/ Unsubscribe(s)
             \/ Rearm \/ GraceOver
    BY <1>1, OthersOK
  <1>2. ASSUME NEW t \in Tasks, Request(t) \/ Sweep(t) PROVE ProjectInv'
    <2>1. \/ \E s \in Sessions : Completed(t, s) \/ Ended(t, s) \/ Poll(t, s)
          \/ Provision(t) \/ Downgrade(t) \/ Transfer(t) \/ Destroy(t) \/ Sweep(t)
      BY <1>2 DEF Request
    <2> QED  BY <2>1, UserRequests, ProjectRequests
  <1>3. ASSUME NEW t \in Tasks, Proceed(t) PROVE ProjectInv'
    BY <1>3, UserMoves, CreateProjectOK, RecordOK, DowngradeSteps, MarkPendingOK, MovesOK,
       VerifyOK, DeleteProjectOK, ClearRowOK DEF Proceed
  <1>4. ASSUME NEW t \in Tasks, Crash(t) PROVE ProjectInv'
    BY <1>4, HandlerDies
  <1>5. CASE UNCHANGED vars
    BY <1>5 DEF vars, projectVars, rewardVars, ProjectInv, NoOrphan
  <1> QED  BY <1>1, <1>2, <1>3, <1>4, <1>5 DEF Next

\* The user, the row and the projects keep their types; a row whose attempts
\* are used up waits for the founder (_mark_error).
THEOREM TypeSafety == Spec => []TypeOK
  <1>1. IInv /\ ProjectInv => TypeOK
    BY DEF IInv, PlanInv, ProjectInv, RowOK, Rows, Policy, Copies, TypeOK
  <1> QED  BY <1>1, Initially, Inductive, ProjectStart, ProjectStep, PTL DEF Spec

\* Whatever handlers overlap, fail or die: a project that is billed is named by
\* the row, or is on its way there, or was lost by a handler that died, lost
\* Supabase's answer, or had looked at the row before.
THEOREM OrphanSafety == Spec => []NoOrphan
  <1>1. ProjectInv => NoOrphan
    BY DEF ProjectInv
  <1> QED  BY <1>1, ProjectStart, ProjectStep, PTL DEF Spec

\* sweep_once deletes no project that no downgrade was asked for.
THEOREM SweepSafety == Spec => SweptWasAsked
  <1> DEFINE Asked == \A t \in Tasks : SweepDeletes(t) => task[t].snap.ref \in asked
  <1>1. ProjectInv => Asked
    BY DEF ProjectInv, HandlersOK, Carried, Is, SweepDeletes
  <1>2. Spec => [][Asked]_vars
    <2>1. ProjectInv /\ [Next]_vars => [Asked]_vars
      BY <1>1
    <2> QED  BY <2>1, ProjectStart, ProjectStep, PTL DEF Spec
  <1> QED  BY <1>2 DEF SweptWasAsked

=============================================================================

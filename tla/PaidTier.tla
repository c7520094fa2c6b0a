------------------------------ MODULE PaidTier ------------------------------
(***************************************************************************)
(* One user who subscribes through Stripe, and the dedicated Supabase      *)
(* project that the paid tier buys for one app: checkout, webhook and      *)
(* poll, the referral reward, provision, downgrade, transfer and destroy,  *)
(* and the sweeper that deletes the project when its grace period is over. *)
(*                                                                         *)
(* Every await of a handler is a point where the others run; Tasks bounds  *)
(* how many are under way.  Stripe delivers events at least once and in    *)
(* any order.  Abstracted: the rows that are copied (what the copy reports *)
(* is kept), the background copy into a new project, the storage_tier      *)
(* marker, which nothing reads, and the names of plans.                    *)
(***************************************************************************)
EXTENDS Integers, FiniteSets

CONSTANTS Tasks,        \* handlers under way at the same time
          Sessions,     \* checkout sessions: each a plan and its subscription
          Refs,         \* Supabase projects
          None,
          Requests,     \* bound: kinds of requests that arrive
          Referred,     \* somebody brought this user
          Policies,     \* policies a downgrade may be asked for
          Default,      \* SUPABASE_DOWNGRADE_POLICY
          MaxAttempts,  \* MAX_SWEEP_ATTEMPTS
          MaxFaults     \* bound: crashes, failed calls and failed writes

ASSUME PaidConstants == MaxAttempts \in Nat \ {0} /\ None \notin Refs

VARIABLES sub,       \* Stripe: state of each session's subscription
          ended,     \* Stripe: delivery of each customer.subscription.deleted
          pay,       \* cto_payments.payment_status of each session
          tier,      \* dev_users.tier: the session whose plan it is, None if free
          subId,     \* dev_users.stripe_sub_id
          referral,  \* status of the referral that brought this user
          row,       \* supabase_projects
          live,      \* Supabase: projects that exist
          moved,     \* Supabase: projects that were transferred to the user
          task,
          faults,
          late,      \* ghost: the plan was granted after its end had been handled
          rewards,   \* ghost: 30-day extensions of the referrer
          slip,      \* ghost: a reward was cut short, or overlapped another
          asked,     \* ghost: projects a downgrade was asked for, or that took
                     \* the place of one while its downgrade ran
          stray      \* ghost: lost by a crash, or by two handlers at once

stripeVars == <<sub, ended>>
userVars == <<pay, tier, subId>>
rewardVars == <<referral, rewards, slip>>
projectVars == <<row, live, moved, asked, stray>>
vars == <<stripeVars, userVars, rewardVars, projectVars, task, faults, late>>

NoRow == [ref |-> None, pending |-> FALSE, policy |-> None, over |-> FALSE,
          copy |-> "none", attempts |-> 0, founder |-> FALSE, moved |-> FALSE]
Idle == [do |-> "idle", at |-> "idle", s |-> None, ok |-> FALSE, policy |-> None,
         copy |-> "none", snap |-> NoRow]

Init ==
    /\ sub = [s \in Sessions |-> "none"]
    /\ ended = [s \in Sessions |-> "none"]
    /\ pay = [s \in Sessions |-> "none"]
    /\ tier = None /\ subId = None
    /\ referral = (IF Referred THEN "pending" ELSE "none") /\ rewards = 0 /\ slip = FALSE
    /\ row = NoRow /\ live = {} /\ moved = {}
    /\ asked = {} /\ stray = {}
    /\ task = [t \in Tasks |-> Idle]
    /\ faults = 0 /\ late = FALSE

Fault == faults < MaxFaults /\ faults' = faults + 1
NoFault == UNCHANGED faults

Is(t, do, at) == task[t].do \in do /\ task[t].at = at
Begin(t, new) == task[t] = Idle /\ task' = [task EXCEPT ![t] = new]
Goto(t, at) == task' = [task EXCEPT ![t].at = at]
Finish(t) == task' = [task EXCEPT ![t] = Idle]
Others(t, at) == \E u \in Tasks \ {t} : task[u].at \in at

-----------------------------------------------------------------------------
(* Stripe *)

OpenCheckout(s) ==
    /\ pay[s] = "none"
    /\ pay' = [pay EXCEPT ![s] = "pending"]
    /\ UNCHANGED <<stripeVars, tier, subId, rewardVars, projectVars, task, faults, late>>

Pay(s) ==
    /\ pay[s] # "none" /\ sub[s] = "none"
    /\ sub' = [sub EXCEPT ![s] = "active"]
    /\ UNCHANGED <<ended, userVars, rewardVars, projectVars, task, faults, late>>

Unsubscribe(s) ==
    /\ sub[s] = "active"
    /\ sub' = [sub EXCEPT ![s] = "ended"]
    /\ ended' = [ended EXCEPT ![s] = "due"]
    /\ UNCHANGED <<userVars, rewardVars, projectVars, task, faults, late>>

-----------------------------------------------------------------------------
(* stripe_webhook, payment_status *)

HasReset(t, s) ==
    /\ task[t].do = "ended" /\ task[t].s = s
    /\ task[t].at \in {"project", "copy", "marker"}

Grant(s) ==
    /\ tier' = s /\ subId' = s
    /\ late' = (ended[s] = "done" \/ \E t \in Tasks : HasReset(t, s))

\* checkout.session.completed, perhaps not for the first time
Completed(t, s) ==
    /\ sub[s] # "none"
    /\ Begin(t, [Idle EXCEPT !.do = "completed", !.at = "referral", !.s = s])
    /\ Grant(s)
    /\ UNCHANGED <<stripeVars, pay, rewardVars, projectVars, faults>>

Overlaps(t) == slip \/ Others(t, {"extend", "rewarded"})

\* Variant: the referral is looked up by its user only.
ReadReferralAny(t) ==
    /\ Is(t, {"completed"}, "referral")
    /\ Goto(t, "extend") /\ slip' = Overlaps(t)
    /\ UNCHANGED <<stripeVars, userVars, referral, rewards, projectVars, faults, late>>

ReadReferral(t) ==
    /\ Is(t, {"completed"}, "referral")
    /\ IF referral = "pending"
       THEN Goto(t, "extend") /\ slip' = Overlaps(t)
       ELSE Finish(t) /\ UNCHANGED slip
    /\ UNCHANGED <<stripeVars, userVars, referral, rewards, projectVars, faults, late>>

\* grant_referral_reward moves the referrer's renewal date at Stripe (a referrer
\* without a subscription is credited a month instead); an exception, before
\* Stripe took the call or after it, ends it with the referral still pending ...
ExtendReferrer(t) ==
    /\ Is(t, {"completed"}, "extend")
    /\ \/ rewards' = rewards + 1 /\ Goto(t, "rewarded") /\ NoFault
          /\ UNCHANGED <<referral, slip>>
       \/ rewards' = rewards + 1 /\ Finish(t) /\ Fault
          /\ slip' = TRUE /\ UNCHANGED referral
       \/ Fault /\ Finish(t) /\ UNCHANGED <<rewards, referral, slip>>
       \/ referral' = "credited" /\ Finish(t) /\ NoFault /\ UNCHANGED <<rewards, slip>>
    /\ UNCHANGED <<stripeVars, userVars, projectVars, late>>

\* ... and then writes that it did; a failed write is logged.
MarkRewarded(t) ==
    /\ Is(t, {"completed"}, "rewarded")
    /\ \/ referral' = "rewarded" /\ NoFault /\ UNCHANGED slip
       \/ Fault /\ slip' = TRUE /\ UNCHANGED referral
    /\ Finish(t)
    /\ UNCHANGED <<stripeVars, userVars, rewards, projectVars, late>>

\* customer.subscription.deleted: the user is looked up ...
Ended(t, s) ==
    /\ ended[s] # "none"
    /\ Begin(t, [Idle EXCEPT !.do = "ended", !.at = "reset", !.s = s, !.ok = subId = s])
    /\ UNCHANGED <<stripeVars, userVars, rewardVars, projectVars, faults, late>>

\* Variant: the subscription is taken off the user, the tier stays.
ResetSubscription(t) ==
    /\ Is(t, {"ended"}, "reset")
    /\ subId' = IF subId = task[t].s THEN None ELSE subId
    /\ IF task[t].ok THEN Goto(t, "project") /\ UNCHANGED ended
                     ELSE Finish(t) /\ ended' = [ended EXCEPT ![task[t].s] = "done"]
    /\ UNCHANGED <<sub, pay, tier, rewardVars, projectVars, faults, late>>

\* ... whoever has the subscription now becomes free, and if a user was found
\* the project of that user is downgraded.
ResetTier(t) ==
    /\ Is(t, {"ended"}, "reset")
    /\ IF subId = task[t].s
       THEN tier' = None /\ subId' = None /\ late' = FALSE
       ELSE UNCHANGED <<tier, subId, late>>
    /\ IF task[t].ok THEN Goto(t, "project") /\ UNCHANGED ended
                     ELSE Finish(t) /\ ended' = [ended EXCEPT ![task[t].s] = "done"]
    /\ UNCHANGED <<sub, pay, rewardVars, projectVars, faults>>

\* The browser asks after its checkout.
Poll(t, s) ==
    /\ pay[s] # "none"
    /\ Begin(t, [Idle EXCEPT !.do = "poll", !.at = "grant", !.s = s, !.ok = pay[s] # "paid"])
    /\ UNCHANGED <<stripeVars, userVars, rewardVars, projectVars, faults, late>>

\* A session that was paid stays paid, whatever became of its subscription.
PollGrants(t) ==
    LET s == task[t].s IN
    /\ Is(t, {"poll"}, "grant")
    /\ IF sub[s] # "none" /\ task[t].ok
       THEN Grant(s) ELSE UNCHANGED <<tier, subId, late>>
    /\ IF sub[s] # "none" THEN Goto(t, "record") ELSE Finish(t)
    /\ UNCHANGED <<stripeVars, pay, rewardVars, projectVars, faults>>

PollRecords(t) ==
    /\ Is(t, {"poll"}, "record")
    /\ pay' = [pay EXCEPT ![task[t].s] = "paid"]
    /\ Finish(t)
    /\ UNCHANGED <<stripeVars, tier, subId, rewardVars, projectVars, faults, late>>

-----------------------------------------------------------------------------
(* routers/supabase.py *)

unchangedOutside == UNCHANGED <<sub, userVars, rewardVars, late>>

\* Past the tier's gate and the look for an existing project.
Provision(t) ==
    /\ tier # None /\ row.ref = None
    /\ Begin(t, [Idle EXCEPT !.do = "provision", !.at = "create"])
    /\ UNCHANGED <<ended, projectVars, faults>> /\ unchangedOutside

New(ref) == ref \notin live \cup stray \cup {row.ref} \cup {task[u].snap.ref : u \in Tasks}

\* create_project: it answers with a new project, or the answer is lost, or
\* nothing was created.
CreateProject(t) ==
    /\ Is(t, {"provision"}, "create")
    /\ \/ \E ref \in Refs :
             /\ New(ref) /\ asked' = asked \ {ref}
             /\ live' = live \cup {ref}
             /\ \/ /\ task' = [task EXCEPT ![t].at = "record", ![t].snap.ref = ref]
                   /\ NoFault /\ UNCHANGED stray
                \/ Finish(t) /\ Fault /\ stray' = stray \cup {ref}
       \/ Finish(t) /\ UNCHANGED <<live, asked, stray, faults>>
    /\ UNCHANGED <<ended, row, moved>> /\ unchangedOutside

\* The upsert by app: it keeps what else an existing row says.
RecordProject(t) ==
    /\ Is(t, {"provision"}, "record")
    /\ row' = [row EXCEPT !.ref = task[t].snap.ref]
    /\ stray' = IF row.ref = None THEN stray ELSE stray \cup {row.ref}
    /\ asked' = IF row.pending /\ row.ref # None THEN asked \cup {task[t].snap.ref} ELSE asked
    /\ Finish(t)
    /\ UNCHANGED <<ended, live, moved, faults>>
    /\ unchangedOutside

\* POST downgrade with a policy of the caller's choice
Downgrade(t) ==
    /\ \E p \in Policies :
          Begin(t, [Idle EXCEPT !.do = "downgrade", !.at = "project", !.policy = p])
    /\ UNCHANGED <<ended, projectVars, faults>> /\ unchangedOutside

Downgrades == {"downgrade", "ended"}
EndDowngrade(t) ==
    /\ Finish(t)
    /\ ended' = IF task[t].do = "ended" THEN [ended EXCEPT ![task[t].s] = "done"] ELSE ended

\* apply_downgrade: the project, ...
ReadProject(t) ==
    LET p == IF task[t].do = "ended" THEN Default ELSE task[t].policy IN
    /\ Is(t, Downgrades, "project")
    /\ IF row.ref = None
       THEN EndDowngrade(t) /\ UNCHANGED asked
       ELSE /\ task' = [task EXCEPT ![t].at = IF p = "migrate_back" THEN "copy" ELSE "marker",
                                    ![t].policy = p, ![t].snap.ref = row.ref]
            /\ asked' = asked \cup {row.ref}
            /\ UNCHANGED ended
    /\ UNCHANGED <<row, live, moved, stray, faults>> /\ unchangedOutside

\* ... under migrate_back the copy into the shared Mongo, whose failures are
\* part of its result (the tables cannot be listed, or some cannot be read)
\* or an exception that ends the downgrade, ...
CopyBack(t) ==
    LET Result(c) == task' = [task EXCEPT ![t].at = "marker", ![t].copy = c] /\ UNCHANGED ended
        there == task[t].snap.ref \in live \ moved
    IN /\ Is(t, Downgrades, "copy")
       /\ \/ there /\ (Result("rows") \/ Result("empty")) /\ NoFault
          \/ there /\ Result("partial") /\ Fault
          \/ Result("failed") /\ IF there THEN Fault ELSE NoFault
          \/ EndDowngrade(t) /\ Fault
       /\ UNCHANGED <<row, live, moved, asked, stray>> /\ unchangedOutside

\* ... and the marker on whatever row the app has by then.  (The result of an
\* earlier copy stays in the row, but only migrate_back reads it.)
MarkPending(t) ==
    /\ Is(t, Downgrades, "marker")
    /\ IF row.ref = None THEN UNCHANGED <<row, asked>>
       ELSE /\ row' = [row EXCEPT !.pending = TRUE, !.policy = task[t].policy,
                                  !.over = task[t].policy = "keep_bill_user",
                                  !.copy = task[t].copy]
            /\ asked' = asked \cup {row.ref}
    /\ EndDowngrade(t)
    /\ UNCHANGED <<live, moved, stray, faults>> /\ unchangedOutside

Transfer(t) ==
    /\ tier # None /\ row.ref # None /\ ~row.moved
    /\ Begin(t, [Idle EXCEPT !.do = "transfer", !.at = "move", !.snap.ref = row.ref])
    /\ UNCHANGED <<ended, projectVars, faults>> /\ unchangedOutside

\* Supabase moves the project, and its answer may be lost, or it does not.
MoveProject(t) ==
    LET ref == task[t].snap.ref IN
    /\ Is(t, {"transfer"}, "move")
    /\ \/ /\ ref \in live /\ moved' = moved \cup {ref}
          /\ \/ Goto(t, "moved") /\ NoFault
             \/ Finish(t) /\ Fault
       \/ ref \in live /\ UNCHANGED moved /\ Finish(t) /\ Fault
       \/ ref \notin live /\ UNCHANGED moved /\ Finish(t) /\ NoFault
    /\ UNCHANGED <<ended, row, live, asked, stray>> /\ unchangedOutside

MarkMoved(t) ==
    /\ Is(t, {"transfer"}, "moved")
    /\ row' = IF row.ref = None THEN row ELSE [row EXCEPT !.moved = TRUE]
    /\ Finish(t)
    /\ UNCHANGED <<ended, live, moved, asked, stray, faults>>
    /\ unchangedOutside

\* The founder deletes the project at once.
Destroy(t) ==
    /\ row.ref # None
    /\ Begin(t, [Idle EXCEPT !.do = "destroy", !.at = "delete", !.snap.ref = row.ref])
    /\ UNCHANGED <<ended, projectVars, faults>> /\ unchangedOutside

Rearm ==
    /\ row.founder
    /\ row' = [row EXCEPT !.founder = FALSE, !.attempts = 0]
    /\ UNCHANGED <<ended, live, moved, asked, stray, task, faults>>
    /\ unchangedOutside

-----------------------------------------------------------------------------
(* supabase_sweeper.py *)

Due == row.pending /\ row.over /\ ~row.founder

Sweep(t) ==
    /\ Due
    /\ Begin(t, [Idle EXCEPT !.do = "sweep", !.at = "verify",
                          !.snap = [row EXCEPT !.moved = FALSE]])
    /\ UNCHANGED <<ended, projectVars, faults>> /\ unchangedOutside

\* Variant: one attempt more before the founder is asked.
MarkErrorLate(t) ==
    LET n == task[t].snap.attempts + 1 IN
    /\ row' = IF row.ref = None THEN row
              ELSE [row EXCEPT !.attempts = n, !.founder = @ \/ n > MaxAttempts]
    /\ Finish(t)

\* _mark_error: back into the queue, or to the founder.
MarkError(t) ==
    LET n == task[t].snap.attempts + 1 IN
    /\ row' = IF row.ref = None THEN row
              ELSE [row EXCEPT !.attempts = n, !.founder = @ \/ n >= MaxAttempts]
    /\ Finish(t)

\* Is there at least one document where the copy claims to have written some?
\* The app's own documents are among them, and it deletes them when it likes.
\* Nothing writes the artifact that export_delete asks for.
Verify(t) ==
    LET x == task[t].snap
    IN /\ Is(t, {"sweep"}, "verify")
       /\ \/ x.policy = "keep_bill_user" /\ Finish(t) /\ UNCHANGED row
          \/ x.policy = "migrate_back" /\ x.copy \in {"rows", "partial"} /\ MarkError(t)
          \/ x.policy = "export_delete" /\ MarkError(t)
          \/ /\ x.policy \in {"read_only", "migrate_back"}
             /\ Goto(t, "delete") /\ UNCHANGED row
       /\ UNCHANGED <<ended, live, moved, asked, stray, faults>>
       /\ unchangedOutside

\* Variant: the row is cleared whatever Supabase answered.
DeleteUnchecked(t) ==
    /\ Is(t, {"sweep", "destroy"}, "delete")
    /\ \/ /\ task[t].snap.ref \in live \ moved
          /\ live' = live \ {task[t].snap.ref} /\ NoFault
       \/ UNCHANGED live /\ IF task[t].snap.ref \in live \ moved THEN Fault ELSE NoFault
    /\ Goto(t, "clear")
    /\ UNCHANGED <<ended, row, moved, asked, stray>> /\ unchangedOutside

NotDeleted(t) == IF task[t].do = "sweep" THEN MarkError(t) ELSE Finish(t) /\ UNCHANGED row

\* Supabase deletes the project, and its answer may be lost, or it does not;
\* it no longer obeys for a project that has moved to the user.
DeleteProject(t) ==
    LET ref == task[t].snap.ref IN
    /\ Is(t, {"sweep", "destroy"}, "delete")
    /\ \/ /\ ref \in live \ moved
          /\ live' = live \ {ref} /\ stray' = stray \ {ref}
          /\ \/ /\ task' = [task EXCEPT ![t].at = "clear", ![t].snap.policy = None,
                                        ![t].snap.copy = "none"]
                /\ NoFault /\ UNCHANGED row
             \/ NotDeleted(t) /\ Fault
       \/ /\ NotDeleted(t) /\ UNCHANGED <<live, stray>>
          /\ IF ref \in live \ moved THEN Fault ELSE NoFault
    /\ UNCHANGED <<ended, moved, asked>> /\ unchangedOutside

\* Variant: the row keeps what it says of its last downgrade.
ClearRef(t) ==
    /\ Is(t, {"sweep", "destroy"}, "clear")
    /\ row' = [row EXCEPT !.ref = None]
    /\ stray' = IF row.ref \in {None, task[t].snap.ref} THEN stray
                ELSE stray \cup {row.ref}
    /\ Finish(t)
    /\ UNCHANGED <<ended, live, moved, asked, faults>>
    /\ unchangedOutside

\* The history, and then delete_one by app: it takes whatever row is there.
ClearRow(t) ==
    /\ Is(t, {"sweep", "destroy"}, "clear")
    /\ \/ /\ row' = NoRow
          /\ stray' = IF row.ref \in {None, task[t].snap.ref} THEN stray
                      ELSE stray \cup {row.ref}
          /\ Finish(t) /\ NoFault
       \/ /\ task[t].do = "sweep" /\ Fault /\ MarkError(t)
          /\ UNCHANGED stray
    /\ UNCHANGED <<ended, live, moved, asked>> /\ unchangedOutside

-----------------------------------------------------------------------------
(* Time, the app, and the server. *)

GraceOver ==
    /\ row.pending /\ ~row.over
    /\ row' = [row EXCEPT !.over = TRUE]
    /\ UNCHANGED <<ended, live, moved, asked, stray, task, faults>>
    /\ unchangedOutside

Crash(t) ==
    /\ task[t] # Idle /\ Fault
    /\ Finish(t)
    /\ slip' = (slip \/ task[t].at = "rewarded")
    /\ stray' = IF task[t].at = "record" /\ task[t].do = "provision"
                THEN stray \cup {task[t].snap.ref} ELSE stray
    /\ UNCHANGED <<stripeVars, userVars, late, referral, rewards, row, live, moved,
                   asked>>

Proceed(t) ==
    \/ ReadReferral(t) \/ ExtendReferrer(t) \/ MarkRewarded(t) \/ ResetTier(t)
    \/ PollGrants(t) \/ PollRecords(t)
    \/ CreateProject(t) \/ RecordProject(t) \/ ReadProject(t) \/ CopyBack(t) \/ MarkPending(t)
    \/ MoveProject(t) \/ MarkMoved(t) \/ Verify(t) \/ DeleteProject(t) \/ ClearRow(t)

Request(t) ==
    /\ \/ \E s \in Sessions : Completed(t, s) \/ Ended(t, s) \/ Poll(t, s)
       \/ Provision(t) \/ Downgrade(t) \/ Transfer(t) \/ Destroy(t)
    /\ task'[t].do \in Requests

Next ==
    \/ \E s \in Sessions : OpenCheckout(s) \/ Pay(s) \/ Unsubscribe(s)
    \/ \E t \in Tasks : Request(t) \/ Sweep(t) \/ Proceed(t) \/ Crash(t)
    \/ Rearm \/ GraceOver

Spec == Init /\ [][Next]_vars

-----------------------------------------------------------------------------
\* Types of the user, the project's row and the handlers.
TypeOK ==
    /\ tier \in Sessions \cup {None} /\ subId \in Sessions \cup {None}
    /\ referral \in {"none", "pending", "rewarded", "credited"}
    /\ row \in [ref : Refs \cup {None}, pending : BOOLEAN, policy : Policies \cup {Default, None},
                over : BOOLEAN, copy : {"none", "rows", "empty", "partial", "failed"},
                attempts : 0 .. MaxAttempts, founder : BOOLEAN, moved : BOOLEAN]
    /\ live \subseteq Refs /\ moved \subseteq live
    /\ row.attempts = MaxAttempts => row.founder

\* A user keeps a paid tier beyond the end of its subscription only while
\* Stripe's event has not been handled to its end, or if the plan was granted
\* once more after that: by a late completed event or a late poll.
PaidIsBacked ==
    tier # None /\ sub[tier] = "ended" => ended[tier] = "due" \/ late

\* However often Stripe delivers, and whichever session completes, the
\* referrer is extended once, unless two deliveries overlapped or one was cut
\* off, or lost Stripe's answer, between the extension and its record.
RewardedOnce == rewards > 1 => slip

SweepDeletes(t) ==
    /\ Is(t, {"sweep"}, "delete") /\ task'[t] # task[t]
    /\ task[t].snap.ref \in live \ live'

\* The sweeper deletes no project that no downgrade was asked for: whatever
\* projects an app has had before, only a project that was recorded in the row
\* of another, or took its place while the downgrade ran, can be the wrong one.
SweptWasAsked ==
    [][\A t \in Tasks : SweepDeletes(t) => task[t].snap.ref \in asked]_vars

\* Every project that is billed is named by the row or about to be: the only
\* ones nothing will ever delete were created by a handler that then died or
\* lost the answer, or were replaced or unrecorded by a handler that had looked
\* at the row before.
NoOrphan ==
    \A ref \in live \ moved :
        \/ row.ref = ref \/ ref \in stray
        \/ \E t \in Tasks : task[t].at = "record" /\ task[t].snap.ref = ref

\* services/supabase_sweeper.py: "VERIFY that the reverse-migration into shared
\* Mongo actually succeeded BEFORE the destructive delete", "We NEVER delete a
\* project that has a pending verification failure".
DeletedOnlyIfCopied ==
    [][\A t \in Tasks :
         /\ SweepDeletes(t) /\ task[t].snap.policy = "migrate_back"
         => task[t].snap.copy \in {"rows", "empty"}]_vars
=============================================================================

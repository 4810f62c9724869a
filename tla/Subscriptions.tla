---------------------------- MODULE Subscriptions ----------------------------
(***************************************************************************)
(* What one user may use - the tier and the trial - and the two ways to a  *)
(* trial: the reward for a referral and the last but one step of the       *)
(* onboarding.  Every request reads in one transaction and writes in       *)
(* another; a write changes the columns that differ from the row that its  *)
(* own transaction read.  The clock ends trials.                           *)
(***************************************************************************)
EXTENDS Integers, Sequences

CONSTANTS
    Requests,               \* concurrent requests
    MaxRequests,            \* bound: requests
    LastInstant             \* bound on the clock

ASSUME SubscriptionsAssumption == MaxRequests \in Nat /\ LastInstant \in Nat

VARIABLES
    subscription,   \* the row of subscriptions
    flow,           \* the row of onboarding_flow_states
    request,        \* the requests
    requests,       \* how many there were
    instant,        \* the clock; a trial ends at the next instant
    upgrades,       \* upserts of the tier so far; not in the code
    flowSaves       \* saves of the flow so far; not in the code

subscriptionsVars == <<subscription, flow, request, requests, instant, upgrades, flowSaves>>

Tiers == {"free", "pro"}
\* trial: trial_tier is set; ends: trial_ends_at, 0 when NULL.
Subscription == [tier : Tiers \cup {"no row"}, trial : BOOLEAN, ends : Nat]
NoSubscription == [tier |-> "no row", trial |-> FALSE, ends |-> 0]

Paid(row) == row.tier = "pro"
Running(row) == row.trial /\ row.ends > instant
Over(row) == row.trial /\ row.ends # 0 /\ row.ends <= instant

FlowSteps == <<"identity_selection", "personalization", "instant_wow_moment", "progress_illusion",
               "soft_paywall", "habit_lock_in", "completed">>
\* `step`: the place of current_step in FlowSteps, 0 without a row; `offered`: paywall.
\* trial_recommended; `offeredAt`: the upgrades before that decision, not in the code.
Flow == [step : 0 .. Len(FlowSteps), completed : Seq(1 .. Len(FlowSteps)), offered : BOOLEAN,
         started : BOOLEAN, offeredAt : Nat]
FlowAt(step, completed) ==
    [step |-> step, completed |-> completed, offered |-> FALSE, started |-> FALSE, offeredAt |-> 0]
NoFlow == FlowAt(0, <<>>)
DefaultFlow == FlowAt(1, <<>>)

Goals == {"none", "evaluate", "upgrade", "grant", "trial", "offer", "accept", "start"}
\* looking: evaluate reads the rows; loading, writing: the two halves of a write (op) of the
\* subscription; saving, completing: the two saves of the flow.
Request == [pc : {"idle", "looking", "loading", "writing", "saving", "completing"}, goal : Goals,
            op : {"none", "upsert", "start", "clear"}, tier : Tiers, free : BOOLEAN, over : Nat,
            row : Subscription, flow : Flow, checkedAt : Nat, loadedAt : Nat]
NoRequest == [pc |-> "idle", goal |-> "none", op |-> "none", tier |-> "free", free |-> FALSE, over |-> 0,
              row |-> NoSubscription, flow |-> NoFlow, checkedAt |-> 0, loadedAt |-> 0]

\* A user who has just come, or who is about to be shown the paywall.
SubscriptionsInit ==
    /\ subscription = NoSubscription
    /\ flow \in {NoFlow, FlowAt(4, <<1, 2, 3>>)}
    /\ request = [r \in Requests |-> NoRequest]
    /\ requests = 0
    /\ instant = 0
    /\ upgrades = 0
    /\ flowSaves = 0

-----------------------------------------------------------------------------
Becomes(r, q) == request' = [request EXCEPT ![r] = q]

Ask(r, q) ==
    /\ request[r].pc = "idle"
    /\ requests < MaxRequests
    /\ requests' = requests + 1
    /\ Becomes(r, q)
    /\ UNCHANGED <<subscription, flow, instant, upgrades, flowSaves>>

\* evaluate and get_features; upgrade_tier; _grant_premium_days.
AskFeatures(r) == Ask(r, [NoRequest EXCEPT !.pc = "looking", !.goal = "evaluate"])
Upgrade(r) == \E t \in Tiers : Ask(r, [NoRequest EXCEPT !.pc = "looking", !.goal = "upgrade", !.tier = t])
\* A referral looks twice: get_features takes the tier from a read of its own.
Free == ~Paid(subscription) /\ ~Running(subscription)
Grant(r) == Ask(r, [NoRequest EXCEPT !.pc = "looking", !.goal = "grant", !.free = Free, !.checkedAt = upgrades])

\* start of the onboarding.
StartFlow(r) ==
    Ask(r, IF flow = NoFlow
           THEN [NoRequest EXCEPT !.pc = "saving", !.goal = "start", !.flow = DefaultFlow, !.loadedAt = flowSaves]
           ELSE NoRequest)

\* A step is completed and the flow moves on to the step at n.
MovedTo(f, n) == [f EXCEPT !.step = n, !.completed = Append(@, f.step)]

\* next of the onboarding: the handler of the step of the row that was loaded.  A handler
\* that misses an answer leaves the flow as it is.
NextInFlow(r) ==
    LET f == IF flow = NoFlow THEN DefaultFlow ELSE flow
        q == [NoRequest EXCEPT !.pc = "saving", !.goal = "start", !.flow = f, !.loadedAt = flowSaves]
    IN CASE f.step \in {1, 2, 3, 6} ->
                \E g \in {f, MovedTo(f, f.step + 1)} : Ask(r, [q EXCEPT !.flow = g])
         [] f.step = 4 -> Ask(r, [q EXCEPT !.pc = "looking", !.goal = "offer"])
         [] f.step = 5 ->     \* no answer, skipped, accepted
                \/ \E g \in {f, MovedTo(f, 6)} : Ask(r, [q EXCEPT !.flow = g])
                \/ /\ f.offered
                   /\ Ask(r, [q EXCEPT !.pc = "loading", !.goal = "accept", !.op = "start",
                                       !.flow = [MovedTo(f, 6) EXCEPT !.started = TRUE],
                                       !.checkedAt = f.offeredAt])
         [] f.step = 7 -> Ask(r, q)

-----------------------------------------------------------------------------
\* Slip: a referral is rewarded without a look at the tier.
GrantsAnyway(q) == TRUE

GrantsTrial(q) == q.free

\* The fourth step ends with the paywall or beyond it, and notes what was recommended.
WithOffer(q, step, recommended) ==
    [q EXCEPT !.pc = "saving",
              !.flow = [MovedTo(@, step) EXCEPT !.offered = recommended, !.offeredAt = q.checkedAt]]

\* What follows an evaluation.  A paywall is shown, and a trial recommended, to those
\* without a tier and without a trial; a trial may be recommended when none is shown.
AfterLook(q) ==
    CASE q.goal = "evaluate" -> {NoRequest}
      [] q.goal = "upgrade" -> {[q EXCEPT !.pc = "loading", !.op = "upsert"]}
      [] q.goal = "grant" -> {IF GrantsTrial(q) THEN [q EXCEPT !.pc = "looking", !.goal = "trial"] ELSE NoRequest}
      [] q.goal = "trial" -> {[q EXCEPT !.pc = "loading", !.op = "start"]}
      [] q.goal = "offer" ->
            {WithOffer(q, shown, recommended) :
                 shown \in IF q.free THEN {5, 6} ELSE {6},
                 recommended \in IF q.free THEN BOOLEAN ELSE {FALSE}}

\* An evaluation reads the row; a trial that is over is cleared in a second transaction.
\* A referral has its tier already and takes the trial from here; what others read before
\* the evaluation they do not use.
Look(r) ==
    LET q == [request[r] EXCEPT !.free = IF request[r].goal = "grant" THEN @ /\ ~Running(subscription) ELSE Free,
                                !.checkedAt = IF request[r].goal \in {"grant", "trial"} THEN @ ELSE upgrades,
                                !.over = subscription.ends]
    IN /\ request[r].pc = "looking"
       /\ IF Over(subscription) THEN Becomes(r, [q EXCEPT !.pc = "loading", !.op = "clear"])
          ELSE \E a \in AfterLook(q) : Becomes(r, a)
       /\ UNCHANGED <<subscription, flow, requests, instant, upgrades, flowSaves>>

LoadSubscription(r) ==
    /\ request[r].pc = "loading"
    /\ Becomes(r, [request[r] EXCEPT !.pc = "writing", !.row = subscription])
    /\ UNCHANGED <<subscription, flow, requests, instant, upgrades, flowSaves>>

\* upsert, start_trial and clear_trial of the repository.
Assigned(q) ==
    CASE q.op = "upsert" -> [tier |-> q.tier, trial |-> FALSE, ends |-> 0]
      [] q.op = "start" -> [tier |-> "free", trial |-> TRUE, ends |-> instant + 1]
      [] q.op = "clear" -> [q.row EXCEPT !.trial = FALSE, !.ends = 0]

\* The flush writes what the assignments changed.
Flushed(q) ==
    [col \in DOMAIN NoSubscription |-> IF Assigned(q)[col] # q.row[col] THEN Assigned(q)[col] ELSE subscription[col]]

\* The service's start_trial reads the features once more, the flow is saved.
AfterWrite(q) ==
    CASE q.op = "clear" -> AfterLook([q EXCEPT !.op = "none"])
      [] q.op = "upsert" -> {NoRequest}
      [] q.op = "start" -> {IF q.goal = "accept" THEN [q EXCEPT !.pc = "saving"]
                            ELSE [NoRequest EXCEPT !.pc = "looking", !.goal = "evaluate"]}

\* A second insert fails, and with it the request.
WriteSubscription(r) ==
    LET q == request[r]
    IN /\ q.pc = "writing"
       /\ IF q.row = NoSubscription /\ subscription # NoSubscription
          THEN Becomes(r, NoRequest) /\ UNCHANGED <<subscription, upgrades>>
          ELSE /\ subscription' = Flushed(q)
               /\ upgrades' = IF q.op = "upsert" THEN upgrades + 1 ELSE upgrades
               /\ \E a \in AfterWrite(q) : Becomes(r, a)
       /\ UNCHANGED <<flow, requests, instant, flowSaves>>

\* save: the whole row.  A second insert may fail; a completed flow is saved twice.
SaveFlow(r) ==
    LET q == request[r]
    IN /\ q.pc \in {"saving", "completing"}
       /\ flow' = q.flow
       /\ flowSaves' = flowSaves + 1
       /\ Becomes(r, IF q.pc = "saving" /\ q.flow.step = Len(FlowSteps)
                     THEN [q EXCEPT !.pc = "completing"] ELSE NoRequest)
       /\ UNCHANGED <<subscription, requests, instant, upgrades>>

\* Also an insert that conflicts.
RequestFails(r) ==
    /\ request[r].pc # "idle"
    /\ Becomes(r, NoRequest)
    /\ UNCHANGED <<subscription, flow, requests, instant, upgrades, flowSaves>>

ClockTicks ==
    /\ instant < LastInstant
    /\ instant' = instant + 1
    /\ UNCHANGED <<subscription, flow, request, requests, upgrades, flowSaves>>

SubscriptionsNext ==
    \/ ClockTicks
    \/ \E r \in Requests :
        \/ AskFeatures(r) \/ Upgrade(r) \/ Grant(r) \/ StartFlow(r) \/ NextInFlow(r)
        \/ Look(r) \/ LoadSubscription(r) \/ WriteSubscription(r) \/ SaveFlow(r) \/ RequestFails(r)

SubscriptionsSpec == SubscriptionsInit /\ [][SubscriptionsNext]_subscriptionsVars

-----------------------------------------------------------------------------
SubscriptionsTypeOK ==
    /\ subscription \in Subscription
    /\ flow \in Flow
    /\ request \in [Requests -> Request]
    /\ requests \in 0 .. MaxRequests
    /\ instant \in 0 .. LastInstant
    /\ upgrades \in Nat /\ flowSaves \in Nat

\* r writes or saves in this step.
Acts(r) == request'[r] # request[r]
Was(r, op) == request[r].pc = "writing" /\ request[r].op = op /\ Acts(r)

\* What the user has is lost only in ways that someone asked for, or by a request that
\* decided before it was given: a paid tier to another upgrade, or to a trial that was
\* offered before the user paid; a running trial to an upgrade, or to the clearing of an
\* older trial; a place in the onboarding to a request that loaded the flow before.
LostOnlyToAnEarlierDecision ==
    [][/\ Paid(subscription) /\ ~Paid(subscription') =>
             \E r \in Requests : Was(r, "upsert") \/ (Was(r, "start") /\ request[r].checkedAt < upgrades)
       /\ Running(subscription) /\ ~Running(subscription') /\ instant' = instant =>
             \E r \in Requests : Was(r, "upsert") \/ (Was(r, "clear") /\ request[r].over < subscription.ends)
       /\ flow'.step < flow.step =>
             \E r \in Requests : Acts(r) /\ flow' = request[r].flow /\ request[r].loadedAt < flowSaves
      ]_subscriptionsVars
=============================================================================

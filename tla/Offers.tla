-------------------------------- MODULE Offers --------------------------------
(***************************************************************************)
(* The paywall of one user and the row of user_monetization_states that    *)
(* remembers what was offered.  Whoever wants to know about the paywall    *)
(* evaluates it, and an evaluation that shows one is recorded as an        *)
(* impression, whether the caller displays it or only decides or reports;  *)
(* one answer may take seven evaluations.  The row is read and written in  *)
(* one transaction, without a lock; only the columns that differ from the  *)
(* row that was read are written.                                          *)
(***************************************************************************)
EXTENDS Integers, Sequences

CONSTANTS
    OfferClients,       \* concurrent requests
    MaxOffers,          \* bound: requests
    LastTick,           \* bound on the clock, in steps of 12 hours
    TrialTicks,         \* the length of a trial
    Persons             \* what the other services know of the user, see Person

ASSUME OffersAssumption ==
    /\ MaxOffers \in Nat /\ LastTick \in Nat /\ TrialTicks \in Nat \ {0}
    /\ \A p \in Persons : p.usage \in Nat /\ p.sessions \in Nat /\ p.risky \in BOOLEAN

VARIABLES
    tick,
    person,             \* the user as the other services see him; never changes
    access,             \* tier and end of the trial, 0 without one
    offers,             \* the row
    told,               \* what happened, see NothingTold; not in the code
    offering,           \* the requests
    offersAsked,        \* requests so far
    offersRaced         \* two transactions on the row have overlapped, or a write got lost; not in the code

offersVars == <<tick, person, access, offers, told, offering, offersAsked, offersRaced>>

\* usage: percent of the day's limit; risky: likely to drop off, or rarely there.
Stages5 == {"new_user", "activating", "engaged", "at_risk", "churned"}
Person == [usage : Nat, sessions : Nat, risky : BOOLEAN, stage : Stages5, early : BOOLEAN,
           timing : {"control", "early", "late"}]

OfferTypes == {"none", "trial", "discount", "annual_anchor", "soft_paywall", "hard_paywall"}
OfferRow == [impressions : Nat, acceptances : Nat, fatigue : Nat, cooldown : Nat, eligible : BOOLEAN,
             offer : OfferTypes, discount : {0, 5, 10, 20}]
NewOfferRow == [impressions |-> 0, acceptances |-> 0, fatigue |-> 0, cooldown |-> 0, eligible |-> TRUE,
                offer |-> "none", discount |-> 0]

\* What an evaluation answers; ends: of a trial that runs, or 0; `at`: when, not in the code.
Paywalls == {"none", "soft_paywall", "hard_paywall"}
Segments == {"high_intent", "low_engagement", "balanced"}
Answer == [show : Paywalls, segment : Segments \cup {"none"}, ends : Nat, recommended : BOOLEAN, at : Nat]
NoAnswer == [show |-> "none", segment |-> "none", ends |-> 0, recommended |-> FALSE, at |-> 0]

\* plan: the steps that are left; wow: wow_score in percent; first, last: evaluations; row:
\* what the transaction read, and loaded: when; crossed, stale: another request has stored
\* since this one, since its transaction began, or (crossed) the free tier was set.  These three
\* are not in the code.
NoOffering == [plan |-> <<>>, wow |-> 0, first |-> NoAnswer, last |-> NoAnswer,
               row |-> NewOfferRow, loaded |-> 0, crossed |-> FALSE, stale |-> FALSE]

\* Impressions, when the last one was, acceptances, what decide answered.  belated: half a day
\* passed within a transaction, or a trial was marked after it had ended.
NothingTold == [impressions |-> 0, lastAt |-> 0, acceptances |-> 0, answers |-> {}, belated |-> FALSE]

OffersInit ==
    /\ tick = 0
    /\ person \in Persons
    /\ access = [tier |-> "free", trialEnds |-> 0]
    /\ offers = NewOfferRow
    /\ told = NothingTold
    /\ offering = [c \in OfferClients |-> NoOffering]
    /\ offersAsked = 0
    /\ offersRaced = FALSE

-----------------------------------------------------------------------------
(***************************************************************************)
(* AdaptivePaywallPolicy; shares in percent.                               *)
(***************************************************************************)
TrialActive == access.trialEnds > tick

Segment(row, wow) ==
    IF row.acceptances > 0 \/ row.impressions > 0 \/ wow >= 65 \/ person.usage >= 55 \/ person.sessions >= 4
    THEN "high_intent"
    ELSE IF person.risky \/ person.sessions <= 1 THEN "low_engagement" ELSE "balanced"

SessionTrigger(segment) ==
    LET n == 3 + (CASE person.timing = "early" -> -1 [] person.timing = "late" -> 2 [] OTHER -> 0)
               + (CASE segment = "high_intent" -> -1 [] segment = "low_engagement" -> 2 [] OTHER -> 0)
    IN IF n > 1 THEN n ELSE 1

SoftUsage(segment) ==
    80 + (CASE person.timing = "early" -> -10 [] person.timing = "late" -> 10 [] OTHER -> 0)
       + (CASE segment = "high_intent" -> -15 [] segment = "low_engagement" -> 10 [] OTHER -> 0)

HardUsage(segment) == IF segment = "low_engagement" THEN 105 ELSE 100

TrialRecommended(show, wow) == ~TrialActive /\ wow >= 80 /\ show # "hard_paywall"

\* Slip: the quiet after a paywall is not kept.
ShowAlways(row, segment, wow) ==
    IF person.usage >= HardUsage(segment) THEN "hard_paywall"
    ELSE IF wow >= 65 \/ person.sessions >= SessionTrigger(segment) \/ person.usage >= SoftUsage(segment)
         THEN "soft_paywall" ELSE "none"

\* For a user without a tier or a trial.  The quiet after a paywall does not keep back a
\* hard one.
Show(row, segment, wow) ==
    IF person.usage >= HardUsage(segment) THEN "hard_paywall"
    ELSE IF row.cooldown > tick THEN "none"
    ELSE IF wow >= 65 \/ person.sessions >= SessionTrigger(segment) \/ person.usage >= SoftUsage(segment)
         THEN "soft_paywall" ELSE "none"

Evaluated(wow) ==
    LET segment == Segment(offers, wow)
        show == IF access.tier # "free" \/ TrialActive THEN "none" ELSE Show(offers, segment, wow)
    IN [show |-> show, segment |-> segment, ends |-> IF TrialActive THEN access.trialEnds ELSE 0,
        recommended |-> access.tier = "free" /\ TrialRecommended(show, wow), at |-> tick]

-----------------------------------------------------------------------------
(***************************************************************************)
(* The requests.                                                           *)
(***************************************************************************)
\* decide reads the features, which takes an evaluation, and then evaluates; so does
\* user_experience_state.
DecidePlan == <<"evaluate", "evaluate", "decide">>

\* evaluate of the engine: its own evaluation, the lifecycle's, which decides and then evaluates
\* three times, and that of the funnel, which the dashboard computes from every user.
EnginePlan ==
    <<"evaluate", "evaluate", "evaluate", "decide", "evaluate", "evaluate", "evaluate", "evaluate", "sync">>
ClickPlan == <<"evaluate", "click">>
TrialPlan == <<"evaluate", "start", "evaluate", "trial">>
UpgradePlan == <<"evaluate", "upsert", "upgrade">>

AskOffer(c, plan, wow) ==
    /\ offering[c].plan = <<>>
    /\ offersAsked < MaxOffers
    /\ offersAsked' = offersAsked + 1
    /\ offering' = [offering EXCEPT ![c] = [NoOffering EXCEPT !.plan = plan, !.wow = wow]]
    /\ UNCHANGED <<tick, person, access, offers, told, offersRaced>>

LookAtPaywall(c) == AskOffer(c, <<"evaluate">>, 0)
AskDecision(c) == AskOffer(c, DecidePlan, 0)
EvaluateOffer(c) == \E wow \in {0, 85} : AskOffer(c, EnginePlan, wow)
ClickUpgrade(c) == AskOffer(c, ClickPlan, 0)
AskForTrial(c) == AskOffer(c, TrialPlan, 0)
UpgradeTier(c) == AskOffer(c, UpgradePlan, 0)

Next1(c, step) == offering[c].plan # <<>> /\ Head(offering[c].plan) = step

\* The last step leaves nothing behind.
Proceed(c, q) ==
    offering' = [offering EXCEPT ![c] =
        IF Tail(q.plan) = <<>> THEN NoOffering ELSE [q EXCEPT !.plan = Tail(@)]]

\* The funnel's evaluation and those of the lifecycle are without the wow score.
EvaluatePaywall(c) ==
    /\ Next1(c, "evaluate")
    /\ LET q == offering[c]
           e == Evaluated(IF q.first = NoAnswer THEN q.wow ELSE 0)
           seen == [q EXCEPT !.last = e, !.first = IF @ = NoAnswer THEN e ELSE @]
       IN IF e.show = "none" THEN Proceed(c, seen)
          ELSE offering' = [offering EXCEPT ![c] =
                              [seen EXCEPT !.plan = <<"load", "impression">> \o Tail(@)]]
    /\ UNCHANGED <<tick, person, access, offers, told, offersAsked, offersRaced>>

\* What decide makes of the second evaluation.
MonetizationAction(e) ==
    IF e.show = "hard_paywall" THEN "hard_paywall"
    ELSE IF e.recommended THEN "trial_offer"
    ELSE IF person.stage = "engaged" /\ e.show # "none" THEN "soft_paywall" ELSE "none"

\* alone: nothing else happened since the request began; not in the code.
DecideGlobally(c) ==
    /\ Next1(c, "decide")
    /\ LET q == offering[c]
           answer == [action |-> MonetizationAction(q.last), alone |-> ~q.crossed /\ q.last.at = q.first.at]
       IN /\ told' = [told EXCEPT !.answers = @ \cup {answer}]
          /\ Proceed(c, q)
    /\ UNCHANGED <<tick, person, access, offers, offersAsked, offersRaced>>

\* The trial is given, as module Subscriptions has it in detail; a tier that was paid for is not
\* kept.
StartTrial(c) ==
    /\ Next1(c, "start")
    /\ access' = [tier |-> "free", trialEnds |-> tick + TrialTicks]
    /\ Proceed(c, offering[c])
    /\ UNCHANGED <<tick, person, offers, told, offersAsked, offersRaced>>

Crossed(q) == IF q.plan = <<>> THEN NoOffering ELSE [q EXCEPT !.crossed = TRUE]

\* The request names the tier, which may be the free one; premium is to the paywall what pro is.
\* It ends the trial.
UpsertTier(c) ==
    /\ Next1(c, "upsert")
    /\ \/ access' = [tier |-> "pro", trialEnds |-> 0] /\ Proceed(c, offering[c])
       \/ /\ access' = [tier |-> "free", trialEnds |-> 0]
          /\ offering' = [o \in OfferClients |->
                 Crossed(IF o = c THEN [offering[o] EXCEPT !.plan = Tail(@)] ELSE offering[o])]
    /\ UNCHANGED <<tick, person, offers, told, offersAsked, offersRaced>>

-----------------------------------------------------------------------------
(***************************************************************************)
(* MonetizationPolicy.                                                     *)
(***************************************************************************)
\* Nothing is shown before the onboarding has come to its paywall.
ShouldShow(e) == e.show # "none" /\ ~person.early

OfferType(e) ==
    IF e.ends > 0 THEN "none"
    ELSE IF e.recommended THEN "trial"
    ELSE IF person.stage \in {"at_risk", "churned"} \/ e.segment = "low_engagement" THEN "discount"
    ELSE IF person.stage = "engaged" \/ e.segment = "high_intent"
         THEN IF ShouldShow(e) THEN "annual_anchor" ELSE "none"
    ELSE "none"

DiscountPercent(e) ==
    IF person.stage \in {"at_risk", "churned"} \/ e.segment = "low_engagement" THEN 20
    ELSE IF person.stage = "new_user" THEN 5 ELSE 0

-----------------------------------------------------------------------------
(***************************************************************************)
(* The transactions on the row.                                            *)
(***************************************************************************)
Least(a, b) == IF a < b THEN a ELSE b

\* Slip: an impression starts no quiet time.
ImpressionQuietless(r, e) ==
    [r EXCEPT !.impressions = @ + 1, !.fatigue = @ + 1, !.offer = IF e.recommended THEN "trial" ELSE e.show]

\* record_impression: 12 hours of quiet for each point of fatigue, at most 72.
Impression(r, e) ==
    [r EXCEPT !.impressions = @ + 1, !.fatigue = @ + 1, !.cooldown = tick + Least(6, r.fatigue + 1),
              !.offer = IF e.recommended THEN "trial" ELSE e.show]

\* record_response for an acceptance, the only response that is recorded.
Accepted(r, e) ==
    [r EXCEPT !.acceptances = @ + 1, !.fatigue = IF @ > 0 THEN @ - 1 ELSE 0, !.cooldown = tick + 14,
              !.eligible = FALSE, !.offer = IF e.show = "none" THEN @ ELSE e.show]

\* Slip: whoever has started a trial stays eligible for one.
TrialMarkedEligible(r, e) ==
    [r EXCEPT !.acceptances = @ + 1, !.offer = "trial", !.cooldown = IF e.ends > 0 THEN e.ends ELSE @]

\* mark_trial_started: None, for a trial that another request has ended, changes nothing.
TrialMarked(r, e) ==
    [r EXCEPT !.acceptances = @ + 1, !.eligible = FALSE, !.offer = "trial",
              !.cooldown = IF e.ends > 0 THEN e.ends ELSE @]

\* mark_upgrade_completed.
UpgradeMarked(r, e) ==
    [r EXCEPT !.acceptances = @ + 1, !.eligible = FALSE, !.cooldown = tick + 60,
              !.offer = IF e.show = "none" THEN @ ELSE e.show]

\* sync_decision: an offer and its price, of the first evaluation.
Synced(r, e) == [r EXCEPT !.offer = OfferType(e), !.discount = DiscountPercent(e)]

Written(step, r, q) ==
    CASE step = "impression" -> Impression(r, q.last)
      [] step = "click" -> Accepted(r, q.last)
      [] step = "trial" -> TrialMarked(r, q.last)
      [] step = "upgrade" -> UpgradeMarked(r, q.first)
      [] step = "sync" -> Synced(r, q.first)

Transactions == {"impression", "click", "trial", "upgrade", "sync"}

\* get_or_create.
LoadOffers(c) ==
    LET q == offering[c]
        begins == q.plan # <<>> /\ Head(q.plan) \in Transactions \cup {"load"}
        rest == IF Head(q.plan) = "load" THEN Tail(q.plan) ELSE q.plan
    IN /\ begins
       /\ offering' = [offering EXCEPT ![c] = [q EXCEPT
                !.plan = <<"store">> \o rest, !.row = offers, !.loaded = tick, !.stale = FALSE]]
       /\ UNCHANGED <<tick, person, access, offers, told, offersAsked, offersRaced>>

Belated(q) == q.loaded < tick \/ (q.plan[2] = "trial" /\ q.last.ends \in 1 .. tick)

\* What has happened once a transaction of this step is stored.
Told(step, q) ==
    LET t == [told EXCEPT !.belated = @ \/ Belated(q)]
    IN CASE step = "impression" -> [t EXCEPT !.impressions = @ + 1, !.lastAt = tick]
         [] step = "sync" -> t
         [] OTHER -> [t EXCEPT !.acceptances = @ + 1]

\* Only the columns that differ from the row that was loaded are written.
Column(new, read, now) == IF new # read THEN new ELSE now
Merged(new, read) ==
    [impressions |-> Column(new.impressions, read.impressions, offers.impressions),
     acceptances |-> Column(new.acceptances, read.acceptances, offers.acceptances),
     fatigue |-> Column(new.fatigue, read.fatigue, offers.fatigue),
     cooldown |-> Column(new.cooldown, read.cooldown, offers.cooldown),
     eligible |-> Column(new.eligible, read.eligible, offers.eligible),
     offer |-> Column(new.offer, read.offer, offers.offer),
     discount |-> Column(new.discount, read.discount, offers.discount)]

StoreOffers(c) ==
    /\ Next1(c, "store")
    /\ LET q == offering[c]
           step == q.plan[2]
           new == Written(step, q.row, q)
       IN /\ offers' = Merged(new, q.row)
          /\ told' = Told(step, q)
          /\ offersRaced' = (offersRaced \/ q.stale)
          /\ offering' = [o \in OfferClients |->
                IF o = c
                THEN IF Len(q.plan) = 2 THEN NoOffering
                     ELSE [q EXCEPT !.plan = Tail(Tail(@)), !.row = NewOfferRow, !.loaded = 0, !.stale = FALSE]
                ELSE IF offering[o].plan = <<>> THEN NoOffering
                ELSE [offering[o] EXCEPT !.crossed = TRUE, !.stale = Head(offering[o].plan) = "store"]]
    /\ UNCHANGED <<tick, person, access, offersAsked>>

-----------------------------------------------------------------------------
\* Half a day passes.
TickPasses ==
    /\ tick < LastTick
    /\ tick' = tick + 1
    /\ UNCHANGED <<person, access, offers, told, offering, offersAsked, offersRaced>>

OfferingFails(c) ==
    /\ offering[c].plan # <<>>
    /\ offering' = [offering EXCEPT ![c] = NoOffering]
    /\ UNCHANGED <<tick, person, access, offers, told, offersAsked, offersRaced>>

OffersNext ==
    \/ TickPasses
    \/ \E c \in OfferClients :
        \/ LookAtPaywall(c) \/ AskDecision(c) \/ EvaluateOffer(c) \/ ClickUpgrade(c) \/ AskForTrial(c) \/ UpgradeTier(c)
        \/ EvaluatePaywall(c) \/ DecideGlobally(c) \/ StartTrial(c) \/ UpsertTier(c)
        \/ LoadOffers(c) \/ StoreOffers(c) \/ OfferingFails(c)

OffersSpec == OffersInit /\ [][OffersNext]_offersVars

-----------------------------------------------------------------------------
OffersTypeOK ==
    /\ tick \in 0 .. LastTick /\ person \in Persons
    /\ access \in [tier : {"free", "pro"}, trialEnds : Nat]
    /\ offers \in OfferRow
    /\ told.impressions \in Nat /\ told.lastAt \in 0 .. LastTick /\ told.acceptances \in Nat
    /\ \A c \in OfferClients :
        /\ offering[c].first \in Answer /\ offering[c].last \in Answer
        /\ offering[c].row \in OfferRow
    /\ offersAsked \in 0 .. MaxOffers /\ offersRaced \in BOOLEAN

\* The row tells what has happened.  Unless two transactions on it overlapped, it counts
\* every impression and acceptance, and a discount on offer goes with the discounted
\* price; they may lose a count, and none is invented; whoever has accepted anything is
\* never eligible for a trial again, whatever a decision that was under way writes.
OffersAddUp ==
    /\ offers.impressions <= told.impressions /\ offers.acceptances <= told.acceptances
    /\ told.acceptances > 0 => ~offers.eligible /\ offers.acceptances > 0
    /\ ~offersRaced =>
        /\ offers.impressions = told.impressions /\ offers.acceptances = told.acceptances
        /\ offers.offer = "discount" => offers.discount = 20

\* The user is left alone.  Two soft paywalls are at least twelve hours apart, however many
\* evaluations a request takes and however transactions on the row overlap, unless another
\* request stored an offer or set the free tier meanwhile, or a row was written late: half a day after it was read,
\* or for a trial that had ended.  And so decide, which evaluates twice, never by itself answers
\* with a soft paywall.
QuietAfterPaywall ==
    [][/\ \A c \in OfferClients :
            LET q == offering[c]
            IN /\ told'.impressions > told.impressions /\ Next1(c, "store") /\ offering'[c].plan # q.plan
               /\ told.impressions > 0 /\ q.last.show = "soft_paywall" /\ ~q.crossed /\ ~told'.belated
               => q.last.at > told.lastAt
       /\ [action |-> "soft_paywall", alone |-> TRUE] \notin told'.answers]_offersVars
=============================================================================

-------------------------- MODULE SubscriptionsProofs --------------------------
(***************************************************************************)
(* Proofs about Subscriptions, for any number of requests and any bounds.  *)
(***************************************************************************)
EXTENDS Subscriptions, TLAPS

-----------------------------------------------------------------------------
(***************************************************************************)
(* The inductive invariant: what the copies that a request carries still   *)
(* say about the rows when it writes.                                      *)
(***************************************************************************)
LookGoals == {"evaluate", "upgrade", "grant", "trial", "offer"}
FlowGoals == {"offer", "accept", "start"}

\* What is written was asked for, and a trial is cleared only after its end.
Purposeful(q) ==
    /\ q.pc = "looking" => q.goal \in LookGoals
    /\ q.pc \in {"loading", "writing"} =>
        \/ q.op = "clear" /\ q.goal \in LookGoals /\ q.over <= instant
        \/ q.op = "upsert" /\ q.goal = "upgrade"
        \/ q.op = "start" /\ q.goal \in {"trial", "accept"}
    /\ q.pc \in {"saving", "completing"} => q.goal \in FlowGoals
    /\ q.goal = "offer" => q.flow.step \in IF q.pc = "saving" THEN {5, 6} ELSE {4}
    /\ q.pc = "completing" => q.flow.step = Len(FlowSteps)

\* Whoever is about to start a trial knows a user without a paid tier, and is right until
\* the next upgrade.
KnownFree(q) == q.free \/ q.goal \in {"trial", "accept"}
Decided(q) == q.checkedAt <= upgrades /\ (KnownFree(q) /\ q.checkedAt = upgrades => ~Paid(subscription))

\* An offer is made to such a user too.  A row has a step.
FlowInv(f) ==
    /\ f.offered => f.offeredAt <= upgrades /\ (f.offeredAt = upgrades => ~Paid(subscription))
    /\ f.step = 0 => f = NoFlow

\* A flow that no save has overtaken goes forward.
Forward(q) == q.loadedAt <= flowSaves /\ (q.goal \in FlowGoals /\ q.loadedAt = flowSaves => flow.step <= q.flow.step)

RequestInv(q) == Purposeful(q) /\ Decided(q) /\ FlowInv(q.flow) /\ Forward(q)
SubscriptionsInv == SubscriptionsTypeOK /\ FlowInv(flow) /\ \A r \in Requests : RequestInv(request[r])

-----------------------------------------------------------------------------
LEMMA Constants == /\ Len(FlowSteps) = 7 /\ NoFlow \in Flow /\ DefaultFlow \in Flow
                   /\ NoFlow.step = 0 /\ DefaultFlow.step = 1 /\ ~NoFlow.offered /\ ~DefaultFlow.offered
                   /\ NoSubscription \in Subscription
<1>1. Len(FlowSteps) = 7
  BY DEF FlowSteps
<1>2. <<>> \in Seq(1 .. 7)
  OBVIOUS
<1> QED  BY <1>1, <1>2 DEF Flow, NoFlow, DefaultFlow, FlowAt, NoSubscription, Subscription, Tiers

LEMMA NoRequestFits ==
    ASSUME SubscriptionsTypeOK
    PROVE  NoRequest \in Request /\ RequestInv(NoRequest) /\ NoRequest.pc = "idle"
<1>1. NoRequest \in Request /\ NoRequest.pc = "idle"
  BY Constants DEF NoRequest, Request, Goals, Tiers
<1>2. Purposeful(NoRequest) /\ Decided(NoRequest) /\ FlowInv(NoRequest.flow) /\ Forward(NoRequest)
  BY Constants DEF SubscriptionsTypeOK, Purposeful, Decided, KnownFree, FlowInv, Forward, NoRequest, FlowGoals
<1> QED  BY <1>1, <1>2 DEF RequestInv

LEMMA SubscriptionsInitially == SubscriptionsInit => SubscriptionsInv
<1> SUFFICES ASSUME SubscriptionsInit PROVE SubscriptionsInv
  OBVIOUS
<1>1. <<1, 2, 3>> \in Seq(1 .. 7)
  OBVIOUS
<1>2. /\ FlowAt(4, <<1, 2, 3>>) \in Flow /\ ~FlowAt(4, <<1, 2, 3>>).offered
      /\ FlowAt(4, <<1, 2, 3>>).step = 4
  BY <1>1, Constants DEF FlowAt, Flow
<1>3. NoRequest \in Request
  BY Constants DEF NoRequest, Request, Goals, Tiers
<1>4. SubscriptionsTypeOK
  BY <1>2, <1>3, Constants, SubscriptionsAssumption DEF SubscriptionsInit, SubscriptionsTypeOK
<1>5. FlowInv(flow)
  BY <1>2, Constants DEF SubscriptionsInit, FlowInv
<1> QED  BY <1>4, <1>5, NoRequestFits DEF SubscriptionsInv, SubscriptionsInit

-----------------------------------------------------------------------------
\* How the rows may move: a tier is paid for by an upgrade only, and every save counts.
Onward ==
    /\ instant <= instant' /\ upgrades <= upgrades' /\ flowSaves <= flowSaves'
    /\ Paid(subscription') => Paid(subscription) \/ upgrades < upgrades'
    /\ flow' = flow \/ flowSaves < flowSaves'

LEMMA StaysTrue ==
    ASSUME SubscriptionsTypeOK, SubscriptionsTypeOK', Onward, NEW q \in Request, RequestInv(q)
    PROVE  RequestInv(q)'
<1>1. q.over \in Nat /\ q.checkedAt \in Nat /\ q.loadedAt \in Nat /\ q.flow.offeredAt \in Nat
  BY DEF Request, Flow
<1>2. Purposeful(q)'
  BY <1>1 DEF RequestInv, Purposeful, Onward, SubscriptionsTypeOK
<1>3. Decided(q)'
  BY <1>1 DEF RequestInv, Decided, KnownFree, Onward, SubscriptionsTypeOK
<1>4. FlowInv(q.flow)'
  BY <1>1 DEF RequestInv, FlowInv, Onward, SubscriptionsTypeOK
<1>5. Forward(q)'
  BY <1>1 DEF RequestInv, Forward, Onward, SubscriptionsTypeOK
<1> QED  BY <1>2, <1>3, <1>4, <1>5 DEF RequestInv

LEMMA OfferStaysTrue ==
    ASSUME SubscriptionsTypeOK, SubscriptionsTypeOK', Onward, NEW f \in Flow, FlowInv(f)
    PROVE  FlowInv(f)'
BY SMTT(30) DEF FlowInv, Onward, SubscriptionsTypeOK, Flow

\* One request goes on as a, and the rows move onward.
LEMMA OneRequest ==
    ASSUME SubscriptionsInv, NEW r \in Requests, NEW a \in Request, RequestInv(a), Becomes(r, a),
           subscription' \in Subscription, requests' \in 0 .. MaxRequests, instant' = instant,
           upgrades' \in Nat, flowSaves' \in Nat, Onward,
           NEW f \in Flow, FlowInv(f), flow' = f
    PROVE  SubscriptionsInv'
<1>1. request' \in [Requests -> Request]
  BY DEF SubscriptionsInv, SubscriptionsTypeOK, Becomes
<1>2. SubscriptionsTypeOK'
  BY <1>1 DEF SubscriptionsInv, SubscriptionsTypeOK
<1>3. FlowInv(f)'
  BY <1>2, OfferStaysTrue DEF SubscriptionsInv
<1>4. ASSUME NEW o \in Requests PROVE RequestInv(request[o])'
  <2>1. request'[o] = IF o = r THEN a ELSE request[o]
    BY DEF SubscriptionsInv, SubscriptionsTypeOK, Becomes
  <2>2. PICK q \in Request : q = request'[o] /\ RequestInv(q)
    BY <2>1 DEF SubscriptionsInv, SubscriptionsTypeOK
  <2>3. RequestInv(q)'
    BY <1>2, <2>2, StaysTrue DEF SubscriptionsInv
  <2> QED  BY <2>2, <2>3 DEF RequestInv, Purposeful, Decided, KnownFree, FlowInv, Forward
<1> QED  BY <1>2, <1>3, <1>4 DEF SubscriptionsInv, FlowInv

\* So it is when a request only reads.
LEMMA OnlyReads ==
    ASSUME SubscriptionsInv, NEW r \in Requests, NEW a \in Request, RequestInv(a), Becomes(r, a),
           requests' \in 0 .. MaxRequests,
           UNCHANGED <<subscription, flow, instant, upgrades, flowSaves>>
    PROVE  SubscriptionsInv'
<1>1. Onward
  BY DEF Onward, SubscriptionsInv, SubscriptionsTypeOK
<1>2. flow \in Flow /\ FlowInv(flow) /\ flow' = flow
  BY DEF SubscriptionsInv, SubscriptionsTypeOK
<1>3. subscription' \in Subscription /\ upgrades' \in Nat /\ flowSaves' \in Nat /\ instant' = instant
  BY DEF SubscriptionsInv, SubscriptionsTypeOK
<1> QED  BY <1>1, <1>2, <1>3, OneRequest

LEMMA Asking ==
    ASSUME SubscriptionsInv, NEW r \in Requests, NEW a \in Request, RequestInv(a), Ask(r, a)
    PROVE  SubscriptionsInv' /\ UNCHANGED <<subscription, flow>>
<1>1. requests' \in 0 .. MaxRequests
  BY SubscriptionsAssumption DEF SubscriptionsInv, SubscriptionsTypeOK, Ask
<1> QED  BY <1>1, OnlyReads DEF Ask

-----------------------------------------------------------------------------
LEMMA Moved ==
    ASSUME NEW f \in Flow, f.step # 0, NEW n \in 1 .. 7
    PROVE  /\ MovedTo(f, n) \in Flow /\ MovedTo(f, n).step = n
           /\ MovedTo(f, n).offered = f.offered /\ MovedTo(f, n).offeredAt = f.offeredAt
<1>1. f.completed \in Seq(1 .. 7) /\ f.step \in 1 .. 7
  BY Constants DEF Flow
<1>2. Append(f.completed, f.step) \in Seq(1 .. 7)
  BY <1>1
<1> DEFINE c == Append(f.completed, f.step)
<1>3. Flow = [step : 0 .. 7, completed : Seq(1 .. 7), offered : BOOLEAN, started : BOOLEAN, offeredAt : Nat]
  BY Constants DEF Flow
<1>4. MovedTo(f, n) = [f EXCEPT !.step = n, !.completed = c] /\ c \in Seq(1 .. 7) /\ n \in 0 .. 7
  BY <1>2 DEF MovedTo
<1> HIDE DEF c
<1> QED  BY <1>3, <1>4

\* The requests that begin without a look at the flow.
LEMMA PlainAskKeepsInv ==
    ASSUME SubscriptionsInv, NEW r \in Requests, AskFeatures(r) \/ Upgrade(r) \/ Grant(r)
    PROVE  SubscriptionsInv'
<1>1. NoRequest \in Request /\ RequestInv(NoRequest)
  BY NoRequestFits DEF SubscriptionsInv
<1>2. ASSUME NEW a \in Request, a.pc = "looking", a.goal \in {"evaluate", "upgrade", "grant"}, Decided(a),
             a.loadedAt = 0, a.flow = NoFlow, Ask(r, a)
      PROVE  SubscriptionsInv'
  <2>1. Purposeful(a) /\ FlowInv(a.flow) /\ Forward(a)
    BY <1>2, Constants
       DEF SubscriptionsInv, SubscriptionsTypeOK, Purposeful, FlowInv, Forward, FlowGoals, LookGoals
  <2> QED  BY <1>2, <2>1, Asking DEF RequestInv
\* Nothing is known yet, or what this step finds.
<1>6. ASSUME NEW a \in Request, a.goal \notin {"trial", "accept"}, ~a.free, a.checkedAt = 0 PROVE Decided(a)
  BY <1>6 DEF SubscriptionsInv, SubscriptionsTypeOK, Decided, KnownFree
<1>7. ASSUME NEW a \in Request, a.goal \notin {"trial", "accept"}, a.free = Free, a.checkedAt = upgrades PROVE Decided(a)
  <2>1. a.free => ~Paid(subscription)
    BY <1>7, Zenon DEF Free
  <2>2. upgrades \in Nat
    BY DEF SubscriptionsInv, SubscriptionsTypeOK
  <2> QED  BY <1>7, <2>1, <2>2 DEF Decided, KnownFree
<1>3. CASE AskFeatures(r)
  <2> DEFINE a == [NoRequest EXCEPT !.pc = "looking", !.goal = "evaluate"]
  <2>1. a \in Request
    BY <1>1 DEF Request, Goals
  <2>2. a.pc = "looking" /\ a.goal = "evaluate" /\ ~a.free /\ a.checkedAt = 0 /\ a.loadedAt = 0 /\ a.flow = NoFlow
    BY DEF NoRequest
  <2>3. Ask(r, a)
    BY <1>3 DEF AskFeatures
  <2> HIDE DEF a
  <2>4. Decided(a)
    BY <1>6, <2>1, <2>2
  <2> QED  BY <1>2, <2>1, <2>2, <2>3, <2>4
<1>4. CASE Upgrade(r)
  <2>1. PICK t \in Tiers : Ask(r, [NoRequest EXCEPT !.pc = "looking", !.goal = "upgrade", !.tier = t])
    BY <1>4 DEF Upgrade
  <2> DEFINE a == [NoRequest EXCEPT !.pc = "looking", !.goal = "upgrade", !.tier = t]
  <2>2. a \in Request
    BY <1>1 DEF Request, Goals
  <2>3. a.pc = "looking" /\ a.goal = "upgrade" /\ ~a.free /\ a.checkedAt = 0 /\ a.loadedAt = 0 /\ a.flow = NoFlow
    BY DEF NoRequest
  <2>4. Ask(r, a)
    BY <2>1
  <2> HIDE DEF a
  <2>5. Decided(a)
    BY <1>6, <2>2, <2>3
  <2> QED  BY <1>2, <2>2, <2>3, <2>4, <2>5
<1>5. CASE Grant(r)
  <2> DEFINE a == [NoRequest EXCEPT !.pc = "looking", !.goal = "grant", !.free = Free, !.checkedAt = upgrades]
  <2>1. a \in Request
    <3>1. Free \in BOOLEAN /\ upgrades \in Nat
      BY DEF Free, SubscriptionsInv, SubscriptionsTypeOK
    <3> QED  BY <1>1, <3>1 DEF Request, Goals
  <2>2. /\ a.pc = "looking" /\ a.goal = "grant" /\ a.free = Free /\ a.checkedAt = upgrades
        /\ a.loadedAt = 0 /\ a.flow = NoFlow
    BY DEF NoRequest
  <2>3. Ask(r, a)
    BY <1>5 DEF Grant
  <2> HIDE DEF a
  <2>4. Decided(a)
    BY <1>7, <2>1, <2>2
  <2> QED  BY <1>2, <2>1, <2>2, <2>3, <2>4
<1> QED  BY <1>3, <1>4, <1>5

\* A request of the onboarding carries a copy f of the flow, moved or not.
LEMMA FlowRequest ==
    ASSUME SubscriptionsInv, NEW f \in Flow, FlowInv(f), flow.step <= f.step, NEW a \in Request,
           a.flow = f, a.loadedAt = flowSaves,
           \/ a.pc = "saving" /\ a.goal = "start" /\ ~a.free /\ a.checkedAt = 0
           \/ a.pc = "looking" /\ a.goal = "offer" /\ ~a.free /\ a.checkedAt = 0 /\ f.step = 4
           \/ /\ a.pc = "loading" /\ a.goal = "accept" /\ a.op = "start" /\ f.offered
              /\ a.checkedAt = f.offeredAt
    PROVE  RequestInv(a)
<1>1. Purposeful(a)
  BY DEF Purposeful, LookGoals, FlowGoals
<1>2. Decided(a)
  BY DEF SubscriptionsInv, SubscriptionsTypeOK, Decided, KnownFree, FlowInv
<1>3. Forward(a)
  BY DEF SubscriptionsInv, SubscriptionsTypeOK, Forward
<1> QED  BY <1>1, <1>2, <1>3 DEF RequestInv

LEMMA StartFlowKeepsInv ==
    ASSUME SubscriptionsInv, NEW r \in Requests, StartFlow(r)
    PROVE  SubscriptionsInv'
<1> DEFINE a == [NoRequest EXCEPT !.pc = "saving", !.goal = "start", !.flow = DefaultFlow, !.loadedAt = flowSaves]
<1>1. CASE flow = NoFlow
  <2>1. NoRequest \in Request
    BY NoRequestFits DEF SubscriptionsInv
  <2>2. a \in Request
    BY <2>1, Constants DEF Request, Goals, SubscriptionsInv, SubscriptionsTypeOK
  <2>3. /\ a.flow = DefaultFlow /\ a.loadedAt = flowSaves /\ a.pc = "saving" /\ a.goal = "start"
        /\ ~a.free /\ a.checkedAt = 0
    BY DEF NoRequest
  <2>4. FlowInv(DefaultFlow) /\ flow.step <= DefaultFlow.step
    BY <1>1, Constants DEF FlowInv
  <2>5. Ask(r, a)
    BY <1>1 DEF StartFlow
  <2> HIDE DEF a
  <2>6. RequestInv(a)
    BY <2>2, <2>3, <2>4, Constants, FlowRequest
  <2> QED  BY <2>2, <2>5, <2>6, Asking
<1>2. CASE flow # NoFlow
  <2>1. Ask(r, NoRequest)
    BY <1>2 DEF StartFlow
  <2> QED  BY <2>1, NoRequestFits, Asking DEF SubscriptionsInv
<1> QED  BY <1>1, <1>2

LEMMA NextInFlowKeepsInv ==
    ASSUME SubscriptionsInv, NEW r \in Requests, NextInFlow(r)
    PROVE  SubscriptionsInv' /\ UNCHANGED <<subscription, flow>>
<1> DEFINE f == IF flow = NoFlow THEN DefaultFlow ELSE flow
           q == [NoRequest EXCEPT !.pc = "saving", !.goal = "start", !.flow = f, !.loadedAt = flowSaves]
           At(g) == [q EXCEPT !.flow = g]
           Asks == [q EXCEPT !.pc = "looking", !.goal = "offer"]
           Accepts == [q EXCEPT !.pc = "loading", !.goal = "accept", !.op = "start",
                                !.flow = [MovedTo(f, 6) EXCEPT !.started = TRUE],
                                !.checkedAt = f.offeredAt]
<1>1. f \in Flow /\ FlowInv(f) /\ flow.step <= f.step
  BY Constants DEF SubscriptionsInv, SubscriptionsTypeOK, FlowInv, Flow
<1>2. NoRequest \in Request /\ flowSaves \in Nat
  BY NoRequestFits DEF SubscriptionsInv, SubscriptionsTypeOK
<1>3. q \in Request
  BY <1>1, <1>2 DEF Request, Goals
<1>4. /\ q.pc = "saving" /\ q.goal = "start" /\ ~q.free /\ q.checkedAt = 0
      /\ q.flow = f /\ q.loadedAt = flowSaves
  BY DEF NoRequest
<1>5. \/ f.step \in {1, 2, 3, 6} /\ \E g \in {f, MovedTo(f, f.step + 1)} : Ask(r, At(g))
      \/ f.step = 4 /\ Ask(r, Asks)
      \/ f.step = 5 /\ \E g \in {f, MovedTo(f, 6)} : Ask(r, At(g))
      \/ f.step = 5 /\ f.offered /\ Ask(r, Accepts)
      \/ f.step = 7 /\ Ask(r, q)
  <2>1. f.step \in {1, 2, 3, 4, 5, 6, 7} \/ f.step = 0
    BY <1>1, Constants DEF Flow
  <2>2. f.step # 0
    <3>1. CASE flow = NoFlow
      BY <3>1, Constants
    <3>2. CASE flow # NoFlow
      BY <3>2, <1>1 DEF FlowInv
    <3> QED  BY <3>1, <3>2
  <2> QED  BY <2>1, <2>2 DEF NextInFlow
<1> HIDE DEF f
<1>6. ASSUME NEW g \in Flow, FlowInv(g), flow.step <= g.step, Ask(r, At(g))
      PROVE  SubscriptionsInv' /\ UNCHANGED <<subscription, flow>>
  <2>1. At(g) \in Request
    BY <1>3 DEF Request
  <2>2. /\ At(g).pc = "saving" /\ At(g).goal = "start" /\ ~At(g).free /\ At(g).checkedAt = 0
        /\ At(g).flow = g /\ At(g).loadedAt = flowSaves
    BY <1>3, <1>4 DEF Request
  <2> HIDE DEF At
  <2>3. RequestInv(At(g))
    BY <1>6, <2>1, <2>2, FlowRequest
  <2> QED  BY <1>6, <2>1, <2>3, Asking
<1>7. ASSUME f.step # 0, NEW n \in 1 .. 7, f.step <= n
      PROVE  MovedTo(f, n) \in Flow /\ FlowInv(MovedTo(f, n)) /\ flow.step <= MovedTo(f, n).step
  <2>1. /\ MovedTo(f, n) \in Flow /\ MovedTo(f, n).step = n
        /\ MovedTo(f, n).offered = f.offered /\ MovedTo(f, n).offeredAt = f.offeredAt
    BY <1>1, <1>7, Moved
  <2>2. f.step \in Nat /\ flow.step \in Nat
    BY <1>1, Constants, SMTT(30) DEF Flow, SubscriptionsInv, SubscriptionsTypeOK
  <2> QED  BY <1>1, <1>7, <2>1, <2>2 DEF FlowInv
<1>8. CASE f.step \in {1, 2, 3, 6} /\ \E g \in {f, MovedTo(f, f.step + 1)} : Ask(r, At(g))
  <2>1. f.step + 1 \in 1 .. 7 /\ f.step <= f.step + 1 /\ f.step # 0
    BY <1>8
  <2>2. MovedTo(f, f.step + 1) \in Flow /\ FlowInv(MovedTo(f, f.step + 1)) /\ flow.step <= MovedTo(f, f.step + 1).step
    BY <1>7, <2>1
  <2> HIDE DEF At
  <2> QED  BY <1>1, <1>6, <1>8, <2>2
<1>9. CASE f.step = 5 /\ \E g \in {f, MovedTo(f, 6)} : Ask(r, At(g))
  <2>1. MovedTo(f, 6) \in Flow /\ FlowInv(MovedTo(f, 6)) /\ flow.step <= MovedTo(f, 6).step
    BY <1>7, <1>9
  <2> HIDE DEF At
  <2> QED  BY <1>1, <1>6, <1>9, <2>1
<1>10. CASE f.step = 4 /\ Ask(r, Asks)
  <2>1. Asks \in Request
    BY <1>3 DEF Request, Goals
  <2>2. /\ Asks.pc = "looking" /\ Asks.goal = "offer" /\ ~Asks.free /\ Asks.checkedAt = 0
        /\ Asks.flow = f /\ Asks.loadedAt = flowSaves
    BY <1>3, <1>4 DEF Request
  <2> HIDE DEF Asks
  <2>3. RequestInv(Asks)
    BY <1>1, <1>10, <2>1, <2>2, FlowRequest
  <2> QED  BY <1>10, <2>1, <2>3, Asking
<1>11. CASE f.step = 5 /\ f.offered /\ Ask(r, Accepts)
  <2> DEFINE g == [MovedTo(f, 6) EXCEPT !.started = TRUE]
  <2>1. MovedTo(f, 6) \in Flow /\ MovedTo(f, 6).step = 6 /\ FlowInv(MovedTo(f, 6)) /\ flow.step <= 6
        /\ MovedTo(f, 6).offered /\ MovedTo(f, 6).offeredAt = f.offeredAt
    BY <1>1, <1>7, <1>11, Moved
  <2>2. g \in Flow /\ g.step = 6 /\ g.offered /\ g.offeredAt = f.offeredAt
    BY <2>1 DEF Flow
  <2>3. FlowInv(g) /\ flow.step <= g.step
    BY <2>1, <2>2 DEF FlowInv
  <2> HIDE DEF g
  <2>4. f.offeredAt \in Nat
    BY <1>1 DEF Flow
  <2>5. Accepts = [q EXCEPT !.pc = "loading", !.goal = "accept", !.op = "start", !.flow = g, !.checkedAt = f.offeredAt]
    BY DEF g
  <2>6. Accepts \in Request
    <3> HIDE DEF Accepts
    <3> QED  BY <1>3, <2>2, <2>4, <2>5 DEF Request, Goals
  <2>7. /\ Accepts.pc = "loading" /\ Accepts.goal = "accept" /\ Accepts.op = "start"
        /\ Accepts.checkedAt = g.offeredAt /\ Accepts.flow = g /\ Accepts.loadedAt = flowSaves
    BY <1>3, <1>4, <2>2, <2>5 DEF Request
  <2> HIDE DEF Accepts
  <2>8. RequestInv(Accepts)
    BY <2>2, <2>3, <2>6, <2>7, FlowRequest
  <2> QED  BY <1>11, <2>6, <2>8, Asking
<1>12. CASE f.step = 7 /\ Ask(r, q)
  <2> HIDE DEF q
  <2>1. RequestInv(q)
    BY <1>1, <1>3, <1>4, FlowRequest
  <2> QED  BY <1>12, <1>3, <2>1, Asking
<1> QED  BY <1>5, <1>8, <1>9, <1>10, <1>11, <1>12

-----------------------------------------------------------------------------
\* What may follow an evaluation keeps what the evaluation found out.
LEMMA AfterLookFits ==
    ASSUME SubscriptionsInv, NEW q \in Request, q.goal \in LookGoals, q.goal = "offer" => q.flow.step = 4,
           Decided(q), FlowInv(q.flow), Forward(q), q.goal = "trial" \/ q.pc # "saving",
           NEW a \in AfterLook(q)
    PROVE  a \in Request /\ RequestInv(a) /\ a.pc # "writing"
<1>1. CASE q.goal = "evaluate"
  <2>1. a = NoRequest
    BY <1>1 DEF AfterLook
  <2> QED  BY <2>1, NoRequestFits DEF SubscriptionsInv
<1>2. CASE q.goal = "upgrade"
  <2>1. a = [q EXCEPT !.pc = "loading", !.op = "upsert"]
    BY <1>2 DEF AfterLook
  <2>2. /\ a \in Request /\ a.pc = "loading" /\ a.op = "upsert" /\ a.goal = "upgrade" /\ a.flow = q.flow
        /\ a.free = q.free /\ a.checkedAt = q.checkedAt /\ a.loadedAt = q.loadedAt
    BY <1>2, <2>1 DEF Request
  <2> QED  BY <1>2, <2>2 DEF RequestInv, Purposeful, Decided, KnownFree, Forward, FlowGoals
<1>3. CASE q.goal = "grant"
  <2>1. CASE q.free
    <3>1. a = [q EXCEPT !.pc = "looking", !.goal = "trial"]
      BY <1>3, <2>1 DEF AfterLook, GrantsTrial
    <3>2. /\ a \in Request /\ a.pc = "looking" /\ a.goal = "trial" /\ a.flow = q.flow
          /\ a.free = q.free /\ a.checkedAt = q.checkedAt /\ a.loadedAt = q.loadedAt
      BY <3>1 DEF Request, Goals
    <3> QED  BY <2>1, <3>2 DEF RequestInv, Purposeful, Decided, KnownFree, Forward, LookGoals, FlowGoals
  <2>2. CASE ~q.free
    <3>1. a = NoRequest
      BY <1>3, <2>2 DEF AfterLook, GrantsTrial
    <3> QED  BY <3>1, NoRequestFits DEF SubscriptionsInv
  <2> QED  BY <2>1, <2>2
<1>4. CASE q.goal = "trial"
  <2>1. a = [q EXCEPT !.pc = "loading", !.op = "start"]
    BY <1>4 DEF AfterLook
  <2>2. /\ a \in Request /\ a.pc = "loading" /\ a.op = "start" /\ a.goal = "trial" /\ a.flow = q.flow
        /\ a.free = q.free /\ a.checkedAt = q.checkedAt /\ a.loadedAt = q.loadedAt
    BY <1>4, <2>1 DEF Request
  <2> QED  BY <1>4, <2>2 DEF RequestInv, Purposeful, Decided, KnownFree, Forward, FlowGoals
<1>5. CASE q.goal = "offer"
  <2>1. PICK shown \in {5, 6}, recommended \in IF q.free THEN BOOLEAN ELSE {FALSE} : a = WithOffer(q, shown, recommended)
    <3> DEFINE S == IF q.free THEN {5, 6} ELSE {6}
               T == IF q.free THEN BOOLEAN ELSE {FALSE}
    <3>1. AfterLook(q) = {WithOffer(q, shown, recommended) : shown \in S, recommended \in T}
      BY <1>5 DEF AfterLook
    <3>2. S \subseteq {5, 6}
      OBVIOUS
    <3> HIDE DEF S
    <3>3. \E shown \in {5, 6}, recommended \in T : a = WithOffer(q, shown, recommended)
      <4> HIDE DEF T
      <4> QED  BY <3>1, <3>2
    <3> QED  BY <3>3
  <2>2. q.flow \in Flow /\ q.checkedAt \in Nat /\ recommended \in BOOLEAN
    BY <2>1 DEF Request
  <2> DEFINE g == [MovedTo(q.flow, shown) EXCEPT !.offered = recommended, !.offeredAt = q.checkedAt]
  <2>3. MovedTo(q.flow, shown) \in Flow /\ MovedTo(q.flow, shown).step = shown
    BY <1>5, <2>2, Moved
  <2>4. g \in Flow /\ g.step = shown /\ g.offered = recommended /\ g.offeredAt = q.checkedAt
    BY <2>2, <2>3 DEF Flow
  <2>9. a = [q EXCEPT !.pc = "saving", !.flow = g]
    BY <2>1 DEF WithOffer
  <2> HIDE DEF g
  <2>5. /\ a \in Request /\ a.pc = "saving" /\ a.goal = "offer" /\ a.flow = g
        /\ a.free = q.free /\ a.checkedAt = q.checkedAt /\ a.loadedAt = q.loadedAt
    BY <1>5, <2>4, <2>9 DEF Request
  <2>6. FlowInv(g)
    <3>1. recommended => q.free
      BY <2>1
    <3>2. g.step # 0
      BY <2>4
    <3>3. g.offered => g.offeredAt <= upgrades /\ (g.offeredAt = upgrades => ~Paid(subscription))
      BY <2>4, <3>1 DEF Decided, KnownFree
    <3> QED  BY <3>2, <3>3 DEF FlowInv
  <2>7. Forward(a)
    BY <1>5, <2>4, <2>5 DEF Forward, FlowGoals, SubscriptionsInv, SubscriptionsTypeOK, Flow
  <2>8. Purposeful(a) /\ Decided(a)
    BY <1>5, <2>4, <2>5 DEF Purposeful, Decided, KnownFree, FlowGoals
  <2> QED  BY <2>5, <2>6, <2>7, <2>8 DEF RequestInv
<1> QED  BY <1>1, <1>2, <1>3, <1>4, <1>5 DEF LookGoals

LEMMA LookKeepsInv ==
    ASSUME SubscriptionsInv, NEW r \in Requests, Look(r)
    PROVE  SubscriptionsInv'
<1> DEFINE p == request[r]
           q == [p EXCEPT !.free = IF p.goal = "grant" THEN @ /\ ~Running(subscription) ELSE Free,
                          !.checkedAt = IF p.goal \in {"grant", "trial"} THEN @ ELSE upgrades,
                          !.over = subscription.ends]
<1>1. p \in Request /\ RequestInv(p) /\ p.pc = "looking"
  BY DEF SubscriptionsInv, SubscriptionsTypeOK, Look
<1>2. subscription \in Subscription /\ upgrades \in Nat /\ instant \in Nat /\ subscription.ends \in Nat
  <2>1. subscription \in Subscription /\ upgrades \in Nat /\ instant \in Nat
    BY SubscriptionsAssumption DEF SubscriptionsInv, SubscriptionsTypeOK
  <2> QED  BY <2>1 DEF Subscription
<1>3. \/ Over(subscription) /\ Becomes(r, [q EXCEPT !.pc = "loading", !.op = "clear"])
      \/ \E a \in AfterLook(q) : Becomes(r, a)
  BY DEF Look
<1>4. UNCHANGED <<subscription, flow, requests, instant, upgrades, flowSaves>>
  BY DEF Look
<1> HIDE DEF p
<1>5. /\ q \in Request /\ q.pc = "looking" /\ q.goal = p.goal /\ q.over = subscription.ends /\ q.flow = p.flow
      /\ q.free = (IF p.goal = "grant" THEN p.free /\ ~Running(subscription) ELSE Free) /\ q.loadedAt = p.loadedAt
      /\ q.checkedAt = IF p.goal \in {"grant", "trial"} THEN p.checkedAt ELSE upgrades
  <2> DEFINE free == IF p.goal = "grant" THEN p.free /\ ~Running(subscription) ELSE Free
             checked == IF p.goal \in {"grant", "trial"} THEN p.checkedAt ELSE upgrades
  <2>1. free \in BOOLEAN /\ checked \in Nat
    BY <1>1, <1>2 DEF Request, Free
  <2>2. q = [p EXCEPT !.free = free, !.checkedAt = checked, !.over = subscription.ends]
    BY <1>1 DEF Request
  <2> HIDE DEF free, checked, q
  <2>3. /\ q \in Request /\ q.pc = "looking" /\ q.goal = p.goal /\ q.over = subscription.ends /\ q.flow = p.flow
        /\ q.free = free /\ q.loadedAt = p.loadedAt /\ q.checkedAt = checked
    BY <1>1, <1>2, <2>1, <2>2 DEF Request
  <2> QED  BY <2>3 DEF free, checked
<1> HIDE DEF q
<1>6. Decided(q)
  <2>1. CASE p.goal \in {"grant", "trial"}
    BY <1>1, <1>5, <2>1 DEF RequestInv, Decided, KnownFree
  <2>2. CASE p.goal \notin {"grant", "trial"}
    <3>1. q.checkedAt = upgrades /\ q.goal \notin {"trial", "accept"} /\ (q.free => ~Paid(subscription))
      BY <1>1, <1>5, <2>2 DEF RequestInv, Purposeful, LookGoals, Free
    <3> QED  BY <1>2, <3>1 DEF Decided, KnownFree
  <2> QED  BY <2>1, <2>2
<1>7. FlowInv(q.flow) /\ Forward(q) /\ q.goal \in LookGoals /\ (q.goal = "offer" => q.flow.step = 4)
  BY <1>1, <1>5 DEF RequestInv, Forward, Purposeful
<1>8. requests' \in 0 .. MaxRequests
  BY <1>4 DEF SubscriptionsInv, SubscriptionsTypeOK
<1>9. CASE Over(subscription) /\ Becomes(r, [q EXCEPT !.pc = "loading", !.op = "clear"])
  <2> DEFINE a == [q EXCEPT !.pc = "loading", !.op = "clear"]
  <2>1. /\ a \in Request /\ a.pc = "loading" /\ a.op = "clear" /\ a.goal = q.goal /\ a.over = q.over
        /\ a.free = q.free /\ a.checkedAt = q.checkedAt /\ a.loadedAt = q.loadedAt /\ a.flow = q.flow
    BY <1>5 DEF Request
  <2> HIDE DEF a
  <2>2. Purposeful(a)
    BY <1>2, <1>5, <1>7, <1>9, <2>1 DEF Purposeful, Over
  <2>3. Decided(a) /\ Forward(a) /\ FlowInv(a.flow)
    BY <1>6, <1>7, <2>1 DEF Decided, KnownFree, Forward
  <2>4. Becomes(r, a)
    BY <1>9 DEF a
  <2> QED  BY <1>4, <1>8, <2>1, <2>2, <2>3, <2>4, OnlyReads DEF RequestInv
<1>10. CASE \E a \in AfterLook(q) : Becomes(r, a)
  <2>1. PICK a \in AfterLook(q) : Becomes(r, a)
    BY <1>10
  <2>2. a \in Request /\ RequestInv(a)
    BY <1>5, <1>6, <1>7, AfterLookFits
  <2> QED  BY <1>4, <1>8, <2>1, <2>2, OnlyReads
<1> QED  BY <1>3, <1>9, <1>10

LEMMA LoadKeepsInv ==
    ASSUME SubscriptionsInv, NEW r \in Requests, LoadSubscription(r)
    PROVE  SubscriptionsInv'
<1> DEFINE p == request[r]
           a == [p EXCEPT !.pc = "writing", !.row = subscription]
<1>1. p \in Request /\ RequestInv(p) /\ p.pc = "loading" /\ Becomes(r, a)
  BY DEF SubscriptionsInv, SubscriptionsTypeOK, LoadSubscription
<1>2. subscription \in Subscription /\ requests' \in 0 .. MaxRequests
  BY DEF SubscriptionsInv, SubscriptionsTypeOK, LoadSubscription
<1> HIDE DEF p
<1>3. /\ a \in Request /\ a.pc = "writing" /\ a.op = p.op /\ a.goal = p.goal /\ a.over = p.over
      /\ a.free = p.free /\ a.checkedAt = p.checkedAt /\ a.loadedAt = p.loadedAt /\ a.flow = p.flow
  BY <1>1, <1>2 DEF Request
<1> HIDE DEF a
<1>4. RequestInv(a)
  BY <1>1, <1>3 DEF RequestInv, Purposeful, Decided, KnownFree, Forward
<1> QED  BY <1>1, <1>2, <1>3, <1>4, OnlyReads DEF LoadSubscription

LEMMA FailingKeepsInv ==
    ASSUME SubscriptionsInv, NEW r \in Requests, RequestFails(r)
    PROVE  SubscriptionsInv'
<1>1. requests' \in 0 .. MaxRequests
  BY DEF SubscriptionsInv, SubscriptionsTypeOK, RequestFails
<1> QED  BY <1>1, NoRequestFits, OnlyReads DEF RequestFails, SubscriptionsInv


-----------------------------------------------------------------------------
\* What a write leaves: columns that it does not assign are as they are stored.
LEMMA FlushedFits ==
    ASSUME subscription \in Subscription, instant \in Nat, NEW q \in Request, q.op # "none"
    PROVE  /\ Assigned(q) \in Subscription /\ Flushed(q) \in Subscription
           /\ \A col \in {"tier", "trial", "ends"} :
                 Flushed(q)[col] = IF Assigned(q)[col] # q.row[col] THEN Assigned(q)[col] ELSE subscription[col]
<1>1. q.row \in Subscription /\ q.tier \in Tiers /\ q.op \in {"upsert", "start", "clear"}
  BY DEF Request
<1>2. Assigned(q) \in Subscription
  <2>1. CASE q.op = "upsert"
    BY <1>1, <2>1 DEF Assigned, Subscription
  <2>2. CASE q.op = "start"
    <3>1. Assigned(q) = [tier |-> "free", trial |-> TRUE, ends |-> instant + 1]
      BY <2>2 DEF Assigned
    <3>2. instant + 1 \in Nat
      OBVIOUS
    <3> DEFINE T == Tiers \cup {"no row"}
    <3>3. "free" \in T
      BY DEF Tiers
    <3> HIDE DEF T
    <3>4. Subscription = [tier : T, trial : BOOLEAN, ends : Nat]
      BY DEF Subscription, T
    <3> QED  BY <3>1, <3>2, <3>3, <3>4
  <2>3. CASE q.op = "clear"
    BY <1>1, <2>3 DEF Assigned, Subscription
  <2> QED  BY <1>1, <2>1, <2>2, <2>3
<1>3. DOMAIN NoSubscription = {"tier", "trial", "ends"}
  BY DEF NoSubscription
<1> DEFINE New == Assigned(q)
<1> HIDE DEF New
<1>4. Flushed(q) = [col \in {"tier", "trial", "ends"} |-> IF New[col] # q.row[col] THEN New[col] ELSE subscription[col]]
  BY <1>3 DEF Flushed, New
<1>5. New \in Subscription
  BY <1>2 DEF New
<1>6. Flushed(q) \in Subscription
  <2> DEFINE T == Tiers \cup {"no row"}
             new == Flushed(q)
  <2> HIDE DEF T
  <2>1. Subscription = [tier : T, trial : BOOLEAN, ends : Nat]
    BY DEF Subscription, T
  <2>2. new = [tier |-> new.tier, trial |-> new.trial, ends |-> new.ends]
    BY <1>4, Zenon
  <2>3. new.tier \in T /\ new.trial \in BOOLEAN /\ new.ends \in Nat
    BY <1>1, <1>4, <1>5, <2>1
  <2> QED  BY <2>1, <2>2, <2>3
<1> QED  BY <1>2, <1>4, <1>6 DEF New

\* A tier is paid for by an upgrade only.
LEMMA OnlyUpsertsPay ==
    ASSUME subscription \in Subscription, instant \in Nat, NEW q \in Request, q.op # "none", Paid(Flushed(q))
    PROVE  Paid(subscription) \/ q.op = "upsert"
<1>1. q.row \in Subscription /\ q.op \in {"upsert", "start", "clear"}
  BY DEF Request
<1>2. Flushed(q).tier = IF Assigned(q).tier # q.row.tier THEN Assigned(q).tier ELSE subscription.tier
  BY FlushedFits, Z3
<1>3. CASE q.op = "start"
  <2>1. Assigned(q).tier = "free"
    BY <1>3 DEF Assigned
  <2> QED  BY <1>2, <2>1 DEF Paid
<1>4. CASE q.op = "clear"
  <2>1. Assigned(q).tier = q.row.tier
    BY <1>1, <1>4 DEF Assigned, Subscription
  <2> QED  BY <1>2, <2>1 DEF Paid
<1> QED  BY <1>1, <1>3, <1>4

LEMMA AfterWriteFits ==
    ASSUME SubscriptionsInv, NEW q \in Request, RequestInv(q), q.pc = "writing", NEW a \in AfterWrite(q)
    PROVE  a \in Request /\ RequestInv(a) /\ a.pc # "writing"
<1>1. CASE q.op = "clear"
  <2> DEFINE p == [q EXCEPT !.op = "none"]
  <2>1. /\ p \in Request /\ p.goal = q.goal /\ p.flow = q.flow /\ p.free = q.free
        /\ p.checkedAt = q.checkedAt /\ p.loadedAt = q.loadedAt /\ p.pc = "writing"
    BY DEF Request
  <2>2. a \in AfterLook(p)
    BY <1>1 DEF AfterWrite
  <2> HIDE DEF p
  <2>3. /\ p.goal \in LookGoals /\ (p.goal = "offer" => p.flow.step = 4)
        /\ Decided(p) /\ FlowInv(p.flow) /\ Forward(p)
    BY <1>1, <2>1 DEF RequestInv, Purposeful, Decided, KnownFree, Forward
  <2> QED  BY <2>1, <2>2, <2>3, AfterLookFits
<1>2. CASE q.op = "upsert"
  <2>1. a = NoRequest
    BY <1>2 DEF AfterWrite
  <2> QED  BY <2>1, NoRequestFits DEF SubscriptionsInv
<1>3. CASE q.op = "start" /\ q.goal = "accept"
  <2>1. a = [q EXCEPT !.pc = "saving"]
    BY <1>3 DEF AfterWrite
  <2>2. /\ a \in Request /\ a.pc = "saving" /\ a.goal = "accept" /\ a.flow = q.flow
        /\ a.free = q.free /\ a.checkedAt = q.checkedAt /\ a.loadedAt = q.loadedAt
    BY <1>3, <2>1 DEF Request
  <2> QED  BY <1>3, <2>2 DEF RequestInv, Purposeful, Decided, KnownFree, Forward, FlowGoals
<1>4. CASE q.op = "start" /\ q.goal # "accept"
  <2>1. a = [NoRequest EXCEPT !.pc = "looking", !.goal = "evaluate"]
    BY <1>4 DEF AfterWrite
  <2>2. NoRequest \in Request
    BY NoRequestFits DEF SubscriptionsInv
  <2>3. a \in Request
    BY <2>1, <2>2 DEF Request, Goals
  <2>4. /\ a.pc = "looking" /\ a.goal = "evaluate" /\ ~a.free
        /\ a.checkedAt = 0 /\ a.loadedAt = 0 /\ a.flow = NoFlow
    BY <2>1 DEF NoRequest
  <2>5. Purposeful(a) /\ Decided(a) /\ FlowInv(a.flow) /\ Forward(a)
    BY <2>4, Constants
       DEF SubscriptionsInv, SubscriptionsTypeOK, Purposeful, Decided, KnownFree, FlowInv, Forward, FlowGoals, LookGoals
  <2> QED  BY <2>3, <2>4, <2>5 DEF RequestInv
<1>5. q.op \in {"clear", "upsert", "start"}
  BY DEF RequestInv, Purposeful
<1> QED  BY <1>1, <1>2, <1>3, <1>4, <1>5

LEMMA WriteKeepsInv ==
    ASSUME SubscriptionsInv, NEW r \in Requests, WriteSubscription(r)
    PROVE  SubscriptionsInv'
<1> DEFINE q == request[r]
<1>1. q \in Request /\ RequestInv(q) /\ q.pc = "writing"
  BY DEF SubscriptionsInv, SubscriptionsTypeOK, WriteSubscription
<1>2. /\ subscription \in Subscription /\ flow \in Flow /\ FlowInv(flow) /\ instant \in Nat
      /\ upgrades \in Nat /\ flowSaves \in Nat /\ requests \in 0 .. MaxRequests
  BY SubscriptionsAssumption DEF SubscriptionsInv, SubscriptionsTypeOK
<1>3. UNCHANGED <<flow, requests, instant, flowSaves>>
  BY DEF WriteSubscription
<1>4. \/ Becomes(r, NoRequest) /\ UNCHANGED <<subscription, upgrades>>
      \/ /\ subscription' = Flushed(q)
         /\ upgrades' = IF q.op = "upsert" THEN upgrades + 1 ELSE upgrades
         /\ \E a \in AfterWrite(q) : Becomes(r, a)
  BY DEF WriteSubscription
<1> HIDE DEF q
<1>5. CASE Becomes(r, NoRequest) /\ UNCHANGED <<subscription, upgrades>>
  BY <1>2, <1>3, <1>5, NoRequestFits, OnlyReads DEF SubscriptionsInv
<1>6. CASE /\ subscription' = Flushed(q)
           /\ upgrades' = IF q.op = "upsert" THEN upgrades + 1 ELSE upgrades
           /\ \E a \in AfterWrite(q) : Becomes(r, a)
  <2>1. PICK a \in AfterWrite(q) : Becomes(r, a)
    BY <1>6
  <2>2. a \in Request /\ RequestInv(a)
    BY <1>1, AfterWriteFits
  <2>3. q.op # "none"
    BY <1>1 DEF RequestInv, Purposeful
  <2>4. subscription' \in Subscription
    BY <1>1, <1>2, <1>6, <2>3, FlushedFits
  <2>5. Paid(subscription') => Paid(subscription) \/ q.op = "upsert"
    BY <1>1, <1>2, <1>6, <2>3, OnlyUpsertsPay
  <2>6. Onward /\ upgrades' \in Nat
    BY <1>2, <1>3, <1>6, <2>5 DEF Onward
  <2>7. flow' = flow /\ instant' = instant /\ flowSaves' \in Nat /\ requests' \in 0 .. MaxRequests
    BY <1>2, <1>3
  <2> QED  BY <1>2, <2>1, <2>2, <2>4, <2>6, <2>7, OneRequest
<1> QED  BY <1>4, <1>5, <1>6

LEMMA SaveFlowKeepsInv ==
    ASSUME SubscriptionsInv, NEW r \in Requests, SaveFlow(r)
    PROVE  SubscriptionsInv'
<1> DEFINE q == request[r]
           a == IF q.pc = "saving" /\ q.flow.step = Len(FlowSteps) THEN [q EXCEPT !.pc = "completing"] ELSE NoRequest
<1>1. q \in Request /\ RequestInv(q) /\ q.pc \in {"saving", "completing"}
  BY DEF SubscriptionsInv, SubscriptionsTypeOK, SaveFlow
<1>2. /\ subscription \in Subscription /\ upgrades \in Nat /\ flowSaves \in Nat /\ requests \in 0 .. MaxRequests
      /\ flow \in Flow /\ instant \in Nat
  BY SubscriptionsAssumption DEF SubscriptionsInv, SubscriptionsTypeOK
<1>3. /\ UNCHANGED <<subscription, requests, instant, upgrades>> /\ flowSaves' = flowSaves + 1
      /\ flow' = q.flow /\ Becomes(r, a)
  BY DEF SaveFlow
<1> HIDE DEF q
<1>4. a \in Request /\ RequestInv(a)
  <2>1. CASE q.pc = "saving" /\ q.flow.step = Len(FlowSteps)
    <3>1. /\ a \in Request /\ a.pc = "completing" /\ a.goal = q.goal /\ a.flow = q.flow
          /\ a.free = q.free /\ a.checkedAt = q.checkedAt /\ a.loadedAt = q.loadedAt
      BY <1>1, <2>1 DEF Request
    <3>2. q.goal # "offer"
      BY <1>1, <2>1, Constants DEF RequestInv, Purposeful
    <3> QED  BY <1>1, <2>1, <3>1, <3>2 DEF RequestInv, Purposeful, Decided, KnownFree, Forward
  <2>2. CASE ~(q.pc = "saving" /\ q.flow.step = Len(FlowSteps))
    BY <2>2, NoRequestFits DEF SubscriptionsInv
  <2> QED  BY <2>1, <2>2
<1> HIDE DEF a
<1>5. Onward
  BY <1>2, <1>3 DEF Onward
<1>6. q.flow \in Flow /\ FlowInv(q.flow)
  BY <1>1 DEF Request, RequestInv
<1>7. subscription' \in Subscription /\ upgrades' \in Nat /\ flowSaves' \in Nat /\ requests' \in 0 .. MaxRequests
  BY <1>2, <1>3
<1> QED  BY <1>3, <1>4, <1>5, <1>6, <1>7, OneRequest

LEMMA StepKeepsSubscriptions == SubscriptionsInv /\ [SubscriptionsNext]_subscriptionsVars => SubscriptionsInv'
<1> SUFFICES ASSUME SubscriptionsInv, [SubscriptionsNext]_subscriptionsVars PROVE SubscriptionsInv'
  OBVIOUS
<1>1. CASE ClockTicks
  <2>1. /\ UNCHANGED <<subscription, flow, request, requests, upgrades, flowSaves>>
        /\ instant' = instant + 1 /\ instant \in 0 .. LastInstant /\ instant < LastInstant
    BY <1>1 DEF ClockTicks, SubscriptionsInv, SubscriptionsTypeOK
  <2>2. SubscriptionsTypeOK'
    BY <2>1, SubscriptionsAssumption DEF SubscriptionsInv, SubscriptionsTypeOK
  <2>3. Onward
    BY <2>1 DEF Onward, SubscriptionsInv, SubscriptionsTypeOK
  <2>4. FlowInv(flow)'
    BY <2>1 DEF SubscriptionsInv, FlowInv
  <2>5. ASSUME NEW r \in Requests PROVE RequestInv(request[r])'
    <3>1. PICK q \in Request : q = request[r] /\ RequestInv(q)
      BY DEF SubscriptionsInv, SubscriptionsTypeOK
    <3>2. RequestInv(q)'
      BY <2>2, <2>3, <3>1, StaysTrue DEF SubscriptionsInv
    <3> QED  BY <2>1, <3>1, <3>2 DEF RequestInv, Purposeful, Decided, KnownFree, FlowInv, Forward
  <2> QED  BY <2>2, <2>4, <2>5 DEF SubscriptionsInv
<1>2. ASSUME NEW r \in Requests,
             \/ AskFeatures(r) \/ Upgrade(r) \/ Grant(r) \/ StartFlow(r) \/ NextInFlow(r)
             \/ Look(r) \/ LoadSubscription(r) \/ WriteSubscription(r) \/ SaveFlow(r) \/ RequestFails(r)
      PROVE  SubscriptionsInv'
  BY <1>2, PlainAskKeepsInv, StartFlowKeepsInv, NextInFlowKeepsInv, LookKeepsInv, LoadKeepsInv,
     WriteKeepsInv, SaveFlowKeepsInv, FailingKeepsInv
<1>3. CASE UNCHANGED subscriptionsVars
  BY <1>3 DEF subscriptionsVars, SubscriptionsInv, SubscriptionsTypeOK, RequestInv, Purposeful, Decided, KnownFree, FlowInv,
     Forward, Paid
<1> QED  BY <1>1, <1>2, <1>3 DEF SubscriptionsNext

LEMMA Invariant == SubscriptionsSpec => []SubscriptionsInv
BY SubscriptionsInitially, StepKeepsSubscriptions, PTL DEF SubscriptionsSpec

\* Every variable keeps its type: a row of subscriptions or of the flow is one that the
\* code can store, whatever requests merge into it.
THEOREM SubscriptionsTypeCorrect == SubscriptionsSpec => []SubscriptionsTypeOK
BY Invariant, PTL DEF SubscriptionsInv

-----------------------------------------------------------------------------
\* The step that a property is about, and the request that takes it.
Loses ==
    \/ Paid(subscription) /\ ~Paid(subscription')
    \/ Running(subscription) /\ ~Running(subscription') /\ instant' = instant
    \/ flow'.step < flow.step

LEMMA OnlyWritesLose ==
    ASSUME SubscriptionsInv, [SubscriptionsNext]_subscriptionsVars, Loses
    PROVE  \E r \in Requests : WriteSubscription(r) \/ SaveFlow(r)
<1>1. instant \in Nat /\ flow.step \in Nat
  BY SubscriptionsAssumption, Constants DEF SubscriptionsInv, SubscriptionsTypeOK, Flow
<1>2. ~ UNCHANGED <<subscription, flow>>
  BY <1>1 DEF Loses, Running, Paid
<1>3. UNCHANGED subscriptionsVars \/ ClockTicks => UNCHANGED <<subscription, flow>>
  BY DEF subscriptionsVars, ClockTicks
<1>4. ASSUME NEW r \in Requests,
             \/ AskFeatures(r) \/ Upgrade(r) \/ Grant(r) \/ StartFlow(r) \/ NextInFlow(r)
             \/ Look(r) \/ LoadSubscription(r) \/ RequestFails(r)
      PROVE  UNCHANGED <<subscription, flow>>
  BY <1>4, NextInFlowKeepsInv, Zenon
     DEF AskFeatures, Upgrade, Grant, StartFlow, Ask, Look, LoadSubscription, RequestFails
<1> QED  BY <1>2, <1>3, <1>4, Zenon DEF SubscriptionsNext

LEMMA WritesAct ==
    ASSUME SubscriptionsInv, NEW r \in Requests, WriteSubscription(r)
    PROVE  Acts(r) /\ request[r].pc = "writing"
<1> DEFINE q == request[r]
<1>1. q \in Request /\ RequestInv(q) /\ q.pc = "writing"
  BY DEF SubscriptionsInv, SubscriptionsTypeOK, WriteSubscription
<1>2. \E a \in {NoRequest} \cup AfterWrite(q) : Becomes(r, a)
  BY DEF WriteSubscription
<1> HIDE DEF q
<1>3. PICK a \in {NoRequest} \cup AfterWrite(q) : Becomes(r, a)
  BY <1>2
<1>4. a.pc # "writing"
  BY <1>1, AfterWriteFits, NoRequestFits DEF SubscriptionsInv
<1>5. request'[r] = a
  BY <1>3 DEF Becomes, SubscriptionsInv, SubscriptionsTypeOK
<1> QED  BY <1>1, <1>4, <1>5 DEF Acts, q

LEMMA SavesAct ==
    ASSUME SubscriptionsInv, NEW r \in Requests, SaveFlow(r)
    PROVE  Acts(r)
<1> DEFINE q == request[r]
           a == IF q.pc = "saving" /\ q.flow.step = Len(FlowSteps) THEN [q EXCEPT !.pc = "completing"] ELSE NoRequest
<1>1. q \in Request /\ q.pc \in {"saving", "completing"} /\ Becomes(r, a)
  BY DEF SubscriptionsInv, SubscriptionsTypeOK, SaveFlow
<1> HIDE DEF q
<1>2. a.pc # q.pc
  BY <1>1, NoRequestFits DEF SubscriptionsInv, Request
<1>3. request'[r] = a
  BY <1>1 DEF Becomes, SubscriptionsInv, SubscriptionsTypeOK
<1> QED  BY <1>2, <1>3 DEF Acts, q

\* The cases of the property for a write of the subscription.
LEMMA WriteLosesOnlyToAnEarlierDecision ==
    ASSUME SubscriptionsInv, NEW r \in Requests, WriteSubscription(r)
    PROVE  /\ Paid(subscription) /\ ~Paid(subscription') =>
                Was(r, "upsert") \/ (Was(r, "start") /\ request[r].checkedAt < upgrades)
           /\ Running(subscription) /\ ~Running(subscription') /\ instant' = instant =>
                Was(r, "upsert") \/ (Was(r, "clear") /\ request[r].over < subscription.ends)
<1> DEFINE q == request[r]
<1>1. q \in Request /\ RequestInv(q) /\ q.pc = "writing" /\ \A op \in {"upsert", "start", "clear"} : q.op = op => Was(r, op)
  BY WritesAct DEF SubscriptionsInv, SubscriptionsTypeOK, Was
<1>2. subscription \in Subscription /\ instant \in Nat /\ upgrades \in Nat
  BY SubscriptionsAssumption DEF SubscriptionsInv, SubscriptionsTypeOK
<1>3. subscription' = subscription \/ subscription' = Flushed(q)
  BY DEF WriteSubscription
<1>4. q.op \in {"upsert", "start", "clear"} /\ q.checkedAt \in Nat /\ q.over \in Nat /\ q.row \in Subscription
  BY <1>1 DEF RequestInv, Purposeful, Request
<1> HIDE DEF q
<1>5. /\ Flushed(q).tier = IF Assigned(q).tier # q.row.tier THEN Assigned(q).tier ELSE subscription.tier
      /\ Flushed(q).trial = IF Assigned(q).trial # q.row.trial THEN Assigned(q).trial ELSE subscription.trial
      /\ Flushed(q).ends = IF Assigned(q).ends # q.row.ends THEN Assigned(q).ends ELSE subscription.ends
  BY <1>1, <1>2, <1>4, FlushedFits, Z3
<1>6. CASE subscription' = subscription
  BY <1>6 DEF Paid, Running
<1>7. CASE subscription' = Flushed(q) /\ q.op = "start"
  <2>1. Assigned(q).trial = TRUE /\ Assigned(q).ends = instant + 1
    BY <1>7 DEF Assigned
  <2>2. Running(subscription) => Running(subscription')
    <3>1. subscription.trial \in BOOLEAN /\ subscription.ends \in Nat
      BY <1>2 DEF Subscription
    <3>2. subscription.trial => subscription'.trial
      BY <1>5, <1>7, <2>1, <3>1
    <3>3. subscription.ends > instant => subscription'.ends > instant
      BY <1>2, <1>5, <1>7, <2>1, <3>1
    <3> QED  BY <3>2, <3>3 DEF Running
  <2>3. Paid(subscription) => q.checkedAt < upgrades
    <3>1. KnownFree(q) /\ Decided(q)
      BY <1>1, <1>7 DEF RequestInv, Purposeful, KnownFree
    <3> QED  BY <1>2, <1>4, <3>1 DEF Decided
  <2> QED  BY <1>1, <1>7, <2>2, <2>3 DEF q
<1>8. CASE subscription' = Flushed(q) /\ q.op = "clear"
  <2>1. Assigned(q).tier = q.row.tier
    BY <1>4, <1>8 DEF Assigned, Subscription
  <2>2. Paid(subscription) => Paid(subscription')
    BY <1>5, <1>8, <2>1 DEF Paid
  <2>3. subscription.ends \in Nat
    BY <1>2 DEF Subscription
  <2>4. Running(subscription) => q.over < subscription.ends
    BY <1>1, <1>2, <1>4, <1>8, <2>3 DEF RequestInv, Purposeful, Running
  <2> QED  BY <1>1, <1>8, <2>2, <2>4 DEF q
<1>9. CASE q.op = "upsert"
  BY <1>1, <1>9
<1> QED  BY <1>3, <1>4, <1>6, <1>7, <1>8, <1>9

\* Nobody loses a paid tier, a running trial or a place in the onboarding but to an upgrade
\* that was asked for or to a request that had decided, or loaded, before it was given:
\* whatever requests read, write, merge and save in one another's middle.
THEOREM NothingIsTakenAway == SubscriptionsSpec => LostOnlyToAnEarlierDecision
<1> DEFINE Keeps ==
      /\ Paid(subscription) /\ ~Paid(subscription') =>
             \E r \in Requests : Was(r, "upsert") \/ (Was(r, "start") /\ request[r].checkedAt < upgrades)
      /\ Running(subscription) /\ ~Running(subscription') /\ instant' = instant =>
             \E r \in Requests : Was(r, "upsert") \/ (Was(r, "clear") /\ request[r].over < subscription.ends)
      /\ flow'.step < flow.step =>
             \E r \in Requests : Acts(r) /\ flow' = request[r].flow /\ request[r].loadedAt < flowSaves
<1>1. ASSUME SubscriptionsInv, [SubscriptionsNext]_subscriptionsVars PROVE Keeps
  <2>1. CASE ~Loses
    BY <2>1 DEF Loses
  <2>2. CASE Loses
    <3>1. PICK r \in Requests : WriteSubscription(r) \/ SaveFlow(r)
      BY <1>1, <2>2, OnlyWritesLose
    <3>2. flow.step \in Nat /\ flowSaves \in Nat
      BY <1>1, Constants DEF SubscriptionsInv, SubscriptionsTypeOK, Flow
    <3>3. CASE WriteSubscription(r)
      <4>1. ~(flow'.step < flow.step)
        BY <3>2, <3>3 DEF WriteSubscription
      <4> QED  BY <1>1, <3>3, <4>1, WriteLosesOnlyToAnEarlierDecision
    <3>4. CASE SaveFlow(r)
      <4>1. subscription' = subscription /\ instant' = instant /\ flow' = request[r].flow
        BY <3>4 DEF SaveFlow
      <4>2. request[r] \in Request /\ RequestInv(request[r]) /\ request[r].pc \in {"saving", "completing"}
        BY <1>1, <3>4 DEF SubscriptionsInv, SubscriptionsTypeOK, SaveFlow
      <4>3. request[r].goal \in FlowGoals /\ request[r].loadedAt \in Nat /\ request[r].flow.step \in Nat
        <5>1. request[r].goal \in FlowGoals
          BY <4>2 DEF RequestInv, Purposeful
        <5>2. request[r].loadedAt \in Nat /\ request[r].flow \in Flow
          BY <4>2 DEF Request
        <5>3. request[r].flow.step \in Nat
          BY <5>2, Constants, SMTT(30) DEF Flow
        <5> QED  BY <5>1, <5>2, <5>3
      <4>4. flow'.step < flow.step => request[r].loadedAt < flowSaves
        BY <3>2, <4>1, <4>2, <4>3 DEF RequestInv, Forward
      <4>5. Acts(r)
        BY <1>1, <3>4, SavesAct
      <4>6. Paid(subscription) => Paid(subscription')
        BY <4>1 DEF Paid
      <4>7. Running(subscription) => Running(subscription')
        BY <4>1 DEF Running
      <4> QED  BY <4>1, <4>4, <4>5, <4>6, <4>7
    <3> QED  BY <3>1, <3>3, <3>4
  <2> QED  BY <2>1, <2>2
<1>2. SubscriptionsInv /\ [SubscriptionsNext]_subscriptionsVars => [Keeps]_subscriptionsVars
  BY <1>1
<1> QED  BY <1>2, Invariant, PTL DEF SubscriptionsSpec, LostOnlyToAnEarlierDecision
=============================================================================

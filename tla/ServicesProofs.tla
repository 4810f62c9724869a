--------------------------- MODULE ServicesProofs ----------------------------
(***************************************************************************)
(* Proofs about how a learner is kept: the stage of a user, reminders and  *)
(* offers; and the services of module Services together.                   *)
(***************************************************************************)
EXTENDS Services, LearnerProofs, FiniteSetTheorems, TLAPS

-----------------------------------------------------------------------------
(***************************************************************************)
(* The user's stage (Lifecycle), for any number of evaluations.            *)
(***************************************************************************)
-----------------------------------------------------------------------------
(* The inductive invariant *)

Unwritten(r) == r.pc \in {"planned", "read", "repairing", "loaded"}

\* What an evaluation that no other has written across knows.
AloneInv(r) ==
    /\ Unwritten(r) => \A t \in transitions : t.at < r.at
    /\ r.pc \in {"read", "loaded"} => r.loaded = lifecycle
    /\ r.pc \in {"recorded", "noted", "syncing", "synced"} => r.stage = lifecycle.stage
    /\ r.pc \in {"noted", "synced"} => r.notified = notified

EvaluationInv(r) ==
    /\ r \in Evaluation
    /\ r.pc # "idle" => r.stage \in Stages /\ r.at \in 1 .. evaluations
    /\ Unwritten(r) => \A t \in transitions : t.at # r.at
    /\ r.pc \in {"repairing", "loaded"} => lifecycle.stage \in Stages
    /\ r.pc = "loaded" => r.loaded.stage \in Stages
    /\ r.pc # "idle" /\ r.alone => AloneInv(r)

EvaluationsInv ==
    /\ \A c \in Evaluators : EvaluationInv(evaluation[c])
    /\ \A c, d \in Evaluators :
        c # d /\ evaluation[c].pc # "idle" /\ evaluation[d].pc # "idle" => evaluation[c].at # evaluation[d].at

\* t is the newest of the transitions.
IsLatest(t) == t \in transitions /\ \A u \in transitions : u.at <= t.at

LogInv ==
    /\ IsFiniteSet(transitions)
    /\ \A t \in transitions : t.at \in 1 .. evaluations
    /\ \A t, u \in transitions : t.at = u.at => t = u
    /\ transitions # {} => \E t \in transitions : IsLatest(t)
    /\ lifecycle.stage = NoStage => lifecycle = NoLifecycle

Moves == {t \in transitions : ~t.repair}

\* A move is the first, or goes on from an earlier one.
Follows(t) ==
    IF \A u \in Moves : t.at <= u.at THEN t.from = NoStage
    ELSE \E u \in Moves : u.at < t.at /\ u.to = t.from

TrailInv ==
    "trail" \notin unsettled =>
        /\ Cardinality(Moves) = lifecycle.count
        /\ \A t \in Moves : Follows(t)
        /\ IF Moves = {} THEN lifecycle.stage = NoStage ELSE \E u \in Moves : u.to = lifecycle.stage

LandingInv ==
    "landing" \notin unsettled =>
        \A t \in transitions : IsLatest(t) => t.to = lifecycle.stage /\ t.from = lifecycle.previous

Pending == {c \in Evaluators : evaluation[c].pc \in {"recorded", "noted"}}

NotificationInv ==
    "notification" \notin unsettled /\ Pending = {} /\ notified.stage # NoStage =>
        notified.stage = lifecycle.stage /\ notified.enabled = (notified.stage \notin QuietStages)

LifecycleEventsInv ==
    "log" \notin unsettled /\ notified.stage # NoStage =>
        policyUpdates # <<>> /\ policyUpdates[Len(policyUpdates)] = notified.stage

SettledInv == TrailInv /\ LandingInv /\ NotificationInv /\ LifecycleEventsInv

LifecycleInv == LifecycleTypeOK /\ EvaluationsInv /\ LogInv /\ SettledInv

-----------------------------------------------------------------------------
(* Rows that are written by columns *)

LEMMA LifecycleColumns ==
    ASSUME NEW row \in Lifecycle, NEW loaded \in Lifecycle, NEW new \in Lifecycle
    PROVE  /\ WithColumns(row, loaded, new) \in Lifecycle
           /\ WithColumns(row, loaded, new).stage = IF new.stage # loaded.stage THEN new.stage ELSE row.stage
           /\ loaded = row => WithColumns(row, loaded, new) = new
           /\ new = loaded => WithColumns(row, loaded, new) = row
<1>1. DOMAIN row = {"stage", "previous", "count"}
    BY DEF Lifecycle
<1> DEFINE w == WithColumns(row, loaded, new)
<1>2. w = [col \in {"stage", "previous", "count"} |-> IF new[col] # loaded[col] THEN new[col] ELSE row[col]]
    BY <1>1 DEF WithColumns
<1>3. w = [stage |-> IF new.stage # loaded.stage THEN new.stage ELSE row.stage,
           previous |-> IF new.previous # loaded.previous THEN new.previous ELSE row.previous,
           count |-> IF new.count # loaded.count THEN new.count ELSE row.count]
    BY <1>2
<1> HIDE DEF w
<1>4. w \in Lifecycle
    BY <1>3 DEF Lifecycle
<1>5. w.stage = IF new.stage # loaded.stage THEN new.stage ELSE row.stage
    BY <1>3
<1>6. loaded = row => w = new
    BY <1>3 DEF Lifecycle
<1>7. new = loaded => w = row
    BY <1>3 DEF Lifecycle
<1> QED
    BY <1>4, <1>5, <1>6, <1>7 DEF w

LEMMA NotifiedColumns ==
    ASSUME NEW row \in Notified, NEW loaded \in Notified, NEW new \in Notified
    PROVE  /\ WithColumns(row, loaded, new) \in Notified
           /\ loaded = row => WithColumns(row, loaded, new) = new
<1>1. DOMAIN row = {"stage", "enabled"}
    BY DEF Notified
<1> DEFINE w == WithColumns(row, loaded, new)
<1>2. w = [col \in {"stage", "enabled"} |-> IF new[col] # loaded[col] THEN new[col] ELSE row[col]]
    BY <1>1 DEF WithColumns
<1>3. w = [stage |-> IF new.stage # loaded.stage THEN new.stage ELSE row.stage,
           enabled |-> IF new.enabled # loaded.enabled THEN new.enabled ELSE row.enabled]
    BY <1>2
<1> HIDE DEF w
<1>4. w \in Notified
    BY <1>3 DEF Notified
<1>5. loaded = row => w = new
    BY <1>3 DEF Notified
<1> QED
    BY <1>4, <1>5 DEF w

LEMMA EnteredColumns ==
    ASSUME NEW loaded \in Lifecycle, NEW s \in Stages
    PROVE  /\ Entered(loaded, s) \in Lifecycle
           /\ Entered(loaded, s).stage = s
           /\ Entered(loaded, s) # loaded =>
                /\ loaded.stage # s
                /\ Entered(loaded, s).previous = loaded.stage
                /\ Entered(loaded, s).count = loaded.count + 1
BY DEF Entered, Lifecycle

-----------------------------------------------------------------------------
(* Steps that write none of the rows *)

RowsStay == UNCHANGED <<lifecycle, transitions, notified, policyUpdates>>

\* r is of an evaluation that goes on, begins now, or is over.
SameTurn(c, r) ==
    \/ r.pc = "idle"
    \/ r.at = evaluations + 1 /\ evaluations' = evaluations + 1
    \/ r.at = evaluation[c].at /\ evaluation[c].pc # "idle"

LEMMA EvaluationInvLasts ==
    ASSUME NEW r, LifecycleInv, RowsStay, evaluations' \in Nat, evaluations' >= evaluations, EvaluationInv(r)
    PROVE  EvaluationInv(r)'
<1>1. r.pc # "idle" => r.at \in 1 .. evaluations'
    BY DEF EvaluationInv, LifecycleInv, LifecycleTypeOK
<1>2. UNCHANGED <<lifecycle, transitions, notified>>
    BY DEF RowsStay
<1>3. AloneInv(r) => AloneInv(r)'
    BY <1>2 DEF AloneInv, Unwritten
<1> QED
    BY <1>1, <1>2, <1>3, Zenon DEF EvaluationInv, Unwritten

\* Two evaluations that are under way have different times.
LEMMA TimesStayDifferent ==
    ASSUME NEW c \in Evaluators, NEW r \in Evaluation, LifecycleInv, SameTurn(c, r),
           \A o \in Evaluators :
                \/ o = c /\ evaluation'[o] = r
                \/ evaluation'[o].pc = evaluation[o].pc /\ evaluation'[o].at = evaluation[o].at
    PROVE  \A a, b \in Evaluators :
                a # b /\ evaluation'[a].pc # "idle" /\ evaluation'[b].pc # "idle"
                => evaluation'[a].at # evaluation'[b].at
<1> SUFFICES ASSUME NEW a \in Evaluators, NEW b \in Evaluators, a # b,
                    evaluation'[a].pc # "idle", evaluation'[b].pc # "idle"
             PROVE  evaluation'[a].at # evaluation'[b].at
    OBVIOUS
<1>1. \A o \in Evaluators : evaluation[o].pc # "idle" => evaluation[o].at <= evaluations /\ evaluation[o].at \in Nat
    BY DEF LifecycleInv, EvaluationsInv, EvaluationInv, LifecycleTypeOK
<1>2. evaluations \in Nat
    BY DEF LifecycleInv, LifecycleTypeOK
<1>3. \A x, y \in Evaluators : x # y /\ evaluation[x].pc # "idle" /\ evaluation[y].pc # "idle"
                               => evaluation[x].at # evaluation[y].at
    BY DEF LifecycleInv, EvaluationsInv
<1>4. \A o \in Evaluators \ {c} : evaluation'[o].pc = evaluation[o].pc /\ evaluation'[o].at = evaluation[o].at
    BY Zenon
<1>5. \/ evaluation'[c] = r
      \/ evaluation'[c].pc = evaluation[c].pc /\ evaluation'[c].at = evaluation[c].at
    BY Zenon
<1>6. ASSUME NEW o \in Evaluators \ {c}, evaluation'[o].pc # "idle", evaluation'[c].pc # "idle"
      PROVE  evaluation'[o].at # evaluation'[c].at
    <2>1. evaluation[o].pc # "idle" /\ evaluation'[o].at = evaluation[o].at
        BY <1>4, <1>6
    <2>2. CASE evaluation'[c].pc = evaluation[c].pc /\ evaluation'[c].at = evaluation[c].at
        BY <2>1, <2>2, <1>3, <1>6
    <2>3. CASE evaluation'[c] = r
        <3>1. r.at = evaluations + 1 \/ (r.at = evaluation[c].at /\ evaluation[c].pc # "idle")
            BY <2>3, <1>6 DEF SameTurn
        <3>2. CASE r.at = evaluations + 1
            <4>1. evaluation[o].at <= evaluations /\ evaluation[o].at \in Nat
                BY <2>1, <1>1
            <4>2. evaluation[o].at # evaluations + 1
                BY <4>1, <1>2
            <4> QED
                BY <2>1, <2>3, <3>2, <4>2
        <3>3. CASE r.at = evaluation[c].at /\ evaluation[c].pc # "idle"
            <4>1. evaluation[o].at # evaluation[c].at
                BY <2>1, <3>3, <1>3
            <4> QED
                BY <2>1, <2>3, <3>3, <4>1
        <3> QED
            BY <3>1, <3>2, <3>3
    <2> QED
        BY <2>2, <2>3, <1>5
<1> QED
    <2>1. CASE a = c
        BY <2>1, <1>6
    <2>2. CASE b = c
        BY <2>2, <1>6
    <2>3. CASE a # c /\ b # c
        BY <2>3, <1>3, <1>4
    <2> QED
        BY <2>1, <2>2, <2>3

LEMMA EvaluationMovesOn ==
    ASSUME NEW c \in Evaluators, NEW r, LifecycleInv, RowsStay,
           evaluations' \in {evaluations, evaluations + 1}, suppressed' \in Nat,
           unsettled \subseteq unsettled', unsettled' \subseteq Parts,
           evaluation' = [evaluation EXCEPT ![c] = r],
           EvaluationInv(r)', SameTurn(c, r),
           evaluation[c].pc \in {"recorded", "noted"} =>
                r.pc \in {"recorded", "noted"} \/ "notification" \in unsettled'
    PROVE  LifecycleInv'
<1>1. evaluations' \in Nat /\ evaluations' >= evaluations /\ evaluations \in Nat
    BY DEF LifecycleInv, LifecycleTypeOK
<1>2. r \in Evaluation
    BY DEF EvaluationInv
<1>3. evaluation \in [Evaluators -> Evaluation]
    BY DEF LifecycleInv, LifecycleTypeOK
<1>4. LifecycleTypeOK'
    <2>1. evaluation' \in [Evaluators -> Evaluation]
        BY <1>2, <1>3
    <2> QED
        BY <1>1, <2>1 DEF LifecycleInv, LifecycleTypeOK, RowsStay
<1>5. \A o \in Evaluators : EvaluationInv(evaluation[o])'
    <2> TAKE o \in Evaluators
    <2>1. CASE o = c
        <3>1. evaluation'[o] = r
            BY <2>1, <1>3
        <3> QED
            BY <3>1, Zenon DEF EvaluationInv, AloneInv, Unwritten
    <2>2. CASE o # c
        <3>1. evaluation'[o] = evaluation[o] /\ EvaluationInv(evaluation[o])
            BY <2>2, <1>3 DEF LifecycleInv, EvaluationsInv
        <3>2. PICK e : e = evaluation[o]
            OBVIOUS
        <3>3. EvaluationInv(e)'
            BY <1>1, <3>1, <3>2, EvaluationInvLasts
        <3> QED
            BY <3>1, <3>2, <3>3, Zenon DEF EvaluationInv, AloneInv, Unwritten
    <2> QED
        BY <2>1, <2>2
<1>6. EvaluationsInv'
    <2>1. \A o \in Evaluators : (o = c /\ evaluation'[o] = r) \/ evaluation'[o] = evaluation[o]
        BY <1>3
    <2>2. \A a, b \in Evaluators :
                a # b /\ evaluation'[a].pc # "idle" /\ evaluation'[b].pc # "idle"
                => evaluation'[a].at # evaluation'[b].at
        BY <1>2, <2>1, TimesStayDifferent
    <2> QED
        BY <1>5, <2>2, Zenon DEF EvaluationsInv
<1>7. LogInv'
    <2>1. \A t \in transitions : t.at \in 1 .. evaluations'
        BY <1>1 DEF LifecycleInv, LogInv
    <2> QED
        BY <2>1, Zenon DEF LifecycleInv, LogInv, RowsStay, IsLatest
<1>8. SettledInv'
    <2>1. TrailInv' /\ LandingInv' /\ LifecycleEventsInv'
        BY DEF LifecycleInv, SettledInv, TrailInv, LandingInv, LifecycleEventsInv, RowsStay, Moves, Follows, IsLatest
    <2>2. NotificationInv'
        <3> SUFFICES ASSUME "notification" \notin unsettled', Pending' = {} PROVE Pending = {} /\ "notification" \notin unsettled
            BY DEF LifecycleInv, SettledInv, NotificationInv, RowsStay
        <3>1. ASSUME NEW o \in Pending PROVE FALSE
            <4>1. o # c => evaluation'[o] = evaluation[o]
                BY <1>3 DEF Pending
            <4>2. o = c => r.pc \in {"recorded", "noted"} /\ evaluation'[o] = r
                BY <3>1, <1>3 DEF Pending
            <4>3. o \in Pending'
                BY <3>1, <4>1, <4>2 DEF Pending
            <4> QED
                BY <4>3
        <3> QED
            BY <3>1
    <2> QED
        BY <2>1, <2>2 DEF SettledInv
<1> QED
    BY <1>4, <1>6, <1>7, <1>8 DEF LifecycleInv

LEMMA LifecycleFacts ==
    ASSUME NEW c \in Evaluators, LifecycleInv
    PROVE  /\ EvaluationInv(evaluation[c]) /\ evaluation[c] \in Evaluation
           /\ evaluations \in Nat /\ suppressed \in Nat /\ unsettled \subseteq Parts
           /\ lifecycle \in Lifecycle /\ notified \in Notified
           /\ evaluation \in [Evaluators -> Evaluation]
BY DEF LifecycleInv, EvaluationsInv, LifecycleTypeOK

LEMMA NoEvaluationIsTyped ==
    /\ NoEvaluation \in Evaluation /\ NoEvaluation.pc = "idle"
    /\ NoLifecycle \in Lifecycle /\ NotNotified \in Notified
BY DEF NoEvaluation, Evaluation, EvaluationSteps, NoLifecycle, Lifecycle, NotNotified, Notified

Begun(pc, s, at) == [NoEvaluation EXCEPT !.pc = pc, !.stage = s, !.at = at]

LEMMA BegunEvaluation ==
    ASSUME NEW pc \in EvaluationSteps, NEW s \in Stages, NEW at \in Nat
    PROVE  /\ Begun(pc, s, at) \in Evaluation
           /\ Begun(pc, s, at).pc = pc
           /\ Begun(pc, s, at).stage = s
           /\ Begun(pc, s, at).at = at
<1> PICK q \in Evaluation : q = NoEvaluation
    BY NoEvaluationIsTyped
<1>1. [q EXCEPT !.pc = pc, !.stage = s, !.at = at] = Begun(pc, s, at)
    BY DEF Begun
<1> QED
    BY <1>1 DEF Evaluation

\* An evaluation that begins now, by itself or at the end of a repair.
LEMMA PlannedIsFine ==
    ASSUME NEW s \in Stages, NEW r, LifecycleInv,
           r = [NoEvaluation EXCEPT !.pc = "planned", !.stage = s, !.at = evaluations + 1],
           evaluations' = evaluations + 1,
           \A t \in transitions' : t.at \in 1 .. evaluations
    PROVE  EvaluationInv(r)' /\ r.at = evaluations + 1
<1>1. evaluations \in Nat /\ evaluations + 1 \in Nat /\ "planned" \in EvaluationSteps
    BY DEF LifecycleInv, LifecycleTypeOK, EvaluationSteps
<1>2. r \in Evaluation /\ r.pc = "planned" /\ r.stage = s /\ r.at = evaluations + 1
    <2>1. PICK at \in Nat : at = evaluations + 1
        BY <1>1
    <2>2. r = Begun("planned", s, at)
        BY <2>1 DEF Begun
    <2> QED
        BY <1>1, <2>1, <2>2, BegunEvaluation
<1>3. \A t \in transitions' : t.at < r.at /\ t.at # r.at
    BY <1>1, <1>2
<1>4. r.at \in 1 .. evaluations'
    BY <1>1, <1>2
<1> QED
    BY <1>2, <1>3, <1>4 DEF EvaluationInv, AloneInv

LEMMA EvaluateKeepsInv ==
    ASSUME NEW c \in Evaluators, LifecycleInv, Evaluate(c)
    PROVE  LifecycleInv'
<1>1. PICK s \in Stages :
        evaluation' = [evaluation EXCEPT ![c] = [NoEvaluation EXCEPT !.pc = "planned", !.stage = s, !.at = evaluations + 1]]
    BY DEF Evaluate, Plan
<1>2. PICK r : r = [NoEvaluation EXCEPT !.pc = "planned", !.stage = s, !.at = evaluations + 1]
    OBVIOUS
<1>3. evaluation[c].pc = "idle" /\ evaluations' = evaluations + 1 /\ RowsStay /\ UNCHANGED <<suppressed, unsettled>>
    BY DEF Evaluate, RowsStay
<1>4. \A t \in transitions' : t.at \in 1 .. evaluations
    BY <1>3 DEF RowsStay, LifecycleInv, LogInv
<1>5. EvaluationInv(r)' /\ r.at = evaluations + 1
    BY <1>2, <1>3, <1>4, PlannedIsFine
<1>6. evaluation' = [evaluation EXCEPT ![c] = r] /\ SameTurn(c, r)
    BY <1>1, <1>2, <1>3, <1>5 DEF SameTurn
<1>7. suppressed' \in Nat /\ unsettled \subseteq unsettled' /\ unsettled' \subseteq Parts
      /\ evaluations' \in {evaluations, evaluations + 1} /\ evaluation[c].pc \notin {"recorded", "noted"}
    BY <1>3, LifecycleFacts
<1> QED
    BY <1>3, <1>5, <1>6, <1>7, EvaluationMovesOn

LEMMA RemediateKeepsInv ==
    ASSUME NEW c \in Evaluators, LifecycleInv, Remediate(c)
    PROVE  LifecycleInv'
<1>1. PICK pc \in {"syncing", "repairing"} :
        evaluation' = [evaluation EXCEPT ![c] =
            [NoEvaluation EXCEPT !.pc = pc, !.stage = lifecycle.stage, !.at = evaluations + 1]]
    BY DEF Remediate
<1>2. PICK r : r = [NoEvaluation EXCEPT !.pc = pc, !.stage = lifecycle.stage, !.at = evaluations + 1]
    OBVIOUS
<1>3. evaluation[c].pc = "idle" /\ evaluations' = evaluations + 1 /\ RowsStay /\ UNCHANGED <<suppressed, unsettled>>
      /\ lifecycle # NoLifecycle
    BY DEF Remediate, RowsStay
<1>4. evaluations \in Nat /\ evaluations + 1 \in Nat /\ lifecycle.stage \in Stages /\ pc \in EvaluationSteps
    BY <1>3, LifecycleFacts DEF LifecycleInv, LogInv, Lifecycle, EvaluationSteps
<1>5. r \in Evaluation /\ r.pc = pc /\ r.stage = lifecycle.stage /\ r.at = evaluations + 1
    <2>1. PICK at \in Nat : at = evaluations + 1
        BY <1>4
    <2>2. r = Begun(pc, lifecycle.stage, at)
        BY <1>2, <2>1 DEF Begun
    <2> QED
        BY <1>4, <2>1, <2>2, BegunEvaluation
<1>6. EvaluationInv(r)'
    <2>1. r.at \in 1 .. evaluations'
        BY <1>3, <1>4, <1>5
    <2>2. \A t \in transitions' : t.at < r.at /\ t.at # r.at
        BY <1>3, <1>4, <1>5 DEF RowsStay, LifecycleInv, LogInv
    <2>3. lifecycle' = lifecycle
        BY <1>3 DEF RowsStay
    <2> QED
        BY <1>4, <1>5, <2>1, <2>2, <2>3 DEF EvaluationInv, AloneInv, Unwritten
<1>7. evaluation' = [evaluation EXCEPT ![c] = r] /\ SameTurn(c, r)
    BY <1>1, <1>2, <1>3, <1>5 DEF SameTurn
<1>8. suppressed' \in Nat /\ unsettled \subseteq unsettled' /\ unsettled' \subseteq Parts
      /\ evaluations' \in {evaluations, evaluations + 1} /\ evaluation[c].pc \notin {"recorded", "noted"}
    BY <1>3, LifecycleFacts
<1> QED
    BY <1>3, <1>6, <1>7, <1>8, EvaluationMovesOn

\* An evaluation goes on and knows all that it must.
LEMMA EvaluationGoesOn ==
    ASSUME NEW c \in Evaluators, NEW r, LifecycleInv, RowsStay, EvaluationInv(r),
           UNCHANGED <<suppressed, evaluations, unsettled>>,
           evaluation' = [evaluation EXCEPT ![c] = r], SameTurn(c, r),
           evaluation[c].pc \in {"recorded", "noted"} => r.pc \in {"recorded", "noted"}
    PROVE  LifecycleInv'
<1>1. evaluations \in Nat /\ evaluations' \in Nat /\ evaluations' >= evaluations
      /\ suppressed' \in Nat /\ unsettled \subseteq unsettled' /\ unsettled' \subseteq Parts
      /\ evaluations' \in {evaluations, evaluations + 1}
    BY LifecycleFacts
<1>2. EvaluationInv(r)'
    BY <1>1, EvaluationInvLasts
<1> QED
    BY <1>1, <1>2, EvaluationMovesOn

LEMMA ReadStageKeepsInv ==
    ASSUME NEW c \in Evaluators, LifecycleInv, ReadStage(c)
    PROVE  LifecycleInv'
<1>1. PICK q : q = evaluation[c]
    OBVIOUS
<1>2. PICK pc : pc = IF q.pc = "planned" THEN "read" ELSE "loaded"
    OBVIOUS
<1>3. PICK r : r = [q EXCEPT !.pc = pc, !.loaded = lifecycle]
    OBVIOUS
<1>4. evaluation' = [evaluation EXCEPT ![c] = r] /\ q.pc \in {"planned", "repairing"} /\ RowsStay
      /\ UNCHANGED <<suppressed, evaluations, unsettled>>
    BY <1>1, <1>2, <1>3, LifecycleFacts DEF ReadStage, RowsStay
<1>5. q \in Evaluation /\ EvaluationInv(q) /\ lifecycle \in Lifecycle
    BY <1>1, LifecycleFacts
<1>6. pc \in {"read", "loaded"} /\ (pc = "loaded" => q.pc = "repairing") /\ pc \in EvaluationSteps
    BY <1>2, <1>4 DEF EvaluationSteps
<1>7. r \in Evaluation /\ r.pc = pc /\ r.loaded = lifecycle /\ r.stage = q.stage /\ r.at = q.at /\ r.alone = q.alone
    BY <1>3, <1>5, <1>6 DEF Evaluation
<1>8. EvaluationInv(r)
    BY <1>4, <1>5, <1>6, <1>7 DEF EvaluationInv, AloneInv, Unwritten
<1>9. SameTurn(c, r) /\ evaluation[c].pc \notin {"recorded", "noted"}
    BY <1>1, <1>4, <1>7 DEF SameTurn
<1> QED
    BY <1>4, <1>8, <1>9, EvaluationGoesOn

LEMMA ReadNotificationKeepsInv ==
    ASSUME NEW c \in Evaluators, LifecycleInv, ReadNotification(c)
    PROVE  LifecycleInv'
<1>1. PICK q : q = evaluation[c]
    OBVIOUS
<1>2. PICK pc : pc = IF q.pc = "recorded" THEN "noted" ELSE "synced"
    OBVIOUS
<1>3. PICK r : r = [q EXCEPT !.pc = pc, !.notified = notified]
    OBVIOUS
<1>4. evaluation' = [evaluation EXCEPT ![c] = r] /\ q.pc \in {"recorded", "syncing"} /\ RowsStay
      /\ UNCHANGED <<suppressed, evaluations, unsettled>>
    BY <1>1, <1>2, <1>3, LifecycleFacts DEF ReadNotification, RowsStay
<1>5. q \in Evaluation /\ EvaluationInv(q) /\ notified \in Notified
    BY <1>1, LifecycleFacts
<1>6. pc \in {"noted", "synced"} /\ (q.pc = "recorded" => pc = "noted") /\ pc \in EvaluationSteps
    BY <1>2, <1>4 DEF EvaluationSteps
<1>7. r \in Evaluation /\ r.pc = pc /\ r.notified = notified /\ r.stage = q.stage /\ r.at = q.at /\ r.alone = q.alone
    BY <1>3, <1>5, <1>6 DEF Evaluation
<1>8. EvaluationInv(r)
    BY <1>4, <1>5, <1>6, <1>7 DEF EvaluationInv, AloneInv, Unwritten
<1>9. SameTurn(c, r) /\ (evaluation[c].pc \in {"recorded", "noted"} => r.pc \in {"recorded", "noted"})
    BY <1>1, <1>4, <1>6, <1>7 DEF SameTurn
<1> QED
    BY <1>4, <1>8, <1>9, EvaluationGoesOn

\* An evaluation is over, or raises, or its process dies.
LEMMA EvaluationEndsKeepsInv ==
    ASSUME NEW c \in Evaluators, LifecycleInv, RowsStay, evaluations' = evaluations, suppressed' \in Nat,
           evaluation' = [evaluation EXCEPT ![c] = NoEvaluation],
           unsettled \subseteq unsettled', unsettled' \subseteq Parts,
           evaluation[c].pc \in {"recorded", "noted"} => "notification" \in unsettled'
    PROVE  LifecycleInv'
<1>1. PICK r : r = NoEvaluation
    OBVIOUS
<1>2. EvaluationInv(r) /\ SameTurn(c, r)
    BY <1>1, NoEvaluationIsTyped DEF EvaluationInv, Unwritten, SameTurn
<1>3. evaluations' \in Nat /\ evaluations' >= evaluations
    BY LifecycleFacts
<1>4. EvaluationInv(r)'
    BY <1>2, <1>3, EvaluationInvLasts
<1>5. evaluation' = [evaluation EXCEPT ![c] = r] /\ evaluations' \in {evaluations, evaluations + 1}
    BY <1>1
<1> QED
    BY <1>2, <1>4, <1>5, EvaluationMovesOn

LEMMA DecideNotificationKeepsInv ==
    ASSUME NEW c \in Evaluators, LifecycleInv, DecideNotification(c)
    PROVE  LifecycleInv'
<1>1. suppressed' \in Nat
    BY LifecycleFacts DEF DecideNotification, SuppressionEvents
<1> QED
    BY <1>1, LifecycleFacts, EvaluationEndsKeepsInv DEF DecideNotification, RowsStay

LEMMA EvaluationDiesKeepsInv ==
    ASSUME NEW c \in Evaluators, LifecycleInv, EvaluationDies(c)
    PROVE  LifecycleInv'
BY LifecycleFacts, EvaluationEndsKeepsInv DEF EvaluationDies, RowsStay, Parts

-----------------------------------------------------------------------------
(* Steps that write a row *)

\* The others are no longer alone, and know of the transition that the writer added.
LEMMA OthersAfterWrite ==
    ASSUME NEW c \in Evaluators, NEW e, LifecycleInv, Writes(c, e), EvaluationInv(e)', SameTurn(c, e),
           evaluations' \in {evaluations, evaluations + 1},
           lifecycle' = lifecycle \/ lifecycle'.stage \in Stages,
           \A t \in transitions' : t \in transitions \/ (t.at = evaluation[c].at /\ evaluation[c].pc # "idle")
    PROVE  EvaluationsInv' /\ evaluation' \in [Evaluators -> Evaluation] /\ evaluation'[c] = e
<1>1. evaluations \in Nat /\ evaluation \in [Evaluators -> Evaluation]
    BY LifecycleFacts
<1>2. evaluation'[c] = e /\ e \in Evaluation
    BY Zenon DEF Writes, EvaluationInv
<1>3. ASSUME NEW o \in Evaluators, o # c
      PROVE  EvaluationInv(evaluation[o])' /\ evaluation'[o] \in Evaluation
             /\ evaluation'[o].pc = evaluation[o].pc
             /\ (evaluation[o].pc # "idle" => evaluation'[o].at = evaluation[o].at)
    <2>1. PICK q \in Evaluation : q = evaluation[o]
        BY <1>1, <1>3
    <2>2. EvaluationInv(q)
        BY <2>1, <1>3, LifecycleFacts
    <2>3. PICK r : r = evaluation'[o]
        OBVIOUS
    <2>4. CASE q.pc = "idle"
        <3>1. r = NoEvaluation
            BY <1>3, <2>1, <2>3, <2>4 DEF Writes
        <3>2. EvaluationInv(r)' /\ r.pc = "idle"
            BY <3>1, NoEvaluationIsTyped DEF EvaluationInv, Unwritten
        <3> QED
            BY <3>2, <2>1, <2>3, <2>4, Zenon DEF EvaluationInv, AloneInv, Unwritten
    <2>5. CASE q.pc # "idle"
        <3>1. r = [q EXCEPT !.alone = FALSE]
            BY <1>3, <2>1, <2>3, <2>5 DEF Writes
        <3>2. r \in Evaluation /\ r.pc = q.pc /\ r.at = q.at /\ r.stage = q.stage /\ r.loaded = q.loaded /\ r.alone = FALSE
            BY <3>1 DEF Evaluation
        <3>3. \A t \in transitions : Unwritten(q) => t.at # q.at
            BY <2>2 DEF EvaluationInv
        <3>4. evaluation[c].pc # "idle" => evaluation[c].at # q.at
            BY <1>3, <2>1, <2>5 DEF LifecycleInv, EvaluationsInv
        <3>5. \A t \in transitions' : Unwritten(r) => t.at # r.at
            BY <3>2, <3>3, <3>4 DEF Unwritten
        <3>6. r.at \in 1 .. evaluations'
            BY <1>1, <2>2, <2>5, <3>2 DEF EvaluationInv
        <3>7. r.pc \in {"repairing", "loaded"} => lifecycle'.stage \in Stages
            BY <2>2, <3>2 DEF EvaluationInv
        <3>8. r.stage \in Stages /\ (r.pc = "loaded" => r.loaded.stage \in Stages)
            BY <2>2, <2>5, <3>2 DEF EvaluationInv
        <3>9. EvaluationInv(r)'
            BY <3>2, <3>5, <3>6, <3>7, <3>8, Zenon DEF EvaluationInv, Unwritten
        <3> QED
            BY <3>9, <3>2, <2>1, <2>3, <2>5, Zenon DEF EvaluationInv, AloneInv, Unwritten
    <2> QED
        BY <2>4, <2>5
<1>4. \A o \in Evaluators : EvaluationInv(evaluation[o])' /\ evaluation'[o] \in Evaluation
    <2> TAKE o \in Evaluators
    <2>1. CASE o = c
        BY <1>2, <2>1, Zenon DEF EvaluationInv, AloneInv, Unwritten
    <2> QED
        BY <1>3, <2>1
<1>5. \A a, b \in Evaluators :
            a # b /\ evaluation'[a].pc # "idle" /\ evaluation'[b].pc # "idle"
            => evaluation'[a].at # evaluation'[b].at
    <2> SUFFICES ASSUME NEW a \in Evaluators, NEW b \in Evaluators, a # b,
                        evaluation'[a].pc # "idle", evaluation'[b].pc # "idle"
                 PROVE  evaluation'[a].at # evaluation'[b].at
        OBVIOUS
    <2>1. \A o \in Evaluators : evaluation[o].pc # "idle" => evaluation[o].at <= evaluations /\ evaluation[o].at \in Nat
        BY DEF LifecycleInv, EvaluationsInv, EvaluationInv, LifecycleTypeOK
    <2>2. \A x, y \in Evaluators : x # y /\ evaluation[x].pc # "idle" /\ evaluation[y].pc # "idle"
                                   => evaluation[x].at # evaluation[y].at
        BY DEF LifecycleInv, EvaluationsInv
    <2>3. ASSUME NEW o \in Evaluators, o # c, evaluation'[o].pc # "idle", e.pc # "idle"
          PROVE  evaluation'[o].at # e.at
        <3>1. evaluation[o].pc # "idle" /\ evaluation'[o].at = evaluation[o].at
            BY <1>3, <2>3
        <3>2. evaluation[o].at # evaluations + 1
            <4>1. evaluation[o].at <= evaluations /\ evaluation[o].at \in Nat
                BY <2>1, <3>1
            <4> QED
                BY <4>1, <1>1
        <3>3. evaluation[c].pc # "idle" => evaluation[o].at # evaluation[c].at
            BY <2>2, <2>3, <3>1
        <3> QED
            BY <2>3, <3>1, <3>2, <3>3 DEF SameTurn
    <2>4. CASE a = c
        BY <2>4, <2>3, <1>2
    <2>5. CASE b = c
        BY <2>5, <2>3, <1>2
    <2>6. CASE a # c /\ b # c
        BY <2>6, <2>2, <1>3
    <2> QED
        BY <2>4, <2>5, <2>6
<1>6. DOMAIN evaluation' = Evaluators /\ evaluation' = [o \in Evaluators |-> evaluation'[o]]
    BY DEF Writes
<1>7. evaluation' \in [Evaluators -> Evaluation]
    BY <1>4, <1>6
<1>8. EvaluationsInv'
    BY <1>4, <1>5, Zenon DEF EvaluationsInv
<1> QED
    BY <1>2, <1>7, <1>8

\* The log with one more transition, of a time of its own.
LEMMA LogGrows ==
    ASSUME NEW t, LifecycleInv, transitions' = transitions \cup {t}, t.at \in 1 .. evaluations,
           \A u \in transitions : u.at # t.at,
           evaluations' \in {evaluations, evaluations + 1},
           lifecycle' = lifecycle \/ lifecycle'.stage \in Stages
    PROVE  LogInv'
<1>1. evaluations \in Nat
    BY DEF LifecycleInv, LifecycleTypeOK
<1>2. IsFiniteSet(transitions')
    BY FS_AddElement DEF LifecycleInv, LogInv
<1>3. \A u \in transitions : u.at \in 1 .. evaluations
    BY DEF LifecycleInv, LogInv
<1>4. \A u \in transitions' : u.at \in 1 .. evaluations'
    BY <1>1, <1>3
<1>5. \A u, v \in transitions' : u.at = v.at => u = v
    BY DEF LifecycleInv, LogInv
<1>6. \E u \in transitions' : \A v \in transitions' : v.at <= u.at
    <2>1. CASE transitions = {}
        BY <1>1, <2>1
    <2>2. CASE transitions # {}
        <3>1. PICK u \in transitions : IsLatest(u)
            BY <2>2 DEF LifecycleInv, LogInv
        <3>2. \A v \in transitions : v.at <= u.at
            BY <3>1 DEF IsLatest
        <3>3. u.at \in Nat /\ t.at \in Nat /\ \A v \in transitions : v.at \in Nat
            BY <1>1, <1>3
        <3>4. CASE t.at <= u.at
            BY <3>2, <3>4
        <3>5. CASE u.at < t.at
            <4>1. \A v \in transitions : v.at <= t.at
                BY <3>2, <3>3, <3>5
            <4> QED
                BY <4>1, <3>3
        <3> QED
            BY <3>3, <3>4, <3>5
    <2> QED
        BY <2>1, <2>2
<1>7. lifecycle'.stage = NoStage => lifecycle' = NoLifecycle
    BY LifecycleAssumption DEF LifecycleInv, LogInv
<1> QED
    BY <1>2, <1>4, <1>5, <1>6, <1>7 DEF LogInv, IsLatest

\* A transition newer than all others is the latest.
LEMMA TheNewestIsLatest ==
    ASSUME NEW t, NEW x, LifecycleInv, transitions' = transitions \cup {t}, t.at \in Nat,
           \A u \in transitions : u.at < t.at, IsLatest(x)'
    PROVE  x = t
<1>1. x \in transitions' /\ t.at <= x.at
    BY DEF IsLatest
<1>2. \A u \in transitions : u.at \in Nat
    BY DEF LifecycleInv, LogInv
<1> QED
    BY <1>1, <1>2

LEMMA RecordStageKeepsInv ==
    ASSUME NEW c \in Evaluators, LifecycleInv, RecordStage(c)
    PROVE  LifecycleInv'
<1>1. PICK q \in Evaluation : q = evaluation[c]
    BY LifecycleFacts
<1>2. PICK new : new = Entered(q.loaded, q.stage)
    OBVIOUS
<1>3. q.pc = "read" /\ EvaluationInv(q) /\ q.stage \in Stages /\ q.loaded \in Lifecycle /\ q.at \in 1 .. evaluations
    BY <1>1, LifecycleFacts DEF RecordStage, EvaluationInv, Evaluation
<1>4. /\ new \in Lifecycle /\ new.stage = q.stage
      /\ new # q.loaded => q.loaded.stage # q.stage /\ new.previous = q.loaded.stage /\ new.count = q.loaded.count + 1
    BY <1>2, <1>3, EnteredColumns
<1>5. UNCHANGED <<notified, policyUpdates, suppressed, evaluations>>
    BY DEF RecordStage
<1>6. PICK r : r = [q EXCEPT !.pc = "recorded"]
    OBVIOUS
<1>7. r \in Evaluation /\ r.pc = "recorded" /\ r.stage = q.stage /\ r.at = q.at /\ r.alone = q.alone /\ SameTurn(c, r)
    BY <1>1, <1>3, <1>6 DEF Evaluation, EvaluationSteps, SameTurn
<1>8. evaluations \in Nat /\ suppressed \in Nat /\ unsettled \subseteq Parts /\ lifecycle \in Lifecycle
      /\ notified \in Notified /\ evaluation \in [Evaluators -> Evaluation]
    BY LifecycleFacts
<1>9. CASE q.loaded = NoLifecycle /\ lifecycle # NoLifecycle
    <2>1. evaluation' = [evaluation EXCEPT ![c] = NoEvaluation] /\ UNCHANGED <<lifecycle, transitions, unsettled>>
        BY <1>1, <1>9 DEF RecordStage
    <2> QED
        BY <2>1, <1>1, <1>3, <1>5, <1>8, EvaluationEndsKeepsInv DEF RowsStay
<1>10. CASE ~(q.loaded = NoLifecycle /\ lifecycle # NoLifecycle) /\ new = q.loaded
    <2>1. lifecycle' = WithColumns(lifecycle, q.loaded, new) /\ evaluation' = [evaluation EXCEPT ![c].pc = "recorded"]
          /\ UNCHANGED <<transitions, unsettled>>
        BY <1>1, <1>2, <1>10, Zenon DEF RecordStage
    <2>2. lifecycle' = lifecycle
        BY <2>1, <1>3, <1>4, <1>8, <1>10, LifecycleColumns
    <2>3. evaluation' = [evaluation EXCEPT ![c] = r]
        BY <2>1, <1>1, <1>6, <1>8
    <2>4. EvaluationInv(r)
        BY <1>3, <1>4, <1>7, <1>10 DEF EvaluationInv, AloneInv, Unwritten
    <2> QED
        BY <2>1, <2>2, <2>3, <2>4, <1>1, <1>3, <1>5, <1>7, EvaluationGoesOn DEF RowsStay
<1>11. CASE ~(q.loaded = NoLifecycle /\ lifecycle # NoLifecycle) /\ new # q.loaded
    <2>1. PICK t : t = [from |-> new.previous, to |-> q.stage, at |-> q.at, repair |-> FALSE]
        OBVIOUS
    <2>2. lifecycle' = WithColumns(lifecycle, q.loaded, new) /\ transitions' = transitions \cup {t}
          /\ Writes(c, r) /\ Settles(c, {"trail", "landing"}, {"landing"})
        BY <1>1, <1>2, <1>6, <1>11, <2>1, Zenon DEF RecordStage
    <2>3. lifecycle' \in Lifecycle /\ lifecycle'.stage = q.stage /\ (q.loaded = lifecycle => lifecycle' = new)
        BY <2>2, <1>3, <1>4, <1>8, <1>11, LifecycleColumns
    <2>4. t \in Transition /\ t.from = new.previous /\ t.to = q.stage /\ t.at = q.at /\ t.repair = FALSE
        BY <2>1, <1>3, <1>4, <1>8 DEF Transition, Lifecycle
    <2>5. \A u \in transitions : u.at # t.at
        BY <2>4, <1>3 DEF EvaluationInv, Unwritten
    <2>6. LogInv'
        BY <2>2, <2>3, <2>4, <2>5, <1>3, <1>5, LogGrows
    <2>7. EvaluationInv(r)'
        BY <2>3, <1>3, <1>5, <1>7 DEF EvaluationInv, AloneInv, Unwritten
    <2>8. EvaluationsInv' /\ evaluation' \in [Evaluators -> Evaluation] /\ evaluation'[c] = r
        <3>1. \A u \in transitions' : u \in transitions \/ (u.at = evaluation[c].at /\ evaluation[c].pc # "idle")
            BY <2>2, <2>4, <1>1, <1>3
        <3>2. lifecycle' = lifecycle \/ lifecycle'.stage \in Stages
            BY <2>3, <1>3
        <3> QED
            BY <3>1, <3>2, <2>2, <2>7, <1>5, <1>7, OthersAfterWrite
    <2>9. unsettled' \subseteq Parts
        BY <2>2, <1>8 DEF Settles, Parts
    <2>10. LifecycleTypeOK'
        <3>1. transitions' \subseteq Transition
            BY <2>2, <2>4 DEF LifecycleInv, LifecycleTypeOK
        <3> QED
            BY <3>1, <2>3, <2>8, <2>9, <1>5 DEF LifecycleInv, LifecycleTypeOK
    <2>11. ASSUME q.alone
           PROVE  q.loaded = lifecycle /\ lifecycle' = new /\ \A u \in transitions : u.at < t.at
        BY <2>3, <2>4, <2>11, <1>3 DEF EvaluationInv, AloneInv, Unwritten
    <2>12. TrailInv'
        <3> SUFFICES ASSUME "trail" \notin unsettled'
                     PROVE  /\ Cardinality(Moves') = lifecycle'.count
                            /\ \A u \in Moves' : Follows(u)'
                            /\ IF Moves' = {} THEN lifecycle'.stage = NoStage ELSE \E u \in Moves' : u.to = lifecycle'.stage
            BY DEF TrailInv
        <3>1. q.alone /\ "trail" \notin unsettled
            BY <2>2, <1>1 DEF Settles
        <3>2. /\ Cardinality(Moves) = lifecycle.count
              /\ \A u \in Moves : Follows(u)
              /\ IF Moves = {} THEN lifecycle.stage = NoStage ELSE \E u \in Moves : u.to = lifecycle.stage
            BY <3>1 DEF LifecycleInv, SettledInv, TrailInv
        <3>3. Moves' = Moves \cup {t}
            BY <2>2, <2>4 DEF Moves
        <3>4. t \notin Moves
            BY <2>5 DEF Moves
        <3>5. IsFiniteSet(Moves)
            BY FS_Subset DEF Moves, LifecycleInv, LogInv
        <3>6. Cardinality(Moves') = Cardinality(Moves) + 1
            BY <3>3, <3>4, <3>5, FS_AddElement
        <3>7. lifecycle'.count = lifecycle.count + 1 /\ t.from = lifecycle.stage
            BY <2>4, <2>11, <3>1, <1>4, <1>11
        <3>8. \A u \in Moves : u.at \in Nat /\ u.at < t.at
            BY <2>11, <3>1 DEF Moves, LifecycleInv, LogInv
        <3>9. ASSUME NEW u \in Moves PROVE Follows(u)'
            <4>1. t.at \in Nat
                BY <2>4, <1>3, <1>8
            <4>2. CASE \A v \in Moves : u.at <= v.at
                <5>1. u.from = NoStage /\ u.at <= t.at
                    BY <4>2, <4>1, <3>2, <3>8 DEF Follows
                <5> QED
                    BY <5>1, <4>2, <3>3 DEF Follows
            <4>3. CASE ~ \A v \in Moves : u.at <= v.at
                <5>1. \E v \in Moves : v.at < u.at /\ v.to = u.from
                    BY <4>3, <3>2 DEF Follows
                <5> QED
                    BY <5>1, <4>3, <3>3 DEF Follows
            <4> QED
                BY <4>2, <4>3
        <3>10. Follows(t)'
            <4>1. CASE Moves = {}
                <5>1. t.from = NoStage /\ t.at <= t.at
                    BY <4>1, <3>2, <3>7, <2>4, <1>3, <1>8
                <5> QED
                    BY <5>1, <4>1, <3>3 DEF Follows
            <4>2. CASE Moves # {}
                <5>1. PICK v \in Moves : v.to = t.from
                    BY <4>2, <3>2, <3>7
                <5>2. v.at < t.at /\ ~(t.at <= v.at)
                    BY <3>8, <2>4, <1>3, <1>8
                <5> QED
                    BY <5>1, <5>2, <3>3 DEF Follows
            <4> QED
                BY <4>1, <4>2
        <3>11. t \in Moves' /\ t.to = lifecycle'.stage
            BY <3>3, <2>3, <2>4
        <3> QED
            BY <3>2, <3>3, <3>6, <3>7, <3>9, <3>10, <3>11
    <2>13. LandingInv'
        <3> SUFFICES ASSUME "landing" \notin unsettled', NEW x \in transitions', IsLatest(x)'
                     PROVE  x.to = lifecycle'.stage /\ x.from = lifecycle'.previous
            BY DEF LandingInv
        <3>1. q.alone
            BY <2>2, <1>1 DEF Settles
        <3>2. t.at \in Nat
            BY <2>4, <1>3, <1>8
        <3>3. x = t
            BY <3>1, <3>2, <2>2, <2>11, TheNewestIsLatest
        <3> QED
            BY <3>1, <3>3, <2>3, <2>4, <2>11
    <2>14. NotificationInv'
        BY <2>8, <1>7 DEF NotificationInv, Pending
    <2>15. LifecycleEventsInv'
        <3>1. "log" \notin unsettled' => "log" \notin unsettled
            BY <2>2 DEF Settles
        <3> QED
            BY <3>1, <1>5 DEF LifecycleInv, SettledInv, LifecycleEventsInv
    <2> QED
        BY <2>6, <2>8, <2>10, <2>12, <2>13, <2>14, <2>15 DEF LifecycleInv, SettledInv
<1> QED
    BY <1>9, <1>10, <1>11

LEMMA PolicyColumns ==
    ASSUME NEW s \in Stages, NEW n
    PROVE  PolicyOf(s, n) \in Notified /\ PolicyOf(s, n).stage = s /\ PolicyOf(s, n).enabled = (s \notin QuietStages)
BY DEF PolicyOf, Notified

LEMMA ApplyPolicyKeepsInv ==
    ASSUME NEW c \in Evaluators, LifecycleInv, ApplyPolicy(c)
    PROVE  LifecycleInv'
<1>1. PICK q \in Evaluation : q = evaluation[c]
    BY LifecycleFacts
<1>2. PICK new : new = PolicyOf(q.stage, q.notified)
    OBVIOUS
<1>3. q.pc \in {"noted", "synced"} /\ EvaluationInv(q) /\ q.stage \in Stages /\ q.notified \in Notified
      /\ q.at \in 1 .. evaluations
    BY <1>1, LifecycleFacts DEF ApplyPolicy, EvaluationInv, Evaluation
<1>4. new \in Notified /\ new.stage = q.stage /\ new.enabled = (q.stage \notin QuietStages)
    BY <1>2, <1>3, PolicyColumns
<1>5. evaluations \in Nat /\ suppressed \in Nat /\ unsettled \subseteq Parts /\ lifecycle \in Lifecycle
      /\ notified \in Notified /\ evaluation \in [Evaluators -> Evaluation]
    BY LifecycleFacts
<1>6. /\ notified' = WithColumns(notified, q.notified, new)
      /\ policyUpdates' = IF q.notified # new THEN Append(policyUpdates, q.stage) ELSE policyUpdates
      /\ Settles(c, {"notification", "log"}, IF q.notified # new THEN {"notification", "log"} ELSE {"notification"})
      /\ UNCHANGED <<lifecycle, transitions, suppressed>>
    BY <1>1, <1>2, Zenon DEF ApplyPolicy
<1>7. PICK r : Writes(c, r) /\ EvaluationInv(r)' /\ SameTurn(c, r) /\ evaluations' \in {evaluations, evaluations + 1}
    <2>1. CASE q.pc = "noted"
        <3>1. PICK r : r = [q EXCEPT !.pc = "applied"]
            OBVIOUS
        <3>2. Writes(c, r) /\ evaluations' = evaluations
            BY <2>1, <3>1, <1>1 DEF ApplyPolicy
        <3>3. r \in Evaluation /\ r.pc = "applied" /\ r.stage = q.stage /\ r.at = q.at
            BY <3>1 DEF Evaluation, EvaluationSteps
        <3>4. EvaluationInv(r)' /\ SameTurn(c, r)
            BY <3>2, <3>3, <2>1, <1>1, <1>3 DEF EvaluationInv, AloneInv, Unwritten, SameTurn
        <3> QED
            BY <3>2, <3>4
    <2>2. CASE q.pc = "synced"
        <3>1. PICK s \in Stages :
                /\ Writes(c, [NoEvaluation EXCEPT !.pc = "planned", !.stage = s, !.at = evaluations + 1])
                /\ evaluations' = evaluations + 1
            BY <2>2, <1>1 DEF ApplyPolicy
        <3>2. PICK r : r = [NoEvaluation EXCEPT !.pc = "planned", !.stage = s, !.at = evaluations + 1]
            OBVIOUS
        <3>3. \A t \in transitions' : t.at \in 1 .. evaluations
            BY <1>6 DEF LifecycleInv, LogInv
        <3>4. EvaluationInv(r)' /\ r.at = evaluations + 1
            BY <3>1, <3>2, <3>3, PlannedIsFine
        <3> QED
            BY <3>1, <3>2, <3>4 DEF SameTurn
    <2> QED
        BY <2>1, <2>2, <1>3
<1>8. EvaluationsInv' /\ evaluation' \in [Evaluators -> Evaluation]
    <2>1. \A t \in transitions' : t \in transitions
        BY <1>6
    <2>2. lifecycle' = lifecycle
        BY <1>6
    <2> QED
        BY <2>1, <2>2, <1>7, OthersAfterWrite
<1>9. notified' \in Notified /\ (q.notified = notified => notified' = new)
    BY <1>3, <1>4, <1>5, <1>6, NotifiedColumns
<1>10. LifecycleTypeOK'
    <2>1. unsettled' \subseteq Parts
        BY <1>5, <1>6 DEF Settles, Parts
    <2>2. policyUpdates' \in Seq(Stages)
        BY <1>3, <1>6 DEF LifecycleInv, LifecycleTypeOK
    <2>3. evaluations' \in Nat
        BY <1>5, <1>7
    <2> QED
        BY <2>1, <2>2, <2>3, <1>6, <1>8, <1>9 DEF LifecycleInv, LifecycleTypeOK
<1>11. LogInv'
    <2>1. \A t \in transitions : t.at \in 1 .. evaluations'
        BY <1>5, <1>7 DEF LifecycleInv, LogInv
    <2> QED
        BY <2>1, <1>6, Zenon DEF LifecycleInv, LogInv, IsLatest
<1>12. TrailInv' /\ LandingInv'
    <2>1. ("trail" \notin unsettled' => "trail" \notin unsettled) /\ ("landing" \notin unsettled' => "landing" \notin unsettled)
        BY <1>6 DEF Settles
    <2> QED
        BY <2>1, <1>6 DEF LifecycleInv, SettledInv, TrailInv, LandingInv, Moves, Follows, IsLatest
<1>13. ASSUME q.alone
       PROVE  q.notified = notified /\ notified' = new /\ q.stage = lifecycle.stage
    BY <1>3, <1>9, <1>13 DEF EvaluationInv, AloneInv
<1>14. NotificationInv'
    <2> SUFFICES ASSUME "notification" \notin unsettled'
                 PROVE  notified'.stage = lifecycle'.stage /\ notified'.enabled = (notified'.stage \notin QuietStages)
        BY DEF NotificationInv
    <2>1. q.alone
        BY <1>1, <1>6 DEF Settles
    <2> QED
        BY <2>1, <1>4, <1>6, <1>13
<1>15. LifecycleEventsInv'
    <2> SUFFICES ASSUME "log" \notin unsettled', notified'.stage # NoStage
                 PROVE  policyUpdates' # <<>> /\ policyUpdates'[Len(policyUpdates')] = notified'.stage
        BY DEF LifecycleEventsInv
    <2>1. q.alone /\ (q.notified # new \/ "log" \notin unsettled)
        BY <1>1, <1>6 DEF Settles
    <2>2. CASE q.notified # new
        <3>1. policyUpdates' = Append(policyUpdates, q.stage) /\ policyUpdates \in Seq(Stages)
            BY <2>2, <1>6 DEF LifecycleInv, LifecycleTypeOK
        <3>2. Len(policyUpdates') = Len(policyUpdates) + 1 /\ policyUpdates'[Len(policyUpdates')] = q.stage
              /\ Len(policyUpdates) \in Nat
            BY <3>1, <1>3
        <3>3. policyUpdates' # <<>>
            BY <3>2
        <3> QED
            BY <3>2, <3>3, <2>1, <1>4, <1>13
    <2>3. CASE q.notified = new
        <3>1. notified' = notified /\ policyUpdates' = policyUpdates
            BY <2>1, <2>3, <1>6, <1>13
        <3> QED
            BY <3>1, <2>1, <2>3 DEF LifecycleInv, SettledInv, LifecycleEventsInv
    <2> QED
        BY <2>2, <2>3
<1> QED
    BY <1>8, <1>10, <1>11, <1>12, <1>14, <1>15 DEF LifecycleInv, SettledInv

LEMMA RepairTransitionKeepsInv ==
    ASSUME NEW c \in Evaluators, LifecycleInv, RepairTransition(c)
    PROVE  LifecycleInv'
<1>1. PICK q \in Evaluation : q = evaluation[c]
    BY LifecycleFacts
<1>2. q.pc = "loaded" /\ EvaluationInv(q) /\ q.loaded \in Lifecycle /\ q.at \in 1 .. evaluations
      /\ q.loaded.stage \in Stages
    BY <1>1, LifecycleFacts DEF RepairTransition, EvaluationInv, Evaluation
<1>3. PICK t : t = [from |-> q.loaded.previous, to |-> q.loaded.stage, at |-> q.at, repair |-> TRUE]
    OBVIOUS
<1>4. t \in Transition /\ t.from = q.loaded.previous /\ t.to = q.loaded.stage /\ t.at = q.at /\ t.repair = TRUE
    <2>1. evaluations \in Nat
        BY LifecycleFacts
    <2> QED
        BY <2>1, <1>2, <1>3 DEF Transition, Lifecycle
<1>5. transitions' = transitions \cup {t} /\ Settles(c, {"landing"}, {"landing"})
      /\ evaluations' = evaluations + 1 /\ UNCHANGED <<lifecycle, notified, policyUpdates, suppressed>>
    BY <1>1, <1>3 DEF RepairTransition
<1>6. PICK s \in Stages : Writes(c, [NoEvaluation EXCEPT !.pc = "planned", !.stage = s, !.at = evaluations + 1])
    BY DEF RepairTransition
<1>7. PICK r : r = [NoEvaluation EXCEPT !.pc = "planned", !.stage = s, !.at = evaluations + 1]
    OBVIOUS
<1>8. evaluations \in Nat /\ suppressed \in Nat /\ unsettled \subseteq Parts /\ lifecycle \in Lifecycle
      /\ notified \in Notified /\ evaluation \in [Evaluators -> Evaluation]
    BY LifecycleFacts
<1>9. \A u \in transitions' : u.at \in 1 .. evaluations
    BY <1>2, <1>4, <1>5 DEF LifecycleInv, LogInv
<1>10. EvaluationInv(r)' /\ SameTurn(c, r) /\ Writes(c, r)
    <2>1. EvaluationInv(r)' /\ r.at = evaluations + 1
        BY <1>5, <1>7, <1>9, PlannedIsFine
    <2> QED
        BY <2>1, <1>5, <1>6, <1>7 DEF SameTurn
<1>11. EvaluationsInv' /\ evaluation' \in [Evaluators -> Evaluation]
    <2>1. \A u \in transitions' : u \in transitions \/ (u.at = evaluation[c].at /\ evaluation[c].pc # "idle")
        BY <1>1, <1>2, <1>4, <1>5
    <2>2. lifecycle' = lifecycle /\ evaluations' \in {evaluations, evaluations + 1}
        BY <1>5
    <2> QED
        BY <2>1, <2>2, <1>10, OthersAfterWrite
<1>12. \A u \in transitions : u.at # t.at
    BY <1>2, <1>4 DEF EvaluationInv, Unwritten
<1>13. LogInv'
    BY <1>2, <1>4, <1>5, <1>12, LogGrows
<1>14. LifecycleTypeOK'
    <2>1. transitions' \subseteq Transition
        BY <1>4, <1>5 DEF LifecycleInv, LifecycleTypeOK
    <2>2. unsettled' \subseteq Parts
        BY <1>5, <1>8 DEF Settles, Parts
    <2> QED
        BY <2>1, <2>2, <1>5, <1>8, <1>11 DEF LifecycleInv, LifecycleTypeOK
<1>15. \A p \in {"trail", "notification", "log"} : p \in unsettled' <=> p \in unsettled
    BY <1>5 DEF Settles
<1>16. TrailInv'
    <2>1. Moves' = Moves
        BY <1>4, <1>5 DEF Moves
    <2> QED
        BY <2>1, <1>5, <1>15 DEF LifecycleInv, SettledInv, TrailInv, Follows
<1>17. LandingInv'
    <2> SUFFICES ASSUME "landing" \notin unsettled', NEW x \in transitions', IsLatest(x)'
                 PROVE  x.to = lifecycle'.stage /\ x.from = lifecycle'.previous
        BY DEF LandingInv
    <2>1. q.alone
        BY <1>1, <1>5 DEF Settles
    <2>2. q.loaded = lifecycle /\ \A u \in transitions : u.at < t.at
        BY <2>1, <1>2, <1>4 DEF EvaluationInv, AloneInv, Unwritten
    <2>3. t.at \in Nat
        BY <1>2, <1>4, <1>8
    <2>4. x = t
        BY <2>2, <2>3, <1>5, TheNewestIsLatest
    <2> QED
        BY <2>2, <2>4, <1>4, <1>5
<1>18. NotificationInv'
    <2>1. Pending' = {} => Pending = {}
        <3> SUFFICES ASSUME NEW o \in Pending PROVE o \in Pending'
            OBVIOUS
        <3>1. o # c
            BY <1>1, <1>2 DEF Pending
        <3>2. PICK e \in Evaluation : e = evaluation[o]
            BY <1>8 DEF Pending
        <3>3. evaluation'[o] = [e EXCEPT !.alone = FALSE]
            BY <3>1, <3>2, <1>6 DEF Pending, Writes
        <3>4. evaluation'[o].pc = e.pc
            BY <3>3 DEF Evaluation
        <3> QED
            BY <3>2, <3>4 DEF Pending
    <2> QED
        BY <2>1, <1>5, <1>15 DEF LifecycleInv, SettledInv, NotificationInv
<1>19. LifecycleEventsInv'
    BY <1>5, <1>15 DEF LifecycleInv, SettledInv, LifecycleEventsInv
<1> QED
    BY <1>11, <1>13, <1>14, <1>16, <1>17, <1>18, <1>19 DEF LifecycleInv, SettledInv

-----------------------------------------------------------------------------
(* The theorems *)

LEMMA LifecycleInitiallyInv == LifecycleInit => LifecycleInv
<1> SUFFICES ASSUME LifecycleInit PROVE LifecycleInv
    OBVIOUS
<1>1. LifecycleTypeOK
    BY NoEvaluationIsTyped DEF LifecycleInit, LifecycleTypeOK
<1>2. \A c \in Evaluators : evaluation[c] = NoEvaluation
    BY DEF LifecycleInit
<1>3. EvaluationsInv
    BY <1>2, NoEvaluationIsTyped DEF EvaluationsInv, EvaluationInv, Unwritten
<1>4. LogInv
    BY FS_EmptySet DEF LogInv, LifecycleInit
<1>5. TrailInv
    <2>1. Moves = {} /\ lifecycle.stage = NoStage /\ lifecycle.count = 0
        BY DEF Moves, LifecycleInit, NoLifecycle
    <2> QED
        BY <2>1, FS_EmptySet DEF TrailInv
<1>6. LandingInv /\ NotificationInv /\ LifecycleEventsInv
    BY DEF LandingInv, NotificationInv, LifecycleEventsInv, LifecycleInit, NotNotified
<1> QED
    BY <1>1, <1>3, <1>4, <1>5, <1>6 DEF LifecycleInv, SettledInv

LEMMA LifecycleStepKeepsInv == LifecycleInv /\ [LifecycleNext]_lifecycleVars => LifecycleInv'
<1> SUFFICES ASSUME LifecycleInv, [LifecycleNext]_lifecycleVars PROVE LifecycleInv'
    OBVIOUS
<1>1. CASE UNCHANGED lifecycleVars
    BY <1>1, ZenonT(60) DEF lifecycleVars, LifecycleInv, LifecycleTypeOK, EvaluationsInv, EvaluationInv, AloneInv, Unwritten,
        LogInv, IsLatest, SettledInv, TrailInv, Moves, Follows, LandingInv, NotificationInv, Pending, LifecycleEventsInv
<1>2. CASE LifecycleNext
    <2>1. PICK c \in Evaluators :
            \/ Evaluate(c) \/ ReadStage(c) \/ RecordStage(c) \/ ReadNotification(c) \/ ApplyPolicy(c)
            \/ DecideNotification(c) \/ Remediate(c) \/ RepairTransition(c) \/ EvaluationDies(c)
        BY <1>2 DEF LifecycleNext
    <2> QED
        BY <2>1, EvaluateKeepsInv, ReadStageKeepsInv, RecordStageKeepsInv, ReadNotificationKeepsInv,
           ApplyPolicyKeepsInv, DecideNotificationKeepsInv, RemediateKeepsInv, RepairTransitionKeepsInv,
           EvaluationDiesKeepsInv
<1> QED
    BY <1>1, <1>2

LEMMA LifecycleInvariant == LifecycleSpec => []LifecycleInv
BY LifecycleInitiallyInv, LifecycleStepKeepsInv, PTL DEF LifecycleSpec

\* The rows, the log and the evaluations have their types (LifecycleService, LifecycleRepository).
THEOREM LifecycleTypeCorrect == LifecycleSpec => []LifecycleTypeOK
<1>1. LifecycleInv => LifecycleTypeOK
    BY DEF LifecycleInv
<1> QED
    BY <1>1, LifecycleInvariant, PTL

LEMMA TheLatest ==
    ASSUME LifecycleInv, transitions # {}
    PROVE  IsLatest(Latest)
<1>1. \E t \in transitions : \A u \in transitions : u.at <= t.at
    BY DEF LifecycleInv, LogInv, IsLatest
<1> QED
    BY <1>1, Zenon DEF IsLatest, Latest

\* The lifecycle row, the log of transitions, the notification row and the events tell one
\* stage wherever no overlap and no death has left them apart since the last that mends it.
THEOREM StageAgrees == LifecycleSpec => []StageAgreesOnceSettled
<1>1. ASSUME LifecycleInv PROVE StageAgreesOnceSettled
    <2>1. "trail" \notin unsettled =>
            /\ Cardinality(Moves) = lifecycle.count
            /\ \A t \in Moves : IF \A u \in Moves : t.at <= u.at THEN t.from = NoStage
                                ELSE \E u \in Moves : u.at < t.at /\ u.to = t.from
        BY <1>1 DEF LifecycleInv, SettledInv, TrailInv, Follows
    <2>2. "landing" \notin unsettled /\ transitions # {} => ~TransitionDrift /\ Latest.from = lifecycle.previous
        <3> SUFFICES ASSUME "landing" \notin unsettled, transitions # {}
                     PROVE  Latest.to = lifecycle.stage /\ Latest.from = lifecycle.previous
            BY DEF TransitionDrift
        <3>1. IsLatest(Latest) /\ Latest \in transitions
            BY <1>1, TheLatest DEF IsLatest
        <3> QED
            BY <3>1, <1>1 DEF LifecycleInv, SettledInv, LandingInv
    <2>3. "notification" \notin unsettled /\ Pending = {} /\ notified.stage # NoStage =>
            ~NotificationDrift /\ notified.enabled = (notified.stage \notin QuietStages)
        BY <1>1 DEF LifecycleInv, SettledInv, NotificationInv, NotificationDrift
    <2>4. "log" \notin unsettled /\ notified.stage # NoStage =>
            policyUpdates # <<>> /\ policyUpdates[Len(policyUpdates)] = notified.stage
        BY <1>1 DEF LifecycleInv, SettledInv, LifecycleEventsInv
    <2> QED
        BY <2>1, <2>2, <2>3, <2>4 DEF StageAgreesOnceSettled, Moves, Pending
<1> QED
    BY <1>1, LifecycleInvariant, PTL

-----------------------------------------------------------------------------
(***************************************************************************)
(* Reminders and their limits (Notifications), for any number of senders   *)
(* and days.                                                               *)
(***************************************************************************)
-----------------------------------------------------------------------------
(* The inductive invariant *)

\* The sends since day w, of which the last may not be on the row yet.
Recent(w) == {i \in 1 .. Len(sends) : DayOf(sends[i].at) >= w}
UnrecordedSend(r) == r.pc = "sent" \/ (r.pc = "recording" /\ r.ok)

\* r has been approved and has not sent.
Bound(r) == r.pc \in {"attempting", "sending", "failed"} \/ (r.pc = "recording" /\ ~r.ok)

\* No overlap and no death since day w.
Clean(w) == \A d \in Int : w <= d /\ d <= DayOf(slot) => d \notin disturbed

\* What the only run, which may be over, knows of the sends since day w,
WindowInv(w, r) ==
    /\ r.pc = "deciding" => \A i \in Recent(w) : r.loaded.until >= sends[i].at + Cooldown
    /\ Bound(r) => \A i \in Recent(w) : slot >= sends[i].at + Cooldown
    /\ r.pc = "recording" /\ DayOf(r.at) >= w => r.loaded = notice /\ \A i \in Recent(w) : sends[i].at <= r.at
    /\ r.pc = "recording" /\ DayOf(r.at) < w => Recent(w) = {}
    /\ \A i \in Recent(w) : notice.until >= sends[i].at + Cooldown \/ (UnrecordedSend(r) /\ i = Len(sends))

\* of the number of today's,
TodayInv(r) ==
    /\ r.pc = "deciding" => CountToday(r.loaded) >= Cardinality(Recent(DayOf(slot)))
    /\ Bound(r) => Cardinality(Recent(DayOf(slot))) < r.limit
    /\ CountToday(notice) + (IF UnrecordedSend(r) THEN 1 ELSE 0) >= Cardinality(Recent(DayOf(slot)))

\* and of the delivery rows.
RowsInv(r) ==
    /\ deliveries["pending"] = IF r.pc \in {"sending", "sent", "failed"} THEN 1 ELSE 0
    /\ deliveries["sent"] + (IF r.pc = "sent" THEN 1 ELSE 0) = Len(sends)

Knows(r) ==
    /\ \A w \in Int : w <= DayOf(slot) /\ Clean(w) => WindowInv(w, r)
    /\ DayOf(slot) \notin disturbed => TodayInv(r)
    /\ disturbed = {} => RowsInv(r)

Alone(p) == \A o \in Senders \ {p} : ~Busy(o)
SoleInv == \A p \in Senders : Alone(p) => Knows(sender[p])
OneAtATime == DayOf(slot) \notin disturbed => \A p \in Senders : Busy(p) => Alone(p)

SenderInv(r) == (Bound(r) => r.limit >= 1) /\ (r.pc = "recording" => r.at <= slot)
SendersInv == \A p \in Senders : SenderInv(sender[p])

Holding == {p \in Senders : sender[p].pc \in {"sending", "sent", "failed"}}
PendingInv == deliveries["pending"] >= Cardinality(Holding)

SendsInv == \A i \in 1 .. Len(sends) : sends[i].at <= slot

BurstInv ==
    \A j \in 1 .. Len(sends) :
        {DayOf(sends[j].at) - 1, DayOf(sends[j].at)} \cap disturbed = {} =>
            /\ Cardinality({i \in 1 .. j : DayOf(sends[i].at) = DayOf(sends[j].at)}) <= sends[j].limit
            /\ \A i \in 1 .. j - 1 : DayOf(sends[i].at) >= DayOf(sends[j].at) - 1 => sends[j].at >= sends[i].at + Cooldown

NotificationsInv ==
    NotificationsTypeOK /\ SendersInv /\ PendingInv /\ OneAtATime /\ SoleInv /\ SendsInv /\ BurstInv

-----------------------------------------------------------------------------
(* Days, and the sets that are counted *)

LEMMA DaysGoOn ==
    /\ \A t \in Nat : DayOf(t) \in Nat
    /\ \A t, u \in Nat : t <= u => DayOf(t) <= DayOf(u)
<1>1. ASSUME NEW t \in Nat PROVE DayOf(t) \in Nat
    BY NotificationsAssumption DEF DayOf
<1>2. ASSUME NEW t \in Nat, NEW u \in Nat, t <= u PROVE DayOf(t) <= DayOf(u)
    BY <1>2, NotificationsAssumption DEF DayOf
<1> QED
    BY <1>1, <1>2

LEMMA NotificationsFacts ==
    ASSUME NEW p \in Senders, NotificationsInv
    PROVE  /\ slot \in Nat /\ DayOf(slot) \in Nat /\ Len(sends) \in Nat
           /\ sender[p] \in Sender /\ SenderInv(sender[p]) /\ sender \in [Senders -> Sender]
           /\ notice \in NoticeRow /\ deliveries \in [DeliveryStatuses -> Nat]
           /\ Cooldown \in Nat \ {0}
           /\ \A i \in 1 .. Len(sends) : sends[i] \in Send /\ sends[i].at \in Nat /\ sends[i].at <= slot
<1>1. slot \in Nat
    BY DEF NotificationsInv, NotificationsTypeOK, Slots
<1>2. sends \in Seq(Send)
    BY DEF NotificationsInv, NotificationsTypeOK
<1>3. ASSUME NEW i \in 1 .. Len(sends) PROVE sends[i] \in Send /\ sends[i].at \in Nat /\ sends[i].at <= slot
    <2>1. sends[i] \in Send
        BY <1>2
    <2>2. sends[i].at \in Nat
        BY <2>1 DEF Send, Slots
    <2> QED
        BY <2>1, <2>2 DEF NotificationsInv, SendsInv
<1>4. sender[p] \in Sender /\ SenderInv(sender[p]) /\ sender \in [Senders -> Sender]
      /\ notice \in NoticeRow /\ deliveries \in [DeliveryStatuses -> Nat]
    BY DEF NotificationsInv, NotificationsTypeOK, SendersInv
<1>5. DayOf(slot) \in Nat
    BY <1>1, DaysGoOn
<1>6. Len(sends) \in Nat
    BY <1>2
<1>7. Cooldown \in Nat \ {0}
    BY NotificationsAssumption
<1> QED
    BY <1>1, <1>3, <1>4, <1>5, <1>6, <1>7

LEMMA RecentIsFinite ==
    ASSUME NEW w, Len(sends) \in Nat
    PROVE  IsFiniteSet(Recent(w)) /\ Cardinality(Recent(w)) \in Nat
<1>1. Recent(w) \subseteq 1 .. Len(sends)
    BY DEF Recent
<1>2. IsFiniteSet(1 .. Len(sends))
    BY FS_Interval
<1> QED
    BY <1>1, <1>2, FS_Subset, FS_CardinalityType

LEMMA HoldingIsFinite ==
    IsFiniteSet(Holding) /\ Cardinality(Holding) \in Nat
<1>1. Holding \subseteq Senders /\ IsFiniteSet(Senders)
    BY NotificationsAssumption DEF Holding
<1> QED
    BY <1>1, FS_Subset, FS_CardinalityType

LEMMA CountTodayIsNat ==
    ASSUME NEW row \in NoticeRow
    PROVE  CountToday(row) \in Nat
BY DEF CountToday, NoticeRow

LEMMA NoSenderIsTyped ==
    /\ NoNoticeYet \in NoticeRow
    /\ NoSender \in Sender /\ NoSender.pc = "idle"
<1>1. \E l \in Limits : TRUE
    BY NotificationsAssumption
<1>2. PICK l \in Limits : l = CHOOSE m \in Limits : TRUE
    BY <1>1
<1>3. NoNoticeYet \in NoticeRow
    <2>1. PICK d \in Nat : d = DayOf(LastSlot)
        BY DaysGoOn, NotificationsAssumption
    <2>2. -1 \in -1 .. DayOf(LastSlot)
        BY <2>1
    <2>3. 0 \in 0 .. LastSlot + Cooldown
        BY NotificationsAssumption
    <2> QED
        BY <2>2, <2>3 DEF NoNoticeYet, NoticeRow
<1>4. 0 \in Slots
    BY NotificationsAssumption DEF Slots
<1> QED
    BY <1>2, <1>3, <1>4 DEF NoSender, Sender, SenderSteps

-----------------------------------------------------------------------------
(* What the only run knows *)

LEMMA NothingToKnow ==
    ASSUME NEW r, DayOf(slot)' \in Nat, DayOf(slot)' \in disturbed'
    PROVE  Knows(r)'
<1>1. \A w \in Int : w <= DayOf(slot)' => ~Clean(w)'
    BY DEF Clean
<1>2. disturbed' # {}
    OBVIOUS
<1> QED
    BY <1>1, <1>2, Zenon DEF Knows

LEMMA IdleKnowsAlike ==
    ASSUME NEW r, NEW e, r.pc = "idle", e.pc = "idle", Knows(r)'
    PROVE  Knows(e)'
<1>1. ~Bound(e) /\ ~UnrecordedSend(e) /\ ~Bound(r) /\ ~UnrecordedSend(r)
    BY DEF Bound, UnrecordedSend
<1>2. \A w : WindowInv(w, r)' => WindowInv(w, e)'
    BY <1>1 DEF WindowInv, Bound, UnrecordedSend
<1>3. TodayInv(r)' => TodayInv(e)'
    BY <1>1 DEF TodayInv, Bound, UnrecordedSend
<1>4. RowsInv(r)' => RowsInv(e)'
    BY DEF RowsInv
<1> QED
    BY <1>2, <1>3, <1>4, Zenon DEF Knows

LEMMA TheSameKnows ==
    ASSUME NEW r, NEW p, sender'[p] = r, Knows(r)'
    PROVE  Knows(sender[p])'
BY Zenon DEF Knows, WindowInv, TodayInv, RowsInv, Bound, UnrecordedSend

\* Any step of a run: it is enough that it keeps what an undisturbed run knows.
LEMMA SenderStepKeepsInv ==
    ASSUME NEW p \in Senders, NEW r \in Sender, NotificationsInv, Step(p, r), slot' = slot,
           NotificationsTypeOK', SenderInv(r), PendingInv', SendsInv', BurstInv',
           Alone(p) /\ disturbed' = disturbed => Knows(r)'
    PROVE  NotificationsInv'
<1>1. sender' = [sender EXCEPT ![p] = r] /\ sender \in [Senders -> Sender]
    BY NotificationsFacts DEF Step
<1>2. sender'[p] = r /\ \A o \in Senders \ {p} : sender'[o] = sender[o]
    BY <1>1
<1>3. DayOf(slot)' \in Nat /\ DayOf(slot)' = DayOf(slot)
    BY NotificationsFacts DEF DayOf
<1>4. IF Alone(p) THEN disturbed' = disturbed ELSE DayOf(slot)' \in disturbed'
    BY <1>3 DEF Step, Disturb, Alone
<1>5. SendersInv'
    <2> SUFFICES ASSUME NEW o \in Senders PROVE SenderInv(sender[o])'
        BY Zenon DEF SendersInv
    <2>1. SenderInv(sender[o])
        BY NotificationsFacts
    <2>2. sender'[o] = r \/ sender'[o] = sender[o]
        BY <1>2
    <2> QED
        BY <2>1, <2>2 DEF SenderInv, Bound
<1>6. Alone(p)' <=> Alone(p)
    BY <1>2 DEF Alone, Busy
<1>7. OneAtATime'
    <2> SUFFICES ASSUME Alone(p), NEW q \in Senders, Busy(q)' PROVE Alone(q)'
        BY <1>4, Zenon DEF OneAtATime
    <2>1. q = p
        BY <1>2 DEF Alone, Busy
    <2> QED
        BY <2>1, <1>6
<1>8. SoleInv'
    <2> SUFFICES ASSUME NEW q \in Senders, Alone(q)' PROVE Knows(sender[q])'
        BY Zenon DEF SoleInv
    <2>1. CASE ~Alone(p)
        <3>1. PICK e : e = sender'[q]
            OBVIOUS
        <3>2. Knows(e)'
            BY <2>1, <1>3, <1>4, NothingToKnow
        <3> QED
            BY <3>1, <3>2, TheSameKnows
    <2>2. CASE Alone(p)
        <3>1. Knows(r)'
            BY <2>2, <1>4
        <3>2. CASE q = p
            BY <3>1, <3>2, <1>2, TheSameKnows
        <3>3. CASE q # p
            <4>1. PICK e : e = sender'[q]
                OBVIOUS
            <4>2. r.pc = "idle" /\ e.pc = "idle"
                BY <2>2, <3>3, <4>1, <1>2 DEF Alone, Busy
            <4>3. Knows(e)'
                BY <3>1, <4>2, IdleKnowsAlike
            <4> QED
                BY <4>1, <4>3, TheSameKnows
        <3> QED
            BY <3>2, <3>3
    <2> QED
        BY <2>1, <2>2
<1> QED
    BY <1>5, <1>7, <1>8 DEF NotificationsInv

LEMMA StepTypes ==
    ASSUME NEW p \in Senders, NEW r \in Sender, NotificationsInv, Step(p, r)
    PROVE  sender' \in [Senders -> Sender] /\ disturbed' \subseteq 0 .. DayOf(LastSlot)
<1>1. sender' \in [Senders -> Sender]
    BY NotificationsFacts DEF Step
<1>2. LastSlot \in Nat /\ slot <= LastSlot /\ slot \in Nat
    BY NotificationsAssumption DEF NotificationsInv, NotificationsTypeOK, Slots
<1>3. DayOf(slot) \in 0 .. DayOf(LastSlot)
    <2>1. DayOf(slot) \in Nat /\ DayOf(LastSlot) \in Nat /\ DayOf(slot) <= DayOf(LastSlot)
        BY <1>2, DaysGoOn
    <2> QED
        BY <2>1
<1> QED
    BY <1>1, <1>3 DEF Step, Disturb, NotificationsInv, NotificationsTypeOK

LEMMA BurstInvLasts ==
    ASSUME NotificationsInv, UNCHANGED <<slot, sends>>, disturbed \subseteq disturbed'
    PROVE  BurstInv' /\ SendsInv'
<1>1. SendsInv'
    BY DEF NotificationsInv, SendsInv
<1>2. ASSUME NEW j \in 1 .. Len(sends),
             {DayOf(sends[j].at) - 1, DayOf(sends[j].at)} \cap disturbed' = {}
      PROVE  {DayOf(sends[j].at) - 1, DayOf(sends[j].at)} \cap disturbed = {}
    BY <1>2
<1>3. BurstInv'
    BY <1>2, Zenon DEF NotificationsInv, BurstInv, DayOf
<1> QED
    BY <1>1, <1>3

\* A step that touches the run alone.
LEMMA QuietStepKeepsInv ==
    ASSUME NEW p \in Senders, NEW r \in Sender, NotificationsInv, Step(p, r),
           UNCHANGED <<slot, chosenLimit, notice, deliveries, sends>>, notices' \in 0 .. MaxNotices, SenderInv(r),
           r.pc \in {"sending", "sent", "failed"} <=> sender[p].pc \in {"sending", "sent", "failed"},
           Knows(sender[p]) => Knows(r)
    PROVE  NotificationsInv'
<1>1. sender' \in [Senders -> Sender] /\ disturbed' \subseteq 0 .. DayOf(LastSlot)
    BY StepTypes
<1>2. NotificationsTypeOK'
    BY <1>1 DEF NotificationsInv, NotificationsTypeOK
<1>3. Holding' = Holding
    BY NotificationsFacts DEF Holding, Step
<1>4. PendingInv'
    BY <1>3 DEF PendingInv, NotificationsInv
<1>5. disturbed \subseteq disturbed'
    BY DEF Step, Disturb
<1>6. BurstInv' /\ SendsInv'
    BY <1>5, BurstInvLasts
<1>7. Alone(p) /\ disturbed' = disturbed => Knows(r)'
    <2> SUFFICES ASSUME Alone(p), disturbed' = disturbed PROVE Knows(r)'
        OBVIOUS
    <2>1. Knows(r)
        BY DEF NotificationsInv, SoleInv
    <2> QED
        BY <2>1, Zenon DEF Knows, Clean, WindowInv, TodayInv, RowsInv, Recent, CountToday, DayOf, Bound, UnrecordedSend
<1> QED
    BY <1>2, <1>4, <1>6, <1>7, SenderStepKeepsInv

-----------------------------------------------------------------------------
(* The decision *)

LEMMA ReadPreferencesKeepsInv ==
    ASSUME NEW p \in Senders, NotificationsInv, ReadPreferences(p)
    PROVE  NotificationsInv'
<1>1. PICK q \in Sender : q = NoSender /\ q.pc = "idle"
    BY NoSenderIsTyped
<1>2. PICK r : r = [q EXCEPT !.pc = "preferring", !.limit = chosenLimit]
    OBVIOUS
<1>3. chosenLimit \in Limits
    BY DEF NotificationsInv, NotificationsTypeOK
<1>4. r \in Sender /\ r.pc = "preferring"
    BY <1>2, <1>3 DEF Sender, SenderSteps
<1>5. Step(p, r) /\ UNCHANGED <<slot, chosenLimit, notice, deliveries, sends>> /\ sender[p].pc = "idle"
    BY <1>1, <1>2 DEF ReadPreferences, Busy
<1>6. notices' \in 0 .. MaxNotices
    BY NotificationsAssumption DEF ReadPreferences, NotificationsInv, NotificationsTypeOK
<1>7. SenderInv(r)
    BY <1>4 DEF SenderInv, Bound
<1>8. Knows(sender[p]) => Knows(r)
    BY <1>4, <1>5, Zenon DEF Knows, WindowInv, TodayInv, RowsInv, Bound, UnrecordedSend
<1> QED
    BY <1>4, <1>5, <1>6, <1>7, <1>8, QuietStepKeepsInv

LEMMA SyncPreferencesKeepsInv ==
    ASSUME NEW p \in Senders, NotificationsInv, SyncPreferences(p)
    PROVE  NotificationsInv'
<1>1. PICK q \in Sender : q = sender[p]
    BY NotificationsFacts
<1>2. PICK r : r = [q EXCEPT !.pc = "deciding", !.loaded = notice]
    OBVIOUS
<1>3. notice \in NoticeRow /\ q.pc = "preferring"
    BY <1>1, NotificationsFacts DEF SyncPreferences
<1>4. r \in Sender /\ r.pc = "deciding" /\ r.loaded = notice
    BY <1>2, <1>3 DEF Sender, SenderSteps
<1>5. Step(p, r) /\ UNCHANGED <<slot, chosenLimit, notice, deliveries, sends, notices>>
    BY <1>1, <1>2 DEF SyncPreferences
<1>6. notices' \in 0 .. MaxNotices
    BY <1>5 DEF NotificationsInv, NotificationsTypeOK
<1>7. SenderInv(r)
    BY <1>4 DEF SenderInv, Bound
<1>8. ASSUME Knows(q) PROVE Knows(r)
    <2>1. ~Bound(q) /\ ~UnrecordedSend(q) /\ ~Bound(r) /\ ~UnrecordedSend(r)
        BY <1>3, <1>4 DEF Bound, UnrecordedSend
    <2>2. ASSUME NEW w \in Int, WindowInv(w, q) PROVE WindowInv(w, r)
        BY <2>1, <2>2, <1>4 DEF WindowInv
    <2>3. ASSUME TodayInv(q) PROVE TodayInv(r)
        <3>1. CountToday(notice) \in Nat
            BY <1>3, CountTodayIsNat
        <3> QED
            BY <2>1, <2>3, <3>1, <1>4 DEF TodayInv
    <2>4. RowsInv(q) => RowsInv(r)
        BY <1>3, <1>4 DEF RowsInv
    <2> QED
        BY <1>8, <2>2, <2>3, <2>4, Zenon DEF Knows
<1> QED
    BY <1>1, <1>3, <1>4, <1>5, <1>6, <1>7, <1>8, QuietStepKeepsInv

LEMMA DeclineKeepsInv ==
    ASSUME NEW p \in Senders, NotificationsInv, Decline(p)
    PROVE  NotificationsInv'
<1>1. PICK r \in Sender : r = NoSender /\ r.pc = "idle"
    BY NoSenderIsTyped
<1>2. Step(p, r) /\ UNCHANGED <<slot, chosenLimit, notice, deliveries, sends, notices>> /\ sender[p].pc = "deciding"
    BY <1>1 DEF Decline
<1>3. notices' \in 0 .. MaxNotices
    BY <1>2 DEF NotificationsInv, NotificationsTypeOK
<1>4. SenderInv(r)
    BY <1>1 DEF SenderInv, Bound
<1>5. Knows(sender[p]) => Knows(r)
    BY <1>1, <1>2, Zenon DEF Knows, WindowInv, TodayInv, RowsInv, Bound, UnrecordedSend
<1> QED
    BY <1>1, <1>2, <1>3, <1>4, <1>5, QuietStepKeepsInv

LEMMA ApproveKeepsInv ==
    ASSUME NEW p \in Senders, NotificationsInv, Approve(p)
    PROVE  NotificationsInv'
<1>1. PICK q \in Sender : q = sender[p]
    BY NotificationsFacts
<1>2. PICK r : r = [q EXCEPT !.pc = "attempting"]
    OBVIOUS
<1>3. q.pc = "deciding" /\ ~Refused(q.limit, q.loaded)
    BY <1>1 DEF Approve
<1>4. r \in Sender /\ r.pc = "attempting" /\ r.limit = q.limit
    BY <1>2, <1>3 DEF Sender, SenderSteps
<1>5. Step(p, r) /\ UNCHANGED <<slot, chosenLimit, notice, deliveries, sends, notices>>
    BY <1>1, <1>2 DEF Approve
<1>6. notices' \in 0 .. MaxNotices
    BY <1>5 DEF NotificationsInv, NotificationsTypeOK
<1>7. q.limit \in Nat /\ q.limit # 0 /\ CountToday(q.loaded) \in Nat /\ CountToday(q.loaded) < q.limit
      /\ q.loaded.until \in Nat /\ q.loaded.until <= slot /\ slot \in Nat
    <2>1. q.loaded \in NoticeRow /\ q.limit \in Nat
        BY NotificationsAssumption DEF Sender
    <2>2. q.loaded.until \in Nat
        BY <2>1, NotificationsAssumption DEF NoticeRow
    <2>3. CountToday(q.loaded) \in Nat
        BY <2>1, CountTodayIsNat
    <2>4. slot \in Nat
        BY NotificationsFacts
    <2> QED
        BY <2>1, <2>2, <2>3, <2>4, <1>3 DEF Refused
<1>8. SenderInv(r)
    BY <1>4, <1>7 DEF SenderInv
<1>9. ASSUME Knows(q) PROVE Knows(r)
    <2>1. ~UnrecordedSend(q) /\ ~UnrecordedSend(r)
        BY <1>3, <1>4 DEF UnrecordedSend
    <2>2. ASSUME NEW w \in Int, WindowInv(w, q) PROVE WindowInv(w, r)
        <3>1. \A i \in Recent(w) : q.loaded.until >= sends[i].at + Cooldown
            BY <2>2, <1>3 DEF WindowInv
        <3>2. \A i \in Recent(w) : sends[i].at + Cooldown \in Nat
            BY NotificationsFacts DEF Recent
        <3>3. \A i \in Recent(w) : slot >= sends[i].at + Cooldown
            BY <3>1, <3>2, <1>7
        <3> QED
            BY <2>1, <2>2, <3>3, <1>4 DEF WindowInv
    <2>3. ASSUME TodayInv(q) PROVE TodayInv(r)
        <3>1. PICK n \in Nat : n = Cardinality(Recent(DayOf(slot)))
            BY NotificationsFacts, RecentIsFinite
        <3>2. n < r.limit
            BY <2>3, <3>1, <1>3, <1>4, <1>7 DEF TodayInv
        <3> QED
            BY <2>1, <2>3, <3>1, <3>2, <1>4 DEF TodayInv
    <2>4. RowsInv(q) => RowsInv(r)
        BY <1>3, <1>4 DEF RowsInv
    <2> QED
        BY <1>9, <2>2, <2>3, <2>4, Zenon DEF Knows
<1> QED
    BY <1>1, <1>3, <1>4, <1>5, <1>6, <1>8, <1>9, QuietStepKeepsInv

LEMMA BackendRaisesKeepsInv ==
    ASSUME NEW p \in Senders, NotificationsInv, BackendRaises(p)
    PROVE  NotificationsInv'
<1>1. PICK q \in Sender : q = sender[p]
    BY NotificationsFacts
<1>2. PICK r : r = [q EXCEPT !.pc = "failed"]
    OBVIOUS
<1>3. q.pc = "sending" /\ SenderInv(q)
    BY <1>1, NotificationsFacts DEF BackendRaises
<1>4. r \in Sender /\ r.pc = "failed" /\ r.limit = q.limit
    BY <1>2 DEF Sender, SenderSteps
<1>5. Step(p, r) /\ UNCHANGED <<slot, chosenLimit, notice, deliveries, sends, notices>>
    BY <1>1, <1>2 DEF BackendRaises
<1>6. notices' \in 0 .. MaxNotices
    BY <1>5 DEF NotificationsInv, NotificationsTypeOK
<1>7. SenderInv(r)
    BY <1>3, <1>4 DEF SenderInv, Bound
<1>8. Knows(q) => Knows(r)
    BY <1>3, <1>4, Zenon DEF Knows, WindowInv, TodayInv, RowsInv, Bound, UnrecordedSend
<1> QED
    BY <1>1, <1>3, <1>4, <1>5, <1>6, <1>7, <1>8, QuietStepKeepsInv

-----------------------------------------------------------------------------
(* The delivery *)

LEMMA CreateAttemptKeepsInv ==
    ASSUME NEW p \in Senders, NotificationsInv, CreateAttempt(p)
    PROVE  NotificationsInv'
<1>1. PICK q \in Sender : q = sender[p]
    BY NotificationsFacts
<1>2. PICK attempt : attempt = q.attempt + 1
    OBVIOUS
<1>3. PICK r : r = [q EXCEPT !.pc = "sending", !.attempt = attempt]
    OBVIOUS
<1>4. q.pc = "attempting" /\ SenderInv(q) /\ attempt \in Nat
    BY <1>1, <1>2, NotificationsFacts DEF CreateAttempt, Sender
<1>5. r \in Sender /\ r.pc = "sending" /\ r.limit = q.limit
    BY <1>3, <1>4 DEF Sender, SenderSteps
<1>6. [q EXCEPT !.pc = "sending", !.attempt = @ + 1] = [q EXCEPT !.pc = "sending", !.attempt = q.attempt + 1]
    BY DEF Sender
<1>7. Step(p, r) /\ UNCHANGED <<slot, chosenLimit, notice, sends, notices>>
      /\ deliveries' = [deliveries EXCEPT !["pending"] = @ + 1]
    BY <1>1, <1>2, <1>3, <1>6, Zenon DEF CreateAttempt
<1>8. deliveries' \in [DeliveryStatuses -> Nat] /\ deliveries'["pending"] = deliveries["pending"] + 1
      /\ deliveries'["sent"] = deliveries["sent"] /\ deliveries["pending"] \in Nat
    BY <1>7, NotificationsFacts DEF DeliveryStatuses
<1>9. NotificationsTypeOK'
    BY <1>5, <1>7, <1>8, StepTypes DEF NotificationsInv, NotificationsTypeOK
<1>10. SenderInv(r)
    BY <1>4, <1>5 DEF SenderInv, Bound
<1>11. PendingInv'
    <2>1. Holding' = Holding \cup {p} /\ p \notin Holding
        BY <1>1, <1>4, <1>5, <1>7, NotificationsFacts DEF Holding, Step
    <2>2. Cardinality(Holding') = Cardinality(Holding) + 1 /\ Cardinality(Holding) \in Nat
        BY <2>1, HoldingIsFinite, FS_AddElement
    <2>3. PICK n \in Nat : n = Cardinality(Holding)
        BY <2>2
    <2>4. deliveries["pending"] >= n
        BY <2>3 DEF NotificationsInv, PendingInv
    <2>5. deliveries'["pending"] >= n + 1
        BY <2>4, <1>8
    <2> QED
        BY <2>2, <2>3, <2>5, Zenon DEF PendingInv
<1>12. BurstInv' /\ SendsInv'
    BY <1>7, BurstInvLasts DEF Step, Disturb
<1>13. ASSUME Alone(p), disturbed' = disturbed PROVE Knows(r)'
    <2>1. Knows(q)
        BY <1>1, <1>13 DEF NotificationsInv, SoleInv
    <2>2. Bound(q) /\ Bound(r) /\ ~UnrecordedSend(q) /\ ~UnrecordedSend(r)
        BY <1>4, <1>5 DEF Bound, UnrecordedSend
    <2>3. ASSUME NEW w \in Int, WindowInv(w, q) PROVE WindowInv(w, r)'
        BY <2>2, <2>3, <1>5, <1>7, Zenon DEF WindowInv, Recent, DayOf, Bound, UnrecordedSend
    <2>4. TodayInv(q) => TodayInv(r)'
        BY <2>2, <1>5, <1>7, Zenon DEF TodayInv, Recent, DayOf, CountToday, Bound, UnrecordedSend
    <2>5. disturbed = {} /\ RowsInv(q) => RowsInv(r)'
        BY <1>4, <1>5, <1>7, <1>8 DEF RowsInv
    <2>6. slot' = slot /\ disturbed' = disturbed
        BY <1>7, <1>13
    <2> QED
        BY <2>1, <2>3, <2>4, <2>5, <2>6, Zenon DEF Knows, Clean, DayOf
<1> QED
    BY <1>5, <1>7, <1>9, <1>10, <1>11, <1>12, <1>13, SenderStepKeepsInv

LEMMA MarkStatusKeepsInv ==
    ASSUME NEW p \in Senders, NotificationsInv, MarkStatus(p)
    PROVE  NotificationsInv'
<1>1. PICK q \in Sender : q = sender[p]
    BY NotificationsFacts
<1>2. PICK ok \in BOOLEAN : ok = (q.pc = "sent")
    OBVIOUS
<1>3. PICK r : r = [q EXCEPT !.pc = "recording", !.ok = ok, !.at = slot, !.loaded = notice]
    OBVIOUS
<1>4. q.pc \in {"sent", "failed"} /\ SenderInv(q) /\ notice \in NoticeRow /\ slot \in Slots /\ slot \in Nat
    BY <1>1, NotificationsFacts DEF MarkStatus, NotificationsInv, NotificationsTypeOK
<1>5. r \in Sender /\ r.pc = "recording" /\ r.limit = q.limit /\ r.ok = ok /\ r.at = slot /\ r.loaded = notice
    BY <1>3, <1>4 DEF Sender, SenderSteps
<1>6. Step(p, r) /\ UNCHANGED <<slot, chosenLimit, notice, sends, notices>>
      /\ deliveries' = [deliveries EXCEPT !["pending"] = @ - 1, ![q.pc] = @ + 1]
    BY <1>1, <1>2, <1>3 DEF MarkStatus
<1>7. Holding' = Holding \ {p} /\ p \in Holding
    BY <1>1, <1>4, <1>5, <1>6, NotificationsFacts DEF Holding, Step
<1>8. Cardinality(Holding') = Cardinality(Holding) - 1 /\ Cardinality(Holding) \in Nat /\ Cardinality(Holding) # 0
    BY <1>7, HoldingIsFinite, FS_RemoveElement, FS_EmptySet
<1>9. PICK n \in Nat : n = Cardinality(Holding)
    BY <1>8
<1>10. deliveries["pending"] \in Nat /\ deliveries["pending"] >= n /\ n # 0
    BY <1>8, <1>9, NotificationsFacts DEF DeliveryStatuses, NotificationsInv, PendingInv
<1>11. deliveries' \in [DeliveryStatuses -> Nat] /\ deliveries'["pending"] = deliveries["pending"] - 1
      /\ deliveries'["sent"] = IF q.pc = "sent" THEN deliveries["sent"] + 1 ELSE deliveries["sent"]
    BY <1>4, <1>6, <1>10, NotificationsFacts DEF DeliveryStatuses
<1>12. NotificationsTypeOK'
    BY <1>5, <1>6, <1>11, StepTypes DEF NotificationsInv, NotificationsTypeOK
<1>13. SenderInv(r)
    <2>1. Bound(r) => Bound(q)
        BY <1>2, <1>4, <1>5 DEF Bound
    <2> QED
        BY <2>1, <1>4, <1>5 DEF SenderInv
<1>14. PendingInv'
    <2>1. deliveries'["pending"] >= n - 1
        BY <1>10, <1>11
    <2> QED
        BY <2>1, <1>8, <1>9, Zenon DEF PendingInv
<1>15. BurstInv' /\ SendsInv'
    BY <1>6, BurstInvLasts DEF Step, Disturb
<1>16. ASSUME Alone(p), disturbed' = disturbed PROVE Knows(r)'
    <2>1. Knows(q)
        BY <1>1, <1>16 DEF NotificationsInv, SoleInv
    <2>2. (Bound(r) <=> Bound(q)) /\ (UnrecordedSend(r) <=> UnrecordedSend(q))
        BY <1>2, <1>4, <1>5 DEF Bound, UnrecordedSend
    <2>3. ASSUME NEW w \in Int, w <= DayOf(slot), WindowInv(w, q) PROVE WindowInv(w, r)
        <3>1. \A i \in Recent(w) : sends[i].at <= slot
            BY NotificationsFacts DEF Recent
        <3>2. ~(DayOf(r.at) < w)
            BY <2>3, <1>5, NotificationsFacts
        <3> QED
            BY <2>2, <2>3, <3>1, <3>2, <1>5 DEF WindowInv
    <2>4. TodayInv(q) => TodayInv(r)
        BY <2>2, <1>4, <1>5 DEF TodayInv
    <2>5. RowsInv(q) => RowsInv(r)'
        BY <1>4, <1>5, <1>6, <1>11, NotificationsFacts DEF RowsInv, DeliveryStatuses
    <2>6. UNCHANGED <<slot, disturbed, notice, sends>>
        BY <1>6, <1>16
    <2>7. \A w \in Int : WindowInv(w, r) => WindowInv(w, r)'
        BY <2>6, Zenon DEF WindowInv, Recent, DayOf, Bound, UnrecordedSend
    <2>8. TodayInv(r) => TodayInv(r)'
        BY <2>6, Zenon DEF TodayInv, Recent, DayOf, CountToday, Bound, UnrecordedSend
    <2>9. DayOf(slot)' = DayOf(slot) /\ \A w \in Int : Clean(w)' => Clean(w)
        BY <2>6, Zenon DEF Clean, DayOf
    <2>10. \A w \in Int : w <= DayOf(slot)' /\ Clean(w)' => WindowInv(w, r)'
        BY <2>1, <2>3, <2>7, <2>9 DEF Knows
    <2> QED
        BY <2>1, <2>4, <2>5, <2>6, <2>8, <2>9, <2>10, Zenon DEF Knows
<1> QED
    BY <1>5, <1>6, <1>12, <1>13, <1>14, <1>15, <1>16, SenderStepKeepsInv

\* One send more: what the earlier ones showed stays, and the new one keeps limit and cooldown.
LEMMA BurstInvGrows ==
    ASSUME NEW e \in Send, NotificationsInv, sends' = Append(sends, e), slot' = slot, disturbed \subseteq disturbed',
           e.at = slot,
           {DayOf(slot) - 1, DayOf(slot)} \cap disturbed' = {} =>
                /\ Cardinality(Recent(DayOf(slot))) < e.limit
                /\ \A i \in Recent(DayOf(slot) - 1) : slot >= sends[i].at + Cooldown
    PROVE  BurstInv' /\ SendsInv'
<1> DEFINE n == Len(sends)
<1>1. n \in Nat /\ slot \in Nat /\ DayOf(slot) \in Nat /\ sends \in Seq(Send)
      /\ \A i \in 1 .. n : sends[i].at \in Nat /\ sends[i].at <= slot
    <2>1. n \in Nat /\ slot \in Nat /\ sends \in Seq(Send)
        BY DEF NotificationsInv, NotificationsTypeOK, Slots
    <2>2. \A i \in 1 .. n : sends[i] \in Send
        BY <2>1
    <2>3. \A i \in 1 .. n : sends[i].at \in Nat /\ sends[i].at <= slot
        BY <2>2 DEF Send, Slots, NotificationsInv, SendsInv
    <2> QED
        BY <2>1, <2>3, DaysGoOn
<1>2. Len(sends') = n + 1 /\ sends'[n + 1] = e /\ \A i \in 1 .. n : sends'[i] = sends[i]
    BY <1>1
<1>3. SendsInv'
    BY <1>1, <1>2 DEF SendsInv
<1>4. BurstInv'
    <2> SUFFICES ASSUME NEW j \in 1 .. n + 1,
                        {DayOf(sends'[j].at) - 1, DayOf(sends'[j].at)} \cap disturbed' = {}
                 PROVE  /\ Cardinality({i \in 1 .. j : DayOf(sends'[i].at) = DayOf(sends'[j].at)}) <= sends'[j].limit
                        /\ \A i \in 1 .. j - 1 : DayOf(sends'[i].at) >= DayOf(sends'[j].at) - 1
                                                  => sends'[j].at >= sends'[i].at + Cooldown
        BY <1>2, Zenon DEF BurstInv, DayOf
    <2>1. CASE j \in 1 .. n
        <3>1. sends'[j] = sends[j] /\ \A i \in 1 .. j : sends'[i] = sends[i]
            BY <1>1, <1>2, <2>1
        <3>2. {DayOf(sends[j].at) - 1, DayOf(sends[j].at)} \cap disturbed = {}
            BY <3>1
        <3>3. /\ Cardinality({i \in 1 .. j : DayOf(sends[i].at) = DayOf(sends[j].at)}) <= sends[j].limit
              /\ \A i \in 1 .. j - 1 : DayOf(sends[i].at) >= DayOf(sends[j].at) - 1 => sends[j].at >= sends[i].at + Cooldown
            BY <2>1, <3>2 DEF NotificationsInv, BurstInv
        <3>4. {i \in 1 .. j : DayOf(sends'[i].at) = DayOf(sends'[j].at)}
              = {i \in 1 .. j : DayOf(sends[i].at) = DayOf(sends[j].at)}
            BY <3>1
        <3>5. \A i \in 1 .. j - 1 : i \in 1 .. j
            BY <1>1, <2>1
        <3> QED
            BY <3>1, <3>3, <3>4, <3>5, Zenon
    <2>2. CASE j = n + 1
        <3>1. sends'[j] = e /\ DayOf(sends'[j].at) = DayOf(slot)
            BY <1>2, <2>2
        <3>2. /\ Cardinality(Recent(DayOf(slot))) < e.limit
              /\ \A i \in Recent(DayOf(slot) - 1) : slot >= sends[i].at + Cooldown
            BY <3>1
        <3>3. {i \in 1 .. j : DayOf(sends'[i].at) = DayOf(sends'[j].at)} = Recent(DayOf(slot)) \cup {n + 1}
            <4>1. \A i \in 1 .. n : DayOf(sends[i].at) \in Nat /\ DayOf(sends[i].at) <= DayOf(slot)
                BY <1>1, DaysGoOn
            <4>2. \A i \in 1 .. n : DayOf(sends[i].at) = DayOf(slot) <=> DayOf(sends[i].at) >= DayOf(slot)
                BY <4>1, <1>1
            <4>3. \A i \in 1 .. j : i \in 1 .. n \/ i = n + 1
                BY <1>1, <2>2
            <4>4. 1 .. n \subseteq 1 .. j /\ n + 1 \in 1 .. j
                BY <1>1, <2>2
            <4> QED
                BY <4>2, <4>3, <4>4, <1>2, <3>1, <2>2 DEF Recent
        <3>4. n + 1 \notin Recent(DayOf(slot))
            BY <1>1 DEF Recent
        <3>5. Cardinality(Recent(DayOf(slot)) \cup {n + 1}) = Cardinality(Recent(DayOf(slot))) + 1
              /\ Cardinality(Recent(DayOf(slot))) \in Nat
            BY <1>1, <3>4, RecentIsFinite, FS_AddElement
        <3>6. PICK m \in Nat : m = Cardinality(Recent(DayOf(slot)))
            BY <3>5
        <3>7. e.limit \in Nat
            BY NotificationsAssumption DEF Send
        <3>8. m + 1 <= e.limit
            BY <3>2, <3>6, <3>7
        <3>9. Cardinality({i \in 1 .. j : DayOf(sends'[i].at) = DayOf(sends'[j].at)}) <= sends'[j].limit
            BY <3>1, <3>3, <3>5, <3>6, <3>8, Zenon
        <3>10. \A i \in 1 .. j - 1 : i \in 1 .. n
            BY <1>1, <2>2
        <3>11. ASSUME NEW i \in 1 .. j - 1, DayOf(sends'[i].at) >= DayOf(sends'[j].at) - 1
               PROVE  sends'[j].at >= sends'[i].at + Cooldown
            <4>1. i \in 1 .. n /\ sends'[i] = sends[i]
                BY <3>10, <1>2
            <4>2. i \in Recent(DayOf(slot) - 1)
                BY <4>1, <3>1, <3>11 DEF Recent
            <4> QED
                BY <4>1, <4>2, <3>1, <3>2
        <3> QED
            BY <3>9, <3>11
    <2>3. j \in 1 .. n \/ j = n + 1
        BY <1>1
    <2> QED
        BY <2>1, <2>2, <2>3
<1> QED
    BY <1>3, <1>4

LEMMA BackendSendsKeepsInv ==
    ASSUME NEW p \in Senders, NotificationsInv, BackendSends(p)
    PROVE  NotificationsInv'
<1>1. PICK q \in Sender : q = sender[p]
    BY NotificationsFacts
<1>2. PICK r : r = [q EXCEPT !.pc = "sent"]
    OBVIOUS
<1>3. q.pc = "sending" /\ SenderInv(q) /\ slot \in Slots /\ slot \in Nat /\ DayOf(slot) \in Nat /\ Len(sends) \in Nat
      /\ sends \in Seq(Send)
    BY <1>1, NotificationsFacts DEF BackendSends, NotificationsInv, NotificationsTypeOK
<1>4. r \in Sender /\ r.pc = "sent" /\ r.limit = q.limit /\ q.limit \in Limits
    BY <1>2 DEF Sender, SenderSteps
<1>5. PICK e : e = [at |-> slot, limit |-> q.limit]
    OBVIOUS
<1>6. e \in Send /\ e.at = slot /\ e.limit = q.limit
    BY <1>3, <1>4, <1>5 DEF Send
<1>7. Step(p, r) /\ sends' = Append(sends, e) /\ UNCHANGED <<slot, chosenLimit, notice, deliveries, notices>>
    BY <1>1, <1>2, <1>5 DEF BackendSends
<1>8. Len(sends') = Len(sends) + 1 /\ sends' \in Seq(Send) /\ sends'[Len(sends) + 1] = e
      /\ \A i \in 1 .. Len(sends) : sends'[i] = sends[i]
    BY <1>3, <1>6, <1>7
<1>9. NotificationsTypeOK'
    BY <1>4, <1>7, <1>8, StepTypes DEF NotificationsInv, NotificationsTypeOK
<1>10. SenderInv(r)
    BY <1>4 DEF SenderInv, Bound
<1>11. PendingInv'
    <2>1. Holding' = Holding
        BY <1>1, <1>3, <1>4, <1>7, NotificationsFacts DEF Holding, Step
    <2> QED
        BY <2>1, <1>7 DEF PendingInv, NotificationsInv
<1>12. Bound(q) /\ ~UnrecordedSend(q) /\ ~Bound(r) /\ UnrecordedSend(r)
    BY <1>3, <1>4 DEF Bound, UnrecordedSend
<1>13. IF Alone(p) THEN disturbed' = disturbed /\ Knows(q) ELSE DayOf(slot) \in disturbed'
    BY <1>1, <1>7 DEF Step, Disturb, Alone, NotificationsInv, SoleInv
<1>14. BurstInv' /\ SendsInv'
    <2>1. {DayOf(slot) - 1, DayOf(slot)} \cap disturbed' = {} =>
            /\ Cardinality(Recent(DayOf(slot))) < e.limit
            /\ \A i \in Recent(DayOf(slot) - 1) : slot >= sends[i].at + Cooldown
        <3> SUFFICES ASSUME {DayOf(slot) - 1, DayOf(slot)} \cap disturbed' = {}
                     PROVE  /\ Cardinality(Recent(DayOf(slot))) < e.limit
                            /\ \A i \in Recent(DayOf(slot) - 1) : slot >= sends[i].at + Cooldown
            OBVIOUS
        <3>1. disturbed' = disturbed /\ Knows(q)
            BY <1>13
        <3>2. TodayInv(q)
            BY <3>1 DEF Knows
        <3>3. \A d \in Int : DayOf(slot) - 1 <= d /\ d <= DayOf(slot) => d \in {DayOf(slot) - 1, DayOf(slot)}
            BY <1>3
        <3>4. Clean(DayOf(slot) - 1)
            BY <3>1, <3>3 DEF Clean
        <3>5. DayOf(slot) - 1 \in Int /\ DayOf(slot) - 1 <= DayOf(slot)
            BY <1>3
        <3>6. WindowInv(DayOf(slot) - 1, q)
            BY <3>1, <3>4, <3>5 DEF Knows
        <3> QED
            BY <3>2, <3>6, <1>6, <1>12 DEF TodayInv, WindowInv
    <2>2. disturbed \subseteq disturbed'
        BY <1>7 DEF Step, Disturb
    <2> QED
        BY <2>1, <2>2, <1>6, <1>7, BurstInvGrows
<1>15. ASSUME Alone(p), disturbed' = disturbed PROVE Knows(r)'
    <2>1. Knows(q)
        BY <1>13, <1>15
    <2>2. DayOf(slot)' = DayOf(slot) /\ \A w \in Int : Clean(w)' => Clean(w)
        BY <1>7, <1>15, Zenon DEF Clean, DayOf
    <2>3. ASSUME NEW w \in Int, w <= DayOf(slot) PROVE Recent(w)' = Recent(w) \cup {Len(sends) + 1}
        <3>1. 1 .. Len(sends') = (1 .. Len(sends)) \cup {Len(sends) + 1} /\ Len(sends) + 1 \notin 1 .. Len(sends)
            BY <1>3, <1>8
        <3>2. DayOf(sends'[Len(sends) + 1].at) >= w
            BY <2>3, <1>3, <1>6, <1>8
        <3>3. Recent(w)' = {i \in 1 .. Len(sends') : DayOf(sends'[i].at) >= w}
            BY DEF Recent, DayOf
        <3> QED
            BY <3>1, <3>2, <3>3, <1>8 DEF Recent
    <2>4. ASSUME NEW w \in Int, w <= DayOf(slot), WindowInv(w, q) PROVE WindowInv(w, r)'
        <3>1. \A i \in Recent(w) : notice.until >= sends[i].at + Cooldown
            BY <2>4, <1>12 DEF WindowInv
        <3>2. \A i \in Recent(w)' : notice'.until >= sends'[i].at + Cooldown \/ i = Len(sends')
            BY <2>3, <2>4, <3>1, <1>7, <1>8 DEF Recent
        <3>3. UnrecordedSend(r)' /\ ~Bound(r)'
            BY <1>12 DEF UnrecordedSend, Bound
        <3> QED
            BY <3>2, <3>3, <1>4 DEF WindowInv
    <2>5. ASSUME TodayInv(q) PROVE TodayInv(r)'
        <3>1. Recent(DayOf(slot))' = Recent(DayOf(slot)) \cup {Len(sends) + 1}
            <4>1. PICK w \in Int : w = DayOf(slot)
                BY <1>3
            <4>2. Recent(w)' = Recent(w) \cup {Len(sends) + 1}
                BY <4>1, <2>3, <1>3
            <4>3. Recent(DayOf(slot))' = Recent(w)'
                BY <4>1, <2>2, Zenon DEF Recent
            <4> QED
                BY <4>1, <4>2, <4>3
        <3>2. Len(sends) + 1 \notin Recent(DayOf(slot))
            BY <1>3 DEF Recent
        <3>3. PICK m \in Nat : m = Cardinality(Recent(DayOf(slot)))
            BY <1>3, RecentIsFinite
        <3>4. Cardinality(Recent(DayOf(slot))') = m + 1
            BY <1>3, <3>1, <3>2, <3>3, RecentIsFinite, FS_AddElement
        <3>5. CountToday(notice)' = CountToday(notice) /\ CountToday(notice) \in Nat
            BY <1>7, CountTodayIsNat, NotificationsFacts DEF CountToday, DayOf
        <3>6. CountToday(notice) >= m
            BY <2>5, <3>3, <3>5, <1>12 DEF TodayInv
        <3>7. CountToday(notice)' + 1 >= m + 1
            BY <3>5, <3>6
        <3>8. UnrecordedSend(r)' /\ ~Bound(r)' /\ r.pc # "deciding"
            BY <1>4, <1>12 DEF UnrecordedSend, Bound
        <3> QED
            BY <3>4, <3>7, <3>8, Zenon DEF TodayInv
    <2>6. RowsInv(q) => RowsInv(r)'
        BY <1>3, <1>4, <1>7, <1>8, NotificationsFacts DEF RowsInv, DeliveryStatuses
    <2>7. \A w \in Int : w <= DayOf(slot)' /\ Clean(w)' => WindowInv(w, r)'
        BY <2>1, <2>2, <2>4 DEF Knows
    <2> QED
        BY <2>1, <2>2, <2>5, <2>6, <2>7, <1>15, Zenon DEF Knows
<1> QED
    BY <1>4, <1>7, <1>9, <1>10, <1>11, <1>14, <1>15, SenderStepKeepsInv

LEMMA NoticeColumns ==
    ASSUME NEW row \in NoticeRow, NEW loaded \in NoticeRow, NEW new \in NoticeRow
    PROVE  LET w == [col \in DOMAIN row |-> IF new[col] # loaded[col] THEN new[col] ELSE row[col]]
           IN  w \in NoticeRow /\ (loaded = row => w = new)
<1>1. DOMAIN row = {"day", "count", "until"}
    BY DEF NoticeRow
<1> DEFINE w == [col \in DOMAIN row |-> IF new[col] # loaded[col] THEN new[col] ELSE row[col]]
<1>2. w = [day |-> IF new.day # loaded.day THEN new.day ELSE row.day,
           count |-> IF new.count # loaded.count THEN new.count ELSE row.count,
           until |-> IF new.until # loaded.until THEN new.until ELSE row.until]
    BY <1>1
<1> HIDE DEF w
<1>3. w \in NoticeRow
    BY <1>2 DEF NoticeRow
<1>4. loaded = row => w = new
    BY <1>2 DEF NoticeRow
<1> QED
    BY <1>3, <1>4 DEF w

LEMMA RecordedRow ==
    ASSUME NEW q \in Sender
    PROVE  /\ Recorded(q) \in NoticeRow
           /\ Recorded(q).day = DayOf(q.at)
           /\ Recorded(q).until = IF q.ok THEN q.at + Cooldown ELSE q.loaded.until
           /\ Recorded(q).count = (IF q.loaded.day = DayOf(q.at) THEN q.loaded.count ELSE 0) + (IF q.ok THEN 1 ELSE 0)
<1>1. q.loaded \in NoticeRow /\ q.at \in Slots /\ q.at \in Nat /\ q.at <= LastSlot /\ LastSlot \in Nat /\ Cooldown \in Nat
    BY NotificationsAssumption DEF Sender, Slots
<1>2. q.loaded.count \in Nat /\ q.loaded.until \in 0 .. LastSlot + Cooldown
    BY <1>1 DEF NoticeRow
<1>3. DayOf(q.at) \in -1 .. DayOf(LastSlot)
    <2>1. DayOf(q.at) \in Nat /\ DayOf(LastSlot) \in Nat /\ DayOf(q.at) <= DayOf(LastSlot)
        BY <1>1, DaysGoOn
    <2> QED
        BY <2>1
<1>4. PICK till : till = IF q.ok THEN q.at + Cooldown ELSE q.loaded.until
    OBVIOUS
<1>5. PICK before \in Nat : before = IF q.loaded.day = DayOf(q.at) THEN q.loaded.count ELSE 0
    BY <1>2
<1>6. PICK count : count = IF q.ok THEN before + 1 ELSE before
    OBVIOUS
<1>7. till \in 0 .. LastSlot + Cooldown
    BY <1>1, <1>2, <1>4
<1>8. count \in Nat /\ count = before + (IF q.ok THEN 1 ELSE 0)
    BY <1>6
<1>9. Recorded(q) = [day |-> DayOf(q.at), count |-> count, until |-> till]
    BY <1>4, <1>5, <1>6, Zenon DEF Recorded
<1> QED
    BY <1>3, <1>4, <1>5, <1>7, <1>8, <1>9 DEF NoticeRow

LEMMA RecordDeliveryKeepsInv ==
    ASSUME NEW p \in Senders, NotificationsInv, RecordDelivery(p)
    PROVE  NotificationsInv'
<1>1. PICK q \in Sender : q = sender[p]
    BY NotificationsFacts
<1>2. PICK r : r = IF q.ok \/ q.attempt >= MaxAttempts THEN NoSender ELSE [q EXCEPT !.pc = "attempting"]
    OBVIOUS
<1>3. q.pc = "recording" /\ SenderInv(q) /\ notice \in NoticeRow /\ slot \in Nat /\ DayOf(slot) \in Nat /\ q.at \in Nat
      /\ q.loaded \in NoticeRow /\ Len(sends) \in Nat /\ q.limit \in Nat /\ Cooldown \in Nat
    BY <1>1, NotificationsFacts, NotificationsAssumption DEF RecordDelivery, Sender, Slots
<1>4. r \in Sender /\ (r.pc = "idle" \/ (r.pc = "attempting" /\ ~q.ok /\ r.limit = q.limit))
    <2>1. CASE q.ok \/ q.attempt >= MaxAttempts
        BY <2>1, <1>2, NoSenderIsTyped
    <2>2. CASE ~(q.ok \/ q.attempt >= MaxAttempts)
        BY <2>2, <1>2 DEF Sender, SenderSteps
    <2> QED
        BY <2>1, <2>2
<1>5. Step(p, r) /\ UNCHANGED <<slot, chosenLimit, deliveries, sends, notices>>
      /\ notice' = [col \in DOMAIN notice |-> IF Recorded(q)[col] # q.loaded[col] THEN Recorded(q)[col] ELSE notice[col]]
    BY <1>1, <1>2 DEF RecordDelivery
<1>6. PICK new \in NoticeRow : new = Recorded(q)
    BY RecordedRow
<1>7. notice' \in NoticeRow /\ (q.loaded = notice => notice' = new)
    BY <1>3, <1>5, <1>6, NoticeColumns
<1>8. NotificationsTypeOK'
    BY <1>4, <1>5, <1>7, StepTypes DEF NotificationsInv, NotificationsTypeOK
<1>9. (q.ok => UnrecordedSend(q)) /\ (~q.ok => Bound(q) /\ ~UnrecordedSend(q)) /\ ~UnrecordedSend(r) /\ (Bound(r) => ~q.ok /\ r.limit = q.limit)
    BY <1>3, <1>4 DEF Bound, UnrecordedSend
<1>10. SenderInv(r)
    BY <1>3, <1>4, <1>9 DEF SenderInv
<1>11. PendingInv'
    <2>1. Holding' = Holding
        BY <1>1, <1>3, <1>4, <1>5, NotificationsFacts DEF Holding, Step
    <2> QED
        BY <2>1, <1>5 DEF PendingInv, NotificationsInv
<1>12. BurstInv' /\ SendsInv'
    BY <1>5, BurstInvLasts DEF Step, Disturb
<1>13. ASSUME Alone(p), disturbed' = disturbed PROVE Knows(r)'
    <2>1. Knows(q)
        BY <1>1, <1>13 DEF NotificationsInv, SoleInv
    <2>2. DayOf(slot)' = DayOf(slot) /\ \A w \in Int : Clean(w)' => Clean(w)
        BY <1>5, <1>13, Zenon DEF Clean, DayOf
    <2>3. \A w : Recent(w)' = Recent(w)
        BY <1>5, Zenon DEF Recent, DayOf
    <2>4. ASSUME NEW w \in Int, w <= DayOf(slot), WindowInv(w, q) PROVE WindowInv(w, r)'
        <3>1. \A i \in Recent(w) : sends[i].at \in Nat
            BY NotificationsFacts DEF Recent
        <3>2. ASSUME NEW i \in Recent(w) PROVE notice'.until >= sends[i].at + Cooldown
            <4>1. DayOf(q.at) \in Nat /\ q.loaded = notice /\ sends[i].at <= q.at
                <5>1. DayOf(q.at) \in Nat /\ ~(DayOf(q.at) < w)
                    BY <2>4, <3>2, <1>3, DaysGoOn DEF WindowInv
                <5>2. DayOf(q.at) >= w
                    BY <5>1
                <5> QED
                    BY <5>1, <5>2, <2>4, <1>3 DEF WindowInv
            <4>2. notice' = new
                BY <4>1, <1>7
            <4>3. CASE q.ok
                <5>1. notice'.until = q.at + Cooldown
                    BY <4>2, <4>3, <1>6, RecordedRow
                <5> QED
                    BY <5>1, <4>1, <3>1, <1>3
            <4>4. CASE ~q.ok
                <5>1. notice'.until = notice.until
                    BY <4>1, <4>2, <4>4, <1>6, RecordedRow
                <5> QED
                    BY <5>1, <4>4, <2>4, <1>9 DEF WindowInv
            <4> QED
                BY <4>3, <4>4
        <3>3. Bound(r) => \A i \in Recent(w) : slot >= sends[i].at + Cooldown
            BY <2>4, <1>9 DEF WindowInv
        <3>4. r.pc # "deciding" /\ r.pc # "recording"
            BY <1>4
        <3>5. Bound(r)' <=> Bound(r)
            BY DEF Bound
        <3> QED
            BY <3>2, <3>3, <3>4, <3>5, <2>3, <1>5 DEF WindowInv
    <2>5. ASSUME DayOf(slot) \notin disturbed PROVE TodayInv(r)'
        <3>1. TodayInv(q)
            BY <2>1, <2>5 DEF Knows
        <3>2. Clean(DayOf(slot))
            BY <2>5, <1>3 DEF Clean
        <3>3. WindowInv(DayOf(slot), q)
            BY <2>1, <3>2, <1>3 DEF Knows
        <3>4. PICK m \in Nat : m = Cardinality(Recent(DayOf(slot)))
            BY <1>3, RecentIsFinite
        <3>5. Cardinality(Recent(DayOf(slot))') = m
            BY <3>4, <1>5, Zenon DEF Recent, DayOf
        <3>6. Bound(r) => m < r.limit
            BY <3>1, <3>4, <1>9 DEF TodayInv
        <3>7. CountToday(notice)' >= m
            <4>1. DayOf(q.at) \in Nat /\ DayOf(q.at) <= DayOf(slot)
                BY <1>3, DaysGoOn DEF SenderInv
            <4>2. CountToday(notice)' = IF notice'.day = DayOf(slot) THEN notice'.count ELSE 0
                BY <2>2 DEF CountToday
            <4>3. CASE DayOf(q.at) < DayOf(slot)
                <5>1. Recent(DayOf(slot)) = {}
                    BY <3>3, <4>3, <1>3 DEF WindowInv
                <5>2. m = 0
                    BY <5>1, <3>4, FS_EmptySet
                <5> QED
                    BY <5>2, <4>2, <1>7 DEF NoticeRow
            <4>4. CASE DayOf(q.at) = DayOf(slot)
                <5>1. q.loaded = notice
                    BY <3>3, <4>4, <1>3 DEF WindowInv
                <5>2. notice' = new /\ notice'.day = DayOf(slot)
                    BY <5>1, <4>4, <1>6, <1>7, RecordedRow
                <5>3. notice'.count = CountToday(notice) + (IF q.ok THEN 1 ELSE 0)
                    BY <5>1, <5>2, <4>4, <1>6, RecordedRow DEF CountToday
                <5>4. CountToday(notice) + (IF q.ok THEN 1 ELSE 0) >= m
                    BY <3>1, <3>4, <1>9 DEF TodayInv
                <5> QED
                    BY <5>2, <5>3, <5>4, <4>2
            <4> QED
                BY <4>1, <4>3, <4>4, <1>3
        <3>8. r.pc # "deciding" /\ ~UnrecordedSend(r)' /\ (Bound(r)' => Bound(r))
            BY <1>4 DEF UnrecordedSend, Bound
        <3>9. CountToday(notice)' \in Nat
            BY <1>7 DEF CountToday, NoticeRow
        <3>10. CountToday(notice)' + 0 >= m
            BY <3>7, <3>9
        <3> QED
            BY <3>5, <3>6, <3>8, <3>10, Zenon DEF TodayInv
    <2>6. RowsInv(q) => RowsInv(r)'
        BY <1>3, <1>4, <1>5, NotificationsFacts DEF RowsInv, DeliveryStatuses
    <2>7. \A w \in Int : w <= DayOf(slot)' /\ Clean(w)' => WindowInv(w, r)'
        BY <2>1, <2>2, <2>4 DEF Knows
    <2> QED
        BY <2>1, <2>2, <2>5, <2>6, <2>7, <1>13, Zenon DEF Knows
<1> QED
    BY <1>4, <1>5, <1>8, <1>10, <1>11, <1>12, <1>13, SenderStepKeepsInv

LEMMA SenderDiesKeepsInv ==
    ASSUME NEW p \in Senders, NotificationsInv, SenderDies(p)
    PROVE  NotificationsInv'
<1>1. PICK r \in Sender : r = NoSender /\ r.pc = "idle"
    BY NoSenderIsTyped
<1>2. sender' = [sender EXCEPT ![p] = r] /\ disturbed' = disturbed \cup {DayOf(slot)}
      /\ UNCHANGED <<slot, chosenLimit, notice, deliveries, notices, sends>>
    BY <1>1 DEF SenderDies, Disturb
<1>3. sender' \in [Senders -> Sender] /\ \A o \in Senders : sender'[o] = r \/ sender'[o] = sender[o]
    BY <1>2, NotificationsFacts
<1>4. DayOf(slot)' \in Nat /\ DayOf(slot)' \in disturbed'
    BY <1>2, NotificationsFacts DEF DayOf
<1>5. disturbed' \subseteq 0 .. DayOf(LastSlot)
    <2>1. LastSlot \in Nat /\ slot <= LastSlot /\ slot \in Nat
        BY NotificationsAssumption DEF NotificationsInv, NotificationsTypeOK, Slots
    <2>2. DayOf(slot) \in Nat /\ DayOf(LastSlot) \in Nat /\ DayOf(slot) <= DayOf(LastSlot)
        BY <2>1, DaysGoOn
    <2>3. DayOf(slot) \in 0 .. DayOf(LastSlot)
        BY <2>2
    <2> QED
        BY <2>3, <1>2 DEF NotificationsInv, NotificationsTypeOK
<1>6. NotificationsTypeOK'
    BY <1>2, <1>3, <1>5 DEF NotificationsInv, NotificationsTypeOK
<1>7. SendersInv'
    <2> SUFFICES ASSUME NEW o \in Senders PROVE SenderInv(sender[o])'
        BY Zenon DEF SendersInv
    <2>1. SenderInv(sender[o])
        BY NotificationsFacts
    <2> QED
        BY <2>1, <1>1, <1>2, <1>3 DEF SenderInv, Bound
<1>8. PendingInv'
    <2>1. Holding' \subseteq Holding
        BY <1>1, <1>3 DEF Holding
    <2>2. Cardinality(Holding') <= Cardinality(Holding) /\ Cardinality(Holding') \in Nat /\ Cardinality(Holding) \in Nat
        BY <2>1, HoldingIsFinite, FS_Subset, FS_CardinalityType
    <2>3. PICK n \in Nat, m \in Nat : n = Cardinality(Holding') /\ m = Cardinality(Holding)
        BY <2>2
    <2>4. deliveries["pending"] \in Nat /\ deliveries["pending"] >= m /\ deliveries'["pending"] = deliveries["pending"] /\ n <= m
        BY <2>2, <2>3, <1>2, NotificationsFacts DEF DeliveryStatuses, NotificationsInv, PendingInv
    <2>5. deliveries'["pending"] >= n
        BY <2>4
    <2> QED
        BY <2>3, <2>5, Zenon DEF PendingInv
<1>9. BurstInv' /\ SendsInv'
    BY <1>2, BurstInvLasts
<1>10. OneAtATime'
    BY <1>4 DEF OneAtATime
<1>11. SoleInv'
    <2> SUFFICES ASSUME NEW q \in Senders PROVE Knows(sender[q])'
        BY Zenon DEF SoleInv
    <2>1. PICK e : e = sender'[q]
        OBVIOUS
    <2>2. Knows(e)'
        BY <1>4, NothingToKnow
    <2> QED
        BY <2>1, <2>2, TheSameKnows
<1> QED
    BY <1>6, <1>7, <1>8, <1>9, <1>10, <1>11 DEF NotificationsInv

-----------------------------------------------------------------------------
(* Time *)

LEMMA OneBusyIsAlone ==
    ASSUME NEW p \in Senders, Busy(p), ~(Cardinality({o \in Senders : Busy(o)}) > 1)
    PROVE  Alone(p)
<1> DEFINE busy == {o \in Senders : Busy(o)}
<1>1. IsFiniteSet(busy)
    BY NotificationsAssumption, FS_Subset
<1>2. SUFFICES ASSUME NEW o \in Senders \ {p}, Busy(o) PROVE FALSE
    BY DEF Alone
<1>3. {p, o} \subseteq busy
    BY <1>2
<1>4. Cardinality({p, o}) = 2
    <2>1. {p, o} = {p} \cup {o} /\ o \notin {p}
        BY <1>2
    <2>2. IsFiniteSet({p}) /\ Cardinality({p}) = 1
        BY FS_Singleton
    <2>3. Cardinality({p} \cup {o}) = 1 + 1
        BY <2>1, <2>2, FS_AddElement
    <2> QED
        BY <2>1, <2>3
<1>5. 2 <= Cardinality(busy) /\ Cardinality(busy) \in Nat
    BY <1>1, <1>3, <1>4, FS_Subset, FS_CardinalityType
<1> QED
    BY <1>5

LEMMA PassTimeKeepsInv ==
    ASSUME NotificationsInv, PassTime
    PROVE  NotificationsInv'
<1>1. /\ slot < LastSlot /\ slot' = slot + 1
      /\ disturbed' = IF Cardinality({o \in Senders : Busy(o)}) > 1 THEN disturbed \cup {DayOf(slot + 1)} ELSE disturbed
      /\ UNCHANGED <<chosenLimit, notice, deliveries, sender, notices, sends>>
    BY DEF PassTime, Disturb
<1>2. slot \in Nat /\ slot' \in Nat /\ LastSlot \in Nat /\ slot' <= LastSlot /\ slot' \in Slots
      /\ DayOf(slot) \in Nat /\ DayOf(slot') \in Nat /\ DayOf(slot) <= DayOf(slot')
      /\ DayOf(LastSlot) \in Nat /\ DayOf(slot') <= DayOf(LastSlot)
    <2>1. slot \in Nat /\ LastSlot \in Nat
        BY NotificationsAssumption DEF NotificationsInv, NotificationsTypeOK, Slots
    <2>2. slot' \in Nat /\ slot' <= LastSlot /\ slot <= slot' /\ slot' \in Slots
        BY <2>1, <1>1 DEF Slots
    <2> QED
        BY <2>1, <2>2, DaysGoOn
<1>3. DayOf(slot)' = DayOf(slot')
    BY DEF DayOf
<1>4. \/ disturbed' = disturbed \cup {DayOf(slot')}
      \/ disturbed' = disturbed /\ ~(Cardinality({o \in Senders : Busy(o)}) > 1)
    BY <1>1
<1>5. NotificationsTypeOK'
    <2>1. DayOf(slot') \in 0 .. DayOf(LastSlot)
        BY <1>2
    <2>2. disturbed' \subseteq 0 .. DayOf(LastSlot)
        BY <2>1, <1>4 DEF NotificationsInv, NotificationsTypeOK
    <2> QED
        BY <2>2, <1>1, <1>2 DEF NotificationsInv, NotificationsTypeOK
<1>6. SendersInv'
    <2> SUFFICES ASSUME NEW o \in Senders PROVE SenderInv(sender[o])'
        BY Zenon DEF SendersInv
    <2>1. SenderInv(sender[o]) /\ sender[o].at \in Nat
        BY NotificationsFacts DEF Sender, Slots
    <2> QED
        BY <2>1, <1>1, <1>2 DEF SenderInv, Bound
<1>7. PendingInv'
    BY <1>1 DEF PendingInv, Holding, NotificationsInv
<1>8. \A i \in 1 .. Len(sends) : sends[i].at \in Nat /\ sends[i].at <= slot
    <2>1. sends \in Seq(Send)
        BY DEF NotificationsInv, NotificationsTypeOK
    <2>2. \A i \in 1 .. Len(sends) : sends[i] \in Send
        BY <2>1
    <2> QED
        BY <2>2 DEF Send, Slots, NotificationsInv, SendsInv
<1>9. SendsInv'
    BY <1>1, <1>2, <1>8 DEF SendsInv
<1>10. BurstInv'
    <2>1. ASSUME NEW j \in 1 .. Len(sends),
                 {DayOf(sends[j].at) - 1, DayOf(sends[j].at)} \cap disturbed' = {}
          PROVE  {DayOf(sends[j].at) - 1, DayOf(sends[j].at)} \cap disturbed = {}
        BY <2>1, <1>4
    <2> QED
        BY <2>1, <1>1, Zenon DEF NotificationsInv, BurstInv, DayOf
<1>11. OneAtATime'
    <2> SUFFICES ASSUME DayOf(slot') \notin disturbed', NEW p \in Senders, Busy(p) PROVE Alone(p)
        BY <1>1, <1>3, Zenon DEF OneAtATime, Alone, Busy
    <2>1. ~(Cardinality({o \in Senders : Busy(o)}) > 1)
        BY <1>4
    <2> QED
        BY <2>1, OneBusyIsAlone
<1>12. SoleInv'
    <2> SUFFICES ASSUME NEW p \in Senders, Alone(p) PROVE Knows(sender[p])'
        BY <1>1, Zenon DEF SoleInv, Alone, Busy
    <2>1. PICK q \in Sender : q = sender[p]
        BY NotificationsFacts
    <2>2. Knows(q)'
        <3>1. CASE DayOf(slot') \in disturbed'
            BY <3>1, <1>2, <1>3, NothingToKnow
        <3>2. CASE DayOf(slot') \notin disturbed'
            <4>1. disturbed' = disturbed /\ Knows(q) /\ SenderInv(q) /\ q.at \in Nat
                BY <3>2, <2>1, <1>4, NotificationsFacts DEF NotificationsInv, SoleInv, Sender, Slots
            <4>2. \A w : Recent(w)' = Recent(w)
                BY <1>1, Zenon DEF Recent, DayOf
            <4>3. ASSUME NEW w \in Int, DayOf(slot) < w
                  PROVE  Recent(w) = {} /\ (q.pc = "recording" => DayOf(q.at) < w)
                <5>1. \A i \in 1 .. Len(sends) : DayOf(sends[i].at) \in Nat /\ DayOf(sends[i].at) <= DayOf(slot)
                    BY <1>2, <1>8, DaysGoOn
                <5>2. \A i \in 1 .. Len(sends) : ~(DayOf(sends[i].at) >= w)
                    BY <5>1, <4>3, <1>2
                <5>3. q.pc = "recording" => DayOf(q.at) \in Nat /\ DayOf(q.at) <= DayOf(slot)
                    BY <4>1, <1>2, DaysGoOn DEF SenderInv
                <5> QED
                    BY <5>2, <5>3, <4>3, <1>2 DEF Recent
            <4>4. ASSUME NEW w \in Int, w <= DayOf(slot'), Clean(w)' PROVE WindowInv(w, q)'
                <5>1. CASE w <= DayOf(slot)
                    <6>1. Clean(w)
                        BY <4>4, <4>1, <1>2, <1>3 DEF Clean
                    <6>2. WindowInv(w, q)
                        BY <5>1, <6>1, <4>1 DEF Knows
                    <6>3. \A i \in Recent(w) : sends[i].at + Cooldown \in Int
                        BY <1>8, NotificationsAssumption DEF Recent
                    <6>4. \A i \in Recent(w) : slot >= sends[i].at + Cooldown => slot' >= sends[i].at + Cooldown
                        BY <6>3, <1>1, <1>2
                    <6> QED
                        BY <6>2, <6>4, <4>2, <1>1, Zenon DEF WindowInv, DayOf, Bound, UnrecordedSend
                <5>2. CASE DayOf(slot) < w
                    <6>1. Recent(w)' = {} /\ (q.pc = "recording" => DayOf(q.at) < w)
                        BY <5>2, <4>2, <4>3
                    <6>2. q.pc = "recording" => ~(DayOf(q.at) >= w)
                        BY <6>1, <4>1, DaysGoOn
                    <6> QED
                        BY <6>1, <6>2, Zenon DEF WindowInv, DayOf
                <5> QED
                    BY <5>1, <5>2, <4>4, <1>2
            <4>5. TodayInv(q)'
                <5>1. CASE DayOf(slot') = DayOf(slot)
                    <6>1. TodayInv(q)
                        BY <5>1, <3>2, <4>1 DEF Knows
                    <6>2. Recent(DayOf(slot))' = Recent(DayOf(slot))
                        BY <5>1, <1>1, <1>3, Zenon DEF Recent, DayOf
                    <6>3. CountToday(notice)' = CountToday(notice) /\ CountToday(q.loaded)' = CountToday(q.loaded)
                        BY <5>1, <1>1, <1>3, Zenon DEF CountToday
                    <6> QED
                        BY <6>1, <6>2, <6>3, Zenon DEF TodayInv, Bound, UnrecordedSend
                <5>2. CASE DayOf(slot) < DayOf(slot')
                    <6>1. \A i \in 1 .. Len(sends) : ~(DayOf(sends[i].at) >= DayOf(slot'))
                        <7>1. PICK w \in Int : w = DayOf(slot')
                            BY <1>2
                        <7>2. Recent(w) = {}
                            BY <7>1, <5>2, <4>3
                        <7> QED
                            BY <7>1, <7>2, Zenon DEF Recent
                    <6>2. Recent(DayOf(slot))' = {}
                        BY <6>1, <1>1, Zenon DEF Recent, DayOf
                    <6>3. Cardinality(Recent(DayOf(slot))') = 0
                        BY <6>2, FS_EmptySet
                    <6>4. CountToday(notice)' \in Nat /\ CountToday(q.loaded)' \in Nat
                        BY <1>1, NotificationsFacts DEF CountToday, NoticeRow, Sender
                    <6>5. q.limit \in Nat /\ (Bound(q) => q.limit >= 1)
                        BY <4>1, NotificationsAssumption DEF SenderInv, Sender
                    <6>6. /\ CountToday(q.loaded)' >= 0 /\ (Bound(q) => 0 < q.limit)
                          /\ CountToday(notice)' + (IF UnrecordedSend(q) THEN 1 ELSE 0) >= 0
                        BY <6>4, <6>5
                    <6> QED
                        BY <6>3, <6>6, Zenon DEF TodayInv, Bound, UnrecordedSend
                <5> QED
                    BY <5>1, <5>2, <1>2
            <4>6. disturbed' = {} => RowsInv(q)'
                BY <4>1, <1>1 DEF Knows, RowsInv
            <4> QED
                BY <4>4, <4>5, <4>6, <1>3, Zenon DEF Knows
        <3> QED
            BY <3>1, <3>2
    <2> QED
        BY <2>1, <2>2, <1>1, TheSameKnows
<1> QED
    BY <1>5, <1>6, <1>7, <1>9, <1>10, <1>11, <1>12 DEF NotificationsInv

LEMMA NoticesStay ==
    ASSUME NotificationsInv, UNCHANGED <<slot, notice, deliveries, sender, notices, sends, disturbed>>,
           chosenLimit' \in Limits
    PROVE  NotificationsInv'
<1>1. NotificationsTypeOK'
    BY DEF NotificationsInv, NotificationsTypeOK
<1>2. SendersInv' /\ PendingInv' /\ OneAtATime' /\ SendsInv' /\ BurstInv'
    BY Zenon DEF NotificationsInv, SendersInv, SenderInv, Bound, PendingInv, Holding, OneAtATime, Alone, Busy, SendsInv,
        BurstInv, DayOf
<1>3. SoleInv'
    <2> SUFFICES ASSUME NEW p \in Senders, Alone(p) PROVE Knows(sender[p])'
        BY Zenon DEF SoleInv, Alone, Busy
    <2>1. PICK q \in Sender : q = sender[p]
        BY NotificationsFacts
    <2>2. Knows(q)
        BY <2>1 DEF NotificationsInv, SoleInv
    <2>3. \A w \in Int : WindowInv(w, q)' = WindowInv(w, q) /\ Clean(w)' = Clean(w)
        BY Zenon DEF WindowInv, Clean, Recent, DayOf, Bound, UnrecordedSend
    <2>4. TodayInv(q)' = TodayInv(q) /\ RowsInv(q)' = RowsInv(q)
        BY Zenon DEF TodayInv, RowsInv, Recent, CountToday, DayOf, Bound, UnrecordedSend
    <2>5. Knows(q)'
        BY <2>2, <2>3, <2>4, Zenon DEF Knows, DayOf
    <2> QED
        BY <2>1, <2>5, TheSameKnows
<1> QED
    BY <1>1, <1>2, <1>3 DEF NotificationsInv

-----------------------------------------------------------------------------
(* The theorems *)

LEMMA NotificationsInitiallyInv == NotificationsInit => NotificationsInv
<1> SUFFICES ASSUME NotificationsInit PROVE NotificationsInv
    OBVIOUS
<1>1. Len(sends) = 0 /\ sends \in Seq(Send) /\ 1 .. Len(sends) = {}
    BY DEF NotificationsInit
<1>2. sender \in [Senders -> Sender] /\ \A p \in Senders : sender[p] = NoSender
    BY NoSenderIsTyped DEF NotificationsInit
<1>3. NotificationsTypeOK
    BY <1>1, <1>2, NoSenderIsTyped, NotificationsAssumption DEF NotificationsInit, NotificationsTypeOK, Slots
<1>4. SendersInv
    BY <1>2, NoSenderIsTyped DEF SendersInv, SenderInv, Bound
<1>5. PendingInv
    <2>1. Holding = {}
        BY <1>2, NoSenderIsTyped DEF Holding
    <2>2. deliveries["pending"] = 0
        BY DEF NotificationsInit, DeliveryStatuses
    <2> QED
        BY <2>1, <2>2, FS_EmptySet DEF PendingInv
<1>6. OneAtATime
    BY <1>2, NoSenderIsTyped DEF OneAtATime, Busy
<1>7. SendsInv /\ BurstInv
    BY <1>1 DEF SendsInv, BurstInv
<1>8. SoleInv
    <2> SUFFICES ASSUME NEW p \in Senders PROVE Knows(sender[p])
        BY DEF SoleInv
    <2>1. sender[p].pc = "idle"
        BY <1>2, NoSenderIsTyped
    <2>2. \A w : Recent(w) = {}
        BY <1>1 DEF Recent
    <2>3. \A w : WindowInv(w, sender[p])
        BY <2>1, <2>2 DEF WindowInv, Bound
    <2>4. TodayInv(sender[p])
        <3>1. Cardinality(Recent(DayOf(slot))) = 0
            BY <2>2, FS_EmptySet
        <3>2. CountToday(notice) \in Nat
            BY <1>3, CountTodayIsNat DEF NotificationsTypeOK
        <3>3. ~UnrecordedSend(sender[p]) /\ ~Bound(sender[p])
            BY <2>1 DEF UnrecordedSend, Bound
        <3> QED
            BY <2>1, <3>1, <3>2, <3>3 DEF TodayInv
    <2>5. RowsInv(sender[p])
        BY <2>1, <1>1 DEF RowsInv, NotificationsInit, DeliveryStatuses
    <2> QED
        BY <2>3, <2>4, <2>5 DEF Knows
<1> QED
    BY <1>3, <1>4, <1>5, <1>6, <1>7, <1>8 DEF NotificationsInv

LEMMA NotificationsStepKeepsInv == NotificationsInv /\ [NotificationsNext]_noticeVars => NotificationsInv'
<1> SUFFICES ASSUME NotificationsInv, [NotificationsNext]_noticeVars PROVE NotificationsInv'
    OBVIOUS
<1>1. CASE UNCHANGED noticeVars
    <2>1. chosenLimit' \in Limits
        BY <1>1 DEF noticeVars, NotificationsInv, NotificationsTypeOK
    <2> QED
        BY <1>1, <2>1, NoticesStay DEF noticeVars
<1>2. CASE PassTime
    BY <1>2, PassTimeKeepsInv
<1>3. CASE ChooseLimit
    BY <1>3, NoticesStay DEF ChooseLimit
<1>4. ASSUME NEW p \in Senders,
             \/ ReadPreferences(p) \/ SyncPreferences(p) \/ Decline(p) \/ Approve(p) \/ CreateAttempt(p)
             \/ BackendSends(p) \/ BackendRaises(p) \/ MarkStatus(p) \/ RecordDelivery(p) \/ SenderDies(p)
      PROVE  NotificationsInv'
    BY <1>4, ReadPreferencesKeepsInv, SyncPreferencesKeepsInv, DeclineKeepsInv, ApproveKeepsInv, CreateAttemptKeepsInv,
       BackendSendsKeepsInv, BackendRaisesKeepsInv, MarkStatusKeepsInv, RecordDeliveryKeepsInv, SenderDiesKeepsInv
<1> QED
    BY <1>1, <1>2, <1>3, <1>4 DEF NotificationsNext

LEMMA NotificationsInvariant == NotificationsSpec => []NotificationsInv
BY NotificationsInitiallyInv, NotificationsStepKeepsInv, PTL DEF NotificationsSpec

\* The notification row, the delivery rows and the runs have their types; no count of
\* pending rows falls below zero, however many runs overlap or die.
THEOREM NotificationsTypeCorrect == NotificationsSpec => []NotificationsTypeOK
<1>1. NotificationsInv => NotificationsTypeOK
    BY DEF NotificationsInv
<1> QED
    BY <1>1, NotificationsInvariant, PTL

\* Daily limit and cooldown hold over every two days without overlap and death, for any
\* number of slots, limits, attempts and runs.
THEOREM RemindersKeepLimits == NotificationsSpec => []NoBurst
<1>1. ASSUME NotificationsInv, disturbed = {}, \A p \in Senders : ~Busy(p)
      PROVE  deliveries["sent"] = Len(sends) /\ deliveries["pending"] = 0
    <2>1. PICK p \in Senders : Alone(p) /\ sender[p].pc = "idle"
        BY <1>1, NotificationsAssumption DEF Alone, Busy
    <2>2. RowsInv(sender[p])
        BY <2>1, <1>1 DEF NotificationsInv, SoleInv, Knows
    <2>3. deliveries["sent"] \in Nat /\ deliveries["pending"] = 0 /\ deliveries["sent"] + 0 = Len(sends)
        BY <2>1, <2>2, <1>1, NotificationsFacts DEF RowsInv, DeliveryStatuses
    <2> QED
        BY <2>3
<1>2. NotificationsInv => NoBurst
    BY <1>1 DEF NotificationsInv, BurstInv, NoBurst
<1> QED
    BY <1>2, NotificationsInvariant, PTL

-----------------------------------------------------------------------------
(***************************************************************************)
(* Paywalls, trials and upsells (Offers): the row of offers adds up, and   *)
(* the user is left alone between two paywalls.                            *)
(***************************************************************************)
OfferSteps == {"evaluate", "decide", "start", "upsert", "load", "store"} \cup Transactions

Offering == [plan : Seq(OfferSteps), wow : {0, 85}, first : Answer, last : Answer, row : OfferRow, loaded : Nat,
             crossed : BOOLEAN, stale : BOOLEAN]

TellsOf == [impressions : Nat, lastAt : Nat, acceptances : Nat,
            answers : SUBSET [action : Paywalls \cup {"trial_offer"}, alone : BOOLEAN], belated : BOOLEAN]

\* What is left of a plan: a row is stored only once it was loaded and for the step that
\* follows, an impression is recorded only when one was shown, and the other transactions come
\* last.
PlanHolds(p) ==
    \A i \in 1 .. Len(p) :
        /\ p[i] = "store" => i = 1 /\ Len(p) >= 2 /\ p[2] \in Transactions
        /\ p[i] = "load" => i = 1 /\ Len(p) >= 2 /\ p[2] = "impression"
        /\ p[i] = "impression" => i = 2 /\ p[1] \in {"load", "store"}
        /\ p[i] \in Transactions \ {"impression"} => i = Len(p)

Impressing(p) == Len(p) >= 2 /\ p[2] = "impression"
Storing(p) == p # <<>> /\ p[1] = "store"

\* A decision is made from the second evaluation, or a later one.
TwoAreLeft(p) ==
    \A k \in 1 .. Len(p) : p[k] = "decide" => k >= 3 /\ p[1] = "evaluate" /\ p[2] = "evaluate"
Ready(p) == \E k \in 1 .. Len(p) : p[k] = "decide" /\ \A i \in 1 .. k : p[i] # "evaluate"

PlansInv(q) ==
    /\ PlanHolds(q.plan)
    /\ q.first = NoAnswer => TwoAreLeft(q.plan) /\ ~Impressing(q.plan)
    /\ q.first.at <= tick /\ q.last.at <= tick /\ q.loaded <= tick
    /\ q.stale => q.crossed

\* What a transaction read.
LoadedInv(q) ==
    /\ q.row.impressions <= told.impressions /\ q.row.acceptances <= told.acceptances
    /\ ~q.row.eligible => told.acceptances > 0
    /\ Storing(q.plan) /\ ~q.stale => q.row = offers
    /\ Storing(q.plan) /\ q.loaded = tick /\ q.row.cooldown > tick /\ ~told.belated => offers.cooldown > tick

\* What a request that no other has crossed knows of the quiet.
QuietInv(q) ==
    ~q.crossed =>
        /\ q.first # NoAnswer /\ q.first.at = tick /\ ~Impressing(q.plan) => Evaluated(0).show # "soft_paywall"
        /\ q.last.at = q.first.at /\ Ready(q.plan) => q.last.show # "soft_paywall"
        /\ Impressing(q.plan) /\ q.last.show = "soft_paywall" /\ ~told.belated /\ told.impressions > 0 =>
            q.last.at > told.lastAt

RequestInv(q) == PlansInv(q) /\ LoadedInv(q) /\ QuietInv(q)

RowInv ==
    /\ OffersAddUp
    /\ ~offers.eligible => told.acceptances > 0
    /\ told.lastAt <= tick
    /\ ~told.belated /\ told.impressions > 0 => offers.cooldown > told.lastAt
    /\ [action |-> "soft_paywall", alone |-> TRUE] \notin told.answers

OffersTypes ==
    /\ tick \in 0 .. LastTick /\ person \in Persons
    /\ access \in [tier : {"free", "pro"}, trialEnds : Nat]
    /\ offers \in OfferRow
    /\ told \in TellsOf
    /\ offering \in [OfferClients -> Offering]
    /\ offersAsked \in 0 .. MaxOffers /\ offersRaced \in BOOLEAN

OffersInv == OffersTypes /\ RowInv /\ \A c \in OfferClients : RequestInv(offering[c])

-----------------------------------------------------------------------------
(* The policy *)

LEMMA OfferFacts ==
    ASSUME OffersTypes
    PROVE  /\ tick \in Nat /\ offers \in OfferRow /\ told \in TellsOf
           /\ access.trialEnds \in Nat /\ person.usage \in Nat /\ person.sessions \in Nat
           /\ \A c \in OfferClients : offering[c] \in Offering
BY OffersAssumption DEF OffersTypes

LEMMA AnswersAreTyped ==
    ASSUME NEW w \in {0, 85}, OffersTypes
    PROVE  Evaluated(w) \in Answer /\ Evaluated(w) # NoAnswer /\ Evaluated(w).at = tick
<1>1. PICK s \in Segments : s = Segment(offers, w)
    BY DEF Segment, Segments
<1>2. Show(offers, s, w) \in Paywalls
    BY DEF Show, Paywalls
<1>3. TrialRecommended("none", w) \in BOOLEAN /\ TrialRecommended(Show(offers, s, w), w) \in BOOLEAN
    BY DEF TrialRecommended, TrialActive
<1>4. PICK e : e = Evaluated(w)
    OBVIOUS
<1>5. /\ e = [show |-> e.show, segment |-> s, ends |-> e.ends, recommended |-> e.recommended, at |-> tick]
      /\ e.show \in Paywalls /\ e.ends \in Nat /\ e.recommended \in BOOLEAN
    BY <1>1, <1>2, <1>3, <1>4, OfferFacts DEF Evaluated, Paywalls
<1> QED
    BY <1>1, <1>4, <1>5, OfferFacts DEF Answer, NoAnswer, Segments

\* A paywall is soft only when the quiet is over.
LEMMA SoftAfterTheQuiet ==
    ASSUME NEW w \in {0, 85}, OffersTypes, Evaluated(w).show = "soft_paywall"
    PROVE  offers.cooldown <= tick
BY OfferFacts DEF Evaluated, Show, OfferRow

\* Nothing is shown to a user who has paid for it, or is on trial.
LEMMA QuietOnceGiven ==
    access.tier # "free" \/ access.trialEnds > tick => Evaluated(0).show # "soft_paywall"
BY DEF Evaluated, TrialActive

\* Who is shown nothing is shown no soft paywall right after, whatever the wow score was.
LEMMA NothingIsStable ==
    ASSUME NEW w \in {0, 85}, OffersTypes, Evaluated(w).show = "none"
    PROVE  Evaluated(0).show # "soft_paywall"
<1>1. CASE access.tier # "free" \/ TrialActive
    BY <1>1 DEF Evaluated
<1>2. CASE ~(access.tier # "free" \/ TrialActive)
    <2>1. Show(offers, Segment(offers, w), w) = "none"
        BY <1>2 DEF Evaluated
    <2>2. CASE offers.cooldown > tick
        BY <1>2, <2>2 DEF Evaluated, Show
    <2>3. CASE ~(offers.cooldown > tick)
        <3>1. w = 0
            BY <2>1, <2>3 DEF Show
        <3> QED
            BY <1>2, <2>1, <3>1 DEF Evaluated
    <2> QED
        BY <2>2, <2>3
<1> QED
    BY <1>1, <1>2

-----------------------------------------------------------------------------
(* Plans *)

LEMMA SomethingIsLeft ==
    ASSUME NEW p \in Seq(OfferSteps), p # <<>>
    PROVE  Len(p) \in Nat /\ Len(p) >= 1
<1>1. Len(p) \in Nat /\ Len(p) # 0
    OBVIOUS
<1> QED
    BY <1>1

LEMMA RestIsAPlan ==
    ASSUME NEW p \in Seq(OfferSteps), p # <<>>
    PROVE  /\ Head(p) = p[1] /\ p[1] \in OfferSteps /\ Tail(p) \in Seq(OfferSteps)
           /\ Len(Tail(p)) = Len(p) - 1
           /\ \A i \in 1 .. Len(Tail(p)) : Tail(p)[i] = p[i + 1]
BY SomethingIsLeft

LEMMA Prepended ==
    ASSUME NEW a \in OfferSteps, NEW p \in Seq(OfferSteps)
    PROVE  /\ Len(<<a>> \o p) = Len(p) + 1 /\ (<<a>> \o p)[1] = a
           /\ \A i \in 2 .. Len(p) + 1 : (<<a>> \o p)[i] = p[i - 1]
<1>1. Len(<<a>> \o p) = Len(p) + 1
    OBVIOUS
<1>2. (<<a>> \o p)[1] = a
    OBVIOUS
<1>3. \A i \in 2 .. Len(p) + 1 : (<<a>> \o p)[i] = p[i - 1]
    OBVIOUS
<1> QED
    BY <1>1, <1>2, <1>3

\* A plan goes on.
LEMMA RestHolds ==
    ASSUME NEW p \in Seq(OfferSteps), PlanHolds(p), p # <<>>, p[1] \notin {"load", "store"}
    PROVE  /\ Tail(p) \in Seq(OfferSteps) /\ PlanHolds(Tail(p))
           /\ ~Impressing(Tail(p)) /\ ~Storing(Tail(p))
           /\ p[1] # "evaluate" /\ Ready(Tail(p)) => Ready(p)
           /\ p[1] # "evaluate" /\ TwoAreLeft(p) => TwoAreLeft(Tail(p))
<1>1. PICK t \in Seq(OfferSteps) : t = Tail(p)
    BY RestIsAPlan
<1>2. /\ Len(p) \in Nat /\ Len(p) >= 1 /\ Len(t) = Len(p) - 1
      /\ \A i \in 1 .. Len(t) : i + 1 \in 2 .. Len(p) /\ t[i] = p[i + 1]
    BY <1>1, SomethingIsLeft, RestIsAPlan
<1>3. \A i \in 1 .. Len(t) : /\ t[i] \notin {"store", "load", "impression"}
                             /\ t[i] \in Transactions => i = Len(t)
    BY <1>2 DEF PlanHolds
<1>4. PlanHolds(t)
    BY <1>3 DEF PlanHolds
<1>5. ~Impressing(t) /\ ~Storing(t)
    <2>1. (Len(t) >= 2 => 2 \in 1 .. Len(t)) /\ (t # <<>> => 1 \in 1 .. Len(t))
        BY <1>2, SomethingIsLeft
    <2> QED
        BY <2>1, <1>3 DEF Impressing, Storing
<1>6. ASSUME p[1] # "evaluate", Ready(t) PROVE Ready(p)
    <2>1. PICK k \in 1 .. Len(t) : t[k] = "decide" /\ \A i \in 1 .. k : t[i] # "evaluate"
        BY <1>6 DEF Ready
    <2>2. p[k + 1] = "decide" /\ k + 1 \in 1 .. Len(p)
        BY <2>1, <1>2
    <2>3. ASSUME NEW i \in 1 .. k + 1 PROVE p[i] # "evaluate"
        <3>1. CASE i = 1
            BY <3>1, <1>6
        <3>2. CASE i # 1
            <4>1. i - 1 \in 1 .. k /\ i - 1 \in 1 .. Len(t) /\ (i - 1) + 1 = i
                BY <3>2, <1>2, <2>1
            <4> QED
                BY <4>1, <1>2, <2>1
        <3> QED
            BY <3>1, <3>2
    <2> QED
        BY <2>2, <2>3 DEF Ready
<1>7. ASSUME p[1] # "evaluate", TwoAreLeft(p) PROVE TwoAreLeft(t)
    BY <1>2, <1>7 DEF TwoAreLeft
<1> QED
    BY <1>1, <1>4, <1>5, <1>6, <1>7

\* An evaluation that shows a paywall goes on to record the impression.
LEMMA ImpressionIsNext ==
    ASSUME NEW p \in Seq(OfferSteps), PlanHolds(p), p # <<>>, p[1] = "evaluate"
    PROVE  LET t == <<"load", "impression">> \o Tail(p)
           IN /\ t \in Seq(OfferSteps) /\ PlanHolds(t) /\ Impressing(t) /\ ~Storing(t)
              /\ Ready(t) => Ready(Tail(p))
<1>1. PICK s \in Seq(OfferSteps) : s = Tail(p)
    BY RestIsAPlan
<1>2. Len(s) \in Nat /\ \A i \in 1 .. Len(s) : /\ s[i] \notin {"store", "load", "impression"}
                                               /\ s[i] \in Transactions => i = Len(s)
    <2>1. /\ Len(p) \in Nat /\ Len(p) >= 1 /\ Len(s) = Len(p) - 1
          /\ \A i \in 1 .. Len(s) : i + 1 \in 2 .. Len(p) /\ s[i] = p[i + 1]
        BY <1>1, SomethingIsLeft, RestIsAPlan
    <2> QED
        BY <2>1 DEF PlanHolds
<1>3. PICK t \in Seq(OfferSteps) : t = <<"load", "impression">> \o s
    <2>1. "load" \in OfferSteps /\ "impression" \in OfferSteps
        BY DEF OfferSteps, Transactions
    <2>2. <<"load", "impression">> \in Seq(OfferSteps)
        BY <2>1
    <2>3. PICK h \in Seq(OfferSteps) : h = <<"load", "impression">>
        BY <2>2
    <2>4. h \o s \in Seq(OfferSteps)
        OBVIOUS
    <2> QED
        BY <2>3, <2>4
<1>4. Len(t) = Len(s) + 2 /\ t[1] = "load" /\ t[2] = "impression"
    BY <1>2, <1>3
<1>5. \A i \in 3 .. Len(t) : i - 2 \in 1 .. Len(s) /\ t[i] = s[i - 2]
    BY <1>2, <1>3, <1>4
<1>6. PlanHolds(t)
    <2>1. \A i \in 1 .. Len(t) : i = 1 \/ i = 2 \/ i \in 3 .. Len(t)
        BY <1>2, <1>4
    <2>2. \A i \in 3 .. Len(t) : /\ t[i] \notin {"store", "load", "impression"}
                                 /\ t[i] \in Transactions => i = Len(t)
        BY <1>2, <1>4, <1>5
    <2> QED
        BY <2>1, <2>2, <1>4 DEF PlanHolds, Transactions
<1>7. Impressing(t) /\ ~Storing(t)
    BY <1>2, <1>4 DEF Impressing, Storing
<1>8. ASSUME Ready(t) PROVE Ready(s)
    <2>1. PICK k \in 1 .. Len(t) : t[k] = "decide" /\ \A i \in 1 .. k : t[i] # "evaluate"
        BY <1>8 DEF Ready
    <2>2. k \in 3 .. Len(t)
        BY <2>1, <1>4, <1>2
    <2>3. k - 2 \in 1 .. Len(s) /\ s[k - 2] = "decide"
        BY <2>1, <2>2, <1>5
    <2>4. ASSUME NEW i \in 1 .. k - 2 PROVE s[i] # "evaluate"
        <3>1. i + 2 \in 3 .. Len(t) /\ i + 2 \in 1 .. k /\ (i + 2) - 2 = i
            BY <2>2, <2>4, <1>2, <1>4
        <3> QED
            BY <3>1, <2>1, <1>5
    <2> QED
        BY <2>3, <2>4 DEF Ready
<1> QED
    BY <1>1, <1>3, <1>6, <1>7, <1>8

\* A transaction loads the row.
LEMMA StoreIsNext ==
    ASSUME NEW p \in Seq(OfferSteps), PlanHolds(p), p # <<>>, p[1] \in Transactions \cup {"load"}
    PROVE  LET t == <<"store">> \o (IF p[1] = "load" THEN Tail(p) ELSE p)
           IN /\ t \in Seq(OfferSteps) /\ PlanHolds(t) /\ Storing(t)
              /\ Impressing(t) <=> Impressing(p)
              /\ Ready(t) => Ready(p)
              /\ TwoAreLeft(p) => TwoAreLeft(t)
<1>0. "store" \in OfferSteps /\ Tail(p) \in Seq(OfferSteps) /\ Len(p) \in Nat /\ Len(p) >= 1
    BY SomethingIsLeft, RestIsAPlan DEF OfferSteps
<1>1. PICK t \in Seq(OfferSteps) : t = <<"store">> \o (IF p[1] = "load" THEN Tail(p) ELSE p)
    <2>1. <<"store">> \in Seq(OfferSteps)
        BY <1>0
    <2>2. PICK r \in Seq(OfferSteps) : r = IF p[1] = "load" THEN Tail(p) ELSE p
        BY <1>0
    <2>3. <<"store">> \o r \in Seq(OfferSteps)
        BY <2>1, <2>2
    <2> QED
        BY <2>2, <2>3
<1>2. CASE p[1] = "load"
    <2>1. Len(t) = Len(p) /\ Len(p) \in Nat /\ Len(p) >= 2 /\ p[2] = "impression" /\ t[1] = "store"
        BY <1>0, <1>1, <1>2, RestIsAPlan DEF PlanHolds
    <2>2. \A i \in 2 .. Len(p) : t[i] = p[i]
        BY <1>0, <1>1, <1>2, <2>1, RestIsAPlan
    <2>3. \A i \in 1 .. Len(p) : i = 1 \/ i \in 2 .. Len(p)
        BY <2>1
    <2>4. PlanHolds(t)
        BY <1>2, <2>1, <2>2, <2>3 DEF PlanHolds, Transactions
    <2>5. Ready(t) => Ready(p)
        BY <1>2, <2>1, <2>2, <2>3 DEF Ready
    <2>6. TwoAreLeft(p) => TwoAreLeft(t)
        BY <1>2, <2>1, <2>2, <2>3 DEF TwoAreLeft
    <2> QED
        BY <1>1, <2>1, <2>2, <2>4, <2>5, <2>6 DEF Storing, Impressing
<1>3. CASE p[1] # "load"
    <2>1. Len(p) = 1 /\ p[1] \in Transactions /\ p[1] # "impression"
        <3>1. 1 \in 1 .. Len(p) /\ p[1] \in Transactions
            BY <1>0, <1>3
        <3>2. p[1] = "impression" => 1 = 2
            BY <3>1 DEF PlanHolds
        <3>3. p[1] # "impression"
            BY <3>2
        <3>4. 1 = Len(p)
            BY <3>1, <3>3 DEF PlanHolds
        <3> QED
            BY <3>1, <3>3, <3>4
    <2>2. Len(t) = 2 /\ t[1] = "store" /\ t[2] = p[1]
        <3>1. t = <<"store">> \o p
            BY <1>1, <1>3
        <3>2. 2 \in 2 .. Len(p) + 1 /\ Len(p) + 1 = 2 /\ 2 - 1 = 1
            BY <2>1
        <3> QED
            BY <1>0, <3>1, <3>2, Prepended
    <2>3. PlanHolds(t)
        BY <2>1, <2>2 DEF PlanHolds, Transactions
    <2>4. ~Ready(t) /\ TwoAreLeft(t)
        BY <2>1, <2>2 DEF Ready, TwoAreLeft, Transactions
    <2> QED
        BY <1>1, <2>1, <2>2, <2>3, <2>4 DEF Storing, Impressing
<1> QED
    BY <1>2, <1>3, <1>1

\* After the impression comes what came after the evaluation.
LEMMA AfterTheImpression ==
    ASSUME NEW p \in Seq(OfferSteps), PlanHolds(p), p # <<>>, p[1] = "store"
    PROVE  /\ Len(p) >= 2 /\ p[2] \in Transactions
           /\ Len(p) # 2 => Impressing(p)
           /\ LET t == Tail(Tail(p))
              IN /\ t \in Seq(OfferSteps) /\ PlanHolds(t) /\ ~Impressing(t) /\ ~Storing(t)
                 /\ Impressing(p) /\ Ready(t) => Ready(p)
<1>1. Len(p) \in Nat /\ Len(p) >= 2 /\ p[2] \in Transactions
    <2>1. Len(p) \in Nat /\ 1 \in 1 .. Len(p)
        BY SomethingIsLeft
    <2> QED
        BY <2>1 DEF PlanHolds
<1>2. Len(p) # 2 => p[2] = "impression"
    <2>1. 2 \in 1 .. Len(p)
        BY <1>1
    <2> QED
        BY <1>1, <2>1 DEF PlanHolds
<1>3. PICK t \in Seq(OfferSteps) :
        /\ t = Tail(Tail(p))
        /\ Len(t) = Len(p) - 2 /\ \A i \in 1 .. Len(t) : i + 2 \in 3 .. Len(p) /\ t[i] = p[i + 2]
    <2>1. PICK u \in Seq(OfferSteps) :
            u = Tail(p) /\ Len(u) = Len(p) - 1 /\ \A i \in 1 .. Len(u) : u[i] = p[i + 1]
        BY RestIsAPlan
    <2>2. u # <<>>
        <3>1. Len(<<>>) = 0 /\ Len(u) # 0
            BY <1>1, <2>1
        <3> QED
            BY <3>1
    <2>3. PICK t \in Seq(OfferSteps) :
            t = Tail(u) /\ Len(t) = Len(u) - 1 /\ \A i \in 1 .. Len(t) : t[i] = u[i + 1]
        BY <2>2, RestIsAPlan
    <2>4. ASSUME NEW i \in 1 .. Len(t) PROVE i + 2 \in 3 .. Len(p) /\ t[i] = p[i + 2]
        <3>1. i + 1 \in 1 .. Len(u) /\ (i + 1) + 1 = i + 2 /\ i + 2 \in 3 .. Len(p)
            BY <1>1, <2>1, <2>3
        <3> QED
            BY <3>1, <2>1, <2>3
    <2> QED
        <3>1. t = Tail(Tail(p)) /\ Len(t) = Len(p) - 2
            BY <1>1, <2>1, <2>3
        <3> QED
            BY <3>1, <2>4, Zenon
<1>4. Len(t) = Len(p) - 2 /\ \A i \in 1 .. Len(t) : i + 2 \in 3 .. Len(p) /\ t[i] = p[i + 2]
    BY <1>3
<1>5. \A i \in 1 .. Len(t) : /\ t[i] \notin {"store", "load", "impression"}
                             /\ t[i] \in Transactions => i = Len(t)
    BY <1>1, <1>4 DEF PlanHolds
<1>6. PlanHolds(t) /\ ~Impressing(t) /\ ~Storing(t)
    <2>1. Len(t) >= 2 => 2 \in 1 .. Len(t)
        BY <1>1, <1>4
    <2>2. t # <<>> => 1 \in 1 .. Len(t)
        BY SomethingIsLeft
    <2> QED
        BY <1>5, <2>1, <2>2 DEF PlanHolds, Impressing, Storing
<1>7. ASSUME Impressing(p), Ready(t) PROVE Ready(p)
    <2>1. PICK k \in 1 .. Len(t) : t[k] = "decide" /\ \A i \in 1 .. k : t[i] # "evaluate"
        BY <1>7 DEF Ready
    <2>2. k + 2 \in 1 .. Len(p) /\ p[k + 2] = "decide"
        BY <1>4, <2>1, <1>1
    <2>3. ASSUME NEW i \in 1 .. k + 2 PROVE p[i] # "evaluate"
        <3>1. CASE i \in {1, 2}
            BY <3>1, <1>7 DEF Impressing
        <3>2. CASE i \notin {1, 2}
            <4>1. i - 2 \in 1 .. k /\ i - 2 \in 1 .. Len(t) /\ (i - 2) + 2 = i
                BY <3>2, <2>1, <1>1, <1>4
            <4> QED
                BY <4>1, <1>4, <2>1
        <3> QED
            BY <3>1, <3>2
    <2> QED
        BY <2>2, <2>3 DEF Ready
<1> QED
    BY <1>1, <1>2, <1>3, <1>6, <1>7 DEF Impressing

-----------------------------------------------------------------------------
(* A step of one request *)

LEMMA NothingAskedHolds ==
    ASSUME OffersTypes
    PROVE  NoOffering \in Offering /\ RequestInv(NoOffering)
<1>1. NewOfferRow \in OfferRow /\ NoAnswer \in Answer
    BY DEF NewOfferRow, OfferRow, OfferTypes, NoAnswer, Answer, Paywalls
<1>2. NoOffering \in Offering
    BY <1>1 DEF NoOffering, Offering
<1>3. Len(<<>>) = 0 /\ 1 .. 0 = {}
    OBVIOUS
<1>4. NoOffering.plan = <<>> /\ PlanHolds(<<>>) /\ TwoAreLeft(<<>>) /\ ~Impressing(<<>>) /\ ~Storing(<<>>) /\ ~Ready(<<>>)
    BY <1>3 DEF NoOffering, PlanHolds, TwoAreLeft, Impressing, Storing, Ready
<1>5. PlansInv(NoOffering)
    BY <1>4, OfferFacts DEF NoOffering, NoAnswer, PlansInv
<1>6. LoadedInv(NoOffering)
    BY <1>4, OfferFacts DEF NoOffering, NewOfferRow, LoadedInv, TellsOf
<1>7. QuietInv(NoOffering)
    BY <1>4 DEF NoOffering, QuietInv
<1> QED
    BY <1>2, <1>5, <1>6, <1>7 DEF RequestInv

LEMMA NothingAskedStays ==
    ASSUME tick' \in Nat, told'.impressions \in Nat, told'.acceptances \in Nat
    PROVE  RequestInv(NoOffering)'
<1>3. Len(<<>>) = 0 /\ 1 .. 0 = {}
    OBVIOUS
<1>4. NoOffering.plan = <<>> /\ PlanHolds(<<>>) /\ TwoAreLeft(<<>>) /\ ~Impressing(<<>>) /\ ~Storing(<<>>) /\ ~Ready(<<>>)
    BY <1>3 DEF NoOffering, PlanHolds, TwoAreLeft, Impressing, Storing, Ready
<1>5. PlansInv(NoOffering)'
    BY <1>4 DEF NoOffering, NoAnswer, PlansInv
<1>6. LoadedInv(NoOffering)'
    BY <1>4 DEF NoOffering, NewOfferRow, LoadedInv
<1>7. QuietInv(NoOffering)'
    BY <1>4 DEF NoOffering, QuietInv
<1> QED
    BY <1>5, <1>6, <1>7 DEF RequestInv

\* A step that does not write the row.
Quietly ==
    /\ UNCHANGED <<tick, person, offers, offersRaced>>
    /\ told' \in TellsOf /\ told'.impressions = told.impressions /\ told'.lastAt = told.lastAt
    /\ told'.acceptances = told.acceptances /\ told'.belated = told.belated
    /\ access' \in [tier : {"free", "pro"}, trialEnds : Nat]
    /\ access' = access \/ access'.tier # "free" \/ access'.trialEnds > tick

LEMMA QuietStepKeeps ==
    ASSUME NEW q \in Offering, Quietly, RequestInv(q)
    PROVE  RequestInv(q)'
<1>1. UNCHANGED <<tick, person, offers>>
    BY DEF Quietly
<1>2. PlansInv(q)'
    BY <1>1, Zenon DEF RequestInv, PlansInv
<1>3. LoadedInv(q)'
    BY <1>1, Zenon DEF Quietly, RequestInv, LoadedInv
<1>4. Evaluated(0).show # "soft_paywall" => Evaluated(0)'.show # "soft_paywall"
    <2>1. CASE access' = access
        BY <1>1, <2>1, Zenon DEF Evaluated, Show, Segment, TrialActive, SessionTrigger, SoftUsage
    <2>2. CASE access'.tier # "free" \/ access'.trialEnds > tick
        BY <1>1, <2>2 DEF Evaluated, TrialActive
    <2> QED
        BY <2>1, <2>2 DEF Quietly
<1>5. QuietInv(q)'
    BY <1>1, <1>4, Zenon DEF Quietly, RequestInv, QuietInv
<1> QED
    BY <1>2, <1>3, <1>5 DEF RequestInv

LEMMA OneRequestSteps ==
    ASSUME NEW c \in OfferClients, NEW r \in Offering, OffersInv, Quietly, RequestInv(r),
           offering' = [offering EXCEPT ![c] = r], offersAsked' \in 0 .. MaxOffers,
           [action |-> "soft_paywall", alone |-> TRUE] \notin told'.answers
    PROVE  OffersInv'
<1>1. offering' \in [OfferClients -> Offering] /\ \A o \in OfferClients : offering'[o] = offering[o] \/ offering'[o] = r
    BY DEF OffersInv, OffersTypes
<1>2. OffersTypes'
    BY <1>1 DEF OffersInv, OffersTypes, Quietly
<1>3. RowInv'
    BY Zenon DEF OffersInv, RowInv, OffersAddUp, Quietly
<1>4. ASSUME NEW o \in OfferClients PROVE RequestInv(offering[o])'
    <2>1. PICK q \in Offering : q = offering'[o]
        BY <1>1
    <2>2. RequestInv(q)
        BY <1>1, <2>1 DEF OffersInv
    <2>3. RequestInv(q)'
        BY <2>2, QuietStepKeeps
    <2> QED
        BY <2>1, <2>3, Zenon DEF RequestInv, PlansInv, LoadedInv, QuietInv
<1> QED
    BY <1>2, <1>3, <1>4 DEF OffersInv

\* A request goes on with its next step.
LEMMA GoesOn ==
    ASSUME NEW q \in Offering, RequestInv(q), q.plan # <<>>, q.plan[1] \notin {"evaluate", "load", "store"}
    PROVE  [q EXCEPT !.plan = Tail(@)] \in Offering /\ RequestInv([q EXCEPT !.plan = Tail(@)])
<1>1. PICK r : r = [q EXCEPT !.plan = Tail(@)]
    OBVIOUS
<1>2. /\ q.plan \in Seq(OfferSteps) /\ PlanHolds(q.plan)
      /\ q.first = NoAnswer => TwoAreLeft(q.plan)
    BY DEF Offering, RequestInv, PlansInv
<1>3. /\ Tail(q.plan) \in Seq(OfferSteps) /\ PlanHolds(Tail(q.plan))
      /\ ~Impressing(Tail(q.plan)) /\ ~Storing(Tail(q.plan))
      /\ Ready(Tail(q.plan)) => Ready(q.plan)
      /\ TwoAreLeft(q.plan) => TwoAreLeft(Tail(q.plan))
    BY <1>2, RestHolds
<1>4. r \in Offering /\ r.plan = Tail(q.plan)
    BY <1>1, <1>3 DEF Offering
<1>5. /\ r.first = q.first /\ r.last = q.last /\ r.row = q.row /\ r.loaded = q.loaded
      /\ r.crossed = q.crossed /\ r.stale = q.stale
    BY <1>1 DEF Offering
<1>6. PlansInv(r)
    BY <1>2, <1>3, <1>4, <1>5, Zenon DEF RequestInv, PlansInv
<1>7. LoadedInv(r)
    BY <1>3, <1>4, <1>5, Zenon DEF RequestInv, LoadedInv
<1>8. ~Impressing(q.plan)
    <2>1. Impressing(q.plan) => 2 \in 1 .. Len(q.plan)
        BY <1>2 DEF Impressing
    <2> QED
        BY <1>2, <2>1 DEF Impressing, PlanHolds
<1>9. QuietInv(r)
    BY <1>3, <1>4, <1>5, <1>8, Zenon DEF RequestInv, QuietInv
<1> QED
    BY <1>1, <1>4, <1>6, <1>7, <1>9 DEF RequestInv

LEMMA ProceedingKeeps ==
    ASSUME NEW c \in OfferClients, NEW q \in Offering, OffersInv, Quietly, q = offering[c], Proceed(c, q),
           q.plan # <<>>, q.plan[1] \notin {"evaluate", "load", "store"}, offersAsked' = offersAsked,
           [action |-> "soft_paywall", alone |-> TRUE] \notin told'.answers
    PROVE  OffersInv'
<1>1. RequestInv(q) /\ OffersTypes /\ offersAsked' \in 0 .. MaxOffers
    BY DEF OffersInv, OffersTypes
<1>2. PICK r \in Offering : r = (IF Tail(q.plan) = <<>> THEN NoOffering ELSE [q EXCEPT !.plan = Tail(@)]) /\ RequestInv(r)
    BY <1>1, GoesOn, NothingAskedHolds
<1>3. offering' = [offering EXCEPT ![c] = r]
    BY <1>2 DEF Proceed
<1> QED
    BY <1>1, <1>2, <1>3, OneRequestSteps

-----------------------------------------------------------------------------
(* The actions *)

LEMMA AskingKeeps ==
    ASSUME NEW c \in OfferClients, NEW p \in Seq(OfferSteps), NEW w \in {0, 85}, OffersInv, AskOffer(c, p, w),
           PlanHolds(p), TwoAreLeft(p), ~Impressing(p), ~Storing(p)
    PROVE  OffersInv'
<1>1. OffersTypes /\ RequestInv(NoOffering) /\ NoOffering \in Offering
    BY NothingAskedHolds DEF OffersInv
<1>2. PICK r : r = [NoOffering EXCEPT !.plan = p, !.wow = w]
    OBVIOUS
<1>3. /\ r \in Offering /\ r.plan = p /\ r.first = NoOffering.first /\ r.last = NoOffering.last
      /\ r.row = NoOffering.row /\ r.loaded = NoOffering.loaded
      /\ r.crossed = NoOffering.crossed /\ r.stale = NoOffering.stale
    BY <1>1, <1>2 DEF Offering
<1>4. NoOffering.first = NoAnswer /\ NoOffering.last = NoAnswer /\ NoAnswer.show = "none"
    BY DEF NoOffering, NoAnswer
<1>5. PlansInv(r)
    BY <1>1, <1>3, Zenon DEF RequestInv, PlansInv
<1>6. LoadedInv(r)
    BY <1>1, <1>3, Zenon DEF RequestInv, LoadedInv
<1>7. QuietInv(r)
    BY <1>3, <1>4 DEF QuietInv
<1>8. offersAsked' \in 0 .. MaxOffers
    BY <1>1, OffersAssumption DEF AskOffer, OffersTypes
<1>9. Quietly
    BY <1>1 DEF Quietly, AskOffer, OffersTypes
<1> QED
    BY <1>2, <1>3, <1>5, <1>6, <1>7, <1>8, <1>9, OneRequestSteps DEF AskOffer, RequestInv, OffersInv, RowInv

LEMMA PlansBeginWell ==
    /\ <<"evaluate">> \in Seq(OfferSteps) /\ DecidePlan \in Seq(OfferSteps) /\ EnginePlan \in Seq(OfferSteps)
    /\ ClickPlan \in Seq(OfferSteps) /\ TrialPlan \in Seq(OfferSteps) /\ UpgradePlan \in Seq(OfferSteps)
    /\ \A p \in {<<"evaluate">>, DecidePlan, EnginePlan, ClickPlan, TrialPlan, UpgradePlan} :
        PlanHolds(p) /\ TwoAreLeft(p) /\ ~Impressing(p) /\ ~Storing(p)
<1> DEFINE Well(p) == PlanHolds(p) /\ TwoAreLeft(p) /\ ~Impressing(p) /\ ~Storing(p)
<1>0. /\ "evaluate" \in OfferSteps /\ "decide" \in OfferSteps /\ "start" \in OfferSteps /\ "upsert" \in OfferSteps
      /\ "click" \in OfferSteps /\ "trial" \in OfferSteps /\ "upgrade" \in OfferSteps /\ "sync" \in OfferSteps
    BY DEF OfferSteps, Transactions
<1>1. <<"evaluate">> \in Seq(OfferSteps) /\ Well(<<"evaluate">>)
    BY <1>0 DEF PlanHolds, TwoAreLeft, Impressing, Storing, Transactions
<1>2. DecidePlan \in Seq(OfferSteps) /\ Well(DecidePlan)
    BY <1>0 DEF DecidePlan, PlanHolds, TwoAreLeft, Impressing, Storing, Transactions
<1>3. EnginePlan \in Seq(OfferSteps) /\ Well(EnginePlan)
    BY <1>0 DEF EnginePlan, PlanHolds, TwoAreLeft, Impressing, Storing, Transactions
<1>4. ClickPlan \in Seq(OfferSteps) /\ Well(ClickPlan)
    BY <1>0 DEF ClickPlan, PlanHolds, TwoAreLeft, Impressing, Storing, Transactions
<1>5. TrialPlan \in Seq(OfferSteps) /\ Well(TrialPlan)
    BY <1>0 DEF TrialPlan, PlanHolds, TwoAreLeft, Impressing, Storing, Transactions
<1>6. UpgradePlan \in Seq(OfferSteps) /\ Well(UpgradePlan)
    BY <1>0 DEF UpgradePlan, PlanHolds, TwoAreLeft, Impressing, Storing, Transactions
<1> QED
    BY <1>1, <1>2, <1>3, <1>4, <1>5, <1>6, Zenon

LEMMA EvaluatingKeeps ==
    ASSUME NEW c \in OfferClients, OffersInv, EvaluatePaywall(c)
    PROVE  OffersInv'
<1>1. PICK q \in Offering : q = offering[c]
    BY OfferFacts DEF OffersInv
<1>2. OffersTypes /\ RowInv /\ RequestInv(q)
    BY <1>1 DEF OffersInv
<1>3. /\ q.plan \in Seq(OfferSteps) /\ PlanHolds(q.plan) /\ q.plan # <<>> /\ q.plan[1] = "evaluate"
      /\ Len(q.plan) \in Nat /\ Len(q.plan) >= 1
    BY <1>1, <1>2, RestIsAPlan, SomethingIsLeft DEF EvaluatePaywall, Next1, Offering, RequestInv, PlansInv
<1>4. PICK w \in {0, 85} : w = IF q.first = NoAnswer THEN q.wow ELSE 0
    BY DEF Offering
<1>5. PICK e \in Answer : e = Evaluated(w) /\ e # NoAnswer /\ e.at = tick
    BY <1>2, AnswersAreTyped
<1>6. PICK t : t = IF e.show = "none" THEN Tail(q.plan) ELSE <<"load", "impression">> \o Tail(q.plan)
    OBVIOUS
<1>7. /\ t \in Seq(OfferSteps) /\ PlanHolds(t) /\ ~Storing(t) /\ (Impressing(t) <=> e.show # "none")
      /\ Ready(t) => Ready(Tail(q.plan))
    BY <1>3, <1>6, RestHolds, ImpressionIsNext
<1>8. PICK f \in Answer : f = IF q.first = NoAnswer THEN e ELSE q.first
    BY DEF Offering
<1>9. PICK r : r = [q EXCEPT !.last = e, !.first = f, !.plan = t]
    OBVIOUS
<1>10. /\ r \in Offering /\ r.plan = t /\ r.first = f /\ r.last = e /\ r.row = q.row /\ r.loaded = q.loaded
       /\ r.crossed = q.crossed /\ r.stale = q.stale
    BY <1>7, <1>9 DEF Offering
<1>11. tick \in Nat /\ offers \in OfferRow /\ told \in TellsOf
    BY <1>2, OfferFacts
<1>12. PlansInv(r)
    <2>1. f # NoAnswer /\ f.at <= tick /\ e.at <= tick
        BY <1>2, <1>5, <1>8, <1>11 DEF RequestInv, PlansInv
    <2> QED
        BY <1>2, <1>7, <1>10, <2>1, Zenon DEF RequestInv, PlansInv
<1>13. LoadedInv(r)
    BY <1>2, <1>7, <1>10, Zenon DEF RequestInv, LoadedInv
<1>14. ~Impressing(q.plan)
    BY <1>3 DEF Impressing, PlanHolds
<1>15. ASSUME ~q.crossed, f.at = tick, q.first # NoAnswer PROVE e.show # "soft_paywall"
    BY <1>2, <1>4, <1>5, <1>8, <1>14, <1>15 DEF RequestInv, QuietInv
<1>16. QuietInv(r)
    <2>1. ASSUME ~Impressing(t) PROVE Evaluated(0).show # "soft_paywall"
        BY <1>2, <1>5, <1>7, <2>1, NothingIsStable
    <2>2. ASSUME ~q.crossed, e.at = f.at, Ready(t) PROVE e.show # "soft_paywall"
        <3>1. CASE q.first # NoAnswer
            BY <1>5, <1>15, <2>2, <3>1
        <3>2. CASE q.first = NoAnswer
            <4>1. PICK k \in 1 .. Len(Tail(q.plan)) :
                    Tail(q.plan)[k] = "decide" /\ \A i \in 1 .. k : Tail(q.plan)[i] # "evaluate"
                BY <1>7, <2>2 DEF Ready
            <4>2. /\ k \in Nat /\ k >= 1 /\ k + 1 \in 1 .. Len(q.plan) /\ q.plan[k + 1] = "decide"
                  /\ 1 \in 1 .. k /\ 1 \in 1 .. Len(Tail(q.plan))
                BY <1>3, <4>1, RestIsAPlan
            <4>3. q.plan[2] = "evaluate" /\ Tail(q.plan)[1] = q.plan[1 + 1]
                BY <1>2, <1>3, <3>2, <4>2, RestIsAPlan DEF RequestInv, PlansInv, TwoAreLeft
            <4> QED
                BY <4>1, <4>2, <4>3
        <3> QED
            BY <3>1, <3>2
    <2>3. ASSUME e.show = "soft_paywall", ~told.belated, told.impressions > 0 PROVE e.at > told.lastAt
        <3>1. offers.cooldown <= tick /\ offers.cooldown > told.lastAt
            BY <1>2, <1>5, <2>3, SoftAfterTheQuiet DEF RowInv
        <3> QED
            BY <1>5, <1>11, <3>1 DEF OfferRow, TellsOf
    <2> QED
        BY <1>10, <2>1, <2>2, <2>3, Zenon DEF QuietInv
<1>17. RequestInv(r)
    BY <1>12, <1>13, <1>16 DEF RequestInv
<1>18. Quietly /\ offersAsked' \in 0 .. MaxOffers
    BY <1>2, <1>11 DEF Quietly, EvaluatePaywall, OffersTypes
<1>19. PICK s \in Offering : RequestInv(s) /\ offering' = [offering EXCEPT ![c] = s]
    <2>1. CASE e.show # "none"
        <3>1. offering' = [offering EXCEPT ![c] = r]
            BY <1>1, <1>4, <1>5, <1>6, <1>8, <1>9, <2>1 DEF EvaluatePaywall
        <3> QED
            BY <3>1, <1>10, <1>17
    <2>2. CASE e.show = "none" /\ Tail(q.plan) = <<>>
        <3>1. offering' = [offering EXCEPT ![c] = NoOffering]
            BY <1>1, <1>4, <1>5, <2>2 DEF EvaluatePaywall, Proceed
        <3> QED
            BY <3>1, <1>2, NothingAskedHolds
    <2>3. CASE e.show = "none" /\ Tail(q.plan) # <<>>
        <3>1. offering' = [offering EXCEPT ![c] = r]
            BY <1>1, <1>4, <1>5, <1>6, <1>8, <1>9, <2>3 DEF EvaluatePaywall, Proceed
        <3> QED
            BY <3>1, <1>10, <1>17
    <2> QED
        BY <2>1, <2>2, <2>3
<1> QED
    BY <1>2, <1>18, <1>19, OneRequestSteps DEF RowInv, EvaluatePaywall

LEMMA DecidingKeeps ==
    ASSUME NEW c \in OfferClients, OffersInv, DecideGlobally(c)
    PROVE  OffersInv'
<1>1. PICK q \in Offering : q = offering[c]
    BY OfferFacts DEF OffersInv
<1>2. OffersTypes /\ RowInv /\ RequestInv(q) /\ told \in TellsOf
    BY <1>1, OfferFacts DEF OffersInv
<1>3. q.plan \in Seq(OfferSteps) /\ q.plan # <<>> /\ q.plan[1] = "decide" /\ 1 \in 1 .. Len(q.plan)
    BY <1>1, RestIsAPlan, SomethingIsLeft DEF DecideGlobally, Next1, Offering
<1>4. Ready(q.plan)
    BY <1>3 DEF Ready
<1>5. PICK answer : answer = [action |-> MonetizationAction(q.last),
                              alone |-> ~q.crossed /\ q.last.at = q.first.at]
    OBVIOUS
<1>6. answer # [action |-> "soft_paywall", alone |-> TRUE]
    <2>1. ~q.crossed /\ q.last.at = q.first.at => q.last.show # "soft_paywall" /\ q.last.show \in Paywalls
        BY <1>2, <1>4 DEF RequestInv, QuietInv, Offering, Answer
    <2>2. ~q.crossed /\ q.last.at = q.first.at => MonetizationAction(q.last) # "soft_paywall"
        BY <2>1 DEF MonetizationAction, Offering, Answer, Paywalls
    <2> QED
        BY <1>5, <2>2
<1>7. answer \in [action : Paywalls \cup {"trial_offer"}, alone : BOOLEAN]
    <2>1. MonetizationAction(q.last) \in Paywalls \cup {"trial_offer"}
        BY DEF MonetizationAction, Paywalls, Offering, Answer
    <2> QED
        BY <1>5, <2>1
<1>8. told' = [told EXCEPT !.answers = @ \cup {answer}] /\ UNCHANGED <<tick, person, access, offers, offersAsked, offersRaced>>
    BY <1>1, <1>5 DEF DecideGlobally
<1>9. /\ told' \in TellsOf /\ told'.impressions = told.impressions /\ told'.lastAt = told.lastAt
      /\ told'.acceptances = told.acceptances /\ told'.belated = told.belated
      /\ told'.answers = told.answers \cup {answer}
    BY <1>2, <1>7, <1>8 DEF TellsOf
<1>10. Quietly
    BY <1>2, <1>8, <1>9 DEF Quietly, OffersTypes
<1>11. [action |-> "soft_paywall", alone |-> TRUE] \notin told'.answers
    BY <1>2, <1>6, <1>9 DEF RowInv
<1>12. Proceed(c, q)
    BY <1>1 DEF DecideGlobally
<1> QED
    BY <1>1, <1>3, <1>8, <1>10, <1>11, <1>12, ProceedingKeeps

\* Of a request that was crossed nothing is known of the quiet.
LEMMA CrossedKeeps ==
    ASSUME NEW q \in Offering, RequestInv(q), OffersTypes, UNCHANGED <<tick, offers, told>>
    PROVE  Crossed(q) \in Offering /\ RequestInv(Crossed(q))'
<1>1. CASE q.plan = <<>>
    <2>1. Crossed(q) = NoOffering /\ tick' \in Nat /\ told'.impressions \in Nat /\ told'.acceptances \in Nat
        BY <1>1, OfferFacts DEF Crossed, TellsOf
    <2>2. PICK r \in Offering : r = NoOffering
        BY NothingAskedHolds
    <2> QED
        BY <2>1, <2>2, NothingAskedStays
<1>2. CASE q.plan # <<>>
    <2>1. PICK r : r = [q EXCEPT !.crossed = TRUE]
        OBVIOUS
    <2>2. /\ Crossed(q) = r /\ r \in Offering /\ r.plan = q.plan /\ r.first = q.first /\ r.last = q.last
          /\ r.row = q.row /\ r.loaded = q.loaded /\ r.crossed /\ r.stale = q.stale
        BY <1>2, <2>1 DEF Crossed, Offering
    <2>3. PlansInv(r)'
        BY <2>2, Zenon DEF RequestInv, PlansInv
    <2>4. LoadedInv(r)'
        BY <2>2, Zenon DEF RequestInv, LoadedInv
    <2>5. QuietInv(r)'
        BY <2>2, Zenon DEF QuietInv
    <2>6. RequestInv(r)'
        BY <2>3, <2>4, <2>5 DEF RequestInv
    <2> QED
        BY <2>2, <2>6
<1> QED
    BY <1>1, <1>2

LEMMA GivingKeeps ==
    ASSUME NEW c \in OfferClients, OffersInv, StartTrial(c) \/ UpsertTier(c)
    PROVE  OffersInv'
<1>1. PICK q \in Offering : q = offering[c]
    BY OfferFacts DEF OffersInv
<1>2. /\ OffersTypes /\ RowInv /\ RequestInv(q) /\ told \in TellsOf /\ tick \in Nat
      /\ access \in [tier : {"free", "pro"}, trialEnds : Nat]
    BY <1>1, OfferFacts DEF OffersInv, OffersTypes
<1>3. q.plan # <<>> /\ q.plan[1] \in {"start", "upsert"}
    BY <1>1, RestIsAPlan DEF StartTrial, UpsertTier, Next1, Offering
<1>4. UNCHANGED <<tick, person, offers, told, offersAsked, offersRaced>>
    BY DEF StartTrial, UpsertTier
<1>5. access' \in [tier : {"free", "pro"}, trialEnds : Nat]
    BY <1>2, OffersAssumption DEF StartTrial, UpsertTier
<1>6. CASE Proceed(c, q) /\ (access'.tier # "free" \/ access'.trialEnds > tick)
    <2>1. Quietly
        BY <1>2, <1>4, <1>5, <1>6 DEF Quietly
    <2> QED
        BY <1>1, <1>2, <1>3, <1>4, <1>6, <2>1, ProceedingKeeps DEF RowInv
<1>7. CASE offering' = [o \in OfferClients |->
                 Crossed(IF o = c THEN [offering[o] EXCEPT !.plan = Tail(@)] ELSE offering[o])]
    <2>1. PICK t \in Offering : t = [q EXCEPT !.plan = Tail(@)] /\ RequestInv(t)
        BY <1>2, <1>3, GoesOn
    <2>2. ASSUME NEW o \in OfferClients
          PROVE  \E r \in Offering : RequestInv(r) /\ offering'[o] = Crossed(r)
        <3>1. CASE o = c
            BY <1>1, <1>7, <2>1, <3>1
        <3>2. CASE o # c
            BY <1>2, <1>7, <3>2 DEF OffersInv, OffersTypes
        <3> QED
            BY <3>1, <3>2
    <2>3. ASSUME NEW o \in OfferClients
          PROVE  offering'[o] \in Offering /\ RequestInv(offering[o])'
        <3>1. PICK r \in Offering : RequestInv(r) /\ offering'[o] = Crossed(r)
            BY <2>2
        <3>2. PICK s : s = Crossed(r)
            OBVIOUS
        <3>3. s \in Offering /\ RequestInv(s)'
            BY <1>2, <1>4, <3>1, <3>2, CrossedKeeps
        <3> QED
            BY <3>1, <3>2, <3>3, Zenon DEF RequestInv, PlansInv, LoadedInv, QuietInv
    <2>4. OffersTypes'
        BY <1>2, <1>4, <1>5, <1>7, <2>3 DEF OffersTypes
    <2>5. RowInv'
        BY <1>2, <1>4, Zenon DEF RowInv, OffersAddUp
    <2> QED
        BY <2>3, <2>4, <2>5 DEF OffersInv
<1>8. \/ Proceed(c, q) /\ (access'.tier # "free" \/ access'.trialEnds > tick)
      \/ offering' = [o \in OfferClients |->
                 Crossed(IF o = c THEN [offering[o] EXCEPT !.plan = Tail(@)] ELSE offering[o])]
    BY <1>1, <1>2, OffersAssumption DEF StartTrial, UpsertTier
<1> QED
    BY <1>6, <1>7, <1>8

LEMMA FailingKeepsOffers ==
    ASSUME NEW c \in OfferClients, OffersInv, OfferingFails(c)
    PROVE  OffersInv'
<1>1. OffersTypes /\ RowInv
    BY DEF OffersInv
<1>2. Quietly /\ offersAsked' \in 0 .. MaxOffers /\ told' = told
    BY <1>1 DEF OfferingFails, Quietly, OffersTypes
<1> QED
    BY <1>1, <1>2, NothingAskedHolds, OneRequestSteps DEF OfferingFails, RowInv

LEMMA LoadingKeeps ==
    ASSUME NEW c \in OfferClients, OffersInv, LoadOffers(c)
    PROVE  OffersInv'
<1>1. PICK q \in Offering : q = offering[c]
    BY OfferFacts DEF OffersInv
<1>2. OffersTypes /\ RowInv /\ RequestInv(q) /\ tick \in Nat /\ offers \in OfferRow /\ told \in TellsOf
    BY <1>1, OfferFacts DEF OffersInv
<1>3. PICK p \in Seq(OfferSteps) : p = q.plan
    BY DEF Offering
<1>4. p # <<>> /\ p[1] = Head(p) /\ p[1] \in Transactions \cup {"load"} /\ PlanHolds(p)
    BY <1>1, <1>2, <1>3, RestIsAPlan DEF LoadOffers, RequestInv, PlansInv
<1>5. PICK t : t = <<"store">> \o (IF p[1] = "load" THEN Tail(p) ELSE p)
    OBVIOUS
<1>6. /\ t \in Seq(OfferSteps) /\ PlanHolds(t) /\ Storing(t)
      /\ Impressing(t) <=> Impressing(p)
      /\ Ready(t) => Ready(p)
      /\ TwoAreLeft(p) => TwoAreLeft(t)
    BY <1>4, <1>5, StoreIsNext
<1>7. PICK r : r = [q EXCEPT !.plan = t, !.row = offers, !.loaded = tick, !.stale = FALSE]
    OBVIOUS
<1>8. /\ r \in Offering /\ r.plan = t /\ r.row = offers /\ r.loaded = tick /\ r.stale = FALSE
      /\ r.first = q.first /\ r.last = q.last /\ r.crossed = q.crossed
    BY <1>2, <1>6, <1>7 DEF Offering
<1>9. PlansInv(r)
    <2>1. tick <= tick
        BY <1>2
    <2> QED
        BY <1>2, <1>3, <1>6, <1>8, <2>1, Zenon DEF RequestInv, PlansInv
<1>10. LoadedInv(r)
    BY <1>2, <1>8, Zenon DEF LoadedInv, RowInv, OffersAddUp
<1>11. QuietInv(r)
    BY <1>2, <1>3, <1>6, <1>8, Zenon DEF RequestInv, QuietInv
<1>12. offering' = [offering EXCEPT ![c] = r]
    BY <1>1, <1>3, <1>4, <1>5, <1>7 DEF LoadOffers
<1>13. Quietly /\ offersAsked' \in 0 .. MaxOffers /\ told' = told
    BY <1>2 DEF LoadOffers, Quietly, OffersTypes
<1> QED
    BY <1>2, <1>8, <1>9, <1>10, <1>11, <1>12, <1>13, OneRequestSteps DEF RequestInv, RowInv

LEMMA HalfADayKeeps ==
    ASSUME OffersInv, TickPasses
    PROVE  OffersInv'
<1>1. OffersTypes /\ RowInv /\ tick \in Nat /\ told \in TellsOf /\ tick' \in Nat /\ tick' = tick + 1
    BY OfferFacts DEF OffersInv, TickPasses
<1>2. UNCHANGED <<person, access, offers, told, offering, offersAsked, offersRaced>>
    BY DEF TickPasses
<1>3. OffersTypes'
    BY <1>1, <1>2, OffersAssumption DEF OffersTypes, TickPasses
<1>4. told'.lastAt <= tick'
    BY <1>1, <1>2 DEF RowInv, TellsOf
<1>5. RowInv'
    BY <1>1, <1>2, <1>4, Zenon DEF RowInv, OffersAddUp
<1>6. ASSUME NEW c \in OfferClients PROVE RequestInv(offering[c])'
    <2>1. PICK q \in Offering : q = offering[c]
        BY <1>1, OfferFacts
    <2>2. RequestInv(q)
        BY <2>1 DEF OffersInv
    <2>3. q.first.at \in Nat /\ q.last.at \in Nat /\ q.loaded \in Nat
        BY DEF Offering, Answer
    <2>4. q.first.at <= tick' /\ q.last.at <= tick' /\ q.loaded <= tick' /\ q.first.at # tick' /\ q.loaded # tick'
        BY <1>1, <2>2, <2>3 DEF RequestInv, PlansInv
    <2>5. PlansInv(q)'
        BY <2>2, <2>4, Zenon DEF RequestInv, PlansInv
    <2>6. LoadedInv(q)'
        BY <1>2, <2>2, <2>4, Zenon DEF RequestInv, LoadedInv
    <2>7. QuietInv(q)'
        BY <1>2, <2>2, <2>4, Zenon DEF RequestInv, QuietInv
    <2> QED
        BY <1>2, <2>1, <2>5, <2>6, <2>7, Zenon DEF RequestInv, PlansInv, LoadedInv, QuietInv
<1> QED
    BY <1>3, <1>5, <1>6 DEF OffersInv

\* What a transaction makes of the row that it read.
LEMMA WhatIsWritten ==
    ASSUME NEW q \in Offering, NEW step \in Transactions, NEW new, OffersTypes, new = Written(step, q.row, q)
    PROVE  /\ new \in OfferRow
           /\ new.impressions = q.row.impressions + (IF step = "impression" THEN 1 ELSE 0)
           /\ new.acceptances = q.row.acceptances + (IF step \in {"impression", "sync"} THEN 0 ELSE 1)
           /\ new.eligible <=> q.row.eligible /\ step \in {"impression", "sync"}
           /\ \/ new.cooldown = q.row.cooldown /\ step # "impression"
              \/ new.cooldown > tick
              \/ step = "trial" /\ q.last.ends > 0 /\ new.cooldown = q.last.ends
           /\ new.offer = "discount" => \/ step = "sync" /\ new.discount = 20
                                        \/ new.offer = q.row.offer /\ new.discount = q.row.discount
<1>1. tick \in Nat
    BY OfferFacts
<1>2. PICK old \in OfferRow : old = q.row
    BY DEF Offering
<1>3. PICK e \in Answer : e = q.last
    BY DEF Offering
<1>4. PICK f \in Answer : f = q.first
    BY DEF Offering
<1>5. /\ old.impressions \in Nat /\ old.acceptances \in Nat /\ old.fatigue \in Nat /\ old.cooldown \in Nat
      /\ old.eligible \in BOOLEAN /\ old.offer \in OfferTypes /\ old.discount \in {0, 5, 10, 20}
    BY DEF OfferRow
<1>6. PICK given \in Nat : given = old.acceptances + 1
    BY <1>5
<1>7. PICK shown \in Nat : shown = old.impressions + 1
    BY <1>5
<1>8. PICK again \in Nat : again = old.fatigue + 1
    BY <1>5
<1>9. e.show \in OfferTypes \ {"discount"} /\ f.show \in OfferTypes \ {"discount"} /\ e.ends \in Nat
    BY DEF Answer, Paywalls, OfferTypes
<1>10. CASE step = "impression"
    <2>1. new = Impression(old, e)
        BY <1>2, <1>3, <1>10 DEF Written
    <2>2. Least(6, old.fatigue + 1) \in Nat /\ Least(6, old.fatigue + 1) >= 1
        BY <1>5 DEF Least
    <2>3. PICK till \in Nat : till = tick + Least(6, old.fatigue + 1) /\ till > tick
        BY <1>1, <2>2
    <2>4. PICK what \in OfferTypes \ {"discount"} : what = IF e.recommended THEN "trial" ELSE e.show
        BY <1>9 DEF OfferTypes
    <2>5. new = [old EXCEPT !.impressions = shown, !.fatigue = again, !.cooldown = till, !.offer = what]
        BY <2>1, <2>3, <2>4, <1>7, <1>8 DEF Impression
    <2>6. /\ new \in OfferRow /\ new.impressions = shown /\ new.acceptances = old.acceptances
          /\ new.eligible = old.eligible /\ new.cooldown = till /\ new.offer = what
        BY <1>5, <2>5 DEF OfferRow
    <2> QED
        BY <1>2, <1>5, <1>7, <1>10, <2>3, <2>4, <2>6
<1>11. CASE step = "click"
    <2>1. new = Accepted(old, e)
        BY <1>2, <1>3, <1>11 DEF Written
    <2>2. PICK till \in Nat : till = tick + 14 /\ till > tick
        BY <1>1
    <2>3. PICK what \in OfferTypes : what = (IF e.show = "none" THEN old.offer ELSE e.show) /\ (what = "discount" => what = old.offer)
        BY <1>5, <1>9
    <2>4. PICK tired \in Nat : tired = IF old.fatigue > 0 THEN old.fatigue - 1 ELSE 0
        BY <1>5
    <2>5. new = [old EXCEPT !.acceptances = given, !.fatigue = tired, !.cooldown = till, !.eligible = FALSE, !.offer = what]
        BY <2>1, <2>2, <2>3, <2>4, <1>6 DEF Accepted
    <2>6. /\ new \in OfferRow /\ new.impressions = old.impressions /\ new.acceptances = given
          /\ new.eligible = FALSE /\ new.cooldown = till /\ new.offer = what /\ new.discount = old.discount
        BY <1>5, <2>5 DEF OfferRow
    <2> QED
        BY <1>2, <1>5, <1>6, <1>11, <2>2, <2>3, <2>6
<1>12. CASE step = "trial"
    <2>1. new = TrialMarked(old, e)
        BY <1>2, <1>3, <1>12 DEF Written
    <2>2. PICK till \in Nat : till = IF e.ends > 0 THEN e.ends ELSE old.cooldown
        BY <1>5, <1>9
    <2>3. new = [old EXCEPT !.acceptances = given, !.eligible = FALSE, !.offer = "trial", !.cooldown = till]
        BY <2>1, <2>2, <1>6 DEF TrialMarked
    <2>4. /\ new \in OfferRow /\ new.impressions = old.impressions /\ new.acceptances = given
          /\ new.eligible = FALSE /\ new.cooldown = till /\ new.offer = "trial"
        BY <1>5, <2>3 DEF OfferRow, OfferTypes
    <2>5. till = old.cooldown \/ (e.ends > 0 /\ till = e.ends)
        BY <2>2
    <2> QED
        BY <1>2, <1>3, <1>5, <1>6, <1>12, <2>4, <2>5
<1>13. CASE step = "upgrade"
    <2>1. new = UpgradeMarked(old, f)
        BY <1>2, <1>4, <1>13 DEF Written
    <2>2. PICK till \in Nat : till = tick + 60 /\ till > tick
        BY <1>1
    <2>3. PICK what \in OfferTypes : what = (IF f.show = "none" THEN old.offer ELSE f.show) /\ (what = "discount" => what = old.offer)
        BY <1>5, <1>9
    <2>4. new = [old EXCEPT !.acceptances = given, !.eligible = FALSE, !.cooldown = till, !.offer = what]
        BY <2>1, <2>2, <2>3, <1>6 DEF UpgradeMarked
    <2>5. /\ new \in OfferRow /\ new.impressions = old.impressions /\ new.acceptances = given
          /\ new.eligible = FALSE /\ new.cooldown = till /\ new.offer = what /\ new.discount = old.discount
        BY <1>5, <2>4 DEF OfferRow
    <2> QED
        BY <1>2, <1>5, <1>6, <1>13, <2>2, <2>3, <2>5
<1>14. CASE step = "sync"
    <2>1. new = Synced(old, f)
        BY <1>2, <1>4, <1>14 DEF Written
    <2>2. PICK what \in OfferTypes : what = OfferType(f)
        BY DEF OfferType, OfferTypes
    <2>3. PICK price \in {0, 5, 10, 20} : price = DiscountPercent(f)
        BY DEF DiscountPercent
    <2>4. what = "discount" => price = 20
        BY <2>2, <2>3 DEF OfferType, DiscountPercent
    <2>5. new = [old EXCEPT !.offer = what, !.discount = price]
        BY <2>1, <2>2, <2>3 DEF Synced
    <2>6. /\ new \in OfferRow /\ new.impressions = old.impressions /\ new.acceptances = old.acceptances
          /\ new.eligible = old.eligible /\ new.cooldown = old.cooldown /\ new.offer = what /\ new.discount = price
        BY <1>5, <2>5 DEF OfferRow
    <2> QED
        BY <1>2, <1>5, <1>14, <2>4, <2>6
<1> QED
    BY <1>10, <1>11, <1>12, <1>13, <1>14 DEF Transactions

\* A transaction writes what it has changed.
LEMMA StoringKeeps ==
    ASSUME NEW c \in OfferClients, OffersInv, StoreOffers(c)
    PROVE  OffersInv'
<1>1. PICK q \in Offering : q = offering[c]
    BY OfferFacts DEF OffersInv
<1>2. OffersTypes /\ RowInv /\ RequestInv(q) /\ tick \in Nat /\ offers \in OfferRow /\ told \in TellsOf
    BY <1>1, OfferFacts DEF OffersInv
<1>3. PICK p \in Seq(OfferSteps) : p = q.plan
    BY DEF Offering
<1>4. p # <<>> /\ p[1] = "store" /\ PlanHolds(p) /\ Storing(p)
    BY <1>1, <1>2, <1>3, RestIsAPlan DEF StoreOffers, Next1, RequestInv, PlansInv, Storing
<1>5. /\ Len(p) >= 2 /\ p[2] \in Transactions
      /\ Len(p) # 2 => Impressing(p)
      /\ Tail(Tail(p)) \in Seq(OfferSteps) /\ PlanHolds(Tail(Tail(p)))
      /\ ~Impressing(Tail(Tail(p))) /\ ~Storing(Tail(Tail(p)))
      /\ Impressing(p) /\ Ready(Tail(Tail(p))) => Ready(p)
    BY <1>4, AfterTheImpression
<1>6. PICK step \in Transactions : step = p[2]
    BY <1>5
<1>7. PICK new : new = Written(step, q.row, q)
    OBVIOUS
<1>8. PICK old \in OfferRow : old = q.row
    BY DEF Offering
<1>9. /\ new \in OfferRow
      /\ new.impressions = old.impressions + (IF step = "impression" THEN 1 ELSE 0)
      /\ new.acceptances = old.acceptances + (IF step \in {"impression", "sync"} THEN 0 ELSE 1)
      /\ new.eligible <=> old.eligible /\ step \in {"impression", "sync"}
      /\ \/ new.cooldown = old.cooldown /\ step # "impression"
         \/ new.cooldown > tick
         \/ step = "trial" /\ q.last.ends > 0 /\ new.cooldown = q.last.ends
      /\ new.offer = "discount" => \/ step = "sync" /\ new.discount = 20
                                   \/ new.offer = old.offer /\ new.discount = old.discount
    BY <1>2, <1>7, <1>8, WhatIsWritten
<1>10. /\ offers' = Merged(new, old) /\ told' = Told(step, q) /\ offersRaced' = (offersRaced \/ q.stale)
       /\ UNCHANGED <<tick, person, access, offersAsked>>
    BY <1>1, <1>3, <1>6, <1>7, <1>8 DEF StoreOffers
<1>11. /\ old.impressions \in Nat /\ old.acceptances \in Nat /\ old.cooldown \in Nat /\ old.eligible \in BOOLEAN
       /\ new.impressions \in Nat /\ new.acceptances \in Nat /\ new.cooldown \in Nat /\ new.eligible \in BOOLEAN
       /\ offers.impressions \in Nat /\ offers.acceptances \in Nat /\ offers.cooldown \in Nat /\ offers.eligible \in BOOLEAN
       /\ told.impressions \in Nat /\ told.acceptances \in Nat /\ told.lastAt \in Nat /\ told.belated \in BOOLEAN
       /\ q.last.ends \in Nat /\ q.loaded \in Nat
    BY <1>2, <1>9 DEF OfferRow, TellsOf, Offering, Answer
<1>12. /\ offers' \in OfferRow
       /\ offers'.impressions = (IF new.impressions # old.impressions THEN new.impressions ELSE offers.impressions)
       /\ offers'.acceptances = (IF new.acceptances # old.acceptances THEN new.acceptances ELSE offers.acceptances)
       /\ offers'.cooldown = (IF new.cooldown # old.cooldown THEN new.cooldown ELSE offers.cooldown)
       /\ offers'.eligible = (IF new.eligible # old.eligible THEN new.eligible ELSE offers.eligible)
       /\ offers'.offer = (IF new.offer # old.offer THEN new.offer ELSE offers.offer)
       /\ offers'.discount = (IF new.discount # old.discount THEN new.discount ELSE offers.discount)
    BY <1>2, <1>9, <1>10 DEF Merged, Column, OfferRow
<1>13. /\ told' \in TellsOf
       /\ told'.impressions = told.impressions + (IF step = "impression" THEN 1 ELSE 0)
       /\ told'.acceptances = told.acceptances + (IF step \in {"impression", "sync"} THEN 0 ELSE 1)
       /\ told'.lastAt = (IF step = "impression" THEN tick ELSE told.lastAt)
       /\ told'.answers = told.answers
       /\ told'.belated = (told.belated \/ Belated(q))
    <2>1. PICK late \in BOOLEAN : late = (told.belated \/ Belated(q))
        BY DEF Belated
    <2>2. PICK t : t = [told EXCEPT !.belated = late]
        OBVIOUS
    <2>3. /\ t \in TellsOf /\ t.impressions = told.impressions /\ t.acceptances = told.acceptances
          /\ t.lastAt = told.lastAt /\ t.answers = told.answers /\ t.belated = late
        BY <1>2, <2>2 DEF TellsOf
    <2>4. PICK shown \in Nat : shown = told.impressions + 1
        BY <1>11
    <2>5. PICK given \in Nat : given = told.acceptances + 1
        BY <1>11
    <2>6. told' = (CASE step = "impression" -> [t EXCEPT !.impressions = shown, !.lastAt = tick]
                     [] step = "sync" -> t
                     [] OTHER -> [t EXCEPT !.acceptances = given])
        BY <1>10, <2>1, <2>2, <2>3, <2>4, <2>5 DEF Told
    <2>7. CASE step = "impression"
        <3>1. told' = [t EXCEPT !.impressions = shown, !.lastAt = tick]
            BY <2>6, <2>7
        <3>2. /\ told' \in TellsOf /\ told'.impressions = shown /\ told'.acceptances = t.acceptances
              /\ told'.lastAt = tick /\ told'.answers = t.answers /\ told'.belated = t.belated
            BY <1>2, <2>3, <3>1 DEF TellsOf
        <3> QED
            BY <1>11, <2>1, <2>3, <2>4, <2>7, <3>2
    <2>8. CASE step = "sync"
        BY <1>11, <2>1, <2>3, <2>6, <2>8
    <2>9. CASE step \notin {"impression", "sync"}
        <3>1. told' = [t EXCEPT !.acceptances = given]
            BY <2>6, <2>9
        <3>2. /\ told' \in TellsOf /\ told'.impressions = t.impressions /\ told'.acceptances = given
              /\ told'.lastAt = t.lastAt /\ told'.answers = t.answers /\ told'.belated = t.belated
            BY <2>3, <3>1 DEF TellsOf
        <3> QED
            BY <1>11, <2>1, <2>3, <2>5, <2>9, <3>2
    <2> QED
        BY <2>7, <2>8, <2>9
<1>14. /\ old.impressions <= told.impressions /\ old.acceptances <= told.acceptances
       /\ ~old.eligible => told.acceptances > 0
       /\ ~q.stale => old = offers
       /\ q.loaded = tick /\ old.cooldown > tick /\ ~told.belated => offers.cooldown > tick
    BY <1>2, <1>3, <1>4, <1>8 DEF RequestInv, LoadedInv
<1>15. \* a quiet that is written lasts, unless it is belated
       ASSUME ~told'.belated, new.cooldown # old.cooldown PROVE offers'.cooldown > tick
    <2>1. ~(step = "trial" /\ q.last.ends \in 1 .. tick)
        BY <1>3, <1>6, <1>13, <1>15 DEF Belated
    <2> QED
        BY <1>2, <1>9, <1>11, <1>12, <1>15, <2>1
<1>16. ASSUME ~told'.belated PROVE ~told.belated /\ q.loaded = tick
    <2>1. ~told.belated /\ ~(q.loaded < tick)
        BY <1>13, <1>16 DEF Belated
    <2> QED
        BY <1>2, <1>11, <2>1 DEF RequestInv, PlansInv
<1>17. ASSUME step = "impression", ~told'.belated PROVE offers'.cooldown > tick
    <2>1. CASE new.cooldown # old.cooldown
        BY <1>15, <1>17, <2>1
    <2>2. CASE new.cooldown = old.cooldown
        <3>1. old.cooldown > tick
            BY <1>9, <1>17, <2>2
        <3> QED
            BY <1>12, <1>14, <1>16, <1>17, <2>2, <3>1
    <2> QED
        BY <2>1, <2>2
<1>18. RowInv'
    <2>1. /\ offers.impressions <= told.impressions /\ offers.acceptances <= told.acceptances
          /\ told.acceptances > 0 => ~offers.eligible /\ offers.acceptances > 0
          /\ ~offersRaced => /\ offers.impressions = told.impressions /\ offers.acceptances = told.acceptances
                             /\ offers.offer = "discount" => offers.discount = 20
          /\ ~offers.eligible => told.acceptances > 0
          /\ told.lastAt <= tick
          /\ ~told.belated /\ told.impressions > 0 => offers.cooldown > told.lastAt
          /\ [action |-> "soft_paywall", alone |-> TRUE] \notin told.answers
        BY <1>2 DEF RowInv, OffersAddUp
    <2>2. offers'.impressions <= told'.impressions
        BY <1>9, <1>11, <1>12, <1>13, <1>14, <2>1
    <2>3. offers'.acceptances <= told'.acceptances
        BY <1>9, <1>11, <1>12, <1>13, <1>14, <2>1
    <2>4. told'.acceptances > 0 => ~offers'.eligible
        <3>1. CASE step \in {"impression", "sync"}
            BY <1>9, <1>11, <1>12, <1>13, <2>1, <3>1
        <3>2. CASE step \notin {"impression", "sync"}
            BY <1>9, <1>11, <1>12, <1>14, <2>1, <3>2
        <3> QED
            BY <3>1, <3>2
    <2>5. told'.acceptances > 0 => offers'.acceptances > 0
        BY <1>9, <1>11, <1>12, <1>13, <2>1
    <2>6. ASSUME ~offersRaced'
          PROVE  /\ offers'.impressions = told'.impressions /\ offers'.acceptances = told'.acceptances
                 /\ offers'.offer = "discount" => offers'.discount = 20
        <3>1. old = offers /\ ~offersRaced
            BY <1>10, <1>14, <2>6
        <3> QED
            BY <1>9, <1>11, <1>12, <1>13, <2>1, <3>1
    <2>7. ~offers'.eligible => told'.acceptances > 0
        BY <1>9, <1>11, <1>12, <1>13, <1>14, <2>1
    <2>8. told'.lastAt <= tick'
        BY <1>2, <1>10, <1>13, <2>1
    <2>9. ASSUME ~told'.belated, told'.impressions > 0 PROVE offers'.cooldown > told'.lastAt
        <3>1. CASE step = "impression"
            BY <1>13, <1>17, <2>9, <3>1
        <3>2. CASE step # "impression" /\ new.cooldown = old.cooldown
            BY <1>11, <1>12, <1>13, <1>16, <2>1, <2>9, <3>2
        <3>3. CASE step # "impression" /\ new.cooldown # old.cooldown
            <4>1. offers'.cooldown > tick /\ told'.lastAt = told.lastAt
                BY <1>13, <1>15, <2>9, <3>3
            <4> QED
                BY <1>2, <1>11, <1>12, <2>1, <4>1
        <3> QED
            BY <3>1, <3>2, <3>3
    <2> QED
        BY <2>1, <2>2, <2>3, <2>4, <2>5, <2>6, <2>7, <2>8, <2>9, <1>13, Zenon DEF RowInv, OffersAddUp
<1>19. tick' = tick /\ told'.impressions \in Nat /\ told'.acceptances \in Nat
       /\ told'.impressions >= told.impressions /\ told'.acceptances >= told.acceptances
    <2>1. told'.impressions \in Nat /\ told'.impressions >= told.impressions
        <3>1. PICK n \in Nat : n = told.impressions
            BY <1>11
        <3>2. told'.impressions = n + 1 \/ told'.impressions = n
            BY <3>1, <1>13
        <3> QED
            BY <3>1, <3>2
    <2>2. told'.acceptances \in Nat /\ told'.acceptances >= told.acceptances
        <3>1. PICK n \in Nat : n = told.acceptances
            BY <1>11
        <3>2. told'.acceptances = n + 1 \/ told'.acceptances = n
            BY <3>1, <1>13
        <3> QED
            BY <3>1, <3>2
    <2> QED
        BY <1>10, <2>1, <2>2
<1>20. \* another request that was under way
       ASSUME NEW o \in Offering, RequestInv(o)
       PROVE  LET r == [o EXCEPT !.crossed = TRUE, !.stale = Head(o.plan) = "store"]
              IN o.plan # <<>> => r \in Offering /\ RequestInv(r)'
    <2>1. SUFFICES ASSUME o.plan # <<>>
                   PROVE  LET r == [o EXCEPT !.crossed = TRUE, !.stale = Head(o.plan) = "store"]
                          IN r \in Offering /\ RequestInv(r)'
        OBVIOUS
    <2>2. PICK open \in BOOLEAN : open = (Head(o.plan) = "store") /\ (Storing(o.plan) => open)
        BY <2>1, RestIsAPlan DEF Storing, Offering
    <2>3. PICK r : r = [o EXCEPT !.crossed = TRUE, !.stale = open]
        OBVIOUS
    <2>4. /\ r \in Offering /\ r.plan = o.plan /\ r.first = o.first /\ r.last = o.last /\ r.row = o.row
          /\ r.loaded = o.loaded /\ r.crossed = TRUE /\ r.stale = open
        BY <2>3 DEF Offering
    <2>5. PlansInv(r)'
        BY <1>19, <1>20, <2>4, Zenon DEF RequestInv, PlansInv
    <2>6. LoadedInv(r)'
        <3>1. PICK read \in OfferRow : read = o.row
            BY DEF Offering
        <3>2. read.impressions \in Nat /\ read.acceptances \in Nat /\ read.cooldown \in Nat
            BY DEF OfferRow
        <3>3. read.impressions <= told'.impressions /\ read.acceptances <= told'.acceptances
            <4>1. read.impressions <= told.impressions /\ read.acceptances <= told.acceptances
                BY <1>20, <3>1 DEF RequestInv, LoadedInv
            <4>2. told.impressions \in Nat /\ told.acceptances \in Nat
                BY <1>11
            <4> QED
                BY <1>19, <3>2, <4>1, <4>2
        <3>4. ~read.eligible => told'.acceptances > 0
            BY <1>11, <1>19, <1>20, <3>1 DEF RequestInv, LoadedInv
        <3>5. ASSUME Storing(o.plan), o.loaded = tick, read.cooldown > tick, ~told'.belated PROVE offers'.cooldown > tick
            <4>1. offers.cooldown > tick
                BY <1>16, <1>20, <3>1, <3>5 DEF RequestInv, LoadedInv
            <4> QED
                BY <1>12, <1>15, <3>5, <4>1
        <3> QED
            BY <1>19, <2>2, <2>4, <3>1, <3>3, <3>4, <3>5, Zenon DEF LoadedInv
    <2>7. QuietInv(r)'
        BY <2>4, Zenon DEF QuietInv
    <2> QED
        BY <2>2, <2>3, <2>4, <2>5, <2>6, <2>7, Zenon DEF RequestInv
<1>21. \* the request that stores goes on
       ASSUME Len(p) # 2
       PROVE  LET r == [q EXCEPT !.plan = Tail(Tail(@)), !.row = NewOfferRow, !.loaded = 0, !.stale = FALSE]
              IN r \in Offering /\ RequestInv(r)'
    <2>1. PICK t \in Seq(OfferSteps) : t = Tail(Tail(p))
        BY <1>5
    <2>2. PICK r : r = [q EXCEPT !.plan = t, !.row = NewOfferRow, !.loaded = 0, !.stale = FALSE]
        OBVIOUS
    <2>3. NewOfferRow \in OfferRow /\ NewOfferRow.impressions = 0 /\ NewOfferRow.acceptances = 0 /\ NewOfferRow.eligible
        BY DEF NewOfferRow, OfferRow, OfferTypes
    <2>4. /\ r \in Offering /\ r.plan = t /\ r.first = q.first /\ r.last = q.last /\ r.row = NewOfferRow
          /\ r.loaded = 0 /\ r.crossed = q.crossed /\ r.stale = FALSE
        BY <2>2, <2>3 DEF Offering
    <2>5. Impressing(p) /\ step = "impression" /\ q.first # NoAnswer /\ 0 <= tick
        BY <1>2, <1>3, <1>5, <1>6, <1>21 DEF Impressing, RequestInv, PlansInv
    <2>6. PlansInv(r)'
        BY <1>2, <1>5, <1>19, <2>1, <2>4, <2>5, Zenon DEF RequestInv, PlansInv
    <2>7. LoadedInv(r)'
        <3>1. 0 <= told'.impressions /\ 0 <= told'.acceptances
            BY <1>19
        <3> QED
            BY <1>5, <2>1, <2>3, <2>4, <3>1, Zenon DEF LoadedInv
    <2>8. ASSUME ~q.crossed PROVE Evaluated(0)'.show # "soft_paywall"
        <3>1. old = offers
            BY <1>2, <1>14, <2>8 DEF RequestInv, PlansInv
        <3>2. new.cooldown > tick
            BY <1>9, <2>5
        <3>3. offers'.cooldown > tick
            BY <1>12, <3>1, <3>2
        <3> QED
            BY <1>10, <3>3 DEF Evaluated, Show
    <2>9. ~q.crossed /\ q.last.at = q.first.at /\ Ready(t) => q.last.show # "soft_paywall"
        BY <1>2, <1>3, <1>5, <2>1, <2>5 DEF RequestInv, QuietInv
    <2>10. QuietInv(r)'
        BY <1>5, <2>1, <2>4, <2>8, <2>9, Zenon DEF QuietInv
    <2> QED
        BY <1>3, <2>1, <2>2, <2>4, <2>6, <2>7, <2>10, Zenon DEF RequestInv
<1>22. NoOffering \in Offering /\ RequestInv(NoOffering)'
    BY <1>2, <1>10, <1>19, NothingAskedHolds, NothingAskedStays
<1>23. ASSUME NEW o \in OfferClients PROVE offering'[o] \in Offering /\ RequestInv(offering[o])'
    <2>1. PICK s \in Offering : s = offering[o]
        BY <1>2, OfferFacts
    <2>2. RequestInv(s)
        BY <2>1 DEF OffersInv
    <2>3. offering'[o] = (IF o = c
                          THEN IF Len(p) = 2 THEN NoOffering
                               ELSE [q EXCEPT !.plan = Tail(Tail(@)), !.row = NewOfferRow, !.loaded = 0, !.stale = FALSE]
                          ELSE IF s.plan = <<>> THEN NoOffering
                          ELSE [s EXCEPT !.crossed = TRUE, !.stale = Head(s.plan) = "store"])
        BY <1>1, <1>3, <2>1 DEF StoreOffers
    <2>4. PICK r \in Offering : r = offering'[o] /\ RequestInv(r)'
        BY <1>20, <1>21, <1>22, <2>2, <2>3
    <2> QED
        BY <2>4, Zenon DEF RequestInv, PlansInv, LoadedInv, QuietInv
<1>24. offering' \in [OfferClients -> Offering]
    <2>1. offering' = [o \in OfferClients |-> offering'[o]]
        BY DEF StoreOffers
    <2> QED
        BY <1>23, <2>1
<1>25. OffersTypes'
    BY <1>2, <1>10, <1>12, <1>13, <1>24 DEF OffersTypes
<1> QED
    BY <1>18, <1>23, <1>25 DEF OffersInv

-----------------------------------------------------------------------------
(* The theorems *)

LEMMA OffersInitiallyInv == OffersInit => OffersInv
<1> SUFFICES ASSUME OffersInit PROVE OffersInv
    OBVIOUS
<1>1. /\ tick = 0 /\ offers = NewOfferRow /\ told = NothingTold /\ offersRaced = FALSE /\ offersAsked = 0
      /\ access = [tier |-> "free", trialEnds |-> 0] /\ person \in Persons
      /\ offering = [c \in OfferClients |-> NoOffering]
    BY DEF OffersInit
<1>2. NewOfferRow \in OfferRow /\ NoAnswer \in Answer
    BY DEF NewOfferRow, OfferRow, OfferTypes, NoAnswer, Answer, Paywalls
<1>3. NothingTold \in TellsOf /\ NoOffering \in Offering
    BY <1>2 DEF NothingTold, TellsOf, NoOffering, Offering
<1>4. OffersTypes
    <2>1. tick \in 0 .. LastTick /\ offersAsked \in 0 .. MaxOffers
        BY <1>1, OffersAssumption
    <2>2. access \in [tier : {"free", "pro"}, trialEnds : Nat]
        BY <1>1
    <2> QED
        BY <1>1, <1>2, <1>3, <2>1, <2>2, Zenon DEF OffersTypes
<1>5. RowInv
    BY <1>1 DEF RowInv, OffersAddUp, NewOfferRow, NothingTold
<1> QED
    BY <1>1, <1>4, <1>5, NothingAskedHolds DEF OffersInv

LEMMA OffersStepKeepsInv == OffersInv /\ [OffersNext]_offersVars => OffersInv'
<1> SUFFICES ASSUME OffersInv, [OffersNext]_offersVars PROVE OffersInv'
    OBVIOUS
<1>1. CASE UNCHANGED offersVars
    <2>1. UNCHANGED <<tick, person, access, offers, told, offering, offersAsked, offersRaced>>
        BY <1>1 DEF offersVars
    <2>2. OffersTypes' /\ RowInv'
        BY <2>1, Zenon DEF OffersInv, OffersTypes, RowInv, OffersAddUp
    <2>3. Quietly
        BY <2>1, OfferFacts DEF OffersInv, OffersTypes, Quietly
    <2>4. ASSUME NEW c \in OfferClients PROVE RequestInv(offering[c])'
        <3>1. PICK q \in Offering : q = offering[c]
            BY OfferFacts DEF OffersInv
        <3>2. RequestInv(q)'
            BY <2>3, <3>1, QuietStepKeeps DEF OffersInv
        <3> QED
            BY <2>1, <3>1, <3>2, Zenon DEF RequestInv, PlansInv, LoadedInv, QuietInv
    <2> QED
        BY <2>2, <2>4 DEF OffersInv
<1>2. ASSUME NEW c \in OfferClients,
             \/ LookAtPaywall(c) \/ AskDecision(c) \/ EvaluateOffer(c) \/ ClickUpgrade(c) \/ AskForTrial(c)
             \/ UpgradeTier(c)
      PROVE  OffersInv'
    <2>1. PICK p \in Seq(OfferSteps), w \in {0, 85} :
            /\ AskOffer(c, p, w)
            /\ PlanHolds(p) /\ TwoAreLeft(p) /\ ~Impressing(p) /\ ~Storing(p)
        BY <1>2, PlansBeginWell, Zenon DEF LookAtPaywall, AskDecision, EvaluateOffer, ClickUpgrade, AskForTrial, UpgradeTier
    <2> QED
        BY <2>1, AskingKeeps
<1>3. ASSUME NEW c \in OfferClients,
             \/ EvaluatePaywall(c) \/ DecideGlobally(c) \/ StartTrial(c) \/ UpsertTier(c)
             \/ LoadOffers(c) \/ StoreOffers(c) \/ OfferingFails(c)
      PROVE  OffersInv'
    BY <1>3, EvaluatingKeeps, DecidingKeeps, GivingKeeps, LoadingKeeps, StoringKeeps, FailingKeepsOffers
<1> QED
    BY <1>1, <1>2, <1>3, HalfADayKeeps, Zenon DEF OffersNext

LEMMA OffersInvHolds == OffersSpec => []OffersInv
BY OffersInitiallyInv, OffersStepKeepsInv, PTL DEF OffersSpec

\* Clock, row, requests and answers keep their types.
THEOREM OffersTypeCorrect == OffersSpec => []OffersTypeOK
<1>1. OffersInv => OffersTypeOK
    <2> SUFFICES ASSUME OffersInv PROVE OffersTypeOK
        OBVIOUS
    <2>1. OffersTypes /\ told \in TellsOf /\ told.lastAt <= tick
        BY OfferFacts DEF OffersInv, RowInv
    <2>2. told.impressions \in Nat /\ told.acceptances \in Nat /\ told.lastAt \in 0 .. LastTick
        BY <2>1, OffersAssumption DEF OffersTypes, TellsOf
    <2> QED
        BY <2>1, <2>2 DEF OffersTypes, OffersTypeOK, Offering
<1> QED
    BY <1>1, OffersInvHolds, PTL

\* The row counts what happened, unless transactions on it overlapped, and then it invents
\* nothing; whoever accepted is not eligible again; a discount has its price.
THEOREM OffersAreCounted == OffersSpec => []OffersAddUp
<1>1. OffersInv => OffersAddUp
    BY DEF OffersInv, RowInv
<1> QED
    BY <1>1, OffersInvHolds, PTL

QuietStep ==
    /\ \A c \in OfferClients :
        LET q == offering[c]
        IN /\ told'.impressions > told.impressions /\ Next1(c, "store") /\ offering'[c].plan # q.plan
           /\ told.impressions > 0 /\ q.last.show = "soft_paywall" /\ ~q.crossed /\ ~told'.belated
           => q.last.at > told.lastAt
    /\ [action |-> "soft_paywall", alone |-> TRUE] \notin told'.answers

\* No two soft paywalls within half a day, however the writes of the row overlap; decide never
\* answers by itself with one.
THEOREM UserIsLeftAlone == OffersSpec => QuietAfterPaywall
<1>1. OffersInv /\ OffersInv' /\ [OffersNext]_offersVars => [QuietStep]_offersVars
    <2> SUFFICES ASSUME OffersInv, OffersInv', OffersNext PROVE QuietStep
        OBVIOUS
    <2>1. [action |-> "soft_paywall", alone |-> TRUE] \notin told'.answers
        BY DEF OffersInv, RowInv
    <2>2. ASSUME NEW c \in OfferClients, told'.impressions > told.impressions, Next1(c, "store"),
                 offering'[c].plan # offering[c].plan, told.impressions > 0,
                 offering[c].last.show = "soft_paywall", ~offering[c].crossed, ~told'.belated
          PROVE  offering[c].last.at > told.lastAt
        <3>1. PICK q \in Offering : q = offering[c]
            BY OfferFacts DEF OffersInv
        <3>2. OffersTypes /\ RequestInv(q) /\ told \in TellsOf /\ told.impressions \in Nat /\ offering \in [OfferClients -> Offering]
            BY <3>1, OfferFacts DEF OffersInv, OffersTypes, TellsOf
        <3>3. PICK o \in OfferClients : StoreOffers(o)
            <4>1. told' # told
                BY <2>2, <3>2
            <4>2. told'.impressions # told.impressions
                BY <2>2, <3>2
            <4>3. ASSUME NEW o \in OfferClients, DecideGlobally(o) PROVE told'.impressions = told.impressions
                BY <3>2, <4>3 DEF DecideGlobally, TellsOf
            <4> QED
                BY <4>1, <4>2, <4>3 DEF OffersNext, TickPasses, LookAtPaywall, AskDecision, EvaluateOffer, ClickUpgrade,
                    AskForTrial, UpgradeTier, AskOffer, EvaluatePaywall, StartTrial, UpsertTier, LoadOffers, OfferingFails
        <3>4. o = c
            <4>1. SUFFICES ASSUME o # c PROVE FALSE
                OBVIOUS
            <4>2. q.plan # <<>> /\ offering'[c] = [q EXCEPT !.crossed = TRUE, !.stale = Head(q.plan) = "store"]
                BY <2>2, <3>1, <3>3, <4>1 DEF StoreOffers, Next1
            <4>3. offering'[c].plan = q.plan
                BY <4>2 DEF Offering
            <4> QED
                BY <2>2, <3>1, <4>3
        <3>5. q.plan \in Seq(OfferSteps) /\ PlanHolds(q.plan) /\ q.plan # <<>> /\ q.plan[1] = "store"
            BY <2>2, <3>1, <3>2, RestIsAPlan DEF Next1, Offering, RequestInv, PlansInv
        <3>6. Len(q.plan) >= 2 /\ q.plan[2] \in Transactions
            BY <3>5, AfterTheImpression
        <3>7. told' = Told(q.plan[2], q)
            BY <3>1, <3>3, <3>4 DEF StoreOffers
        <3>8. PICK late \in BOOLEAN : late = (told.belated \/ Belated(q))
            BY DEF Belated
        <3>9. PICK t : /\ t = [told EXCEPT !.belated = late] /\ t \in TellsOf
                       /\ t.impressions = told.impressions /\ t.belated = late
            <4>1. PICK t : t = [told EXCEPT !.belated = late]
                OBVIOUS
            <4>2. t \in TellsOf /\ t.impressions = told.impressions /\ t.belated = late
                BY <3>2, <4>1 DEF TellsOf
            <4> QED
                BY <4>1, <4>2
        <3>10. told' = (CASE q.plan[2] = "impression" -> [t EXCEPT !.impressions = @ + 1, !.lastAt = tick]
                          [] q.plan[2] = "sync" -> t
                          [] OTHER -> [t EXCEPT !.acceptances = @ + 1])
            BY <3>7, <3>8, <3>9 DEF Told
        <3>11. q.plan[2] = "impression"
            <4>1. CASE q.plan[2] = "sync"
                <5>1. told' = t
                    BY <3>10, <4>1
                <5> QED
                    BY <2>2, <3>2, <3>9, <5>1
            <4>2. CASE q.plan[2] \notin {"impression", "sync"}
                <5>1. told' = [t EXCEPT !.acceptances = @ + 1]
                    BY <3>10, <4>2
                <5>2. told'.impressions = t.impressions
                    BY <3>9, <5>1 DEF TellsOf
                <5> QED
                    BY <2>2, <3>2, <3>9, <5>2
            <4> QED
                BY <4>1, <4>2
        <3>12. told'.belated = late
            <4>1. told' = [t EXCEPT !.impressions = @ + 1, !.lastAt = tick]
                BY <3>10, <3>11
            <4>2. told'.belated = t.belated
                BY <3>9, <4>1 DEF TellsOf
            <4> QED
                BY <3>9, <4>2
        <3>13. Impressing(q.plan) /\ ~told.belated
            BY <2>2, <3>6, <3>8, <3>11, <3>12 DEF Impressing
        <3> QED
            BY <2>2, <3>1, <3>2, <3>13 DEF RequestInv, QuietInv
    <2> QED
        BY <2>1, <2>2 DEF QuietStep
<1> QED
    BY <1>1, OffersInvHolds, PTL DEF OffersSpec, QuietAfterPaywall, QuietStep

-----------------------------------------------------------------------------
(***************************************************************************)
(* The services side by side (Services): a behaviour of all of them is one *)
(* of each, so that what is proved of a service alone holds of it there.   *)
(***************************************************************************)

\* What starts all of them starts each.
LEMMA EachServiceStarts ==
    ServicesInit => /\ DailyInit /\ LifecycleInit /\ NotificationsInit /\ OffersInit /\ PracticeInit
                    /\ PersonalizationInit /\ AwardsInit /\ ContentInit /\ Init
BY Zenon DEF ServicesInit

\* A step of one of them is a step of it, and leaves the others as they were.
LEMMA EachServiceSteps ==
    [ServicesNext]_servicesVars =>
        /\ [DailyNext]_dailyVars /\ [LifecycleNext]_lifecycleVars /\ [NotificationsNext]_noticeVars
        /\ [OffersNext]_offersVars /\ [PracticeNext]_practiceVars
        /\ [PersonalizationNext]_personalizationVars /\ [AwardsNext]_awardsVars /\ [ContentNext]_contentVars
        /\ [Next]_vars
<1>1. CASE UNCHANGED servicesVars
    BY <1>1 DEF servicesVars
<1>2. CASE ServicesNext
    BY <1>2, Zenon DEF ServicesNext, Rest
<1> QED
    BY <1>1, <1>2

(***************************************************************************)
(* Every behaviour of the services together is one of each service: the    *)
(* theorems above hold of ServicesSpec, which the runs check.              *)
(***************************************************************************)
THEOREM ServicesAreEach ==
    ServicesSpec => /\ DailySpec /\ LifecycleSpec /\ NotificationsSpec /\ OffersSpec /\ PracticeSpec
                    /\ PersonalizationSpec /\ AwardsSpec /\ ContentSpec /\ Spec
BY EachServiceStarts, EachServiceSteps, PTL DEF ServicesSpec, DailySpec, LifecycleSpec, NotificationsSpec, OffersSpec,
    PracticeSpec, PersonalizationSpec, AwardsSpec, ContentSpec, Spec

\* The shape of the state that each service keeps holds when all of them run, whichever of them
\* takes the next step.
THEOREM ServicesTypesCorrect == ServicesSpec => []ServicesTypeOK
<1>1. /\ DailyTypeOK /\ LifecycleTypeOK /\ NotificationsTypeOK /\ OffersTypeOK /\ PracticeTypeOK
      /\ PersonalizationTypeOK /\ AwardsTypeOK /\ ContentTypeOK /\ TypeOK
      /\ component \in Components
      => ServicesTypeOK
  BY DEF ServicesTypeOK, Components
<1>2. Spec => []TypeOK
  BY InitType, StepType, PTL DEF Spec
<1>3. AwardsSpec => []AwardsTypeOK
  BY AwardsAreGivenOnce, PTL
<1>4. ServicesSpec => [](component \in Components)
  <2>1. ServicesInit => component \in Components
    BY DEF ServicesInit
  <2>2. component \in Components /\ [ServicesNext]_servicesVars => (component \in Components)'
    <3>1. CASE UNCHANGED servicesVars
      BY <3>1 DEF servicesVars
    <3>2. CASE ServicesNext
      BY <3>2, Zenon DEF ServicesNext, Rest
    <3> QED
      BY <3>1, <3>2
  <2> QED
    BY <2>1, <2>2, PTL DEF ServicesSpec
<1> QED
  BY <1>1, <1>2, <1>3, <1>4, ServicesAreEach, DailyTypeCorrect, LifecycleTypeCorrect, NotificationsTypeCorrect,
     OffersTypeCorrect, PracticeTypeCorrect, PersonalizationTypeCorrect, ContentTypeCorrect, PTL
=============================================================================

------------------------------ MODULE Lifecycle ------------------------------
(***************************************************************************)
(* The lifecycle stage of one user.  An evaluation chooses a stage and     *)
(* writes it in two transactions, to the lifecycle row with its log of     *)
(* transitions and to the notification row; an operator repairs what the   *)
(* two say differently.  Which stage an evaluation chooses is left open:   *)
(* the data it is chosen from changes all the time.                        *)
(***************************************************************************)
EXTENDS Integers, FiniteSets, Sequences

CONSTANTS
    Stages,             \* lifecycle stages
    QuietStages,        \* stages whose policy disables lifecycle notifications
    Evaluators,         \* concurrent evaluations and remediations
    MaxEvaluations      \* bound on them

NoStage == "null"
ASSUME LifecycleAssumption ==
    /\ QuietStages \subseteq Stages
    /\ NoStage \notin Stages
    /\ MaxEvaluations \in Nat

VARIABLES
    lifecycle,      \* the row of user_lifecycle_states
    transitions,    \* lifecycle_transitions
    notified,       \* lifecycle_stage and lifecycle_policy of user_notification_states
    policyUpdates,  \* stages of the "lifecycle_policy_updated" events, oldest first
    suppressed,     \* "lifecycle_notification_suppressed" events
    evaluation,     \* the evaluations
    evaluations,    \* how many there were, and the clock of created_at
    unsettled       \* what an overlap or a failure may have left wrong: see Parts

lifecycleVars == <<lifecycle, transitions, notified, policyUpdates, suppressed, evaluation, evaluations,
                   unsettled>>

Lifecycle == [stage : Stages \cup {NoStage}, previous : Stages \cup {NoStage}, count : Nat]
NoLifecycle == [stage |-> NoStage, previous |-> NoStage, count |-> 0]
Transition == [from : Stages \cup {NoStage}, to : Stages, at : Nat, repair : BOOLEAN]
Notified == [stage : Stages \cup {NoStage}, enabled : BOOLEAN]
NotNotified == [stage |-> NoStage, enabled |-> TRUE]
Parts == {"trail", "landing", "notification", "log"}

EvaluationSteps == {"idle", "planned", "read", "recorded", "noted", "applied", "repairing", "loaded",
                    "syncing", "synced"}
\* `alone`: no other has written since this evaluation's `at`; not in the code.
Evaluation == [pc : EvaluationSteps, stage : Stages \cup {NoStage}, at : Nat, loaded : Lifecycle,
               notified : Notified, alone : BOOLEAN]
NoEvaluation == [pc |-> "idle", stage |-> NoStage, at |-> 0, loaded |-> NoLifecycle,
                 notified |-> NotNotified, alone |-> TRUE]

LifecycleInit ==
    /\ lifecycle = NoLifecycle
    /\ transitions = {}
    /\ notified = NotNotified
    /\ policyUpdates = <<>>
    /\ suppressed = 0
    /\ evaluation = [c \in Evaluators |-> NoEvaluation]
    /\ evaluations = 0
    /\ unsettled = {}

-----------------------------------------------------------------------------
\* c's evaluation becomes e by a write: no other that is under way is alone any more.
Writes(c, e) ==
    evaluation' = [o \in Evaluators |-> IF o = c THEN e
                                        ELSE IF evaluation[o].pc = "idle" THEN NoEvaluation
                                        ELSE [evaluation[o] EXCEPT !.alone = FALSE]]

\* What a write by c breaks unless it is alone, and mends if it is.
Settles(c, broken, mended) ==
    unsettled' = IF evaluation[c].alone THEN unsettled \ mended ELSE unsettled \cup broken

\* The action trace, and the time that record_stage takes.
Plan(c, s) ==
    evaluation' = [evaluation EXCEPT ![c] =
        [NoEvaluation EXCEPT !.pc = "planned", !.stage = s, !.at = evaluations + 1]]

Evaluate(c) ==
    /\ evaluation[c].pc = "idle"
    /\ evaluations < MaxEvaluations
    /\ evaluations' = evaluations + 1
    /\ \E s \in Stages : Plan(c, s)
    /\ UNCHANGED <<lifecycle, transitions, notified, policyUpdates, suppressed, unsettled>>

\* record_stage and repair_current_stage_transition read the row ...
ReadStage(c) ==
    /\ evaluation[c].pc \in {"planned", "repairing"}
    /\ evaluation' = [evaluation EXCEPT ![c].pc = IF @ = "planned" THEN "read" ELSE "loaded",
                                        ![c].loaded = lifecycle]
    /\ UNCHANGED <<lifecycle, transitions, notified, policyUpdates, suppressed, evaluations, unsettled>>

\* ... and the flush writes the columns that differ from what was read.
WithColumns(row, loaded, new) ==
    [col \in DOMAIN row |-> IF new[col] # loaded[col] THEN new[col] ELSE row[col]]

\* Only the reasons change when the stage stays.
Entered(loaded, s) ==
    IF loaded.stage = s THEN loaded
    ELSE [stage |-> s, previous |-> loaded.stage, count |-> loaded.count + 1]

\* A second insert of the user's row fails.
RecordStage(c) ==
    LET e == evaluation[c]
        new == Entered(e.loaded, e.stage)
    IN /\ e.pc = "read"
       /\ IF e.loaded = NoLifecycle /\ lifecycle # NoLifecycle
          THEN /\ evaluation' = [evaluation EXCEPT ![c] = NoEvaluation]
               /\ UNCHANGED <<lifecycle, transitions, unsettled>>
          ELSE /\ lifecycle' = WithColumns(lifecycle, e.loaded, new)
               /\ IF new = e.loaded
                  THEN /\ evaluation' = [evaluation EXCEPT ![c].pc = "recorded"]
                       /\ UNCHANGED <<transitions, unsettled>>
                  ELSE /\ transitions' = transitions \cup
                            {[from |-> new.previous, to |-> e.stage, at |-> e.at, repair |-> FALSE]}
                       /\ Writes(c, [e EXCEPT !.pc = "recorded"])
                       /\ Settles(c, {"trail", "landing"}, {"landing"})
       /\ UNCHANGED <<notified, policyUpdates, suppressed, evaluations>>

-----------------------------------------------------------------------------
\* apply_lifecycle_policy; "syncing" is the call of a remediation.
ReadNotification(c) ==
    /\ evaluation[c].pc \in {"recorded", "syncing"}
    /\ evaluation' = [evaluation EXCEPT ![c].pc = IF @ = "recorded" THEN "noted" ELSE "synced",
                                        ![c].notified = notified]
    /\ UNCHANGED <<lifecycle, transitions, notified, policyUpdates, suppressed, evaluations, unsettled>>

\* Slip: a stage that is entered again keeps the policy of the row.
PolicyKept(s, n) == [stage |-> s, enabled |-> n.enabled]

PolicyOf(s, n) == [stage |-> s, enabled |-> s \notin QuietStages]

ApplyPolicy(c) ==
    LET e == evaluation[c]
        new == PolicyOf(e.stage, e.notified)
    IN /\ e.pc \in {"noted", "synced"}
       /\ notified' = WithColumns(notified, e.notified, new)
       /\ policyUpdates' = IF e.notified # new THEN Append(policyUpdates, e.stage) ELSE policyUpdates
       /\ Settles(c, {"notification", "log"}, IF e.notified # new THEN {"notification", "log"} ELSE {"notification"})
       /\ IF e.pc = "noted"
          THEN Writes(c, [e EXCEPT !.pc = "applied"]) /\ UNCHANGED evaluations
          ELSE \E s \in Stages :       \* the evaluation that ends a remediation
                /\ Writes(c, [NoEvaluation EXCEPT !.pc = "planned", !.stage = s, !.at = evaluations + 1])
                /\ evaluations' = evaluations + 1
       /\ UNCHANGED <<lifecycle, transitions, suppressed>>

\* record_decision, of a decision for the lifecycle.
SuppressionEvents == IF notified.enabled THEN 0 ELSE 1

\* _notification_for_stage: the decision itself is only reported; a stage without messages
\* asks for none.
DecideNotification(c) ==
    /\ evaluation[c].pc = "applied"
    /\ suppressed' \in {suppressed, suppressed + SuppressionEvents}
    /\ evaluation' = [evaluation EXCEPT ![c] = NoEvaluation]
    /\ UNCHANGED <<lifecycle, transitions, notified, policyUpdates, evaluations, unsettled>>

-----------------------------------------------------------------------------
(***************************************************************************)
(* remediate_lifecycle_alert: the current stage is read, and one of the    *)
(* two repairs goes before an evaluation.                                  *)
(***************************************************************************)
Remediate(c) ==
    /\ evaluation[c].pc = "idle"
    /\ lifecycle # NoLifecycle
    /\ evaluations < MaxEvaluations
    /\ evaluations' = evaluations + 1
    /\ \E pc \in {"syncing", "repairing"} :
        evaluation' = [evaluation EXCEPT ![c] =
            [NoEvaluation EXCEPT !.pc = pc, !.stage = lifecycle.stage, !.at = evaluations + 1]]
    /\ UNCHANGED <<lifecycle, transitions, notified, policyUpdates, suppressed, unsettled>>

RepairTransition(c) ==
    LET e == evaluation[c]
    IN /\ e.pc = "loaded"
       /\ transitions' = transitions \cup
            {[from |-> e.loaded.previous, to |-> e.loaded.stage, at |-> e.at, repair |-> TRUE]}
       /\ Settles(c, {"landing"}, {"landing"})
       /\ \E s \in Stages :
            Writes(c, [NoEvaluation EXCEPT !.pc = "planned", !.stage = s, !.at = evaluations + 1])
       /\ evaluations' = evaluations + 1
       /\ UNCHANGED <<lifecycle, notified, policyUpdates, suppressed>>

\* What was committed stays; a stage recorded before may not have reached the notification row.
EvaluationDies(c) ==
    /\ evaluation[c].pc # "idle"
    /\ unsettled' = IF evaluation[c].pc \in {"recorded", "noted"} THEN unsettled \cup {"notification"}
                    ELSE unsettled
    /\ evaluation' = [evaluation EXCEPT ![c] = NoEvaluation]
    /\ UNCHANGED <<lifecycle, transitions, notified, policyUpdates, suppressed, evaluations>>

LifecycleNext ==
    \E c \in Evaluators :
        \/ Evaluate(c) \/ ReadStage(c) \/ RecordStage(c) \/ ReadNotification(c) \/ ApplyPolicy(c)
        \/ DecideNotification(c) \/ Remediate(c) \/ RepairTransition(c) \/ EvaluationDies(c)

LifecycleSpec == LifecycleInit /\ [][LifecycleNext]_lifecycleVars

-----------------------------------------------------------------------------
LifecycleTypeOK ==
    /\ lifecycle \in Lifecycle
    /\ transitions \subseteq Transition
    /\ notified \in Notified
    /\ policyUpdates \in Seq(Stages)
    /\ suppressed \in Nat
    /\ evaluation \in [Evaluators -> Evaluation]
    /\ evaluations \in Nat
    /\ unsettled \subseteq Parts

\* The newest transition, as the operator report and the health signal sort them.
Latest == CHOOSE t \in transitions : \A u \in transitions : u.at <= t.at

\* What the health signal counts as drift.
NotificationDrift == notified.stage # NoStage /\ notified.stage # lifecycle.stage
TransitionDrift == transitions # {} /\ Latest.to # lifecycle.stage

\* The three places that know a user's stage agree.  Evaluations that overlap, or that die
\* between their transactions, break this, and the next evaluation or repair that overlaps
\* none mends it: without them the log leads from the first stage to the row's stage
\* through each transition the row has counted, its newest entry lands there, and the
\* notification row has the stage, with the policy of that stage.  The events tell the row's
\* stage too, but are mended only by an evaluation that finds something to write.
StageAgreesOnceSettled ==
    LET moves == {t \in transitions : ~t.repair}
        pending == {c \in Evaluators : evaluation[c].pc \in {"recorded", "noted"}}
    IN /\ "trail" \notin unsettled =>
            /\ Cardinality(moves) = lifecycle.count
            /\ \A t \in moves : IF \A u \in moves : t.at <= u.at THEN t.from = NoStage
                                ELSE \E u \in moves : u.at < t.at /\ u.to = t.from
       /\ "landing" \notin unsettled /\ transitions # {} => ~TransitionDrift /\ Latest.from = lifecycle.previous
       /\ "notification" \notin unsettled /\ pending = {} /\ notified.stage # NoStage =>
            ~NotificationDrift /\ notified.enabled = (notified.stage \notin QuietStages)
       /\ "log" \notin unsettled /\ notified.stage # NoStage =>
            policyUpdates # <<>> /\ policyUpdates[Len(policyUpdates)] = notified.stage
=============================================================================

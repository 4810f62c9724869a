---------------------------- MODULE HealthSignals ----------------------------
(***************************************************************************)
(* The health signal of one scope of one subsystem.  The nine services do  *)
(* the same with metrics and thresholds of their own: read the data of a   *)
(* week, compute metrics, a status and alerts, write the row of the scope  *)
(* and then tell what has changed since the row before.  Every request     *)
(* that changes the data evaluates, so that evaluations overlap.           *)
(***************************************************************************)
EXTENDS Integers, Sequences, FiniteSets

CONSTANTS
    Checkers,           \* concurrent evaluations
    MaxChecks,          \* bound on them
    MaxDataChanges,     \* bound on changes of the data
    Volumes             \* sizes of the population that the rates are taken of

ASSUME HealthSignalsAssumption ==
    /\ MaxChecks \in Nat /\ MaxDataChanges \in Nat
    /\ Volumes \subseteq Nat \ {0}

VARIABLES
    subject,        \* the subsystem; never changes
    volume,         \* sessions, users, missions, ... ; never changes
    data,           \* the counts that the metrics are computed from
    dataChanges,
    healthRow,      \* the row of the scope
    checker,        \* the evaluations
    checks,
    alarmsOwed,     \* alerts that rose in the row, less the alerts emitted
    turnsOwed,      \* changes of the row's status, less the transitions emitted
    torn            \* two writes of the row have crossed, or a teller died; not in the code

healthSignalsVars == <<subject, volume, data, dataChanges, healthRow, checker, checks, alarmsOwed, turnsOwed, torn>>

Health == {"healthy", "warning", "critical"}
Rank(status) == CASE status = "critical" -> 0 [] status = "warning" -> 1 [] status = "healthy" -> 2

-----------------------------------------------------------------------------
\* The counts of each subsystem and samples of their values: shares of the volume, or a few.
Shares == {0, volume \div 4, volume \div 2, volume}
Few == {0, 1, 5}
ShareCounts(s) ==
    CASE s = "session" -> {"completed", "expired"}
      [] s = "daily" -> {"issued", "completed", "unlocked"}
      [] s = "monetization" -> {"acceptances", "dismissals"}
      [] s = "learning" -> {"updates", "missing", "generic"}
      [] s \in {"content", "template", "templates"} -> {"rejected"}
      [] s = "experiment" -> {"exposures"}
      [] s = "policy" -> {"failed", "sent", "sentBefore", "suppressed"}
      [] s = "lifecycle" -> {"churned", "atRisk"}
      [] s = "recovery" -> {}
FewCounts(s) ==
    CASE s = "session" -> {"stale", "rejections", "drifted"}
      [] s = "daily" -> {"mismatches", "violations"}
      [] s = "monetization" -> {"fatigue", "mismatches"}
      [] s = "learning" -> {"undetected"}
      [] s = "content" -> {"ambiguous", "weak", "target", "answer"}
      [] s = "template" -> {"fixtures", "archived", "draft"}
      [] s = "templates" -> {"activeFailed", "failed", "archivedUse", "inactiveUse"}
      [] s \in {"experiment", "policy"} -> {}
      [] s \in {"lifecycle", "recovery"} -> {"transitions", "suppressed", "mismatches"}
Subjects == {"session", "daily", "monetization", "learning", "content", "template", "templates", "experiment",
             "policy", "lifecycle", "recovery"}
Counts(s) == ShareCounts(s) \cup FewCounts(s)

\* What a healthy week looks like.
Full == {"completed", "issued", "unlocked", "acceptances", "updates", "exposures", "sent", "sentBefore"}
Calm(s) == [k \in Counts(s) |-> IF k \in Full THEN volume ELSE IF k = "transitions" THEN 5 ELSE 0]

-----------------------------------------------------------------------------
\* _metrics: rates in whole percent.
Percent(n) == (n * 100) \div volume
Gap(a, b) == IF a > b THEN a - b ELSE 0

SessionMetrics(c) ==
    [completion |-> Percent(c.completed), expiry |-> Percent(c.expired), stale |-> c.stale,
     rejections |-> c.rejections, drift |-> c.drifted]
DailyMetrics(c) ==
    [coverage |-> Percent(c.issued), completion |-> Percent(c.completed), gap |-> Gap(c.completed, c.unlocked),
     mismatches |-> c.mismatches, violations |-> c.violations]
MonetizationMetrics(c) ==
    [conversion |-> Percent(c.acceptances), dismissal |-> Percent(c.dismissals), fatigue |-> c.fatigue,
     mismatches |-> c.mismatches]
LearningMetrics(c) ==
    [coverage |-> Percent(c.updates), missing |-> Percent(c.missing), generic |-> Percent(c.generic),
     undetected |-> c.undetected]
ContentMetrics(c) ==
    [rejection |-> Percent(c.rejected), ambiguous |-> c.ambiguous, weak |-> c.weak, target |-> c.target,
     answer |-> c.answer]
TemplateMetrics(c) == [rejection |-> Percent(c.rejected), fixtures |-> c.fixtures, archived |-> c.archived,
                       draft |-> c.draft]
TemplatesMetrics(c) == [rejection |-> Percent(c.rejected), activeFailed |-> c.activeFailed, failed |-> c.failed,
                        archivedUse |-> c.archivedUse, inactiveUse |-> c.inactiveUse]
ExperimentMetrics(c) == [coverage |-> Percent(c.exposures), gap |-> Gap(volume, c.exposures)]
PolicyMetrics(c) ==
    [failed |-> Percent(c.failed), outcomes |-> volume + c.suppressed, suppressed |-> (c.suppressed * 100) \div (volume + c.suppressed),
     drop |-> Gap(Percent(c.sentBefore), Percent(c.sent))]
LifecycleMetrics(c) ==
    [churned |-> Percent(c.churned), atRisk |-> Percent(c.atRisk), transitions |-> c.transitions,
     suppressed |-> c.suppressed, mismatches |-> c.mismatches]

Metrics(c) ==
    CASE subject = "session" -> SessionMetrics(c)
      [] subject = "daily" -> DailyMetrics(c)
      [] subject = "monetization" -> MonetizationMetrics(c)
      [] subject = "learning" -> LearningMetrics(c)
      [] subject = "content" -> ContentMetrics(c)
      [] subject = "template" -> TemplateMetrics(c)
      [] subject = "templates" -> TemplatesMetrics(c)
      [] subject = "experiment" -> ExperimentMetrics(c)
      [] subject = "policy" -> PolicyMetrics(c)
      [] subject = "lifecycle" -> LifecycleMetrics(c)
      [] subject = "recovery" -> c

-----------------------------------------------------------------------------
\* The alerts of each _evaluate_health: a condition, or a critical and a warning degree.
Alert(is, code, severity) == IF is THEN {[code |-> code, severity |-> severity]} ELSE {}
Graded(critical, warning, code) ==
    Alert(critical, code, "critical") \cup Alert(warning /\ ~critical, code, "warning")

\* metrics.get(key, 100.0) or 100.0: a rate of zero is read as a hundred.
OrHundred(rate) == IF rate = 0 THEN 100 ELSE rate

SessionAlerts(m) ==
    LET completion == OrHundred(m.completion)
    IN Alert(m.drift > 0, "reference_drift", "critical")
       \cup Alert(m.rejections > 0, "generation_rejections", "critical")
       \cup (IF volume < 20 THEN {} ELSE Graded(completion < 35, completion < 55, "completion_low")
                                         \cup Graded(m.expiry > 35, m.expiry > 20, "expiry_high"))
       \cup Alert(m.stale >= 5, "stale_contracts", "warning")

DailyAlerts(m) ==
    LET coverage == OrHundred(m.coverage)
        completion == OrHundred(m.completion)
    IN Alert(m.mismatches > 0, "reward_mismatch", "critical")
       \cup Graded(volume >= 10 /\ coverage < 75, volume >= 10 /\ coverage < 90, "coverage_low")
       \cup Graded(volume >= 20 /\ completion < 35, volume >= 20 /\ completion < 55, "completion_low")
       \cup Alert(m.gap >= 3, "unlock_gap", "critical")
       \cup Alert(m.violations > 0, "shield_violation", "critical")

MonetizationAlerts(m) ==
    Alert(m.mismatches > 0, "stage_mismatch", "critical")
    \cup Alert(volume >= 25 /\ m.conversion < 3, "conversion_low", "critical")
    \cup Alert(volume >= 25 /\ m.dismissal > 55, "dismissal_high", "warning")
    \cup Alert(volume >= 10 /\ 2 * m.fatigue > 7, "fatigue_high", "warning")

LearningAlerts(m) ==
    LET coverage == OrHundred(m.coverage)
    IN (IF volume < 20 THEN {}
        ELSE Graded(coverage < 30, coverage < 50, "coverage_low")
             \cup Alert(m.missing > 10, "target_missing", "critical")
             \cup Alert(m.generic > 40 /\ ~(m.missing > 10), "target_generic", "warning"))
       \cup Alert(m.undetected > 0, "weak_areas_missing", "warning")

ContentAlerts(m) ==
    (IF volume < 10 THEN {} ELSE Graded(m.rejection >= 15, m.rejection >= 5, "rejection_high"))
    \cup Alert(m.target > 0, "target_failures", "critical") \cup Alert(m.answer > 0, "answer_failures", "critical")
    \cup Alert(m.ambiguous > 0, "ambiguous", "warning") \cup Alert(m.weak > 0, "weak_distractors", "warning")

\* A template is archived, a draft or active.
TemplateAlerts(m) ==
    LET active == m.archived = 0 /\ m.draft = 0
    IN Graded(m.fixtures > 0 /\ active, m.fixtures > 0, "fixture_regression")
       \cup Graded(volume >= 5 /\ m.rejection >= 20, volume >= 3 /\ m.rejection >= 10, "rejection_high")
       \cup Graded(m.archived > 0, ~active, "inactive_overuse")

TemplatesAlerts(m) ==
    Graded(m.activeFailed > 0, m.failed > 0, "fixture_regression")
    \cup Graded(volume >= 10 /\ m.rejection >= 15, volume >= 5 /\ m.rejection >= 5, "rejection_high")
    \cup Graded(m.archivedUse > 0 \/ m.inactiveUse >= 3, m.inactiveUse > 0, "inactive_overuse")

ExperimentAlerts(m) ==
    LET none == m.gap = volume
    IN (IF volume < 5 THEN {}
        ELSE Alert(none, "no_exposures", "critical") \cup Alert(~none /\ m.coverage < 95, "coverage_low", "warning"))
       \cup Alert(m.gap >= 10, "gap_high", "critical")

PolicyAlerts(m) ==
    (IF volume < 25 THEN {} ELSE Alert(m.failed > 8, "failed_high", "critical")
                                 \cup Alert(m.drop > 20, "send_rate_regression", "critical"))
    \cup Alert(m.outcomes >= 25 /\ m.suppressed > 45, "suppression_high", "warning")

LifecycleAlerts(m) ==
    Alert(m.mismatches > 0, "state_drift", "critical")
    \cup (IF volume < 20 THEN {}
          ELSE Alert(m.churned >= 20, "churned_high", "critical")
               \cup Alert(m.atRisk >= 35 /\ m.churned < 20, "at_risk_high", "warning")
               \cup Alert(m.transitions = 0, "flow_stalled", "warning"))
    \cup Alert(m.suppressed > 0, "recovery_blocked", "critical")

\* The scopes of the two recovery stages.
RecoveryAlerts(m) ==
    Alert(m.mismatches > 0, "state_drift", "critical")
    \cup (IF volume < 5 THEN {}
          ELSE Alert(m.suppressed > 0, "recovery_blocked", "critical")
               \cup Alert(m.transitions = 0 /\ m.suppressed = 0, "flow_stalled", "warning"))

Alerts(m) ==
    CASE subject = "session" -> SessionAlerts(m)
      [] subject = "daily" -> DailyAlerts(m)
      [] subject = "monetization" -> MonetizationAlerts(m)
      [] subject = "learning" -> LearningAlerts(m)
      [] subject = "content" -> ContentAlerts(m)
      [] subject = "template" -> TemplateAlerts(m)
      [] subject = "templates" -> TemplatesAlerts(m)
      [] subject = "experiment" -> ExperimentAlerts(m)
      [] subject = "policy" -> PolicyAlerts(m)
      [] subject = "lifecycle" -> LifecycleAlerts(m)
      [] subject = "recovery" -> RecoveryAlerts(m)

\* Slip: an alert of each severity is needed for the worst status.
AllCritical(alerts) ==
    IF alerts = {} THEN "healthy" ELSE IF \A a \in alerts : a.severity = "critical" THEN "critical" ELSE "warning"

StatusOf(alerts) ==
    IF \E a \in alerts : a.severity = "critical" THEN "critical" ELSE IF alerts # {} THEN "warning" ELSE "healthy"

Status(c) == StatusOf(Alerts(Metrics(c)))
Codes(c) == {a.code : a \in Alerts(Metrics(c))}

-----------------------------------------------------------------------------
HealthRow == [status : Health, codes : SUBSET STRING]
NoHealthRow == [status |-> "no row", codes |-> {}]
\* counts: what was read; before: the row that was replaced; crossed: another has written
\* the row since, not in the code.
NoChecker == [pc |-> "idle", counts |-> <<>>, before |-> NoHealthRow, crossed |-> FALSE]

HealthSignalsInit ==
    /\ subject \in Subjects
    /\ volume \in Volumes
    /\ data = Calm(subject)
    /\ dataChanges = 0
    /\ healthRow = NoHealthRow
    /\ checker = [c \in Checkers |-> NoChecker]
    /\ checks = 0
    /\ alarmsOwed = 0 /\ turnsOwed = 0
    /\ torn = FALSE

\* A request of the subsystem changes the data.
DataChanges ==
    /\ dataChanges < MaxDataChanges
    /\ dataChanges' = dataChanges + 1
    /\ \E k \in Counts(subject) :
        \E n \in IF k \in ShareCounts(subject) THEN Shares ELSE Few : data' = [data EXCEPT ![k] = n]
    /\ UNCHANGED <<subject, volume, healthRow, checker, checks, alarmsOwed, turnsOwed, torn>>

\* _metrics reads, in a transaction of its own.
ReadData(c) ==
    /\ checker[c].pc = "idle"
    /\ checks < MaxChecks
    /\ checks' = checks + 1
    /\ checker' = [checker EXCEPT ![c] = [NoChecker EXCEPT !.pc = "read", !.counts = data]]
    /\ UNCHANGED <<subject, volume, data, dataChanges, healthRow, alarmsOwed, turnsOwed, torn>>

\* _persist_state reads the row before ...
ReadRow(c) ==
    /\ checker[c].pc = "read"
    /\ checker' = [checker EXCEPT ![c].pc = "loaded", ![c].before = healthRow]
    /\ UNCHANGED <<subject, volume, data, dataChanges, healthRow, checks, alarmsOwed, turnsOwed, torn>>

\* ... and writes.
NewRow(q) == [status |-> Status(q.counts), codes |-> Codes(q.counts)]
Risen(before, new) == Cardinality(new.codes \ before.codes)
Turned(before, new) == IF before # NoHealthRow /\ before.status # new.status THEN 1 ELSE 0

\* The columns that differ from the row as it was read; all of them where there was no row.
RowWritten(new, before) ==
    IF NoHealthRow \in {before, healthRow} THEN new
    ELSE [status |-> IF new.status = before.status THEN healthRow.status ELSE new.status,
          codes |-> IF new.codes = before.codes THEN healthRow.codes ELSE new.codes]

RowIsWritten(c, w) ==
    LET q == checker[c]
    IN /\ healthRow' = w
       /\ alarmsOwed' = alarmsOwed + Risen(healthRow, w)
       /\ turnsOwed' = turnsOwed + Turned(healthRow, w)
       /\ torn' = (torn \/ q.crossed)
       /\ checker' = [o \in Checkers |->
            IF o = c THEN [q EXCEPT !.pc = "persisted"]
            ELSE IF checker[o].pc = "loaded" THEN [checker[o] EXCEPT !.crossed = TRUE]
            ELSE checker[o]]

\* A row that appeared since the read makes the insert fail.
InsertFails(c) ==
    /\ checker[c].before = NoHealthRow /\ healthRow # NoHealthRow
    /\ checker' = [checker EXCEPT ![c] = NoChecker]
    /\ UNCHANGED <<healthRow, alarmsOwed, turnsOwed, torn>>

\* upsert looks once more: the row that appeared may also be found, and is overwritten.
PersistRow(c) ==
    /\ checker[c].pc = "loaded"
    /\ \/ InsertFails(c)
       \/ RowIsWritten(c, RowWritten(NewRow(checker[c]), checker[c].before))
    /\ UNCHANGED <<subject, volume, data, dataChanges, checks>>

\* _emit_signals: a changed status, and the alerts that the row before did not have.
Emit(c) ==
    LET q == checker[c]
        new == NewRow(q)
    IN /\ q.pc = "persisted"
       /\ alarmsOwed' = alarmsOwed - Risen(q.before, new)
       /\ turnsOwed' = turnsOwed - Turned(q.before, new)
       /\ checker' = [checker EXCEPT ![c] = NoChecker]
       /\ UNCHANGED <<subject, volume, data, dataChanges, healthRow, checks, torn>>

CheckerDies(c) ==
    /\ checker[c].pc # "idle"
    /\ torn' = (torn \/ checker[c].pc = "persisted")
    /\ checker' = [checker EXCEPT ![c] = NoChecker]
    /\ UNCHANGED <<subject, volume, data, dataChanges, healthRow, checks, alarmsOwed, turnsOwed>>

HealthSignalsNext ==
    \/ DataChanges
    \/ \E c \in Checkers : ReadData(c) \/ ReadRow(c) \/ PersistRow(c) \/ Emit(c) \/ CheckerDies(c)

HealthSignalsSpec == HealthSignalsInit /\ [][HealthSignalsNext]_healthSignalsVars

-----------------------------------------------------------------------------
HealthSignalsTypeOK ==
    /\ subject \in Subjects /\ volume \in Volumes
    /\ data \in [Counts(subject) -> Nat]
    /\ dataChanges \in 0 .. MaxDataChanges /\ checks \in 0 .. MaxChecks
    /\ healthRow \in {NoHealthRow} \cup [status : Health, codes : SUBSET healthRow.codes]
    /\ \A c \in Checkers :
        /\ checker[c].pc \in {"idle", "read", "loaded", "persisted"}
        /\ checker[c].pc # "idle" => checker[c].counts \in [Counts(subject) -> Nat]
    /\ alarmsOwed \in Int /\ turnsOwed \in Int
    /\ torn \in BOOLEAN

\* Metrics of which less is worse, and those that are no measure.
LessIsWorse == {"completion", "coverage", "conversion", "transitions"}
Neutral == {"archived", "draft", "outcomes"}
AsBad(new, old) ==
    \A k \in DOMAIN old :
        \/ new[k] = old[k]
        \/ k \notin Neutral /\ (IF k \in LessIsWorse THEN new[k] < old[k] ELSE new[k] > old[k])
RatesOfZero(m) == {k \in DOMAIN m \cap {"completion", "coverage"} : m[k] = 0}

Untold == {c \in Checkers : checker[c].pc = "persisted"}

\* Operators hear what happens.  Metrics that only become worse never make a subsystem look
\* healthier - but for a completion or coverage that falls to zero, which is read as a
\* hundred.  And unless the writes of two evaluations crossed, or one died before it told,
\* each alert that rose in the row, and each change of its status, was told once, no more and
\* no less.
AlarmsAreRaised ==
    [][/\ data' # data /\ AsBad(Metrics(data'), Metrics(data)) /\ RatesOfZero(Metrics(data')) \subseteq RatesOfZero(Metrics(data)) =>
             Rank(Status(data')) <= Rank(Status(data))
       /\ ~torn' /\ Untold' = {} => alarmsOwed' = 0 /\ turnsOwed' = 0]_healthSignalsVars
=============================================================================

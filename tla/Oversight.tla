------------------------------- MODULE Oversight -------------------------------
(***************************************************************************)
(* What operators see of one user, and what they may repair: the reports   *)
(* on decision traces, the drift counts of the health checks, and the      *)
(* remediations.  The requests that they look at write in several          *)
(* transactions; the reports and checks read in several statements.        *)
(* Apart from four columns all of it is appended: `journal` holds the rows *)
(* of every appended table in the order of their commits.                  *)
(***************************************************************************)
EXTENDS Integers, Sequences, FiniteSets

CONSTANTS
    Traced,         \* concurrent requests
    LifeStages,     \* the lifecycle stages that may be chosen, for each domain
    Window,         \* traces that a report reads, newest first
    MaxTraced,      \* bound: requests, for each domain
    MaxReviews      \* bound: reports, checks and repairs

ASSUME OversightAssumption ==
    /\ LifeStages \in [{"lifecycle", "monetization", "notification", "daily", "session"} -> SUBSET (Nat \ {0})]
    /\ \A d \in DOMAIN LifeStages : LifeStages[d] # {}
    /\ Window \in Nat \ {0}
    /\ MaxTraced \in [{"lifecycle", "monetization", "notification", "daily", "session"} -> Nat] /\ MaxReviews \in Nat

VARIABLES
    domain,         \* what this behaviour is about; never changes
    journal,        \* the appended rows
    columns,        \* the columns that are overwritten
    aged,           \* the first `aged` rows are older than the seven days of the checks
    tracing,        \* for each request the writes it has yet to commit
    review,         \* the operator's report, check or repair
    begun, reviews,    \* requests and reviews so far
    crossed         \* two requests, or a request and a repair, overlapped, or a request died between its commits

oversightVars == <<domain, journal, columns, aged, tracing, review, begun, reviews, crossed>>

Domains == {"lifecycle", "monetization", "notification", "daily", "session"}
Nothing == 0
Engaged == 3        \* the third of the five stages
ByLifecycle == 1    \* "lifecycle:<user>"
ByUser == 2         \* "notification:<user>", which stands in for no reference
TraceKinds == {"lifecycle_decision", "monetization_decision", "notification_selection",
               "reward_chest_resolution", "session_evaluation"}
EntryKinds == TraceKinds \cup {"transition", "delivery", "mission", "chest", "session", "attempt", "rejection"}
\* `ref` is a stage, a reference, a chest, a mission or a session; `at` is a
\* transition's created_at; of the others only the order matters.
Entry == [kind : EntryKinds, ref : Nat, at : Nat]
ColumnNames == {"stage", "noticeStage", "noticeRef", "offerStage", "offerRow"}
Columns == [ColumnNames -> Nat]
\* `seen` is the row's stage that the request has read, and `at` when.
Write == [to : EntryKinds \cup ColumnNames, ref : Nat, at : Nat, seen : Nat]
Reviewing == [pc : {"idle", "reading", "repairing", "done"}, what : {"report", "check"},
              traces : Nat, rows : Columns, since : Nat, plan : Seq(Write), repaired : STRING,
              found : SUBSET STRING, overlapped : BOOLEAN]

NoColumns == [c \in ColumnNames |-> Nothing]
NoReview == [pc |-> "idle", what |-> "report", traces |-> 0, rows |-> NoColumns, since |-> 0,
             plan |-> <<>>, repaired |-> "nothing", found |-> {}, overlapped |-> FALSE]

\* A user who was never evaluated, or, where overlapping evaluations matter, once.
FirstStage == CHOOSE s \in LifeStages["lifecycle"] : TRUE

OversightInit ==
    /\ domain \in Domains
    /\ IF domain = "lifecycle"
       THEN /\ journal = <<[kind |-> "transition", ref |-> FirstStage, at |-> 0]>>
            /\ columns = [NoColumns EXCEPT !.stage = FirstStage, !.noticeStage = FirstStage]
       ELSE journal = <<>> /\ columns = NoColumns
    /\ aged = 0
    /\ tracing = [c \in Traced |-> <<>>]
    /\ review = NoReview
    /\ begun = 0 /\ reviews = 0
    /\ crossed = FALSE

-----------------------------------------------------------------------------
\* Reading a table: the indices of the rows of a kind among the first n of the journal.
RowsOf(kind, n) == {i \in 1 .. n : journal[i].kind = kind}
Sorts(i, j) == journal[i].at < journal[j].at \/ (journal[i].at = journal[j].at /\ i <= j)
Newest(S) == CHOOSE i \in S : \A j \in S : Sorts(j, i)
NewestRef(kind, n) == IF RowsOf(kind, n) = {} THEN Nothing ELSE journal[Newest(RowsOf(kind, n))].ref
Now == Len(journal)
Clock == begun + reviews

(***************************************************************************)
(* What requests write, commit by commit.                                  *)
(***************************************************************************)
To(t, r) == [to |-> t, ref |-> r, at |-> 0, seen |-> 0]

\* Reads the row; its time is after all that has begun.
ToStage(s) == [to |-> "stage", ref |-> s, at |-> Clock + 1, seen |-> columns.stage]

\* Nothing that is raised in this domain depends on the other writes.
Watched ==
    CASE domain = "lifecycle" -> {"stage", "noticeStage", "transition"}
      [] domain = "monetization" ->
            {"offerRow", "stage", "lifecycle_decision", "monetization_decision", "offerStage"}
      [] OTHER -> {"stage", "noticeStage", "noticeRef", "notification_selection", "lifecycle_decision", "delivery"}

Kept(w) == IF w.to \in Watched THEN <<w>> ELSE <<>>

\* A missing reference leaves the row's as it is and is traced as the user's.
SelectionPlan(ref) ==
    Kept(To("noticeRef", ref)) \o Kept(To("notification_selection", IF ref = Nothing THEN ByUser ELSE ref))

\* No notification is selected for a user who is engaged.
StageSelection(s) == IF s = Engaged THEN <<>> ELSE SelectionPlan(ByLifecycle)

\* The paywall is asked first, which creates the row of offers.
EvaluationPlan(s) ==
    Kept(To("offerRow", 1)) \o Kept(ToStage(s)) \o Kept(To("noticeStage", s)) \o StageSelection(s)
    \o Kept(To("lifecycle_decision", s))

MonetizationPlan(s) ==
    EvaluationPlan(s) \o Kept(To("monetization_decision", s)) \o Kept(To("offerStage", s))

\* The retention processor gives no reference.
ReminderPlan == SelectionPlan(Nothing) \o Kept(To("delivery", Nothing)) \o Kept(To("noticeRef", Nothing))

\* Today's mission: it is issued with its chest, completed and claimed; only the claim is
\* traced with the chest's number.
DailyPlans ==
    LET today == NewestRef("mission", Now)
        resolved == {i \in RowsOf("reward_chest_resolution", Now) : i > Newest(RowsOf("mission", Now))}
    IN {<<To("mission", today + 1)>>}
       \cup (IF today # Nothing /\ resolved = {} THEN {<<To("reward_chest_resolution", Nothing)>>} ELSE {})
       \cup (IF today # Nothing /\ resolved # {} /\ journal[Newest(resolved)].ref = Nothing
             THEN {<<To("reward_chest_resolution", today)>>} ELSE {})

\* A session is started; a submission is stored and traced, or refused.
SessionPlans ==
    {<<To("session", NewestRef("session", Now) + 1)>>}
    \cup {<<To("attempt", s), To("session_evaluation", s)>> : s \in 1 .. NewestRef("session", Now)}
    \cup {<<To("rejection", s)>> : s \in 1 .. NewestRef("session", Now)}

Plans ==
    LET evaluated == {EvaluationPlan(s) : s \in LifeStages[domain]} IN
    CASE domain = "lifecycle" -> evaluated
      [] domain = "monetization" -> evaluated \cup {MonetizationPlan(s) : s \in LifeStages[domain]}
      [] domain = "notification" -> evaluated \cup {ReminderPlan}
      [] domain = "daily" -> DailyPlans
      [] domain = "session" -> SessionPlans

UnderWay(c) == tracing[c] # <<>>
Reviewed == review.pc \in {"reading", "repairing"}

BeginTraced(c) ==
    /\ ~UnderWay(c)
    /\ begun < MaxTraced[domain]
    /\ begun' = begun + 1
    /\ \E p \in Plans : tracing' = [tracing EXCEPT ![c] = p]
    /\ crossed' = (crossed \/ review.pc = "repairing" \/ \E o \in Traced : UnderWay(o))
    /\ review' = [review EXCEPT !.overlapped = @ \/ Reviewed]
    /\ UNCHANGED <<domain, journal, columns, aged, reviews>>

\* The rows that a write appends: a stage only if it was another, a mission with its chest.
Appended(w) ==
    LET row(kind) == [kind |-> kind, ref |-> w.ref, at |-> w.at] IN
    CASE w.to = "stage" -> IF w.seen = w.ref THEN <<>> ELSE <<row("transition")>>
      [] w.to = "mission" -> <<row("mission"), row("chest")>>
      [] w.to \in ColumnNames \ {"stage"} -> <<>>
      [] OTHER -> <<row(w.to)>>

\* Slip: a row that exists is left as it is.
InsertedOnly(w) ==
    IF w.to \in ColumnNames /\ columns[w.to] = Nothing THEN [columns EXCEPT ![w.to] = w.ref] ELSE columns

Overwritten(w) ==
    IF w.to \in ColumnNames /\ ~(w.to = "noticeRef" /\ w.ref = Nothing) /\ ~(w.to = "stage" /\ w.seen = w.ref)
    THEN [columns EXCEPT ![w.to] = w.ref] ELSE columns

Commits(w) ==
    /\ journal' = journal \o Appended(w)
    /\ columns' = Overwritten(w)

\* A second insert of the lifecycle row fails.
Inserts(w) == w.to = "stage" /\ w.seen = Nothing

Trace(c) ==
    /\ UnderWay(c)
    /\ Inserts(Head(tracing[c])) => columns.stage = Nothing
    /\ Commits(Head(tracing[c]))
    /\ tracing' = [tracing EXCEPT ![c] = Tail(@)]
    /\ review' = [review EXCEPT !.overlapped = @ \/ Reviewed]
    /\ UNCHANGED <<domain, aged, begun, reviews, crossed>>

TracedDies(c) ==
    /\ UnderWay(c)
    /\ tracing' = [tracing EXCEPT ![c] = <<>>]
    /\ crossed' = TRUE
    /\ review' = [review EXCEPT !.overlapped = @ \/ Reviewed]
    /\ UNCHANGED <<domain, journal, columns, aged, begun, reviews>>

\* A row becomes older than seven days.
GrowOld ==
    /\ domain = "session"
    /\ aged < Now
    /\ aged' = aged + 1
    /\ UNCHANGED <<domain, journal, columns, tracing, review, begun, reviews, crossed>>

-----------------------------------------------------------------------------
(***************************************************************************)
(* What a report raises from the first n rows of the traces, the columns r *)
(* that it read with them, and the tables that it reads last.              *)
(***************************************************************************)
Traces(n) ==
    {i \in 1 .. n : journal[i].kind \in TraceKinds
                    /\ Cardinality({j \in i .. n : journal[j].kind \in TraceKinds}) <= Window}

\* Of the traces that it shows in ascending order a report takes the first of a kind.
Compared(kind, n) == {i \in Traces(n) : journal[i].kind = kind /\ \A j \in Traces(n) : journal[j].kind = kind => i <= j}

\* Attempts, traces and rejections are looked up by the session that is reported.
SessionIssues(n) ==
    LET s == NewestRef("session", n)
        of(kind) == {i \in RowsOf(kind, Now) : journal[i].ref = s}
        strays(kind) == of(kind) # {} /\ journal[Newest(of(kind))].ref # s
    IN {c \in {"session_attempt_reference_mismatch"} : strays("attempt")}
       \cup {c \in {"session_evaluation_reference_mismatch"} : strays("session_evaluation")}
       \cup {c \in {"session_rejection_reference_mismatch"} : strays("rejection")}

LifecycleIssues(r) ==
    {c \in {"lifecycle_transition_stage_mismatch"} : NewestRef("transition", Now) \notin {Nothing, r.stage}}

\* The stage of the latest decision; without one, the row's.
ShownStage(r, n) ==
    LET decided == {i \in Traces(n) : journal[i].kind = "lifecycle_decision"} IN
    IF decided # {} THEN journal[Newest(decided)].ref
    ELSE IF r.stage # Nothing THEN r.stage ELSE CHOOSE s \in LifeStages[domain] : TRUE

MonetizationIssues(r, n) ==
    {c \in {"monetization_lifecycle_stage_mismatch"} : r.offerRow = 1 /\ r.offerStage # ShownStage(r, n)}
    \cup {c \in {"monetization_timeline_mismatch"} :
            \E i \in Compared("lifecycle_decision", n), j \in Compared("monetization_decision", n) : j < i}

DailyIssues(n) ==
    LET chest == NewestRef("chest", Now) IN
    {c \in {"daily_loop_reward_mission_mismatch"} : chest # Nothing /\ chest # NewestRef("mission", Now)}
    \cup {c \in {"daily_loop_reward_trace_mismatch"} :
            chest # Nothing /\ \E i \in Compared("reward_chest_resolution", n) : journal[i].ref \notin {Nothing, chest}}

NotificationIssues(r, n) ==
    {c \in {"notification_lifecycle_alignment_mismatch"} : r.stage # r.noticeStage}
    \cup {c \in {"notification_reference_mismatch"} :
            \E i \in Compared("notification_selection", n) : r.noticeRef \notin {Nothing, journal[i].ref}}
    \cup {c \in {"notification_delivery_reference_mismatch"} :
            \E i \in Compared("notification_selection", n) :
                NewestRef("delivery", Now) \notin {Nothing, journal[i].ref}}

Issues(r, n) ==
    CASE domain = "session" -> SessionIssues(n)
      [] domain = "lifecycle" -> LifecycleIssues(r)
      [] domain = "monetization" -> MonetizationIssues(r, n)
      [] domain = "daily" -> DailyIssues(n)
      [] domain = "notification" -> NotificationIssues(r, n)

(***************************************************************************)
(* What a health check counts as drift, over rows younger than `since`,    *)
(* when the first table was read after n rows and the last is read now.    *)
(***************************************************************************)
SessionDrift(n, since) ==
    LET known == {journal[i].ref : i \in {k \in RowsOf("session", n) : k > since}}
        strays(kind) == \E i \in RowsOf(kind, Now) : i > since /\ journal[i].ref \notin known
    IN {c \in {"attempt_reference_mismatches"} : strays("attempt")}
       \cup {c \in {"evaluation_reference_mismatches"} : strays("session_evaluation")}

LifecycleDrift(r, since) ==
    LET recent == {i \in RowsOf("transition", Now) : i > since} IN
    {c \in {"notification_stage_mismatches"} :
        r.stage # Nothing /\ columns.noticeStage \notin {Nothing, r.stage}}
    \cup {c \in {"transition_stage_mismatches"} :
        r.stage # Nothing /\ recent # {} /\ journal[Newest(recent)].ref # r.stage}

MonetizationDrift(r) ==
    {c \in {"lifecycle_stage_mismatches"} : r.offerRow = 1 /\ columns.stage # Nothing /\ r.offerStage # columns.stage}

DailyDrift(n) ==
    {c \in {"reward_mission_mismatches"} :
        {journal[i].ref : i \in RowsOf("chest", Now)} \ {journal[i].ref : i \in RowsOf("mission", n)} # {}}

Drift(r, n, since) ==
    CASE domain = "session" -> SessionDrift(n, since)
      [] domain = "lifecycle" -> LifecycleDrift(r, since)
      [] domain = "monetization" -> MonetizationDrift(r)
      [] domain = "daily" -> DailyDrift(n)
      [] OTHER -> {}

-----------------------------------------------------------------------------
Busied == \E c \in Traced : UnderWay(c)

\* The first statements of a report or check.
Read(r, what) ==
    review' = [r EXCEPT !.pc = "reading", !.what = what, !.traces = Now, !.rows = columns, !.since = aged]

StartReview ==
    /\ ~Reviewed
    /\ reviews < MaxReviews
    /\ reviews' = reviews + 1
    /\ \E what \in {"report", "check"} : Read([NoReview EXCEPT !.overlapped = Busied], what)
    /\ UNCHANGED <<domain, journal, columns, aged, tracing, begun, crossed>>

\* Its last statements, and the verdict.
EndReview ==
    /\ review.pc = "reading"
    /\ review' = [review EXCEPT !.pc = "done",
                    !.found = IF review.what = "report" THEN Issues(review.rows, review.traces)
                              ELSE Drift(review.rows, review.traces, review.since)]
    /\ UNCHANGED <<domain, journal, columns, aged, tracing, begun, reviews, crossed>>

\* The repairs that the dashboards list for the drift they show.
OfferedForSession == {a \in {"session_reference"} : SessionDrift(Now, aged) # {}}

OfferedForLifecycle ==
    {a \in {"notification_state"} : columns.stage # columns.noticeStage}
    \cup {a \in {"lifecycle_transition"} : NewestRef("transition", Now) \notin {Nothing, columns.stage}}

OfferedForMonetization == {a \in {"monetization_state"} : columns.offerRow = 1 /\ columns.offerStage # columns.stage}

Offered ==
    CASE domain = "session" -> OfferedForSession
      [] domain = "lifecycle" -> OfferedForLifecycle
      [] domain = "monetization" -> OfferedForMonetization
      [] OTHER -> {}

\* The session that the attempt or trace names is found, with the same owner: nothing is written.
SessionRepair == <<>>

\* The lifecycle is evaluated again once what was asked for is repaired.
RepairPlans(a) ==
    CASE a = "notification_state" ->
            {<<To("noticeStage", columns.stage)>> \o EvaluationPlan(s) : s \in LifeStages[domain]}
      [] a = "lifecycle_transition" ->
            {<<To("transition", Nothing)>> \o EvaluationPlan(s) : s \in LifeStages[domain]}
      [] a = "monetization_state" -> {<<To("offerStage", columns.stage)>>}
      [] OTHER -> {SessionRepair}

StartRepair ==
    /\ ~Reviewed
    /\ reviews < MaxReviews
    /\ columns.stage # Nothing \/ domain = "session"
    /\ reviews' = reviews + 1
    /\ \E a \in Offered : \E p \in RepairPlans(a) :
        review' = [NoReview EXCEPT !.pc = "repairing", !.repaired = a, !.plan = p, !.overlapped = Busied]
    /\ crossed' = (crossed \/ Busied)
    /\ UNCHANGED <<domain, journal, columns, aged, tracing, begun>>

\* Slip: the transition is repaired from the history that disagrees with the row.
RepairingFromHistory(w) ==
    IF w.to = "transition" THEN [w EXCEPT !.ref = NewestRef("transition", Now), !.at = Clock] ELSE w

\* A repaired transition lands on the stage of the row.
Repairing(w) == IF w.to = "transition" THEN [w EXCEPT !.ref = columns.stage, !.at = Clock] ELSE w

Repair ==
    /\ review.pc = "repairing" /\ review.plan # <<>>
    /\ Commits(Repairing(Head(review.plan)))
    /\ review' = [review EXCEPT !.plan = Tail(@)]
    /\ UNCHANGED <<domain, aged, tracing, begun, reviews, crossed>>

CheckRepair ==
    /\ review.pc = "repairing" /\ review.plan = <<>>
    /\ Read(review, "check")
    /\ UNCHANGED <<domain, journal, columns, aged, tracing, begun, reviews, crossed>>

OversightNext ==
    \/ GrowOld \/ StartReview \/ EndReview \/ StartRepair \/ Repair \/ CheckRepair
    \/ \E c \in Traced : BeginTraced(c) \/ Trace(c) \/ TracedDies(c)

OversightSpec == OversightInit /\ [][OversightNext]_oversightVars

-----------------------------------------------------------------------------
OversightTypeOK ==
    /\ domain \in Domains
    /\ journal \in Seq(Entry)
    /\ columns \in Columns
    /\ aged \in 0 .. Len(journal)
    /\ tracing \in [Traced -> Seq(Write)]
    /\ review.pc \in {"idle", "reading", "repairing", "done"} /\ review.rows \in Columns
    /\ begun \in 0 .. MaxTraced[domain] /\ reviews \in 0 .. MaxReviews
    /\ crossed \in BOOLEAN

\* The harmless or real reasons for which a report or check that no request overlaps may
\* raise a code: without one of them the rows that it compares do agree.
Cause(code, since) ==
    LET traces == {i \in 1 .. Now : journal[i].kind \in TraceKinds} IN
    CASE code \in {"monetization_lifecycle_stage_mismatch", "lifecycle_stage_mismatches"} ->
            \A i \in RowsOf("monetization_decision", Now) : \E j \in RowsOf("lifecycle_decision", Now) : j > i
      [] code \in {"monetization_timeline_mismatch", "daily_loop_reward_trace_mismatch"} ->
            Cardinality(traces) > Window
      [] code = "notification_reference_mismatch" ->
            \E i \in RowsOf("notification_selection", Now) : journal[i].ref = ByUser
      [] code \in {"attempt_reference_mismatches", "evaluation_reference_mismatches"} ->
            \E i \in RowsOf("session", since) : \E j \in RowsOf("attempt", Now) \cup RowsOf("session_evaluation", Now) :
                j > since /\ journal[j].ref = journal[i].ref
      [] OTHER -> FALSE

NeverRaised ==
    {"session_attempt_reference_mismatch", "session_evaluation_reference_mismatch",
     "session_rejection_reference_mismatch",
     "notification_delivery_reference_mismatch"}

Concludes == review.pc = "reading" /\ review'.pc = "done"

\* A report or check that overlapped no request, of a user none of whose requests and
\* repairs ever overlapped or died, raises nothing without a cause; and four of the reports' codes are
\* raised by no interleaving at all, since the rows they compare are looked up by the very
\* reference they are compared with.
AlarmsNeedCause ==
    [][Concludes =>
        /\ review'.found \cap NeverRaised = {}
        /\ ~review.overlapped /\ ~crossed => \A code \in review'.found : Cause(code, review.since)]_oversightVars

\* A repair that no request overlaps ends the drift that it was asked to end, however the
\* drift arose, and its own evaluation of the lifecycle brings none back.
RepairSettles ==
    [][Concludes /\ review.what = "check" /\ ~review.overlapped =>
        CASE review.repaired = "notification_state" -> "notification_stage_mismatches" \notin review'.found
          [] review.repaired = "lifecycle_transition" -> "transition_stage_mismatches" \notin review'.found
          [] review.repaired = "monetization_state" -> review'.found = {}
          [] OTHER -> TRUE]_oversightVars
=============================================================================

--------------------------- MODULE Personalization ---------------------------
(***************************************************************************)
(* What the profile of one user learns from learning events.  A request    *)
(* that records an event renews the profile's time with the activity, and  *)
(* then computes a new profile from the events since that time, which it   *)
(* writes back whole.  Sessions record events without computing anything,  *)
(* and the onboarding writes the difficulty that the user has chosen.      *)
(* Rates are in thousandths, rounded down.                                 *)
(***************************************************************************)
EXTENDS Integers, Sequences, FiniteSets

CONSTANTS
    Tellers,            \* concurrent requests
    Qualities,          \* of reviews, 0 to 5
    MaxTellings,        \* bound: requests
    MaxSessionReviews,  \* bound: reviews that sessions record
    MaxChoices          \* bound: times that the onboarding writes its choice

ASSUME PersonalizationAssumption ==
    /\ Qualities \subseteq 0 .. 5
    /\ MaxTellings \in Nat /\ MaxSessionReviews \in Nat /\ MaxChoices \in Nat

VARIABLES
    userProfile,    \* the row of user_profiles
    signals,        \* learning events of the user, oldest first
    teller,         \* the requests
    tellings,       \* requests so far
    sessionReviews, \* reviews of sessions so far
    choices,        \* choices so far
    choice,         \* what was chosen, while it must stand; not in the code, see TaughtOnce
    counted,        \* not in the code: the updates that have used a signal
    contested       \* not in the code: signals that two updates have listed side by side

personalizationVars ==
    <<userProfile, signals, teller, tellings, sessionReviews, choices, choice, counted, contested>>

Difficulties == {"easy", "medium", "hard"}
Contents == {"mixed", "vocab", "grammar", "conversation", "intended"}     \* "intended": the user's own word

Slowest == 750
Fastest == 1600
Speeds == Slowest .. Fastest
Weakest == 300
Strongest == 1000
Retentions == Weakest .. Strongest

\* upTo stands for updated_at: the number of signals that are older.  No two times are equal.
UserProfile == [speed : Speeds, retention : Retentions, difficulty : Difficulties, content : Contents, upTo : Nat]
NewUserProfile == [speed |-> 1000, retention |-> 800, difficulty |-> "medium", content |-> "mixed", upTo |-> 0]

Signal == [kind : {"reviewed", "learned", "turn"}, quality : Qualities \cup {0}]
Signals == {s \in Signal : s.kind = "reviewed" \/ s.quality = 0}

\* chose: a choice was written since the profile was read.
Teller == [pc : {"idle", "recorded", "active", "profiled", "listed"}, read : UserProfile, listed : SUBSET Nat, chose : BOOLEAN]
NoTeller == [pc |-> "idle", read |-> NewUserProfile, listed |-> {}, chose |-> FALSE]

PersonalizationInit ==
    /\ userProfile = NewUserProfile
    /\ signals = <<>>
    /\ teller = [t \in Tellers |-> NoTeller]
    /\ tellings = 0 /\ sessionReviews = 0 /\ choices = 0
    /\ choice = "none"
    /\ counted = <<>> /\ contested = {}

-----------------------------------------------------------------------------
Appended(s) ==
    /\ signals' = Append(signals, s)
    /\ counted' = Append(counted, 0)

\* learning_events.record commits at once, whatever becomes of the request.
RecordSignal(t) ==
    /\ teller[t].pc = "idle" /\ tellings < MaxTellings
    /\ tellings' = tellings + 1
    /\ \E s \in Signals : Appended(s)
    /\ teller' = [teller EXCEPT ![t].pc = "recorded"]
    /\ UNCHANGED <<userProfile, sessionReviews, choices, choice, contested>>

RecordFromSession ==
    /\ sessionReviews < MaxSessionReviews
    /\ sessionReviews' = sessionReviews + 1
    /\ \E q \in Qualities : Appended([kind |-> "reviewed", quality |-> q])
    /\ UNCHANGED <<userProfile, teller, tellings, choices, choice, contested>>

\* Slip: the time of the row stays.
NotRenewed(p) == p

\* Every update of the row renews its time.
Renewed(p) == [p EXCEPT !.upTo = Len(signals)]

\* record_activity of the retention processor, which comes before the personalization's.
RenewActivity(t) ==
    /\ teller[t].pc = "recorded"
    /\ userProfile' = Renewed(userProfile)
    /\ teller' = [teller EXCEPT ![t].pc = "active"]
    /\ UNCHANGED <<signals, tellings, sessionReviews, choices, choice, counted, contested>>

ReadUserProfile(t) ==
    /\ teller[t].pc = "active"
    /\ teller' = [teller EXCEPT ![t] = [NoTeller EXCEPT !.pc = "profiled", !.read = userProfile]]
    /\ UNCHANGED <<userProfile, signals, tellings, sessionReviews, choices, choice, counted, contested>>

ListSignals(t) ==
    LET q == teller[t]  new == {i \in 1 .. Len(signals) : i > q.read.upTo} IN
    /\ q.pc = "profiled"
    /\ teller' = [teller EXCEPT ![t].pc = "listed", ![t].listed = new]
    /\ UNCHANGED <<userProfile, signals, tellings, sessionReviews, choices, choice, counted, contested>>

-----------------------------------------------------------------------------
OfKind(new, k) == {i \in new : signals[i].kind = k}

\* Slip: the bounds are left out.
Unbounded(low, x, high) == x

Between(low, x, high) == IF x < low THEN low ELSE IF x > high THEN high ELSE x

\* A quality of n counts as n points.
Points(reviews) == Cardinality({p \in reviews \X (1 .. 5) : p[2] <= signals[p[1]].quality})

RetentionFrom(p, reviews) ==
    IF reviews = {} THEN p.retention
    ELSE Between(Weakest, (1000 * Points(reviews)) \div (5 * Cardinality(reviews)), Strongest)

SpeedFrom(p, learned, turns) ==
    LET pace == 800 + 100 * Cardinality(learned) + 50 * Cardinality(turns) IN
    IF learned \cup turns = {} THEN p.speed
    ELSE Between(Slowest, (9 * p.speed + Between(0, pace, Fastest)) \div 10, Fastest)

\* _infer_content_preference: top is the category of the user's most frequent mistake.
ContentFrom(p, top, reviews, learned, turns) ==
    LET r == Cardinality(reviews)  l == Cardinality(learned)  n == Cardinality(turns) IN
    CASE top = "grammar" -> "grammar"
      [] top = "vocabulary" -> "vocab"
      [] OTHER -> IF n > l /\ n > r THEN "conversation" ELSE IF r > l THEN "vocab" ELSE p.content

Poor(retention, speed) == retention < 550 \/ speed < 900

\* _infer_difficulty_preference
DifficultyFrom(p, retention, speed) ==
    IF Poor(retention, speed) THEN "easy"
    ELSE IF retention > 850 /\ speed > 1150 THEN "hard"
    ELSE IF p.difficulty = "hard" THEN "hard" ELSE "medium"

Taught(p, new, top) ==
    LET reviews == OfKind(new, "reviewed")
        learned == OfKind(new, "learned")
        turns == OfKind(new, "turn")
        retention == RetentionFrom(p, reviews)
        speed == SpeedFrom(p, learned, turns)
    IN [speed |-> speed, retention |-> retention, difficulty |-> DifficultyFrom(p, retention, speed),
        content |-> ContentFrom(p, top, reviews, learned, turns), upTo |-> p.upTo]

WriteUserProfile(t) ==
    LET q == teller[t] IN
    /\ q.pc = "listed"
    /\ \E top \in {"none", "grammar", "vocabulary"} : userProfile' = Renewed(Taught(q.read, q.listed, top))
    /\ counted' = [i \in DOMAIN counted |-> counted[i] + (IF i \in q.listed THEN 1 ELSE 0)]
    /\ contested' = contested \cup
        (q.listed \cap UNION {teller[u].listed \cup {i \in 1 .. Len(signals) : teller[u].pc = "profiled" /\ i > teller[u].read.upTo} :
                              u \in Tellers \ {t}})
    /\ choice' = IF q.chose \/ Poor(userProfile'.retention, userProfile'.speed) THEN "none" ELSE choice
    /\ teller' = [teller EXCEPT ![t] = NoTeller]
    /\ UNCHANGED <<signals, tellings, sessionReviews, choices>>

TellerFails(t) ==
    /\ teller[t].pc # "idle"
    /\ teller' = [teller EXCEPT ![t] = NoTeller]
    /\ UNCHANGED <<userProfile, signals, tellings, sessionReviews, choices, choice, counted, contested>>

\* _persist_preferences of the onboarding.
PersistPreferences ==
    /\ choices < MaxChoices
    /\ choices' = choices + 1
    /\ \E d \in Difficulties :
        /\ userProfile' = Renewed([userProfile EXCEPT !.difficulty = d, !.content = "intended"])
        /\ choice' = d
    /\ teller' = [t \in Tellers |-> [teller[t] EXCEPT !.chose = @ \/ teller[t].pc \in {"profiled", "listed"}]]
    /\ UNCHANGED <<signals, tellings, sessionReviews, counted, contested>>

PersonalizationNext ==
    \/ RecordFromSession \/ PersistPreferences
    \/ \E t \in Tellers :
        RecordSignal(t) \/ RenewActivity(t) \/ ReadUserProfile(t) \/ ListSignals(t) \/ WriteUserProfile(t) \/ TellerFails(t)

PersonalizationSpec == PersonalizationInit /\ [][PersonalizationNext]_personalizationVars

-----------------------------------------------------------------------------
PersonalizationTypeOK ==
    /\ userProfile \in UserProfile
    /\ signals \in Seq(Signals)
    /\ teller \in [Tellers -> Teller]
    /\ tellings \in 0 .. MaxTellings /\ sessionReviews \in 0 .. MaxSessionReviews /\ choices \in 0 .. MaxChoices
    /\ choice \in Difficulties \cup {"none"}
    /\ counted \in Seq(Nat) /\ Len(counted) = Len(signals)
    /\ contested \subseteq 1 .. Len(signals)

\* A signal changes the profile at most once, though neither the signals nor the profile say
\* which were used: only two updates that had both read the profile before either wrote it use
\* it twice.  And a user who has chosen hard lessons gets them until results are poor; only an
\* update that had read the profile before the choice undoes it.
TaughtOnce ==
    /\ \A i \in 1 .. Len(signals) : counted[i] <= 1 \/ i \in contested
    /\ choice = "hard" => userProfile.difficulty = "hard"
=============================================================================

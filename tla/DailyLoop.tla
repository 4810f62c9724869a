------------------------------ MODULE DailyLoop ------------------------------
(***************************************************************************)
(* The daily loop of one user: the mission of a UTC day and its reward     *)
(* chest, the weekly skip shield, and the streak that record_activity      *)
(* keeps.  Requests run concurrently; a read and the write that uses it    *)
(* are two steps, and a transaction's writes appear at its commit.  The    *)
(* projection of learning sessions (module LearningSession) appears as the *)
(* other writer of the engagement and progress rows.                       *)
(***************************************************************************)
EXTENDS Integers

CONSTANTS
    DailyClients,   \* concurrent requests
    LastDay,        \* bound: the days are 1 .. LastDay
    Week,           \* days until a used shield is available again; 7 in the code
    MaxDaily        \* bound: requests

ASSUME DailyAssumption ==
    /\ LastDay \in Nat \ {0}
    /\ Week \in Nat \ {0}
    /\ MaxDaily \in Nat

VARIABLES
    day,            \* the UTC date
    mission,        \* daily_missions.status of each day, "none" without a row
    chest,          \* reward_chests.status of each day's mission
    profile,        \* last_active_at and current_streak of user_profiles
    engagement,     \* shields_used_this_week and updated_at of user_engagement_states
    xp,             \* how often user_progress_states.xp counts each day's reward
    dailyReq,       \* the requests
    dailySent,      \* requests so far
    session,        \* the xp the session projection has read and not written yet, if any
    active,         \* days with a committed record_activity
    shieldUses,     \* skip shields applied on each day
    claims,         \* claims of each day's chest that took effect
    dailyRaced      \* what two overlapping requests have read and written: see Races

rows == <<mission, chest, xp>>
streaks == <<profile, active>>
shields == <<engagement, shieldUses>>
dailyVars == <<day, rows, streaks, shields, claims, dailyReq, dailySent, session, dailyRaced>>

Days == 1 .. LastDay
Missions == {"none", "issued", "completed"}
Chests == {"none", "locked", "unlocked", "claimed"}
Profile == [last : 0 .. LastDay, streak : Nat]      \* last = 0: never active
Engagement == [shields : Nat, at : Days]
Xp == [Days -> Nat]
NoXp == [d \in Days |-> 0]
Races == {"streak", "shield", "xp"}

\* The last step of a request.  "timed" to "marked" are complete_daily_mission.
DailySteps == {"idle", "absent", "timed", "profiled", "recorded", "found", "marked", "counted",
               "claiming", "shielding"}
DailyRequest == [pc : DailySteps, date : 0 .. LastDay, profile : Profile, xp : Xp, shields : Nat]
NoDailyRequest ==
    [pc |-> "idle", date |-> 0, profile |-> [last |-> 0, streak |-> 0], xp |-> NoXp, shields |-> 0]

DailyInit ==
    /\ day = 1
    /\ mission = [d \in Days |-> "none"]
    /\ chest = [d \in Days |-> "none"]
    /\ profile = [last |-> 0, streak |-> 0]
    /\ engagement = [shields |-> 0, at |-> 1]
    /\ xp = NoXp
    /\ dailyReq = [c \in DailyClients |-> NoDailyRequest]
    /\ dailySent = 0
    /\ session = {}
    /\ active = {}
    /\ shieldUses = [d \in Days |-> 0]
    /\ claims = [d \in Days |-> 0]
    /\ dailyRaced = {}

-----------------------------------------------------------------------------
Midnight ==
    /\ day < LastDay
    /\ day' = day + 1
    /\ UNCHANGED <<rows, streaks, shields, claims, dailyReq, dailySent, session, dailyRaced>>

Begin(c, step) ==
    /\ dailyReq[c].pc = "idle"
    /\ dailySent < MaxDaily
    /\ dailySent' = dailySent + 1
    /\ dailyReq' = [dailyReq EXCEPT ![c] = [NoDailyRequest EXCEPT !.pc = step, !.date = day]]

Finish(c) == dailyReq' = [dailyReq EXCEPT ![c] = NoDailyRequest]

\* What the others have read and not yet written back.
Overlap(c, steps, race) ==
    dailyRaced' = IF \E o \in DailyClients \ {c} : dailyReq[o].pc \in steps
                  THEN dailyRaced \cup {race} ELSE dailyRaced

\* An exception or a crash: the open transaction is rolled back.
RequestDies(c) ==
    /\ dailyReq[c].pc # "idle"
    /\ Finish(c)
    /\ UNCHANGED <<day, rows, streaks, shields, claims, dailySent, session, dailyRaced>>

-----------------------------------------------------------------------------
(***************************************************************************)
(* build_daily_loop.  An existing mission is only returned.                *)
(***************************************************************************)
LookForMission(c) ==
    /\ mission[day] = "none"
    /\ Begin(c, "absent")
    /\ UNCHANGED <<day, rows, streaks, shields, claims, session, dailyRaced>>

\* Slip: the row is written whether it exists or not.
CreateMissionAgain(d) == mission' = [mission EXCEPT ![d] = "issued"]

\* create_once: a row that exists is kept, and the insert's rollback undoes nothing
\* else, as a mission never has a chest that was committed without it.
CreateMissionOnce(d) ==
    mission' = IF mission[d] = "none" THEN [mission EXCEPT ![d] = "issued"] ELSE mission
CreateChestOnce(d) ==
    chest' = IF chest[d] = "none" THEN [chest EXCEPT ![d] = "locked"] ELSE chest

IssueMission(c) ==
    /\ dailyReq[c].pc = "absent"
    /\ CreateMissionOnce(dailyReq[c].date)
    /\ CreateChestOnce(dailyReq[c].date)
    /\ Finish(c)
    /\ UNCHANGED <<day, xp, streaks, shields, claims, dailySent, session, dailyRaced>>

-----------------------------------------------------------------------------
(***************************************************************************)
(* complete_daily_mission, which begins with record_activity.              *)
(***************************************************************************)
BeginCompletion(c) ==
    /\ Begin(c, "timed")
    /\ UNCHANGED <<day, rows, streaks, shields, claims, session, dailyRaced>>

ReadProfile(c) ==
    /\ dailyReq[c].pc = "timed"
    /\ dailyReq' = [dailyReq EXCEPT ![c].pc = "profiled", ![c].profile = profile]
    /\ UNCHANGED <<day, rows, streaks, shields, claims, dailySent, session, dailyRaced>>

\* Slip: a day without activity does not end the streak.
StreakOverGap(p, d) ==
    IF p.last = 0 THEN 1
    ELSE IF d <= p.last THEN IF p.streak > 1 THEN p.streak ELSE 1
    ELSE p.streak + 1

Streak(p, d) ==
    IF p.last = 0 \/ d > p.last + 1 THEN 1
    ELSE IF d = p.last + 1 THEN p.streak + 1
    ELSE IF p.streak > 1 THEN p.streak ELSE 1

RecordActivity(c) ==
    /\ dailyReq[c].pc = "profiled"
    /\ LET d == dailyReq[c].date IN
        /\ profile' = [last |-> d, streak |-> Streak(dailyReq[c].profile, d)]
        /\ active' = active \cup {d}
    /\ dailyReq' = [dailyReq EXCEPT ![c].pc = "recorded"]
    /\ Overlap(c, {"timed", "profiled"}, "streak")
    /\ UNCHANGED <<day, rows, shields, claims, dailySent, session>>

\* The date is taken anew; a mission of another day is not found.
LookUpMission(c) ==
    /\ dailyReq[c].pc = "recorded"
    /\ IF mission[day] = "issued"
       THEN dailyReq' = [dailyReq EXCEPT ![c].pc = "found", ![c].date = day]
       ELSE Finish(c)
    /\ UNCHANGED <<day, rows, streaks, shields, claims, dailySent, session, dailyRaced>>

Locked(d) == \E o \in DailyClients : dailyReq[o].pc \in {"marked", "counted"} /\ dailyReq[o].date = d

\* The WHERE of mark_completed_once.
Marks(s) == s = "issued"

\* The update waits for the row's lock and looks at the status it then finds.
MarkCompleted(c) ==
    /\ dailyReq[c].pc = "found"
    /\ ~Locked(dailyReq[c].date)
    /\ IF Marks(mission[dailyReq[c].date])
       THEN dailyReq' = [dailyReq EXCEPT ![c].pc = "marked"]
       ELSE Finish(c)
    /\ UNCHANGED <<day, rows, streaks, shields, claims, dailySent, session, dailyRaced>>

ReadXp(c) ==
    /\ dailyReq[c].pc = "marked"
    /\ dailyReq' = [dailyReq EXCEPT ![c].pc = "counted", ![c].xp = xp]
    /\ UNCHANGED <<day, rows, streaks, shields, claims, dailySent, session, dailyRaced>>

\* mark_unlocked_once, for a chest that is locked.
Unlocks(s) == IF s = "locked" THEN "unlocked" ELSE s

CommitCompletion(c) ==
    /\ dailyReq[c].pc = "counted"
    /\ LET d == dailyReq[c].date IN
        /\ mission' = [mission EXCEPT ![d] = "completed"]
        /\ chest' = [chest EXCEPT ![d] = Unlocks(chest[d])]
        /\ xp' = [dailyReq[c].xp EXCEPT ![d] = @ + 1]
    /\ engagement' = [engagement EXCEPT !.at = day]
    /\ Finish(c)
    /\ dailyRaced' = IF session # {} \/ \E o \in DailyClients \ {c} : dailyReq[o].pc = "counted"
                     THEN dailyRaced \cup {"xp"} ELSE dailyRaced
    /\ UNCHANGED <<day, streaks, shieldUses, claims, dailySent, session>>

\* apply_session_result reads the two rows and writes them back.
SessionReads ==
    /\ session = {}
    /\ session' = {xp}
    /\ UNCHANGED <<day, rows, streaks, shields, claims, dailyReq, dailySent, dailyRaced>>

SessionWrites ==
    /\ session # {}
    /\ session' = {}
    /\ xp' \in session
    /\ engagement' = [engagement EXCEPT !.at = day]
    /\ dailyRaced' = IF \E o \in DailyClients : dailyReq[o].pc = "counted"
                     THEN dailyRaced \cup {"xp"} ELSE dailyRaced
    /\ UNCHANGED <<day, mission, chest, streaks, shieldUses, claims, dailyReq, dailySent>>

-----------------------------------------------------------------------------
(***************************************************************************)
(* claim_reward_chest.  A chest that is missing, locked or claimed is only *)
(* reported.  The event that follows a claim is of a type track_event      *)
(* refuses, so that the request ends with an error; the claim stays.       *)
(***************************************************************************)
ReadChest(c) ==
    /\ chest[day] = "unlocked"
    /\ Begin(c, "claiming")
    /\ UNCHANGED <<day, rows, streaks, shields, claims, session, dailyRaced>>

\* The WHERE of mark_claimed_once.
Claims(s) == s = "unlocked"

MarkClaimed(c) ==
    /\ dailyReq[c].pc = "claiming"
    /\ LET d == dailyReq[c].date IN
        IF Claims(chest[d])
        THEN /\ chest' = [chest EXCEPT ![d] = "claimed"]
             /\ claims' = [claims EXCEPT ![d] = @ + 1]
        ELSE UNCHANGED <<chest, claims>>
    /\ Finish(c)
    /\ UNCHANGED <<day, mission, xp, streaks, shields, dailySent, session, dailyRaced>>

-----------------------------------------------------------------------------
(***************************************************************************)
(* use_skip_shield.  updated_at is a time and `day` a date: a row that is  *)
(* exactly Week days old may count as this week's or not.                  *)
(***************************************************************************)
\* Slip: the week is over a day early.
UsedShortWeek(e, d) ==
    {n \in {0, e.shields} : (n # 0 => d - e.at < Week) /\ (n = 0 => e.shields = 0 \/ d - e.at >= Week - 1)}

UsedThisWeek(e, d) ==
    {n \in {0, e.shields} : (n # 0 => d - e.at <= Week) /\ (n = 0 => e.shields = 0 \/ d - e.at >= Week)}

ReadShields(c) ==
    /\ \E n \in UsedThisWeek(engagement, day) :
        /\ n < 1
        /\ dailyReq[c].pc = "idle"
        /\ dailySent < MaxDaily
        /\ dailySent' = dailySent + 1
        /\ dailyReq' = [dailyReq EXCEPT ![c] =
                          [NoDailyRequest EXCEPT !.pc = "shielding", !.date = day, !.shields = n]]
    /\ UNCHANGED <<day, rows, streaks, shields, claims, session, dailyRaced>>

UseShield(c) ==
    /\ dailyReq[c].pc = "shielding"
    /\ engagement' = [shields |-> dailyReq[c].shields + 1, at |-> day]
    /\ shieldUses' = [shieldUses EXCEPT ![day] = @ + 1]
    /\ Finish(c)
    /\ Overlap(c, {"shielding"}, "shield")
    /\ UNCHANGED <<day, rows, streaks, claims, dailySent, session>>

-----------------------------------------------------------------------------
DailyNext ==
    \/ Midnight
    \/ SessionReads \/ SessionWrites
    \/ \E c \in DailyClients :
        \/ LookForMission(c) \/ IssueMission(c)
        \/ BeginCompletion(c) \/ ReadProfile(c) \/ RecordActivity(c) \/ LookUpMission(c)
        \/ MarkCompleted(c) \/ ReadXp(c) \/ CommitCompletion(c)
        \/ ReadChest(c) \/ MarkClaimed(c)
        \/ ReadShields(c) \/ UseShield(c)
        \/ RequestDies(c)

DailySpec == DailyInit /\ [][DailyNext]_dailyVars

-----------------------------------------------------------------------------
DailyTypeOK ==
    /\ day \in Days
    /\ mission \in [Days -> Missions]
    /\ chest \in [Days -> Chests]
    /\ profile \in Profile
    /\ engagement \in Engagement
    /\ xp \in Xp
    /\ dailyReq \in [DailyClients -> DailyRequest]
    /\ dailySent \in 0 .. MaxDaily
    /\ \A x \in session : x \in Xp
    /\ active \subseteq Days
    /\ shieldUses \in [Days -> Nat]
    /\ claims \in [Days -> Nat]
    /\ dailyRaced \subseteq Races

\* current_streak is the number of consecutive days of activity up to
\* last_active_at, as _streaks means it to be, unless two requests overlapped in
\* record_activity: around midnight the later write may be of the earlier day.
StreakIsARun ==
    "streak" \notin dailyRaced =>
        /\ \A d \in active : d <= profile.last
        /\ (profile.last - profile.streak + 1) .. profile.last \subseteq active
        /\ profile.last - profile.streak \notin active

\* Two skip shields are at least a week apart, as the answer of use_skip_shield
\* says ("weekly shield already used"), unless two requests overlapped.
ShieldOncePerWeek ==
    LET shielded == {d \in Days : shieldUses[d] > 0}
    IN "shield" \notin dailyRaced =>
        /\ \A d \in shielded : shieldUses[d] = 1
        /\ \A d, e \in shielded : d < e => e - d >= Week

\* A mission's reward is given once: the chest opens with the completion and is
\* claimed once, and xp counts the completion exactly once, where another writer
\* of the progress row that overlapped may have undone it, never doubled it.
RewardOnce ==
    \A d \in Days :
        /\ mission[d] = "none" <=> chest[d] = "none"
        /\ mission[d] = "completed" <=> chest[d] \in {"unlocked", "claimed"}
        /\ claims[d] = IF chest[d] = "claimed" THEN 1 ELSE 0
        /\ xp[d] <= 1
        /\ xp[d] = 1 => mission[d] = "completed"
        /\ mission[d] = "completed" /\ "xp" \notin dailyRaced => xp[d] = 1
=============================================================================

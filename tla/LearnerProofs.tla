---------------------------- MODULE LearnerProofs ----------------------------
(***************************************************************************)
(* Proofs about what a learner does and is given: the daily loop, the      *)
(* cursor of the learning worker, the vocabulary, personalization, lessons *)
(* and awards.                                                             *)
(***************************************************************************)
EXTENDS DailyLoop, LearningCursor, Practice, Personalization, Content, Awards, FiniteSetTheorems,
        TLAPS

-----------------------------------------------------------------------------
(***************************************************************************)
(* The daily loop (DailyLoop), for any number of requests and days and for *)
(* any length of the week.                                                 *)
(***************************************************************************)
-----------------------------------------------------------------------------
(***************************************************************************)
(* The inductive invariant.  A request works on a day that has come.       *)
(***************************************************************************)
Dated == \A c \in DailyClients : dailyReq[c].pc # "idle" => dailyReq[c].date \in 1 .. day

\* The row lock of mark_completed_once: a mission is marked by one request, and stays
\* issued until that request commits.
Marking(c) == dailyReq[c].pc \in {"marked", "counted"}
MarkedOnce ==
    \A c \in DailyClients :
        /\ dailyReq[c].pc = "found" => mission[dailyReq[c].date] # "none"
        /\ Marking(c) => mission[dailyReq[c].date] = "issued"
        /\ \A o \in DailyClients :
              Marking(c) /\ Marking(o) /\ dailyReq[c].date = dailyReq[o].date => c = o

\* A copy of the progress row counts only what was earned, and is the row that is stored
\* until a write overlaps the read.
Earned(x) == \A d \in Days : x[d] <= 1 /\ (x[d] = 1 => mission[d] = "completed")
CopiesEarned ==
    /\ \A c \in DailyClients : dailyReq[c].pc = "counted" => Earned(dailyReq[c].xp)
    /\ \A x \in session : Earned(x)
CopiesFresh ==
    "xp" \notin dailyRaced =>
        /\ \A c \in DailyClients : dailyReq[c].pc = "counted" => dailyReq[c].xp = xp
        /\ \A x \in session : x = xp

\* updated_at is not before a shield's use, and a request that found the week free is a
\* week after every use that none of its rivals made.
ShieldsKnown ==
    /\ engagement.at <= day
    /\ \A d \in Days : shieldUses[d] > 0 => d <= engagement.at /\ engagement.shields > 0
WeekIsOver ==
    "shield" \notin dailyRaced =>
        \A c \in DailyClients : dailyReq[c].pc = "shielding" =>
            \A d \in Days : shieldUses[d] > 0 => dailyReq[c].date - d >= Week

\* Until a write overlaps it, record_activity works on the stored profile, and on a day
\* that is not before its last one.
RecordedMission ==
    /\ profile.last <= day
    /\ profile.last > 0 => profile.streak >= 1
    /\ "streak" \notin dailyRaced =>
        \A c \in DailyClients :
            /\ dailyReq[c].pc \in {"timed", "profiled"} => profile.last <= dailyReq[c].date
            /\ dailyReq[c].pc = "profiled" => dailyReq[c].profile = profile

RewardInv == MarkedOnce /\ CopiesEarned /\ CopiesFresh /\ RewardOnce
ShieldInv == ShieldsKnown /\ WeekIsOver /\ ShieldOncePerWeek
StreakInv == RecordedMission /\ StreakIsARun
DailyLoopInv == DailyTypeOK /\ Dated /\ RewardInv /\ ShieldInv /\ StreakInv

-----------------------------------------------------------------------------
LEMMA NoRequestType ==
    NoDailyRequest \in DailyRequest /\ NoDailyRequest.pc = "idle"
BY DailyAssumption DEF NoDailyRequest, DailyRequest, DailySteps, Profile, Xp, NoXp, Days

LEMMA Beginning ==
    ASSUME DailyTypeOK, NEW c \in DailyClients, NEW step \in DailySteps, Begin(c, step)
    PROVE  /\ dailyReq' \in [DailyClients -> DailyRequest]
           /\ dailyReq[c].pc = "idle"
           /\ dailyReq'[c].pc = step /\ dailyReq'[c].date = day
           /\ \A o \in DailyClients : o # c => dailyReq'[o] = dailyReq[o]
           /\ dailySent' \in 0 .. MaxDaily
<1>1. day \in 0 .. LastDay
  BY DEF DailyTypeOK, Days
<1>2. [NoDailyRequest EXCEPT !.pc = step, !.date = day] \in DailyRequest
  BY <1>1, NoRequestType DEF DailyRequest
<1>3. /\ [NoDailyRequest EXCEPT !.pc = step, !.date = day].pc = step
      /\ [NoDailyRequest EXCEPT !.pc = step, !.date = day].date = day
  BY NoRequestType DEF DailyRequest
<1> QED BY <1>2, <1>3, DailyAssumption DEF Begin, DailyTypeOK

LEMMA Finishing ==
    ASSUME DailyTypeOK, NEW c \in DailyClients, Finish(c)
    PROVE  /\ dailyReq' \in [DailyClients -> DailyRequest]
           /\ dailyReq'[c].pc = "idle"
           /\ \A o \in DailyClients : o # c => dailyReq'[o] = dailyReq[o]
BY NoRequestType DEF Finish, DailyTypeOK

LEMMA DayType ==
    ASSUME DailyTypeOK
    PROVE  day \in Nat /\ day \in 1 .. day /\ day \in Days /\ day \in 0 .. LastDay
BY DailyAssumption DEF DailyTypeOK, Days

LEMMA DateType ==
    ASSUME DailyTypeOK, Dated, NEW c \in DailyClients, dailyReq[c].pc # "idle"
    PROVE  dailyReq[c].date \in Days /\ dailyReq[c].date <= day
<1>1. dailyReq[c].date \in 1 .. day
  BY DEF Dated
<1> QED BY <1>1, DayType, DailyAssumption DEF Days

LEMMA StreakType ==
    ASSUME NEW p \in Profile, NEW d \in Days
    PROVE  Streak(p, d) \in Nat /\ Streak(p, d) >= 1
BY DEF Profile, Streak, Days

\* What is left alone by the step of one request keeps its type.
LEMMA TypeStep ==
    ASSUME DailyTypeOK, Dated, NEW c \in DailyClients,
           \/ LookForMission(c) \/ IssueMission(c)
           \/ BeginCompletion(c) \/ ReadProfile(c) \/ RecordActivity(c) \/ LookUpMission(c)
           \/ MarkCompleted(c) \/ ReadXp(c) \/ CommitCompletion(c)
           \/ ReadChest(c) \/ MarkClaimed(c)
           \/ ReadShields(c) \/ UseShield(c)
           \/ RequestDies(c)
    PROVE  DailyTypeOK' /\ Dated' /\ \A o \in DailyClients : o # c => dailyReq'[o] = dailyReq[o]
<1> USE DEF rows, streaks, shields
<1>0. dailyReq \in [DailyClients -> DailyRequest] /\ dailyReq[c] \in DailyRequest
  BY DEF DailyTypeOK
<1>d. day \in Nat /\ day \in 1 .. day /\ day \in Days /\ day \in 0 .. LastDay
  BY DayType
<1>1. CASE LookForMission(c) \/ BeginCompletion(c) \/ ReadChest(c)
  <2>1. \E step \in DailySteps : Begin(c, step)
    BY <1>1 DEF LookForMission, BeginCompletion, ReadChest, DailySteps
  <2>2. UNCHANGED <<day, rows, streaks, shields, claims, session, dailyRaced>>
    BY <1>1 DEF LookForMission, BeginCompletion, ReadChest
  <2> QED BY <1>d, <2>1, <2>2, Beginning DEF DailyTypeOK, Dated
<1>2. CASE IssueMission(c)
  BY <1>2, Finishing DEF IssueMission, CreateMissionOnce, CreateChestOnce, DailyTypeOK, Dated, Missions, Chests
<1>3. CASE ReadProfile(c)
  BY <1>0, <1>3 DEF ReadProfile, DailyTypeOK, Dated, DailyRequest, DailySteps
<1>4. CASE RecordActivity(c)
  <2>1. dailyReq[c].date \in Days /\ dailyReq[c].profile \in Profile
    BY <1>0, <1>4, DateType DEF RecordActivity, DailyRequest
  <2>2. profile' \in Profile /\ active' \subseteq Days
    <3>1. profile' = [last |-> dailyReq[c].date, streak |-> Streak(dailyReq[c].profile, dailyReq[c].date)]
      BY <1>4 DEF RecordActivity
    <3>2. active' = active \cup {dailyReq[c].date}
      BY <1>4 DEF RecordActivity
    <3>3. Streak(dailyReq[c].profile, dailyReq[c].date) \in Nat
      BY <2>1, StreakType
    <3>4. dailyReq[c].date \in 0 .. LastDay
      BY <1>0 DEF DailyRequest
    <3> QED BY <2>1, <3>1, <3>2, <3>3, <3>4 DEF Profile, DailyTypeOK
  <2>3. dailyRaced' \subseteq Races
    BY <1>4 DEF RecordActivity, Overlap, DailyTypeOK, Races
  <2> QED BY <1>0, <1>4, <2>2, <2>3 DEF RecordActivity, DailyTypeOK, Dated, DailyRequest, DailySteps
<1>5. CASE LookUpMission(c)
  <2>1. CASE Finish(c)
    BY <1>5, <2>1, Finishing DEF LookUpMission, DailyTypeOK, Dated
  <2>2. CASE dailyReq' = [dailyReq EXCEPT ![c].pc = "found", ![c].date = day]
    <3>1. dailyReq'[c] \in DailyRequest /\ dailyReq'[c].date = day
      BY <1>0, <1>d, <2>2 DEF DailyRequest, DailySteps
    <3>2. \A o \in DailyClients : o # c => dailyReq'[o] = dailyReq[o]
      BY <1>0, <2>2
    <3>3. dailyReq' \in [DailyClients -> DailyRequest]
      BY <1>0, <2>2, <3>1
    <3>4. UNCHANGED <<day, rows, streaks, shields, claims, dailySent, session, dailyRaced>>
      BY <1>5 DEF LookUpMission
    <3> QED BY <1>d, <3>1, <3>2, <3>3, <3>4 DEF DailyTypeOK, Dated
  <2> QED BY <1>5, <2>1, <2>2 DEF LookUpMission
<1>6. CASE MarkCompleted(c)
  <2>1. CASE Finish(c)
    BY <1>6, <2>1, Finishing DEF MarkCompleted, DailyTypeOK, Dated
  <2>2. CASE dailyReq' = [dailyReq EXCEPT ![c].pc = "marked"]
    BY <1>0, <1>6, <2>2 DEF MarkCompleted, DailyTypeOK, Dated, DailyRequest, DailySteps
  <2> QED BY <1>6, <2>1, <2>2 DEF MarkCompleted
<1>7. CASE ReadXp(c)
  BY <1>0, <1>7 DEF ReadXp, DailyTypeOK, Dated, DailyRequest, DailySteps
<1>8. CASE CommitCompletion(c)
  <2>1. dailyReq[c].date \in Days /\ dailyReq[c].xp \in Xp
    BY <1>0, <1>8, DateType DEF CommitCompletion, DailyRequest
  <2>2. xp' \in Xp
    BY <1>8, <2>1 DEF CommitCompletion, Xp
  <2>3. mission' \in [Days -> Missions] /\ chest' \in [Days -> Chests]
    BY <1>8, <2>1 DEF CommitCompletion, Unlocks, DailyTypeOK, Missions, Chests
  <2>4. engagement' \in Engagement /\ dailyRaced' \subseteq Races
    BY <1>d, <1>8 DEF CommitCompletion, DailyTypeOK, Engagement, Races
  <2> QED BY <1>8, <2>2, <2>3, <2>4, Finishing DEF CommitCompletion, DailyTypeOK, Dated
<1>9. CASE MarkClaimed(c)
  <2>1. dailyReq[c].date \in Days
    BY <1>9, DateType DEF MarkClaimed
  <2>2. chest' \in [Days -> Chests] /\ claims' \in [Days -> Nat]
    BY <1>9, <2>1 DEF MarkClaimed, DailyTypeOK, Chests
  <2> QED BY <1>9, <2>2, Finishing DEF MarkClaimed, DailyTypeOK, Dated
<1>10. CASE ReadShields(c)
  <2>1. PICK n \in {0, engagement.shields} :
            dailyReq' = [dailyReq EXCEPT ![c] =
                [NoDailyRequest EXCEPT !.pc = "shielding", !.date = day, !.shields = n]]
    BY <1>10 DEF ReadShields, UsedThisWeek
  <2>2. n \in Nat
    BY DEF DailyTypeOK, Engagement
  <2>3. [NoDailyRequest EXCEPT !.pc = "shielding", !.date = day, !.shields = n] \in DailyRequest
    BY <1>d, <2>2, NoRequestType DEF DailyRequest, DailySteps
  <2>4. [NoDailyRequest EXCEPT !.pc = "shielding", !.date = day, !.shields = n].date = day
    BY NoRequestType DEF DailyRequest
  <2>5. dailySent' \in 0 .. MaxDaily
    <3>1. dailySent < MaxDaily /\ dailySent' = dailySent + 1
      BY <1>10 DEF ReadShields
    <3> QED BY <3>1, DailyAssumption DEF DailyTypeOK
  <2>6. UNCHANGED <<day, rows, streaks, shields, claims, session, dailyRaced>>
    BY <1>10 DEF ReadShields
  <2>7. /\ dailyReq' \in [DailyClients -> DailyRequest]
        /\ dailyReq'[c].date = day
        /\ \A o \in DailyClients : o # c => dailyReq'[o] = dailyReq[o]
    BY <1>0, <2>1, <2>3, <2>4
  <2> QED BY <1>d, <2>5, <2>6, <2>7 DEF DailyTypeOK, Dated
<1>11. CASE UseShield(c)
  <2>1. engagement' \in Engagement /\ dailyRaced' \subseteq Races
    BY <1>0, <1>d, <1>11 DEF UseShield, Overlap, DailyTypeOK, Engagement, Races, DailyRequest
  <2>2. shieldUses' \in [Days -> Nat]
    BY <1>d, <1>11 DEF UseShield, DailyTypeOK
  <2> QED BY <1>11, <2>1, <2>2, Finishing DEF UseShield, DailyTypeOK, Dated
<1>12. CASE RequestDies(c)
  BY <1>12, Finishing DEF RequestDies, DailyTypeOK, Dated
<1> QED BY <1>1, <1>2, <1>3, <1>4, <1>5, <1>6, <1>7, <1>8, <1>9, <1>10, <1>11, <1>12

LEMMA TypeInvariant == DailyLoopInv /\ [DailyNext]_dailyVars => DailyTypeOK' /\ Dated'
<1> SUFFICES ASSUME DailyLoopInv, [DailyNext]_dailyVars PROVE DailyTypeOK' /\ Dated'
  OBVIOUS
<1> USE DEF rows, streaks, shields, DailyLoopInv
<1>1. CASE UNCHANGED dailyVars
  BY <1>1 DEF dailyVars, DailyTypeOK, Dated
<1>2. CASE Midnight
  <2>1. UNCHANGED <<rows, streaks, shields, claims, dailyReq, dailySent, session, dailyRaced>>
    BY <1>2 DEF Midnight
  <2>2. day' \in Days /\ \A i \in 1 .. day : i \in 1 .. day'
    BY <1>2, DayType, DailyAssumption DEF Midnight, Days
  <2> QED BY <2>1, <2>2 DEF DailyTypeOK, Dated
<1>3. CASE SessionReads
  BY <1>3 DEF SessionReads, DailyTypeOK, Dated
<1>4. CASE SessionWrites
  <2>1. xp' \in Xp /\ engagement' \in Engagement /\ dailyRaced' \subseteq Races
    BY <1>4, DayType DEF SessionWrites, DailyTypeOK, Engagement, Races
  <2> QED BY <1>4, <2>1 DEF SessionWrites, DailyTypeOK, Dated
<1> QED BY <1>1, <1>2, <1>3, <1>4, TypeStep DEF DailyNext

-----------------------------------------------------------------------------
LEMMA InitiallyInv == DailyInit => DailyLoopInv
<1> SUFFICES ASSUME DailyInit PROVE DailyLoopInv
  OBVIOUS
<1> USE DEF DailyInit
<1>1. DailyTypeOK /\ Dated
  BY NoRequestType, DailyAssumption
     DEF DailyTypeOK, Dated, Days, Missions, Chests, Profile, Engagement, Xp, NoXp, Races
<1>2. RewardInv
  BY NoRequestType
     DEF RewardInv, MarkedOnce, Marking, CopiesEarned, CopiesFresh, RewardOnce, NoXp
<1>3. ShieldInv
  BY NoRequestType DEF ShieldInv, ShieldsKnown, WeekIsOver, ShieldOncePerWeek
<1>4. StreakInv
  BY NoRequestType DEF StreakInv, RecordedMission, StreakIsARun
<1> QED BY <1>1, <1>2, <1>3, <1>4 DEF DailyLoopInv

-----------------------------------------------------------------------------
(***************************************************************************)
(* Rewards.                                                                *)
(***************************************************************************)

\* One request changes, and no row.
LEMMA RewardRequest ==
    ASSUME DailyLoopInv, NEW c \in DailyClients,
           UNCHANGED <<mission, chest, xp, claims, session>>,
           "xp" \in dailyRaced' <=> "xp" \in dailyRaced,
           \A o \in DailyClients : o # c => dailyReq'[o] = dailyReq[o],
           dailyReq'[c].pc = "found" => mission[dailyReq'[c].date] # "none",
           dailyReq'[c].pc \in {"marked", "counted"} =>
                /\ mission[dailyReq'[c].date] = "issued"
                /\ \A o \in DailyClients : o # c /\ Marking(o) => dailyReq[o].date # dailyReq'[c].date,
           dailyReq'[c].pc = "counted" => dailyReq'[c].xp = xp
    PROVE  RewardInv'
<1> USE DEF DailyLoopInv, RewardInv
<1>1. MarkedOnce'
  BY DEF MarkedOnce, Marking
<1>2. Earned(xp)
  BY DEF Earned, RewardOnce
<1>3. CopiesEarned'
  BY <1>2 DEF CopiesEarned, Earned
<1>4. CopiesFresh'
  BY DEF CopiesFresh
<1>5. RewardOnce'
  BY DEF RewardOnce
<1> QED BY <1>1, <1>3, <1>4, <1>5

LEMMA RewardQuiet ==
    ASSUME DailyLoopInv, NEW c \in DailyClients,
           \/ LookForMission(c) \/ BeginCompletion(c) \/ ReadProfile(c) \/ RecordActivity(c)
           \/ LookUpMission(c) \/ MarkCompleted(c) \/ ReadXp(c)
           \/ ReadChest(c) \/ ReadShields(c) \/ UseShield(c) \/ RequestDies(c)
    PROVE  RewardInv'
<1> USE DEF rows, streaks, shields
<1>0. DailyTypeOK /\ Dated /\ dailyReq \in [DailyClients -> DailyRequest]
  BY DEF DailyLoopInv, DailyTypeOK
<1>1. \A o \in DailyClients : o # c => dailyReq'[o] = dailyReq[o]
  BY <1>0, TypeStep
<1>2. UNCHANGED <<mission, chest, xp, claims, session>>
  BY DEF LookForMission, BeginCompletion, ReadProfile, RecordActivity, LookUpMission, MarkCompleted,
         ReadXp, ReadChest, ReadShields, UseShield, RequestDies
<1>3. "xp" \in dailyRaced' <=> "xp" \in dailyRaced
  BY DEF LookForMission, BeginCompletion, ReadProfile, RecordActivity, LookUpMission, MarkCompleted,
         ReadXp, ReadChest, ReadShields, UseShield, RequestDies, Overlap
<1> DEFINE r == dailyReq'[c]
<1>4. CASE r.pc \notin {"found", "marked", "counted"}
  BY <1>1, <1>2, <1>3, <1>4, RewardRequest
<1>5. CASE LookForMission(c) \/ BeginCompletion(c) \/ ReadChest(c)
  <2>1. r.pc \in {"absent", "timed", "claiming"}
    BY <1>0, <1>5, Beginning DEF LookForMission, BeginCompletion, ReadChest, DailySteps
  <2> QED BY <1>4, <2>1
<1>6. CASE ReadProfile(c) \/ RecordActivity(c)
  <2>1. r.pc \in {"profiled", "recorded"}
    BY <1>0, <1>6 DEF ReadProfile, RecordActivity, DailyRequest
  <2> QED BY <1>4, <2>1
<1>7. CASE ReadShields(c)
  <2>1. PICK n : dailyReq' = [dailyReq EXCEPT ![c] =
                    [NoDailyRequest EXCEPT !.pc = "shielding", !.date = day, !.shields = n]]
    BY <1>7 DEF ReadShields
  <2>2. [NoDailyRequest EXCEPT !.pc = "shielding", !.date = day, !.shields = n].pc = "shielding"
    BY NoRequestType DEF DailyRequest
  <2>3. r.pc = "shielding"
    BY <1>0, <2>1, <2>2
  <2> QED BY <1>4, <2>3
<1>8. CASE Finish(c)
  <2>1. r.pc = "idle"
    BY <1>0, <1>8, Finishing
  <2> QED BY <1>4, <2>1
<1>9. CASE LookUpMission(c)
  <2>1. CASE ~Finish(c)
    <3>1. mission[day] = "issued" /\ dailyReq' = [dailyReq EXCEPT ![c].pc = "found", ![c].date = day]
      BY <1>9, <2>1 DEF LookUpMission
    <3>2. r.pc = "found" /\ r.date = day
      BY <1>0, <3>1 DEF DailyRequest
    <3> QED BY <1>1, <1>2, <1>3, <3>1, <3>2, RewardRequest
  <2> QED BY <1>8, <2>1
<1>10. CASE MarkCompleted(c)
  <2>1. CASE ~Finish(c)
    <3>1. /\ ~Locked(dailyReq[c].date)
          /\ mission[dailyReq[c].date] = "issued"
          /\ dailyReq' = [dailyReq EXCEPT ![c].pc = "marked"]
      BY <1>10, <2>1 DEF MarkCompleted, Marks
    <3>2. r.pc = "marked" /\ r.date = dailyReq[c].date
      BY <1>0, <3>1 DEF DailyRequest
    <3>3. \A o \in DailyClients : Marking(o) => dailyReq[o].date # dailyReq[c].date
      BY <3>1 DEF Locked, Marking
    <3> QED BY <1>1, <1>2, <1>3, <3>1, <3>2, <3>3, RewardRequest
  <2> QED BY <1>8, <2>1
<1>11. CASE ReadXp(c)
  <2>1. dailyReq[c].pc = "marked" /\ dailyReq' = [dailyReq EXCEPT ![c].pc = "counted", ![c].xp = xp]
    BY <1>11 DEF ReadXp
  <2>2. r.pc = "counted" /\ r.date = dailyReq[c].date /\ r.xp = xp
    BY <1>0, <2>1 DEF DailyRequest
  <2>3. /\ mission[dailyReq[c].date] = "issued"
        /\ \A o \in DailyClients : o # c /\ Marking(o) => dailyReq[o].date # dailyReq[c].date
    BY <2>1 DEF DailyLoopInv, RewardInv, MarkedOnce, Marking
  <2> HIDE DEF r
  <2> QED BY <1>1, <1>2, <1>3, <2>2, <2>3, RewardRequest DEF r
<1> QED BY <1>5, <1>6, <1>7, <1>8, <1>9, <1>10, <1>11 DEF UseShield, RequestDies

\* A row that is missing is written, and one that is there is kept.
LEMMA RewardIssue ==
    ASSUME DailyLoopInv, NEW c \in DailyClients, IssueMission(c)
    PROVE  RewardInv'
<1> DEFINE d == dailyReq[c].date
<1>0. DailyTypeOK /\ Dated
  BY DEF DailyLoopInv
<1>1. d \in Days
  BY <1>0, DateType DEF IssueMission
<1>2. /\ \A e \in Days : mission'[e] = IF e = d /\ mission[d] = "none" THEN "issued" ELSE mission[e]
      /\ \A e \in Days : chest'[e] = IF e = d /\ chest[d] = "none" THEN "locked" ELSE chest[e]
  BY <1>0, <1>1 DEF IssueMission, CreateMissionOnce, CreateChestOnce, DailyTypeOK
<1>3. UNCHANGED <<xp, claims, session, dailyRaced>>
  BY DEF IssueMission, shields
<1>4. dailyReq'[c].pc = "idle" /\ \A o \in DailyClients : o # c => dailyReq'[o] = dailyReq[o]
  BY <1>0, Finishing DEF IssueMission
<1> HIDE DEF d
<1>5. \A o \in DailyClients : dailyReq[o].pc # "idle" => dailyReq[o].date \in Days
  BY <1>0, DateType
<1>6. \A e \in Days : mission[e] # "none" => mission'[e] = mission[e]
  BY <1>2
<1>7. MarkedOnce'
  BY <1>4, <1>5, <1>6 DEF DailyLoopInv, RewardInv, MarkedOnce, Marking
<1>8. CopiesEarned'
  BY <1>3, <1>4, <1>6 DEF DailyLoopInv, RewardInv, CopiesEarned, Earned
<1>9. CopiesFresh'
  BY <1>3, <1>4 DEF DailyLoopInv, RewardInv, CopiesFresh
<1>10. RewardOnce'
  BY <1>2, <1>3, <1>6 DEF DailyLoopInv, RewardInv, RewardOnce
<1> QED BY <1>7, <1>8, <1>9, <1>10 DEF RewardInv

\* The completion holds the mission's row: the mission was issued and its xp not counted.
LEMMA RewardCommit ==
    ASSUME DailyLoopInv, NEW c \in DailyClients, CommitCompletion(c)
    PROVE  RewardInv'
<1> DEFINE d == dailyReq[c].date
           copy == dailyReq[c].xp
<1>0. DailyTypeOK /\ Dated
  BY DEF DailyLoopInv
<1>1. d \in Days /\ copy \in Xp /\ dailyReq[c].pc = "counted"
  BY <1>0, DateType DEF CommitCompletion, DailyTypeOK, DailyRequest
<1>2. mission[d] = "issued" /\ Earned(copy)
  BY <1>1 DEF DailyLoopInv, RewardInv, MarkedOnce, Marking, CopiesEarned
<1>3. copy[d] = 0
  BY <1>1, <1>2 DEF Earned, Xp
<1>4. chest[d] = "locked" /\ claims[d] = 0
  BY <1>0, <1>1, <1>2 DEF DailyLoopInv, RewardInv, RewardOnce, DailyTypeOK, Chests
<1>5. /\ \A e \in Days : mission'[e] = IF e = d THEN "completed" ELSE mission[e]
      /\ \A e \in Days : chest'[e] = IF e = d THEN "unlocked" ELSE chest[e]
  BY <1>0, <1>1, <1>4 DEF CommitCompletion, Unlocks, DailyTypeOK
<1>6. \A e \in Days : xp'[e] = IF e = d THEN 1 ELSE copy[e]
  <2>1. xp' = [copy EXCEPT ![d] = @ + 1]
    BY DEF CommitCompletion
  <2>2. \A e \in Days : xp'[e] = IF e = d THEN copy[d] + 1 ELSE copy[e]
    BY <1>1, <2>1 DEF Xp
  <2> QED BY <1>3, <2>2
<1>7. UNCHANGED <<claims, session>>
  BY DEF CommitCompletion
<1>8. /\ "xp" \notin dailyRaced' => "xp" \notin dailyRaced /\ session = {}
      /\ "xp" \notin dailyRaced' => \A o \in DailyClients : o # c => dailyReq[o].pc # "counted"
  BY DEF CommitCompletion
<1>9. dailyReq'[c].pc = "idle" /\ \A o \in DailyClients : o # c => dailyReq'[o] = dailyReq[o]
  BY <1>0, Finishing DEF CommitCompletion
<1>10. "xp" \notin dailyRaced => copy = xp
  BY <1>1 DEF DailyLoopInv, RewardInv, CopiesFresh
<1> HIDE DEF d, copy
<1>11. \A o \in DailyClients : dailyReq[o].pc # "idle" => dailyReq[o].date \in Days
  BY <1>0, DateType
<1>12. \A o \in DailyClients : o # c /\ Marking(o) => dailyReq[o].date # d
  BY <1>1 DEF DailyLoopInv, RewardInv, MarkedOnce, Marking, d
<1>13. MarkedOnce'
  BY <1>5, <1>9, <1>11, <1>12 DEF DailyLoopInv, RewardInv, MarkedOnce, Marking
<1>14. CopiesEarned'
  BY <1>5, <1>7, <1>9 DEF DailyLoopInv, RewardInv, CopiesEarned, Earned
<1>15. CopiesFresh'
  BY <1>7, <1>8, <1>9 DEF CopiesFresh
<1>16. RewardOnce'
  BY <1>2, <1>4, <1>5, <1>6, <1>7, <1>8, <1>10 DEF DailyLoopInv, RewardInv, RewardOnce, Earned
<1> QED BY <1>13, <1>14, <1>15, <1>16 DEF RewardInv

LEMMA RewardClaim ==
    ASSUME DailyLoopInv, NEW c \in DailyClients, MarkClaimed(c)
    PROVE  RewardInv'
<1> DEFINE d == dailyReq[c].date
<1>0. DailyTypeOK /\ Dated
  BY DEF DailyLoopInv
<1>1. d \in Days
  BY <1>0, DateType DEF MarkClaimed
<1>2. \/ UNCHANGED <<chest, claims>>
      \/ /\ chest[d] = "unlocked"
         /\ chest' = [chest EXCEPT ![d] = "claimed"]
         /\ claims' = [claims EXCEPT ![d] = @ + 1]
  BY DEF MarkClaimed, Claims
<1>3. UNCHANGED <<mission, xp, session, dailyRaced>>
  BY DEF MarkClaimed
<1>4. dailyReq'[c].pc = "idle" /\ \A o \in DailyClients : o # c => dailyReq'[o] = dailyReq[o]
  BY <1>0, Finishing DEF MarkClaimed
<1> HIDE DEF d
<1>5. MarkedOnce'
  BY <1>3, <1>4 DEF DailyLoopInv, RewardInv, MarkedOnce, Marking
<1>6. CopiesEarned' /\ CopiesFresh'
  BY <1>3, <1>4 DEF DailyLoopInv, RewardInv, CopiesEarned, CopiesFresh, Earned
<1>7. RewardOnce'
  <2>1. CASE UNCHANGED <<chest, claims>>
    BY <1>3, <2>1 DEF DailyLoopInv, RewardInv, RewardOnce
  <2>2. CASE ~UNCHANGED <<chest, claims>>
    <3>1. \A e \in Days : chest'[e] = IF e = d THEN "claimed" ELSE chest[e]
      BY <1>0, <1>1, <1>2, <2>2 DEF DailyTypeOK
    <3>2. claims[d] = 0
      BY <1>1, <1>2, <2>2 DEF DailyLoopInv, RewardInv, RewardOnce
    <3>3. \A e \in Days : claims'[e] = IF e = d THEN 1 ELSE claims[e]
      BY <1>0, <1>1, <1>2, <2>2, <3>2 DEF DailyTypeOK
    <3>4. chest[d] = "unlocked"
      BY <1>2, <2>2
    <3> QED BY <1>1, <1>3, <3>1, <3>3, <3>4 DEF DailyLoopInv, RewardInv, RewardOnce
  <2> QED BY <2>1, <2>2
<1> QED BY <1>5, <1>6, <1>7 DEF RewardInv

LEMMA RewardSession ==
    ASSUME DailyLoopInv, SessionReads \/ SessionWrites
    PROVE  RewardInv'
<1>1. UNCHANGED <<mission, chest, claims, dailyReq>>
  BY DEF SessionReads, SessionWrites, rows
<1>2. CASE SessionReads
  <2>1. session' = {xp} /\ UNCHANGED <<xp, dailyRaced>>
    BY <1>2 DEF SessionReads, rows
  <2>2. Earned(xp)
    BY DEF DailyLoopInv, RewardInv, RewardOnce, Earned
  <2> QED BY <1>1, <2>1, <2>2
        DEF DailyLoopInv, RewardInv, MarkedOnce, Marking, CopiesEarned, CopiesFresh, RewardOnce, Earned
<1>3. CASE SessionWrites
  <2>1. session' = {} /\ xp' \in session
    BY <1>3 DEF SessionWrites
  <2>2. /\ "xp" \notin dailyRaced' => "xp" \notin dailyRaced
        /\ "xp" \notin dailyRaced' => \A o \in DailyClients : dailyReq[o].pc # "counted"
    BY <1>3 DEF SessionWrites
  <2>3. Earned(xp') /\ ("xp" \notin dailyRaced => xp' = xp)
    BY <2>1 DEF DailyLoopInv, RewardInv, CopiesEarned, CopiesFresh
  <2>4. MarkedOnce' /\ CopiesEarned' /\ CopiesFresh'
    BY <1>1, <2>1, <2>2 DEF DailyLoopInv, RewardInv, MarkedOnce, Marking, CopiesEarned, CopiesFresh, Earned
  <2>5. RewardOnce'
    BY <1>1, <2>2, <2>3 DEF DailyLoopInv, RewardInv, RewardOnce, Earned
  <2> QED BY <2>4, <2>5 DEF RewardInv
<1> QED BY <1>2, <1>3

LEMMA RewardInvariant == DailyLoopInv /\ [DailyNext]_dailyVars => RewardInv'
<1> SUFFICES ASSUME DailyLoopInv, [DailyNext]_dailyVars PROVE RewardInv'
  OBVIOUS
<1>1. CASE UNCHANGED dailyVars \/ Midnight
  BY <1>1 DEF Midnight, dailyVars, rows, DailyLoopInv, RewardInv, MarkedOnce, Marking, CopiesEarned, CopiesFresh,
              RewardOnce, Earned
<1> QED
  BY <1>1, RewardQuiet, RewardIssue, RewardCommit, RewardClaim, RewardSession DEF DailyNext

-----------------------------------------------------------------------------
(***************************************************************************)
(* Skip shields.                                                           *)
(***************************************************************************)

\* Nothing but use_skip_shield counts a shield, and updated_at only advances.
LEMMA ShieldQuiet ==
    ASSUME DailyLoopInv, day <= day', day \in Nat, day' \in Nat, UNCHANGED shieldUses,
           "shield" \in dailyRaced' <=> "shield" \in dailyRaced,
           engagement' = engagement \/ (engagement'.shields = engagement.shields /\ engagement'.at = day),
           \A o \in DailyClients : dailyReq'[o].pc = "shielding" => dailyReq'[o] = dailyReq[o]
    PROVE  ShieldInv'
<1> USE DEF DailyLoopInv, ShieldInv
<1>0. engagement.at \in Nat /\ \A d \in Days : d \in Nat
  BY DEF DailyTypeOK, Engagement, Days
<1>1. ShieldsKnown'
  BY <1>0 DEF ShieldsKnown
<1>2. WeekIsOver'
  BY DEF WeekIsOver
<1>3. ShieldOncePerWeek'
  BY DEF ShieldOncePerWeek
<1> QED BY <1>1, <1>2, <1>3

LEMMA ShieldOthers ==
    ASSUME DailyLoopInv, NEW c \in DailyClients,
           \/ LookForMission(c) \/ IssueMission(c) \/ BeginCompletion(c) \/ ReadProfile(c)
           \/ RecordActivity(c) \/ LookUpMission(c) \/ MarkCompleted(c) \/ ReadXp(c)
           \/ CommitCompletion(c) \/ ReadChest(c) \/ MarkClaimed(c) \/ RequestDies(c)
    PROVE  ShieldInv'
<1> USE DEF rows, streaks, shields
<1>0. DailyTypeOK /\ Dated /\ dailyReq \in [DailyClients -> DailyRequest]
  BY DEF DailyLoopInv, DailyTypeOK
<1>1. \A o \in DailyClients : o # c => dailyReq'[o] = dailyReq[o]
  BY <1>0, TypeStep
<1>2. /\ UNCHANGED <<day, shieldUses>>
      /\ "shield" \in dailyRaced' <=> "shield" \in dailyRaced
  BY DEF LookForMission, IssueMission, BeginCompletion, ReadProfile, RecordActivity, LookUpMission,
         MarkCompleted, ReadXp, CommitCompletion, ReadChest, MarkClaimed, RequestDies, Overlap
<1>3. engagement' = engagement \/ (engagement'.shields = engagement.shields /\ engagement'.at = day)
  <2>1. CASE CommitCompletion(c)
    BY <1>0, <2>1 DEF CommitCompletion, DailyTypeOK, Engagement
  <2> QED
    BY <2>1 DEF LookForMission, IssueMission, BeginCompletion, ReadProfile, RecordActivity, LookUpMission,
                MarkCompleted, ReadXp, ReadChest, MarkClaimed, RequestDies
<1>4. dailyReq'[c].pc # "shielding"
  <2>1. CASE Finish(c)
    BY <1>0, <2>1, Finishing
  <2>2. CASE LookForMission(c) \/ BeginCompletion(c) \/ ReadChest(c)
    BY <1>0, <2>2, Beginning DEF LookForMission, BeginCompletion, ReadChest, DailySteps
  <2>3. CASE ReadProfile(c) \/ RecordActivity(c) \/ ReadXp(c)
    BY <1>0, <2>3 DEF ReadProfile, RecordActivity, ReadXp, DailyRequest
  <2>4. CASE LookUpMission(c) /\ ~Finish(c)
    BY <1>0, <2>4 DEF LookUpMission, DailyRequest
  <2>5. CASE MarkCompleted(c) /\ ~Finish(c)
    BY <1>0, <2>5 DEF MarkCompleted, DailyRequest
  <2> QED BY <2>1, <2>2, <2>3, <2>4, <2>5 DEF IssueMission, CommitCompletion, MarkClaimed, RequestDies
<1>5. day \in Nat
  BY <1>0, DayType
<1> QED BY <1>1, <1>2, <1>3, <1>4, <1>5, ShieldQuiet

\* A week that counts no shield has none: every earlier use is at least a week old.
LEMMA ShieldRead ==
    ASSUME DailyLoopInv, NEW c \in DailyClients, ReadShields(c)
    PROVE  ShieldInv'
<1>0. DailyTypeOK /\ Dated /\ day \in Nat
  BY DayType DEF DailyLoopInv
<1>1. engagement.shields \in Nat /\ engagement.at \in Nat /\ \A d \in Days : d \in Nat
  BY <1>0 DEF DailyTypeOK, Engagement, Days
<1>2. PICK n \in UsedThisWeek(engagement, day) :
        /\ n < 1
        /\ dailyReq' = [dailyReq EXCEPT ![c] =
                          [NoDailyRequest EXCEPT !.pc = "shielding", !.date = day, !.shields = n]]
  BY DEF ReadShields
<1>3. n = 0 /\ (engagement.shields = 0 \/ day - engagement.at >= Week)
  BY <1>1, <1>2 DEF UsedThisWeek
<1>4. [NoDailyRequest EXCEPT !.pc = "shielding", !.date = day, !.shields = n].date = day
  BY NoRequestType DEF DailyRequest
<1>5. /\ dailyReq'[c].date = day
      /\ \A o \in DailyClients : o # c => dailyReq'[o] = dailyReq[o]
  BY <1>0, <1>2, <1>4 DEF DailyTypeOK
<1>6. UNCHANGED <<day, engagement, shieldUses, dailyRaced>>
  BY DEF ReadShields, shields
<1>7. ASSUME NEW d \in Days, shieldUses[d] > 0 PROVE day - d >= Week
  <2>1. d <= engagement.at /\ engagement.shields > 0
    BY <1>7 DEF DailyLoopInv, ShieldInv, ShieldsKnown
  <2>2. day - engagement.at >= Week
    BY <1>1, <1>3, <2>1
  <2> QED BY <1>0, <1>1, <2>1, <2>2, DailyAssumption
<1>8. WeekIsOver'
  BY <1>5, <1>6, <1>7 DEF DailyLoopInv, ShieldInv, WeekIsOver
<1>9. ShieldsKnown' /\ ShieldOncePerWeek'
  BY <1>6 DEF DailyLoopInv, ShieldInv, ShieldsKnown, ShieldOncePerWeek
<1> QED BY <1>8, <1>9 DEF ShieldInv

LEMMA ShieldUse ==
    ASSUME DailyLoopInv, NEW c \in DailyClients, UseShield(c)
    PROVE  ShieldInv'
<1>0. DailyTypeOK /\ Dated /\ day \in Nat /\ day \in Days /\ Week \in Nat /\ Week > 0
  BY DayType, DailyAssumption DEF DailyLoopInv
<1>1. \A d \in Days : d \in Nat
  BY DEF Days
<1>2. dailyReq[c].date \in Days /\ dailyReq[c].date <= day /\ dailyReq[c].shields \in Nat
  BY <1>0, DateType DEF UseShield, DailyTypeOK, DailyRequest
<1>3. engagement'.shields > 0 /\ engagement'.at = day /\ day' = day
  BY <1>2 DEF UseShield
<1>4. \A d \in Days : shieldUses'[d] = IF d = day THEN shieldUses[d] + 1 ELSE shieldUses[d]
  BY <1>0 DEF UseShield, DailyTypeOK
<1>5. dailyReq'[c].pc = "idle" /\ \A o \in DailyClients : o # c => dailyReq'[o] = dailyReq[o]
  BY <1>0, Finishing DEF UseShield
<1>6. "shield" \notin dailyRaced' =>
        /\ "shield" \notin dailyRaced
        /\ \A o \in DailyClients : o # c => dailyReq[o].pc # "shielding"
  BY DEF UseShield, Overlap
<1>7. ShieldsKnown'
  <2>1. \A d \in Days : shieldUses[d] > 0 => d <= day
    <3>1. engagement.at \in Nat /\ engagement.at <= day
      BY <1>0 DEF DailyLoopInv, ShieldInv, ShieldsKnown, DailyTypeOK, Engagement, Days
    <3> QED BY <1>0, <1>1, <3>1 DEF DailyLoopInv, ShieldInv, ShieldsKnown
  <2> QED BY <1>0, <1>3, <1>4, <2>1 DEF ShieldsKnown
<1>8. WeekIsOver'
  BY <1>5, <1>6 DEF WeekIsOver
<1>9. ShieldOncePerWeek'
  <2>1. SUFFICES ASSUME "shield" \notin dailyRaced'
                 PROVE  /\ \A d \in Days : shieldUses'[d] > 0 => shieldUses'[d] = 1
                        /\ \A d, e \in Days :
                              shieldUses'[d] > 0 /\ shieldUses'[e] > 0 /\ d < e => e - d >= Week
    BY DEF ShieldOncePerWeek
  <2>2. ASSUME NEW d \in Days, shieldUses[d] > 0 PROVE day - d >= Week
    <3>1. dailyReq[c].date - d >= Week
      BY <1>6, <2>1, <2>2 DEF UseShield, DailyLoopInv, ShieldInv, WeekIsOver
    <3>2. dailyReq[c].date \in Nat /\ d \in Nat
      BY <1>1, <1>2
    <3> QED BY <1>0, <1>2, <3>1, <3>2
  <2>3. shieldUses[day] = 0
    <3>1. ~(shieldUses[day] > 0)
      BY <1>0, <2>2
    <3>2. shieldUses[day] \in Nat
      BY <1>0 DEF DailyTypeOK
    <3> QED BY <3>1, <3>2
  <2>4. /\ \A d \in Days : shieldUses[d] > 0 => shieldUses[d] = 1
        /\ \A d, e \in Days : shieldUses[d] > 0 /\ shieldUses[e] > 0 /\ d < e => e - d >= Week
    BY <1>6, <2>1 DEF DailyLoopInv, ShieldInv, ShieldOncePerWeek
  <2>5. \A d \in Days : shieldUses'[d] > 0 => shieldUses'[d] = 1
    BY <1>4, <2>3, <2>4
  <2>6. ASSUME NEW d \in Days, NEW e \in Days, shieldUses'[d] > 0, shieldUses'[e] > 0, d < e
        PROVE  e - d >= Week
    <3>1. CASE d # day /\ e # day
      BY <1>4, <2>4, <2>6, <3>1
    <3>2. CASE e = day
      <4>1. d # day
        BY <1>0, <1>1, <2>6, <3>2
      <4> QED BY <1>4, <2>2, <2>6, <3>2, <4>1
    <3>3. CASE d = day /\ e # day
      <4>1. day - e >= Week
        BY <1>4, <2>2, <2>6, <3>3
      <4> QED BY <1>0, <1>1, <2>6, <3>3, <4>1
    <3> QED BY <3>1, <3>2, <3>3
  <2> QED BY <2>5, <2>6
<1> QED BY <1>7, <1>8, <1>9 DEF ShieldInv

LEMMA ShieldInvariant == DailyLoopInv /\ [DailyNext]_dailyVars => ShieldInv'
<1> SUFFICES ASSUME DailyLoopInv, [DailyNext]_dailyVars PROVE ShieldInv'
  OBVIOUS
<1>0. DailyTypeOK /\ day \in Nat
  BY DayType DEF DailyLoopInv
<1>1. CASE UNCHANGED dailyVars \/ Midnight \/ SessionReads \/ SessionWrites
  <2>1. day' \in Nat /\ day <= day' /\ UNCHANGED <<shieldUses, dailyReq>>
    BY <1>0, <1>1 DEF dailyVars, Midnight, SessionReads, SessionWrites, shields
  <2>2. "shield" \in dailyRaced' <=> "shield" \in dailyRaced
    BY <1>1 DEF dailyVars, Midnight, SessionReads, SessionWrites
  <2>3. engagement' = engagement \/ (engagement'.shields = engagement.shields /\ engagement'.at = day)
    BY <1>0, <1>1 DEF dailyVars, Midnight, SessionReads, SessionWrites, shields, DailyTypeOK, Engagement
  <2> QED BY <1>0, <2>1, <2>2, <2>3, ShieldQuiet
<1> QED BY <1>1, ShieldOthers, ShieldRead, ShieldUse DEF DailyNext

-----------------------------------------------------------------------------
(***************************************************************************)
(* The streak.                                                             *)
(***************************************************************************)

\* A day that is recorded on the stored profile extends the run, or starts one.
LEMMA StreakExtends ==
    ASSUME NEW p \in Profile, NEW A \in SUBSET Days, NEW d \in Days,
           p.last <= d, p.last > 0 => p.streak >= 1,
           \A a \in A : a <= p.last,
           (p.last - p.streak + 1) .. p.last \subseteq A,
           p.last - p.streak \notin A
    PROVE  /\ \A a \in A \cup {d} : a <= d
           /\ (d - Streak(p, d) + 1) .. d \subseteq A \cup {d}
           /\ d - Streak(p, d) \notin A \cup {d}
<1> DEFINE l == p.last
           s == p.streak
<1>1. l \in Nat /\ s \in Nat /\ d \in Nat /\ d >= 1 /\ \A a \in A : a \in Nat /\ a >= 1
  BY DailyAssumption DEF Profile, Days
<1>2. Streak(p, d) = IF l = 0 \/ d > l + 1 THEN 1
                     ELSE IF d = l + 1 THEN s + 1 ELSE IF s > 1 THEN s ELSE 1
  BY DEF Streak
<1>3. /\ l <= d
      /\ l > 0 => s >= 1
      /\ \A a \in A : a <= l
      /\ \A i \in Int : l - s + 1 <= i /\ i <= l => i \in A
      /\ l - s \notin A
  BY <1>1
<1> HIDE DEF l, s
<1>4. \A a \in A \cup {d} : a <= d
  BY <1>1, <1>3
<1>5. CASE l = 0 \/ d > l + 1
  <2>1. Streak(p, d) = 1
    BY <1>2, <1>5
  <2>2. d - 1 \notin A
    BY <1>1, <1>3, <1>5
  <2> QED BY <1>1, <1>4, <2>1, <2>2
<1>6. CASE l # 0 /\ d = l + 1
  <2>1. Streak(p, d) = s + 1
    BY <1>1, <1>2, <1>6
  <2>2. d - (s + 1) = l - s /\ d - (s + 1) # d
    BY <1>1, <1>6
  <2>3. ASSUME NEW i \in (d - (s + 1) + 1) .. d PROVE i \in A \cup {d}
    BY <1>1, <1>3, <1>6
  <2> QED BY <1>3, <1>4, <2>1, <2>2, <2>3
<1>7. CASE l # 0 /\ d = l
  <2>1. Streak(p, d) = s /\ s >= 1
    BY <1>1, <1>2, <1>3, <1>7
  <2>2. d - s = l - s /\ d - s # d
    BY <1>1, <1>7, <2>1
  <2>3. ASSUME NEW i \in (d - s + 1) .. d PROVE i \in A \cup {d}
    BY <1>1, <1>3, <1>7
  <2> QED BY <1>3, <1>4, <2>1, <2>2, <2>3
<1> QED BY <1>1, <1>3, <1>5, <1>6, <1>7

LEMMA StreakQuiet ==
    ASSUME DailyLoopInv, day <= day', day \in Nat, day' \in Nat, UNCHANGED <<profile, active>>,
           "streak" \in dailyRaced' <=> "streak" \in dailyRaced,
           \A o \in DailyClients : dailyReq'[o].pc \in {"timed", "profiled"} =>
               \/ dailyReq'[o] = dailyReq[o]
               \/ dailyReq'[o].pc = "timed" /\ dailyReq'[o].date = day
               \/ /\ dailyReq[o].pc = "timed" /\ dailyReq'[o].date = dailyReq[o].date
                  /\ dailyReq'[o].profile = profile
    PROVE  StreakInv'
<1> USE DEF DailyLoopInv, StreakInv
<1>1. profile.last \in Nat
  BY DEF DailyTypeOK, Profile
<1>2. RecordedMission'
  BY <1>1 DEF RecordedMission
<1>3. StreakIsARun'
  BY DEF StreakIsARun
<1> QED BY <1>2, <1>3

LEMMA StreakOthers ==
    ASSUME DailyLoopInv, NEW c \in DailyClients,
           \/ LookForMission(c) \/ IssueMission(c) \/ BeginCompletion(c) \/ ReadProfile(c)
           \/ LookUpMission(c) \/ MarkCompleted(c) \/ ReadXp(c)
           \/ CommitCompletion(c) \/ ReadChest(c) \/ MarkClaimed(c)
           \/ ReadShields(c) \/ UseShield(c) \/ RequestDies(c)
    PROVE  StreakInv'
<1> USE DEF rows, streaks, shields
<1>0. DailyTypeOK /\ Dated /\ dailyReq \in [DailyClients -> DailyRequest] /\ day \in Nat
  BY DayType DEF DailyLoopInv, DailyTypeOK
<1>1. \A o \in DailyClients : o # c => dailyReq'[o] = dailyReq[o]
  BY <1>0, TypeStep
<1>2. /\ UNCHANGED <<day, profile, active>>
      /\ "streak" \in dailyRaced' <=> "streak" \in dailyRaced
  BY DEF LookForMission, IssueMission, BeginCompletion, ReadProfile, LookUpMission, MarkCompleted, ReadXp,
         CommitCompletion, ReadChest, MarkClaimed, ReadShields, UseShield, RequestDies, Overlap
<1>3. CASE dailyReq'[c].pc \notin {"timed", "profiled"}
  BY <1>0, <1>1, <1>2, <1>3, StreakQuiet
<1>4. CASE Finish(c)
  BY <1>0, <1>3, <1>4, Finishing
<1>5. CASE BeginCompletion(c)
  <2>1. dailyReq'[c].pc = "timed" /\ dailyReq'[c].date = day
    BY <1>0, <1>5, Beginning DEF BeginCompletion, DailySteps
  <2> QED BY <1>0, <1>1, <1>2, <2>1, StreakQuiet
<1>6. CASE ReadProfile(c)
  <2>1. /\ dailyReq[c].pc = "timed" /\ dailyReq'[c].date = dailyReq[c].date
        /\ dailyReq'[c].profile = profile
    BY <1>0, <1>6 DEF ReadProfile, DailyRequest
  <2> QED BY <1>0, <1>1, <1>2, <2>1, StreakQuiet
<1>7. CASE LookForMission(c) \/ ReadChest(c)
  <2>1. dailyReq'[c].pc \in {"absent", "claiming"}
    BY <1>0, <1>7, Beginning DEF LookForMission, ReadChest, DailySteps
  <2> QED BY <1>3, <2>1
<1>8. CASE ReadShields(c)
  <2>1. PICK n : dailyReq' = [dailyReq EXCEPT ![c] =
                    [NoDailyRequest EXCEPT !.pc = "shielding", !.date = day, !.shields = n]]
    BY <1>8 DEF ReadShields
  <2>2. [NoDailyRequest EXCEPT !.pc = "shielding", !.date = day, !.shields = n].pc = "shielding"
    BY NoRequestType DEF DailyRequest
  <2>3. dailyReq'[c].pc = "shielding"
    BY <1>0, <2>1, <2>2
  <2> QED BY <1>3, <2>3
<1>9. CASE (LookUpMission(c) \/ MarkCompleted(c) \/ ReadXp(c)) /\ ~Finish(c)
  <2>1. dailyReq'[c].pc \in {"found", "marked", "counted"}
    BY <1>0, <1>9 DEF LookUpMission, MarkCompleted, ReadXp, DailyRequest
  <2> QED BY <1>3, <2>1
<1> QED
  BY <1>4, <1>5, <1>6, <1>7, <1>8, <1>9 DEF IssueMission, CommitCompletion, MarkClaimed, UseShield, RequestDies

LEMMA StreakRecord ==
    ASSUME DailyLoopInv, NEW c \in DailyClients, RecordActivity(c)
    PROVE  StreakInv'
<1> DEFINE p == dailyReq[c].profile
           d == dailyReq[c].date
<1>0. DailyTypeOK /\ Dated /\ day \in Nat
  BY DayType DEF DailyLoopInv
<1>1. d \in Days /\ d <= day /\ p \in Profile /\ dailyReq[c].pc = "profiled"
  BY <1>0, DateType DEF RecordActivity, DailyTypeOK, DailyRequest
<1>2. /\ profile' = [last |-> d, streak |-> Streak(p, d)]
      /\ active' = active \cup {d}
      /\ day' = day
  BY DEF RecordActivity
<1>3. dailyReq'[c].pc = "recorded" /\ \A o \in DailyClients : o # c => dailyReq'[o] = dailyReq[o]
  BY <1>0 DEF RecordActivity, DailyTypeOK, DailyRequest
<1>4. "streak" \notin dailyRaced' =>
        /\ "streak" \notin dailyRaced
        /\ \A o \in DailyClients : o # c => dailyReq[o].pc \notin {"timed", "profiled"}
  BY DEF RecordActivity, Overlap
<1>5. "streak" \notin dailyRaced => p = profile /\ profile.last <= d
  BY <1>1 DEF DailyLoopInv, StreakInv, RecordedMission
<1> HIDE DEF p, d
<1>6. RecordedMission'
  <2>1. Streak(p, d) >= 1
    BY <1>1, StreakType
  <2> QED BY <1>1, <1>2, <1>3, <1>4, <2>1 DEF RecordedMission
<1>7. StreakIsARun'
  <2> SUFFICES ASSUME "streak" \notin dailyRaced'
               PROVE  /\ \A a \in active' : a <= profile'.last
                      /\ (profile'.last - profile'.streak + 1) .. profile'.last \subseteq active'
                      /\ profile'.last - profile'.streak \notin active'
    BY DEF StreakIsARun
  <2>1. p = profile /\ p.last <= d
    BY <1>4, <1>5
  <2>2. /\ p.last > 0 => p.streak >= 1
        /\ \A a \in active : a <= p.last
        /\ (p.last - p.streak + 1) .. p.last \subseteq active
        /\ p.last - p.streak \notin active
    BY <1>4, <2>1 DEF DailyLoopInv, StreakInv, RecordedMission, StreakIsARun
  <2>3. active \in SUBSET Days
    BY <1>0 DEF DailyTypeOK
  <2> QED BY <1>1, <1>2, <2>1, <2>2, <2>3, StreakExtends
<1> QED BY <1>6, <1>7 DEF StreakInv

LEMMA StreakInvariant == DailyLoopInv /\ [DailyNext]_dailyVars => StreakInv'
<1> SUFFICES ASSUME DailyLoopInv, [DailyNext]_dailyVars PROVE StreakInv'
  OBVIOUS
<1>0. DailyTypeOK /\ day \in Nat
  BY DayType DEF DailyLoopInv
<1>1. CASE UNCHANGED dailyVars \/ Midnight \/ SessionReads \/ SessionWrites
  <2>1. day' \in Nat /\ day <= day' /\ UNCHANGED <<profile, active, dailyReq>>
    BY <1>0, <1>1 DEF dailyVars, Midnight, SessionReads, SessionWrites, streaks
  <2>2. "streak" \in dailyRaced' <=> "streak" \in dailyRaced
    BY <1>1 DEF dailyVars, Midnight, SessionReads, SessionWrites
  <2> QED BY <1>0, <2>1, <2>2, StreakQuiet
<1> QED BY <1>1, StreakOthers, StreakRecord DEF DailyNext

-----------------------------------------------------------------------------
LEMMA Invariance == DailySpec => []DailyLoopInv
<1>1. DailyLoopInv /\ [DailyNext]_dailyVars => DailyLoopInv'
  BY TypeInvariant, RewardInvariant, ShieldInvariant, StreakInvariant DEF DailyLoopInv
<1> QED BY InitiallyInv, <1>1, PTL DEF DailySpec

\* Every variable of the daily loop keeps its type.
THEOREM DailyTypeCorrect == DailySpec => []DailyTypeOK
<1>1. DailyLoopInv => DailyTypeOK
  BY DEF DailyLoopInv
<1> QED BY <1>1, Invariance, PTL

\* A mission's reward is given once: however many requests complete and claim it,
\* its xp is counted at most once, and exactly once where no other write of the
\* progress row overlapped.
THEOREM RewardGivenOnce == DailySpec => []RewardOnce
<1>1. DailyLoopInv => RewardOnce
  BY DEF DailyLoopInv, RewardInv
<1> QED BY <1>1, Invariance, PTL

\* Skip shields are at least a week apart, for any length of the week, unless two
\* requests overlapped.
THEOREM ShieldsAWeekApart == DailySpec => []ShieldOncePerWeek
<1>1. DailyLoopInv => ShieldOncePerWeek
  BY DEF DailyLoopInv, ShieldInv
<1> QED BY <1>1, Invariance, PTL

\* The streak is the number of consecutive active days up to the last one, unless
\* two requests overlapped in record_activity.
THEOREM StreakCountsTheRun == DailySpec => []StreakIsARun
<1>1. DailyLoopInv => StreakIsARun
  BY DEF DailyLoopInv, StreakInv
<1> QED BY <1>1, Invariance, PTL

-----------------------------------------------------------------------------
(***************************************************************************)
(* The cursor of the learning worker (LearningCursor), for every value of  *)
(* the bounds. That a user has one run at a time is a hypothesis of the    *)
(* theorems that need it.                                                  *)
(***************************************************************************)
OneRun == \A v, w \in Workers : v = w

-----------------------------------------------------------------------------
(***************************************************************************)
(* The inductive invariant of what is not skipped.  An id that is drawn is *)
(* above every position that the cursor or a run has reached.  Below each  *)
(* of those positions every id that is committed, or being inserted and    *)
(* may be committed yet, is processed or overtaken, or the run that        *)
(* reached it has it in its batch or saw it open.                          *)
(***************************************************************************)
Drawn == attempts \cup {a \in Ids : \E p \in Writers : inserting[p] = a}

PositionsReached ==
    /\ \A a \in Drawn : a < nextId
    /\ cursor < nextId
    /\ \A w \in Workers : run[w].from < nextId /\ run[w].batch \subseteq attempts

RunsSkipNothing ==
    \A w \in Workers : \A a \in Drawn :
        /\ a <= run[w].from => a \in processed \cup overtaken
        /\ \A b \in run[w].batch :
              a <= b => a \in processed \cup overtaken \cup run[w].batch \cup run[w].unseen

CursorSkipsNothing == \A a \in Drawn : a <= cursor => a \in processed \cup overtaken

SkipInv == TypeOK /\ PositionsReached /\ RunsSkipNothing /\ CursorSkipsNothing

-----------------------------------------------------------------------------
LEMMA RunFields ==
    ASSUME TypeOK, NEW w \in Workers
    PROVE  /\ run[w].from \in Nat
           /\ run[w].batch \subseteq Ids /\ run[w].unseen \subseteq Ids
           /\ run[w].count \in Nat
           /\ run[w].until \in {"none", "future", "past"}
           /\ run[w].pc \in {"idle", "cursor", "read", "clearing", "failing"}
BY DEF TypeOK, Run, NoRun

LEMMA AttemptsAfterBounds ==
    \A from : AttemptsAfter(from) \subseteq attempts /\ \A a \in AttemptsAfter(from) : a > from
BY DEF AttemptsAfter

\* LIMIT cuts the tail of the ordered rows and nothing before it.
LEMMA AttemptsAfterClosed ==
    ASSUME attempts \subseteq Ids, NEW from \in Nat,
           NEW b \in AttemptsAfter(from), NEW a \in attempts, from < a, a <= b
    PROVE  a \in AttemptsAfter(from)
<1> DEFINE UpTo(x) == {c \in attempts : from < c /\ c <= x}
<1>1. a \in Int /\ b \in Int /\ attempts \subseteq Int
  BY ConstantsAssumption DEF Ids, AttemptsAfter
<1>2. IsFiniteSet(UpTo(b)) /\ IsFiniteSet(UpTo(a))
  <2>1. IsFiniteSet(Ids)
    BY ConstantsAssumption, FS_Interval DEF Ids
  <2>2. UpTo(b) \subseteq Ids /\ UpTo(a) \subseteq Ids
    OBVIOUS
  <2> QED BY <2>1, <2>2, FS_Subset
<1>3. UpTo(a) \subseteq UpTo(b)
  <2> SUFFICES ASSUME NEW c \in attempts, from < c, c <= a PROVE c <= b
    OBVIOUS
  <2> QED BY <1>1
<1>4. Cardinality(UpTo(a)) <= Cardinality(UpTo(b))
  BY <1>2, <1>3, FS_Subset
<1>5. Cardinality(UpTo(a)) \in Nat /\ Cardinality(UpTo(b)) \in Nat
  BY <1>2, FS_CardinalityType
<1>6. Cardinality(UpTo(b)) <= Limit
  BY DEF AttemptsAfter
<1>7. Cardinality(UpTo(a)) <= Limit
  <2> HIDE DEF UpTo
  <2> QED BY <1>4, <1>5, <1>6, ConstantsAssumption
<1> QED BY <1>7 DEF AttemptsAfter

-----------------------------------------------------------------------------
LEMMA NoRunType == NoRun \in Run
BY DEF NoRun, Run

LEMMA InitType == Init => TypeOK
BY ConstantsAssumption, NoRunType DEF Init, TypeOK

LEMMA StepType == TypeOK /\ [Next]_vars => TypeOK'
<1> SUFFICES ASSUME TypeOK, [Next]_vars PROVE TypeOK'
  OBVIOUS
<1> USE ConstantsAssumption, NoRunType
<1>1. ASSUME NEW p \in Writers, InsertAttempt(p) PROVE TypeOK'
  BY <1>1 DEF InsertAttempt, TypeOK, done, failures
<1>2. ASSUME NEW p \in Writers, EndInsert(p) PROVE TypeOK'
  <2>1. inserting[p] \in Ids
    BY <1>2 DEF EndInsert, TypeOK, Ids
  <2>2. attempts' \subseteq Ids
    BY <1>2, <2>1 DEF EndInsert, TypeOK
  <2> QED BY <1>2, <2>2 DEF EndInsert, TypeOK, done, failures
<1>3. ASSUME QuarantineExpires PROVE TypeOK'
  BY <1>3 DEF QuarantineExpires, TypeOK, done, table
<1>4. ASSUME NEW w \in Workers, ReadCursor(w) PROVE TypeOK'
  <2>1. run[w] \in Run /\ cursor \in Nat
    BY DEF TypeOK
  <2>2. [run[w] EXCEPT !.pc = "cursor", !.from = cursor] \in Run
    BY <2>1 DEF Run
  <2>3. run' \in [Workers -> Run]
    BY <1>4, <2>2 DEF ReadCursor, TypeOK
  <2> QED BY <1>4, <2>3 DEF ReadCursor, TypeOK, done, table, failures
<1>5. ASSUME NEW w \in Workers, ReadAttempts(w) PROVE TypeOK'
  <2>1. AttemptsAfter(run[w].from) \subseteq Ids
    BY AttemptsAfterBounds DEF TypeOK
  <2>2. run[w] \in Run
    BY DEF TypeOK
  <2>3. [run[w] EXCEPT !.pc = "read", !.batch = AttemptsAfter(run[w].from),
                       !.unseen = OpenBelow(AttemptsAfter(run[w].from))] \in Run
    BY <2>1, <2>2 DEF Run, OpenBelow
  <2>4. run' \in [Workers -> Run]
    BY <1>5, <2>3 DEF ReadAttempts, TypeOK
  <2> QED BY <1>5, <2>4 DEF ReadAttempts, TypeOK, done, table, failures
<1>6. ASSUME NEW w \in Workers, WriteCursor(w) \/ Fail(w) PROVE TypeOK'
  <2>1. run[w] \in Run
    BY DEF TypeOK
  <2>2. \A pc \in {"clearing", "failing"} :
          [run[w] EXCEPT !.pc = pc, !.count = failureCount, !.until = until] \in Run
    BY <2>1 DEF Run, TypeOK
  <2>3. run' \in [Workers -> Run]
    BY <1>6, <2>2 DEF WriteCursor, Fail, TypeOK
  <2>4. faults' \in 0 .. MaxFaults
    BY <1>6 DEF WriteCursor, Fail, TypeOK
  <2> QED BY <1>6, <2>3, <2>4 DEF WriteCursor, Fail, TypeOK, done, table, failures
<1>7. ASSUME NEW w \in Workers, Succeed(w) \/ RecordFailure(w) PROVE TypeOK'
  <2>1. run[w].batch \subseteq Ids /\ run[w].unseen \subseteq Ids /\ run[w].count \in Nat
    BY RunFields
  <2>2. cursor' \in 0 .. LastId /\ processed' \subseteq Ids /\ overtaken' \subseteq Ids
    <3>1. \/ cursor' = cursor /\ processed' = processed /\ overtaken' = overtaken
          \/ /\ cursor' \in run[w].batch
             /\ processed' = processed \cup run[w].batch /\ overtaken' = overtaken \cup run[w].unseen
      BY <1>7 DEF Succeed, RecordFailure, AdvanceCursor, LastOf, done
    <3>2. \A a \in Ids : a \in 0 .. LastId
      BY DEF Ids
    <3> QED BY <2>1, <3>1, <3>2 DEF TypeOK
  <2>3. failureCount' \in Nat /\ until' \in {"none", "future", "past"} /\ streak' \in Nat
    BY <1>7, <2>1 DEF Succeed, RecordFailure, Clear, TypeOK
  <2>4. run' \in [Workers -> Run]
    BY <1>7 DEF Succeed, RecordFailure, TypeOK
  <2> QED BY <1>7, <2>2, <2>3, <2>4 DEF Succeed, RecordFailure, TypeOK, done, table
<1>8. ASSUME NEW w \in Workers, Abort(w) PROVE TypeOK'
  BY <1>8 DEF Abort, TypeOK, done, table, failures
<1>9. CASE UNCHANGED vars
  BY <1>9 DEF vars, done, table, failures, TypeOK
<1> QED BY <1>1, <1>2, <1>3, <1>4, <1>5, <1>6, <1>7, <1>8, <1>9 DEF Next

-----------------------------------------------------------------------------
LEMMA InitSkip == Init => SkipInv
<1> SUFFICES ASSUME Init PROVE SkipInv
  OBVIOUS
<1>1. TypeOK
  BY InitType
<1>2. Drawn = {}
  BY DEF Init, Drawn, Ids
<1>3. PositionsReached /\ RunsSkipNothing /\ CursorSkipsNothing
  BY <1>2 DEF Init, NoRun, PositionsReached, RunsSkipNothing, CursorSkipsNothing
<1> QED BY <1>1, <1>3 DEF SkipInv

LEMMA StepSkip == SkipInv /\ [Next]_vars => SkipInv'
<1> SUFFICES ASSUME SkipInv, [Next]_vars PROVE SkipInv'
  OBVIOUS
<1> DEFINE Rest == PositionsReached /\ RunsSkipNothing /\ CursorSkipsNothing
<1>t. TypeOK'
  BY StepType DEF SkipInv
<1>i. /\ attempts \subseteq Nat \ {0} /\ Drawn \subseteq Nat \ {0} /\ nextId \in Nat \ {0} /\ cursor \in Nat
      /\ \A w \in Workers : run[w].from \in Nat /\ run[w].batch \subseteq Nat
  <2>1. Ids \subseteq Nat \ {0}
    BY ConstantsAssumption DEF Ids
  <2>2. Drawn \subseteq Ids /\ nextId \in Nat \ {0} /\ cursor \in Nat
    BY ConstantsAssumption DEF SkipInv, TypeOK, Drawn
  <2>3. \A w \in Workers : run[w].from \in Nat /\ run[w].batch \subseteq Ids
    BY RunFields DEF SkipInv
  <2> QED BY <2>1, <2>2, <2>3 DEF SkipInv, TypeOK
\* What the steps have in common that begin or end no insertion and leave the cursor.
<1>u. ASSUME UNCHANGED <<attempts, nextId, inserting, cursor, processed, overtaken>>,
             \A v \in Workers : \/ /\ run'[v].from = run[v].from /\ run'[v].batch = run[v].batch
                                   /\ run'[v].unseen = run[v].unseen
                                \/ run'[v].from \in {0, cursor} /\ run'[v].batch = {}
      PROVE  Rest'
  <2>1. Drawn' = Drawn
    BY <1>u DEF Drawn
  <2>2. PositionsReached'
    BY <1>i, <1>u, <2>1 DEF SkipInv, PositionsReached
  <2>3. RunsSkipNothing'
    BY <1>i, <1>u, <2>1 DEF SkipInv, RunsSkipNothing, CursorSkipsNothing
  <2>4. CursorSkipsNothing'
    BY <1>u, <2>1 DEF SkipInv, CursorSkipsNothing
  <2> QED BY <2>2, <2>3, <2>4
<1>1. ASSUME NEW p \in Writers, InsertAttempt(p) PROVE Rest'
  <2>1. /\ nextId' = nextId + 1 /\ inserting' = [inserting EXCEPT ![p] = nextId]
        /\ UNCHANGED <<attempts, cursor, run, processed, overtaken>>
    BY <1>1 DEF InsertAttempt, done
  <2>2. Drawn' \subseteq Drawn \cup {nextId}
    BY <2>1 DEF Drawn, SkipInv, TypeOK
  <2>3. PositionsReached'
    BY <1>i, <2>1, <2>2 DEF SkipInv, PositionsReached
  <2>4. cursor < nextId /\ \A w \in Workers : run[w].from < nextId /\ \A b \in run[w].batch : b < nextId
    BY DEF SkipInv, PositionsReached, Drawn
  <2>5. RunsSkipNothing'
    BY <1>i, <2>1, <2>2, <2>4 DEF SkipInv, RunsSkipNothing
  <2>6. CursorSkipsNothing'
    BY <1>i, <2>1, <2>2, <2>4 DEF SkipInv, CursorSkipsNothing
  <2> QED BY <2>3, <2>5, <2>6
<1>2. ASSUME NEW p \in Writers, EndInsert(p) PROVE Rest'
  <2>1. /\ attempts \subseteq attempts'
        /\ UNCHANGED <<nextId, cursor, run, processed, overtaken>>
    BY <1>2 DEF EndInsert, done
  <2>2. Drawn' \subseteq Drawn
    BY <1>2 DEF EndInsert, Drawn, SkipInv, TypeOK, Ids
  <2> QED BY <2>1, <2>2 DEF SkipInv, PositionsReached, RunsSkipNothing, CursorSkipsNothing
<1>3. ASSUME QuarantineExpires \/ UNCHANGED vars PROVE Rest'
  BY <1>3, <1>u DEF QuarantineExpires, vars, table, failures, done
<1>4. ASSUME NEW w \in Workers, ReadCursor(w) PROVE Rest'
  <2>1. run[w].batch = {}
    BY <1>4 DEF ReadCursor, NoRun
  <2>2. \A v \in Workers : run'[v] = IF v = w THEN [run[w] EXCEPT !.pc = "cursor", !.from = cursor] ELSE run[v]
    BY <1>4 DEF ReadCursor, SkipInv, TypeOK
  <2> QED BY <1>4, <1>u, <2>1, <2>2 DEF ReadCursor, table, done, SkipInv, TypeOK, Run
<1>5. ASSUME NEW w \in Workers, ReadAttempts(w) PROVE Rest'
  <2> DEFINE taken == AttemptsAfter(run[w].from)
             open == OpenBelow(taken)
  <2>1. \A v \in Workers : /\ run'[v].from = run[v].from
                           /\ run'[v].batch = IF v = w THEN taken ELSE run[v].batch
                           /\ run'[v].unseen = IF v = w THEN open ELSE run[v].unseen
    BY <1>5 DEF ReadAttempts, SkipInv, TypeOK, Run, NoRun
  <2>2. taken \subseteq attempts
    BY AttemptsAfterBounds
  <2>3. ASSUME NEW a \in Drawn, NEW b \in taken, a <= b
        PROVE  a \in processed \cup overtaken \cup taken \cup open
    <3>1. CASE a <= run[w].from
      BY <3>1 DEF SkipInv, RunsSkipNothing
    <3>2. CASE run[w].from < a /\ a \in attempts
      BY <1>i, <2>3, <3>2, AttemptsAfterClosed DEF SkipInv, TypeOK
    <3>3. CASE a \notin attempts
      <4>1. a \in Ids /\ (\E p \in Writers : inserting[p] = a) /\ a < b
        BY <1>i, <2>2, <2>3, <3>3 DEF Drawn
      <4> QED BY <4>1 DEF OpenBelow
    <3> QED BY <1>i, <3>1, <3>2, <3>3
  <2> HIDE DEF taken, open
  <2>4. UNCHANGED <<attempts, nextId, inserting, cursor, processed, overtaken>>
    BY <1>5 DEF ReadAttempts, table, done
  <2>5. Drawn' = Drawn
    BY <2>4 DEF Drawn
  <2>6. PositionsReached'
    BY <2>1, <2>2, <2>4, <2>5 DEF SkipInv, PositionsReached
  <2>7. RunsSkipNothing'
    BY <2>1, <2>3, <2>4, <2>5 DEF SkipInv, RunsSkipNothing
  <2>8. CursorSkipsNothing'
    BY <2>4, <2>5 DEF SkipInv, CursorSkipsNothing
  <2> QED BY <2>6, <2>7, <2>8
<1>6. ASSUME NEW w \in Workers, WriteCursor(w) \/ Fail(w) PROVE Rest'
  <2>1. \A v \in Workers : /\ run'[v].from = run[v].from /\ run'[v].batch = run[v].batch
                           /\ run'[v].unseen = run[v].unseen
    BY <1>6 DEF WriteCursor, Fail, SkipInv, TypeOK, Run, NoRun
  <2> QED BY <1>6, <1>u, <2>1 DEF WriteCursor, Fail, table, done
<1>7. ASSUME NEW w \in Workers, Succeed(w) \/ RecordFailure(w) PROVE Rest'
  <2>1. \A v \in Workers : run'[v] = IF v = w THEN NoRun ELSE run[v]
    BY <1>7 DEF Succeed, RecordFailure, SkipInv, TypeOK
  <2>2. UNCHANGED <<attempts, nextId, inserting>>
    BY <1>7 DEF Succeed, RecordFailure, table
  <2>3. CASE UNCHANGED <<cursor, processed, overtaken>>
    BY <1>u, <2>1, <2>2, <2>3 DEF NoRun
  <2>4. CASE /\ cursor' \in run[w].batch
             /\ processed' = processed \cup run[w].batch /\ overtaken' = overtaken \cup run[w].unseen
    <3>1. Drawn' = Drawn
      BY <2>2 DEF Drawn
    <3>2. PositionsReached'
      BY <1>i, <2>1, <2>2, <2>4, <3>1 DEF SkipInv, PositionsReached, Drawn, NoRun
    <3>3. CursorSkipsNothing'
      BY <2>4, <3>1 DEF SkipInv, RunsSkipNothing, CursorSkipsNothing
    <3>4. RunsSkipNothing'
      BY <1>i, <2>1, <2>4, <3>1 DEF SkipInv, RunsSkipNothing, NoRun
    <3> QED BY <3>2, <3>3, <3>4
  <2> QED BY <1>7, <2>3, <2>4 DEF Succeed, RecordFailure, AdvanceCursor, LastOf, done
<1>8. ASSUME NEW w \in Workers, Abort(w) PROVE Rest'
  <2>1. \A v \in Workers : run'[v] = IF v = w THEN NoRun ELSE run[v]
    BY <1>8 DEF Abort, SkipInv, TypeOK
  <2> QED BY <1>8, <1>u, <2>1 DEF Abort, NoRun, table, done
<1> QED BY <1>t, <1>1, <1>2, <1>3, <1>4, <1>5, <1>6, <1>7, <1>8 DEF Next, SkipInv

(***************************************************************************)
(* _advance_user_cursor leaves no attempt behind, with any number of runs  *)
(* and insertions at a time: whatever the batch size and the failures, an  *)
(* attempt at or below the cursor was in a batch, or its transaction was   *)
(* still open when the batch that overtook it was read.                    *)
(***************************************************************************)
THEOREM NoAttemptSkipped == Spec => []NothingSkipped
<1>1. SkipInv => NothingSkipped
  BY DEF SkipInv, CursorSkipsNothing, Drawn, NothingSkipped
<1> QED BY <1>1, InitSkip, StepSkip, PTL DEF Spec

-----------------------------------------------------------------------------
(***************************************************************************)
(* The inductive invariant for one run at a time.  The run starts from the *)
(* cursor, its batch is after it, and what it read of the failure row is   *)
(* still there; the row counts no failure from before the last success.    *)
(***************************************************************************)
StartsAtCursor ==
    \A w \in Workers : run[w] # NoRun =>
        run[w].from = cursor /\ \A a \in run[w].batch : a > cursor

ReadsFailures ==
    \A w \in Workers : run[w].pc \in {"clearing", "failing"} =>
        run[w].count = failureCount /\ (run[w].until = "none" <=> until = "none")

OneRunInv ==
    TypeOK /\ StartsAtCursor /\ ReadsFailures /\ failureCount <= streak /\ QuarantineEarned

LEMMA InitOneRun == Init => OneRunInv
<1> SUFFICES ASSUME Init PROVE OneRunInv
  OBVIOUS
<1>1. TypeOK
  BY InitType
<1>2. StartsAtCursor /\ ReadsFailures /\ failureCount <= streak /\ QuarantineEarned
  BY DEF Init, NoRun, StartsAtCursor, ReadsFailures, QuarantineEarned
<1> QED BY <1>1, <1>2 DEF OneRunInv

LEMMA StepOneRun == OneRun /\ OneRunInv /\ [Next]_vars => OneRunInv'
<1> SUFFICES ASSUME OneRun, OneRunInv, [Next]_vars PROVE OneRunInv'
  OBVIOUS
<1> DEFINE Rest == StartsAtCursor /\ ReadsFailures /\ failureCount <= streak /\ QuarantineEarned
<1>t. TypeOK'
  BY StepType DEF OneRunInv
<1>i. failureCount \in Nat /\ streak \in Nat /\ cursor \in Nat /\ Threshold \in Nat
  BY ConstantsAssumption DEF OneRunInv, TypeOK
<1>1. ASSUME NEW p \in Writers, InsertAttempt(p) \/ EndInsert(p) PROVE Rest'
  BY <1>1 DEF InsertAttempt, EndInsert, failures, OneRunInv, StartsAtCursor, ReadsFailures,
              QuarantineEarned
<1>2. ASSUME QuarantineExpires \/ UNCHANGED vars PROVE Rest'
  BY <1>2 DEF QuarantineExpires, vars, table, failures, OneRunInv, StartsAtCursor,
              ReadsFailures, QuarantineEarned
<1>3. ASSUME NEW w \in Workers, ReadCursor(w) PROVE Rest'
  <2>1. \A v \in Workers : /\ run'[v].from = cursor /\ run'[v].batch = {}
                           /\ run'[v].pc = "cursor"
    BY <1>3 DEF ReadCursor, OneRun, OneRunInv, TypeOK, NoRun
  <2> QED BY <1>3, <2>1 DEF ReadCursor, failures, OneRunInv, StartsAtCursor, ReadsFailures,
                            QuarantineEarned
<1>4. ASSUME NEW w \in Workers, ReadAttempts(w) PROVE Rest'
  <2> DEFINE taken == AttemptsAfter(run[w].from)
  <2>1. run[w] # NoRun
    BY <1>4 DEF ReadAttempts, NoRun
  <2>2. run[w].from = cursor /\ \A a \in taken : a > cursor
    BY <2>1, AttemptsAfterBounds DEF OneRunInv, StartsAtCursor
  <2> HIDE DEF taken
  <2>3. \A v \in Workers : /\ run'[v].from = run[w].from /\ run'[v].batch = taken
                           /\ run'[v].pc = "read"
    BY <1>4 DEF ReadAttempts, OneRun, OneRunInv, TypeOK, Run, NoRun, taken
  <2> QED BY <1>4, <2>2, <2>3 DEF ReadAttempts, failures, OneRunInv, StartsAtCursor,
                                  ReadsFailures, QuarantineEarned
<1>5. ASSUME NEW w \in Workers, WriteCursor(w) \/ Fail(w) PROVE Rest'
  <2>1. run[w] # NoRun
    BY <1>5 DEF WriteCursor, Fail, NoRun
  <2>2. \A v \in Workers : /\ run'[v].from = run[w].from /\ run'[v].batch = run[w].batch
                           /\ run'[v].count = failureCount /\ run'[v].until = until
    BY <1>5, <2>1 DEF WriteCursor, Fail, OneRun, OneRunInv, TypeOK, Run
  <2> QED BY <1>5, <2>1, <2>2 DEF WriteCursor, Fail, failures, OneRunInv, StartsAtCursor,
                                  ReadsFailures, QuarantineEarned
<1>6. ASSUME NEW w \in Workers, Succeed(w) \/ RecordFailure(w) \/ Abort(w) PROVE Rest'
  <2>1. \A v \in Workers : run'[v] = NoRun
    BY <1>6 DEF Succeed, RecordFailure, Abort, OneRun, OneRunInv, TypeOK
  <2>2. StartsAtCursor' /\ ReadsFailures'
    BY <2>1 DEF StartsAtCursor, ReadsFailures, NoRun
  <2>3. CASE Succeed(w)
    <3>1. failureCount' = 0 /\ until' = "none" /\ streak' = 0
      BY <2>3 DEF Succeed, Clear, OneRunInv, ReadsFailures
    <3> QED BY <2>2, <3>1 DEF QuarantineEarned
  <2>4. CASE RecordFailure(w)
    <3>1. /\ failureCount' = failureCount + 1 /\ streak' = streak + 1
          /\ until' = IF failureCount' >= Threshold THEN "future" ELSE until
      BY <2>4 DEF RecordFailure, OneRunInv, ReadsFailures
    <3> QED BY <1>i, <2>2, <3>1 DEF OneRunInv, QuarantineEarned
  <2>5. CASE Abort(w)
    BY <2>2, <2>5 DEF Abort, failures, OneRunInv, QuarantineEarned
  <2> QED BY <1>6, <2>3, <2>4, <2>5
<1> QED BY <1>t, <1>1, <1>2, <1>3, <1>4, <1>5, <1>6 DEF Next, OneRunInv

(***************************************************************************)
(* A user whose runs follow one another is in quarantine only after        *)
(* Threshold failures in a row.                                            *)
(***************************************************************************)
THEOREM QuarantineAfterStreak == OneRun => (Spec => []QuarantineEarned)
<1> SUFFICES ASSUME OneRun PROVE Spec => []QuarantineEarned
  OBVIOUS
<1>1. OneRunInv => QuarantineEarned
  BY DEF OneRunInv
<1> QED BY InitOneRun, StepOneRun, <1>1, PTL DEF Spec

(***************************************************************************)
(* The cursor of a user whose runs follow one another never goes back and  *)
(* never stays where it is while rows are counted as processed, also when  *)
(* record_failure commits what a failed run wrote.                         *)
(***************************************************************************)
THEOREM CursorNeverGoesBack == OneRun => (Spec => CursorOnlyAdvances)
<1> SUFFICES ASSUME OneRun PROVE Spec => CursorOnlyAdvances
  OBVIOUS
<1>1. OneRunInv /\ [Next]_vars => [cursor' > cursor \/ UNCHANGED <<cursor, processed>>]_vars
  <2> SUFFICES ASSUME OneRunInv, [Next]_vars
               PROVE  cursor' > cursor \/ UNCHANGED <<cursor, processed>>
    OBVIOUS
  <2>1. ASSUME NEW w \in Workers, Succeed(w) \/ RecordFailure(w)
        PROVE  cursor' > cursor \/ UNCHANGED <<cursor, processed>>
    <3>1. run[w] # NoRun
      BY <2>1 DEF Succeed, RecordFailure, NoRun
    <3> QED BY <2>1, <3>1 DEF Succeed, RecordFailure, AdvanceCursor, LastOf, OneRunInv,
                              StartsAtCursor, done
  <2>2. CASE ~ \E w \in Workers : Succeed(w) \/ RecordFailure(w)
    BY <2>2 DEF Next, vars, done, InsertAttempt, EndInsert, QuarantineExpires, ReadCursor,
                ReadAttempts, WriteCursor, Fail, Abort
  <2> QED BY <2>1, <2>2
<1> QED BY InitOneRun, StepOneRun, <1>1, PTL DEF Spec, CursorOnlyAdvances

-----------------------------------------------------------------------------
(***************************************************************************)
(* The vocabulary (Practice), for any number of requests and words.        *)
(***************************************************************************)
-----------------------------------------------------------------------------
(* What is left of a request's plan *)

StepNames == {"exists", "known", "insert", "record", "list", "delete", "connect", "read", "write", "keep"}
PractiseKinds == {"none", "text", "batch", "talk", "review"}

\* The request has added a word, and then another step of its plan.
RecordPlan == <<"record", "list", "delete", "connect">>
ListPlan == <<"list", "delete", "connect">>
DeletePlan == <<"delete", "connect">>
ConnectPlan == <<"connect">>
AddingPlans == {TextPlan, RecordPlan, ListPlan, DeletePlan, ConnectPlan}

\* The words that a conversation learned are kept; and the reviewed word is scheduled, before
\* its event, by the processor of the event, and by the engine.
KeepPlan == <<"read", "keep">>
KeptPlan == <<"keep">>
KeepingPlans == {KeepPlan, KeptPlan}
ReviewPlan7 == <<"write", "record", "read", "write", "read", "write", "record">>
ReviewPlan6 == <<"record", "read", "write", "read", "write", "record">>
ReviewPlan5 == <<"read", "write", "read", "write", "record">>
ReviewPlan4 == <<"write", "read", "write", "record">>
ReviewPlan3 == <<"read", "write", "record">>
ReviewPlan2 == <<"write", "record">>
ReviewPlan1 == <<"record">>
ProcessedPlans == {ReviewPlan5, ReviewPlan4, ReviewPlan3, ReviewPlan2, ReviewPlan1}
ReviewPlans == {ReviewPlan, ReviewPlan7, ReviewPlan6} \cup ProcessedPlans

PlansOf(kind) ==
    CASE kind = "none" -> {<<>>}
      [] kind = "text" -> AddingPlans
      [] kind = "batch" -> {<<"exists">>} \cup AddingPlans
      [] kind = "talk" -> {<<"known">>} \cup AddingPlans \cup KeepingPlans
      [] kind = "review" -> ReviewPlans

At(q, step) == q.plan # <<>> /\ Head(q.plan) = step
Adds(q) == q.kind \in {"text", "batch", "talk"}
KeepsLearned(q) == q.kind = "talk" /\ (At(q, "read") \/ At(q, "keep"))

LEMMA AddingPlansGoOn ==
    \A p \in AddingPlans :
        /\ p \in Seq(StepNames) /\ p # <<>> /\ Head(p) \in {"insert", "record", "list", "delete", "connect"}
        /\ Head(p) = "insert" => p = TextPlan /\ Len(p) > 1 /\ Tail(p) = RecordPlan
        /\ Head(p) = "record" => p = RecordPlan /\ Len(p) > 1 /\ Tail(p) = ListPlan
        /\ Head(p) = "list" => p = ListPlan /\ Len(p) > 1 /\ Tail(p) = DeletePlan
        /\ Head(p) = "delete" => p = DeletePlan /\ Len(p) > 1 /\ Tail(p) = ConnectPlan
        /\ Head(p) = "connect" => p = ConnectPlan /\ ~(Len(p) > 1)
<1>1. TextPlan \in Seq(StepNames) /\ TextPlan # <<>> /\ Head(TextPlan) = "insert"
      /\ Len(TextPlan) > 1 /\ Len(TextPlan) \in Nat /\ Tail(TextPlan) = RecordPlan
    BY DEF TextPlan, StepNames, RecordPlan
<1>2. RecordPlan \in Seq(StepNames) /\ RecordPlan # <<>> /\ Head(RecordPlan) = "record"
      /\ Len(RecordPlan) > 1 /\ Len(RecordPlan) \in Nat /\ Tail(RecordPlan) = ListPlan
    BY DEF RecordPlan, StepNames, ListPlan
<1>3. ListPlan \in Seq(StepNames) /\ ListPlan # <<>> /\ Head(ListPlan) = "list"
      /\ Len(ListPlan) > 1 /\ Len(ListPlan) \in Nat /\ Tail(ListPlan) = DeletePlan
    BY DEF ListPlan, StepNames, DeletePlan
<1>4. DeletePlan \in Seq(StepNames) /\ DeletePlan # <<>> /\ Head(DeletePlan) = "delete"
      /\ Len(DeletePlan) > 1 /\ Len(DeletePlan) \in Nat /\ Tail(DeletePlan) = ConnectPlan
    BY DEF DeletePlan, StepNames, ConnectPlan
<1>5. ConnectPlan \in Seq(StepNames) /\ ConnectPlan # <<>> /\ Head(ConnectPlan) = "connect"
      /\ Len(ConnectPlan) = 1 /\ ~(Len(ConnectPlan) > 1) /\ Len(ConnectPlan) \in Nat
    BY DEF ConnectPlan, StepNames
<1>6. TAKE p \in AddingPlans
<1>7. CASE p = TextPlan
    BY <1>1, <1>7, Zenon
<1>8. CASE p = RecordPlan
    BY <1>2, <1>8, Zenon
<1>9. CASE p = ListPlan
    BY <1>3, <1>9, Zenon
<1>10. CASE p = DeletePlan
    BY <1>4, <1>10, Zenon
<1>11. CASE p = ConnectPlan
    BY <1>5, <1>11, Zenon
<1> QED
    BY <1>7, <1>8, <1>9, <1>10, <1>11 DEF AddingPlans

LEMMA KeepingPlansGoOn ==
    \A p \in KeepingPlans :
        /\ p \in Seq(StepNames) /\ p # <<>> /\ Head(p) \in {"read", "keep"}
        /\ Head(p) = "read" => p = KeepPlan /\ Len(p) > 1 /\ Tail(p) = KeptPlan
        /\ Head(p) = "keep" => p = KeptPlan /\ ~(Len(p) > 1)
<1>1. KeepPlan \in Seq(StepNames) /\ KeepPlan # <<>> /\ Head(KeepPlan) = "read"
      /\ Len(KeepPlan) > 1 /\ Len(KeepPlan) \in Nat /\ Tail(KeepPlan) = KeptPlan
    BY DEF KeepPlan, StepNames, KeptPlan
<1>2. KeptPlan \in Seq(StepNames) /\ KeptPlan # <<>> /\ Head(KeptPlan) = "keep"
      /\ Len(KeptPlan) = 1 /\ ~(Len(KeptPlan) > 1) /\ Len(KeptPlan) \in Nat
    BY DEF KeptPlan, StepNames
<1> QED
    BY <1>1, <1>2 DEF KeepingPlans

LEMMA FirstPlansAreNotProcessed ==
    ReviewPlan \notin ProcessedPlans /\ ReviewPlan7 \notin ProcessedPlans /\ ReviewPlan6 \notin ProcessedPlans
<1>1. ~(Len(ReviewPlan) < 6) /\ ~(Len(ReviewPlan7) < 6) /\ ~(Len(ReviewPlan6) < 6)
    BY DEF ReviewPlan, ReviewPlan7, ReviewPlan6
<1>2. /\ Len(ReviewPlan5) < 6 /\ Len(ReviewPlan4) < 6 /\ Len(ReviewPlan3) < 6 /\ Len(ReviewPlan2) < 6
      /\ Len(ReviewPlan1) < 6
    BY DEF ReviewPlan5, ReviewPlan4, ReviewPlan3, ReviewPlan2, ReviewPlan1
<1> QED
    BY <1>1, <1>2, Zenon DEF ProcessedPlans

LEMMA ReviewPlansGoOn ==
    \A p \in ReviewPlans :
        /\ p \in Seq(StepNames) /\ p # <<>> /\ Head(p) \in {"read", "write", "record"} /\ Len(p) \in Nat
        /\ Len(p) > 1 => Tail(p) \in ReviewPlans
        /\ ~(Len(p) > 1) => Len(p) = 1 /\ p \in ProcessedPlans /\ Head(p) = "record"
        /\ Head(p) = "read" => Len(p) > 1 /\ Head(Tail(p)) = "write"
        /\ Head(p) = "write" => Len(p) > 1 /\ Head(Tail(p)) # "write"
        /\ Head(p) = "record" /\ Len(p) > 1 =>
              p \notin ProcessedPlans /\ Head(Tail(p)) = "read" /\ Tail(p) \in ProcessedPlans
        /\ Head(p) # "record" => (Tail(p) \in ProcessedPlans <=> p \in ProcessedPlans)
<1>1. ReviewPlan \in Seq(StepNames) /\ ReviewPlan # <<>> /\ Head(ReviewPlan) = "read"
      /\ Len(ReviewPlan) > 1 /\ Len(ReviewPlan) \in Nat /\ Tail(ReviewPlan) = ReviewPlan7
    BY DEF ReviewPlan, StepNames, ReviewPlan7
<1>2. ReviewPlan7 \in Seq(StepNames) /\ ReviewPlan7 # <<>> /\ Head(ReviewPlan7) = "write"
      /\ Len(ReviewPlan7) > 1 /\ Len(ReviewPlan7) \in Nat /\ Tail(ReviewPlan7) = ReviewPlan6
    BY DEF ReviewPlan7, StepNames, ReviewPlan6
<1>3. ReviewPlan6 \in Seq(StepNames) /\ ReviewPlan6 # <<>> /\ Head(ReviewPlan6) = "record"
      /\ Len(ReviewPlan6) > 1 /\ Len(ReviewPlan6) \in Nat /\ Tail(ReviewPlan6) = ReviewPlan5
    BY DEF ReviewPlan6, StepNames, ReviewPlan5
<1>4. ReviewPlan5 \in Seq(StepNames) /\ ReviewPlan5 # <<>> /\ Head(ReviewPlan5) = "read"
      /\ Len(ReviewPlan5) > 1 /\ Len(ReviewPlan5) \in Nat /\ Tail(ReviewPlan5) = ReviewPlan4
    BY DEF ReviewPlan5, StepNames, ReviewPlan4
<1>5. ReviewPlan4 \in Seq(StepNames) /\ ReviewPlan4 # <<>> /\ Head(ReviewPlan4) = "write"
      /\ Len(ReviewPlan4) > 1 /\ Len(ReviewPlan4) \in Nat /\ Tail(ReviewPlan4) = ReviewPlan3
    BY DEF ReviewPlan4, StepNames, ReviewPlan3
<1>6. ReviewPlan3 \in Seq(StepNames) /\ ReviewPlan3 # <<>> /\ Head(ReviewPlan3) = "read"
      /\ Len(ReviewPlan3) > 1 /\ Len(ReviewPlan3) \in Nat /\ Tail(ReviewPlan3) = ReviewPlan2
    BY DEF ReviewPlan3, StepNames, ReviewPlan2
<1>7. ReviewPlan2 \in Seq(StepNames) /\ ReviewPlan2 # <<>> /\ Head(ReviewPlan2) = "write"
      /\ Len(ReviewPlan2) > 1 /\ Len(ReviewPlan2) \in Nat /\ Tail(ReviewPlan2) = ReviewPlan1
    BY DEF ReviewPlan2, StepNames, ReviewPlan1
<1>8. ReviewPlan1 \in Seq(StepNames) /\ ReviewPlan1 # <<>> /\ Head(ReviewPlan1) = "record"
      /\ Len(ReviewPlan1) = 1 /\ ~(Len(ReviewPlan1) > 1) /\ Len(ReviewPlan1) \in Nat
    BY DEF ReviewPlan1, StepNames
<1>10. SUFFICES ASSUME NEW p \in ReviewPlans
        PROVE  /\ p \in Seq(StepNames) /\ p # <<>> /\ Head(p) \in {"read", "write", "record"} /\ Len(p) \in Nat
               /\ Len(p) > 1 => Tail(p) \in ReviewPlans
               /\ ~(Len(p) > 1) => Len(p) = 1 /\ p \in ProcessedPlans /\ Head(p) = "record"
               /\ Head(p) = "read" => Len(p) > 1 /\ Head(Tail(p)) = "write"
               /\ Head(p) = "write" => Len(p) > 1 /\ Head(Tail(p)) # "write"
               /\ Head(p) = "record" /\ Len(p) > 1 =>
                    p \notin ProcessedPlans /\ Head(Tail(p)) = "read" /\ Tail(p) \in ProcessedPlans
               /\ Head(p) # "record" => (Tail(p) \in ProcessedPlans <=> p \in ProcessedPlans)
    OBVIOUS
<1>0. /\ ReviewPlan \in ReviewPlans /\ ReviewPlan7 \in ReviewPlans /\ ReviewPlan6 \in ReviewPlans
      /\ ReviewPlan5 \in ReviewPlans /\ ReviewPlan4 \in ReviewPlans /\ ReviewPlan3 \in ReviewPlans
      /\ ReviewPlan2 \in ReviewPlans /\ ReviewPlan1 \in ReviewPlans
      /\ ReviewPlan5 \in ProcessedPlans /\ ReviewPlan4 \in ProcessedPlans /\ ReviewPlan3 \in ProcessedPlans
      /\ ReviewPlan2 \in ProcessedPlans /\ ReviewPlan1 \in ProcessedPlans
    BY DEF ReviewPlans, ProcessedPlans
<1>11. CASE p = ReviewPlan
    BY <1>0, <1>1, <1>2, FirstPlansAreNotProcessed, <1>11, Zenon
<1>12. CASE p = ReviewPlan7
    BY <1>0, <1>2, <1>3, FirstPlansAreNotProcessed, <1>12, Zenon
<1>13. CASE p = ReviewPlan6
    BY <1>0, <1>3, <1>4, FirstPlansAreNotProcessed, <1>13, Zenon
<1>14. CASE p = ReviewPlan5
    BY <1>0, <1>4, <1>5, FirstPlansAreNotProcessed, <1>14, Zenon
<1>15. CASE p = ReviewPlan4
    BY <1>0, <1>5, <1>6, FirstPlansAreNotProcessed, <1>15, Zenon
<1>16. CASE p = ReviewPlan3
    BY <1>0, <1>6, <1>7, FirstPlansAreNotProcessed, <1>16, Zenon
<1>17. CASE p = ReviewPlan2
    BY <1>0, <1>7, <1>8, FirstPlansAreNotProcessed, <1>17, Zenon
<1>18. CASE p = ReviewPlan1
    BY <1>0, <1>8, FirstPlansAreNotProcessed, <1>18, Zenon
<1> QED
    BY <1>11, <1>12, <1>13, <1>14, <1>15, <1>16, <1>17, <1>18 DEF ReviewPlans, ProcessedPlans

LEMMA OneStepPlans ==
    /\ <<"exists">> \in Seq(StepNames) /\ <<"exists">> # <<>> /\ Head(<<"exists">>) = "exists"
    /\ <<"known">> \in Seq(StepNames) /\ <<"known">> # <<>> /\ Head(<<"known">>) = "known"
    /\ ~(Len(<<"exists">>) > 1) /\ ~(Len(<<"known">>) > 1)
BY DEF StepNames

LEMMA PlansBegin ==
    /\ Head(TextPlan) = "insert" /\ Head(RecordPlan) = "record" /\ Head(ListPlan) = "list" /\ Head(DeletePlan) = "delete"
    /\ Head(ConnectPlan) = "connect" /\ Head(KeepPlan) = "read" /\ Head(KeptPlan) = "keep" /\ Head(ReviewPlan) = "read"
    /\ TextPlan # <<>> /\ RecordPlan # <<>> /\ ListPlan # <<>> /\ DeletePlan # <<>> /\ ConnectPlan # <<>>
    /\ KeepPlan # <<>> /\ KeptPlan # <<>> /\ ReviewPlan # <<>>
BY DEF TextPlan, RecordPlan, ListPlan, DeletePlan, ConnectPlan, KeepPlan, KeptPlan, ReviewPlan

-----------------------------------------------------------------------------
(* A request and what it does next *)

\* No word is repeated more often than it was reviewed.
CountedRow == {r \in WordRow : r.repetitions <= r.reviews}

\* A request on a table of n rows.
Request(n) ==
    [kind : PractiseKinds, plan : Seq(StepNames), todo : Seq(Words), item : 1 .. n, row : CountedRow, failed : BOOLEAN,
     listed : SUBSET Words, replaced : SUBSET (Words \X (1 .. n)), learned : Seq(1 .. n), stale : BOOLEAN, overtaken : BOOLEAN]

Planned(q) ==
    /\ q.kind \in PractiseKinds
    /\ q.plan \in PlansOf(q.kind)
    /\ Adds(q) /\ ~KeepsLearned(q) => q.todo # <<>>
    /\ q.kind = "review" \/ KeepsLearned(q) => q.todo = <<>>
    /\ KeepsLearned(q) /\ At(q, "read") => q.learned # <<>>
    /\ q.kind # "talk" => q.learned = <<>>

Like(q, r) ==
    /\ r.kind = q.kind /\ r.item = q.item /\ r.row = q.row /\ r.failed = q.failed /\ r.listed = q.listed
    /\ r.replaced = q.replaced /\ r.learned = q.learned /\ r.stale = q.stale /\ r.overtaken = q.overtaken

\* r is q with the plan p left.
GoesOnWith(q, r, p) == Like(q, r) /\ r.todo = q.todo /\ r.plan = p

\* r is q with these words left.
TurnsTo(q, r, words) ==
    \/ words # <<>> /\ Like(q, r) /\ r.todo = words /\ r.plan = (IF q.kind = "batch" THEN <<"exists">> ELSE TextPlan)
    \/ words = <<>> /\ q.learned # <<>> /\ Like(q, r) /\ r.todo = <<>> /\ r.plan = KeepPlan
    \/ words = <<>> /\ q.learned = <<>> /\ r = NoPractice

LEMMA PlansAreKnown ==
    \A q : Planned(q) =>
        /\ q.plan \in Seq(StepNames)
        /\ q.plan = <<>> <=> q.kind = "none"
        /\ At(q, "exists") => q.kind = "batch" /\ q.plan = <<"exists">>
        /\ At(q, "known") => q.kind = "talk" /\ q.plan = <<"known">>
        /\ At(q, "insert") => Adds(q) /\ q.plan = TextPlan
        /\ At(q, "record") => \/ Adds(q) /\ q.plan = RecordPlan
                              \/ q.kind = "review" /\ q.plan \in ReviewPlans
        /\ At(q, "list") => Adds(q) /\ q.plan = ListPlan
        /\ At(q, "delete") => Adds(q) /\ q.plan = DeletePlan
        /\ At(q, "connect") => Adds(q) /\ q.plan = ConnectPlan
        /\ At(q, "read") => \/ q.kind = "talk" /\ q.plan = KeepPlan
                            \/ q.kind = "review" /\ q.plan \in ReviewPlans
        /\ At(q, "write") => q.kind = "review" /\ q.plan \in ReviewPlans
        /\ At(q, "keep") => q.kind = "talk" /\ q.plan = KeptPlan
<1> SUFFICES ASSUME NEW q, Planned(q)
        PROVE  /\ q.plan \in Seq(StepNames)
               /\ q.plan = <<>> <=> q.kind = "none"
               /\ At(q, "exists") => q.kind = "batch" /\ q.plan = <<"exists">>
               /\ At(q, "known") => q.kind = "talk" /\ q.plan = <<"known">>
               /\ At(q, "insert") => Adds(q) /\ q.plan = TextPlan
               /\ At(q, "record") => \/ Adds(q) /\ q.plan = RecordPlan
                                     \/ q.kind = "review" /\ q.plan \in ReviewPlans
               /\ At(q, "list") => Adds(q) /\ q.plan = ListPlan
               /\ At(q, "delete") => Adds(q) /\ q.plan = DeletePlan
               /\ At(q, "connect") => Adds(q) /\ q.plan = ConnectPlan
               /\ At(q, "read") => \/ q.kind = "talk" /\ q.plan = KeepPlan
                                   \/ q.kind = "review" /\ q.plan \in ReviewPlans
               /\ At(q, "write") => q.kind = "review" /\ q.plan \in ReviewPlans
               /\ At(q, "keep") => q.kind = "talk" /\ q.plan = KeptPlan
    OBVIOUS
<1>1. q.plan \in PlansOf(q.kind)
    BY DEF Planned
<1>2. CASE q.kind = "none"
    <2>1. q.plan = <<>>
        BY <1>1, <1>2, Zenon DEF PlansOf
    <2> QED
        BY <2>1, <1>2 DEF At
<1>3. CASE q.kind = "review"
    BY <1>1, <1>3, ReviewPlansGoOn, Zenon DEF PlansOf, At, Adds
<1>4. CASE q.kind = "text"
    BY <1>1, <1>4, AddingPlansGoOn, Zenon DEF PlansOf, At, Adds
<1>5. CASE q.kind = "batch"
    <2>1. q.plan = <<"exists">> \/ q.plan \in AddingPlans
        BY <1>1, <1>5, Zenon DEF PlansOf
    <2> QED
        BY <2>1, <1>5, AddingPlansGoOn, OneStepPlans, Zenon DEF At, Adds
<1>6. CASE q.kind = "talk"
    <2>1. q.plan = <<"known">> \/ q.plan \in AddingPlans \/ q.plan \in KeepingPlans
        BY <1>1, <1>6, Zenon DEF PlansOf
    <2>2. CASE q.plan = <<"known">>
        BY <2>2, <1>6, OneStepPlans, Zenon DEF At, Adds
    <2>3. CASE q.plan \in AddingPlans
        BY <2>3, <1>6, AddingPlansGoOn, Zenon DEF At, Adds
    <2>4. CASE q.plan \in KeepingPlans
        BY <2>4, <1>6, KeepingPlansGoOn, Zenon DEF At, Adds
    <2> QED
        BY <2>1, <2>2, <2>3, <2>4
<1>7. q.kind \in PractiseKinds
    BY DEF Planned
<1> QED
    BY <1>2, <1>3, <1>4, <1>5, <1>6, <1>7 DEF PractiseKinds

LEMMA NobodyIsRequest ==
    ASSUME NEW n \in Nat \ {0}
    PROVE  NoPractice \in Request(n) /\ Planned(NoPractice) /\ NoPractice.kind = "none" /\ NoPractice.plan = <<>>
<1>1. NewWordRow(KnownWord) \in CountedRow
    BY PracticeAssumption DEF NewWordRow, CountedRow, WordRow
<1>2. 1 \in 1 .. n /\ <<>> \in Seq(StepNames) /\ <<>> \in Seq(Words) /\ <<>> \in Seq(1 .. n)
    OBVIOUS
<1>3. NoPractice \in Request(n) /\ NoPractice.kind = "none" /\ NoPractice.plan = <<>> /\ NoPractice.learned = <<>>
    BY <1>1, <1>2 DEF NoPractice, Request, PractiseKinds
<1>4. <<>> \in PlansOf("none")
    BY Zenon DEF PlansOf
<1> QED
    BY <1>3, <1>4, Zenon DEF Planned, Adds, KeepsLearned, PractiseKinds

LEMMA AddingIsPlanned ==
    \A q : /\ q.kind \in {"text", "batch", "talk"}
           /\ q.plan \in AddingPlans \/ (q.kind = "batch" /\ q.plan = <<"exists">>)
           /\ q.todo # <<>> /\ (q.kind # "talk" => q.learned = <<>>)
           => Planned(q)
<1> SUFFICES ASSUME NEW q, q.kind \in {"text", "batch", "talk"},
                    q.plan \in AddingPlans \/ (q.kind = "batch" /\ q.plan = <<"exists">>),
                    q.todo # <<>>, q.kind # "talk" => q.learned = <<>>
             PROVE  Planned(q)
    OBVIOUS
<1>1. q.plan \in PlansOf(q.kind)
    BY Zenon DEF PlansOf
<1>2. ~At(q, "read") /\ ~At(q, "keep")
    BY AddingPlansGoOn, OneStepPlans, Zenon DEF At
<1> QED
    BY <1>1, <1>2, Zenon DEF Planned, Adds, KeepsLearned, PractiseKinds

LEMMA KeepingIsPlanned ==
    \A q : q.kind = "talk" /\ q.plan \in KeepingPlans /\ q.todo = <<>> /\ (q.plan = KeepPlan => q.learned # <<>>) => Planned(q)
<1> SUFFICES ASSUME NEW q, q.kind = "talk", q.plan \in KeepingPlans, q.todo = <<>>, q.plan = KeepPlan => q.learned # <<>>
             PROVE  Planned(q)
    BY Zenon
<1>1. q.plan \in PlansOf(q.kind)
    BY Zenon DEF PlansOf
<1>2. KeepsLearned(q) /\ (At(q, "read") => q.plan = KeepPlan)
    BY KeepingPlansGoOn, Zenon DEF At, KeepsLearned
<1> QED
    BY <1>1, <1>2, Zenon DEF Planned, PractiseKinds

LEMMA ReviewIsPlanned ==
    \A q : q.kind = "review" /\ q.plan \in ReviewPlans /\ q.todo = <<>> /\ q.learned = <<>> => Planned(q)
BY Zenon DEF Planned, PlansOf, Adds, KeepsLearned, PractiseKinds

LEMMA NextWordFollows ==
    ASSUME NEW n \in Nat \ {0}, NEW q \in Request(n), NEW words \in Seq(Words),
           q.kind # "talk" => q.learned = <<>>, words # <<>> => Adds(q), q.learned # <<>> => q.kind = "talk"
    PROVE  /\ NextWord(q, words) \in Request(n) /\ Planned(NextWord(q, words))
           /\ TurnsTo(q, NextWord(q, words), words)
<1>1. PICK r : r = NextWord(q, words)
    OBVIOUS
<1>2. CASE words # <<>>
    <2>1. PICK p : p = IF q.kind = "batch" THEN <<"exists">> ELSE TextPlan
        OBVIOUS
    <2>2. r = [q EXCEPT !.todo = words, !.plan = p]
        BY <1>1, <1>2, <2>1 DEF NextWord
    <2>3. TextPlan \in AddingPlans
        BY DEF AddingPlans
    <2>4. p \in Seq(StepNames)
        BY <2>1, <2>3, AddingPlansGoOn, OneStepPlans, Zenon
    <2>5. r \in Request(n) /\ Like(q, r) /\ r.todo = words /\ r.plan = p
        BY <2>2, <2>4 DEF Request, Like
    <2>6. Planned(r)
        <3>1. r.kind = q.kind /\ r.learned = q.learned
            BY <2>5 DEF Like
        <3> QED
            BY <3>1, <2>1, <2>3, <2>5, <1>2, AddingIsPlanned, Zenon DEF Adds
    <2> QED
        BY <1>1, <1>2, <2>1, <2>5, <2>6, Zenon DEF TurnsTo
<1>3. CASE words = <<>> /\ q.learned # <<>>
    <2>1. r = [q EXCEPT !.todo = <<>>, !.plan = KeepPlan]
        BY <1>1, <1>3 DEF NextWord, KeepPlan
    <2>2. KeepPlan \in KeepingPlans
        BY DEF KeepingPlans
    <2>3. KeepPlan \in Seq(StepNames)
        BY <2>2, KeepingPlansGoOn, Zenon
    <2>4. r \in Request(n) /\ Like(q, r) /\ r.todo = <<>> /\ r.plan = KeepPlan
        <3>1. <<>> \in Seq(Words)
            OBVIOUS
        <3> QED
            BY <2>1, <2>3, <3>1 DEF Request, Like
    <2>5. r.kind = q.kind /\ r.learned = q.learned
        BY <2>4 DEF Like
    <2> QED
        BY <1>1, <1>3, <2>2, <2>4, <2>5, KeepingIsPlanned, Zenon DEF TurnsTo
<1>4. CASE words = <<>> /\ q.learned = <<>>
    <2>1. r = NoPractice
        BY <1>1, <1>4 DEF NextWord
    <2> QED
        BY <1>1, <1>4, <2>1, NobodyIsRequest, Zenon DEF TurnsTo
<1> QED
    BY <1>2, <1>3, <1>4

\* What a request has left to do after a step.
LEMMA StepFollows ==
    ASSUME NEW n \in Nat \ {0}, NEW q \in Request(n), Planned(q), q.plan # <<>>
    PROVE  /\ AfterStep(q) \in Request(n) /\ Planned(AfterStep(q))
           /\ At(q, "insert") => GoesOnWith(q, AfterStep(q), RecordPlan)
           /\ At(q, "record") /\ Adds(q) => GoesOnWith(q, AfterStep(q), ListPlan)
           /\ At(q, "list") => GoesOnWith(q, AfterStep(q), DeletePlan)
           /\ At(q, "delete") => GoesOnWith(q, AfterStep(q), ConnectPlan)
           /\ At(q, "read") /\ q.kind = "talk" => GoesOnWith(q, AfterStep(q), KeptPlan)
           /\ At(q, "exists") \/ At(q, "connect") => TurnsTo(q, AfterStep(q), Tail(q.todo))
           /\ At(q, "keep") => TurnsTo(q, AfterStep(q), <<>>)
           /\ q.kind = "review" /\ Len(q.plan) > 1 => GoesOnWith(q, AfterStep(q), Tail(q.plan))
           /\ q.kind = "review" /\ ~(Len(q.plan) > 1) => AfterStep(q) = NoPractice
<1>1. PICK r : r = AfterStep(q)
    OBVIOUS
<1>2. ASSUME Len(q.plan) > 1, NEW p \in Seq(StepNames), p = Tail(q.plan)
      PROVE  r \in Request(n) /\ GoesOnWith(q, r, p) /\ r.kind = q.kind /\ r.learned = q.learned /\ r.todo = q.todo
    <2>1. r = [q EXCEPT !.plan = p]
        BY <1>1, <1>2 DEF AfterStep
    <2> QED
        BY <2>1, <1>2 DEF Request, Like, GoesOnWith
<1>3. ASSUME Len(q.plan) > 1, NEW p \in AddingPlans, p = Tail(q.plan), Adds(q), ~KeepsLearned(q)
      PROVE  r \in Request(n) /\ GoesOnWith(q, r, p) /\ Planned(r)
    <2>1. p \in Seq(StepNames)
        BY AddingPlansGoOn, Zenon
    <2>2. r \in Request(n) /\ GoesOnWith(q, r, p) /\ r.kind = q.kind /\ r.learned = q.learned /\ r.todo = q.todo
        BY <1>2, <1>3, <2>1
    <2>3. q.todo # <<>> /\ (q.kind # "talk" => q.learned = <<>>) /\ r.plan = p
        BY <1>3, <2>2 DEF Planned, GoesOnWith
    <2> QED
        BY <2>2, <2>3, <1>3, AddingIsPlanned, Zenon DEF Adds
<1>4. ASSUME NEW words \in Seq(Words), words # <<>> => Adds(q), ~(Len(q.plan) > 1),
             words = IF q.todo = <<>> THEN <<>> ELSE Tail(q.todo)
      PROVE  r \in Request(n) /\ Planned(r) /\ TurnsTo(q, r, words)
    <2>1. r = NextWord(q, words)
        BY <1>1, <1>4 DEF AfterStep
    <2> QED
        BY <2>1, <1>4, NextWordFollows DEF Planned
<1>5. q.todo \in Seq(Words) /\ (q.todo # <<>> => Tail(q.todo) \in Seq(Words)) /\ <<>> \in Seq(Words)
    BY DEF Request
<1>6. q.kind \in {"text", "batch", "talk", "review"}
    BY PlansAreKnown, Zenon DEF Planned, PractiseKinds
<1>7. AddingPlans = {TextPlan, RecordPlan, ListPlan, DeletePlan, ConnectPlan} /\ KeepPlan \in KeepingPlans /\ KeptPlan \in KeepingPlans
    BY DEF AddingPlans, KeepingPlans
<1>8. CASE q.kind = "review"
    <2>1. q.plan \in ReviewPlans /\ q.todo = <<>> /\ q.learned = <<>>
        BY <1>8, Zenon DEF Planned, PlansOf
    <2>2. CASE Len(q.plan) > 1
        <3>1. PICK p \in ReviewPlans : p = Tail(q.plan) /\ p \in Seq(StepNames)
            BY <2>1, <2>2, ReviewPlansGoOn, Zenon
        <3>2. r \in Request(n) /\ GoesOnWith(q, r, p) /\ r.kind = q.kind /\ r.learned = q.learned /\ r.todo = q.todo
            BY <1>2, <2>2, <3>1
        <3>3. Planned(r)
            BY <2>1, <3>1, <3>2, <1>8, ReviewIsPlanned, Zenon DEF GoesOnWith
        <3> QED
            BY <3>1, <3>2, <3>3, <1>1, <1>8, <2>1, <2>2, PlansAreKnown, Zenon DEF Adds
    <2>3. CASE ~(Len(q.plan) > 1)
        <3>1. r \in Request(n) /\ Planned(r) /\ TurnsTo(q, r, <<>>)
            BY <1>4, <1>5, <2>1, <2>3, Zenon
        <3>2. r = NoPractice
            BY <3>1, <2>1, Zenon DEF TurnsTo
        <3> QED
            BY <3>1, <3>2, <1>1, <1>8, <2>1, <2>3, PlansAreKnown, ReviewPlansGoOn, Zenon DEF Adds, At
    <2> QED
        BY <2>2, <2>3
<1>9. CASE q.kind # "review" /\ q.plan \in AddingPlans
    <2>1. Adds(q) /\ ~KeepsLearned(q)
        BY <1>6, <1>9, AddingPlansGoOn, Zenon DEF Adds, KeepsLearned, At
    <2>2. CASE Head(q.plan) # "connect"
        <3>1. Len(q.plan) > 1 /\ Tail(q.plan) \in AddingPlans
            BY <1>7, <1>9, <2>2, AddingPlansGoOn, Zenon
        <3>2. r \in Request(n) /\ GoesOnWith(q, r, Tail(q.plan)) /\ Planned(r)
            BY <1>3, <2>1, <3>1
        <3> QED
            BY <3>2, <1>1, <1>9, <2>1, <2>2, AddingPlansGoOn, Zenon DEF At
    <2>3. CASE Head(q.plan) = "connect"
        <3>1. ~(Len(q.plan) > 1) /\ q.todo # <<>>
            BY <1>9, <2>1, <2>3, AddingPlansGoOn, Zenon DEF Planned
        <3>2. r \in Request(n) /\ Planned(r) /\ TurnsTo(q, r, Tail(q.todo))
            BY <1>4, <1>5, <2>1, <3>1, Zenon
        <3> QED
            BY <3>2, <1>1, <1>9, <2>3, Zenon DEF At
    <2> QED
        BY <2>2, <2>3
<1>10. CASE q.kind # "review" /\ q.plan = <<"exists">>
    <2>1. Adds(q) /\ ~KeepsLearned(q) /\ ~(Len(q.plan) > 1)
        BY <1>6, <1>10, OneStepPlans, Zenon DEF Adds, KeepsLearned, At
    <2>2. q.todo # <<>>
        BY <2>1, Zenon DEF Planned
    <2>3. r \in Request(n) /\ Planned(r) /\ TurnsTo(q, r, Tail(q.todo))
        BY <1>4, <1>5, <2>1, <2>2, Zenon
    <2> QED
        BY <2>3, <1>1, <1>10, OneStepPlans, Zenon DEF At
<1>11. CASE q.kind # "review" /\ q.plan = <<"known">>
    <2>1. q.kind = "talk"
        BY <1>11, PlansAreKnown, OneStepPlans, Zenon DEF At
    <2>2. Adds(q) /\ ~KeepsLearned(q) /\ ~(Len(q.plan) > 1)
        BY <2>1, <1>11, OneStepPlans, Zenon DEF Adds, KeepsLearned, At
    <2>3. q.todo # <<>>
        BY <2>2, Zenon DEF Planned
    <2>4. r \in Request(n) /\ Planned(r)
        BY <1>4, <1>5, <2>2, <2>3, Zenon
    <2> QED
        BY <2>4, <1>1, <1>11, OneStepPlans, Zenon DEF At
<1>12. CASE q.kind # "review" /\ q.plan \in KeepingPlans
    <2>1. q.kind = "talk" /\ KeepsLearned(q) /\ q.todo = <<>>
        <3>1. At(q, "read") \/ At(q, "keep")
            BY <1>12, KeepingPlansGoOn, Zenon DEF At
        <3>2. q.kind = "talk"
            BY <1>12, <3>1, PlansAreKnown, Zenon
        <3> QED
            BY <3>1, <3>2, Zenon DEF KeepsLearned, Planned
    <2>2. CASE Head(q.plan) = "read"
        <3>1. Len(q.plan) > 1 /\ Tail(q.plan) = KeptPlan /\ KeptPlan \in Seq(StepNames) /\ KeptPlan # KeepPlan
            BY <1>7, <1>12, <2>2, KeepingPlansGoOn, PlansBegin, Zenon
        <3>2. r \in Request(n) /\ GoesOnWith(q, r, KeptPlan) /\ r.kind = q.kind /\ r.learned = q.learned /\ r.todo = q.todo
            BY <1>2, <3>1
        <3>3. Planned(r)
            BY <3>1, <3>2, <2>1, <1>7, KeepingIsPlanned, Zenon DEF GoesOnWith
        <3> QED
            BY <3>2, <3>3, <1>1, <1>12, <2>1, <2>2, KeepingPlansGoOn, Zenon DEF At
    <2>3. CASE Head(q.plan) = "keep"
        <3>1. ~(Len(q.plan) > 1)
            BY <1>12, <2>3, KeepingPlansGoOn, Zenon
        <3>2. r \in Request(n) /\ Planned(r) /\ TurnsTo(q, r, <<>>)
            BY <1>4, <1>5, <2>1, <3>1, Zenon
        <3> QED
            BY <3>2, <1>1, <2>1, <2>3, Zenon DEF At
    <2> QED
        BY <2>2, <2>3, <1>12, KeepingPlansGoOn, Zenon
<1>13. q.kind # "review" =>
          q.plan \in AddingPlans \/ q.plan = <<"exists">> \/ q.plan = <<"known">> \/ q.plan \in KeepingPlans
    <2>1. q.plan \in PlansOf(q.kind)
        BY DEF Planned
    <2> QED
        BY <2>1, <1>6, Zenon DEF PlansOf
<1> QED
    BY <1>8, <1>9, <1>10, <1>11, <1>12, <1>13, Zenon

-----------------------------------------------------------------------------
(* What each step does *)

PracticeTypes ==
    /\ vocabulary \in Seq(CountedRow) /\ Len(vocabulary) # 0
    /\ graph \subseteq Words \X Rows
    /\ learningEvents \in [learned : Nat, reviewed : Nat]
    /\ practised \in [scheduled : Seq(Nat), crossed : SUBSET Rows, texted : SUBSET Words, twice : SUBSET Words,
                      answered : Nat, cut : BOOLEAN, overtaken : BOOLEAN]
    /\ Len(practised.scheduled) = Len(vocabulary)
    /\ practising \in [Learners -> Request(Len(vocabulary))]
    /\ practiceAsked \in 0 .. MaxPractice
    /\ \A c \in Learners : Planned(practising[c])

\* Only c moves, and becomes r.
Becomes(c, r) == practising' = [practising EXCEPT ![c] = r]

\* Of what was done, only texted and cut, or answered, or overtaken may change.
CountsStay == practised'.scheduled = practised.scheduled /\ practised'.crossed = practised.crossed
WordsStay == practised'.texted = practised.texted /\ practised'.twice = practised.twice
EndsStay == practised'.answered = practised.answered /\ practised'.cut = practised.cut

StoredWords == {vocabulary[i].word : i \in Rows}

\* p is another request that has only learned that its copy is stale.
Stays(p, r) ==
    /\ r.kind = p.kind /\ r.plan = p.plan /\ r.todo = p.todo /\ r.item = p.item /\ r.row = p.row
    /\ r.failed = p.failed /\ r.listed = p.listed /\ r.replaced = p.replaced /\ r.learned = p.learned

LEMMA PracticeFacts ==
    ASSUME PracticeTypes
    PROVE  /\ Len(vocabulary) \in Nat \ {0} /\ Rows = 1 .. Len(vocabulary)
           /\ \A i \in Rows : vocabulary[i] \in CountedRow
           /\ \A c \in Learners : practising[c] \in Request(Len(vocabulary)) /\ Planned(practising[c])
           /\ StoredWords \subseteq Words /\ StoredWords # {}
<1>1. Len(vocabulary) \in Nat \ {0} /\ \A i \in 1 .. Len(vocabulary) : vocabulary[i] \in CountedRow
    BY DEF PracticeTypes
<1>2. \A c \in Learners : practising[c] \in Request(Len(vocabulary)) /\ Planned(practising[c])
    BY DEF PracticeTypes
<1>3. StoredWords \subseteq Words
    BY <1>1 DEF StoredWords, Rows, CountedRow, WordRow
<1>4. vocabulary[1].word \in StoredWords
    BY <1>1 DEF StoredWords, Rows
<1> QED
    BY <1>1, <1>2, <1>3, <1>4 DEF Rows

LEMMA PlannedAlike ==
    \A q, r : Planned(q) /\ r.kind = q.kind /\ r.plan = q.plan /\ r.todo = q.todo /\ r.learned = q.learned => Planned(r)
<1> SUFFICES ASSUME NEW q, NEW r, Planned(q), r.kind = q.kind, r.plan = q.plan, r.todo = q.todo, r.learned = q.learned
             PROVE  Planned(r)
    OBVIOUS
<1>1. (Adds(r) <=> Adds(q)) /\ (KeepsLearned(r) <=> KeepsLearned(q)) /\ (At(r, "read") <=> At(q, "read"))
    BY DEF Adds, KeepsLearned, At
<1> QED
    BY <1>1 DEF Planned

LEMMA TablesGrow ==
    ASSUME NEW n \in Nat, NEW m \in Nat, n <= m
    PROVE  Request(n) \subseteq Request(m)
<1>1. 1 .. n \subseteq 1 .. m
    OBVIOUS
<1>2. Seq(1 .. n) \subseteq Seq(1 .. m)
    BY <1>1
<1>3. SUBSET (Words \X (1 .. n)) \subseteq SUBSET (Words \X (1 .. m))
    BY <1>1
<1> QED
    BY <1>1, <1>2, <1>3 DEF Request

\* Three steps that change a request before it goes on.
LEMMA StepFollowsChange ==
    ASSUME NEW n \in Nat \ {0}, NEW q \in Request(n), Planned(q), q.plan # <<>>, NEW w \in Request(n),
           w.kind = q.kind, w.plan = q.plan, w.todo = q.todo, w.learned = q.learned
    PROVE  /\ Planned(w) /\ w.plan # <<>> /\ AfterStep(w) \in Request(n) /\ Planned(AfterStep(w))
           /\ \A step : At(w, step) <=> At(q, step)
BY PlannedAlike, StepFollows, Zenon DEF At

LEMMA AskingDoes ==
    ASSUME PracticeTypes, NEW c \in Learners, ProcessText(c) \/ ProcessBatch(c) \/ Converse(c) \/ ReviewItem(c)
    PROVE  \E r \in Request(Len(vocabulary)) :
              /\ Planned(r) /\ Becomes(c, r) /\ practising[c].plan = <<>>
              /\ r.listed = {} /\ r.replaced = {} /\ ~r.stale /\ ~r.overtaken /\ r.learned = <<>>
              /\ \/ r.kind = "text" /\ r.plan = TextPlan /\ Len(r.todo) = 1 /\ r.todo[1] \in practised'.texted
                 \/ r.kind = "batch" /\ r.plan = <<"exists">>
                 \/ r.kind = "talk" /\ r.plan = <<"known">> /\ Len(r.todo) <= 2 /\ (Len(r.todo) = 2 => r.todo[1] # r.todo[2])
                 \/ r.kind = "review" /\ r.plan = ReviewPlan
              /\ UNCHANGED <<vocabulary, graph, learningEvents>> /\ practiceAsked' \in 0 .. MaxPractice
              /\ CountsStay /\ EndsStay /\ practised'.twice = practised.twice /\ practised'.overtaken = practised.overtaken
              /\ practised.texted \subseteq practised'.texted /\ practised'.texted \subseteq Words
              /\ practised' \in [scheduled : Seq(Nat), crossed : SUBSET Rows, texted : SUBSET Words, twice : SUBSET Words,
                                 answered : Nat, cut : BOOLEAN, overtaken : BOOLEAN]
<1>1. Len(vocabulary) \in Nat \ {0} /\ Rows = 1 .. Len(vocabulary)
    BY PracticeFacts
<1>2. PICK n \in Nat \ {0} : n = Len(vocabulary)
    BY <1>1
<1>3. NoPractice \in Request(n)
    BY NobodyIsRequest
<1>4. practiceAsked < MaxPractice => practiceAsked + 1 \in 0 .. MaxPractice
    BY PracticeAssumption DEF PracticeTypes
<1>5. CASE ProcessText(c)
    <2>1. PICK w \in Words : /\ Attend(c, [NoPractice EXCEPT !.kind = "text", !.plan = TextPlan, !.todo = <<w>>])
                             /\ practised' = [practised EXCEPT !.texted = @ \cup {w}]
                             /\ UNCHANGED <<vocabulary, graph, learningEvents>>
        BY <1>5 DEF ProcessText
    <2>2. PICK r : r = [NoPractice EXCEPT !.kind = "text", !.plan = TextPlan, !.todo = <<w>>]
        OBVIOUS
    <2>3. TextPlan \in Seq(StepNames) /\ TextPlan \in AddingPlans
        BY AddingPlansGoOn, Zenon DEF AddingPlans
    <2>4. <<w>> \in Seq(Words) /\ <<w>> # <<>> /\ Len(<<w>>) = 1 /\ <<w>>[1] = w
        OBVIOUS
    <2>5. r \in Request(n) /\ r.kind = "text" /\ r.plan = TextPlan /\ r.todo = <<w>>
        BY <1>3, <2>2, <2>3, <2>4 DEF Request, PractiseKinds
    <2>6. r.listed = {} /\ r.replaced = {} /\ ~r.stale /\ ~r.overtaken /\ r.learned = <<>>
        BY <2>2 DEF NoPractice
    <2>7. Planned(r)
        BY <2>3, <2>4, <2>5, <2>6, AddingIsPlanned
    <2>8. /\ practised' \in [scheduled : Seq(Nat), crossed : SUBSET Rows, texted : SUBSET Words, twice : SUBSET Words,
                             answered : Nat, cut : BOOLEAN, overtaken : BOOLEAN]
          /\ CountsStay /\ EndsStay /\ practised'.twice = practised.twice /\ practised'.overtaken = practised.overtaken
          /\ practised'.texted = practised.texted \cup {w}
        BY <2>1 DEF PracticeTypes, CountsStay, EndsStay
    <2>9. Becomes(c, r) /\ practising[c].plan = <<>> /\ practiceAsked' \in 0 .. MaxPractice
        BY <2>1, <2>2, <1>4 DEF Attend, Becomes
    <2>10. practised.texted \subseteq practised'.texted /\ practised'.texted \subseteq Words /\ w \in practised'.texted
        BY <2>8 DEF PracticeTypes
    <2> QED
        BY <1>2, <2>1, <2>4, <2>5, <2>6, <2>7, <2>8, <2>9, <2>10
<1>6. ASSUME UNCHANGED <<vocabulary, graph, learningEvents, practised>>, NEW r \in Request(n), Planned(r), Attend(c, r),
             r.listed = {}, r.replaced = {}, ~r.stale, ~r.overtaken, r.learned = <<>>,
             \/ r.kind = "batch" /\ r.plan = <<"exists">>
             \/ r.kind = "talk" /\ r.plan = <<"known">> /\ Len(r.todo) <= 2 /\ (Len(r.todo) = 2 => r.todo[1] # r.todo[2])
             \/ r.kind = "review" /\ r.plan = ReviewPlan
      PROVE  /\ Planned(r) /\ Becomes(c, r) /\ practising[c].plan = <<>>
             /\ r.listed = {} /\ r.replaced = {} /\ ~r.stale /\ ~r.overtaken /\ r.learned = <<>>
             /\ \/ r.kind = "batch" /\ r.plan = <<"exists">>
                \/ r.kind = "talk" /\ r.plan = <<"known">> /\ Len(r.todo) <= 2 /\ (Len(r.todo) = 2 => r.todo[1] # r.todo[2])
                \/ r.kind = "review" /\ r.plan = ReviewPlan
             /\ UNCHANGED <<vocabulary, graph, learningEvents>> /\ practiceAsked' \in 0 .. MaxPractice
             /\ CountsStay /\ EndsStay /\ practised'.twice = practised.twice /\ practised'.overtaken = practised.overtaken
             /\ practised.texted \subseteq practised'.texted /\ practised'.texted \subseteq Words
             /\ practised' \in [scheduled : Seq(Nat), crossed : SUBSET Rows, texted : SUBSET Words, twice : SUBSET Words,
                                answered : Nat, cut : BOOLEAN, overtaken : BOOLEAN]
    <2>1. practised' = practised /\ practised.texted \subseteq Words
        BY <1>6 DEF PracticeTypes
    <2>2. Becomes(c, r) /\ practising[c].plan = <<>> /\ practiceAsked' \in 0 .. MaxPractice
        BY <1>6, <1>4 DEF Attend, Becomes
    <2> QED
        BY <1>6, <2>1, <2>2 DEF PracticeTypes, CountsStay, EndsStay
<1>7. ASSUME NEW t \in Texts
      PROVE  t \in Seq(Words) /\ t # <<>> /\ Len(t) <= 2 /\ (Len(t) = 2 => t[1] # t[2])
    <2>1. CASE \E w \in Words : t = <<w>>
        BY <2>1
    <2>2. CASE t \in Words \X Words /\ t[1] # t[2]
        <3>1. PICK v \in Words, w \in Words : t = <<v, w>> /\ v # w
            BY <2>2
        <3> QED
            BY <3>1
    <2> QED
        BY <2>1, <2>2 DEF Texts
<1>8. CASE ProcessBatch(c)
    <2>1. PICK t \in Texts : /\ Attend(c, [NoPractice EXCEPT !.kind = "batch", !.plan = <<"exists">>, !.todo = t])
                             /\ UNCHANGED <<vocabulary, graph, learningEvents, practised>>
        BY <1>8 DEF ProcessBatch
    <2>2. PICK r : r = [NoPractice EXCEPT !.kind = "batch", !.plan = <<"exists">>, !.todo = t]
        OBVIOUS
    <2>3. r \in Request(n) /\ r.kind = "batch" /\ r.plan = <<"exists">> /\ r.todo = t
        BY <1>3, <1>7, <2>2, OneStepPlans DEF Request, PractiseKinds
    <2>4. r.listed = {} /\ r.replaced = {} /\ ~r.stale /\ ~r.overtaken /\ r.learned = <<>>
        BY <2>2 DEF NoPractice
    <2>5. Planned(r)
        BY <1>7, <2>3, <2>4, AddingIsPlanned
    <2> QED
        BY <1>2, <1>6, <2>1, <2>2, <2>3, <2>4, <2>5
<1>9. CASE Converse(c)
    <2>1. PICK t \in Texts : /\ Attend(c, [NoPractice EXCEPT !.kind = "talk", !.plan = <<"known">>, !.todo = t])
                             /\ UNCHANGED <<vocabulary, graph, learningEvents, practised>>
        BY <1>9 DEF Converse
    <2>2. PICK r : r = [NoPractice EXCEPT !.kind = "talk", !.plan = <<"known">>, !.todo = t]
        OBVIOUS
    <2>3. r \in Request(n) /\ r.kind = "talk" /\ r.plan = <<"known">> /\ r.todo = t
        BY <1>3, <1>7, <2>2, OneStepPlans DEF Request, PractiseKinds
    <2>4. r.listed = {} /\ r.replaced = {} /\ ~r.stale /\ ~r.overtaken /\ r.learned = <<>>
        BY <2>2 DEF NoPractice
    <2>5. Planned(r)
        <3>1. r.plan \in PlansOf(r.kind)
            BY <2>3, Zenon DEF PlansOf
        <3> QED
            BY <1>7, <2>3, <2>4, <3>1, OneStepPlans, Zenon DEF Planned, Adds, KeepsLearned, At, PractiseKinds
    <2> QED
        BY <1>2, <1>6, <1>7, <2>1, <2>2, <2>3, <2>4, <2>5
<1>10. CASE ReviewItem(c)
    <2>1. PICK i \in Rows, failed \in BOOLEAN :
            /\ Attend(c, [NoPractice EXCEPT !.kind = "review", !.plan = ReviewPlan, !.item = i, !.failed = failed])
            /\ UNCHANGED <<vocabulary, graph, learningEvents, practised>>
        BY <1>10 DEF ReviewItem
    <2>2. PICK r : r = [NoPractice EXCEPT !.kind = "review", !.plan = ReviewPlan, !.item = i, !.failed = failed]
        OBVIOUS
    <2>3. ReviewPlan \in ReviewPlans /\ ReviewPlan \in Seq(StepNames)
        BY ReviewPlansGoOn, Zenon DEF ReviewPlans
    <2>4. r \in Request(n) /\ r.kind = "review" /\ r.plan = ReviewPlan
        BY <1>1, <1>2, <1>3, <2>2, <2>3 DEF Request, PractiseKinds
    <2>5. r.listed = {} /\ r.replaced = {} /\ ~r.stale /\ ~r.overtaken /\ r.learned = <<>> /\ r.todo = <<>>
        BY <2>2 DEF NoPractice
    <2>6. Planned(r)
        BY <2>3, <2>4, <2>5, ReviewIsPlanned
    <2> QED
        BY <1>2, <1>6, <2>1, <2>2, <2>4, <2>5, <2>6
<1> QED
    BY <1>5, <1>8, <1>9, <1>10

\* The others' words; and of a text of one or two words those that are not stored.
LEMMA NewWordsAreNew ==
    ASSUME PracticeTypes, NEW t \in Seq(Words)
    PROVE  /\ NewWords(t) \in Seq(Words)
           /\ \A k \in 1 .. Len(NewWords(t)) : NewWords(t)[k] \notin StoredWords
           /\ Len(t) <= 2 => Len(NewWords(t)) <= 2
           /\ Len(t) <= 2 /\ Len(NewWords(t)) = 2 => NewWords(t) = t
<1>1. PICK new : new = {k \in 1 .. Len(t) : ~IsKnown(t[k])}
    OBVIOUS
<1>2. PICK u : u = NewWords(t)
    OBVIOUS
<1>3. \A k \in new : k \in 1 .. Len(t) /\ t[k] \in Words /\ t[k] \notin StoredWords
    BY <1>1 DEF IsKnown, StoredWords
<1>4. CASE new = {}
    <2>1. u = <<>>
        BY <1>1, <1>2, <1>4 DEF NewWords
    <2> QED
        BY <1>2, <2>1
<1>5. CASE new # {} /\ new = 1 .. Len(t)
    <2>1. u = t
        BY <1>1, <1>2, <1>5 DEF NewWords
    <2> QED
        BY <1>2, <1>3, <1>5, <2>1
<1>6. CASE new # {} /\ new # 1 .. Len(t)
    <2>1. PICK k \in new : u = <<t[k]>>
        BY <1>1, <1>2, <1>6, Zenon DEF NewWords
    <2>2. u \in Seq(Words) /\ Len(u) = 1 /\ u[1] = t[k]
        BY <1>3, <2>1
    <2> QED
        BY <1>2, <1>3, <2>1, <2>2
<1> QED
    BY <1>4, <1>5, <1>6

LEMMA CheckWordDoes ==
    ASSUME PracticeTypes, NEW c \in Learners, CheckWord(c)
    PROVE  \E r \in Request(Len(vocabulary)) :
              /\ Planned(r) /\ Becomes(c, r) /\ At(practising[c], "exists") /\ practising[c].kind = "batch"
              /\ \/ TurnsTo(practising[c], r, Tail(practising[c].todo))
                 \/ /\ r.kind = "batch" /\ r.plan = TextPlan /\ r.todo[1] \notin StoredWords /\ ~r.stale
                    /\ r.listed = practising[c].listed /\ r.replaced = practising[c].replaced
              /\ UNCHANGED <<vocabulary, graph, learningEvents, practised, practiceAsked>>
<1>1. PICK q : q = practising[c]
    OBVIOUS
<1>2. PICK n \in Nat \ {0} : n = Len(vocabulary)
    BY PracticeFacts
<1>3. q \in Request(n) /\ Planned(q) /\ At(q, "exists") /\ q.plan # <<>> /\ q.kind = "batch"
    BY <1>1, <1>2, PracticeFacts, PlansAreKnown DEF CheckWord, Stepping, At
<1>4. q.todo \in Seq(Words) /\ q.todo # <<>> /\ q.learned = <<>>
    BY <1>3, OneStepPlans, PlansAreKnown, Zenon DEF Request, Planned, Adds, KeepsLearned, At
<1>5. CASE IsKnown(Head(q.todo))
    <2>1. Becomes(c, AfterStep(q)) /\ UNCHANGED <<vocabulary, graph, learningEvents, practised, practiceAsked>>
        BY <1>1, <1>5 DEF CheckWord, Advance, Becomes
    <2>2. AfterStep(q) \in Request(n) /\ Planned(AfterStep(q)) /\ TurnsTo(q, AfterStep(q), Tail(q.todo))
        BY <1>3, StepFollows
    <2> QED
        BY <1>1, <1>2, <1>3, <2>1, <2>2
<1>6. CASE ~IsKnown(Head(q.todo))
    <2>1. PICK r : r = [q EXCEPT !.plan = TextPlan, !.stale = FALSE]
        OBVIOUS
    <2>2. Becomes(c, r) /\ UNCHANGED <<vocabulary, graph, learningEvents, practised, practiceAsked>>
        BY <1>1, <1>6, <2>1 DEF CheckWord, Becomes
    <2>3. TextPlan \in AddingPlans /\ TextPlan \in Seq(StepNames)
        BY AddingPlansGoOn, Zenon DEF AddingPlans
    <2>4. r \in Request(n) /\ r.kind = "batch" /\ r.plan = TextPlan /\ r.todo = q.todo /\ ~r.stale /\ r.learned = q.learned
          /\ r.listed = q.listed /\ r.replaced = q.replaced
        BY <1>3, <2>1, <2>3 DEF Request
    <2>5. Planned(r)
        BY <1>4, <2>3, <2>4, AddingIsPlanned
    <2>6. r.todo[1] \notin StoredWords
        BY <1>4, <1>6, <2>4 DEF IsKnown, StoredWords
    <2> QED
        BY <1>1, <1>2, <1>3, <2>2, <2>4, <2>5, <2>6
<1> QED
    BY <1>5, <1>6

LEMMA ReadKnownWordsDoes ==
    ASSUME PracticeTypes, NEW c \in Learners, ReadKnownWords(c)
    PROVE  \E r \in Request(Len(vocabulary)) :
              /\ Planned(r) /\ Becomes(c, r) /\ At(practising[c], "known") /\ practising[c].kind = "talk"
              /\ TurnsTo(practising[c], r, NewWords(practising[c].todo)) /\ practising[c].todo \in Seq(Words)
              /\ UNCHANGED <<vocabulary, graph, learningEvents, practised, practiceAsked>>
<1>1. PICK q : q = practising[c]
    OBVIOUS
<1>2. PICK n \in Nat \ {0} : n = Len(vocabulary)
    BY PracticeFacts
<1>3. q \in Request(n) /\ Planned(q) /\ At(q, "known") /\ q.kind = "talk"
    BY <1>1, <1>2, PracticeFacts, PlansAreKnown DEF ReadKnownWords, Stepping, At
<1>4. PICK words : words = NewWords(q.todo)
    OBVIOUS
<1>5. words \in Seq(Words) /\ q.todo \in Seq(Words)
    BY <1>3, <1>4, NewWordsAreNew DEF Request
<1>6. Becomes(c, NextWord(q, words)) /\ UNCHANGED <<vocabulary, graph, learningEvents, practised, practiceAsked>>
    BY <1>1, <1>4 DEF ReadKnownWords, Becomes
<1>7. NextWord(q, words) \in Request(n) /\ Planned(NextWord(q, words)) /\ TurnsTo(q, NextWord(q, words), words)
    BY <1>3, <1>5, NextWordFollows DEF Adds
<1> QED
    BY <1>1, <1>2, <1>3, <1>4, <1>5, <1>6, <1>7

\* The event of an added word, or of a reviewed one: the first of two, or the last.
LEMMA RecordEventDoes ==
    ASSUME PracticeTypes, NEW c \in Learners, RecordEvent(c)
    PROVE  \E r \in Request(Len(vocabulary)) :
              /\ Planned(r) /\ Becomes(c, r) /\ At(practising[c], "record")
              /\ \/ /\ Adds(practising[c]) /\ practising[c].plan = RecordPlan /\ GoesOnWith(practising[c], r, ListPlan)
                    /\ learningEvents'.learned = learningEvents.learned + 1
                    /\ learningEvents'.reviewed = learningEvents.reviewed /\ EndsStay
                 \/ /\ practising[c].kind = "review" /\ practising[c].plan \in ReviewPlans
                    /\ learningEvents'.learned = learningEvents.learned
                    /\ learningEvents'.reviewed = learningEvents.reviewed + 1 /\ practised'.cut = practised.cut
                    /\ \/ /\ Len(practising[c].plan) > 1 /\ GoesOnWith(practising[c], r, Tail(practising[c].plan))
                          /\ practised'.answered = practised.answered
                       \/ /\ ~(Len(practising[c].plan) > 1) /\ r = NoPractice
                          /\ practised'.answered = practised.answered + 1
              /\ CountsStay /\ WordsStay /\ practised'.overtaken = practised.overtaken
              /\ learningEvents' \in [learned : Nat, reviewed : Nat]
              /\ practised' \in [scheduled : Seq(Nat), crossed : SUBSET Rows, texted : SUBSET Words, twice : SUBSET Words,
                                 answered : Nat, cut : BOOLEAN, overtaken : BOOLEAN]
              /\ UNCHANGED <<vocabulary, graph, practiceAsked>>
<1>1. PICK q : q = practising[c]
    OBVIOUS
<1>2. PICK n \in Nat \ {0} : n = Len(vocabulary)
    BY PracticeFacts
<1>3. q \in Request(n) /\ Planned(q) /\ At(q, "record") /\ q.plan # <<>>
    BY <1>1, <1>2, PracticeFacts DEF RecordEvent, Stepping, At
<1>4. (Adds(q) /\ q.plan = RecordPlan) \/ (q.kind = "review" /\ q.plan \in ReviewPlans)
    BY <1>3, PlansAreKnown, Zenon
<1>5. AfterStep(q) \in Request(n) /\ Planned(AfterStep(q)) /\ Becomes(c, AfterStep(q))
    BY <1>1, <1>3, StepFollows DEF RecordEvent, Advance, Becomes
<1>6. /\ learningEvents.learned \in Nat /\ learningEvents.reviewed \in Nat /\ practised.answered \in Nat
    BY DEF PracticeTypes
<1>7. UNCHANGED <<vocabulary, graph, practiceAsked>>
    BY DEF RecordEvent
<1>8. CASE Adds(q) /\ q.plan = RecordPlan
    <2>1. q.kind # "review"
        BY <1>8 DEF Adds
    <2>2. learningEvents' = [learningEvents EXCEPT !.learned = @ + 1]
        BY <1>1, <2>1 DEF RecordEvent
    <2>3. practised' = [practised EXCEPT !.answered = @]
        BY <1>1, <2>1 DEF RecordEvent
    <2>4. practised' = practised
        BY <2>3 DEF PracticeTypes
    <2>5. /\ learningEvents' \in [learned : Nat, reviewed : Nat]
          /\ learningEvents'.learned = learningEvents.learned + 1 /\ learningEvents'.reviewed = learningEvents.reviewed
        BY <2>2 DEF PracticeTypes
    <2>6. GoesOnWith(q, AfterStep(q), ListPlan)
        BY <1>3, <1>8, StepFollows
    <2> QED
        BY <1>1, <1>2, <1>3, <1>5, <1>7, <1>8, <2>4, <2>5, <2>6 DEF CountsStay, WordsStay, EndsStay, PracticeTypes
<1>9. CASE q.kind = "review" /\ q.plan \in ReviewPlans
    <2>1. learningEvents' = [learningEvents EXCEPT !.reviewed = @ + 1]
        BY <1>1, <1>9 DEF RecordEvent
    <2>2. /\ learningEvents' \in [learned : Nat, reviewed : Nat]
          /\ learningEvents'.learned = learningEvents.learned /\ learningEvents'.reviewed = learningEvents.reviewed + 1
        BY <2>1 DEF PracticeTypes
    <2>3. PICK a \in Nat : a = IF Len(q.plan) = 1 THEN practised.answered + 1 ELSE practised.answered
        BY <1>6
    <2>4. practised' = [practised EXCEPT !.answered = a]
        BY <1>1, <1>9, <2>3 DEF RecordEvent
    <2>5. /\ CountsStay /\ WordsStay /\ practised'.overtaken = practised.overtaken /\ practised'.answered = a
          /\ practised'.cut = practised.cut
          /\ practised' \in [scheduled : Seq(Nat), crossed : SUBSET Rows, texted : SUBSET Words, twice : SUBSET Words,
                             answered : Nat, cut : BOOLEAN, overtaken : BOOLEAN]
        BY <2>4 DEF PracticeTypes, CountsStay, WordsStay
    <2>6. Len(q.plan) \in Nat /\ (~(Len(q.plan) > 1) => Len(q.plan) = 1) /\ (Len(q.plan) > 1 => Len(q.plan) # 1)
        <3>1. Len(q.plan) \in Nat /\ (~(Len(q.plan) > 1) => Len(q.plan) = 1)
            BY <1>9, ReviewPlansGoOn, Zenon
        <3>2. PICK k \in Nat : k = Len(q.plan)
            BY <3>1
        <3>3. k > 1 => k # 1
            OBVIOUS
        <3> QED
            BY <3>1, <3>2, <3>3, Zenon
    <2>7. CASE Len(q.plan) > 1
        <3>1. GoesOnWith(q, AfterStep(q), Tail(q.plan))
            BY <1>3, <1>9, <2>7, StepFollows
        <3> QED
            BY <1>1, <1>2, <1>3, <1>5, <1>7, <1>9, <2>2, <2>3, <2>5, <2>6, <2>7, <3>1
    <2>8. CASE ~(Len(q.plan) > 1)
        <3>1. AfterStep(q) = NoPractice
            BY <1>3, <1>9, <2>8, StepFollows
        <3> QED
            BY <1>1, <1>2, <1>3, <1>5, <1>7, <1>9, <2>2, <2>3, <2>5, <2>6, <2>8, <3>1
    <2> QED
        BY <2>7, <2>8
<1> QED
    BY <1>4, <1>8, <1>9

LEMMA ListWordsDoes ==
    ASSUME PracticeTypes, NEW c \in Learners, ListWords(c)
    PROVE  \E r \in Request(Len(vocabulary)) :
              /\ Planned(r) /\ Becomes(c, r) /\ At(practising[c], "list") /\ Adds(practising[c])
              /\ practising[c].plan = ListPlan /\ r.plan = DeletePlan /\ r.listed = StoredWords /\ ~r.overtaken
              /\ r.kind = practising[c].kind /\ r.todo = practising[c].todo /\ r.item = practising[c].item
              /\ r.row = practising[c].row /\ r.replaced = practising[c].replaced
              /\ r.learned = practising[c].learned /\ r.stale = practising[c].stale
              /\ UNCHANGED <<vocabulary, graph, learningEvents, practised, practiceAsked>>
<1>1. PICK q : q = practising[c]
    OBVIOUS
<1>2. PICK n \in Nat \ {0} : n = Len(vocabulary)
    BY PracticeFacts
<1>3. q \in Request(n) /\ Planned(q) /\ At(q, "list") /\ q.plan # <<>> /\ Adds(q) /\ q.plan = ListPlan
    BY <1>1, <1>2, PracticeFacts, PlansAreKnown DEF ListWords, Stepping, At
<1>4. PICK w : w = [q EXCEPT !.listed = StoredWords, !.overtaken = FALSE]
    OBVIOUS
<1>5. /\ w \in Request(n) /\ w.kind = q.kind /\ w.plan = q.plan /\ w.todo = q.todo /\ w.learned = q.learned
      /\ w.listed = StoredWords /\ ~w.overtaken /\ w.item = q.item /\ w.row = q.row /\ w.replaced = q.replaced
      /\ w.stale = q.stale
    BY <1>3, <1>4, PracticeFacts DEF Request
<1>6. Becomes(c, AfterStep(w)) /\ UNCHANGED <<vocabulary, graph, learningEvents, practised, practiceAsked>>
    BY <1>1, <1>4 DEF ListWords, Advance, Becomes, StoredWords
<1>7. /\ Planned(w) /\ w.plan # <<>> /\ AfterStep(w) \in Request(n) /\ Planned(AfterStep(w)) /\ At(w, "list")
    BY <1>3, <1>5, StepFollowsChange
<1>8. GoesOnWith(w, AfterStep(w), DeletePlan)
    BY <1>5, <1>7, StepFollows
<1> QED
    BY <1>1, <1>2, <1>3, <1>5, <1>6, <1>7, <1>8 DEF GoesOnWith, Like

LEMMA DeleteEdgesDoes ==
    ASSUME PracticeTypes, NEW c \in Learners, DeleteEdges(c)
    PROVE  \E r \in Request(Len(vocabulary)) :
              /\ Planned(r) /\ Becomes(c, r) /\ At(practising[c], "delete") /\ Adds(practising[c])
              /\ practising[c].plan = DeletePlan /\ r.plan = ConnectPlan /\ r.replaced = graph
              /\ r.kind = practising[c].kind /\ r.todo = practising[c].todo /\ r.item = practising[c].item
              /\ r.row = practising[c].row /\ r.listed = practising[c].listed /\ r.overtaken = practising[c].overtaken
              /\ r.learned = practising[c].learned /\ r.stale = practising[c].stale
              /\ UNCHANGED <<vocabulary, graph, learningEvents, practised, practiceAsked>>
<1>1. PICK q : q = practising[c]
    OBVIOUS
<1>2. PICK n \in Nat \ {0} : n = Len(vocabulary)
    BY PracticeFacts
<1>3. q \in Request(n) /\ Planned(q) /\ At(q, "delete") /\ q.plan # <<>> /\ Adds(q) /\ q.plan = DeletePlan
    BY <1>1, <1>2, PracticeFacts, PlansAreKnown DEF DeleteEdges, Stepping, At
<1>4. PICK w : w = [q EXCEPT !.replaced = graph]
    OBVIOUS
<1>5. graph \subseteq Words \X (1 .. n)
    BY <1>2, PracticeFacts DEF PracticeTypes
<1>6. /\ w \in Request(n) /\ w.kind = q.kind /\ w.plan = q.plan /\ w.todo = q.todo /\ w.learned = q.learned
      /\ w.listed = q.listed /\ w.overtaken = q.overtaken /\ w.item = q.item /\ w.row = q.row /\ w.replaced = graph
      /\ w.stale = q.stale
    BY <1>3, <1>4, <1>5 DEF Request
<1>7. Becomes(c, AfterStep(w)) /\ UNCHANGED <<vocabulary, graph, learningEvents, practised, practiceAsked>>
    BY <1>1, <1>4 DEF DeleteEdges, Advance, Becomes
<1>8. /\ Planned(w) /\ w.plan # <<>> /\ AfterStep(w) \in Request(n) /\ Planned(AfterStep(w)) /\ At(w, "delete")
    BY <1>3, <1>6, StepFollowsChange
<1>9. GoesOnWith(w, AfterStep(w), ConnectPlan)
    BY <1>6, <1>8, StepFollows
<1> QED
    BY <1>1, <1>2, <1>3, <1>6, <1>7, <1>8, <1>9 DEF GoesOnWith, Like

LEMMA ConnectWordsDoes ==
    ASSUME PracticeTypes, NEW c \in Learners, ConnectWords(c)
    PROVE  \E r \in Request(Len(vocabulary)), w \in Request(Len(vocabulary)) :
              /\ Planned(r) /\ Becomes(c, r) /\ At(practising[c], "connect") /\ Adds(practising[c])
              /\ practising[c].plan = ConnectPlan /\ TurnsTo(w, r, Tail(w.todo))
              /\ w.kind = practising[c].kind /\ w.todo = practising[c].todo /\ w.item = practising[c].item
              /\ w.row = practising[c].row /\ w.learned = practising[c].learned /\ w.stale = practising[c].stale
              /\ w.listed = {} /\ w.replaced = {} /\ ~w.overtaken
              /\ graph' = (graph \ practising[c].replaced) \cup {<<v, practising[c].item>> : v \in practising[c].listed}
              /\ graph' \subseteq Words \X Rows
              /\ CountsStay /\ WordsStay /\ EndsStay
              /\ practised'.overtaken <=> (practised.overtaken \/ practising[c].overtaken \/ ~(graph \subseteq practising[c].replaced))
              /\ practised' \in [scheduled : Seq(Nat), crossed : SUBSET Rows, texted : SUBSET Words, twice : SUBSET Words,
                                 answered : Nat, cut : BOOLEAN, overtaken : BOOLEAN]
              /\ UNCHANGED <<vocabulary, learningEvents, practiceAsked>>
<1>1. PICK q : q = practising[c]
    OBVIOUS
<1>2. PICK n \in Nat \ {0} : n = Len(vocabulary) /\ Rows = 1 .. n
    BY PracticeFacts
<1>3. q \in Request(n) /\ Planned(q) /\ At(q, "connect") /\ q.plan # <<>> /\ Adds(q) /\ q.plan = ConnectPlan
    BY <1>1, <1>2, PracticeFacts, PlansAreKnown DEF ConnectWords, Stepping, At
<1>4. PICK w : w = [q EXCEPT !.listed = {}, !.replaced = {}, !.overtaken = FALSE]
    OBVIOUS
<1>5. /\ w \in Request(n) /\ w.kind = q.kind /\ w.plan = q.plan /\ w.todo = q.todo /\ w.learned = q.learned
      /\ w.listed = {} /\ ~w.overtaken /\ w.item = q.item /\ w.row = q.row /\ w.replaced = {} /\ w.stale = q.stale
    BY <1>3, <1>4 DEF Request
<1>6. /\ Becomes(c, AfterStep(w)) /\ UNCHANGED <<vocabulary, learningEvents, practiceAsked>>
      /\ graph' = (graph \ q.replaced) \cup {<<v, q.item>> : v \in q.listed}
    BY <1>1, <1>4 DEF ConnectWords, Advance, Becomes
<1>7. /\ Planned(w) /\ w.plan # <<>> /\ AfterStep(w) \in Request(n) /\ Planned(AfterStep(w)) /\ At(w, "connect")
    BY <1>3, <1>5, StepFollowsChange
<1>8. TurnsTo(w, AfterStep(w), Tail(w.todo))
    BY <1>5, <1>7, StepFollows
<1>9. graph' \subseteq Words \X Rows
    <2>1. graph \subseteq Words \X Rows /\ q.listed \subseteq Words /\ q.item \in Rows
        BY <1>2, <1>3 DEF PracticeTypes, Request
    <2> QED
        BY <1>6, <2>1
<1>10. PICK o \in BOOLEAN : o <=> (practised.overtaken \/ q.overtaken \/ ~(graph \subseteq q.replaced))
    OBVIOUS
<1>11. practised' = [practised EXCEPT !.overtaken = o]
    <2>1. practised' = [practised EXCEPT !.overtaken = practised.overtaken \/ q.overtaken \/ ~(graph \subseteq q.replaced)]
        BY <1>1 DEF ConnectWords
    <2>2. o = (practised.overtaken \/ q.overtaken \/ ~(graph \subseteq q.replaced))
        BY <1>10
    <2> QED
        BY <2>1, <2>2
<1>12. /\ CountsStay /\ WordsStay /\ EndsStay /\ practised'.overtaken = o
       /\ practised' \in [scheduled : Seq(Nat), crossed : SUBSET Rows, texted : SUBSET Words, twice : SUBSET Words,
                          answered : Nat, cut : BOOLEAN, overtaken : BOOLEAN]
    BY <1>11 DEF PracticeTypes, CountsStay, WordsStay, EndsStay
<1> QED
    BY <1>1, <1>2, <1>3, <1>5, <1>6, <1>7, <1>8, <1>9, <1>10, <1>12

LEMMA ReadWordDoes ==
    ASSUME PracticeTypes, NEW c \in Learners, ReadWord(c)
    PROVE  \E r \in Request(Len(vocabulary)) :
              /\ Planned(r) /\ Becomes(c, r) /\ At(practising[c], "read")
              /\ r.row = vocabulary[r.item] /\ ~r.stale
              /\ r.kind = practising[c].kind /\ r.todo = practising[c].todo /\ r.listed = practising[c].listed
              /\ r.replaced = practising[c].replaced /\ r.overtaken = practising[c].overtaken
              /\ \/ r.kind = "talk" /\ practising[c].plan = KeepPlan /\ r.plan = KeptPlan
                 \/ /\ r.kind = "review" /\ practising[c].plan \in ReviewPlans /\ r.plan = Tail(practising[c].plan)
                    /\ r.plan \in ReviewPlans
              /\ UNCHANGED <<vocabulary, graph, learningEvents, practised, practiceAsked>>
<1>1. PICK q : q = practising[c]
    OBVIOUS
<1>2. PICK n \in Nat \ {0} : n = Len(vocabulary) /\ Rows = 1 .. n
    BY PracticeFacts
<1>3. q \in Request(n) /\ Planned(q) /\ At(q, "read") /\ q.plan # <<>>
    BY <1>1, <1>2, PracticeFacts DEF ReadWord, Stepping, At
<1>4. (q.kind = "talk" /\ q.plan = KeepPlan) \/ (q.kind = "review" /\ q.plan \in ReviewPlans)
    BY <1>3, PlansAreKnown, Zenon
<1>5. UNCHANGED <<vocabulary, graph, learningEvents, practised, practiceAsked>>
    BY DEF ReadWord
<1>6. CASE q.kind = "talk" /\ q.plan = KeepPlan
    <2>1. q.learned \in Seq(1 .. n) /\ q.learned # <<>> /\ q.todo = <<>>
        <3>1. KeepsLearned(q)
            BY <1>3, <1>6, Zenon DEF KeepsLearned
        <3>2. q.learned # <<>> /\ q.todo = <<>>
            BY <1>3, <3>1, Zenon DEF Planned
        <3> QED
            BY <1>3, <3>2 DEF Request
    <2>2. PICK i \in 1 .. n, l \in Seq(1 .. n) : i = Head(q.learned) /\ l = Tail(q.learned)
        <3>1. \A S : \A s \in Seq(S) : s # <<>> => Head(s) \in S /\ Tail(s) \in Seq(S)
            OBVIOUS
        <3>2. Head(q.learned) \in 1 .. n /\ Tail(q.learned) \in Seq(1 .. n)
            BY <2>1, <3>1, Zenon
        <3> QED
            BY <3>2, Zenon
    <2>3. PICK w : w = [q EXCEPT !.item = i, !.learned = l, !.row = vocabulary[i], !.stale = FALSE]
        OBVIOUS
    <2>4. vocabulary[i] \in CountedRow
        BY <1>2, PracticeFacts
    <2>5. /\ w \in Request(n) /\ w.kind = q.kind /\ w.plan = q.plan /\ w.todo = q.todo /\ w.learned = l
          /\ w.item = i /\ w.row = vocabulary[i] /\ ~w.stale /\ w.listed = q.listed /\ w.replaced = q.replaced
          /\ w.overtaken = q.overtaken
        BY <1>3, <2>3, <2>4 DEF Request
    <2>6. PICK at : at = [q EXCEPT !.item = Head(q.learned), !.learned = Tail(@)]
        OBVIOUS
    <2>7. at.item = i
        BY <1>3, <2>2, <2>6 DEF Request
    <2>8. w = [at EXCEPT !.row = RowRead(at), !.stale = FALSE]
        BY <1>3, <2>2, <2>3, <2>6, <2>7 DEF RowRead, Request
    <2>9. Becomes(c, AfterStep(w))
        BY <1>1, <1>6, <2>6, <2>8 DEF ReadWord, Advance, Becomes
    <2>10. Len(w.plan) > 1 /\ Tail(w.plan) = KeptPlan /\ KeptPlan \in Seq(StepNames) /\ KeptPlan \in KeepingPlans
           /\ KeptPlan # KeepPlan
        <3>1. KeepPlan \in KeepingPlans /\ KeptPlan \in KeepingPlans
            BY DEF KeepingPlans
        <3> QED
            BY <1>6, <2>5, <3>1, KeepingPlansGoOn, PlansBegin, Zenon
    <2>11. PICK r : r = [w EXCEPT !.plan = KeptPlan]
        OBVIOUS
    <2>12. AfterStep(w) = r
        BY <2>10, <2>11 DEF AfterStep
    <2>13. /\ r \in Request(n) /\ r.kind = q.kind /\ r.plan = KeptPlan /\ r.todo = q.todo
           /\ r.item = i /\ r.row = vocabulary[i] /\ ~r.stale /\ r.listed = q.listed /\ r.replaced = q.replaced
           /\ r.overtaken = q.overtaken
        BY <2>5, <2>10, <2>11 DEF Request
    <2>14. Planned(r)
        BY <1>6, <2>1, <2>10, <2>13, KeepingIsPlanned
    <2> QED
        BY <1>1, <1>2, <1>3, <1>5, <1>6, <2>9, <2>12, <2>13, <2>14
<1>7. CASE q.kind = "review" /\ q.plan \in ReviewPlans
    <2>1. PICK w : w = [q EXCEPT !.row = RowRead(q), !.stale = FALSE]
        OBVIOUS
    <2>2. RowRead(q) \in CountedRow /\ RowRead(q) = vocabulary[q.item]
        <3>1. q.item \in 1 .. n
            BY <1>3 DEF Request
        <3> QED
            BY <1>2, <3>1, PracticeFacts DEF RowRead
    <2>3. /\ w \in Request(n) /\ w.kind = q.kind /\ w.plan = q.plan /\ w.todo = q.todo /\ w.learned = q.learned
          /\ w.item = q.item /\ w.row = vocabulary[q.item] /\ ~w.stale /\ w.listed = q.listed
          /\ w.replaced = q.replaced /\ w.overtaken = q.overtaken
        BY <1>3, <2>1, <2>2 DEF Request
    <2>4. Becomes(c, AfterStep(w))
        BY <1>1, <1>7, <2>1 DEF ReadWord, Advance, Becomes
    <2>5. /\ Planned(w) /\ w.plan # <<>> /\ AfterStep(w) \in Request(n) /\ Planned(AfterStep(w)) /\ At(w, "read")
        BY <1>3, <2>3, StepFollowsChange
    <2>6. Len(w.plan) > 1 /\ Tail(w.plan) \in ReviewPlans
        BY <1>3, <1>7, <2>3, ReviewPlansGoOn, Zenon DEF At
    <2>7. GoesOnWith(w, AfterStep(w), Tail(w.plan))
        BY <1>7, <2>3, <2>5, <2>6, StepFollows
    <2> QED
        BY <1>1, <1>2, <1>3, <1>5, <1>7, <2>3, <2>4, <2>5, <2>6, <2>7 DEF GoesOnWith, Like
<1> QED
    BY <1>4, <1>6, <1>7

\* The others that have looked for the word, or have listed the words, do not see it.
LEMMA UnawareOfWordDoes ==
    ASSUME PracticeTypes, NEW w, NEW o \in Learners
    PROVE  /\ UnawareOfWord(w)[o] \in Request(Len(vocabulary)) /\ Planned(UnawareOfWord(w)[o])
           /\ Stays(practising[o], UnawareOfWord(w)[o])
           /\ UnawareOfWord(w)[o].stale <=>
                (\/ practising[o].stale
                 \/ /\ practising[o].kind \in {"batch", "talk"}
                    /\ ~At(practising[o], "exists") /\ ~At(practising[o], "known")
                    /\ \E k \in 1 .. Len(practising[o].todo) : practising[o].todo[k] = w)
           /\ UnawareOfWord(w)[o].overtaken <=> (practising[o].overtaken \/ At(practising[o], "delete"))
<1>1. PICK p : p = practising[o]
    OBVIOUS
<1>2. p \in Request(Len(vocabulary)) /\ Planned(p)
    BY <1>1, PracticeFacts
<1>3. PICK s \in BOOLEAN : s <=> (\/ p.stale
                                  \/ /\ p.kind \in {"batch", "talk"} /\ ~At(p, "exists") /\ ~At(p, "known")
                                     /\ \E k \in 1 .. Len(p.todo) : p.todo[k] = w)
    OBVIOUS
<1>4. PICK t \in BOOLEAN : t <=> (p.overtaken \/ At(p, "delete"))
    OBVIOUS
<1>5. p.stale \in BOOLEAN /\ p.overtaken \in BOOLEAN
    BY <1>2 DEF Request
<1>6. UnawareOfWord(w)[o] = [p EXCEPT !.stale = s, !.overtaken = t]
    <2>1. UnawareOfWord(w)[o] =
            [p EXCEPT !.stale = IF (p.kind \in {"batch", "talk"} /\ ~At(p, "exists") /\ ~At(p, "known"))
                                    /\ \E k \in 1 .. Len(p.todo) : p.todo[k] = w THEN TRUE ELSE @,
                      !.overtaken = @ \/ At(p, "delete")]
        BY <1>1 DEF UnawareOfWord, Stepping, At
    <2>2. s = IF (p.kind \in {"batch", "talk"} /\ ~At(p, "exists") /\ ~At(p, "known"))
                 /\ \E k \in 1 .. Len(p.todo) : p.todo[k] = w THEN TRUE ELSE p.stale
        BY <1>3, <1>5
    <2>3. t = (p.overtaken \/ At(p, "delete"))
        BY <1>4, <1>5
    <2> QED
        BY <1>2, <2>1, <2>2, <2>3 DEF Request
<1>7. PICK r : r = UnawareOfWord(w)[o]
    OBVIOUS
<1>8. r \in Request(Len(vocabulary)) /\ Stays(p, r) /\ r.stale = s /\ r.overtaken = t
    BY <1>2, <1>6, <1>7 DEF Request, Stays
<1>9. Planned(r)
    BY <1>2, <1>8, PlannedAlike DEF Stays
<1> QED
    BY <1>1, <1>3, <1>4, <1>7, <1>8, <1>9

LEMMA UnawareOfRowDoes ==
    ASSUME PracticeTypes, NEW i, NEW o \in Learners
    PROVE  /\ UnawareOfRow(i)[o] \in Request(Len(vocabulary)) /\ Planned(UnawareOfRow(i)[o])
           /\ Stays(practising[o], UnawareOfRow(i)[o])
           /\ UnawareOfRow(i)[o].stale <=>
                (\/ practising[o].stale
                 \/ practising[o].item = i /\ (At(practising[o], "write") \/ At(practising[o], "keep")))
           /\ UnawareOfRow(i)[o].overtaken = practising[o].overtaken
<1>1. PICK p : p = practising[o]
    OBVIOUS
<1>2. p \in Request(Len(vocabulary)) /\ Planned(p)
    BY <1>1, PracticeFacts
<1>3. PICK s \in BOOLEAN : s <=> (p.stale \/ (p.item = i /\ (At(p, "write") \/ At(p, "keep"))))
    OBVIOUS
<1>4. p.stale \in BOOLEAN
    BY <1>2 DEF Request
<1>5. UnawareOfRow(i)[o] = [p EXCEPT !.stale = s]
    <2>1. UnawareOfRow(i)[o] = [p EXCEPT !.stale = @ \/ (p.item = i /\ (At(p, "write") \/ At(p, "keep")))]
        BY <1>1 DEF UnawareOfRow, Stepping, At
    <2>2. s = (p.stale \/ (p.item = i /\ (At(p, "write") \/ At(p, "keep"))))
        BY <1>3, <1>4
    <2> QED
        BY <1>2, <2>1, <2>2 DEF Request
<1>6. PICK r : r = UnawareOfRow(i)[o]
    OBVIOUS
<1>7. r \in Request(Len(vocabulary)) /\ Stays(p, r) /\ r.stale = s /\ r.overtaken = p.overtaken
    BY <1>2, <1>5, <1>6 DEF Request, Stays
<1>8. Planned(r)
    BY <1>2, <1>7, PlannedAlike DEF Stays
<1> QED
    BY <1>1, <1>3, <1>6, <1>7, <1>8

\* Of an insert of the next word.
WordInserted(c, r) ==
    /\ Planned(r) /\ practising'[c] = r /\ Adds(practising[c]) /\ At(practising[c], "insert")
    /\ practising[c].plan = TextPlan /\ practising[c].todo \in Seq(Words) /\ practising[c].todo # <<>>
    /\ r.kind = practising[c].kind /\ r.plan = RecordPlan /\ r.todo = practising[c].todo
    /\ r.item = Len(vocabulary) + 1 /\ r.row = practising[c].row /\ r.listed = practising[c].listed
    /\ r.replaced = practising[c].replaced /\ r.stale = practising[c].stale
    /\ r.overtaken = practising[c].overtaken
    /\ practising' \in [Learners -> Request(Len(vocabulary) + 1)]
    /\ \A o \in Learners \ {c} : practising'[o] = UnawareOfWord(Head(practising[c].todo))[o]
    /\ vocabulary' = Append(vocabulary, NewWordRow(Head(practising[c].todo)))
    /\ NewWordRow(Head(practising[c].todo)) \in CountedRow
    /\ practised'.scheduled = Append(practised.scheduled, 0) /\ practised'.crossed = practised.crossed
    /\ practised'.texted = practised.texted
    /\ practised'.twice = (IF practising[c].stale THEN practised.twice \cup {Head(practising[c].todo)}
                           ELSE practised.twice)
    /\ EndsStay /\ practised'.overtaken = practised.overtaken
    /\ practised' \in [scheduled : Seq(Nat), crossed : SUBSET Rows, texted : SUBSET Words, twice : SUBSET Words,
                       answered : Nat, cut : BOOLEAN, overtaken : BOOLEAN]
    /\ UNCHANGED <<graph, learningEvents, practiceAsked>>

LEMMA InsertWordDoes ==
    ASSUME PracticeTypes, NEW c \in Learners, InsertWord(c)
    PROVE  \E r \in Request(Len(vocabulary) + 1) : WordInserted(c, r)
<1>1. PICK q : q = practising[c]
    OBVIOUS
<1>2. PICK n \in Nat \ {0} : n = Len(vocabulary) /\ Rows = 1 .. n
    BY PracticeFacts
<1>3. q \in Request(n) /\ Planned(q) /\ At(q, "insert") /\ q.plan # <<>> /\ Adds(q) /\ q.plan = TextPlan
    BY <1>1, <1>2, PracticeFacts, PlansAreKnown DEF InsertWord, Stepping, At
<1>4. q.todo \in Seq(Words) /\ q.todo # <<>>
    <2>1. ~KeepsLearned(q)
        BY <1>3, AddingPlansGoOn, Zenon DEF KeepsLearned, At, AddingPlans
    <2> QED
        BY <1>3, <2>1 DEF Request, Planned
<1>5. PICK w \in Words : w = Head(q.todo)
    BY <1>4
<1>6. NewWordRow(w) \in CountedRow
    BY DEF NewWordRow, CountedRow, WordRow
<1>7. PICK i \in 1 .. (n + 1) : i = Len(vocabulary) + 1
    BY <1>2
<1>8. q.learned \in Seq(1 .. (n + 1)) /\ q \in Request(n + 1)
    <2>1. q \in Request(n + 1)
        BY <1>3, TablesGrow
    <2> QED
        BY <2>1 DEF Request
<1>9. PICK l \in Seq(1 .. (n + 1)) : l = IF q.kind = "talk" THEN Append(q.learned, i) ELSE q.learned
    <2>1. \A S : \A s \in Seq(S), e \in S : Append(s, e) \in Seq(S)
        OBVIOUS
    <2>2. Append(q.learned, i) \in Seq(1 .. (n + 1))
        BY <1>8, <2>1, Zenon
    <2> QED
        BY <1>8, <2>2, Zenon
<1>10. PICK next : next = [q EXCEPT !.item = i, !.learned = l]
    OBVIOUS
<1>11. /\ next \in Request(n + 1) /\ next.kind = q.kind /\ next.plan = q.plan /\ next.todo = q.todo
       /\ next.item = i /\ next.row = q.row /\ next.listed = q.listed /\ next.replaced = q.replaced
       /\ next.stale = q.stale /\ next.overtaken = q.overtaken /\ next.learned = l
    BY <1>8, <1>10 DEF Request
<1>12. q.kind # "talk" => next.learned = <<>>
    BY <1>3, <1>9, <1>11 DEF Planned
<1>13. Planned(next) /\ next.plan # <<>> /\ At(next, "insert")
    <2>1. TextPlan \in AddingPlans
        BY DEF AddingPlans
    <2> QED
        BY <1>3, <1>4, <1>11, <1>12, <2>1, AddingIsPlanned DEF Adds, At
<1>14. /\ AfterStep(next) \in Request(n + 1) /\ Planned(AfterStep(next))
       /\ GoesOnWith(next, AfterStep(next), RecordPlan)
    BY <1>11, <1>13, StepFollows
<1>15. /\ vocabulary' = Append(vocabulary, NewWordRow(w))
       /\ practised' = [practised EXCEPT !.scheduled = Append(@, 0),
                                         !.twice = IF q.stale THEN @ \cup {w} ELSE @]
       /\ practising' = [UnawareOfWord(w) EXCEPT ![c] = AfterStep(next)]
       /\ UNCHANGED <<graph, learningEvents, practiceAsked>>
    BY <1>1, <1>5, <1>7, <1>9, <1>10 DEF InsertWord
<1>16. UnawareOfWord(w) \in [Learners -> Request(n + 1)]
    <2>1. \A o \in Learners : UnawareOfWord(w)[o] \in Request(n)
        BY <1>2, UnawareOfWordDoes
    <2>2. Request(n) \subseteq Request(n + 1)
        BY TablesGrow
    <2>3. UnawareOfWord(w) = [o \in Learners |-> UnawareOfWord(w)[o]]
        BY DEF UnawareOfWord
    <2> QED
        BY <2>1, <2>2, <2>3, Zenon
<1>17. /\ practising' \in [Learners -> Request(n + 1)] /\ practising'[c] = AfterStep(next)
       /\ \A o \in Learners \ {c} : practising'[o] = UnawareOfWord(w)[o]
    BY <1>14, <1>15, <1>16
<1>18. PICK t \in SUBSET Words : t = IF q.stale THEN practised.twice \cup {w} ELSE practised.twice
    BY DEF PracticeTypes
<1>19. PICK s \in Seq(Nat) : s = Append(practised.scheduled, 0)
    <2>1. practised.scheduled \in Seq(Nat)
        BY DEF PracticeTypes
    <2>2. \A v \in Seq(Nat) : Append(v, 0) \in Seq(Nat)
        OBVIOUS
    <2> QED
        BY <2>1, <2>2, Zenon
<1>20. practised' = [practised EXCEPT !.scheduled = s, !.twice = t]
    BY <1>15, <1>18, <1>19 DEF PracticeTypes
<1>21. /\ EndsStay /\ practised'.overtaken = practised.overtaken /\ practised'.scheduled = s
       /\ practised'.crossed = practised.crossed /\ practised'.texted = practised.texted /\ practised'.twice = t
       /\ practised' \in [scheduled : Seq(Nat), crossed : SUBSET Rows, texted : SUBSET Words, twice : SUBSET Words,
                          answered : Nat, cut : BOOLEAN, overtaken : BOOLEAN]
    BY <1>20 DEF PracticeTypes, EndsStay
<1> QED
    BY <1>1, <1>2, <1>3, <1>4, <1>5, <1>6, <1>7, <1>11, <1>14, <1>15, <1>17, <1>18, <1>19, <1>21 DEF GoesOnWith, Like, WordInserted

\* Of a write of the row at hand, by a review or after a conversation.
RowWritten(c, row, r, w) ==
    /\ Planned(r) /\ practising'[c] = r
    /\ w.kind = practising[c].kind /\ w.todo = practising[c].todo /\ w.item = practising[c].item
    /\ w.learned = practising[c].learned /\ w.stale = practising[c].stale /\ w.listed = practising[c].listed
    /\ w.replaced = practising[c].replaced /\ w.overtaken = practising[c].overtaken /\ w.row = row
    /\ \/ /\ practising[c].kind = "review" /\ practising[c].plan \in ReviewPlans
          /\ At(practising[c], "write") /\ GoesOnWith(w, r, Tail(practising[c].plan))
       \/ /\ practising[c].kind = "talk" /\ practising[c].plan = KeptPlan
          /\ At(practising[c], "keep") /\ TurnsTo(w, r, <<>>)
    /\ practising' \in [Learners -> Request(Len(vocabulary))]
    /\ \A o \in Learners \ {c} : practising'[o] = UnawareOfRow(practising[c].item)[o]
    /\ practising[c].item \in Rows /\ vocabulary' = [vocabulary EXCEPT ![practising[c].item] = row]
    /\ practised'.scheduled =
          (IF practising[c].kind = "review"
           THEN [practised.scheduled EXCEPT ![practising[c].item] = @ + 1] ELSE practised.scheduled)
    /\ practised'.crossed = (IF practising[c].stale THEN practised.crossed \cup {practising[c].item}
                             ELSE practised.crossed)
    /\ WordsStay /\ EndsStay /\ practised'.overtaken = practised.overtaken
    /\ practised' \in [scheduled : Seq(Nat), crossed : SUBSET Rows, texted : SUBSET Words, twice : SUBSET Words,
                       answered : Nat, cut : BOOLEAN, overtaken : BOOLEAN]
    /\ UNCHANGED <<graph, learningEvents, practiceAsked>>

LEMMA WriteRowDoes ==
    ASSUME PracticeTypes, NEW c \in Learners, NEW row \in CountedRow, WriteRow(c, row),
           At(practising[c], "write") \/ At(practising[c], "keep")
    PROVE  \E r, w \in Request(Len(vocabulary)) : RowWritten(c, row, r, w)
<1>1. PICK q : q = practising[c]
    OBVIOUS
<1>2. PICK n \in Nat \ {0} : n = Len(vocabulary) /\ Rows = 1 .. n
    BY PracticeFacts
<1>3. q \in Request(n) /\ Planned(q) /\ q.plan # <<>> /\ (At(q, "write") \/ At(q, "keep"))
    BY <1>1, <1>2, PracticeFacts DEF At
<1>4. \/ q.kind = "review" /\ q.plan \in ReviewPlans /\ At(q, "write")
      \/ q.kind = "talk" /\ q.plan = KeptPlan /\ At(q, "keep")
    BY <1>3, PlansAreKnown, Zenon
<1>5. PICK i \in 1 .. n : i = q.item
    BY <1>3 DEF Request
<1>6. PICK w : w = [q EXCEPT !.row = row]
    OBVIOUS
<1>7. /\ w \in Request(n) /\ w.kind = q.kind /\ w.plan = q.plan /\ w.todo = q.todo /\ w.item = i
      /\ w.learned = q.learned /\ w.stale = q.stale /\ w.listed = q.listed /\ w.replaced = q.replaced
      /\ w.overtaken = q.overtaken /\ w.row = row
    BY <1>3, <1>5, <1>6 DEF Request
<1>8. /\ Planned(w) /\ w.plan # <<>> /\ AfterStep(w) \in Request(n) /\ Planned(AfterStep(w))
      /\ \A step : At(w, step) <=> At(q, step)
    BY <1>3, <1>7, StepFollowsChange
<1>9. \/ q.kind = "review" /\ q.plan \in ReviewPlans /\ At(q, "write") /\ GoesOnWith(w, AfterStep(w), Tail(q.plan))
      \/ q.kind = "talk" /\ q.plan = KeptPlan /\ At(q, "keep") /\ TurnsTo(w, AfterStep(w), <<>>)
    <2>1. q.kind = "review" /\ q.plan \in ReviewPlans /\ At(q, "write") => Len(w.plan) > 1
        BY <1>7, ReviewPlansGoOn, Zenon DEF At
    <2> QED
        BY <1>4, <1>7, <1>8, <2>1, StepFollows
<1>10. /\ vocabulary' = [vocabulary EXCEPT ![i] = row]
       /\ practised' = [practised EXCEPT !.scheduled[i] = IF q.kind = "review" THEN @ + 1 ELSE @,
                                         !.crossed = IF q.stale THEN @ \cup {i} ELSE @]
       /\ practising' = [UnawareOfRow(i) EXCEPT ![c] = AfterStep(w)]
       /\ UNCHANGED <<graph, learningEvents, practiceAsked>>
    BY <1>1, <1>5, <1>6 DEF WriteRow
<1>11. UnawareOfRow(i) \in [Learners -> Request(n)]
    <2>1. \A o \in Learners : UnawareOfRow(i)[o] \in Request(n)
        BY <1>2, UnawareOfRowDoes
    <2>2. UnawareOfRow(i) = [o \in Learners |-> UnawareOfRow(i)[o]]
        BY DEF UnawareOfRow
    <2> QED
        BY <2>1, <2>2, Zenon
<1>12. /\ practising' \in [Learners -> Request(n)] /\ practising'[c] = AfterStep(w)
       /\ \A o \in Learners \ {c} : practising'[o] = UnawareOfRow(i)[o]
    BY <1>8, <1>10, <1>11
<1>13. practised.scheduled \in Seq(Nat) /\ Len(practised.scheduled) = n /\ practised.crossed \subseteq Rows
    BY <1>2 DEF PracticeTypes
<1>14. PICK s \in Seq(Nat) : s = IF q.kind = "review" THEN [practised.scheduled EXCEPT ![i] = @ + 1]
                                 ELSE practised.scheduled
    <2>1. \A v \in Seq(Nat) : i \in 1 .. Len(v) => [v EXCEPT ![i] = @ + 1] \in Seq(Nat)
        <3>1. SUFFICES ASSUME NEW v \in Seq(Nat), i \in 1 .. Len(v)
                       PROVE  [v EXCEPT ![i] = @ + 1] \in Seq(Nat)
            OBVIOUS
        <3>2. v[i] \in Nat
            BY <3>1
        <3>3. PICK e \in Nat : e = v[i] + 1
            BY <3>2
        <3>4. [v EXCEPT ![i] = e] \in Seq(Nat)
            BY <3>1
        <3>5. [v EXCEPT ![i] = @ + 1] = [v EXCEPT ![i] = e]
            BY <3>3, Zenon
        <3> QED
            BY <3>4, <3>5, Zenon
    <2>2. [practised.scheduled EXCEPT ![i] = @ + 1] \in Seq(Nat)
        BY <1>13, <2>1, Zenon
    <2> QED
        BY <1>13, <2>2, Zenon
<1>15. PICK x \in SUBSET Rows : x = IF q.stale THEN practised.crossed \cup {i} ELSE practised.crossed
    BY <1>2, <1>13
<1>16. practised' = [practised EXCEPT !.scheduled = s, !.crossed = x]
    <2>1. CASE q.kind = "review"
        BY <1>10, <1>14, <1>15, <2>1 DEF PracticeTypes
    <2>2. CASE q.kind # "review"
        <3>1. [practised.scheduled EXCEPT ![i] = @] = practised.scheduled
            BY <1>13
        <3>2. practised' = [practised EXCEPT !.scheduled = [practised.scheduled EXCEPT ![i] = @], !.crossed = x]
            BY <1>10, <1>15, <2>2 DEF PracticeTypes
        <3> QED
            BY <1>14, <2>2, <3>1, <3>2
    <2> QED
        BY <2>1, <2>2
<1>17. /\ WordsStay /\ EndsStay /\ practised'.overtaken = practised.overtaken /\ practised'.scheduled = s
       /\ practised'.crossed = x
       /\ practised' \in [scheduled : Seq(Nat), crossed : SUBSET Rows, texted : SUBSET Words, twice : SUBSET Words,
                          answered : Nat, cut : BOOLEAN, overtaken : BOOLEAN]
    BY <1>16 DEF PracticeTypes, WordsStay, EndsStay
<1>18. i \in Rows
    BY <1>2
<1>19. AfterStep(w) \in Request(Len(vocabulary)) /\ w \in Request(Len(vocabulary)) /\ practising' \in [Learners -> Request(Len(vocabulary))]
    BY <1>2, <1>7, <1>8, <1>12
<1> QED
    BY <1>1, <1>5, <1>7, <1>8, <1>9, <1>10, <1>12, <1>14, <1>15, <1>17, <1>18, <1>19, ZenonT(60) DEF RowWritten

LEMMA PractiseFailsDoes ==
    ASSUME PracticeTypes, NEW c \in Learners, PractiseFails(c)
    PROVE  \E r \in Request(Len(vocabulary)), w \in Request(Len(vocabulary)) :
              /\ Planned(r) /\ Becomes(c, r) /\ practising[c].plan # <<>>
              /\ \/ r = NoPractice
                 \/ /\ practising[c].kind = "talk" /\ practising[c].plan \in AddingPlans
                    /\ practising[c].todo \in Seq(Words) /\ practising[c].todo # <<>>
                    /\ w.kind = "talk" /\ w.todo = practising[c].todo /\ w.stale = practising[c].stale
                    /\ w.row = practising[c].row /\ w.listed = {} /\ w.replaced = {} /\ ~w.overtaken
                    /\ TurnsTo(w, r, Tail(w.todo))
              /\ practised'.cut
              /\ CountsStay /\ WordsStay /\ practised'.answered = practised.answered
              /\ practised'.overtaken = practised.overtaken
              /\ practised' \in [scheduled : Seq(Nat), crossed : SUBSET Rows, texted : SUBSET Words, twice : SUBSET Words,
                                 answered : Nat, cut : BOOLEAN, overtaken : BOOLEAN]
              /\ UNCHANGED <<vocabulary, graph, learningEvents, practiceAsked>>
<1>1. PICK q : q = practising[c]
    OBVIOUS
<1>2. PICK n \in Nat \ {0} : n = Len(vocabulary) /\ Rows = 1 .. n
    BY PracticeFacts
<1>3. q \in Request(n) /\ Planned(q) /\ q.plan # <<>>
    BY <1>1, <1>2, PracticeFacts DEF PractiseFails
<1>4. practised' = [practised EXCEPT !.cut = TRUE] /\ UNCHANGED <<vocabulary, graph, learningEvents, practiceAsked>>
    BY DEF PractiseFails
<1>5. /\ practised'.cut /\ CountsStay /\ WordsStay /\ practised'.answered = practised.answered
      /\ practised'.overtaken = practised.overtaken
      /\ practised' \in [scheduled : Seq(Nat), crossed : SUBSET Rows, texted : SUBSET Words, twice : SUBSET Words,
                         answered : Nat, cut : BOOLEAN, overtaken : BOOLEAN]
    BY <1>4 DEF PracticeTypes, CountsStay, WordsStay
<1>6. PICK adding \in BOOLEAN : adding <=> (q.kind = "talk" /\ q.todo # <<>> /\ ~At(q, "known"))
    OBVIOUS
<1>7. PICK l \in Seq(1 .. n) :
            l = IF Len(q.learned) > 0 /\ q.learned[Len(q.learned)] = q.item /\ ~At(q, "insert")
                THEN SubSeq(q.learned, 1, Len(q.learned) - 1) ELSE q.learned
    <2>1. q.learned \in Seq(1 .. n)
        BY <1>3 DEF Request
    <2>2. \A S : \A s \in Seq(S) : Len(s) > 0 => SubSeq(s, 1, Len(s) - 1) \in Seq(S)
        OBVIOUS
    <2>3. Len(q.learned) > 0 => SubSeq(q.learned, 1, Len(q.learned) - 1) \in Seq(1 .. n)
        BY <2>1, <2>2, Zenon
    <2> QED
        BY <2>1, <2>3, Zenon
<1>8. PICK w : w = [q EXCEPT !.listed = {}, !.replaced = {}, !.overtaken = FALSE, !.learned = l]
    OBVIOUS
<1>9. \/ practising' = [practising EXCEPT ![c] = NoPractice]
      \/ adding /\ practising' = [practising EXCEPT ![c] = NextWord(w, Tail(q.todo))]
    BY <1>1, <1>6, <1>7, <1>8 DEF PractiseFails, Stepping, At
<1>10. CASE practising' = [practising EXCEPT ![c] = NoPractice]
    <2>1. NoPractice \in Request(n) /\ Planned(NoPractice)
        BY NobodyIsRequest
    <2> QED
        BY <1>1, <1>2, <1>3, <1>4, <1>5, <1>10, <2>1 DEF Becomes
<1>11. CASE adding /\ practising' = [practising EXCEPT ![c] = NextWord(w, Tail(q.todo))]
    <2>1. q.kind = "talk" /\ q.todo # <<>> /\ ~At(q, "known")
        BY <1>6, <1>11
    <2>2. q.plan \in AddingPlans
        <3>1. ~KeepsLearned(q)
            BY <1>3, <2>1 DEF Planned
        <3>2. q.plan = <<"known">> \/ q.plan \in AddingPlans \/ q.plan \in KeepingPlans
            BY <1>3, <2>1, Zenon DEF Planned, PlansOf
        <3> QED
            BY <1>3, <2>1, <3>1, <3>2, OneStepPlans, KeepingPlansGoOn, Zenon DEF KeepsLearned, At
    <2>3. /\ w \in Request(n) /\ w.kind = "talk" /\ w.todo = q.todo /\ w.stale = q.stale /\ w.row = q.row
          /\ w.listed = {} /\ w.replaced = {} /\ ~w.overtaken /\ w.learned = l
        BY <1>3, <1>8, <2>1 DEF Request
    <2>4. q.todo \in Seq(Words)
        BY <1>3 DEF Request
    <2>5. PICK words \in Seq(Words) : words = Tail(q.todo)
        <3>1. \A S : \A s \in Seq(S) : s # <<>> => Tail(s) \in Seq(S)
            OBVIOUS
        <3> QED
            BY <2>1, <2>4, <3>1, Zenon
    <2>6. /\ NextWord(w, words) \in Request(n) /\ Planned(NextWord(w, words))
          /\ TurnsTo(w, NextWord(w, words), words)
        BY <2>3, NextWordFollows DEF Adds
    <2> QED
        BY <1>1, <1>2, <1>3, <1>4, <1>5, <1>11, <2>1, <2>2, <2>3, <2>4, <2>5, <2>6 DEF Becomes
<1> QED
    BY <1>9, <1>10, <1>11

-----------------------------------------------------------------------------
(* The types *)

LEMMA PracticeTypesInit == PracticeInit => PracticeTypes
<1> SUFFICES ASSUME PracticeInit PROVE PracticeTypes
    OBVIOUS
<1>1. PICK row : row = NewWordRow(KnownWord)
    OBVIOUS
<1>2. row \in CountedRow
    BY <1>1, PracticeAssumption DEF NewWordRow, CountedRow, WordRow
<1>3. vocabulary = <<row>>
    BY <1>1 DEF PracticeInit
<1>4. vocabulary \in Seq(CountedRow) /\ Len(vocabulary) = 1 /\ Rows = 1 .. 1
    BY <1>2, <1>3 DEF Rows
<1>5. graph \subseteq Words \X Rows
    BY <1>4, PracticeAssumption DEF PracticeInit
<1>6. learningEvents \in [learned : Nat, reviewed : Nat] /\ practiceAsked \in 0 .. MaxPractice
    BY PracticeAssumption DEF PracticeInit
<1>7. /\ practised \in [scheduled : Seq(Nat), crossed : SUBSET Rows, texted : SUBSET Words, twice : SUBSET Words,
                      answered : Nat, cut : BOOLEAN, overtaken : BOOLEAN]
      /\ practised.scheduled = <<0>>
    <2>1. <<0>> \in Seq(Nat)
        OBVIOUS
    <2> QED
        BY <2>1 DEF PracticeInit
<1>8. Len(practised.scheduled) = 1
    BY <1>7
<1>9. practising \in [Learners -> Request(1)] /\ \A c \in Learners : Planned(practising[c])
    BY NobodyIsRequest DEF PracticeInit
<1> QED
    BY <1>4, <1>5, <1>6, <1>7, <1>8, <1>9 DEF PracticeTypes

\* Where only one request moves and the table of rows is as long as it was.
LEMMA PracticeTypesOfOne ==
    ASSUME PracticeTypes, NEW c \in Learners, NEW r \in Request(Len(vocabulary)), Planned(r), Becomes(c, r),
           vocabulary' = vocabulary, (graph \subseteq Words \X Rows)', practiceAsked' \in 0 .. MaxPractice,
           learningEvents' \in [learned : Nat, reviewed : Nat],
           practised' \in [scheduled : Seq(Nat), crossed : SUBSET Rows, texted : SUBSET Words, twice : SUBSET Words,
                           answered : Nat, cut : BOOLEAN, overtaken : BOOLEAN],
           practised'.scheduled = practised.scheduled
    PROVE  PracticeTypes'
<1>1. Len(vocabulary') = Len(vocabulary) /\ Rows' = Rows
    BY DEF Rows
<1>2. practising' \in [Learners -> Request(Len(vocabulary'))] /\ \A o \in Learners : Planned(practising'[o])
    <2>1. practising \in [Learners -> Request(Len(vocabulary))] /\ \A o \in Learners : Planned(practising[o])
        BY DEF PracticeTypes
    <2>2. practising' = [practising EXCEPT ![c] = r]
        BY DEF Becomes
    <2>3. practising' \in [Learners -> Request(Len(vocabulary))]
        BY <2>1, <2>2
    <2>4. \A o \in Learners : practising'[o] = IF o = c THEN r ELSE practising[o]
        BY <2>1, <2>2
    <2> QED
        BY <1>1, <2>1, <2>3, <2>4, Zenon
<1>3. /\ vocabulary' \in Seq(CountedRow) /\ Len(vocabulary') # 0
      /\ Len(practised'.scheduled) = Len(vocabulary')
    BY <1>1 DEF PracticeTypes
<1>4. (graph \subseteq Words \X Rows)'
    OBVIOUS
<1> QED
    BY <1>1, <1>2, <1>3, <1>4 DEF PracticeTypes

LEMMA PracticeTypesInsert == ASSUME PracticeTypes, NEW c \in Learners, InsertWord(c) PROVE PracticeTypes'
<1>1. PICK n \in Nat \ {0} : n = Len(vocabulary) /\ Rows = 1 .. n
    BY PracticeFacts
<1>2. /\ practising' \in [Learners -> Request(n + 1)] /\ Planned(practising'[c])
      /\ \A o \in Learners \ {c} : practising'[o] = UnawareOfWord(Head(practising[c].todo))[o]
      /\ vocabulary' = Append(vocabulary, NewWordRow(Head(practising[c].todo)))
      /\ NewWordRow(Head(practising[c].todo)) \in CountedRow
      /\ practised'.scheduled = Append(practised.scheduled, 0)
      /\ practised' \in [scheduled : Seq(Nat), crossed : SUBSET Rows, texted : SUBSET Words, twice : SUBSET Words,
                         answered : Nat, cut : BOOLEAN, overtaken : BOOLEAN]
      /\ UNCHANGED <<graph, learningEvents, practiceAsked>>
    <2>1. PICK r \in Request(Len(vocabulary) + 1) : WordInserted(c, r)
        BY InsertWordDoes
    <2> QED
        BY <1>1, <2>1 DEF WordInserted
<1>3. vocabulary' \in Seq(CountedRow) /\ Len(vocabulary') = n + 1 /\ Rows' = 1 .. (n + 1)
    <2>1. vocabulary \in Seq(CountedRow)
        BY DEF PracticeTypes
    <2> QED
        BY <1>1, <1>2, <2>1 DEF Rows
<1>4. Len(practised'.scheduled) = n + 1
    BY <1>1, <1>2 DEF PracticeTypes
<1>5. Rows \subseteq Rows'
    BY <1>1, <1>3
<1>6. \A o \in Learners : Planned(practising'[o])
    BY <1>2, UnawareOfWordDoes, Zenon
<1>7. practised' \in [scheduled : Seq(Nat), crossed : SUBSET Rows', texted : SUBSET Words, twice : SUBSET Words,
                      answered : Nat, cut : BOOLEAN, overtaken : BOOLEAN]
    BY <1>2, <1>5
<1>8. (graph \subseteq Words \X Rows)'
    BY <1>2, <1>5 DEF PracticeTypes
<1>9. (learningEvents \in [learned : Nat, reviewed : Nat] /\ practiceAsked \in 0 .. MaxPractice)'
    BY <1>2 DEF PracticeTypes
<1>10. (practising \in [Learners -> Request(Len(vocabulary))])' /\ Len(vocabulary') # 0
    BY <1>2, <1>3
<1> QED
    BY <1>3, <1>4, <1>6, <1>7, <1>8, <1>9, <1>10 DEF PracticeTypes

\* What is written is counted: what was read, or what was read and scheduled.
LEMMA WritingsAreCounted ==
    ASSUME PracticeTypes, NEW c \in Learners, WriteWord(c) \/ KeepWord(c)
    PROVE  \E row \in CountedRow :
              /\ WriteRow(c, row) /\ row.word = practising[c].row.word
              /\ \/ At(practising[c], "write") /\ row.reviews = practising[c].row.reviews + 1
                 \/ At(practising[c], "keep") /\ row = practising[c].row
<1>1. PICK q : q = practising[c]
    OBVIOUS
<1>2. q.row \in CountedRow
    BY <1>1, PracticeFacts DEF Request
<1>3. CASE KeepWord(c)
    BY <1>1, <1>2, <1>3 DEF KeepWord, Stepping, At
<1>4. CASE WriteWord(c)
    <2>1. PICK row : row = Scheduled(q.row, q.failed)
        OBVIOUS
    <2>2. PICK k \in Nat, m \in Nat : k = q.row.reviews /\ m = q.row.repetitions /\ m <= k
        BY <1>2 DEF CountedRow, WordRow
    <2>3. PICK p \in Nat, j \in Nat : p = (IF q.failed THEN 0 ELSE m + 1) /\ j = k + 1
        OBVIOUS
    <2>4. row = [q.row EXCEPT !.reviews = j, !.repetitions = p]
        BY <1>2, <2>1, <2>2, <2>3 DEF Scheduled, CountedRow, WordRow
    <2>5. row \in WordRow /\ row.reviews = j /\ row.repetitions = p /\ row.word = q.row.word
        <3>1. q.row \in WordRow
            BY <1>2 DEF CountedRow
        <3> QED
            BY <2>2, <2>4, <3>1 DEF WordRow
    <2>6. p <= j
        BY <2>2, <2>3
    <2> QED
        BY <1>1, <1>4, <2>1, <2>2, <2>3, <2>5, <2>6 DEF WriteWord, Stepping, At, CountedRow
<1> QED
    BY <1>3, <1>4

LEMMA PracticeTypesWrite ==
    ASSUME PracticeTypes, NEW c \in Learners, WriteWord(c) \/ KeepWord(c)
    PROVE  PracticeTypes'
<1>1. PICK n \in Nat \ {0} : n = Len(vocabulary) /\ Rows = 1 .. n
    BY PracticeFacts
<1>2. PICK row \in CountedRow : /\ WriteRow(c, row) /\ (At(practising[c], "write") \/ At(practising[c], "keep"))
    BY WritingsAreCounted
<1>3. /\ practising' \in [Learners -> Request(n)] /\ Planned(practising'[c])
      /\ \A o \in Learners \ {c} : practising'[o] = UnawareOfRow(practising[c].item)[o]
      /\ practising[c].item \in Rows /\ vocabulary' = [vocabulary EXCEPT ![practising[c].item] = row]
      /\ practised'.scheduled = (IF practising[c].kind = "review"
                                 THEN [practised.scheduled EXCEPT ![practising[c].item] = @ + 1] ELSE practised.scheduled)
      /\ practised' \in [scheduled : Seq(Nat), crossed : SUBSET Rows, texted : SUBSET Words, twice : SUBSET Words,
                         answered : Nat, cut : BOOLEAN, overtaken : BOOLEAN]
      /\ UNCHANGED <<graph, learningEvents, practiceAsked>>
    <2>1. PICK r, w \in Request(Len(vocabulary)) : RowWritten(c, row, r, w)
        BY <1>2, WriteRowDoes
    <2> QED
        BY <1>1, <2>1 DEF RowWritten
<1>4. vocabulary' \in Seq(CountedRow) /\ Len(vocabulary') = n /\ Rows' = Rows
    <2>1. vocabulary \in Seq(CountedRow)
        BY DEF PracticeTypes
    <2> QED
        BY <1>1, <1>3, <2>1 DEF Rows
<1>5. Len(practised'.scheduled) = n
    <2>1. practised.scheduled \in Seq(Nat) /\ Len(practised.scheduled) = n
        BY <1>1 DEF PracticeTypes
    <2> QED
        BY <1>3, <2>1
<1>6. \A o \in Learners : Planned(practising'[o])
    BY <1>3, UnawareOfRowDoes, Zenon
<1>7. (graph \subseteq Words \X Rows)'
    BY <1>3, <1>4 DEF PracticeTypes
<1>8. (learningEvents \in [learned : Nat, reviewed : Nat] /\ practiceAsked \in 0 .. MaxPractice)'
    BY <1>3 DEF PracticeTypes
<1>9. (practising \in [Learners -> Request(Len(vocabulary))])' /\ Len(vocabulary') # 0
    BY <1>1, <1>3, <1>4
<1> QED
    BY <1>3, <1>4, <1>5, <1>6, <1>7, <1>8, <1>9 DEF PracticeTypes

LEMMA PracticeTypesNext == ASSUME PracticeTypes, [PracticeNext]_practiceVars PROVE PracticeTypes'
<1>1. CASE UNCHANGED practiceVars
    <2>1. Rows' = Rows
        BY <1>1 DEF Rows, practiceVars
    <2> QED
        BY <1>1, <2>1 DEF PracticeTypes, practiceVars
<1>2. /\ graph \subseteq Words \X Rows /\ practiceAsked \in 0 .. MaxPractice
      /\ learningEvents \in [learned : Nat, reviewed : Nat]
      /\ practised \in [scheduled : Seq(Nat), crossed : SUBSET Rows, texted : SUBSET Words, twice : SUBSET Words,
                        answered : Nat, cut : BOOLEAN, overtaken : BOOLEAN]
    BY DEF PracticeTypes
<1>3. ASSUME vocabulary' = vocabulary, graph' = graph
      PROVE  (graph \subseteq Words \X Rows)'
    BY <1>2, <1>3 DEF Rows
<1>4. ASSUME NEW c \in Learners, PracticeNext,
             \/ ProcessText(c) \/ ProcessBatch(c) \/ Converse(c) \/ ReviewItem(c)
             \/ CheckWord(c) \/ ReadKnownWords(c) \/ InsertWord(c) \/ RecordEvent(c)
             \/ ListWords(c) \/ DeleteEdges(c) \/ ConnectWords(c)
             \/ ReadWord(c) \/ WriteWord(c) \/ KeepWord(c)
             \/ PractiseFails(c)
      PROVE  PracticeTypes'
    <2>1. CASE ProcessText(c) \/ ProcessBatch(c) \/ Converse(c) \/ ReviewItem(c)
        BY <2>1, <1>2, <1>3, AskingDoes, PracticeTypesOfOne DEF CountsStay
    <2>2. CASE CheckWord(c)
        BY <2>2, <1>2, <1>3, CheckWordDoes, PracticeTypesOfOne
    <2>3. CASE ReadKnownWords(c)
        BY <2>3, <1>2, <1>3, ReadKnownWordsDoes, PracticeTypesOfOne
    <2>4. CASE InsertWord(c)
        BY <2>4, PracticeTypesInsert
    <2>5. CASE RecordEvent(c)
        BY <2>5, <1>2, <1>3, RecordEventDoes, PracticeTypesOfOne DEF CountsStay
    <2>6. CASE ListWords(c)
        BY <2>6, <1>2, <1>3, ListWordsDoes, PracticeTypesOfOne
    <2>7. CASE DeleteEdges(c)
        BY <2>7, <1>2, <1>3, DeleteEdgesDoes, PracticeTypesOfOne
    <2>8. CASE ConnectWords(c)
        <3>1. PICK r \in Request(Len(vocabulary)) :
                /\ Planned(r) /\ Becomes(c, r) /\ graph' \subseteq Words \X Rows /\ CountsStay
                /\ practised' \in [scheduled : Seq(Nat), crossed : SUBSET Rows, texted : SUBSET Words, twice : SUBSET Words,
                                   answered : Nat, cut : BOOLEAN, overtaken : BOOLEAN]
                /\ UNCHANGED <<vocabulary, learningEvents, practiceAsked>>
            BY <2>8, ConnectWordsDoes
        <3>2. (graph \subseteq Words \X Rows)'
            BY <3>1 DEF Rows
        <3> QED
            BY <3>1, <3>2, <1>2, PracticeTypesOfOne DEF CountsStay
    <2>9. CASE ReadWord(c)
        BY <2>9, <1>2, <1>3, ReadWordDoes, PracticeTypesOfOne
    <2>10. CASE WriteWord(c) \/ KeepWord(c)
        BY <2>10, PracticeTypesWrite
    <2>11. CASE PractiseFails(c)
        BY <2>11, <1>2, <1>3, PractiseFailsDoes, PracticeTypesOfOne DEF CountsStay
    <2> QED
        BY <1>4, <2>1, <2>2, <2>3, <2>4, <2>5, <2>6, <2>7, <2>8, <2>9, <2>10, <2>11
<1>5. CASE PracticeNext
    BY <1>4, <1>5 DEF PracticeNext
<1> QED
    BY <1>1, <1>5

LEMMA PracticeTypesHold == PracticeSpec => []PracticeTypes
<1>1. PracticeInit => PracticeTypes
    BY PracticeTypesInit
<1>2. PracticeTypes /\ [PracticeNext]_practiceVars => PracticeTypes'
    BY PracticeTypesNext
<1> QED
    BY <1>1, <1>2, PTL DEF PracticeSpec

LEMMA PracticeTypesOK == PracticeTypes => PracticeTypeOK
<1> SUFFICES ASSUME PracticeTypes PROVE PracticeTypeOK
    OBVIOUS
<1>1. Rows = 1 .. Len(vocabulary) /\ \A i \in Rows : vocabulary[i] \in CountedRow
    BY PracticeFacts
<1>2. vocabulary \in Seq(WordRow) /\ \A i \in Rows : vocabulary[i].repetitions <= vocabulary[i].reviews
    BY <1>1 DEF PracticeTypes, CountedRow
<1>3. practised \in Practised
    <2>1. practised.scheduled \in [Rows -> Nat]
        BY <1>1 DEF PracticeTypes
    <2> QED
        BY <2>1 DEF PracticeTypes, Practised
<1>4. ASSUME NEW c \in Learners
      PROVE  LET q == practising[c]
             IN /\ q.item \in Rows /\ q.row \in WordRow /\ q.listed \subseteq Words /\ q.replaced \subseteq Words \X Rows
                /\ q.todo \in Seq(Words) /\ q.learned \in Seq(Rows)
                /\ (q.plan = <<>>) = (q.kind = "none")
    <2>1. practising[c] \in Request(Len(vocabulary)) /\ Planned(practising[c])
        BY PracticeFacts
    <2>2. (practising[c].plan = <<>>) <=> (practising[c].kind = "none")
        BY <2>1, PlansAreKnown
    <2> QED
        BY <1>1, <2>1, <2>2 DEF Request, CountedRow
<1> QED
    BY <1>2, <1>3, <1>4 DEF PracticeTypes, PracticeTypeOK

\* Every table, queue, counter and cell of a worker keeps its shape: what a worker carries from a
\* read to a write is a row, a word or a time, whatever the other worker stored in between.
THEOREM PracticeTypeCorrect == PracticeSpec => []PracticeTypeOK
BY PracticeTypesHold, PracticeTypesOK, PTL

-----------------------------------------------------------------------------
(* The schedule *)

WritesRow(q) == At(q, "write") \/ At(q, "keep")

\* A row that was read, and that nobody has written since, is the row; and no review is counted
\* that was not scheduled.
ReadRow(q) ==
    WritesRow(q) =>
        /\ q.row.word = vocabulary[q.item].word
        /\ q.row.reviews <= practised.scheduled[q.item]
        /\ ~q.stale => q.row = vocabulary[q.item]

ScheduleAddsUp ==
    \A i \in Rows : /\ vocabulary[i].reviews <= practised.scheduled[i]
                    /\ i \notin practised.crossed => vocabulary[i].reviews = practised.scheduled[i]

ScheduleInv == ScheduleAddsUp /\ \A c \in Learners : ReadRow(practising[c])

LEMMA OnlyOneMoves ==
    ASSUME PracticeTypes, NEW c \in Learners, NEW r, Becomes(c, r)
    PROVE  practising'[c] = r /\ \A o \in Learners \ {c} : practising'[o] = practising[o]
BY DEF PracticeTypes, Becomes

\* A request that turns to its next word looks for it, inserts it, or reads what it has learned.
LEMMA TurnsToBegin ==
    \A q, r, words : TurnsTo(q, r, words) =>
        /\ \/ r.plan = <<"exists">> \/ r.plan = TextPlan \/ r.plan = KeepPlan \/ r = NoPractice
        /\ \A step : At(r, step) => step \in {"exists", "insert", "read"}
        /\ ~WritesRow(r)
<1> SUFFICES ASSUME NEW q, NEW r, NEW words, TurnsTo(q, r, words)
             PROVE  /\ \/ r.plan = <<"exists">> \/ r.plan = TextPlan \/ r.plan = KeepPlan \/ r = NoPractice
                    /\ \A step : At(r, step) => step \in {"exists", "insert", "read"}
                    /\ ~WritesRow(r)
    OBVIOUS
<1>1. r.plan = <<"exists">> \/ r.plan = TextPlan \/ r.plan = KeepPlan \/ r = NoPractice
    BY Zenon DEF TurnsTo
<1>2. NoPractice.plan = <<>>
    BY DEF NoPractice
<1>3. ASSUME NEW step, At(r, step) PROVE step \in {"exists", "insert", "read"}
    BY <1>1, <1>2, <1>3, OneStepPlans, PlansBegin, Zenon DEF At
<1>4. ~WritesRow(r)
    BY <1>1, <1>2, OneStepPlans, PlansBegin, Zenon DEF WritesRow, At
<1> QED
    BY <1>1, <1>3, <1>4

\* Where only c moves and no row changes, it is enough that what c will write, it has just read.
LEMMA ScheduleOfOne ==
    ASSUME PracticeTypes, ScheduleInv, NEW c \in Learners, NEW r \in Request(Len(vocabulary)), Becomes(c, r),
           vocabulary' = vocabulary, CountsStay, WritesRow(r) => r.row = vocabulary[r.item]
    PROVE  ScheduleInv'
<1>1. Rows' = Rows /\ Rows = 1 .. Len(vocabulary)
    BY DEF Rows
<1>2. ScheduleAddsUp'
    BY <1>1 DEF ScheduleInv, ScheduleAddsUp, CountsStay
<1>3. /\ practising'[c] = r /\ \A o \in Learners \ {c} : practising'[o] = practising[o]
    BY OnlyOneMoves
<1>4. ASSUME NEW o \in Learners PROVE ReadRow(practising[o])'
    <2>1. CASE o # c
        <3>1. ReadRow(practising[o])
            BY DEF ScheduleInv
        <3> QED
            BY <1>3, <2>1, <3>1 DEF ReadRow, CountsStay, WritesRow, At
    <2>2. CASE o = c
        <3>1. r.item \in Rows
            BY <1>1 DEF Request
        <3>2. vocabulary[r.item].reviews <= practised.scheduled[r.item]
            BY <3>1 DEF ScheduleInv, ScheduleAddsUp
        <3> QED
            BY <1>3, <2>2, <3>2 DEF ReadRow, CountsStay, WritesRow, At
    <2> QED
        BY <2>1, <2>2
<1> QED
    BY <1>2, <1>4 DEF ScheduleInv

LEMMA ScheduleInsert == ASSUME PracticeTypes, ScheduleInv, NEW c \in Learners, InsertWord(c) PROVE ScheduleInv'
<1>1. PICK r \in Request(Len(vocabulary) + 1) : WordInserted(c, r)
    BY InsertWordDoes
<1>2. PICK n \in Nat \ {0} : n = Len(vocabulary) /\ Rows = 1 .. n
    BY PracticeFacts
<1>3. PICK row : row = NewWordRow(Head(practising[c].todo))
    OBVIOUS
<1>4. row.reviews = 0
    BY <1>3 DEF NewWordRow
<1>5. practised.scheduled \in Seq(Nat) /\ Len(practised.scheduled) = n /\ vocabulary \in Seq(CountedRow)
    BY <1>2 DEF PracticeTypes
<1>6. vocabulary' = Append(vocabulary, row) /\ practised'.scheduled = Append(practised.scheduled, 0)
      /\ practised'.crossed = practised.crossed
    BY <1>1, <1>3 DEF WordInserted
<1>7. \A s, e : s \in Seq(Nat) => \A i \in 1 .. Len(s) : Append(s, e)[i] = s[i]
    OBVIOUS
<1>8. /\ Rows' = 1 .. (n + 1)
      /\ \A i \in Rows : vocabulary'[i] = vocabulary[i] /\ practised'.scheduled[i] = practised.scheduled[i]
      /\ vocabulary'[n + 1] = row /\ practised'.scheduled[n + 1] = 0
    BY <1>2, <1>5, <1>6 DEF Rows
<1>9. ScheduleAddsUp'
    <2>1. ASSUME NEW i \in Rows'
          PROVE  /\ vocabulary'[i].reviews <= practised'.scheduled[i]
                 /\ i \notin practised'.crossed => vocabulary'[i].reviews = practised'.scheduled[i]
        <3>1. CASE i \in Rows
            BY <1>6, <1>8, <3>1 DEF ScheduleInv, ScheduleAddsUp
        <3>2. CASE i = n + 1
            BY <1>4, <1>8, <3>2
        <3> QED
            BY <1>2, <1>8, <3>1, <3>2
    <2> QED
        BY <2>1 DEF ScheduleAddsUp
<1>10. ASSUME NEW o \in Learners PROVE ReadRow(practising[o])'
    <2>1. CASE o = c
        <3>1. ~WritesRow(r)
            BY <1>1, PlansBegin, Zenon DEF WordInserted, WritesRow, At
        <3>2. practising'[c] = r
            BY <1>1 DEF WordInserted
        <3> QED
            BY <2>1, <3>1, <3>2 DEF ReadRow, WritesRow, At
    <2>2. CASE o # c
        <3>1. PICK p : p = UnawareOfWord(Head(practising[c].todo))[o]
            OBVIOUS
        <3>2. practising'[o] = p
            BY <1>1, <2>2, <3>1, Zenon DEF WordInserted
        <3>3. Stays(practising[o], p) /\ (practising[o].stale => p.stale)
            BY <3>1, UnawareOfWordDoes
        <3>4. practising[o].item \in Rows
            BY <1>2, PracticeFacts DEF Request
        <3>5. ReadRow(practising[o])
            BY DEF ScheduleInv
        <3>6. /\ vocabulary'[practising[o].item] = vocabulary[practising[o].item]
              /\ practised'.scheduled[practising[o].item] = practised.scheduled[practising[o].item]
            BY <1>8, <3>4
        <3> QED
            BY <3>2, <3>3, <3>5, <3>6 DEF ReadRow, WritesRow, At, Stays
    <2> QED
        BY <2>1, <2>2
<1> QED
    BY <1>9, <1>10 DEF ScheduleInv

LEMMA ScheduleWrite ==
    ASSUME PracticeTypes, ScheduleInv, NEW c \in Learners, WriteWord(c) \/ KeepWord(c)
    PROVE  ScheduleInv'
<1>1. PICK row \in CountedRow : /\ WriteRow(c, row) /\ row.word = practising[c].row.word
                                /\ \/ At(practising[c], "write") /\ row.reviews = practising[c].row.reviews + 1
                                   \/ At(practising[c], "keep") /\ row = practising[c].row
    BY WritingsAreCounted
<1>2. PICK r, w \in Request(Len(vocabulary)) : RowWritten(c, row, r, w)
    BY <1>1, WriteRowDoes
<1>3. PICK n \in Nat \ {0} : n = Len(vocabulary) /\ Rows = 1 .. n
    BY PracticeFacts
<1>4. PICK q : q = practising[c]
    OBVIOUS
<1>5. PICK i \in Rows : i = q.item
    BY <1>2, <1>4 DEF RowWritten
<1>6. /\ q.row.reviews <= practised.scheduled[i] /\ (~q.stale => q.row = vocabulary[i])
      /\ q.row.word = vocabulary[i].word
    <2>1. ReadRow(q) /\ WritesRow(q)
        BY <1>1, <1>4 DEF ScheduleInv, WritesRow
    <2> QED
        BY <1>5, <2>1 DEF ReadRow
<1>7. practised.scheduled \in Seq(Nat) /\ Len(practised.scheduled) = n /\ vocabulary \in Seq(CountedRow)
    BY <1>3 DEF PracticeTypes
<1>8. PICK k \in Nat, m \in Nat, v \in Nat : k = q.row.reviews /\ m = practised.scheduled[i] /\ v = vocabulary[i].reviews
    <2>1. q.row \in CountedRow /\ vocabulary[i] \in CountedRow
        BY <1>4, PracticeFacts DEF Request
    <2>2. q.row.reviews \in Nat /\ vocabulary[i].reviews \in Nat
        BY <2>1 DEF CountedRow, WordRow
    <2>3. practised.scheduled[i] \in Nat
        BY <1>3, <1>7
    <2> QED
        BY <2>2, <2>3
<1>9. PICK d \in {0, 1} : /\ practised'.scheduled[i] = m + d /\ row.reviews = k + d
                          /\ \A j \in Rows \ {i} : practised'.scheduled[j] = practised.scheduled[j]
    <2>1. (q.kind = "review" /\ At(q, "write")) \/ (q.kind = "talk" /\ At(q, "keep"))
        BY <1>2, <1>4 DEF RowWritten
    <2>2. CASE q.kind = "review" /\ At(q, "write")
        <3>1. practised'.scheduled = [practised.scheduled EXCEPT ![i] = @ + 1]
            BY <1>2, <1>4, <1>5, <2>2 DEF RowWritten
        <3>2. row.reviews = k + 1
            BY <1>1, <1>4, <1>8, <2>2 DEF At
        <3>3. practised'.scheduled[i] = m + 1 /\ \A j \in Rows \ {i} : practised'.scheduled[j] = practised.scheduled[j]
            BY <1>3, <1>7, <1>8, <3>1
        <3> QED
            BY <3>2, <3>3
    <2>3. CASE q.kind = "talk" /\ At(q, "keep")
        <3>1. practised'.scheduled = practised.scheduled
            BY <1>2, <1>4, <2>3 DEF RowWritten
        <3>2. row.reviews = k
            BY <1>1, <1>4, <1>8, <2>3 DEF At
        <3> QED
            BY <1>8, <3>1, <3>2
    <2> QED
        BY <2>1, <2>2, <2>3
<1>10. /\ Rows' = Rows /\ vocabulary'[i] = row /\ \A j \in Rows \ {i} : vocabulary'[j] = vocabulary[j]
    <2>1. vocabulary' = [vocabulary EXCEPT ![i] = row]
        BY <1>2, <1>4, <1>5 DEF RowWritten
    <2> QED
        BY <1>3, <1>7, <2>1 DEF Rows
<1>11. /\ practised.crossed \subseteq practised'.crossed /\ (q.stale => i \in practised'.crossed)
    BY <1>2, <1>4, <1>5 DEF RowWritten
<1>12. k <= m /\ (i \notin practised'.crossed => k = m)
    <2>1. k <= m
        BY <1>6, <1>8
    <2>2. ASSUME i \notin practised'.crossed PROVE k = m
        <3>1. ~q.stale /\ i \notin practised.crossed
            BY <1>11, <2>2
        <3>2. k = v /\ v = m
            BY <1>6, <1>8, <3>1 DEF ScheduleInv, ScheduleAddsUp
        <3> QED
            BY <3>2
    <2> QED
        BY <2>1, <2>2
<1>13. ScheduleAddsUp'
    <2>1. ASSUME NEW j \in Rows'
          PROVE  /\ vocabulary'[j].reviews <= practised'.scheduled[j]
                 /\ j \notin practised'.crossed => vocabulary'[j].reviews = practised'.scheduled[j]
        <3>1. CASE j # i
            BY <1>9, <1>10, <1>11, <3>1 DEF ScheduleInv, ScheduleAddsUp
        <3>2. CASE j = i
            <4>1. k + d <= m + d /\ (k = m => k + d = m + d)
                BY <1>12
            <4> QED
                BY <1>9, <1>10, <1>12, <3>2, <4>1
        <3> QED
            BY <3>1, <3>2
    <2> QED
        BY <2>1 DEF ScheduleAddsUp
<1>14. ASSUME NEW o \in Learners PROVE ReadRow(practising[o])'
    <2>1. CASE o = c
        <3>1. practising'[c] = r
            BY <1>2 DEF RowWritten
        <3>2. ~WritesRow(r)
            <4>1. CASE GoesOnWith(w, r, Tail(q.plan)) /\ q.plan \in ReviewPlans /\ At(q, "write")
                <5>1. Head(q.plan) = "write" /\ q.plan # <<>>
                    BY <4>1 DEF At
                <5>2. Tail(q.plan) \in ReviewPlans /\ Head(Tail(q.plan)) # "write"
                    BY <4>1, <5>1, ReviewPlansGoOn, Zenon
                <5>3. Head(Tail(q.plan)) # "keep" /\ r.plan = Tail(q.plan)
                    BY <4>1, <5>2, ReviewPlansGoOn, Zenon DEF GoesOnWith
                <5> QED
                    BY <5>2, <5>3 DEF WritesRow, At
            <4>2. CASE TurnsTo(w, r, <<>>)
                BY <4>2, TurnsToBegin, Zenon
            <4> QED
                BY <1>2, <1>4, <4>1, <4>2 DEF RowWritten
        <3> QED
            BY <2>1, <3>1, <3>2 DEF ReadRow, WritesRow, At
    <2>2. CASE o # c
        <3>1. PICK p : p = UnawareOfRow(i)[o]
            OBVIOUS
        <3>2. practising'[o] = p
            BY <1>2, <1>4, <1>5, <2>2, <3>1, Zenon DEF RowWritten
        <3>3. /\ Stays(practising[o], p) /\ (practising[o].stale => p.stale)
              /\ practising[o].item = i /\ WritesRow(practising[o]) => p.stale
            BY <3>1, UnawareOfRowDoes DEF WritesRow
        <3>4. PICK j \in Rows : j = practising[o].item
            BY <1>3, PracticeFacts DEF Request
        <3>5. ReadRow(practising[o])
            BY DEF ScheduleInv
        <3>6. CASE j # i
            BY <1>9, <1>10, <3>2, <3>3, <3>4, <3>5, <3>6 DEF ReadRow, WritesRow, At, Stays
        <3>7. CASE j = i /\ WritesRow(practising[o])
            <4>1. PICK b \in Nat : b = practising[o].row.reviews
                <5>1. practising[o].row \in CountedRow
                    BY PracticeFacts DEF Request
                <5> QED
                    BY <5>1 DEF CountedRow, WordRow
            <4>2. b <= m /\ practising[o].row.word = vocabulary[i].word
                BY <1>8, <3>4, <3>5, <3>7, <4>1 DEF ReadRow
            <4>3. b <= m + d
                BY <4>2
            <4>4. practising[o].row.word = row.word
                BY <1>1, <1>4, <1>6, <4>2
            <4>5. p.stale /\ p.row = practising[o].row /\ p.item = i
                BY <3>3, <3>4, <3>7 DEF Stays
            <4> QED
                BY <1>9, <1>10, <3>2, <4>1, <4>3, <4>4, <4>5 DEF ReadRow
        <3>8. CASE ~WritesRow(practising[o])
            BY <3>2, <3>3, <3>8 DEF ReadRow, WritesRow, At, Stays
        <3> QED
            BY <3>6, <3>7, <3>8
    <2> QED
        BY <2>1, <2>2
<1> QED
    BY <1>13, <1>14 DEF ScheduleInv

LEMMA ScheduleInit == PracticeInit => ScheduleInv
<1> SUFFICES ASSUME PracticeInit PROVE ScheduleInv
    OBVIOUS
<1>1. Rows = {1} /\ vocabulary[1] = NewWordRow(KnownWord) /\ practised.scheduled[1] = 0
    BY DEF PracticeInit, Rows
<1>2. vocabulary[1].reviews = 0
    BY <1>1 DEF NewWordRow
<1>3. ScheduleAddsUp
    BY <1>1, <1>2 DEF ScheduleAddsUp
<1>4. ASSUME NEW c \in Learners PROVE ReadRow(practising[c])
    <2>1. practising[c].plan = <<>>
        BY DEF PracticeInit, NoPractice
    <2> QED
        BY <2>1, Zenon DEF ReadRow, WritesRow, At
<1> QED
    BY <1>3, <1>4 DEF ScheduleInv

LEMMA ScheduleNext == ASSUME PracticeTypes, ScheduleInv, [PracticeNext]_practiceVars PROVE ScheduleInv'
<1>1. CASE UNCHANGED practiceVars
    BY <1>1 DEF practiceVars, ScheduleInv, ScheduleAddsUp, ReadRow, Rows, WritesRow, At
<1>2. ASSUME NEW c \in Learners,
             \/ ProcessText(c) \/ ProcessBatch(c) \/ Converse(c) \/ ReviewItem(c)
             \/ CheckWord(c) \/ ReadKnownWords(c) \/ InsertWord(c) \/ RecordEvent(c)
             \/ ListWords(c) \/ DeleteEdges(c) \/ ConnectWords(c)
             \/ ReadWord(c) \/ WriteWord(c) \/ KeepWord(c)
             \/ PractiseFails(c)
      PROVE  ScheduleInv'
    <2>1. CASE ProcessText(c) \/ ProcessBatch(c) \/ Converse(c) \/ ReviewItem(c)
        <3>1. PICK r \in Request(Len(vocabulary)) :
                /\ Becomes(c, r) /\ vocabulary' = vocabulary /\ CountsStay
                /\ r.plan = TextPlan \/ r.plan = <<"exists">> \/ r.plan = <<"known">> \/ r.plan = ReviewPlan
            BY <2>1, AskingDoes
        <3>2. ~WritesRow(r)
            BY <3>1, OneStepPlans, PlansBegin, Zenon DEF WritesRow, At
        <3> QED
            BY <3>1, <3>2, ScheduleOfOne
    <2>2. CASE CheckWord(c)
        <3>1. PICK r \in Request(Len(vocabulary)) :
                /\ Becomes(c, r) /\ vocabulary' = vocabulary /\ practised' = practised
                /\ TurnsTo(practising[c], r, Tail(practising[c].todo)) \/ r.plan = TextPlan
            BY <2>2, CheckWordDoes
        <3>2. ~WritesRow(r)
            BY <3>1, TurnsToBegin, PlansBegin, Zenon DEF WritesRow, At
        <3> QED
            BY <3>1, <3>2, ScheduleOfOne DEF CountsStay
    <2>3. CASE ReadKnownWords(c)
        <3>1. PICK r \in Request(Len(vocabulary)) :
                /\ Becomes(c, r) /\ vocabulary' = vocabulary /\ practised' = practised
                /\ TurnsTo(practising[c], r, NewWords(practising[c].todo))
            BY <2>3, ReadKnownWordsDoes
        <3> QED
            BY <3>1, TurnsToBegin, ScheduleOfOne DEF CountsStay
    <2>4. CASE InsertWord(c)
        BY <2>4, ScheduleInsert
    <2>5. CASE RecordEvent(c)
        <3>1. PICK r \in Request(Len(vocabulary)) :
                /\ Becomes(c, r) /\ vocabulary' = vocabulary /\ CountsStay /\ At(practising[c], "record")
                /\ \/ GoesOnWith(practising[c], r, ListPlan)
                   \/ /\ practising[c].plan \in ReviewPlans /\ Len(practising[c].plan) > 1
                      /\ GoesOnWith(practising[c], r, Tail(practising[c].plan))
                   \/ r = NoPractice
            BY <2>5, RecordEventDoes
        <3>2. ~WritesRow(r)
            <4>1. CASE r.plan = ListPlan
                BY <4>1, PlansBegin, Zenon DEF WritesRow, At
            <4>2. CASE /\ practising[c].plan \in ReviewPlans /\ Len(practising[c].plan) > 1
                       /\ r.plan = Tail(practising[c].plan)
                <5>1. Head(r.plan) = "read"
                    BY <3>1, <4>2, ReviewPlansGoOn, Zenon DEF At
                <5> QED
                    BY <5>1 DEF WritesRow, At
            <4>3. CASE r = NoPractice
                BY <4>3 DEF WritesRow, At, NoPractice
            <4> QED
                BY <3>1, <4>1, <4>2, <4>3, Zenon DEF GoesOnWith
        <3> QED
            BY <3>1, <3>2, ScheduleOfOne
    <2>6. CASE ListWords(c)
        <3>1. PICK r \in Request(Len(vocabulary)) :
                Becomes(c, r) /\ vocabulary' = vocabulary /\ practised' = practised /\ r.plan = DeletePlan
            BY <2>6, ListWordsDoes
        <3>2. ~WritesRow(r)
            BY <3>1, PlansBegin, Zenon DEF WritesRow, At
        <3> QED
            BY <3>1, <3>2, ScheduleOfOne DEF CountsStay
    <2>7. CASE DeleteEdges(c)
        <3>1. PICK r \in Request(Len(vocabulary)) :
                Becomes(c, r) /\ vocabulary' = vocabulary /\ practised' = practised /\ r.plan = ConnectPlan
            BY <2>7, DeleteEdgesDoes
        <3>2. ~WritesRow(r)
            BY <3>1, PlansBegin, Zenon DEF WritesRow, At
        <3> QED
            BY <3>1, <3>2, ScheduleOfOne DEF CountsStay
    <2>8. CASE ConnectWords(c)
        <3>1. PICK r \in Request(Len(vocabulary)), w \in Request(Len(vocabulary)) :
                Becomes(c, r) /\ vocabulary' = vocabulary /\ CountsStay /\ TurnsTo(w, r, Tail(w.todo))
            BY <2>8, ConnectWordsDoes
        <3> QED
            BY <3>1, TurnsToBegin, ScheduleOfOne
    <2>9. CASE ReadWord(c)
        BY <2>9, ReadWordDoes, ScheduleOfOne DEF CountsStay
    <2>10. CASE WriteWord(c) \/ KeepWord(c)
        BY <2>10, ScheduleWrite
    <2>11. CASE PractiseFails(c)
        <3>1. PICK r \in Request(Len(vocabulary)), w \in Request(Len(vocabulary)) :
                /\ Becomes(c, r) /\ vocabulary' = vocabulary /\ CountsStay
                /\ r = NoPractice \/ TurnsTo(w, r, Tail(w.todo))
            BY <2>11, PractiseFailsDoes
        <3>2. ~WritesRow(r)
            BY <3>1, TurnsToBegin, NobodyIsRequest DEF WritesRow, At, NoPractice
        <3> QED
            BY <3>1, <3>2, ScheduleOfOne
    <2> QED
        BY <1>2, <2>1, <2>2, <2>3, <2>4, <2>5, <2>6, <2>7, <2>8, <2>9, <2>10, <2>11
<1>3. CASE PracticeNext
    BY <1>2, <1>3 DEF PracticeNext
<1> QED
    BY <1>1, <1>3

LEMMA ScheduleHolds == PracticeSpec => []ScheduleInv
<1>1. PracticeTypes /\ ScheduleInv /\ [PracticeNext]_practiceVars => ScheduleInv'
    BY ScheduleNext
<1> QED
    BY <1>1, ScheduleInit, PracticeTypesHold, PTL DEF PracticeSpec

-----------------------------------------------------------------------------
(* Words that have two rows *)

\* A text has one word; a message has no word twice; and a word that was looked for, and that
\* nobody has inserted since, is not stored.
LookedFor(q) ==
    /\ q.kind = "text" => Len(q.todo) = 1 /\ q.todo[1] \in practised.texted
    /\ q.kind = "talk" => Len(q.todo) <= 2 /\ (Len(q.todo) = 2 => q.todo[1] # q.todo[2])
    /\ ~q.stale /\ q.kind = "batch" /\ At(q, "insert") => q.todo[1] \notin StoredWords
    /\ ~q.stale /\ q.kind = "talk" /\ q.plan \in AddingPlans =>
        \A k \in 1 .. Len(q.todo) : At(q, "insert") \/ k # 1 => q.todo[k] \notin StoredWords

TwiceIsKnown ==
    \A i, j \in Rows :
        i # j /\ vocabulary[i].word = vocabulary[j].word => vocabulary[i].word \in practised.texted \cup practised.twice

WordsInv == TwiceIsKnown /\ \A c \in Learners : LookedFor(practising[c])

LEMMA PlansDiffer ==
    /\ KeepPlan \notin AddingPlans /\ KeptPlan \notin AddingPlans /\ <<"exists">> \notin AddingPlans
    /\ <<"known">> \notin AddingPlans /\ <<>> \notin AddingPlans /\ TextPlan \in AddingPlans
    /\ <<"exists">> # <<>> /\ <<"known">> # <<>>
BY AddingPlansGoOn, PlansBegin, OneStepPlans, Zenon DEF AddingPlans

LEMMA NobodyLooks == LookedFor(NoPractice)
BY DEF LookedFor, NoPractice

\* A request that goes on with the same words, once it has inserted one or without a new one.
LEMMA LookedAlike ==
    \A q, r : /\ LookedFor(q) /\ r.kind = q.kind /\ r.todo = q.todo /\ r.stale = q.stale
              /\ r.plan \in AddingPlans => q.plan \in AddingPlans
              /\ ~At(r, "insert")
              => LookedFor(r)
BY DEF LookedFor

\* A request that turns to its next word.
LEMMA LookedTurns ==
    ASSUME NEW q, LookedFor(q), q.todo \in Seq(Words), q.todo # <<>>, q.kind = "batch" \/ q.plan \in AddingPlans,
           q.kind \in {"text", "batch", "talk"}, NEW w, NEW r, TurnsTo(w, r, Tail(w.todo)), w.kind = q.kind, w.todo = q.todo, w.stale = q.stale,
           w.kind # "talk" => w.learned = <<>>
    PROVE  LookedFor(r)
<1>1. PICK s \in Seq(Words) : s = q.todo /\ s # <<>>
    OBVIOUS
<1>2. PICK t \in Seq(Words) : t = Tail(s)
    <2>1. \A S : \A v \in Seq(S) : v # <<>> => Tail(v) \in Seq(S)
        OBVIOUS
    <2> QED
        BY <1>1, <2>1, Zenon
<1>3. /\ Len(t) + 1 = Len(s) /\ \A k \in 1 .. Len(t) : t[k] = s[k + 1] /\ k + 1 \in 1 .. Len(s) /\ k + 1 # 1
      /\ (t = <<>> <=> Len(s) = 1) /\ Len(t) \in Nat /\ Len(s) \in Nat
    <2>1. \A S : \A v \in Seq(S) : v # <<>> =>
            /\ Len(Tail(v)) = Len(v) - 1 /\ \A k \in 1 .. Len(Tail(v)) : Tail(v)[k] = v[k + 1]
        OBVIOUS
    <2>2. Len(t) = Len(s) - 1 /\ \A k \in 1 .. Len(t) : t[k] = s[k + 1]
        BY <1>1, <1>2, <2>1, Zenon
    <2>3. Len(t) \in Nat /\ Len(s) \in Nat /\ (t = <<>> <=> Len(t) = 0)
        OBVIOUS
    <2>4. PICK a \in Nat, b \in Nat : a = Len(t) /\ b = Len(s)
        BY <2>3
    <2>5. a + 1 = b /\ (a = 0 <=> b = 1) /\ \A k \in 1 .. a : k + 1 \in 1 .. b /\ k + 1 # 1
        BY <2>2, <2>4
    <2> QED
        BY <2>2, <2>3, <2>4, <2>5
<1>4. CASE t = <<>> /\ w.learned = <<>>
    <2>1. r = NoPractice
        BY <1>1, <1>2, <1>4, Zenon DEF TurnsTo
    <2> QED
        BY <2>1, NobodyLooks
<1>5. CASE t = <<>> /\ w.learned # <<>>
    <2>1. r.kind = "talk" /\ r.todo = <<>> /\ r.plan = KeepPlan
        BY <1>1, <1>2, <1>5, Zenon DEF TurnsTo, Like
    <2> QED
        BY <2>1, PlansDiffer DEF LookedFor
<1>6. CASE t # <<>>
    <2>1. /\ r.kind = q.kind /\ r.todo = t /\ r.stale = q.stale
          /\ r.plan = (IF q.kind = "batch" THEN <<"exists">> ELSE TextPlan)
        BY <1>1, <1>2, <1>6, Zenon DEF TurnsTo, Like
    <2>2. CASE q.kind = "text"
        BY <1>1, <1>3, <1>6, <2>2 DEF LookedFor
    <2>3. CASE q.kind = "batch"
        <3>1. ~At(r, "insert")
            BY <2>1, <2>3, OneStepPlans, Zenon DEF At
        <3> QED
            BY <2>1, <2>3, <3>1 DEF LookedFor
    <2>4. CASE q.kind = "talk"
        <3>1. Len(s) <= 2
            BY <1>1, <2>4 DEF LookedFor
        <3>2. Len(t) <= 2 /\ Len(t) # 2
            BY <1>3, <3>1
        <3>3. ASSUME ~r.stale, NEW k \in 1 .. Len(t) PROVE t[k] \notin StoredWords
            <4>1. \A m \in 1 .. Len(s) : m # 1 => s[m] \notin StoredWords
                BY <1>1, <2>1, <2>4, <3>3 DEF LookedFor
            <4>2. k + 1 \in 1 .. Len(s) /\ k + 1 # 1 /\ t[k] = s[k + 1]
                BY <1>3
            <4> QED
                BY <4>1, <4>2, Zenon
        <3> QED
            BY <2>1, <2>4, <3>2, <3>3 DEF LookedFor
    <2> QED
        BY <2>2, <2>3, <2>4
<1> QED
    BY <1>4, <1>5, <1>6

LEMMA WordsOfOne ==
    ASSUME PracticeTypes, WordsInv, NEW c \in Learners, NEW r, Becomes(c, r), vocabulary' = vocabulary,
           practised.texted \subseteq practised'.texted, practised'.twice = practised.twice, LookedFor(r)'
    PROVE  WordsInv'
<1>1. Rows' = Rows /\ StoredWords' = StoredWords
    BY DEF Rows, StoredWords
<1>2. TwiceIsKnown'
    BY <1>1 DEF WordsInv, TwiceIsKnown
<1>3. /\ practising'[c] = r /\ \A o \in Learners \ {c} : practising'[o] = practising[o]
    BY OnlyOneMoves
<1>4. ASSUME NEW o \in Learners PROVE LookedFor(practising[o])'
    <2>1. CASE o # c
        <3>1. LookedFor(practising[o])
            BY DEF WordsInv
        <3>2. practising'[o] = practising[o]
            BY <1>3, <2>1
        <3> QED
            BY <1>1, <3>1, <3>2 DEF LookedFor, At
    <2>2. CASE o = c
        BY <1>3, <2>2 DEF LookedFor, At
    <2> QED
        BY <2>1, <2>2
<1> QED
    BY <1>2, <1>4 DEF WordsInv

\* Where also texted stays.
LEMMA WordsOfOneLooked ==
    ASSUME PracticeTypes, WordsInv, NEW c \in Learners, NEW r, Becomes(c, r), vocabulary' = vocabulary,
           WordsStay, LookedFor(r)
    PROVE  WordsInv'
<1>1. Rows' = Rows /\ StoredWords' = StoredWords
    BY DEF Rows, StoredWords
<1>2. LookedFor(r)'
    BY <1>1 DEF LookedFor, At, WordsStay
<1> QED
    BY <1>2, WordsOfOne DEF WordsStay

LEMMA WordsInsert == ASSUME PracticeTypes, WordsInv, NEW c \in Learners, InsertWord(c) PROVE WordsInv'
<1>1. PICK r \in Request(Len(vocabulary) + 1) : WordInserted(c, r)
    BY InsertWordDoes
<1>2. PICK n \in Nat \ {0} : n = Len(vocabulary) /\ Rows = 1 .. n
    BY PracticeFacts
<1>3. PICK q : q = practising[c]
    OBVIOUS
<1>4. q.todo \in Seq(Words) /\ q.todo # <<>> /\ Adds(q) /\ At(q, "insert") /\ q.plan \in AddingPlans
    BY <1>1, <1>3, PlansDiffer DEF WordInserted
<1>5. PICK w \in Words : w = Head(q.todo) /\ w = q.todo[1] /\ 1 \in 1 .. Len(q.todo)
    BY <1>4
<1>6. vocabulary \in Seq(CountedRow)
    BY DEF PracticeTypes
<1>7. /\ Rows' = 1 .. (n + 1) /\ \A i \in Rows : vocabulary'[i] = vocabulary[i]
      /\ vocabulary'[n + 1].word = w
    <2>1. PICK row : row = NewWordRow(w)
        OBVIOUS
    <2>2. vocabulary' = Append(vocabulary, row)
        BY <1>1, <1>3, <1>5, <2>1 DEF WordInserted
    <2>3. row.word = w
        BY <2>1 DEF NewWordRow
    <2> QED
        BY <1>2, <1>6, <2>2, <2>3 DEF Rows
<1>8. StoredWords' = StoredWords \cup {w}
    BY <1>2, <1>7 DEF StoredWords
<1>9. LookedFor(q)
    BY <1>3 DEF WordsInv
<1>10. /\ practised'.texted = practised.texted /\ practised.twice \subseteq practised'.twice
       /\ q.stale => w \in practised'.twice
    BY <1>1, <1>3, <1>5 DEF WordInserted
<1>11. w \in StoredWords => w \in practised'.texted \cup practised'.twice
    <2>1. CASE q.kind = "text"
        BY <1>5, <1>9, <1>10, <2>1 DEF LookedFor
    <2>2. CASE q.kind = "batch" /\ ~q.stale
        BY <1>4, <1>5, <1>9, <2>2 DEF LookedFor
    <2>3. CASE q.kind = "talk" /\ ~q.stale
        BY <1>4, <1>5, <1>9, <2>3 DEF LookedFor
    <2>4. CASE q.stale
        BY <1>10, <2>4
    <2> QED
        BY <1>4, <2>1, <2>2, <2>3, <2>4 DEF Adds
<1>12. TwiceIsKnown'
    <2>1. ASSUME NEW i \in Rows', NEW j \in Rows', i # j, vocabulary'[i].word = vocabulary'[j].word
          PROVE  vocabulary'[i].word \in practised'.texted \cup practised'.twice
        <3>1. CASE i \in Rows /\ j \in Rows
            BY <1>7, <1>10, <2>1, <3>1 DEF WordsInv, TwiceIsKnown
        <3>2. CASE i = n + 1 /\ j \in Rows
            <4>1. w \in StoredWords
                BY <1>7, <2>1, <3>2 DEF StoredWords
            <4> QED
                BY <1>7, <1>11, <3>2, <4>1
        <3>3. CASE j = n + 1 /\ i \in Rows
            <4>1. w \in StoredWords
                BY <1>7, <2>1, <3>3 DEF StoredWords
            <4> QED
                BY <1>7, <1>11, <2>1, <3>3, <4>1
        <3> QED
            BY <1>2, <1>7, <2>1, <3>1, <3>2, <3>3
    <2> QED
        BY <2>1 DEF TwiceIsKnown
<1>13. ASSUME NEW o \in Learners PROVE LookedFor(practising[o])'
    <2>1. CASE o = c
        <3>1. /\ practising'[c] = r /\ r.kind = q.kind /\ r.todo = q.todo /\ r.stale = q.stale /\ r.plan = RecordPlan
            BY <1>1, <1>3 DEF WordInserted
        <3>2. ~At(r, "insert")
            BY <3>1, PlansBegin, Zenon DEF At
        <3>3. ASSUME ~q.stale, q.kind = "talk", NEW k \in 1 .. Len(q.todo), k # 1
              PROVE  q.todo[k] \notin StoredWords'
            <4>1. q.todo[k] \notin StoredWords
                BY <1>4, <1>9, <3>3 DEF LookedFor
            <4>2. Len(q.todo) <= 2 /\ (Len(q.todo) = 2 => q.todo[1] # q.todo[2])
                BY <1>9, <3>3 DEF LookedFor
            <4>3. Len(q.todo) = 2 /\ k = 2
                <5>1. PICK m \in Nat : m = Len(q.todo)
                    BY <1>4
                <5>2. m <= 2 /\ k \in 1 .. m /\ k # 1
                    BY <3>3, <4>2, <5>1
                <5>3. \A a \in Nat : \A b \in 1 .. a : a <= 2 /\ b # 1 => a = 2 /\ b = 2
                    OBVIOUS
                <5> QED
                    BY <5>1, <5>2, <5>3, Zenon
            <4> QED
                BY <1>5, <1>8, <4>1, <4>2, <4>3
        <3>4. LookedFor(r)'
            BY <1>9, <1>10, <3>1, <3>2, <3>3 DEF LookedFor, At
        <3> QED
            BY <2>1, <3>1, <3>4 DEF LookedFor, At
    <2>2. CASE o # c
        <3>1. PICK p : p = practising[o]
            OBVIOUS
        <3>2. PICK u : u = UnawareOfWord(w)[o]
            OBVIOUS
        <3>3. practising'[o] = u
            BY <1>1, <1>3, <1>5, <2>2, <3>2, Zenon DEF WordInserted
        <3>4. /\ u.kind = p.kind /\ u.plan = p.plan /\ u.todo = p.todo
              /\ u.stale <=> (\/ p.stale
                              \/ /\ p.kind \in {"batch", "talk"} /\ ~At(p, "exists") /\ ~At(p, "known")
                                 /\ \E k \in 1 .. Len(p.todo) : p.todo[k] = w)
            BY <3>1, <3>2, UnawareOfWordDoes DEF Stays
        <3>5. LookedFor(p) /\ Planned(p) /\ p.todo \in Seq(Words)
            BY <3>1, PracticeFacts DEF WordsInv, Request
        <3>6. ASSUME ~u.stale, u.kind = "batch", At(u, "insert") PROVE u.todo[1] \notin StoredWords'
            <4>1. At(p, "insert") /\ ~At(p, "exists") /\ ~At(p, "known")
                BY <3>4, <3>6, Zenon DEF At
            <4>2. p.todo # <<>>
                <5>1. p.kind = "batch"
                    BY <3>4, <3>6
                <5> QED
                    BY <3>5, <5>1 DEF Planned, Adds, KeepsLearned
            <4>3. 1 \in 1 .. Len(p.todo)
                BY <3>5, <4>2
            <4>4. p.todo[1] # w /\ p.todo[1] \notin StoredWords
                BY <3>4, <3>5, <3>6, <4>1, <4>3 DEF LookedFor
            <4> QED
                BY <1>8, <3>4, <4>4
        <3>7. ASSUME ~u.stale, u.kind = "talk", u.plan \in AddingPlans, NEW k \in 1 .. Len(u.todo), At(u, "insert") \/ k # 1
              PROVE  u.todo[k] \notin StoredWords'
            <4>1. ~At(p, "exists") /\ ~At(p, "known")
                BY <3>4, <3>7, AddingPlansGoOn, Zenon DEF At
            <4>2. p.todo[k] # w
                BY <3>4, <3>7, <4>1
            <4>3. p.todo[k] \notin StoredWords
                BY <3>4, <3>5, <3>7 DEF LookedFor, At
            <4> QED
                BY <1>8, <3>4, <4>2, <4>3
        <3>8. LookedFor(u)'
            BY <1>10, <3>4, <3>5, <3>6, <3>7 DEF LookedFor, At
        <3> QED
            BY <3>3, <3>8 DEF LookedFor, At
    <2> QED
        BY <2>1, <2>2
<1> QED
    BY <1>12, <1>13 DEF WordsInv

\* A write keeps the word of the row.
LEMMA WordsWrite ==
    ASSUME PracticeTypes, ScheduleInv, WordsInv, NEW c \in Learners, WriteWord(c) \/ KeepWord(c)
    PROVE  WordsInv'
<1>1. PICK row \in CountedRow : /\ WriteRow(c, row) /\ row.word = practising[c].row.word
                                /\ (At(practising[c], "write") \/ At(practising[c], "keep"))
    BY WritingsAreCounted
<1>2. PICK r, w \in Request(Len(vocabulary)) : RowWritten(c, row, r, w)
    BY <1>1, WriteRowDoes
<1>3. PICK n \in Nat \ {0} : n = Len(vocabulary) /\ Rows = 1 .. n
    BY PracticeFacts
<1>4. PICK q : q = practising[c]
    OBVIOUS
<1>5. PICK i \in Rows : i = q.item
    BY <1>2, <1>4 DEF RowWritten
<1>6. row.word = vocabulary[i].word
    BY <1>1, <1>4, <1>5 DEF ScheduleInv, ReadRow, WritesRow
<1>7. Rows' = Rows /\ \A j \in Rows : vocabulary'[j].word = vocabulary[j].word
    <2>1. vocabulary' = [vocabulary EXCEPT ![i] = row] /\ vocabulary \in Seq(CountedRow)
        BY <1>2, <1>4, <1>5 DEF RowWritten, PracticeTypes
    <2>2. vocabulary'[i] = row /\ Rows' = Rows /\ \A j \in Rows \ {i} : vocabulary'[j] = vocabulary[j]
        BY <1>3, <2>1 DEF Rows
    <2> QED
        BY <1>6, <2>2
<1>8. StoredWords' = StoredWords
    BY <1>7 DEF StoredWords
<1>9. practised'.texted = practised.texted /\ practised'.twice = practised.twice
    BY <1>2 DEF RowWritten, WordsStay
<1>10. TwiceIsKnown'
    BY <1>7, <1>9 DEF WordsInv, TwiceIsKnown
<1>11. ASSUME NEW o \in Learners PROVE LookedFor(practising[o])'
    <2>1. CASE o = c
        <3>1. /\ practising'[c] = r
              /\ \/ q.kind = "review" /\ GoesOnWith(w, r, Tail(q.plan)) /\ w.kind = q.kind
                 \/ q.kind = "talk" /\ TurnsTo(w, r, <<>>) /\ w.kind = q.kind
            BY <1>2, <1>4 DEF RowWritten
        <3>2. \/ r.kind = "review" \/ r = NoPractice
              \/ r.kind = "talk" /\ r.todo = <<>> /\ r.plan = KeepPlan
            BY <3>1, Zenon DEF TurnsTo, GoesOnWith, Like
        <3>3. r.kind \in {"review", "none"} \/ (r.kind = "talk" /\ r.todo = <<>> /\ r.plan \notin AddingPlans)
            BY <3>2, PlansDiffer DEF NoPractice
        <3>4. LookedFor(r)'
            BY <3>3 DEF LookedFor, At
        <3> QED
            BY <2>1, <3>1, <3>4 DEF LookedFor, At
    <2>2. CASE o # c
        <3>1. PICK p : p = UnawareOfRow(i)[o]
            OBVIOUS
        <3>2. practising'[o] = p
            BY <1>2, <1>4, <1>5, <2>2, <3>1, Zenon DEF RowWritten
        <3>3. Stays(practising[o], p) /\ (practising[o].stale => p.stale)
            BY <3>1, UnawareOfRowDoes
        <3>4. LookedFor(practising[o])
            BY DEF WordsInv
        <3>5. LookedFor(p)'
            BY <1>8, <1>9, <3>3, <3>4 DEF LookedFor, At, Stays
        <3> QED
            BY <3>2, <3>5 DEF LookedFor, At
    <2> QED
        BY <2>1, <2>2
<1> QED
    BY <1>10, <1>11 DEF WordsInv

LEMMA WordsInit == PracticeInit => WordsInv
<1> SUFFICES ASSUME PracticeInit PROVE WordsInv
    OBVIOUS
<1>1. Rows = {1}
    BY DEF PracticeInit, Rows
<1>2. TwiceIsKnown
    BY <1>1 DEF TwiceIsKnown
<1>3. \A c \in Learners : LookedFor(practising[c])
    BY NobodyLooks DEF PracticeInit
<1> QED
    BY <1>2, <1>3 DEF WordsInv

LEMMA WordsNext == ASSUME PracticeTypes, ScheduleInv, WordsInv, [PracticeNext]_practiceVars PROVE WordsInv'
<1>1. CASE UNCHANGED practiceVars
    BY <1>1 DEF practiceVars, WordsInv, TwiceIsKnown, LookedFor, StoredWords, Rows, At
<1>2. ASSUME NEW c \in Learners,
             \/ ProcessText(c) \/ ProcessBatch(c) \/ Converse(c) \/ ReviewItem(c)
             \/ CheckWord(c) \/ ReadKnownWords(c) \/ InsertWord(c) \/ RecordEvent(c)
             \/ ListWords(c) \/ DeleteEdges(c) \/ ConnectWords(c)
             \/ ReadWord(c) \/ WriteWord(c) \/ KeepWord(c)
             \/ PractiseFails(c)
      PROVE  WordsInv'
    <2>0. PICK q : q = practising[c] /\ q \in Request(Len(vocabulary)) /\ Planned(q) /\ LookedFor(q)
        BY PracticeFacts DEF WordsInv
    <2>1. CASE ProcessText(c) \/ ProcessBatch(c) \/ Converse(c) \/ ReviewItem(c)
        <3>1. PICK r \in Request(Len(vocabulary)) :
              /\ Becomes(c, r) /\ vocabulary' = vocabulary
              /\ \/ r.kind = "text" /\ r.plan = TextPlan /\ Len(r.todo) = 1 /\ r.todo[1] \in practised'.texted
                 \/ r.kind = "batch" /\ r.plan = <<"exists">>
                 \/ r.kind = "talk" /\ r.plan = <<"known">> /\ Len(r.todo) <= 2 /\ (Len(r.todo) = 2 => r.todo[1] # r.todo[2])
                 \/ r.kind = "review" /\ r.plan = ReviewPlan
              /\ practised'.twice = practised.twice /\ practised.texted \subseteq practised'.texted
            BY <2>1, AskingDoes
        <3>2. r.kind = "batch" => ~At(r, "insert")
            BY <3>1, OneStepPlans, Zenon DEF At
        <3>3. r.kind = "talk" => r.plan \notin AddingPlans
            BY <3>1, PlansDiffer, Zenon
        <3>4. LookedFor(r)'
            BY <3>1, <3>2, <3>3 DEF LookedFor, At
        <3> QED
            BY <3>1, <3>4, WordsOfOne
    <2>2. CASE CheckWord(c)
        <3>1. PICK r \in Request(Len(vocabulary)) :
              /\ Becomes(c, r) /\ At(q, "exists") /\ q.kind = "batch"
              /\ \/ TurnsTo(q, r, Tail(q.todo))
                 \/ r.kind = "batch" /\ r.plan = TextPlan /\ r.todo[1] \notin StoredWords
              /\ vocabulary' = vocabulary /\ practised' = practised
            BY <2>0, <2>2, CheckWordDoes
        <3>2. LookedFor(r)
            <4>1. CASE r.kind = "batch" /\ r.plan = TextPlan /\ r.todo[1] \notin StoredWords
                BY <4>1 DEF LookedFor
            <4>2. CASE TurnsTo(q, r, Tail(q.todo))
                <5>1. q.todo \in Seq(Words) /\ q.todo # <<>> /\ q.learned = <<>>
                    BY <2>0, <3>1 DEF Request, Planned, Adds, KeepsLearned
                <5> QED
                    BY <2>0, <3>1, <4>2, <5>1, LookedTurns
            <4> QED
                BY <3>1, <4>1, <4>2
        <3> QED
            BY <3>1, <3>2, WordsOfOneLooked DEF WordsStay
    <2>3. CASE ReadKnownWords(c)
        <3>1. PICK r \in Request(Len(vocabulary)) :
              /\ Becomes(c, r) /\ At(q, "known") /\ q.kind = "talk" /\ q.todo \in Seq(Words)
              /\ TurnsTo(q, r, NewWords(q.todo)) /\ vocabulary' = vocabulary /\ practised' = practised
            BY <2>0, <2>3, ReadKnownWordsDoes
        <3>2. PICK t \in Seq(Words) :
                 /\ t = NewWords(q.todo) /\ \A k \in 1 .. Len(t) : t[k] \notin StoredWords
                 /\ Len(t) <= 2 /\ (Len(t) = 2 => t = q.todo)
            BY <2>0, <3>1, NewWordsAreNew DEF LookedFor
        <3>3. \/ r = NoPractice
              \/ r.kind = "talk" /\ r.todo = <<>> /\ r.plan = KeepPlan
              \/ r.kind = "talk" /\ r.todo = t /\ r.plan = TextPlan
            BY <3>1, <3>2, Zenon DEF TurnsTo, Like
        <3>4. LookedFor(r)
            <4>1. CASE r.kind = "talk" /\ r.todo = <<>> /\ r.plan = KeepPlan
                BY <4>1, PlansDiffer DEF LookedFor
            <4>2. CASE r.kind = "talk" /\ r.todo = t /\ r.plan = TextPlan
                <5>1. Len(t) = 2 => t[1] # t[2]
                    BY <2>0, <3>1, <3>2 DEF LookedFor
                <5> QED
                    BY <3>2, <4>2, <5>1 DEF LookedFor
            <4> QED
                BY <3>3, <4>1, <4>2, NobodyLooks
        <3> QED
            BY <3>1, <3>4, WordsOfOneLooked DEF WordsStay
    <2>4. CASE InsertWord(c)
        BY <2>4, WordsInsert
    <2>5. CASE RecordEvent(c)
        <3>1. PICK r \in Request(Len(vocabulary)) :
                /\ Becomes(c, r) /\ vocabulary' = vocabulary /\ WordsStay
                /\ \/ q.plan = RecordPlan /\ GoesOnWith(q, r, ListPlan)
                   \/ q.kind = "review" /\ GoesOnWith(q, r, Tail(q.plan))
                   \/ r = NoPractice
            BY <2>0, <2>5, RecordEventDoes
        <3>2. LookedFor(r)
            <4>1. CASE q.plan = RecordPlan /\ GoesOnWith(q, r, ListPlan)
                <5>1. r.kind = q.kind /\ r.todo = q.todo /\ r.stale = q.stale /\ r.plan = ListPlan
                    BY <4>1 DEF GoesOnWith, Like
                <5>2. RecordPlan \in AddingPlans
                    BY DEF AddingPlans
                <5>3. ~At(r, "insert")
                    BY <5>1, PlansBegin, Zenon DEF At
                <5> QED
                    BY <2>0, <4>1, <5>1, <5>2, <5>3, LookedAlike
            <4>2. CASE q.kind = "review" /\ GoesOnWith(q, r, Tail(q.plan))
                BY <4>2 DEF GoesOnWith, Like, LookedFor
            <4> QED
                BY <3>1, <4>1, <4>2, NobodyLooks
        <3> QED
            BY <3>1, <3>2, WordsOfOneLooked
    <2>6. CASE ListWords(c)
        <3>1. PICK r \in Request(Len(vocabulary)) :
                /\ Becomes(c, r) /\ vocabulary' = vocabulary /\ practised' = practised /\ q.plan = ListPlan
                /\ r.plan = DeletePlan /\ r.kind = q.kind /\ r.todo = q.todo /\ r.stale = q.stale
            BY <2>0, <2>6, ListWordsDoes
        <3>2. ~At(r, "insert") /\ q.plan \in AddingPlans
            BY <3>1, PlansBegin, Zenon DEF At, AddingPlans
        <3>3. LookedFor(r)
            BY <2>0, <3>1, <3>2, LookedAlike
        <3> QED
            BY <3>1, <3>3, WordsOfOneLooked DEF WordsStay
    <2>7. CASE DeleteEdges(c)
        <3>1. PICK r \in Request(Len(vocabulary)) :
                /\ Becomes(c, r) /\ vocabulary' = vocabulary /\ practised' = practised /\ q.plan = DeletePlan
                /\ r.plan = ConnectPlan /\ r.kind = q.kind /\ r.todo = q.todo /\ r.stale = q.stale
            BY <2>0, <2>7, DeleteEdgesDoes
        <3>2. ~At(r, "insert") /\ q.plan \in AddingPlans
            BY <3>1, PlansBegin, Zenon DEF At, AddingPlans
        <3>3. LookedFor(r)
            BY <2>0, <3>1, <3>2, LookedAlike
        <3> QED
            BY <3>1, <3>3, WordsOfOneLooked DEF WordsStay
    <2>8. CASE ConnectWords(c)
        <3>1. PICK r \in Request(Len(vocabulary)), w \in Request(Len(vocabulary)) :
                /\ Becomes(c, r) /\ vocabulary' = vocabulary /\ WordsStay /\ Adds(q) /\ q.plan = ConnectPlan
                /\ TurnsTo(w, r, Tail(w.todo)) /\ w.kind = q.kind /\ w.todo = q.todo /\ w.stale = q.stale
                /\ w.learned = q.learned
            BY <2>0, <2>8, ConnectWordsDoes
        <3>2. q.plan \in AddingPlans
            BY <3>1 DEF AddingPlans
        <3>3. q.todo \in Seq(Words) /\ q.todo # <<>> /\ (q.kind # "talk" => q.learned = <<>>)
            <4>1. ~KeepsLearned(q)
                BY <3>1, PlansBegin, Zenon DEF KeepsLearned, At
            <4> QED
                BY <2>0, <3>1, <4>1 DEF Planned, Request
        <3>4. LookedFor(r)
            <4>1. q.kind \in {"text", "batch", "talk"}
                BY <3>1 DEF Adds
            <4> QED
                BY <2>0, <3>1, <3>2, <3>3, <4>1, LookedTurns
        <3> QED
            BY <3>1, <3>4, WordsOfOneLooked
    <2>9. CASE ReadWord(c)
        <3>1. PICK r \in Request(Len(vocabulary)) :
                /\ Becomes(c, r) /\ vocabulary' = vocabulary /\ practised' = practised
                /\ \/ r.kind = "talk" /\ r.plan = KeptPlan /\ r.todo = q.todo /\ q.kind = "talk"
                   \/ r.kind = "review"
            BY <2>0, <2>9, ReadWordDoes
        <3>2. LookedFor(r)
            <4>1. CASE r.kind = "talk" /\ r.plan = KeptPlan /\ r.todo = q.todo /\ q.kind = "talk"
                BY <2>0, <4>1, PlansDiffer DEF LookedFor
            <4>2. CASE r.kind = "review"
                BY <4>2 DEF LookedFor
            <4> QED
                BY <3>1, <4>1, <4>2
        <3> QED
            BY <3>1, <3>2, WordsOfOneLooked DEF WordsStay
    <2>10. CASE WriteWord(c) \/ KeepWord(c)
        BY <2>10, WordsWrite
    <2>11. CASE PractiseFails(c)
        <3>1. PICK r \in Request(Len(vocabulary)), w \in Request(Len(vocabulary)) :
                /\ Becomes(c, r) /\ vocabulary' = vocabulary /\ WordsStay
                /\ \/ r = NoPractice
                   \/ /\ q.kind = "talk" /\ q.plan \in AddingPlans /\ q.todo \in Seq(Words) /\ q.todo # <<>>
                      /\ w.kind = "talk" /\ w.todo = q.todo /\ w.stale = q.stale /\ TurnsTo(w, r, Tail(w.todo))
            BY <2>0, <2>11, PractiseFailsDoes
        <3>2. CASE r = NoPractice
            BY <3>1, <3>2, NobodyLooks, WordsOfOneLooked
        <3>3. CASE /\ q.kind = "talk" /\ q.plan \in AddingPlans /\ q.todo \in Seq(Words) /\ q.todo # <<>>
                   /\ w.kind = "talk" /\ w.todo = q.todo /\ w.stale = q.stale /\ TurnsTo(w, r, Tail(w.todo))
            <4>1. LookedFor(r)
                BY <2>0, <3>3, LookedTurns
            <4> QED
                BY <3>1, <4>1, WordsOfOneLooked
        <3> QED
            BY <3>1, <3>2, <3>3
    <2> QED
        BY <1>2, <2>1, <2>2, <2>3, <2>4, <2>5, <2>6, <2>7, <2>8, <2>9, <2>10, <2>11
<1>3. CASE PracticeNext
    BY <1>2, <1>3 DEF PracticeNext
<1> QED
    BY <1>1, <1>3

LEMMA WordsHold == PracticeSpec => []WordsInv
<1>1. PracticeTypes /\ ScheduleInv /\ WordsInv /\ [PracticeNext]_practiceVars => WordsInv'
    BY WordsNext
<1> QED
    BY <1>1, WordsInit, PracticeTypesHold, ScheduleHolds, PTL DEF PracticeSpec

-----------------------------------------------------------------------------
(* Events *)

\* The first event of the answer has been recorded, and the last has not; and a row has no event yet.
Half(q) == q.kind = "review" /\ q.plan \in ProcessedPlans
UnrecordedRow(q) == Adds(q) /\ At(q, "record")

HalfAnswered == {c \in Learners : Half(practising[c])}
Recording == {c \in Learners : UnrecordedRow(practising[c])}

PracticeEventsInv ==
    ~practised.cut =>
        /\ learningEvents.reviewed = 2 * practised.answered + Cardinality(HalfAnswered)
        /\ Len(vocabulary) = learningEvents.learned + Cardinality(Recording)

LEMMA CountsMove ==
    ASSUME NEW S \in SUBSET Learners, NEW c \in Learners
    PROVE  /\ Cardinality(S) \in Nat
           /\ c \in S => Cardinality(S \ {c}) + 1 = Cardinality(S)
           /\ c \notin S => Cardinality(S \cup {c}) = Cardinality(S) + 1
<1>1. IsFiniteSet(S)
    BY FS_Subset, PracticeAssumption
<1>2. Cardinality(S) \in Nat
    BY <1>1, FS_CardinalityType
<1>3. c \notin S => Cardinality(S \cup {c}) = Cardinality(S) + 1
    BY <1>1, FS_AddElement
<1>4. ASSUME c \in S PROVE Cardinality(S \ {c}) + 1 = Cardinality(S)
    <2>1. Cardinality(S \ {c}) = Cardinality(S) - 1
        BY <1>1, <1>4, FS_RemoveElement
    <2> QED
        BY <1>2, <2>1
<1> QED
    BY <1>2, <1>3, <1>4

\* Where c becomes r, and the others have at most learned that something is stale.
LEMMA CountsOfOne ==
    ASSUME NEW c \in Learners, NEW r, practising'[c] = r,
           \A o \in Learners \ {c} : practising'[o].kind = practising[o].kind /\ practising'[o].plan = practising[o].plan
    PROVE  /\ HalfAnswered' = (IF Half(r) THEN HalfAnswered \cup {c} ELSE HalfAnswered \ {c})
           /\ Recording' = (IF UnrecordedRow(r) THEN Recording \cup {c} ELSE Recording \ {c})
           /\ c \in HalfAnswered <=> Half(practising[c])
           /\ c \in Recording <=> UnrecordedRow(practising[c])
<1>1. \A o \in Learners \ {c} : /\ Half(practising'[o]) <=> Half(practising[o])
                                /\ UnrecordedRow(practising'[o]) <=> UnrecordedRow(practising[o])
    BY DEF Half, UnrecordedRow, Adds, At
<1>2. HalfAnswered' = {o \in Learners : Half(practising'[o])} /\ Recording' = {o \in Learners : UnrecordedRow(practising'[o])}
    BY DEF HalfAnswered, Recording, Half, UnrecordedRow, Adds, At
<1>3. HalfAnswered' = (IF Half(r) THEN HalfAnswered \cup {c} ELSE HalfAnswered \ {c})
    BY <1>1, <1>2 DEF HalfAnswered
<1>4. Recording' = (IF UnrecordedRow(r) THEN Recording \cup {c} ELSE Recording \ {c})
    BY <1>1, <1>2 DEF Recording
<1> QED
    BY <1>3, <1>4 DEF HalfAnswered, Recording

\* A step that records nothing and adds no row.
LEMMA EventsStay ==
    ASSUME PracticeEventsInv, NEW c \in Learners, NEW r, practising'[c] = r,
           \A o \in Learners \ {c} : practising'[o].kind = practising[o].kind /\ practising'[o].plan = practising[o].plan,
           learningEvents' = learningEvents, practised'.answered = practised.answered, practised'.cut = practised.cut,
           Len(vocabulary') = Len(vocabulary), Half(r) <=> Half(practising[c]), UnrecordedRow(r) <=> UnrecordedRow(practising[c])
    PROVE  PracticeEventsInv'
<1>1. HalfAnswered' = HalfAnswered /\ Recording' = Recording
    <2>1. /\ HalfAnswered' = (IF Half(r) THEN HalfAnswered \cup {c} ELSE HalfAnswered \ {c})
          /\ Recording' = (IF UnrecordedRow(r) THEN Recording \cup {c} ELSE Recording \ {c})
          /\ c \in HalfAnswered <=> Half(practising[c])
          /\ c \in Recording <=> UnrecordedRow(practising[c])
        BY CountsOfOne, Zenon
    <2> QED
        BY <2>1
<1> QED
    BY <1>1 DEF PracticeEventsInv

LEMMA EventsOfOne ==
    ASSUME PracticeTypes, PracticeEventsInv, NEW c \in Learners, NEW r, Becomes(c, r),
           learningEvents' = learningEvents, practised'.answered = practised.answered, practised'.cut = practised.cut,
           vocabulary' = vocabulary, Half(r) <=> Half(practising[c]), UnrecordedRow(r) <=> UnrecordedRow(practising[c])
    PROVE  PracticeEventsInv'
<1>1. practising'[c] = r /\ \A o \in Learners \ {c} : practising'[o] = practising[o]
    BY OnlyOneMoves
<1> QED
    BY <1>1, EventsStay

LEMMA EventsRecord == ASSUME PracticeTypes, PracticeEventsInv, NEW c \in Learners, RecordEvent(c) PROVE PracticeEventsInv'
<1>1. PICK q : q = practising[c]
    OBVIOUS
<1>2. PICK r \in Request(Len(vocabulary)) :
         /\ Becomes(c, r) /\ At(q, "record") /\ vocabulary' = vocabulary /\ practised'.cut = practised.cut
         /\ \/ /\ Adds(q) /\ q.plan = RecordPlan /\ GoesOnWith(q, r, ListPlan)
               /\ learningEvents'.learned = learningEvents.learned + 1
               /\ learningEvents'.reviewed = learningEvents.reviewed /\ practised'.answered = practised.answered
            \/ /\ q.kind = "review" /\ q.plan \in ReviewPlans
               /\ learningEvents'.learned = learningEvents.learned
               /\ learningEvents'.reviewed = learningEvents.reviewed + 1
               /\ \/ /\ Len(q.plan) > 1 /\ GoesOnWith(q, r, Tail(q.plan))
                     /\ practised'.answered = practised.answered
                  \/ /\ ~(Len(q.plan) > 1) /\ r = NoPractice
                     /\ practised'.answered = practised.answered + 1
    BY <1>1, RecordEventDoes DEF EndsStay
<1>3. practising'[c] = r /\ \A o \in Learners \ {c} : practising'[o] = practising[o]
    BY <1>2, OnlyOneMoves
<1>4. /\ HalfAnswered' = (IF Half(r) THEN HalfAnswered \cup {c} ELSE HalfAnswered \ {c})
      /\ Recording' = (IF UnrecordedRow(r) THEN Recording \cup {c} ELSE Recording \ {c})
      /\ c \in HalfAnswered <=> Half(q)
      /\ c \in Recording <=> UnrecordedRow(q)
    BY <1>1, <1>3, CountsOfOne
<1>5. HalfAnswered \in SUBSET Learners /\ Recording \in SUBSET Learners
    BY DEF HalfAnswered, Recording
<1>6. PICK l \in Nat, v \in Nat, a \in Nat, n \in Nat :
        l = learningEvents.learned /\ v = learningEvents.reviewed /\ a = practised.answered /\ n = Len(vocabulary)
    BY DEF PracticeTypes
<1>7. PICK h \in Nat, u \in Nat : h = Cardinality(HalfAnswered) /\ u = Cardinality(Recording)
    BY <1>5, CountsMove
<1>8. SUFFICES ASSUME ~practised'.cut
               PROVE  /\ learningEvents'.reviewed = 2 * practised'.answered + Cardinality(HalfAnswered')
                      /\ Len(vocabulary') = learningEvents'.learned + Cardinality(Recording')
    BY DEF PracticeEventsInv
<1>9. v = 2 * a + h /\ n = l + u
    BY <1>2, <1>6, <1>7, <1>8 DEF PracticeEventsInv
<1>10. CASE Adds(q) /\ q.plan = RecordPlan /\ GoesOnWith(q, r, ListPlan)
    <2>1. r.kind = q.kind /\ q.kind # "review" /\ r.plan = ListPlan
        BY <1>10 DEF Adds, GoesOnWith, Like
    <2>2. ~Half(r) /\ ~Half(q) /\ ~UnrecordedRow(r) /\ UnrecordedRow(q)
        BY <1>2, <1>10, <2>1, PlansBegin, Zenon DEF Half, UnrecordedRow, At
    <2>3. HalfAnswered' = HalfAnswered /\ Recording' = Recording \ {c} /\ c \in Recording
        BY <1>4, <2>2
    <2>4. Cardinality(Recording') + 1 = u
        BY <1>5, <1>7, <2>3, CountsMove
    <2>5. PICK u2 \in Nat : u2 = Cardinality(Recording')
        BY <1>5, <2>3, CountsMove
    <2>6. n = (l + 1) + u2
        BY <1>9, <2>4, <2>5
    <2> QED
        BY <1>2, <1>6, <1>7, <1>9, <1>10, <2>1, <2>3, <2>5, <2>6
<1>11. CASE q.kind = "review" /\ q.plan \in ReviewPlans
    <2>1. ~UnrecordedRow(q) /\ ~UnrecordedRow(r)
        BY <1>2, <1>11 DEF UnrecordedRow, Adds, GoesOnWith, Like, NoPractice
    <2>2. Recording' = Recording
        BY <1>4, <2>1
    <2>3. CASE Len(q.plan) > 1
        <3>1. q.plan \notin ProcessedPlans /\ Tail(q.plan) \in ProcessedPlans
            BY <1>2, <1>11, <2>3, ReviewPlansGoOn, Zenon DEF At
        <3>2. Half(r) /\ ~Half(q)
            BY <1>2, <1>11, <2>3, <3>1 DEF Half, GoesOnWith, Like, Adds
        <3>3. Cardinality(HalfAnswered') = h + 1
            BY <1>4, <1>5, <1>7, <3>2, CountsMove
        <3>4. v + 1 = 2 * a + (h + 1)
            BY <1>9
        <3> QED
            BY <1>2, <1>6, <1>7, <1>9, <1>11, <2>2, <2>3, <3>3, <3>4 DEF Adds
    <2>4. CASE ~(Len(q.plan) > 1)
        <3>1. q.plan \in ProcessedPlans
            BY <1>11, <2>4, ReviewPlansGoOn, Zenon
        <3>2. Half(q) /\ ~Half(r)
            BY <1>2, <1>11, <2>4, <3>1 DEF Half, NoPractice, Adds
        <3>3. Cardinality(HalfAnswered') + 1 = h
            BY <1>4, <1>5, <1>7, <3>2, CountsMove
        <3>4. PICK h2 \in Nat : h2 = Cardinality(HalfAnswered')
            BY <1>4, <1>5, <3>2, CountsMove
        <3>5. v + 1 = 2 * (a + 1) + h2
            BY <1>9, <3>3, <3>4
        <3> QED
            BY <1>2, <1>6, <1>7, <1>9, <1>11, <2>2, <2>4, <3>4, <3>5 DEF Adds
    <2> QED
        BY <2>3, <2>4
<1> QED
    BY <1>2, <1>10, <1>11

LEMMA EventsInsert == ASSUME PracticeTypes, PracticeEventsInv, NEW c \in Learners, InsertWord(c) PROVE PracticeEventsInv'
<1>1. PICK r \in Request(Len(vocabulary) + 1) : WordInserted(c, r)
    BY InsertWordDoes
<1>2. /\ practising'[c] = r /\ r.kind = practising[c].kind /\ r.plan = RecordPlan /\ Adds(practising[c])
      /\ At(practising[c], "insert") /\ learningEvents' = learningEvents /\ practised'.answered = practised.answered
      /\ practised'.cut = practised.cut
      /\ vocabulary' = Append(vocabulary, NewWordRow(Head(practising[c].todo)))
    BY <1>1 DEF WordInserted, EndsStay
<1>3. \A o \in Learners \ {c} : practising'[o].kind = practising[o].kind /\ practising'[o].plan = practising[o].plan
    BY <1>1, UnawareOfWordDoes DEF WordInserted, Stays
<1>4. UnrecordedRow(r) /\ ~UnrecordedRow(practising[c]) /\ ~Half(r) /\ ~Half(practising[c])
    BY <1>2, PlansBegin DEF UnrecordedRow, Half, Adds, At
<1>5. HalfAnswered' = HalfAnswered /\ Recording' = Recording \cup {c} /\ c \notin Recording
    <2>1. /\ HalfAnswered' = (IF Half(r) THEN HalfAnswered \cup {c} ELSE HalfAnswered \ {c})
          /\ Recording' = (IF UnrecordedRow(r) THEN Recording \cup {c} ELSE Recording \ {c})
          /\ c \in HalfAnswered <=> Half(practising[c])
          /\ c \in Recording <=> UnrecordedRow(practising[c])
        BY <1>2, <1>3, CountsOfOne, Zenon
    <2> QED
        BY <1>4, <2>1
<1>6. Recording \in SUBSET Learners
    BY DEF Recording
<1>7. PICK l \in Nat, n \in Nat : l = learningEvents.learned /\ n = Len(vocabulary)
    BY DEF PracticeTypes
<1>8. PICK u \in Nat : u = Cardinality(Recording)
    BY <1>6, CountsMove
<1>9. Cardinality(Recording') = u + 1
    BY <1>5, <1>6, <1>8, CountsMove
<1>10. Len(vocabulary') = n + 1
    BY <1>2, <1>7 DEF PracticeTypes
<1>11. n = l + u => n + 1 = l + (u + 1)
    OBVIOUS
<1> QED
    BY <1>2, <1>5, <1>7, <1>8, <1>9, <1>10, <1>11 DEF PracticeEventsInv

LEMMA EventsWrite ==
    ASSUME PracticeTypes, PracticeEventsInv, NEW c \in Learners, WriteWord(c) \/ KeepWord(c)
    PROVE  PracticeEventsInv'
<1>1. PICK row \in CountedRow : /\ WriteRow(c, row)
                                /\ (At(practising[c], "write") \/ At(practising[c], "keep"))
    BY WritingsAreCounted
<1>2. PICK r, w \in Request(Len(vocabulary)) : RowWritten(c, row, r, w)
    BY <1>1, WriteRowDoes
<1>3. PICK q : q = practising[c]
    OBVIOUS
<1>4. /\ practising'[c] = r /\ learningEvents' = learningEvents /\ practised'.answered = practised.answered
      /\ practised'.cut = practised.cut
    BY <1>2 DEF RowWritten, EndsStay
<1>5. Len(vocabulary') = Len(vocabulary)
    BY <1>2 DEF RowWritten, PracticeTypes
<1>6. \A o \in Learners \ {c} : practising'[o].kind = practising[o].kind /\ practising'[o].plan = practising[o].plan
    BY <1>2, UnawareOfRowDoes DEF RowWritten, Stays
<1>7. \/ q.kind = "review" /\ q.plan \in ReviewPlans /\ At(q, "write") /\ r.kind = "review" /\ r.plan = Tail(q.plan)
      \/ q.kind = "talk" /\ At(q, "keep") /\ TurnsTo(w, r, <<>>) /\ w.kind = "talk"
    BY <1>2, <1>3 DEF RowWritten, GoesOnWith, Like
<1>8. (Half(r) <=> Half(q)) /\ (UnrecordedRow(r) <=> UnrecordedRow(q))
    <2>1. CASE q.kind = "review" /\ q.plan \in ReviewPlans /\ At(q, "write") /\ r.kind = "review" /\ r.plan = Tail(q.plan)
        <3>1. Tail(q.plan) \in ProcessedPlans <=> q.plan \in ProcessedPlans
            BY <2>1, ReviewPlansGoOn, Zenon DEF At
        <3> QED
            BY <2>1, <3>1, Zenon DEF Half, UnrecordedRow, Adds
    <2>2. CASE q.kind = "talk" /\ At(q, "keep") /\ TurnsTo(w, r, <<>>) /\ w.kind = "talk"
        <3>1. r.kind = "talk" \/ r = NoPractice
            BY <2>2, Zenon DEF TurnsTo, Like
        <3>2. r.kind # "review"
            BY <3>1 DEF NoPractice
        <3>3. ~At(r, "record")
            BY <2>2, TurnsToBegin
        <3> QED
            BY <2>2, <3>2, <3>3 DEF Half, UnrecordedRow, At
    <2> QED
        BY <1>7, <2>1, <2>2
<1> QED
    BY <1>3, <1>4, <1>5, <1>6, <1>8, EventsStay

LEMMA EventsInit == PracticeInit => PracticeEventsInv
<1> SUFFICES ASSUME PracticeInit PROVE PracticeEventsInv
    OBVIOUS
<1>1. NoPractice.plan = <<>> /\ NoPractice.kind = "none"
    BY DEF NoPractice
<1>2. ~Half(NoPractice) /\ ~UnrecordedRow(NoPractice)
    BY <1>1 DEF Half, UnrecordedRow, Adds
<1>3. HalfAnswered = {} /\ Recording = {}
    BY <1>2 DEF PracticeInit, HalfAnswered, Recording
<1>4. Cardinality(HalfAnswered) = 0 /\ Cardinality(Recording) = 0
    BY <1>3, FS_EmptySet
<1>5. Len(vocabulary) = 1
    <2>1. PICK row : row = NewWordRow(KnownWord)
        OBVIOUS
    <2>2. vocabulary = <<row>>
        BY <2>1 DEF PracticeInit
    <2> QED
        BY <2>2
<1> QED
    BY <1>4, <1>5 DEF PracticeInit, PracticeEventsInv

LEMMA EventsNext == ASSUME PracticeTypes, PracticeEventsInv, [PracticeNext]_practiceVars PROVE PracticeEventsInv'
<1>1. CASE UNCHANGED practiceVars
    BY <1>1 DEF practiceVars, PracticeEventsInv, HalfAnswered, Recording, Half, UnrecordedRow, Adds, At
<1>2. ASSUME NEW c \in Learners,
             \/ ProcessText(c) \/ ProcessBatch(c) \/ Converse(c) \/ ReviewItem(c)
             \/ CheckWord(c) \/ ReadKnownWords(c) \/ InsertWord(c) \/ RecordEvent(c)
             \/ ListWords(c) \/ DeleteEdges(c) \/ ConnectWords(c)
             \/ ReadWord(c) \/ WriteWord(c) \/ KeepWord(c)
             \/ PractiseFails(c)
      PROVE  PracticeEventsInv'
    <2>0. PICK q : q = practising[c] /\ Planned(q)
        BY PracticeFacts
    <2>1. CASE ProcessText(c) \/ ProcessBatch(c) \/ Converse(c) \/ ReviewItem(c)
        <3>1. PICK r \in Request(Len(vocabulary)) :
              /\ Becomes(c, r) /\ q.plan = <<>> /\ UNCHANGED <<vocabulary, learningEvents>> /\ EndsStay
              /\ r.plan = TextPlan \/ r.plan = <<"exists">> \/ r.plan = <<"known">> \/ r.plan = ReviewPlan
              /\ r.plan = ReviewPlan \/ r.kind # "review"
            BY <2>0, <2>1, AskingDoes
        <3>2. q.kind = "none" /\ ~At(q, "record")
            BY <2>0, <3>1, PlansAreKnown, Zenon DEF At
        <3>3. ~At(r, "record")
            BY <3>1, PlansBegin, OneStepPlans, Zenon DEF At
        <3>4. ~Half(r)
            BY <3>1, FirstPlansAreNotProcessed, Zenon DEF Half
        <3>5. ~Half(q)
            BY <3>2 DEF Half
        <3> QED
            BY <2>0, <3>1, <3>2, <3>3, <3>4, <3>5, EventsOfOne DEF UnrecordedRow, EndsStay
    <2>2. CASE CheckWord(c) \/ ReadKnownWords(c)
        <3>1. PICK r \in Request(Len(vocabulary)) :
              /\ Becomes(c, r) /\ (At(q, "exists") \/ At(q, "known")) /\ q.kind # "review"
              /\ (\E words : TurnsTo(q, r, words)) \/ (r.kind = "batch" /\ r.plan = TextPlan)
              /\ UNCHANGED <<vocabulary, learningEvents, practised>>
            <4>1. CASE CheckWord(c)
                BY <2>0, <4>1, CheckWordDoes
            <4>2. CASE ReadKnownWords(c)
                BY <2>0, <4>2, ReadKnownWordsDoes
            <4> QED
                BY <2>2, <4>1, <4>2
        <3>2. ~At(r, "record") /\ ~At(q, "record")
            BY <3>1, TurnsToBegin, PlansBegin DEF At
        <3>3. r.kind # "review"
            <4>1. ASSUME NEW words, TurnsTo(q, r, words) PROVE r.kind = q.kind \/ r = NoPractice
                BY <4>1, Zenon DEF TurnsTo, Like
            <4> QED
                BY <3>1, <4>1 DEF NoPractice
        <3> QED
            BY <2>0, <3>1, <3>2, <3>3, EventsOfOne DEF UnrecordedRow, Half
    <2>4. CASE InsertWord(c)
        BY <2>4, EventsInsert
    <2>5. CASE RecordEvent(c)
        BY <2>5, EventsRecord
    <2>6. CASE ListWords(c) \/ DeleteEdges(c)
        <3>1. PICK r \in Request(Len(vocabulary)) :
              /\ Becomes(c, r) /\ (At(q, "list") \/ At(q, "delete")) /\ Adds(q) /\ r.kind = q.kind
              /\ r.plan = DeletePlan \/ r.plan = ConnectPlan
              /\ UNCHANGED <<vocabulary, learningEvents, practised>>
            <4>1. CASE ListWords(c)
                BY <2>0, <4>1, ListWordsDoes
            <4>2. CASE DeleteEdges(c)
                BY <2>0, <4>2, DeleteEdgesDoes
            <4> QED
                BY <2>6, <4>1, <4>2
        <3>2. ~At(r, "record") /\ ~At(q, "record")
            BY <3>1, PlansBegin DEF At
        <3>3. q.kind # "review"
            BY <3>1 DEF Adds
        <3> QED
            BY <2>0, <3>1, <3>2, <3>3, EventsOfOne DEF UnrecordedRow, Half
    <2>8. CASE ConnectWords(c)
        <3>1. PICK r \in Request(Len(vocabulary)), w \in Request(Len(vocabulary)) :
                /\ Becomes(c, r) /\ vocabulary' = vocabulary /\ EndsStay /\ Adds(q) /\ At(q, "connect")
                /\ TurnsTo(w, r, Tail(w.todo)) /\ w.kind = q.kind /\ learningEvents' = learningEvents
            BY <2>0, <2>8, ConnectWordsDoes
        <3>2. ~At(r, "record") /\ ~At(q, "record")
            BY <3>1, TurnsToBegin DEF At
        <3>3. q.kind # "review" /\ r.kind # "review"
            <4>1. r.kind = q.kind \/ r = NoPractice
                BY <3>1, Zenon DEF TurnsTo, Like
            <4> QED
                BY <3>1, <4>1 DEF Adds, NoPractice
        <3> QED
            BY <2>0, <3>1, <3>2, <3>3, EventsOfOne DEF UnrecordedRow, Half, EndsStay
    <2>9. CASE ReadWord(c)
        <3>1. PICK r \in Request(Len(vocabulary)) :
              /\ Becomes(c, r) /\ At(q, "read") /\ r.kind = q.kind
              /\ \/ r.kind = "talk" /\ r.plan = KeptPlan
                 \/ r.kind = "review" /\ q.plan \in ReviewPlans /\ r.plan = Tail(q.plan)
              /\ UNCHANGED <<vocabulary, learningEvents, practised>>
            BY <2>0, <2>9, ReadWordDoes
        <3>2. ~At(q, "record")
            BY <3>1 DEF At
        <3>3. CASE r.kind = "talk" /\ r.plan = KeptPlan
            <4>1. ~At(r, "record")
                BY <3>3, PlansBegin, Zenon DEF At
            <4> QED
                BY <2>0, <3>1, <3>2, <3>3, <4>1, EventsOfOne DEF UnrecordedRow, Half
        <3>4. CASE r.kind = "review" /\ q.plan \in ReviewPlans /\ r.plan = Tail(q.plan)
            <4>1. Tail(q.plan) \in ProcessedPlans <=> q.plan \in ProcessedPlans
                BY <3>1, <3>4, ReviewPlansGoOn, Zenon DEF At
            <4>2. (Half(r) <=> Half(q)) /\ ~UnrecordedRow(r) /\ ~UnrecordedRow(q)
                BY <3>1, <3>4, <4>1 DEF Half, UnrecordedRow, Adds
            <4> QED
                BY <2>0, <3>1, <4>2, EventsOfOne
        <3> QED
            BY <3>1, <3>3, <3>4
    <2>10. CASE WriteWord(c) \/ KeepWord(c)
        BY <2>10, EventsWrite
    <2>11. CASE PractiseFails(c)
        <3>1. practised'.cut
            BY <2>11, PractiseFailsDoes
        <3> QED
            BY <3>1 DEF PracticeEventsInv
    <2> QED
        BY <1>2, <2>1, <2>2, <2>4, <2>5, <2>6, <2>8, <2>9, <2>10, <2>11
<1>3. CASE PracticeNext
    BY <1>2, <1>3 DEF PracticeNext
<1> QED
    BY <1>1, <1>3

LEMMA EventsHold == PracticeSpec => []PracticeEventsInv
<1>1. PracticeTypes /\ PracticeEventsInv /\ [PracticeNext]_practiceVars => PracticeEventsInv'
    BY EventsNext
<1> QED
    BY <1>1, EventsInit, PracticeTypesHold, PTL DEF PracticeSpec

-----------------------------------------------------------------------------
(* The graph of concepts *)

\* The request has inserted its word, and has yet to connect it.
Unlinked(q) == Adds(q) /\ (At(q, "record") \/ At(q, "list") \/ At(q, "delete") \/ At(q, "connect"))
Awaits(o, w) == Unlinked(practising[o]) /\ practising[o].todo[1] = w

\* The edges of a row that is still to be connected are new to everybody.
EdgesInv ==
    /\ \A c \in Learners : Unlinked(practising[c]) =>
        /\ \A e \in graph : e[2] # practising[c].item
        /\ \A o \in Learners : \A e \in practising[o].replaced : e[2] # practising[c].item
    /\ \A c, o \in Learners : c # o /\ Unlinked(practising[c]) /\ Unlinked(practising[o]) =>
        practising[c].item # practising[o].item
    /\ \A c \in Learners : At(practising[c], "delete") \/ At(practising[c], "connect") => practising[c].listed # {}

\* Words that came after the list was made are connected by others; edges that came after the
\* deletion are noticed.
LinksWell(c) ==
    /\ At(practising[c], "delete") /\ ~practising[c].overtaken => StoredWords \subseteq practising[c].listed
    /\ At(practising[c], "connect") /\ ~practising[c].overtaken /\ graph \subseteq practising[c].replaced =>
        \A w \in StoredWords \ practising[c].listed : \E o \in Learners \ {c} : Awaits(o, w)

\* Every word has one edge, or someone will connect it.
GraphInv ==
    ~practised.cut /\ ~practised.overtaken =>
        /\ \A e, f \in graph : e[1] = f[1] => e = f
        /\ \A w \in StoredWords : (\E e \in graph : e[1] = w) \/ \E o \in Learners : Awaits(o, w)
        /\ \A c \in Learners : LinksWell(c)

LEMMA EdgesStay ==
    ASSUME EdgesInv, NEW c \in Learners, NEW r, practising'[c] = r,
           \A o \in Learners \ {c} : Stays(practising[o], practising'[o]), graph' = graph,
           Unlinked(r) => Unlinked(practising[c]) /\ r.item = practising[c].item,
           r.replaced \subseteq practising[c].replaced \cup graph,
           At(r, "delete") \/ At(r, "connect") => r.listed # {}
    PROVE  EdgesInv'
<1>1. \A o \in Learners : Unlinked(practising'[o]) => Unlinked(practising[o]) /\ practising'[o].item = practising[o].item
    BY DEF Stays, Unlinked, Adds, At
<1>2. \A o \in Learners : practising'[o].replaced \subseteq practising[o].replaced \cup graph
    BY DEF Stays
<1>3. \A o \in Learners : At(practising'[o], "delete") \/ At(practising'[o], "connect") => practising'[o].listed # {}
    BY DEF EdgesInv, Stays, At
<1>4. ASSUME NEW a \in Learners, Unlinked(practising'[a])
      PROVE  /\ \A e \in graph' : e[2] # practising'[a].item
             /\ \A o \in Learners : \A e \in practising'[o].replaced : e[2] # practising'[a].item
    <2>1. /\ \A e \in graph : e[2] # practising[a].item
          /\ \A o \in Learners : \A e \in practising[o].replaced : e[2] # practising[a].item
        BY <1>1, <1>4, Zenon DEF EdgesInv
    <2> QED
        BY <1>1, <1>2, <1>4, <2>1
<1>5. ASSUME NEW a \in Learners, NEW o \in Learners, a # o, Unlinked(practising'[a]), Unlinked(practising'[o])
      PROVE  practising'[a].item # practising'[o].item
    BY <1>1, <1>5 DEF EdgesInv
<1> QED
    BY <1>3, <1>4, <1>5 DEF EdgesInv, Unlinked, Adds, At

LEMMA GraphStays ==
    ASSUME GraphInv, NEW c \in Learners, NEW r, practising'[c] = r,
           \A o \in Learners \ {c} : Stays(practising[o], practising'[o]) /\ practising'[o].overtaken = practising[o].overtaken,
           graph' = graph, StoredWords' = StoredWords, practised'.overtaken = practised.overtaken,
           practised'.cut = practised.cut, Unlinked(practising[c]) => Unlinked(r) /\ r.todo = practising[c].todo,
           /\ ~practised.cut /\ ~practised.overtaken /\ ~r.overtaken /\ (At(r, "delete") \/ At(r, "connect"))
           => StoredWords \subseteq r.listed
    PROVE  GraphInv'
<1> SUFFICES ASSUME ~practised'.cut /\ ~practised'.overtaken
             PROVE  /\ \A e, f \in graph' : e[1] = f[1] => e = f
                    /\ \A w \in StoredWords' : (\E e \in graph' : e[1] = w) \/ \E o \in Learners : Awaits(o, w)'
                    /\ \A o \in Learners : LinksWell(o)'
    BY DEF GraphInv
<1>1. /\ \A e, f \in graph : e[1] = f[1] => e = f
      /\ \A w \in StoredWords : (\E e \in graph : e[1] = w) \/ \E o \in Learners : Awaits(o, w)
      /\ \A o \in Learners : LinksWell(o)
    BY DEF GraphInv
<1>2. \A o \in Learners : \A w : Awaits(o, w) => Awaits(o, w)'
    <2>1. \A o \in Learners : Unlinked(practising[o]) => Unlinked(practising'[o]) /\ practising'[o].todo = practising[o].todo
        BY DEF Stays, Unlinked, Adds, At
    <2> QED
        BY <2>1 DEF Awaits, Unlinked, Adds, At
<1>3. \A w \in StoredWords' : (\E e \in graph' : e[1] = w) \/ \E o \in Learners : Awaits(o, w)'
    BY <1>1, <1>2, Zenon
<1>4. ASSUME NEW a \in Learners PROVE LinksWell(a)'
    <2>1. CASE a = c
        <3>1. ~r.overtaken /\ (At(r, "delete") \/ At(r, "connect")) => StoredWords \subseteq r.listed
            OBVIOUS
        <3> QED
            BY <2>1, <3>1 DEF LinksWell, At
    <2>2. CASE a # c
        <3>1. PICK p : p = practising[a]
            OBVIOUS
        <3>2. PICK u : u = practising'[a]
            OBVIOUS
        <3>3. /\ u.plan = p.plan /\ u.listed = p.listed /\ u.replaced = p.replaced /\ u.overtaken = p.overtaken
            BY <2>2, <3>1, <3>2 DEF Stays
        <3>4. At(u, "delete") /\ ~u.overtaken => StoredWords' \subseteq u.listed
            BY <1>1, <3>1, <3>3 DEF LinksWell, At
        <3>5. At(u, "connect") /\ ~u.overtaken /\ graph' \subseteq u.replaced =>
                \A w \in StoredWords' \ u.listed : \E o \in Learners \ {a} : Awaits(o, w)'
            <4>1. At(p, "connect") /\ ~p.overtaken /\ graph \subseteq p.replaced =>
                    \A w \in StoredWords \ p.listed : \E o \in Learners \ {a} : Awaits(o, w)
                BY <1>1, <3>1 DEF LinksWell
            <4>2. At(u, "connect") <=> At(p, "connect")
                BY <3>3 DEF At
            <4> QED
                BY <1>2, <3>3, <4>1, <4>2
        <3> QED
            BY <3>2, <3>4, <3>5 DEF LinksWell, At
    <2> QED
        BY <2>1, <2>2
<1> QED
    BY <1>1, <1>3, <1>4

\* A step of a request that has nothing to connect, before and after.
LEMMA NothingToLink ==
    ASSUME EdgesInv, GraphInv, NEW c \in Learners, NEW r, practising'[c] = r,
           \A o \in Learners \ {c} : Stays(practising[o], practising'[o]) /\ practising'[o].overtaken = practising[o].overtaken,
           graph' = graph, StoredWords' = StoredWords, practised'.overtaken = practised.overtaken,
           practised'.cut = practised.cut, ~Unlinked(practising[c]), ~Unlinked(r),
           ~At(r, "delete"), ~At(r, "connect"), r.replaced \subseteq practising[c].replaced \cup graph
    PROVE  EdgesInv' /\ GraphInv'
<1>1. EdgesInv'
    BY EdgesStay
<1>2. GraphInv'
    BY GraphStays
<1> QED
    BY <1>1, <1>2

LEMMA NothingToLinkOfOne ==
    ASSUME PracticeTypes, EdgesInv, GraphInv, NEW c \in Learners, NEW r, Becomes(c, r),
           graph' = graph, vocabulary' = vocabulary, practised'.overtaken = practised.overtaken,
           practised'.cut = practised.cut, ~Unlinked(practising[c]), ~Unlinked(r),
           ~At(r, "delete"), ~At(r, "connect"), r.replaced \subseteq practising[c].replaced \cup graph
    PROVE  EdgesInv' /\ GraphInv'
<1>1. practising'[c] = r /\ \A o \in Learners \ {c} : practising'[o] = practising[o]
    BY OnlyOneMoves
<1>2. StoredWords' = StoredWords
    BY DEF StoredWords, Rows
<1>3. \A o \in Learners \ {c} : Stays(practising[o], practising'[o]) /\ practising'[o].overtaken = practising[o].overtaken
    BY <1>1 DEF Stays
<1> QED
    BY <1>1, <1>2, <1>3, NothingToLink

LEMMA LinkInsert ==
    ASSUME PracticeTypes, EdgesInv, GraphInv, NEW c \in Learners, InsertWord(c)
    PROVE  EdgesInv' /\ GraphInv'
<1>1. PICK r \in Request(Len(vocabulary) + 1) : WordInserted(c, r)
    BY InsertWordDoes
<1>2. PICK n \in Nat \ {0} : n = Len(vocabulary) /\ Rows = 1 .. n
    BY PracticeFacts
<1>3. PICK q : q = practising[c] /\ q \in Request(n) /\ Planned(q)
    BY <1>2, PracticeFacts
<1>4. PICK w \in Words : w = Head(q.todo) /\ w = q.todo[1]
    BY <1>1, <1>3 DEF WordInserted
<1>5. /\ practising'[c] = r /\ r.kind = q.kind /\ r.plan = RecordPlan /\ r.todo = q.todo /\ r.item = n + 1
      /\ r.replaced = q.replaced /\ Adds(q) /\ At(q, "insert") /\ q.plan = TextPlan /\ graph' = graph
      /\ practised'.cut = practised.cut /\ practised'.overtaken = practised.overtaken
    BY <1>1, <1>2, <1>3 DEF WordInserted, EndsStay
<1>6. At(r, "record") /\ ~At(r, "delete") /\ ~At(r, "connect") /\ Adds(r)
    BY <1>5, PlansBegin DEF At, Adds
<1>7. Unlinked(r) /\ ~Unlinked(q)
    BY <1>5, <1>6 DEF Unlinked, At
<1>8. ASSUME NEW o \in Learners \ {c}
      PROVE  /\ practising[o] \in Request(n)
             /\ Stays(practising[o], practising'[o])
             /\ practising'[o].overtaken <=> (practising[o].overtaken \/ At(practising[o], "delete"))
    <2>1. practising'[o] = UnawareOfWord(w)[o]
        BY <1>1, <1>3, <1>4 DEF WordInserted
    <2> QED
        BY <1>2, <2>1, UnawareOfWordDoes, PracticeFacts
<1>9. \A o \in Learners \ {c} : /\ Unlinked(practising'[o]) <=> Unlinked(practising[o])
                                /\ practising'[o].item = practising[o].item /\ practising'[o].item \in 1 .. n
                                /\ practising'[o].replaced = practising[o].replaced
                                /\ practising'[o].listed = practising[o].listed
                                /\ practising'[o].plan = practising[o].plan
                                /\ practising'[o].todo = practising[o].todo
    BY <1>8 DEF Stays, Unlinked, Adds, At, Request
<1>10. \A e \in graph : e[2] # n + 1
    <2>1. graph \subseteq Words \X (1 .. n)
        BY <1>2 DEF PracticeTypes
    <2> QED
        BY <2>1
<1>11. \A o \in Learners : practising'[o].replaced = practising[o].replaced /\ \A e \in practising[o].replaced : e[2] # n + 1
    <2>1. \A o \in Learners : practising[o].replaced \subseteq Words \X (1 .. n)
        BY <1>2, PracticeFacts DEF Request
    <2> QED
        BY <1>3, <1>5, <1>9, <2>1
<1>12. EdgesInv'
    <2>1. ASSUME NEW a \in Learners, Unlinked(practising'[a])
          PROVE  /\ \A e \in graph' : e[2] # practising'[a].item
                 /\ \A o \in Learners : \A e \in practising'[o].replaced : e[2] # practising'[a].item
        <3>1. CASE a = c
            BY <1>5, <1>10, <1>11, <3>1
        <3>2. CASE a # c
            BY <1>5, <1>9, <1>11, <2>1, <3>2 DEF EdgesInv
        <3> QED
            BY <3>1, <3>2
    <2>2. ASSUME NEW a \in Learners, NEW o \in Learners, a # o, Unlinked(practising'[a]), Unlinked(practising'[o])
          PROVE  practising'[a].item # practising'[o].item
        <3>1. CASE a = c
            BY <1>5, <1>9, <2>2, <3>1
        <3>2. CASE o = c
            BY <1>5, <1>9, <2>2, <3>2
        <3>3. CASE a # c /\ o # c
            BY <1>9, <2>2, <3>3 DEF EdgesInv
        <3> QED
            BY <3>1, <3>2, <3>3
    <2>3. ASSUME NEW a \in Learners, At(practising'[a], "delete") \/ At(practising'[a], "connect")
          PROVE  practising'[a].listed # {}
        <3>1. a # c
            BY <1>5, <1>6, <2>3
        <3> QED
            BY <1>9, <2>3, <3>1 DEF EdgesInv, At
    <2> QED
        BY <2>1, <2>2, <2>3 DEF EdgesInv, Unlinked, Adds, At
<1>13. StoredWords' = StoredWords \cup {w}
    <2>1. PICK row : row = NewWordRow(w)
        OBVIOUS
    <2>2. vocabulary' = Append(vocabulary, row) /\ row.word = w /\ vocabulary \in Seq(CountedRow)
        BY <1>1, <1>3, <1>4, <2>1 DEF WordInserted, NewWordRow, PracticeTypes
    <2>3. Rows' = 1 .. (n + 1) /\ vocabulary'[n + 1] = row /\ \A i \in Rows : vocabulary'[i] = vocabulary[i]
        BY <1>2, <2>2 DEF Rows
    <2> QED
        BY <1>2, <2>2, <2>3 DEF StoredWords
<1>14. Awaits(c, w)' /\ \A o \in Learners : \A v : Awaits(o, v) => Awaits(o, v)'
    <2>1. Awaits(c, w)'
        BY <1>4, <1>5, <1>7 DEF Awaits, Unlinked, Adds, At
    <2>2. ASSUME NEW o \in Learners, NEW v, Awaits(o, v) PROVE Awaits(o, v)'
        <3>1. o # c
            BY <1>3, <1>7, <2>2 DEF Awaits
        <3>2. Unlinked(practising'[o]) /\ practising'[o].todo[1] = v
            BY <1>9, <2>2, <3>1 DEF Awaits
        <3> QED
            BY <3>2 DEF Awaits, Unlinked, Adds, At
    <2> QED
        BY <2>1, <2>2
<1>15. GraphInv'
    <2>1. SUFFICES ASSUME ~practised'.cut /\ ~practised'.overtaken
                   PROVE  /\ \A e, f \in graph' : e[1] = f[1] => e = f
                          /\ \A v \in StoredWords' : (\E e \in graph' : e[1] = v) \/ \E o \in Learners : Awaits(o, v)'
                          /\ \A o \in Learners : LinksWell(o)'
        BY DEF GraphInv
    <2>2. /\ \A e, f \in graph : e[1] = f[1] => e = f
          /\ \A v \in StoredWords : (\E e \in graph : e[1] = v) \/ \E o \in Learners : Awaits(o, v)
          /\ \A o \in Learners : LinksWell(o)
        BY <1>5, <2>1 DEF GraphInv
    <2>3. \A v \in StoredWords' : (\E e \in graph' : e[1] = v) \/ \E o \in Learners : Awaits(o, v)'
        <3>1. ASSUME NEW v \in StoredWords'
              PROVE  (\E e \in graph' : e[1] = v) \/ \E o \in Learners : Awaits(o, v)'
            <4>1. CASE v = w
                BY <1>14, <4>1
            <4>2. CASE v \in StoredWords
                BY <1>5, <1>14, <2>2, <4>2
            <4> QED
                BY <1>13, <3>1, <4>1, <4>2
        <3> QED
            BY <3>1
    <2>4. ASSUME NEW a \in Learners PROVE LinksWell(a)'
        <3>1. CASE a = c
            BY <1>5, <1>6, <3>1 DEF LinksWell, At
        <3>2. CASE a # c
            <4>1. PICK p : p = practising[a]
                OBVIOUS
            <4>2. PICK u : u = practising'[a]
                OBVIOUS
            <4>3. /\ u.plan = p.plan /\ u.listed = p.listed /\ u.replaced = p.replaced
                  /\ u.overtaken <=> (p.overtaken \/ At(p, "delete"))
                BY <1>8, <1>9, <3>2, <4>1, <4>2
            <4>4. ~(At(u, "delete") /\ ~u.overtaken)
                BY <4>3 DEF At
            <4>5. ASSUME At(u, "connect"), ~u.overtaken, graph' \subseteq u.replaced, NEW v \in StoredWords' \ u.listed
                  PROVE  \E o \in Learners \ {a} : Awaits(o, v)'
                <5>1. CASE v = w
                    BY <1>14, <3>2, <5>1
                <5>2. CASE v # w
                    <6>1. v \in StoredWords \ p.listed /\ At(p, "connect") /\ ~p.overtaken /\ graph \subseteq p.replaced
                        BY <1>5, <1>13, <4>3, <4>5, <5>2 DEF At
                    <6>2. PICK o \in Learners \ {a} : Awaits(o, v)
                        BY <2>2, <4>1, <6>1 DEF LinksWell
                    <6> QED
                        BY <1>14, <6>2
                <5> QED
                    BY <5>1, <5>2
            <4> QED
                BY <4>2, <4>4, <4>5 DEF LinksWell, At
        <3> QED
            BY <3>1, <3>2
    <2> QED
        BY <1>5, <2>2, <2>3, <2>4
<1> QED
    BY <1>12, <1>15

LEMMA LinkConnect ==
    ASSUME PracticeTypes, EdgesInv, GraphInv, NEW c \in Learners, ConnectWords(c)
    PROVE  EdgesInv' /\ GraphInv'
<1>1. PICK q : q = practising[c]
    OBVIOUS
<1>2. PICK r \in Request(Len(vocabulary)), w \in Request(Len(vocabulary)) :
              /\ Becomes(c, r) /\ At(q, "connect") /\ Adds(q) /\ TurnsTo(w, r, Tail(w.todo)) /\ w.replaced = {}
              /\ graph' = (graph \ q.replaced) \cup {<<v, q.item>> : v \in q.listed}
              /\ practised'.cut = practised.cut /\ vocabulary' = vocabulary
              /\ practised'.overtaken <=> (practised.overtaken \/ q.overtaken \/ ~(graph \subseteq q.replaced))
    <2>1. PICK r \in Request(Len(vocabulary)), w \in Request(Len(vocabulary)) :
              /\ Becomes(c, r) /\ At(practising[c], "connect") /\ Adds(practising[c])
              /\ TurnsTo(w, r, Tail(w.todo)) /\ w.replaced = {}
              /\ graph' = (graph \ practising[c].replaced) \cup {<<v, practising[c].item>> : v \in practising[c].listed}
              /\ EndsStay /\ vocabulary' = vocabulary
              /\ practised'.overtaken <=> (\/ practised.overtaken \/ practising[c].overtaken
                                           \/ ~(graph \subseteq practising[c].replaced))
        BY ConnectWordsDoes
    <2> QED
        BY <1>1, <2>1 DEF EndsStay
<1>3. practising'[c] = r /\ \A o \in Learners \ {c} : practising'[o] = practising[o]
    BY <1>2, OnlyOneMoves
<1>4. Unlinked(q)
    BY <1>2 DEF Unlinked
<1>5. ~Unlinked(r) /\ ~At(r, "delete") /\ ~At(r, "connect")
    BY <1>2, TurnsToBegin DEF Unlinked
<1>6. r.replaced = {}
    <2>1. r.replaced = w.replaced \/ r = NoPractice
        BY <1>2, Zenon DEF TurnsTo, Like
    <2> QED
        BY <1>2, <2>1 DEF NoPractice
<1>7. StoredWords' = StoredWords
    BY <1>2 DEF StoredWords, Rows
<1>8. \A e \in graph' : e \in graph \/ e[2] = q.item
    BY <1>2
<1>9. \A o \in Learners : o # c /\ Unlinked(practising[o]) => practising[o].item # q.item
    BY <1>1, <1>4 DEF EdgesInv
<1>10. EdgesInv'
    <2>1. ASSUME NEW a \in Learners, Unlinked(practising'[a])
          PROVE  /\ \A e \in graph' : e[2] # practising'[a].item
                 /\ \A o \in Learners : \A e \in practising'[o].replaced : e[2] # practising'[a].item
        <3>1. a # c /\ practising'[a] = practising[a]
            BY <1>3, <1>5, <2>1
        <3>2. /\ \A e \in graph : e[2] # practising[a].item
              /\ \A o \in Learners : \A e \in practising[o].replaced : e[2] # practising[a].item
              /\ practising[a].item # q.item
            BY <1>9, <2>1, <3>1 DEF EdgesInv
        <3> QED
            BY <1>3, <1>6, <1>8, <3>1, <3>2
    <2>2. ASSUME NEW a \in Learners, NEW o \in Learners, a # o, Unlinked(practising'[a]), Unlinked(practising'[o])
          PROVE  practising'[a].item # practising'[o].item
        <3>1. a # c /\ o # c
            BY <1>3, <1>5, <2>2
        <3> QED
            BY <1>3, <2>2, <3>1 DEF EdgesInv
    <2>3. ASSUME NEW a \in Learners, At(practising'[a], "delete") \/ At(practising'[a], "connect")
          PROVE  practising'[a].listed # {}
        <3>1. a # c
            BY <1>3, <1>5, <2>3
        <3> QED
            BY <1>3, <2>3, <3>1 DEF EdgesInv
    <2> QED
        BY <2>1, <2>2, <2>3 DEF EdgesInv, Unlinked, Adds, At
<1>11. GraphInv'
    <2>1. SUFFICES ASSUME ~practised'.cut /\ ~practised'.overtaken
                   PROVE  /\ \A e, f \in graph' : e[1] = f[1] => e = f
                          /\ \A v \in StoredWords' : (\E e \in graph' : e[1] = v) \/ \E o \in Learners : Awaits(o, v)'
                          /\ \A o \in Learners : LinksWell(o)'
        BY DEF GraphInv
    <2>2. ~practised.cut /\ ~practised.overtaken /\ ~q.overtaken /\ graph \subseteq q.replaced
        BY <1>2, <2>1
    <2>3. graph' = {<<v, q.item>> : v \in q.listed}
        BY <1>2, <2>2
    <2>4. \A e, f \in graph' : e[1] = f[1] => e = f
        BY <2>3
    <2>5. \A v \in StoredWords \ q.listed : \E o \in Learners \ {c} : Awaits(o, v)
        BY <1>1, <1>2, <2>2 DEF GraphInv, LinksWell
    <2>6. \A o \in Learners \ {c} : \A v : Awaits(o, v) => Awaits(o, v)'
        BY <1>3 DEF Awaits, Unlinked, Adds, At
    <2>7. ASSUME NEW v \in StoredWords'
          PROVE  (\E e \in graph' : e[1] = v) \/ \E o \in Learners : Awaits(o, v)'
        <3>1. CASE v \in q.listed
            <4>1. <<v, q.item>> \in graph' /\ <<v, q.item>>[1] = v
                BY <2>3, <3>1
            <4> QED
                BY <4>1
        <3>2. CASE v \notin q.listed
            BY <1>7, <2>5, <2>6, <3>2
        <3> QED
            BY <3>1, <3>2
    <2>8. ASSUME NEW a \in Learners PROVE LinksWell(a)'
        <3>1. CASE a = c
            BY <1>3, <1>5, <3>1 DEF LinksWell, At
        <3>2. CASE a # c
            <4>1. PICK p : p = practising[a]
                OBVIOUS
            <4>2. practising'[a] = p
                BY <1>3, <3>2, <4>1
            <4>3. At(p, "delete") /\ ~p.overtaken => StoredWords' \subseteq p.listed
                BY <1>7, <2>2, <4>1 DEF GraphInv, LinksWell
            <4>4. ~(graph' \subseteq p.replaced)
                <5>1. q.listed # {}
                    BY <1>1, <1>2 DEF EdgesInv
                <5>2. PICK v : v \in q.listed
                    BY <5>1
                <5>3. <<v, q.item>> \in graph'
                    BY <2>3, <5>2
                <5>4. <<v, q.item>> \notin p.replaced
                    <6>1. \A e \in p.replaced : e[2] # q.item
                        BY <1>1, <1>4, <4>1 DEF EdgesInv
                    <6>2. <<v, q.item>>[2] = q.item
                        OBVIOUS
                    <6> QED
                        BY <6>1, <6>2
                <5> QED
                    BY <5>3, <5>4
            <4> QED
                BY <4>2, <4>3, <4>4 DEF LinksWell, At
        <3> QED
            BY <3>1, <3>2
    <2> QED
        BY <2>4, <2>7, <2>8
<1> QED
    BY <1>10, <1>11

LEMMA LinkAlong ==
    ASSUME PracticeTypes, EdgesInv, GraphInv, NEW c \in Learners, NEW r \in Request(Len(vocabulary)), Becomes(c, r),
           graph' = graph, vocabulary' = vocabulary, practised'.overtaken = practised.overtaken,
           practised'.cut = practised.cut, Unlinked(practising[c]), Unlinked(r), r.item = practising[c].item,
           r.todo = practising[c].todo, r.replaced \subseteq practising[c].replaced \cup graph,
           At(r, "delete") \/ At(r, "connect") => r.listed # {},
           /\ ~practised.cut /\ ~practised.overtaken /\ ~r.overtaken /\ (At(r, "delete") \/ At(r, "connect"))
           => StoredWords \subseteq r.listed
    PROVE  EdgesInv' /\ GraphInv'
<1>1. practising'[c] = r /\ \A o \in Learners \ {c} : practising'[o] = practising[o]
    BY OnlyOneMoves
<1>2. StoredWords' = StoredWords
    BY DEF StoredWords, Rows
<1>3. \A o \in Learners \ {c} : Stays(practising[o], practising'[o]) /\ practising'[o].overtaken = practising[o].overtaken
    BY <1>1 DEF Stays
<1>4. EdgesInv'
    BY <1>1, <1>3, EdgesStay
<1>5. GraphInv'
    BY <1>1, <1>2, <1>3, GraphStays
<1> QED
    BY <1>4, <1>5

LEMMA LinkSteps ==
    ASSUME PracticeTypes, EdgesInv, GraphInv, NEW c \in Learners, RecordEvent(c) \/ ListWords(c) \/ DeleteEdges(c)
    PROVE  EdgesInv' /\ GraphInv'
<1>1. PICK q : q = practising[c]
    OBVIOUS
<1>2. CASE RecordEvent(c)
    <2>1. PICK r \in Request(Len(vocabulary)) :
            /\ Becomes(c, r) /\ At(q, "record") /\ vocabulary' = vocabulary /\ graph' = graph
            /\ practised'.overtaken = practised.overtaken /\ practised'.cut = practised.cut
            /\ \/ Adds(q) /\ GoesOnWith(q, r, ListPlan)
               \/ q.kind = "review" /\ q.plan \in ReviewPlans /\ Len(q.plan) > 1 /\ GoesOnWith(q, r, Tail(q.plan))
               \/ q.kind = "review" /\ r = NoPractice
        BY <1>1, <1>2, RecordEventDoes DEF EndsStay
    <2>2. CASE Adds(q) /\ GoesOnWith(q, r, ListPlan)
        <3>1. /\ r.kind = q.kind /\ r.todo = q.todo /\ r.item = q.item /\ r.replaced = q.replaced /\ r.plan = ListPlan
            BY <2>2 DEF GoesOnWith, Like
        <3>2. At(r, "list") /\ ~At(r, "delete") /\ ~At(r, "connect")
            BY <3>1, PlansBegin DEF At
        <3>3. Unlinked(q) /\ Unlinked(r)
            BY <2>1, <2>2, <3>1, <3>2 DEF Unlinked, Adds
        <3> QED
            BY <1>1, <2>1, <3>1, <3>2, <3>3, LinkAlong
    <2>3. CASE q.kind = "review" /\ (GoesOnWith(q, r, Tail(q.plan)) \/ r = NoPractice)
        <3>1. ~Unlinked(q) /\ ~Unlinked(r) /\ (r.replaced = q.replaced \/ r.replaced = {})
            BY <2>3 DEF Unlinked, Adds, GoesOnWith, Like, NoPractice
        <3>2. ~At(r, "delete") /\ ~At(r, "connect")
            <4>1. CASE r = NoPractice
                BY <4>1 DEF NoPractice, At
            <4>2. CASE q.plan \in ReviewPlans /\ Len(q.plan) > 1 /\ r.plan = Tail(q.plan)
                <5>1. Head(r.plan) = "read"
                    BY <2>1, <4>2, ReviewPlansGoOn, Zenon DEF At
                <5> QED
                    BY <5>1 DEF At
            <4> QED
                BY <2>1, <2>3, <4>1, <4>2 DEF GoesOnWith, Adds
        <3> QED
            BY <1>1, <2>1, <3>1, <3>2, NothingToLinkOfOne
    <2> QED
        BY <2>1, <2>2, <2>3
<1>3. CASE ListWords(c)
    <2>1. PICK r \in Request(Len(vocabulary)) :
            /\ Becomes(c, r) /\ At(q, "list") /\ Adds(q) /\ r.plan = DeletePlan /\ r.listed = StoredWords
            /\ r.kind = q.kind /\ r.todo = q.todo /\ r.item = q.item /\ r.replaced = q.replaced
            /\ UNCHANGED <<vocabulary, graph, practised>>
        BY <1>1, <1>3, ListWordsDoes
    <2>2. At(r, "delete")
        BY <2>1, PlansBegin DEF At
    <2>3. Unlinked(q) /\ Unlinked(r)
        BY <2>1, <2>2 DEF Unlinked, Adds
    <2>4. StoredWords # {}
        BY PracticeFacts
    <2> QED
        BY <1>1, <2>1, <2>3, <2>4, LinkAlong
<1>4. CASE DeleteEdges(c)
    <2>1. PICK r \in Request(Len(vocabulary)) :
            /\ Becomes(c, r) /\ At(q, "delete") /\ Adds(q) /\ r.plan = ConnectPlan /\ r.replaced = graph
            /\ r.kind = q.kind /\ r.todo = q.todo /\ r.item = q.item /\ r.listed = q.listed
            /\ r.overtaken = q.overtaken /\ UNCHANGED <<vocabulary, graph, practised>>
        BY <1>1, <1>4, DeleteEdgesDoes
    <2>2. At(r, "connect")
        BY <2>1, PlansBegin DEF At
    <2>3. Unlinked(q) /\ Unlinked(r)
        BY <2>1, <2>2 DEF Unlinked, Adds
    <2>4. r.listed # {}
        BY <1>1, <2>1 DEF EdgesInv
    <2>5. ~practised.cut /\ ~practised.overtaken /\ ~r.overtaken => StoredWords \subseteq r.listed
        BY <1>1, <2>1 DEF GraphInv, LinksWell
    <2> QED
        BY <1>1, <2>1, <2>3, <2>4, <2>5, LinkAlong
<1> QED
    BY <1>2, <1>3, <1>4

LEMMA LinkWrite ==
    ASSUME PracticeTypes, ScheduleInv, EdgesInv, GraphInv, NEW c \in Learners, WriteWord(c) \/ KeepWord(c)
    PROVE  EdgesInv' /\ GraphInv'
<1>1. PICK row \in CountedRow : /\ WriteRow(c, row) /\ row.word = practising[c].row.word
                                /\ (At(practising[c], "write") \/ At(practising[c], "keep"))
    BY WritingsAreCounted
<1>2. PICK r, w \in Request(Len(vocabulary)) : RowWritten(c, row, r, w)
    BY <1>1, WriteRowDoes
<1>3. PICK n \in Nat \ {0} : n = Len(vocabulary) /\ Rows = 1 .. n
    BY PracticeFacts
<1>4. PICK q : q = practising[c]
    OBVIOUS
<1>5. PICK i \in Rows : i = q.item
    BY <1>2, <1>4 DEF RowWritten
<1>6. row.word = vocabulary[i].word
    BY <1>1, <1>4, <1>5 DEF ScheduleInv, ReadRow, WritesRow
<1>7. StoredWords' = StoredWords
    <2>1. vocabulary' = [vocabulary EXCEPT ![i] = row] /\ vocabulary \in Seq(CountedRow)
        BY <1>2, <1>4, <1>5 DEF RowWritten, PracticeTypes
    <2>2. vocabulary'[i] = row /\ Rows' = Rows /\ \A j \in Rows \ {i} : vocabulary'[j] = vocabulary[j]
        BY <1>3, <2>1 DEF Rows
    <2>3. \A j \in Rows : vocabulary'[j].word = vocabulary[j].word
        BY <1>6, <2>2
    <2> QED
        BY <2>2, <2>3 DEF StoredWords
<1>8. /\ practising'[c] = r /\ graph' = graph /\ practised'.cut = practised.cut
      /\ practised'.overtaken = practised.overtaken /\ w.kind = q.kind /\ w.replaced = q.replaced
      /\ \/ q.kind = "review" /\ q.plan \in ReviewPlans /\ At(q, "write") /\ GoesOnWith(w, r, Tail(q.plan))
         \/ q.kind = "talk" /\ At(q, "keep") /\ TurnsTo(w, r, <<>>)
    BY <1>2, <1>4 DEF RowWritten, EndsStay
<1>9. \A o \in Learners \ {c} : Stays(practising[o], practising'[o]) /\ practising'[o].overtaken = practising[o].overtaken
    BY <1>2, UnawareOfRowDoes DEF RowWritten
<1>10. ~Unlinked(q)
    BY <1>8 DEF Unlinked, Adds, At
<1>11. ~Unlinked(r) /\ ~At(r, "delete") /\ ~At(r, "connect") /\ (r.replaced = q.replaced \/ r.replaced = {})
    <2>1. CASE q.plan \in ReviewPlans /\ At(q, "write") /\ GoesOnWith(w, r, Tail(q.plan)) /\ q.kind = "review"
        <3>1. r.plan = Tail(q.plan) /\ r.kind = "review" /\ r.replaced = q.replaced
            BY <1>8, <2>1 DEF GoesOnWith, Like
        <3>2. Tail(q.plan) \in ReviewPlans
            BY <2>1, ReviewPlansGoOn, Zenon DEF At
        <3>3. Head(r.plan) \in {"read", "write", "record"}
            BY <3>1, <3>2, ReviewPlansGoOn, Zenon
        <3> QED
            BY <3>1, <3>3 DEF Unlinked, Adds, At
    <2>2. CASE TurnsTo(w, r, <<>>)
        <3>1. ~Unlinked(r) /\ ~At(r, "delete") /\ ~At(r, "connect")
            BY <2>2, TurnsToBegin DEF Unlinked
        <3>2. r.replaced = w.replaced \/ r = NoPractice
            BY <2>2, Zenon DEF TurnsTo, Like
        <3> QED
            BY <1>8, <3>1, <3>2 DEF NoPractice
    <2> QED
        BY <1>8, <2>1, <2>2
<1> QED
    BY <1>4, <1>7, <1>8, <1>9, <1>10, <1>11, NothingToLink

LEMMA LinkInit == PracticeInit => EdgesInv /\ GraphInv
<1> SUFFICES ASSUME PracticeInit PROVE EdgesInv /\ GraphInv
    OBVIOUS
<1>1. \A c \in Learners : practising[c].plan = <<>>
    BY DEF PracticeInit, NoPractice
<1>2. \A c \in Learners : \A step : ~At(practising[c], step)
    BY <1>1 DEF At
<1>3. \A c \in Learners : ~Unlinked(practising[c])
    BY <1>2 DEF Unlinked
<1>4. EdgesInv
    BY <1>2, <1>3 DEF EdgesInv
<1>5. StoredWords = {KnownWord}
    <2>1. Rows = {1} /\ vocabulary[1].word = KnownWord
        BY DEF PracticeInit, Rows, NewWordRow
    <2> QED
        BY <2>1 DEF StoredWords
<1>6. GraphInv
    <2>1. \A e, f \in graph : e[1] = f[1] => e = f
        BY DEF PracticeInit
    <2>2. \A w \in StoredWords : \E e \in graph : e[1] = w
        BY <1>5 DEF PracticeInit
    <2>3. \A c \in Learners : LinksWell(c)
        BY <1>2 DEF LinksWell
    <2> QED
        BY <2>1, <2>2, <2>3 DEF GraphInv
<1> QED
    BY <1>4, <1>6

LEMMA LinkNext ==
    ASSUME PracticeTypes, ScheduleInv, EdgesInv, GraphInv, [PracticeNext]_practiceVars
    PROVE  EdgesInv' /\ GraphInv'
<1>1. CASE UNCHANGED practiceVars
    <2>1. EdgesInv'
        BY <1>1 DEF practiceVars, EdgesInv, Unlinked, Adds, At
    <2>2. GraphInv'
        BY <1>1 DEF practiceVars, GraphInv, LinksWell, Awaits, StoredWords, Rows, Unlinked, Adds, At
    <2> QED
        BY <2>1, <2>2
<1>2. ASSUME NEW c \in Learners,
             \/ ProcessText(c) \/ ProcessBatch(c) \/ Converse(c) \/ ReviewItem(c)
             \/ CheckWord(c) \/ ReadKnownWords(c) \/ InsertWord(c) \/ RecordEvent(c)
             \/ ListWords(c) \/ DeleteEdges(c) \/ ConnectWords(c)
             \/ ReadWord(c) \/ WriteWord(c) \/ KeepWord(c)
             \/ PractiseFails(c)
      PROVE  EdgesInv' /\ GraphInv'
    <2>0. PICK q : q = practising[c] /\ Planned(q)
        BY PracticeFacts
    <2>1. CASE ProcessText(c) \/ ProcessBatch(c) \/ Converse(c) \/ ReviewItem(c)
        <3>1. PICK r \in Request(Len(vocabulary)) :
              /\ Becomes(c, r) /\ q.plan = <<>> /\ UNCHANGED <<vocabulary, graph>> /\ EndsStay
              /\ practised'.overtaken = practised.overtaken /\ r.replaced = {}
              /\ r.plan = TextPlan \/ r.plan = <<"exists">> \/ r.plan = <<"known">> \/ r.plan = ReviewPlan
            BY <2>0, <2>1, AskingDoes
        <3>2. ~Unlinked(q)
            BY <3>1 DEF Unlinked, At
        <3>3. ~At(r, "record") /\ ~At(r, "list") /\ ~At(r, "delete") /\ ~At(r, "connect")
            BY <3>1, PlansBegin, OneStepPlans, Zenon DEF At
        <3>4. ~Unlinked(r)
            BY <3>3 DEF Unlinked
        <3> QED
            BY <2>0, <3>1, <3>2, <3>3, <3>4, NothingToLinkOfOne DEF EndsStay
    <2>2. CASE CheckWord(c)
        <3>1. PICK r \in Request(Len(vocabulary)) :
              /\ Becomes(c, r) /\ At(q, "exists")
              /\ TurnsTo(q, r, Tail(q.todo)) \/ (r.plan = TextPlan /\ r.replaced = q.replaced)
              /\ UNCHANGED <<vocabulary, graph, practised>>
            BY <2>0, <2>2, CheckWordDoes
        <3>2. ~Unlinked(q)
            BY <3>1 DEF Unlinked, At
        <3>3. ~At(r, "record") /\ ~At(r, "list") /\ ~At(r, "delete") /\ ~At(r, "connect")
            BY <3>1, TurnsToBegin, PlansBegin DEF At
        <3>4. ~Unlinked(r)
            BY <3>3 DEF Unlinked
        <3>5. r.replaced \subseteq q.replaced
            <4>1. r.replaced = q.replaced \/ r = NoPractice
                BY <3>1, Zenon DEF TurnsTo, Like
            <4> QED
                BY <4>1 DEF NoPractice
        <3> QED
            BY <2>0, <3>1, <3>2, <3>3, <3>4, <3>5, NothingToLinkOfOne
    <2>3. CASE ReadKnownWords(c)
        <3>1. PICK r \in Request(Len(vocabulary)) :
              /\ Becomes(c, r) /\ At(q, "known") /\ TurnsTo(q, r, NewWords(q.todo))
              /\ UNCHANGED <<vocabulary, graph, practised>>
            BY <2>0, <2>3, ReadKnownWordsDoes
        <3>2. ~Unlinked(q)
            BY <3>1 DEF Unlinked, At
        <3>3. ~At(r, "record") /\ ~At(r, "list") /\ ~At(r, "delete") /\ ~At(r, "connect")
            BY <3>1, TurnsToBegin
        <3>4. ~Unlinked(r)
            BY <3>3 DEF Unlinked
        <3>5. r.replaced \subseteq q.replaced
            <4>1. r.replaced = q.replaced \/ r = NoPractice
                BY <3>1, Zenon DEF TurnsTo, Like
            <4> QED
                BY <4>1 DEF NoPractice
        <3> QED
            BY <2>0, <3>1, <3>2, <3>3, <3>4, <3>5, NothingToLinkOfOne
    <2>4. CASE InsertWord(c)
        BY <2>4, LinkInsert
    <2>5. CASE RecordEvent(c) \/ ListWords(c) \/ DeleteEdges(c)
        BY <2>5, LinkSteps
    <2>8. CASE ConnectWords(c)
        BY <2>8, LinkConnect
    <2>9. CASE ReadWord(c)
        <3>1. PICK r \in Request(Len(vocabulary)) :
              /\ Becomes(c, r) /\ At(q, "read") /\ r.replaced = q.replaced
              /\ \/ r.plan = KeptPlan
                 \/ r.kind = "review" /\ r.plan \in ReviewPlans
              /\ UNCHANGED <<vocabulary, graph, practised>>
            BY <2>0, <2>9, ReadWordDoes
        <3>2. ~Unlinked(q)
            BY <3>1 DEF Unlinked, At
        <3>3. ~Unlinked(r) /\ ~At(r, "delete") /\ ~At(r, "connect")
            <4>1. CASE r.plan = KeptPlan
                BY <4>1, PlansBegin, Zenon DEF Unlinked, At
            <4>2. CASE r.kind = "review" /\ r.plan \in ReviewPlans
                <5>1. Head(r.plan) \in {"read", "write", "record"}
                    BY <4>2, ReviewPlansGoOn, Zenon
                <5> QED
                    BY <4>2, <5>1 DEF Unlinked, Adds, At
            <4> QED
                BY <3>1, <4>1, <4>2
        <3> QED
            BY <2>0, <3>1, <3>2, <3>3, NothingToLinkOfOne
    <2>10. CASE WriteWord(c) \/ KeepWord(c)
        BY <2>10, LinkWrite
    <2>11. CASE PractiseFails(c)
        <3>1. PICK r \in Request(Len(vocabulary)), w \in Request(Len(vocabulary)) :
                /\ Becomes(c, r) /\ graph' = graph /\ practised'.cut
                /\ \/ r = NoPractice
                   \/ TurnsTo(w, r, Tail(w.todo)) /\ w.replaced = {}
            BY <2>11, PractiseFailsDoes
        <3>2. ~At(r, "record") /\ ~At(r, "list") /\ ~At(r, "delete") /\ ~At(r, "connect")
            BY <3>1, TurnsToBegin DEF At, NoPractice
        <3>3. r.replaced = {}
            <4>1. r.replaced = w.replaced \/ r = NoPractice
                BY <3>1, Zenon DEF TurnsTo, Like
            <4> QED
                BY <3>1, <4>1 DEF NoPractice
        <3>4. practising'[c] = r /\ \A o \in Learners \ {c} : practising'[o] = practising[o]
            BY <3>1, OnlyOneMoves
        <3>5. \A o \in Learners \ {c} : Stays(practising[o], practising'[o])
            BY <3>4 DEF Stays
        <3>6. ~Unlinked(r)
            BY <3>2 DEF Unlinked
        <3>7. EdgesInv'
            BY <3>1, <3>2, <3>3, <3>4, <3>5, <3>6, EdgesStay
        <3> QED
            BY <3>1, <3>7 DEF GraphInv
    <2> QED
        BY <1>2, <2>1, <2>2, <2>3, <2>4, <2>5, <2>8, <2>9, <2>10, <2>11
<1>3. CASE PracticeNext
    BY <1>2, <1>3 DEF PracticeNext
<1> QED
    BY <1>1, <1>3

LEMMA LinksHold == PracticeSpec => [](EdgesInv /\ GraphInv)
<1>1. PracticeTypes /\ ScheduleInv /\ EdgesInv /\ GraphInv /\ [PracticeNext]_practiceVars => (EdgesInv /\ GraphInv)'
    BY LinkNext
<1> QED
    BY <1>1, LinkInit, PracticeTypesHold, ScheduleHolds, PTL DEF PracticeSpec

-----------------------------------------------------------------------------
(* Together *)

LEMMA PracticeSums ==
    ASSUME PracticeTypes, ScheduleInv, WordsInv, PracticeEventsInv, GraphInv
    PROVE  PracticeAddsUp
<1>1. ASSUME Quiet, ~practised.cut
      PROVE  /\ learningEvents.reviewed = 2 * practised.answered
             /\ learningEvents.learned = Len(vocabulary)
             /\ practised.overtaken
                \/ \A w \in {vocabulary[i].word : i \in Rows} : Cardinality({e \in graph : e[1] = w}) = 1
    <2>1. \A c \in Learners : \A step : ~At(practising[c], step)
        BY <1>1 DEF Quiet, At
    <2>2. HalfAnswered = {} /\ Recording = {}
        <3>1. ASSUME NEW c \in Learners PROVE ~Half(practising[c]) /\ ~UnrecordedRow(practising[c])
            <4>1. practising[c].plan = <<>> /\ Planned(practising[c])
                BY <1>1, PracticeFacts DEF Quiet
            <4>2. practising[c].kind = "none"
                BY <4>1, PlansAreKnown
            <4> QED
                BY <2>1, <4>2 DEF Half, UnrecordedRow
        <3> QED
            BY <3>1 DEF HalfAnswered, Recording
    <2>3. Cardinality(HalfAnswered) = 0 /\ Cardinality(Recording) = 0
        BY <2>2, FS_EmptySet
    <2>4. learningEvents.reviewed = 2 * practised.answered /\ learningEvents.learned = Len(vocabulary)
        <3>1. PICK l \in Nat, v \in Nat, a \in Nat, n \in Nat :
                l = learningEvents.learned /\ v = learningEvents.reviewed /\ a = practised.answered /\ n = Len(vocabulary)
            BY DEF PracticeTypes
        <3>2. v = 2 * a + 0 /\ n = l + 0
            BY <1>1, <2>3, <3>1 DEF PracticeEventsInv
        <3>3. v = 2 * a /\ l = n
            BY <3>2
        <3> QED
            BY <3>1, <3>3
    <2>5. ASSUME ~practised.overtaken, NEW w \in StoredWords PROVE Cardinality({e \in graph : e[1] = w}) = 1
        <3>1. \A o \in Learners : ~Awaits(o, w)
            BY <2>1 DEF Awaits, Unlinked
        <3>2. PICK e \in graph : e[1] = w
            BY <1>1, <2>5, <3>1 DEF GraphInv
        <3>3. \A f \in graph : f[1] = w => f = e
            BY <1>1, <2>5, <3>2 DEF GraphInv
        <3>4. {f \in graph : f[1] = w} = {e}
            BY <3>2, <3>3
        <3> QED
            BY <3>4, FS_Singleton
    <2> QED
        BY <2>4, <2>5 DEF StoredWords
<1>2. \A i \in Rows : /\ vocabulary[i].reviews <= practised.scheduled[i]
                      /\ i \notin practised.crossed => vocabulary[i].reviews = practised.scheduled[i]
    BY DEF ScheduleInv, ScheduleAddsUp
<1>3. \A i, j \in Rows :
        i # j /\ vocabulary[i].word = vocabulary[j].word => vocabulary[i].word \in practised.texted \cup practised.twice
    BY DEF WordsInv, TwiceIsKnown
<1> QED
    BY <1>1, <1>2, <1>3 DEF PracticeAddsUp

\* Whatever the requests do at once, no schedule counts a review that was not made, a word is
\* stored twice only where nobody looked or the look was stale, and once the requests are done
\* every answer has its two events, every row its event and every word its edge.
THEOREM PracticeSumsUp == PracticeSpec => []PracticeAddsUp
<1>1. PracticeTypes /\ ScheduleInv /\ WordsInv /\ PracticeEventsInv /\ GraphInv => PracticeAddsUp
    BY PracticeSums
<1> QED
    BY <1>1, PracticeTypesHold, ScheduleHolds, WordsHold, EventsHold, LinksHold, PTL

-----------------------------------------------------------------------------
(***************************************************************************)
(* What is learned of the user from recommendations (Personalization), for *)
(* any number of requests.                                                 *)
(***************************************************************************)
-----------------------------------------------------------------------------
(* The inductive invariant *)

\* q works on signals that no update has used, or that two updates use side by side.
UsesFresh(q) ==
    /\ q.listed \subseteq 1 .. Len(signals)
    /\ q.pc = "listed" => \A i \in q.listed : counted[i] >= 1 => i \in contested
    /\ q.pc = "profiled" => \A i \in 1 .. Len(signals) : i > q.read.upTo /\ counted[i] >= 1 => i \in contested

\* q will not undo the choice.
KeepsChoice(q) ==
    choice = "hard" /\ ~q.chose /\ q.pc \in {"profiled", "listed"} => q.read.difficulty = "hard"

TellersInv == \A t \in Tellers : UsesFresh(teller[t]) /\ KeepsChoice(teller[t])

\* The profile is younger than all signals that were used.
UsedAreOld == \A i \in 1 .. Len(signals) : counted[i] >= 1 => i <= userProfile.upTo

PersonalizationInv == PersonalizationTypeOK /\ TellersInv /\ UsedAreOld /\ TaughtOnce

LEMMA PersonalizationFacts ==
    ASSUME NEW t \in Tellers, PersonalizationInv
    PROVE  /\ teller[t] \in Teller /\ UsesFresh(teller[t]) /\ KeepsChoice(teller[t])
           /\ userProfile \in UserProfile /\ Len(signals) \in Nat /\ signals \in Seq(Signals)
           /\ counted \in Seq(Nat) /\ Len(counted) = Len(signals)
BY DEF PersonalizationInv, PersonalizationTypeOK, TellersInv

-----------------------------------------------------------------------------
(* What an update makes of the profile *)

LEMMA BetweenIsInRange ==
    ASSUME NEW low \in Int, NEW x \in Int, NEW high \in Int, low <= high
    PROVE  Between(low, x, high) \in low .. high
BY DEF Between

LEMMA SpeedsAndRetentions ==
    /\ Speeds \subseteq Int /\ Retentions \subseteq Int /\ 1000 \in Speeds /\ 800 \in Retentions
    /\ \A x \in Int : /\ Between(Slowest, x, Fastest) \in Speeds
                      /\ Between(Weakest, x, Strongest) \in Retentions
                      /\ Between(0, x, Fastest) \in Int
<1>1. /\ Slowest \in Int /\ Fastest \in Int /\ Slowest <= 1000 /\ 1000 <= Fastest
      /\ Weakest \in Int /\ Strongest \in Int /\ Weakest <= 800 /\ 800 <= Strongest
    BY DEF Slowest, Fastest, Weakest, Strongest
<1>2. Slowest <= Fastest /\ Weakest <= Strongest
    BY <1>1
<1>3. \A x \in Int : Between(Slowest, x, Fastest) \in Speeds /\ Between(Weakest, x, Strongest) \in Retentions
    BY <1>1, <1>2, BetweenIsInRange DEF Speeds, Retentions
<1>4. Speeds \subseteq Int /\ Retentions \subseteq Int /\ 1000 \in Speeds /\ 800 \in Retentions
    BY <1>1 DEF Speeds, Retentions
<1>5. \A x \in Int : Between(0, x, Fastest) \in Int
    BY <1>1 DEF Between
<1> QED
    BY <1>3, <1>4, <1>5

LEMMA NoTellerIsTyped ==
    /\ NewUserProfile \in UserProfile /\ NewUserProfile.upTo = 0
    /\ NoTeller \in Teller /\ NoTeller.pc = "idle" /\ NoTeller.listed = {}
<1>1. NewUserProfile \in UserProfile /\ NewUserProfile.upTo = 0
    BY SpeedsAndRetentions DEF NewUserProfile, UserProfile, Difficulties, Contents
<1> QED
    BY <1>1 DEF NoTeller, Teller

LEMMA OfKindIsFinite ==
    ASSUME NEW new, NEW k, new \subseteq 1 .. Len(signals), Len(signals) \in Nat
    PROVE  IsFiniteSet(OfKind(new, k)) /\ Cardinality(OfKind(new, k)) \in Nat
           /\ (OfKind(new, k) # {} => Cardinality(OfKind(new, k)) # 0)
<1>1. OfKind(new, k) \subseteq 1 .. Len(signals)
    BY DEF OfKind
<1>2. IsFiniteSet(1 .. Len(signals))
    BY FS_Interval
<1>3. IsFiniteSet(OfKind(new, k))
    BY <1>1, <1>2, FS_Subset
<1> QED
    BY <1>3, FS_CardinalityType, FS_EmptySet

LEMMA PointsIsNat ==
    ASSUME NEW reviews, IsFiniteSet(reviews)
    PROVE  Points(reviews) \in Nat
<1>1. IsFiniteSet(1 .. 5)
    <2>1. PICK m \in Int, n \in Int : m = 1 /\ n = 5
        OBVIOUS
    <2>2. IsFiniteSet(m .. n)
        BY FS_Interval
    <2> QED
        BY <2>1, <2>2
<1>2. IsFiniteSet(reviews \X (1 .. 5))
    BY <1>1, FS_Product
<1>3. {p \in reviews \X (1 .. 5) : p[2] <= signals[p[1]].quality} \subseteq reviews \X (1 .. 5)
    OBVIOUS
<1>4. IsFiniteSet({p \in reviews \X (1 .. 5) : p[2] <= signals[p[1]].quality})
    BY <1>2, <1>3, FS_Subset
<1> QED
    BY <1>4, FS_CardinalityType DEF Points

LEMMA RetentionIsBounded ==
    \A p \in UserProfile : \A reviews : IsFiniteSet(reviews) => RetentionFrom(p, reviews) \in Retentions
<1> SUFFICES ASSUME NEW p \in UserProfile, NEW reviews, IsFiniteSet(reviews)
             PROVE  RetentionFrom(p, reviews) \in Retentions
    OBVIOUS
<1>1. CASE reviews = {}
    BY <1>1 DEF RetentionFrom, UserProfile
<1>2. CASE reviews # {}
    <2>1. Points(reviews) \in Nat
        BY PointsIsNat
    <2>2. Cardinality(reviews) \in Nat /\ Cardinality(reviews) # 0
        BY <1>2, FS_CardinalityType, FS_EmptySet
    <2>3. PICK n \in Nat, m \in Nat : n = Points(reviews) /\ m = Cardinality(reviews) /\ m # 0
        BY <2>1, <2>2
    <2>4. PICK x \in Int : x = (1000 * n) \div (5 * m)
        BY <2>3
    <2>5. Between(Weakest, x, Strongest) \in Retentions
        BY SpeedsAndRetentions, ZenonT(60)
    <2>6. RetentionFrom(p, reviews) = Between(Weakest, x, Strongest)
        BY <1>2, <2>3, <2>4 DEF RetentionFrom
    <2> QED
        BY <2>5, <2>6
<1> QED
    BY <1>1, <1>2

LEMMA SpeedIsBounded ==
    \A p \in UserProfile : \A learned, turns :
        Cardinality(learned) \in Nat /\ Cardinality(turns) \in Nat => SpeedFrom(p, learned, turns) \in Speeds
<1> SUFFICES ASSUME NEW p \in UserProfile, NEW learned, NEW turns,
                    Cardinality(learned) \in Nat, Cardinality(turns) \in Nat
             PROVE  SpeedFrom(p, learned, turns) \in Speeds
    OBVIOUS
<1>1. CASE learned \cup turns = {}
    BY <1>1 DEF SpeedFrom, UserProfile
<1>2. CASE learned \cup turns # {}
    <2>1. PICK pace \in Int : pace = 800 + 100 * Cardinality(learned) + 50 * Cardinality(turns)
        OBVIOUS
    <2>2. PICK step \in Int : step = Between(0, pace, Fastest)
        BY SpeedsAndRetentions
    <2>3. PICK speed \in Int : speed = p.speed
        <3>1. p.speed \in Speeds
            BY Zenon DEF UserProfile
        <3>2. p.speed \in Int
            BY <3>1, SpeedsAndRetentions, Zenon
        <3> QED
            BY <3>2, Zenon
    <2>4. PICK x \in Int : x = (9 * speed + step) \div 10
        OBVIOUS
    <2>5. Between(Slowest, x, Fastest) \in Speeds
        BY SpeedsAndRetentions, ZenonT(60)
    <2>6. SpeedFrom(p, learned, turns) = Between(Slowest, x, Fastest)
        BY <1>2, <2>1, <2>2, <2>3, <2>4 DEF SpeedFrom
    <2> QED
        BY <2>5, <2>6
<1> QED
    BY <1>1, <1>2

\* An update keeps the profile in its bounds, and hard lessons hard unless results are poor.
LEMMA TaughtProfile ==
    ASSUME NEW p \in UserProfile, NEW new, NEW top \in {"none", "grammar", "vocabulary"},
           new \subseteq 1 .. Len(signals), Len(signals) \in Nat
    PROVE  LET w == Taught(p, new, top)
           IN  /\ w \in UserProfile
               /\ p.difficulty = "hard" /\ ~Poor(w.retention, w.speed) => w.difficulty = "hard"
<1>1. PICK r : r = OfKind(new, "reviewed")
    OBVIOUS
<1>2. PICK l : l = OfKind(new, "learned")
    OBVIOUS
<1>3. PICK n : n = OfKind(new, "turn")
    OBVIOUS
<1>4. IsFiniteSet(r) /\ Cardinality(l) \in Nat /\ Cardinality(n) \in Nat
    BY <1>1, <1>2, <1>3, OfKindIsFinite
<1>5. PICK ret : ret = RetentionFrom(p, r)
    OBVIOUS
<1>6. PICK pace : pace = SpeedFrom(p, l, n)
    OBVIOUS
<1>7. PICK cont : cont = ContentFrom(p, top, r, l, n)
    OBVIOUS
<1>8. PICK diff : diff = DifficultyFrom(p, ret, pace)
    OBVIOUS
<1>9. ret \in Retentions /\ pace \in Speeds
    <2>1. RetentionFrom(p, r) \in Retentions
        BY <1>4, RetentionIsBounded
    <2>2. SpeedFrom(p, l, n) \in Speeds
        BY <1>4, SpeedIsBounded
    <2> QED
        BY <2>1, <2>2, <1>5, <1>6
<1>10. cont \in Contents /\ diff \in Difficulties
    BY <1>7, <1>8 DEF ContentFrom, DifficultyFrom, Contents, Difficulties, UserProfile
<1>11. PICK up \in Nat : up = p.upTo
    BY DEF UserProfile
<1>12. Taught(p, new, top) = [speed |-> pace, retention |-> ret, difficulty |-> diff, content |-> cont, upTo |-> up]
    BY <1>1, <1>2, <1>3, <1>5, <1>6, <1>7, <1>8, <1>11, Zenon DEF Taught
<1>13. p.difficulty = "hard" /\ ~Poor(ret, pace) => diff = "hard"
    BY <1>8 DEF DifficultyFrom
<1>14. Taught(p, new, top) \in UserProfile
    BY <1>9, <1>10, <1>12 DEF UserProfile
<1>15. Taught(p, new, top).retention = ret /\ Taught(p, new, top).speed = pace /\ Taught(p, new, top).difficulty = diff
    BY <1>12
<1> QED
    BY <1>13, <1>14, <1>15, Zenon

LEMMA RenewedProfile ==
    ASSUME NEW p \in UserProfile, Len(signals) \in Nat
    PROVE  /\ Renewed(p) \in UserProfile /\ Renewed(p).upTo = Len(signals)
           /\ Renewed(p).difficulty = p.difficulty /\ Renewed(p).retention = p.retention /\ Renewed(p).speed = p.speed
<1> PICK n \in Nat : n = Len(signals)
    OBVIOUS
<1>1. p.speed \in Speeds /\ p.retention \in Retentions /\ p.difficulty \in Difficulties /\ p.content \in Contents
    BY DEF UserProfile
<1>2. PICK w : w = [speed |-> p.speed, retention |-> p.retention, difficulty |-> p.difficulty,
                   content |-> p.content, upTo |-> n]
    OBVIOUS
<1>3. w \in UserProfile
    BY <1>1, <1>2 DEF UserProfile
<1>4. w = Renewed(p)
    BY <1>2 DEF Renewed, UserProfile
<1> QED
    BY <1>2, <1>3, <1>4

-----------------------------------------------------------------------------
(* The steps *)

\* Nobody's request has used the signals that are new.
LEMMA AppendedKeepsInv ==
    ASSUME NEW s \in Signals, PersonalizationInv, Appended(s),
           UNCHANGED <<userProfile, choices, choice, contested>>,
           teller' \in [Tellers -> Teller],
           \A t \in Tellers : teller'[t] = teller[t] \/ (teller'[t].pc \in {"idle", "recorded"} /\ teller'[t].listed = teller[t].listed),
           tellings' \in 0 .. MaxTellings, sessionReviews' \in 0 .. MaxSessionReviews
    PROVE  PersonalizationInv'
<1>1. signals \in Seq(Signals) /\ counted \in Seq(Nat) /\ Len(counted) = Len(signals) /\ Len(signals) \in Nat
      /\ userProfile \in UserProfile
    BY DEF PersonalizationInv, PersonalizationTypeOK
<1>2. signals' \in Seq(Signals) /\ Len(signals') = Len(signals) + 1
    BY <1>1 DEF Appended
<1>3. counted' \in Seq(Nat) /\ Len(counted') = Len(counted) + 1
      /\ (\A i \in 1 .. Len(signals) : counted'[i] = counted[i]) /\ counted'[Len(signals) + 1] = 0
    BY <1>1 DEF Appended
<1>4. \A i \in 1 .. Len(signals') : i \in 1 .. Len(signals) \/ counted'[i] = 0
    BY <1>1, <1>2, <1>3
<1>5. \A i \in 1 .. Len(signals) : i \in 1 .. Len(signals')
    BY <1>1, <1>2
<1>6. PersonalizationTypeOK'
    BY <1>1, <1>2, <1>3, <1>5 DEF PersonalizationInv, PersonalizationTypeOK
<1>7. TellersInv'
    <2> SUFFICES ASSUME NEW t \in Tellers PROVE UsesFresh(teller[t])' /\ KeepsChoice(teller[t])'
        BY Zenon DEF TellersInv
    <2>1. UsesFresh(teller[t]) /\ KeepsChoice(teller[t])
        BY DEF PersonalizationInv, TellersInv
    <2>2. teller'[t].listed \subseteq 1 .. Len(signals')
        BY <2>1, <1>5 DEF UsesFresh
    <2>3. CASE teller'[t] = teller[t]
        <3>1. teller[t].pc = "listed" => \A i \in teller[t].listed : counted'[i] >= 1 => i \in contested
            BY <2>1, <1>3 DEF UsesFresh
        <3>2. teller[t].pc = "profiled" =>
                \A i \in 1 .. Len(signals') : i > teller[t].read.upTo /\ counted'[i] >= 1 => i \in contested
            <4> SUFFICES ASSUME teller[t].pc = "profiled", NEW i \in 1 .. Len(signals'),
                                i > teller[t].read.upTo, counted'[i] >= 1
                         PROVE  i \in contested
                OBVIOUS
            <4>1. i \in 1 .. Len(signals)
                BY <1>4
            <4> QED
                BY <4>1, <2>1, <1>3 DEF UsesFresh
        <3> QED
            BY <2>1, <2>2, <2>3, <3>1, <3>2 DEF UsesFresh, KeepsChoice
    <2>4. CASE teller'[t].pc \in {"idle", "recorded"}
        BY <2>2, <2>4 DEF UsesFresh, KeepsChoice
    <2> QED
        BY <2>3, <2>4
<1>8. UsedAreOld'
    BY <1>3, <1>4, SMTT(30) DEF PersonalizationInv, UsedAreOld
<1>9. TaughtOnce'
    <2>1. \A i \in 1 .. Len(signals') : counted'[i] <= 1 \/ i \in contested
        BY <1>3, <1>4 DEF PersonalizationInv, TaughtOnce
    <2> QED
        BY <2>1 DEF PersonalizationInv, TaughtOnce
<1> QED
    BY <1>6, <1>7, <1>8, <1>9 DEF PersonalizationInv

LEMMA RecordSignalKeepsInv ==
    ASSUME NEW t \in Tellers, PersonalizationInv, RecordSignal(t)
    PROVE  PersonalizationInv'
<1>1. PICK s \in Signals : Appended(s)
    BY DEF RecordSignal
<1>2. PICK q \in Teller : q = teller[t]
    BY PersonalizationFacts
<1>3. PICK r : r = [q EXCEPT !.pc = "recorded"]
    OBVIOUS
<1>4. r \in Teller /\ r.pc = "recorded" /\ r.listed = q.listed
    BY <1>3 DEF Teller
<1>5. teller' = [teller EXCEPT ![t] = r] /\ teller \in [Tellers -> Teller]
    BY <1>2, <1>3 DEF RecordSignal, PersonalizationInv, PersonalizationTypeOK
<1>6. teller' \in [Tellers -> Teller]
      /\ \A u \in Tellers : teller'[u] = teller[u] \/ (teller'[u].pc \in {"idle", "recorded"} /\ teller'[u].listed = teller[u].listed)
    BY <1>2, <1>4, <1>5
<1>7. tellings' \in 0 .. MaxTellings /\ sessionReviews' \in 0 .. MaxSessionReviews
    BY PersonalizationAssumption DEF RecordSignal, PersonalizationInv, PersonalizationTypeOK
<1>8. UNCHANGED <<userProfile, choices, choice, contested>>
    BY DEF RecordSignal
<1> QED
    BY <1>1, <1>6, <1>7, <1>8, AppendedKeepsInv

LEMMA RecordFromSessionKeepsInv ==
    ASSUME PersonalizationInv, RecordFromSession
    PROVE  PersonalizationInv'
<1>1. PICK q \in Qualities : Appended([kind |-> "reviewed", quality |-> q])
    BY DEF RecordFromSession
<1>2. PICK s : s = [kind |-> "reviewed", quality |-> q]
    OBVIOUS
<1>3. s \in Signals /\ Appended(s)
    BY <1>1, <1>2 DEF Signals, Signal
<1>4. teller' = teller /\ tellings' = tellings /\ UNCHANGED <<userProfile, choices, choice, contested>>
    BY DEF RecordFromSession
<1>5. teller' \in [Tellers -> Teller] /\ tellings' \in 0 .. MaxTellings /\ sessionReviews' \in 0 .. MaxSessionReviews
    BY <1>4, PersonalizationAssumption DEF RecordFromSession, PersonalizationInv, PersonalizationTypeOK
<1> QED
    BY <1>3, <1>4, <1>5, AppendedKeepsInv

\* The request of t becomes r, which uses what is fresh and keeps the choice; the row only
\* gets younger.
LEMMA TellerMovesOn ==
    ASSUME NEW t \in Tellers, NEW r \in Teller, PersonalizationInv,
           UNCHANGED <<signals, tellings, sessionReviews, choices, choice, counted, contested>>,
           teller' = [teller EXCEPT ![t] = r], UsesFresh(r), KeepsChoice(r),
           userProfile' = userProfile \/ userProfile' = Renewed(userProfile)
    PROVE  PersonalizationInv'
<1>1. Len(signals) \in Nat /\ userProfile \in UserProfile
    BY PersonalizationFacts
<1>2. userProfile' \in UserProfile /\ userProfile'.difficulty = userProfile.difficulty
      /\ (userProfile'.upTo = userProfile.upTo \/ userProfile'.upTo = Len(signals))
    BY <1>1, RenewedProfile
<1>3. teller' \in [Tellers -> Teller]
    BY DEF PersonalizationInv, PersonalizationTypeOK
<1>4. PersonalizationTypeOK'
    BY <1>2, <1>3 DEF PersonalizationInv, PersonalizationTypeOK
<1>5. TellersInv'
    <2> SUFFICES ASSUME NEW u \in Tellers PROVE UsesFresh(teller[u])' /\ KeepsChoice(teller[u])'
        BY Zenon DEF TellersInv
    <2>1. UsesFresh(teller[u]) /\ KeepsChoice(teller[u])
        BY DEF PersonalizationInv, TellersInv
    <2>2. teller'[u] = r \/ teller'[u] = teller[u]
        BY DEF PersonalizationInv, PersonalizationTypeOK
    <2> QED
        BY <2>1, <2>2 DEF UsesFresh, KeepsChoice
<1>6. UsedAreOld' /\ TaughtOnce'
    BY <1>1, <1>2 DEF PersonalizationInv, UsedAreOld, TaughtOnce
<1> QED
    BY <1>4, <1>5, <1>6 DEF PersonalizationInv

LEMMA RenewActivityKeepsInv ==
    ASSUME NEW t \in Tellers, PersonalizationInv, RenewActivity(t)
    PROVE  PersonalizationInv'
<1>1. PICK q \in Teller : q = teller[t]
    BY PersonalizationFacts
<1>2. PICK r : r = [q EXCEPT !.pc = "active"]
    OBVIOUS
<1>3. r \in Teller /\ r.pc = "active" /\ r.listed = q.listed
    BY <1>2 DEF Teller
<1>4. teller' = [teller EXCEPT ![t] = r] /\ userProfile' = Renewed(userProfile)
      /\ UNCHANGED <<signals, tellings, sessionReviews, choices, choice, counted, contested>>
    BY <1>1, <1>2 DEF RenewActivity, PersonalizationInv, PersonalizationTypeOK
<1>5. UsesFresh(r) /\ KeepsChoice(r)
    BY <1>1, <1>3, PersonalizationFacts DEF UsesFresh, KeepsChoice
<1> QED
    BY <1>3, <1>4, <1>5, TellerMovesOn

LEMMA ReadUserProfileKeepsInv ==
    ASSUME NEW t \in Tellers, PersonalizationInv, ReadUserProfile(t)
    PROVE  PersonalizationInv'
<1>1. PICK q \in Teller : q = NoTeller
    BY NoTellerIsTyped
<1>2. PICK r : r = [q EXCEPT !.pc = "profiled", !.read = userProfile]
    OBVIOUS
<1>3. r \in Teller /\ r.pc = "profiled" /\ r.read = userProfile /\ r.listed = {}
    BY <1>1, <1>2, NoTellerIsTyped, PersonalizationFacts DEF Teller
<1>4. teller' = [teller EXCEPT ![t] = r] /\ userProfile' = userProfile
      /\ UNCHANGED <<signals, tellings, sessionReviews, choices, choice, counted, contested>>
    BY <1>1, <1>2 DEF ReadUserProfile
<1>5. UsesFresh(r)
    <2>1. \A i \in 1 .. Len(signals) : counted[i] >= 1 => i <= userProfile.upTo
        BY DEF PersonalizationInv, UsedAreOld
    <2>2. userProfile.upTo \in Nat
        BY PersonalizationFacts DEF UserProfile
    <2> QED
        BY <1>3, <2>1, <2>2 DEF UsesFresh
<1>6. KeepsChoice(r)
    BY <1>3 DEF KeepsChoice, PersonalizationInv, TaughtOnce
<1> QED
    BY <1>3, <1>4, <1>5, <1>6, TellerMovesOn

LEMMA ListSignalsKeepsInv ==
    ASSUME NEW t \in Tellers, PersonalizationInv, ListSignals(t)
    PROVE  PersonalizationInv'
<1>1. PICK q \in Teller : q = teller[t]
    BY PersonalizationFacts
<1>2. PICK new : new = {i \in 1 .. Len(signals) : i > q.read.upTo}
    OBVIOUS
<1>3. PICK r : r = [q EXCEPT !.pc = "listed", !.listed = new]
    OBVIOUS
<1>4. new \in SUBSET Nat /\ new \subseteq 1 .. Len(signals)
    BY <1>2, PersonalizationFacts
<1>5. r \in Teller /\ r.pc = "listed" /\ r.listed = new /\ r.read = q.read /\ r.chose = q.chose
    BY <1>3, <1>4 DEF Teller
<1>6. q.pc = "profiled" /\ teller' = [teller EXCEPT ![t].pc = "listed", ![t].listed = new] /\ userProfile' = userProfile
      /\ UNCHANGED <<signals, tellings, sessionReviews, choices, choice, counted, contested>>
    BY <1>1, <1>2 DEF ListSignals
<1>7. teller' = [teller EXCEPT ![t] = r]
    BY <1>1, <1>3, <1>6 DEF PersonalizationInv, PersonalizationTypeOK
<1>8. UsesFresh(q) /\ KeepsChoice(q)
    BY <1>1, PersonalizationFacts
<1>9. UsesFresh(r) /\ KeepsChoice(r)
    BY <1>2, <1>4, <1>5, <1>6, <1>8 DEF UsesFresh, KeepsChoice
<1> QED
    BY <1>5, <1>6, <1>7, <1>9, TellerMovesOn

LEMMA TellerFailsKeepsInv ==
    ASSUME NEW t \in Tellers, PersonalizationInv, TellerFails(t)
    PROVE  PersonalizationInv'
<1>1. PICK r \in Teller : r = NoTeller /\ r.pc = "idle" /\ r.listed = {}
    BY NoTellerIsTyped
<1>2. UsesFresh(r) /\ KeepsChoice(r)
    BY <1>1 DEF UsesFresh, KeepsChoice
<1>3. teller' = [teller EXCEPT ![t] = r] /\ userProfile' = userProfile
      /\ UNCHANGED <<signals, tellings, sessionReviews, choices, choice, counted, contested>>
    BY <1>1 DEF TellerFails
<1> QED
    BY <1>2, <1>3, TellerMovesOn

LEMMA PersistPreferencesKeepsInv ==
    ASSUME PersonalizationInv, PersistPreferences
    PROVE  PersonalizationInv'
<1>1. PICK d \in Difficulties :
        userProfile' = Renewed([userProfile EXCEPT !.difficulty = d, !.content = "intended"]) /\ choice' = d
    BY DEF PersistPreferences
<1>2. choices' \in 0 .. MaxChoices /\ teller' = [t \in Tellers |-> [teller[t] EXCEPT !.chose = @ \/ teller[t].pc \in {"profiled", "listed"}]]
      /\ UNCHANGED <<signals, tellings, sessionReviews, counted, contested>>
    BY PersonalizationAssumption DEF PersistPreferences, PersonalizationInv, PersonalizationTypeOK
<1>3. userProfile \in UserProfile /\ Len(signals) \in Nat /\ teller \in [Tellers -> Teller]
    BY DEF PersonalizationInv, PersonalizationTypeOK
<1>4. PICK w : w = [userProfile EXCEPT !.difficulty = d, !.content = "intended"]
    OBVIOUS
<1>5. w \in UserProfile /\ w.difficulty = d
    <2>1. userProfile.speed \in Speeds /\ userProfile.retention \in Retentions /\ userProfile.upTo \in Nat
        BY <1>3 DEF UserProfile
    <2>2. w.speed = userProfile.speed /\ w.retention = userProfile.retention /\ w.upTo = userProfile.upTo
          /\ w.difficulty = d /\ w.content = "intended"
        BY <1>3, <1>4 DEF UserProfile
    <2>3. w = [speed |-> w.speed, retention |-> w.retention, difficulty |-> w.difficulty, content |-> w.content,
               upTo |-> w.upTo]
        BY <1>3, <1>4 DEF UserProfile
    <2>4. "intended" \in Contents
        BY DEF Contents
    <2> QED
        BY <2>1, <2>2, <2>3, <2>4 DEF UserProfile
<1>6. userProfile' = Renewed(w)
    BY <1>1, <1>4
<1>7. userProfile' \in UserProfile /\ userProfile'.upTo = Len(signals) /\ userProfile'.difficulty = d
    BY <1>3, <1>5, <1>6, RenewedProfile
<1>8. ASSUME NEW t \in Tellers
      PROVE  /\ teller'[t] \in Teller
             /\ teller'[t].pc = teller[t].pc /\ teller'[t].read = teller[t].read /\ teller'[t].listed = teller[t].listed
             /\ teller[t].pc \in {"profiled", "listed"} => teller'[t].chose
    <2>1. PICK q \in Teller : q = teller[t]
        BY <1>3
    <2>2. PICK b \in BOOLEAN : b = (q.chose \/ q.pc \in {"profiled", "listed"})
        OBVIOUS
    <2>3. teller'[t] = [q EXCEPT !.chose = b]
        BY <1>2, <2>1, <2>2
    <2> QED
        BY <2>1, <2>2, <2>3 DEF Teller
<1>9. teller' \in [Tellers -> Teller]
    BY <1>2, <1>8
<1>10. PersonalizationTypeOK'
    BY <1>1, <1>2, <1>7, <1>9 DEF PersonalizationInv, PersonalizationTypeOK
<1>11. TellersInv'
    <2> SUFFICES ASSUME NEW t \in Tellers PROVE UsesFresh(teller[t])' /\ KeepsChoice(teller[t])'
        BY Zenon DEF TellersInv
    <2>1. UsesFresh(teller[t])
        BY DEF PersonalizationInv, TellersInv
    <2> QED
        BY <2>1, <1>2, <1>8 DEF UsesFresh, KeepsChoice
<1>12. UsedAreOld' /\ TaughtOnce'
    BY <1>1, <1>2, <1>3, <1>7 DEF PersonalizationInv, UsedAreOld, TaughtOnce
<1> QED
    BY <1>10, <1>11, <1>12 DEF PersonalizationInv

LEMMA WriteUserProfileKeepsInv ==
    ASSUME NEW t \in Tellers, PersonalizationInv, WriteUserProfile(t)
    PROVE  PersonalizationInv'
<1>1. PICK q \in Teller : q = teller[t]
    BY PersonalizationFacts
<1>2. UsesFresh(q) /\ KeepsChoice(q) /\ userProfile \in UserProfile /\ Len(signals) \in Nat
      /\ counted \in Seq(Nat) /\ Len(counted) = Len(signals) /\ teller \in [Tellers -> Teller]
      /\ DOMAIN counted = 1 .. Len(signals)
    BY <1>1, PersonalizationFacts DEF PersonalizationInv, PersonalizationTypeOK
<1>3. PICK top \in {"none", "grammar", "vocabulary"} : userProfile' = Renewed(Taught(q.read, q.listed, top))
    BY <1>1 DEF WriteUserProfile
<1>4. /\ q.pc = "listed"
      /\ counted' = [i \in DOMAIN counted |-> counted[i] + (IF i \in q.listed THEN 1 ELSE 0)]
      /\ contested' = contested \cup
            (q.listed \cap UNION {teller[u].listed \cup {i \in 1 .. Len(signals) : teller[u].pc = "profiled" /\ i > teller[u].read.upTo} :
                                  u \in Tellers \ {t}})
      /\ choice' = IF q.chose \/ Poor(userProfile'.retention, userProfile'.speed) THEN "none" ELSE choice
      /\ teller' = [teller EXCEPT ![t] = NoTeller]
      /\ UNCHANGED <<signals, tellings, sessionReviews, choices>>
    BY <1>1 DEF WriteUserProfile
<1>5. PICK w : w = Taught(q.read, q.listed, top)
    OBVIOUS
<1>6. q.read \in UserProfile /\ q.listed \subseteq 1 .. Len(signals)
    BY <1>2 DEF UsesFresh, Teller
<1>7. w \in UserProfile /\ (q.read.difficulty = "hard" /\ ~Poor(w.retention, w.speed) => w.difficulty = "hard")
    BY <1>2, <1>5, <1>6, TaughtProfile
<1>8. /\ userProfile' \in UserProfile /\ userProfile'.upTo = Len(signals)
      /\ userProfile'.difficulty = w.difficulty /\ userProfile'.retention = w.retention /\ userProfile'.speed = w.speed
    BY <1>2, <1>3, <1>5, <1>7, RenewedProfile
<1>9. /\ counted' \in Seq(Nat) /\ Len(counted') = Len(signals)
      /\ \A i \in 1 .. Len(signals) : counted'[i] = counted[i] + (IF i \in q.listed THEN 1 ELSE 0)
      /\ \A i \in 1 .. Len(signals) : counted[i] \in Nat
    BY <1>2, <1>4
<1>10. contested \subseteq contested' /\ contested' \subseteq 1 .. Len(signals)
    BY <1>4, <1>6 DEF PersonalizationInv, PersonalizationTypeOK
<1>11. teller' \in [Tellers -> Teller] /\ teller'[t] = NoTeller
    BY <1>2, <1>4, NoTellerIsTyped
<1>12. choice' \in Difficulties \cup {"none"} /\ (choice' = "hard" => choice = "hard" /\ ~q.chose /\ ~Poor(w.retention, w.speed))
    BY <1>4, <1>8 DEF PersonalizationInv, PersonalizationTypeOK
<1>13. PersonalizationTypeOK'
    BY <1>4, <1>8, <1>9, <1>10, <1>11, <1>12 DEF PersonalizationInv, PersonalizationTypeOK
<1>14. TellersInv'
    <2> SUFFICES ASSUME NEW u \in Tellers PROVE UsesFresh(teller[u])' /\ KeepsChoice(teller[u])'
        BY Zenon DEF TellersInv
    <2>1. CASE u = t
        BY <2>1, <1>11, NoTellerIsTyped DEF UsesFresh, KeepsChoice
    <2>2. CASE u # t
        <3>1. teller'[u] = teller[u] /\ u \in Tellers \ {t}
            BY <2>2, <1>2, <1>4
        <3>2. UsesFresh(teller[u]) /\ KeepsChoice(teller[u])
            BY DEF PersonalizationInv, TellersInv
        <3>3. ASSUME NEW i \in q.listed,
                     i \in teller[u].listed \cup {j \in 1 .. Len(signals) : teller[u].pc = "profiled" /\ j > teller[u].read.upTo}
              PROVE  i \in contested'
            BY <3>1, <3>3, <1>4
        <3>4. \A i \in 1 .. Len(signals) : i \notin q.listed => counted'[i] = counted[i]
            BY <1>9, SMTT(30)
        <3>5. teller[u].pc = "listed" => \A i \in teller[u].listed : counted'[i] >= 1 => i \in contested'
            <4> SUFFICES ASSUME teller[u].pc = "listed", NEW i \in teller[u].listed, counted'[i] >= 1
                         PROVE  i \in contested'
                OBVIOUS
            <4>1. i \in 1 .. Len(signals)
                BY <3>2 DEF UsesFresh
            <4> QED
                BY <4>1, <3>2, <3>3, <3>4, <1>10 DEF UsesFresh
        <3>6. teller[u].pc = "profiled" =>
                \A i \in 1 .. Len(signals) : i > teller[u].read.upTo /\ counted'[i] >= 1 => i \in contested'
            <4> SUFFICES ASSUME teller[u].pc = "profiled", NEW i \in 1 .. Len(signals), i > teller[u].read.upTo, counted'[i] >= 1
                         PROVE  i \in contested'
                OBVIOUS
            <4> QED
                BY <3>2, <3>3, <3>4, <1>10 DEF UsesFresh
        <3>7. UsesFresh(teller[u])'
            BY <3>1, <3>2, <3>5, <3>6, <1>4 DEF UsesFresh
        <3> QED
            BY <3>1, <3>2, <3>7, <1>12 DEF KeepsChoice
    <2> QED
        BY <2>1, <2>2
<1>15. UsedAreOld'
    BY <1>4, <1>8 DEF UsedAreOld
<1>16. TaughtOnce'
    <2>1. ASSUME NEW i \in 1 .. Len(signals) PROVE counted'[i] <= 1 \/ i \in contested'
        <3>1. counted[i] <= 1 \/ i \in contested
            BY DEF PersonalizationInv, TaughtOnce
        <3>2. i \in q.listed /\ counted[i] >= 1 => i \in contested
            BY <1>2, <1>4 DEF UsesFresh
        <3> QED
            BY <3>1, <3>2, <1>9, <1>10
    <2>2. choice' = "hard" => userProfile'.difficulty = "hard"
        BY <1>2, <1>4, <1>7, <1>8, <1>12 DEF KeepsChoice
    <2> QED
        BY <2>1, <2>2, <1>4 DEF TaughtOnce
<1> QED
    BY <1>13, <1>14, <1>15, <1>16 DEF PersonalizationInv

-----------------------------------------------------------------------------
(* The theorems *)

LEMMA PersonalizationInitiallyInv == PersonalizationInit => PersonalizationInv
<1> SUFFICES ASSUME PersonalizationInit PROVE PersonalizationInv
    OBVIOUS
<1>1. Len(signals) = 0 /\ signals \in Seq(Signals) /\ counted \in Seq(Nat) /\ Len(counted) = 0
    BY DEF PersonalizationInit
<1>2. teller \in [Tellers -> Teller] /\ \A t \in Tellers : teller[t] = NoTeller
    BY NoTellerIsTyped DEF PersonalizationInit
<1>3. PersonalizationTypeOK
    BY <1>1, <1>2, NoTellerIsTyped, PersonalizationAssumption DEF PersonalizationInit, PersonalizationTypeOK
<1>4. TellersInv
    BY <1>2, NoTellerIsTyped DEF TellersInv, UsesFresh, KeepsChoice
<1>5. UsedAreOld /\ TaughtOnce
    BY <1>1 DEF UsedAreOld, TaughtOnce, PersonalizationInit
<1> QED
    BY <1>3, <1>4, <1>5 DEF PersonalizationInv

LEMMA PersonalizationStepKeepsInv == PersonalizationInv /\ [PersonalizationNext]_personalizationVars => PersonalizationInv'
<1> SUFFICES ASSUME PersonalizationInv, [PersonalizationNext]_personalizationVars PROVE PersonalizationInv'
    OBVIOUS
<1>1. CASE UNCHANGED personalizationVars
    BY <1>1 DEF personalizationVars, PersonalizationInv, PersonalizationTypeOK, TellersInv, UsesFresh, KeepsChoice,
        UsedAreOld, TaughtOnce
<1>2. CASE RecordFromSession \/ PersistPreferences
    BY <1>2, RecordFromSessionKeepsInv, PersistPreferencesKeepsInv
<1>3. ASSUME NEW t \in Tellers,
             RecordSignal(t) \/ RenewActivity(t) \/ ReadUserProfile(t) \/ ListSignals(t) \/ WriteUserProfile(t) \/ TellerFails(t)
      PROVE  PersonalizationInv'
    BY <1>3, RecordSignalKeepsInv, RenewActivityKeepsInv, ReadUserProfileKeepsInv, ListSignalsKeepsInv,
       WriteUserProfileKeepsInv, TellerFailsKeepsInv
<1> QED
    BY <1>1, <1>2, <1>3 DEF PersonalizationNext

LEMMA PersonalizationInvariant == PersonalizationSpec => []PersonalizationInv
BY PersonalizationInitiallyInv, PersonalizationStepKeepsInv, PTL DEF PersonalizationSpec

\* The profile stays in the bounds of PersonalizationService, whatever signals come.
THEOREM PersonalizationTypeCorrect == PersonalizationSpec => []PersonalizationTypeOK
<1>1. PersonalizationInv => PersonalizationTypeOK
    BY DEF PersonalizationInv
<1> QED
    BY <1>1, PersonalizationInvariant, PTL

\* No signal is used twice but by updates that overlap, and hard lessons that the user has
\* chosen stay hard until results are poor.
THEOREM SignalsTeachOnce == PersonalizationSpec => []TaughtOnce
<1>1. PersonalizationInv => TaughtOnce
    BY DEF PersonalizationInv
<1> QED
    BY <1>1, PersonalizationInvariant, PTL

-----------------------------------------------------------------------------
(***************************************************************************)
(* Lessons, their templates and the gate (Content).                        *)
(***************************************************************************)
-----------------------------------------------------------------------------
(* What is rendered and what the model may make of it *)

LEMMA AnswerIsGiven ==
    ASSUME NEW source, NEW target, NEW words
    PROVE  AnswerOf(source, target, words) \in {"target", "vocab", "filler"}
BY Zenon DEF AnswerOf

LEMMA ThreeChoices ==
    ASSUME NEW answer \in {"target", "vocab", "filler"}
    PROVE  Cardinality(ChoicesFor(answer) \ {""}) >= 3
<1>1. Cardinality({"other"}) = 1 /\ IsFiniteSet({"other"})
    BY FS_Singleton
<1>2. IsFiniteSet({"other"} \cup {"more"}) /\ Cardinality({"other"} \cup {"more"}) = 2
    BY <1>1, FS_AddElement
<1>3. answer \notin {"other"} \cup {"more"}
    OBVIOUS
<1>4. Cardinality(({"other"} \cup {"more"}) \cup {answer}) = 3
    BY <1>2, <1>3, FS_AddElement
<1>5. ChoicesFor(answer) \ {""} = ({"other"} \cup {"more"}) \cup {answer}
    BY DEF ChoicesFor
<1> DEFINE n == Cardinality(ChoicesFor(answer) \ {""})
<1>6. n = 3
    BY <1>4, <1>5, Zenon
<1> HIDE DEF n
<1>7. n >= 3
    BY <1>6
<1> QED
    BY <1>7, Zenon DEF n

LEMMA RenderedIsSound ==
    ASSUME NEW k \in TemplateKeys \cup {"default"}, NEW objective \in Objectives,
           NEW type \in {"fill_blank", "multiple_choice"}, NEW source, NEW target, NEW words
    PROVE  /\ Rendered(k, objective, type, source, target, words) \in Exercise
           /\ SoundExercise(Rendered(k, objective, type, source, target, words))
<1> DEFINE answer == AnswerOf(source, target, words)
           offered == IF type = "multiple_choice" THEN ChoicesFor(answer) ELSE {}
           e == [template |-> k, objective |-> objective, type |-> type, answer |-> answer, choices |-> offered]
<1>1. answer \in {"target", "vocab", "filler"}
    BY AnswerIsGiven
<1>2. Cardinality(ChoicesFor(answer) \ {""}) >= 3
    BY <1>1, ThreeChoices
<1>3. Rendered(k, objective, type, source, target, words) = e
    BY DEF Rendered
<1> HIDE DEF answer
<1>4. offered \subseteq Answers \cup {"other", "more"}
    BY <1>1 DEF ChoicesFor, Answers
<1>5. answer \in Answers
    BY <1>1 DEF Answers
<1>6. e \in Exercise
    BY <1>4, <1>5 DEF Exercise
<1>7. SoundExercise(e)
    BY <1>1, <1>2 DEF SoundExercise, ChoicesFor
<1> QED
    BY <1>3, <1>6, <1>7

\* A blueprint that can be answered.
SoundBlueprint(b) == b \in Seq(Exercise) /\ b # <<>> /\ \A i \in DOMAIN b : SoundExercise(b[i])

LEMMA OneExercise ==
    ASSUME NEW e \in Exercise, SoundExercise(e)
    PROVE  SoundBlueprint(<<e>>)
BY DEF SoundBlueprint

LEMMA TwoExercises ==
    ASSUME NEW e \in Exercise, NEW f \in Exercise, SoundExercise(e), SoundExercise(f)
    PROVE  SoundBlueprint(<<e, f>>)
BY DEF SoundBlueprint

LEMMA OneAfterAnother ==
    ASSUME NEW e \in Exercise, NEW f \in Exercise, SoundExercise(e), SoundExercise(f)
    PROVE  SoundBlueprint(<<e>> \o <<f>>)
<1> DEFINE s == <<e>> \o <<f>>
<1>1. <<e>> \in Seq(Exercise) /\ <<f>> \in Seq(Exercise) /\ Len(<<e>>) = 1 /\ Len(<<f>>) = 1
      /\ <<e>>[1] = e /\ <<f>>[1] = f
    OBVIOUS
<1>2. s \in Seq(Exercise) /\ Len(s) = 2 /\ s[1] = e /\ s[2] = f
    BY <1>1
<1> HIDE DEF s
<1>3. s # <<>> /\ DOMAIN s = 1 .. 2
    <2>1. DOMAIN s = 1 .. Len(s)
        BY <1>2
    <2>2. Len(s) # Len(<<>>)
        BY <1>2
    <2> QED
        BY <1>2, <2>1, <2>2, Zenon
<1>4. \A i \in 1 .. 2 : i = 1 \/ i = 2
    OBVIOUS
<1>5. ASSUME NEW i \in DOMAIN s PROVE SoundExercise(s[i])
    <2>1. s[i] = e \/ s[i] = f
        BY <1>2, <1>3, <1>4
    <2> QED
        BY <2>1, Zenon
<1>6. SoundBlueprint(s)
    BY <1>2, <1>3, <1>5, Zenon DEF SoundBlueprint
<1> QED
    BY <1>6 DEF s

LEMMA ObjectivesOfAnAction ==
    ASSUME NEW action \in Actions
    PROVE  /\ ObjectivesFor(action)[1] \in Objectives /\ ObjectivesFor(action)[2] \in Objectives
           /\ ToSet(ObjectivesFor(action)) = {ObjectivesFor(action)[1], ObjectivesFor(action)[2]}
BY DEF ObjectivesFor, Objectives, Actions, ToSet

LEMMA BlueprintIsSound ==
    ASSUME NEW action \in Actions, NEW easy, NEW target, NEW words,
           templates \in [TemplateKeys -> Template],
           NEW b \in Blueprints(action, easy, target, words)
    PROVE  SoundBlueprint(b)
<1> DEFINE candidates == Candidates(action, easy)
           o1 == ObjectivesFor(action)[1]
           o2 == ObjectivesFor(action)[2]
           RowsFor(o) == {k \in candidates : templates[k].objective = o}
           Pick(o) == OneRow(candidates, o, target, words)
<1>1. o1 \in Objectives /\ o2 \in Objectives
    BY ObjectivesOfAnAction
<1>2. \A k \in candidates : k \in TemplateKeys /\ templates[k].objective \in {o1, o2}
    BY ObjectivesOfAnAction DEF Candidates, ActiveRows
<1>3. \A k \in TemplateKeys : RenderedRow(k, target, words) \in Exercise /\ SoundExercise(RenderedRow(k, target, words))
    <2> SUFFICES ASSUME NEW k \in TemplateKeys
                 PROVE RenderedRow(k, target, words) \in Exercise /\ SoundExercise(RenderedRow(k, target, words))
        OBVIOUS
    <2>1. templates[k].objective \in Objectives /\ templates[k].type \in {"fill_blank", "multiple_choice"}
        BY DEF Template
    <2> QED
        BY <2>1, RenderedIsSound DEF RenderedRow
<1>4. CASE candidates = {}
    <2>1. b = <<FallbackExercise(o1, target, words), FallbackExercise(o2, target, words)>>
        BY <1>4 DEF Blueprints
    <2>2. \A o \in Objectives : FallbackExercise(o, target, words) \in Exercise
                                /\ SoundExercise(FallbackExercise(o, target, words))
        BY RenderedIsSound DEF FallbackExercise
    <2> QED
        BY <1>1, <2>1, <2>2, TwoExercises
<1>5. CASE candidates # {}
    <2>0. b \in {x \o y : x \in Pick(o1), y \in Pick(o2)}
        BY <1>5 DEF Blueprints
    <2>1. PICK x \in Pick(o1), y \in Pick(o2) : b = x \o y
        <3> HIDE DEF Pick, o1, o2
        <3> QED
            BY <2>0
    <2>2. \A k \in RowsFor(o1) \cup RowsFor(o2) : RenderedRow(k, target, words) \in Exercise
                                                /\ SoundExercise(RenderedRow(k, target, words))
        BY <1>2, <1>3
    <2>3. CASE RowsFor(o1) = {}
        <3>1. x = <<>> /\ RowsFor(o2) # {}
            BY <2>3, <1>5, <1>2 DEF OneRow
        <3>2. PICK k \in RowsFor(o2) : y = <<RenderedRow(k, target, words)>>
            BY <3>1 DEF OneRow
        <3>3. b = <<RenderedRow(k, target, words)>>
            BY <2>1, <3>1, <3>2, <2>2
        <3> QED
            BY <3>3, <2>2, OneExercise
    <2>4. CASE RowsFor(o1) # {} /\ RowsFor(o2) = {}
        <3>1. y = <<>>
            BY <2>4 DEF OneRow
        <3>2. PICK k \in RowsFor(o1) : x = <<RenderedRow(k, target, words)>>
            BY <2>4 DEF OneRow
        <3>3. b = <<RenderedRow(k, target, words)>>
            BY <2>1, <3>1, <3>2, <2>2
        <3> QED
            BY <3>3, <2>2, OneExercise
    <2>5. CASE RowsFor(o1) # {} /\ RowsFor(o2) # {}
        <3>1. PICK k \in RowsFor(o1) : x = <<RenderedRow(k, target, words)>>
            BY <2>5 DEF OneRow
        <3>2. PICK m \in RowsFor(o2) : y = <<RenderedRow(m, target, words)>>
            BY <2>5 DEF OneRow
        <3> QED
            BY <2>1, <2>2, <3>1, <3>2, OneAfterAnother
    <2> QED
        BY <2>3, <2>4, <2>5
<1> QED
    BY <1>4, <1>5

\* What a written exercise keeps of its template.
Keeps(e, b) == e.template = b.template /\ e.objective = b.objective /\ e.type = b.type

LEMMA MergedKeeps ==
    ASSUME NEW e \in Exercise, NEW r \in Reply
    PROVE  MergedExercise(e, r) \in Exercise /\ Keeps(MergedExercise(e, r), e)
<1> DEFINE answer == IF r.answer = "absent" THEN e.answer ELSE r.answer
           offered == IF r.choices = "absent" THEN e.choices ELSE {"own", "other", "more"}
           m == [e EXCEPT !.answer = answer, !.choices = offered]
<1>1. MergedExercise(e, r) = m
    BY DEF MergedExercise, Exercise
<1>2. answer \in Answers /\ offered \in SUBSET (Answers \cup {"other", "more"})
    BY DEF Exercise, Reply, Answers
<1> HIDE DEF answer, offered
<1>3. m \in Exercise /\ Keeps(m, e)
    BY <1>2 DEF Exercise, Keeps
<1> QED
    BY <1>1, <1>3

LEMMA LessonKeeps ==
    ASSUME NEW b \in Seq(Exercise), NEW l \in Lessons(b)
    PROVE  /\ l \in Seq(Exercise) /\ Len(l) = Len(b)
           /\ \A i \in DOMAIN l : Keeps(l[i], b[i])
<1> DEFINE written(i) == {MergedExercise(b[i], r) : r \in Reply}
<1>1. DOMAIN l = DOMAIN b /\ \A i \in DOMAIN b : l[i] \in written(i)
    BY Zenon DEF Lessons
<1>1a. l = [i \in DOMAIN b |-> l[i]]
    BY Zenon DEF Lessons
<1>2. \A i \in DOMAIN b : b[i] \in Exercise
    OBVIOUS
<1>3. \A i \in DOMAIN b : l[i] \in Exercise /\ Keeps(l[i], b[i])
    BY <1>1, <1>2, MergedKeeps
<1>4. DOMAIN b = 1 .. Len(b) /\ Len(b) \in Nat
    OBVIOUS
<1>5. l \in Seq(Exercise)
    BY <1>1, <1>1a, <1>3, <1>4
<1> QED
    BY <1>1, <1>3, <1>4, <1>5

-----------------------------------------------------------------------------
(* The requests *)

LessonDone(r) == r.pc = "checked" /\ r.artifact = "generated_lesson"

\* What a request holds at each of its steps.
AskerInv(r) ==
    /\ r \in Asker
    /\ r.pc # "idle" => r.ref \in 1 .. MaxAsked
    /\ r.pc = "built" => r.artifact = "structured_session"
    /\ r.pc \in {"rendered", "merged"} => r.artifact = "generated_lesson"
    /\ r.pc \in {"rendered", "merged"} \/ LessonDone(r) => SoundBlueprint(r.blueprint)
    /\ r.pc = "merged" \/ LessonDone(r) => r.lesson \in Lessons(r.blueprint)
    /\ LessonDone(r) /\ gated => r.passed = SoundLesson(r.lesson, r.rec.target)

ContentInv == ContentTypeOK /\ \A q \in Askers : AskerInv(asking[q])

LEMMA RecommendationsAreTyped ==
    ASSUME NEW l \in Learner
    PROVE  FromGlobalDecision(l) \cup FromPolicy(l) \subseteq Recommendation
<1>1. \A a \in Targets, b \in Targets : FirstNamed(a, b) \in Targets
    BY DEF FirstNamed, Targets
<1>2. l.weak \in Targets /\ l.cluster \in Targets
    BY DEF Learner
<1>3. \A a \in Actions, t \in Targets : Rec(a, t) \in Recommendation
    BY DEF Rec, Recommendation
<1>4. {"review_word", "learn_new_word", "practice_grammar", "conversation_drill"} \subseteq Actions
      /\ {"none", "general", "named"} \subseteq Targets
    BY DEF Actions, Targets
<1>5. FirstNamed(l.weak, l.cluster) \in Targets /\ FirstNamed(l.cluster, "none") \in Targets
    BY <1>1, <1>2, <1>4
<1> QED
    BY <1>3, <1>4, <1>5 DEF FromGlobalDecision, FromPolicy

LEMMA RoundIsTyped ==
    ASSUME NEW r \in Recommendation, NEW area \in WeakAreas(r), NEW l \in Learner
    PROVE  Round(WarmupPrompt(r, area, l), CorePrompt(r, area)) \in [Phases -> Payload]
<1> DEFINE w == WarmupPrompt(r, area, l)
           c == CorePrompt(r, area)
<1>1. area \in Targets /\ r.action \in Actions /\ r.target \in Targets
    BY DEF WeakAreas, Targets, Recommendation, Actions
<1>2. OrArea(r.target, area) \in Targets /\ "named" \in Targets /\ "none" \in Targets
    BY <1>1 DEF OrArea, Targets
<1>3. w.mode \in {"review", "drill"}
    BY DEF WarmupPrompt
<1>4. c.mode \in {"rewrite", "sentence", "drill"} /\ c.target \in Targets
    BY <1>1, <1>2 DEF CorePrompt, Actions
<1> HIDE DEF w, c
<1>5. NoPayload \in Payload /\ [NoPayload EXCEPT !.mode = w.mode, !.keywords = TRUE] \in Payload
      /\ [NoPayload EXCEPT !.mode = c.mode, !.target = c.target, !.keywords = TRUE] \in Payload
    BY <1>2, <1>3, <1>4 DEF NoPayload, Payload
<1> QED
    BY <1>5, Zenon DEF Round, w, c

LEMMA NoAskerInv == AskerInv(NoAsker)
<1>1. NoPayload \in Payload /\ Rec("learn_new_word", "none") \in Recommendation
    BY DEF NoPayload, Payload, Rec, Recommendation, Actions, Targets
<1>2. [p \in Phases |-> NoPayload] \in [Phases -> Payload]
    BY <1>1
<1>3. NoAsker \in Asker
    BY <1>1, <1>2 DEF NoAsker, Asker, Artifacts
<1> QED
    BY <1>3 DEF AskerInv, NoAsker, LessonDone

\* One request has moved on, and the rest of the state has kept its types.
LEMMA OneAskerMoves ==
    ASSUME ContentInv, ContentTypeOK', gated' = gated, NEW q \in Askers, NEW r, AskerInv(r), Turn(q, r)
    PROVE  ContentInv'
<1>1. \A p \in Askers : asking'[p] = r \/ asking'[p] = asking[p]
    BY DEF Turn, ContentInv, ContentTypeOK
<1>2. \A p \in Askers : AskerInv(asking'[p])
    BY <1>1, Zenon DEF ContentInv
<1>3. \A p \in Askers : AskerInv(asking[p])'
    <2> TAKE p \in Askers
    <2>1. AskerInv(asking'[p])
        BY <1>2
    <2> QED
        BY <2>1, Zenon DEF AskerInv, LessonDone
<1> QED
    BY <1>3, Zenon DEF ContentInv

LEMMA RecommendKeepsInv ==
    ASSUME ContentInv, NEW q \in Askers, Recommend(q)
    PROVE  ContentInv'
<1>1. PICK a \in Artifacts, e \in BOOLEAN, rec \in FromGlobalDecision(learner) \cup FromPolicy(learner) :
        Turn(q, [NoAsker EXCEPT !.pc = "recommended", !.ref = asked + 1, !.artifact = a, !.rec = rec, !.easy = e])
    BY DEF Recommend
<1>2. rec \in Recommendation
    BY RecommendationsAreTyped DEF ContentInv, ContentTypeOK
<1>3. asked + 1 \in 1 .. MaxAsked /\ asked + 1 \in Nat
    BY ContentAssumption DEF Recommend, ContentInv, ContentTypeOK
<1> DEFINE r == [NoAsker EXCEPT !.pc = "recommended", !.ref = asked + 1, !.artifact = a, !.rec = rec, !.easy = e]
<1>4. r \in Asker /\ r.pc = "recommended" /\ r.ref = asked + 1
    BY <1>2, <1>3, NoAskerInv DEF AskerInv, NoAsker, Asker
<1>5. Turn(q, r)
    BY <1>1
<1> HIDE DEF r
<1>6. AskerInv(r)
    BY <1>3, <1>4 DEF AskerInv, LessonDone
<1>7. ContentTypeOK'
    <2>1. asking' \in [Askers -> Asker]
        BY <1>4, <1>5 DEF Turn, ContentInv, ContentTypeOK
    <2>2. asked' \in 0 .. MaxAsked
        BY <1>3 DEF Recommend
    <2> QED
        BY <2>1, <2>2 DEF Recommend, ContentInv, ContentTypeOK
<1>8. gated' = gated
    BY DEF Recommend
<1> QED
    BY <1>5, <1>6, <1>7, <1>8, OneAskerMoves

\* A request goes on and nothing else changes.
LEMMA OnlyTheRequest ==
    ASSUME ContentInv, NEW q \in Askers, NEW r, AskerInv(r), Turn(q, r),
           UNCHANGED <<gated, learner, templates, contentChecks, refusals, roundRows, asked, contentChanges>>
    PROVE  ContentInv'
<1>1. asking' \in [Askers -> Asker]
    BY DEF Turn, ContentInv, ContentTypeOK, AskerInv
<1>2. ContentTypeOK'
    BY <1>1 DEF ContentInv, ContentTypeOK
<1> QED
    BY <1>2, OneAskerMoves

LEMMA BuildRoundKeepsInv ==
    ASSUME ContentInv, NEW q \in Askers, BuildRound(q)
    PROVE  ContentInv'
<1>1. PICK area \in WeakAreas(asking[q].rec) :
        Turn(q, [asking[q] EXCEPT !.pc = "built",
                     !.round = Round(WarmupPrompt(asking[q].rec, area, learner), CorePrompt(asking[q].rec, area))])
    BY DEF BuildRound
<1> DEFINE round == Round(WarmupPrompt(asking[q].rec, area, learner), CorePrompt(asking[q].rec, area))
           r == [asking[q] EXCEPT !.pc = "built", !.round = round]
<1>2. asking[q].rec \in Recommendation /\ learner \in Learner /\ AskerInv(asking[q]) /\ asking[q] \in Asker
    BY DEF ContentInv, ContentTypeOK, Asker
<1>3. round \in [Phases -> Payload]
    BY <1>2, RoundIsTyped
<1>4. Turn(q, r)
    BY <1>1
<1>5. asking[q].pc = "recommended" /\ asking[q].artifact = "structured_session"
      /\ UNCHANGED <<gated, learner, templates, contentChecks, refusals, roundRows, asked, contentChanges>>
    BY DEF BuildRound
<1> HIDE DEF round
<1>6. r \in Asker /\ r.pc = "built" /\ r.artifact = "structured_session" /\ r.ref = asking[q].ref
    BY <1>2, <1>3, <1>5 DEF Asker
<1> HIDE DEF r
<1>7. AskerInv(r)
    BY <1>2, <1>5, <1>6 DEF AskerInv, LessonDone
<1> QED
    BY <1>4, <1>5, <1>7, OnlyTheRequest

LEMMA PassUngatedKeepsInv ==
    ASSUME ContentInv, NEW q \in Askers, PassUngated(q)
    PROVE  ContentInv'
<1> DEFINE r == [asking[q] EXCEPT !.pc = "checked", !.passed = TRUE]
<1>1. Turn(q, r) /\ ~gated /\ asking[q].pc \in {"built", "merged"}
      /\ UNCHANGED <<gated, learner, templates, contentChecks, refusals, roundRows, asked, contentChanges>>
    BY DEF PassUngated
<1>2. AskerInv(asking[q]) /\ asking[q] \in Asker
    BY DEF ContentInv, ContentTypeOK
<1>3. r \in Asker /\ r.pc = "checked" /\ r.artifact = asking[q].artifact /\ r.ref = asking[q].ref
      /\ r.blueprint = asking[q].blueprint /\ r.lesson = asking[q].lesson
    BY <1>2 DEF Asker
<1> HIDE DEF r
<1>4. AskerInv(r)
    BY <1>1, <1>2, <1>3 DEF AskerInv, LessonDone
<1> QED
    BY <1>1, <1>4, OnlyTheRequest

\* The gate writes its row and its verdict.
LEMMA CheckKeepsInv ==
    ASSUME ContentInv, NEW q \in Askers, NEW passed \in BOOLEAN, Check(q, passed),
           asking[q].pc \in {"built", "merged"},
           asking[q].pc = "merged" => passed = SoundLesson(asking[q].lesson, asking[q].rec.target),
           UNCHANGED <<gated, learner, templates, refusals, roundRows, asked, contentChanges>>
    PROVE  ContentInv'
<1> DEFINE r == [asking[q] EXCEPT !.pc = "checked", !.passed = passed]
           row == [ref |-> asking[q].ref, artifact |-> asking[q].artifact, passed |-> passed]
<1>1. Turn(q, r) /\ contentChecks' = Append(contentChecks, row)
    BY DEF Check
<1>2. AskerInv(asking[q]) /\ asking[q] \in Asker
    BY DEF ContentInv, ContentTypeOK
<1>3. r \in Asker /\ r.pc = "checked" /\ r.artifact = asking[q].artifact /\ r.ref = asking[q].ref
      /\ r.blueprint = asking[q].blueprint /\ r.lesson = asking[q].lesson /\ r.passed = passed
      /\ r.rec = asking[q].rec
    BY <1>2 DEF Asker
<1>4. row \in ContentCheck
    BY <1>2 DEF Asker, ContentCheck
<1> HIDE DEF r, row
<1>5. AskerInv(r)
    BY <1>2, <1>3 DEF AskerInv, LessonDone
<1>6. ContentTypeOK'
    <2>1. asking' \in [Askers -> Asker]
        BY <1>1, <1>3 DEF Turn, ContentInv, ContentTypeOK
    <2>2. contentChecks' \in Seq(ContentCheck)
        BY <1>1, <1>4 DEF ContentInv, ContentTypeOK
    <2> QED
        BY <2>1, <2>2 DEF ContentInv, ContentTypeOK
<1> QED
    BY <1>1, <1>5, <1>6, OneAskerMoves

LEMMA ReadBlueprintKeepsInv ==
    ASSUME ContentInv, NEW q \in Askers, ReadBlueprint(q)
    PROVE  ContentInv'
<1>1. PICK b \in Blueprints(asking[q].rec.action, asking[q].easy, asking[q].rec.target, learner.words) :
        Turn(q, [asking[q] EXCEPT !.pc = "rendered", !.blueprint = b])
    BY Zenon DEF ReadBlueprint
<1> DEFINE r == [asking[q] EXCEPT !.pc = "rendered", !.blueprint = b]
<1>2. AskerInv(asking[q]) /\ asking[q] \in Asker /\ asking[q].rec.action \in Actions
      /\ templates \in [TemplateKeys -> Template]
    BY DEF ContentInv, ContentTypeOK, Asker, Recommendation
<1>3. SoundBlueprint(b)
    BY <1>2, BlueprintIsSound
<1>4. asking[q].pc = "recommended" /\ asking[q].artifact = "generated_lesson"
      /\ UNCHANGED <<gated, learner, templates, contentChecks, refusals, roundRows, asked, contentChanges>>
    BY DEF ReadBlueprint
<1>5. r \in Asker /\ r.pc = "rendered" /\ r.artifact = "generated_lesson" /\ r.ref = asking[q].ref
      /\ r.blueprint = b
    BY <1>2, <1>3, <1>4 DEF Asker, SoundBlueprint
<1>6. Turn(q, r)
    BY <1>1
<1> HIDE DEF r
<1>7. AskerInv(r)
    BY <1>2, <1>3, <1>4, <1>5 DEF AskerInv, LessonDone
<1> QED
    BY <1>4, <1>6, <1>7, OnlyTheRequest

LEMMA AskModelKeepsInv ==
    ASSUME ContentInv, NEW q \in Askers, AskModel(q)
    PROVE  ContentInv'
<1>1. PICK l \in Lessons(asking[q].blueprint) : Turn(q, [asking[q] EXCEPT !.pc = "merged", !.lesson = l])
    BY Zenon DEF AskModel
<1> DEFINE r == [asking[q] EXCEPT !.pc = "merged", !.lesson = l]
<1>2. AskerInv(asking[q]) /\ asking[q] \in Asker /\ asking[q].pc = "rendered"
      /\ UNCHANGED <<gated, learner, templates, contentChecks, refusals, roundRows, asked, contentChanges>>
    BY DEF ContentInv, ContentTypeOK, AskModel
<1>3. l \in Seq(Exercise)
    BY <1>2, LessonKeeps DEF Asker
<1>4. r \in Asker /\ r.pc = "merged" /\ r.artifact = asking[q].artifact /\ r.ref = asking[q].ref
      /\ r.blueprint = asking[q].blueprint /\ r.lesson = l
    BY <1>2, <1>3 DEF Asker
<1>5. Turn(q, r)
    BY <1>1
<1> HIDE DEF r
<1>6. AskerInv(r)
    BY <1>2, <1>4 DEF AskerInv, LessonDone
<1> QED
    BY <1>2, <1>5, <1>6, OnlyTheRequest

LEMMA RequestEndsKeepsInv ==
    ASSUME ContentInv, NEW q \in Askers,
           \/ RejectRound(q) \/ StoreRound(q) \/ AnswerLesson(q) \/ AskerDies(q)
    PROVE  ContentInv'
<1>1. Turn(q, NoAsker) /\ UNCHANGED <<gated, learner, templates, contentChecks, asked, contentChanges>>
    BY DEF RejectRound, StoreRound, AnswerLesson, AskerDies
<1>2. refusals' \subseteq 1 .. MaxAsked /\ roundRows' \subseteq 1 .. MaxAsked
    BY DEF RejectRound, StoreRound, AnswerLesson, AskerDies, ContentInv, ContentTypeOK, AskerInv
<1>3. asking' \in [Askers -> Asker]
    BY <1>1, NoAskerInv DEF Turn, ContentInv, ContentTypeOK, AskerInv
<1>4. ContentTypeOK'
    BY <1>1, <1>2, <1>3 DEF ContentInv, ContentTypeOK
<1> QED
    BY <1>1, <1>4, NoAskerInv, OneAskerMoves

\* Learners and templates change under the requests, which have read what they need.
LEMMA ContentChangeKeepsInv ==
    ASSUME ContentInv, ContentChange, learner' \in Learner, templates' \in [TemplateKeys -> Template]
    PROVE  ContentInv'
<1>1. contentChanges' \in 0 .. MaxContentChanges
    BY ContentAssumption DEF ContentChange, ContentInv, ContentTypeOK
<1>2. UNCHANGED <<gated, contentChecks, refusals, roundRows, asking, asked>>
    BY DEF ContentChange
<1>3. ContentTypeOK'
    BY <1>1, <1>2 DEF ContentInv, ContentTypeOK
<1>4. \A q \in Askers : AskerInv(asking[q])'
    BY <1>2, Zenon DEF ContentInv, AskerInv, LessonDone
<1> QED
    BY <1>3, <1>4, Zenon DEF ContentInv

LEMMA SavedTemplateIsTyped ==
    ASSUME ContentInv, SaveTemplate
    PROVE  templates' \in [TemplateKeys -> Template]
<1>1. PICK k \in TemplateKeys : \E row \in TemplateRows \cup {[templates[k] EXCEPT !.status = "archived"]} :
        templates' = [templates EXCEPT ![k] = row]
    BY DEF SaveTemplate
<1>2. PICK row \in TemplateRows \cup {[templates[k] EXCEPT !.status = "archived"]} :
        templates' = [templates EXCEPT ![k] = row]
    BY <1>1
<1>3. templates[k] \in Template /\ templates \in [TemplateKeys -> Template]
    BY DEF ContentInv, ContentTypeOK
<1>4. [templates[k] EXCEPT !.status = "archived"] \in Template
    BY <1>3 DEF Template
<1>5. row \in Template
    BY <1>4, ContentAssumption
<1> QED
    BY <1>2, <1>3, <1>5

LEMMA ContentStepKeepsInv == ContentInv /\ [ContentNext]_contentVars => ContentInv'
<1> SUFFICES ASSUME ContentInv, [ContentNext]_contentVars PROVE ContentInv'
    OBVIOUS
<1>1. CASE UNCHANGED contentVars
    BY <1>1 DEF contentVars, ContentInv, ContentTypeOK, AskerInv, LessonDone
<1>2. ASSUME NEW q \in Askers, Recommend(q) PROVE ContentInv'
    BY <1>2, RecommendKeepsInv
<1>3. ASSUME NEW q \in Askers, BuildRound(q) PROVE ContentInv'
    BY <1>3, BuildRoundKeepsInv
<1>4. ASSUME NEW q \in Askers, CheckRound(q) PROVE ContentInv'
    <2> DEFINE passed == RoundViolations(asking[q].round) = {}
    <2>1. passed \in BOOLEAN
        OBVIOUS
    <2>2. Check(q, passed) /\ asking[q].pc = "built"
          /\ UNCHANGED <<gated, learner, templates, refusals, roundRows, asked, contentChanges>>
        BY <1>4 DEF CheckRound
    <2> QED
        BY <2>1, <2>2, CheckKeepsInv
<1>5. ASSUME NEW q \in Askers, PassUngated(q) PROVE ContentInv'
    BY <1>5, PassUngatedKeepsInv
<1>6. ASSUME NEW q \in Askers, ReadBlueprint(q) PROVE ContentInv'
    BY <1>6, ReadBlueprintKeepsInv
<1>7. ASSUME NEW q \in Askers, AskModel(q) PROVE ContentInv'
    BY <1>7, AskModelKeepsInv
<1>8. ASSUME NEW q \in Askers, CheckLesson(q) PROVE ContentInv'
    <2> DEFINE passed == SoundLesson(asking[q].lesson, asking[q].rec.target)
    <2>1. passed \in BOOLEAN
        BY Zenon DEF SoundLesson, Generic
    <2>2. Check(q, passed) /\ asking[q].pc = "merged"
          /\ UNCHANGED <<gated, learner, templates, refusals, roundRows, asked, contentChanges>>
        BY <1>8, Zenon DEF CheckLesson
    <2> HIDE DEF passed
    <2>3. passed = SoundLesson(asking[q].lesson, asking[q].rec.target)
        BY DEF passed
    <2> QED
        BY <2>1, <2>2, <2>3, CheckKeepsInv
<1>9. ASSUME NEW q \in Askers, RejectRound(q) \/ StoreRound(q) \/ AnswerLesson(q) \/ AskerDies(q) PROVE ContentInv'
    BY <1>9, RequestEndsKeepsInv
<1>10. CASE LearnerChanges
    <2>1. learner' \in Learner /\ templates' = templates
        BY <1>10, ContentAssumption DEF LearnerChanges
    <2> QED
        BY <1>10, <2>1, ContentChangeKeepsInv DEF LearnerChanges, ContentInv, ContentTypeOK
<1>11. CASE SaveTemplate
    <2>1. learner' = learner /\ ContentChange
        BY <1>11 DEF SaveTemplate
    <2> QED
        BY <1>11, <2>1, SavedTemplateIsTyped, ContentChangeKeepsInv DEF ContentInv, ContentTypeOK
<1> QED
    BY <1>1, <1>2, <1>3, <1>4, <1>5, <1>6, <1>7, <1>8, <1>9, <1>10, <1>11, Zenon DEF ContentNext

LEMMA ContentInitiallyInv == ContentInit => ContentInv
<1> SUFFICES ASSUME ContentInit PROVE ContentInv
    OBVIOUS
<1>1. NewLearner \in Learner /\ NoTemplate \in Template
    BY DEF NewLearner, Learner, Targets, NoTemplate, Template, Objectives
<1>2. learner \in Learner
    BY <1>1, ContentAssumption DEF ContentInit
<1>3. templates \in [TemplateKeys -> Template]
    BY <1>1, ContentAssumption DEF ContentInit
<1>4. \A q \in Askers : AskerInv(asking[q])
    BY NoAskerInv DEF ContentInit
<1>5. asking \in [Askers -> Asker]
    BY NoAskerInv DEF ContentInit, AskerInv
<1>6. 0 \in 0 .. MaxAsked /\ 0 \in 0 .. MaxContentChanges
    BY ContentAssumption
<1>7. ContentTypeOK
    BY <1>2, <1>3, <1>5, <1>6 DEF ContentInit, ContentTypeOK
<1> QED
    BY <1>4, <1>7 DEF ContentInv

-----------------------------------------------------------------------------
\* Templates, checks, events, rounds and requests keep their types.
THEOREM ContentTypeCorrect == ContentSpec => []ContentTypeOK
<1>1. ContentInv => ContentTypeOK
    BY DEF ContentInv
<1> QED
    BY <1>1, ContentInitiallyInv, ContentStepKeepsInv, PTL DEF ContentSpec

LEMMA SoundLessonIsSound ==
    ASSUME ContentInv, NEW q \in Askers, LessonChecked(q)
    PROVE  /\ asking[q].passed = SoundLesson(asking[q].lesson, asking[q].rec.target)
           /\ SoundBlueprint(asking[q].blueprint)
           /\ asking[q].lesson \in Seq(Exercise) /\ Len(asking[q].lesson) = Len(asking[q].blueprint)
           /\ \A i \in DOMAIN asking[q].lesson : Keeps(asking[q].lesson[i], asking[q].blueprint[i])
<1>1. AskerInv(asking[q]) /\ LessonDone(asking[q]) /\ gated
    BY DEF ContentInv, LessonChecked, LessonDone
<1>2. SoundBlueprint(asking[q].blueprint) /\ asking[q].lesson \in Lessons(asking[q].blueprint)
      /\ asking[q].passed = SoundLesson(asking[q].lesson, asking[q].rec.target)
    BY <1>1, Zenon DEF AskerInv
<1> QED
    BY <1>2, LessonKeeps DEF SoundBlueprint

\* A lesson that passes the gate keeps to the templates it was rendered from, whatever the
\* model writes (merge_generated_exercises, _lint_generated_lesson).
THEOREM PassedLessonsKeepTheirTemplates == ContentSpec => []LessonsKeepTheirTemplates
<1>1. ContentInv => LessonsKeepTheirTemplates
    <2> SUFFICES ASSUME ContentInv, NEW q \in Askers, LessonChecked(q), asking[q].passed
                 PROVE  /\ ~Generic(asking[q].rec.target)
                        /\ Len(asking[q].lesson) = Len(asking[q].blueprint)
                        /\ \A i \in DOMAIN asking[q].lesson :
                            LET e == asking[q].lesson[i] b == asking[q].blueprint[i] IN
                            /\ e.template = b.template /\ e.objective = b.objective /\ e.type = b.type
                            /\ e.answer # ""
                            /\ e.type = "multiple_choice" => e.answer \in e.choices
        BY Zenon DEF LessonsKeepTheirTemplates
    <2>1. SoundLesson(asking[q].lesson, asking[q].rec.target)
        BY SoundLessonIsSound
    <2>2. \A i \in DOMAIN asking[q].lesson : SoundExercise(asking[q].lesson[i])
        BY <2>1, Zenon DEF SoundLesson, ToSet
    <2>3. ~Generic(asking[q].rec.target) /\ Len(asking[q].lesson) = Len(asking[q].blueprint)
        BY <2>1, SoundLessonIsSound DEF SoundLesson
    <2> QED
        BY <2>2, <2>3, SoundLessonIsSound, Zenon DEF Keeps, SoundExercise
<1> QED
    BY <1>1, ContentInitiallyInv, ContentStepKeepsInv, PTL DEF ContentSpec

\* A lesson that the gate refuses has a target without a name, or is not as it was rendered:
\* every template of the repository renders exercises that pass.
THEOREM LessonsAreRefusedForCause == ContentSpec => []RefusedForCause
<1>1. ContentInv => RefusedForCause
    <2> SUFFICES ASSUME ContentInv, NEW q \in Askers, LessonChecked(q), ~asking[q].passed,
                        ~Generic(asking[q].rec.target), asking[q].lesson = asking[q].blueprint
                 PROVE  FALSE
        BY Zenon DEF RefusedForCause
    <2>1. ~SoundLesson(asking[q].blueprint, asking[q].rec.target) /\ SoundBlueprint(asking[q].blueprint)
        BY SoundLessonIsSound
    <2>2. \A e \in ToSet(asking[q].blueprint) : SoundExercise(e)
        BY <2>1, Zenon DEF SoundBlueprint, ToSet
    <2> QED
        BY <2>1, <2>2, Zenon DEF SoundLesson, SoundBlueprint
<1> QED
    BY <1>1, ContentInitiallyInv, ContentStepKeepsInv, PTL DEF ContentSpec

-----------------------------------------------------------------------------
(***************************************************************************)
(* Streaks, milestones and badges (Awards).                                *)
(***************************************************************************)
\* An award that no refresh had to repeat was tracked once at most, and only one request is
\* about to track it, when nobody has.
TrackedOnce ==
    \A i \in Items \ repeatable :
        /\ awards[i] \in 0 .. 1
        /\ \A v \in Visitors : i \in visitor[v].unseen =>
              awards[i] = 0 /\ \A w \in Visitors : i \in visitor[w].unseen => w = v

\* The buffer and the log hold no award that was not tracked, and what a refresh has found
\* deserved and logged was tracked.
LoggedWereTracked ==
    \A i \in Items :
        /\ unwritten[i] > 0 \/ (\E n \in DOMAIN eventLog : eventLog[n] = i) \/ i \in owed => awards[i] > 0
        /\ \A v \in Visitors :
              visitor[v].pc = "read" /\ i \in visitor[v].earned \ visitor[v].unseen => awards[i] > 0

AwardsInv == AwardsTypeOK /\ TrackedOnce /\ LoggedWereTracked

-----------------------------------------------------------------------------
LEMMA AwardsStart == AwardsInit => AwardsInv
<1>. SUFFICES ASSUME AwardsInit PROVE AwardsInv
  OBVIOUS
<1>1. NoVisitor \in Visitor /\ NoVisitor.unseen = {} /\ NoVisitor.pc = "idle"
  BY DEF NoVisitor, Visitor
<1>2. AwardsTypeOK
  BY <1>1, AwardsAssumption DEF AwardsInit, AwardsTypeOK
<1>3. TrackedOnce
  BY <1>1 DEF AwardsInit, TrackedOnce
<1>4. LoggedWereTracked
  BY <1>1 DEF AwardsInit, LoggedWereTracked, EventKinds
<1>. QED  BY <1>2, <1>3, <1>4 DEF AwardsInv

\* One request goes on as q, and nothing is tracked.
LEMMA VisitorMoves ==
    ASSUME AwardsInv, NEW v \in Visitors, NEW q \in Visitor, visitor' = [visitor EXCEPT ![v] = q],
           visits' \in 0 .. MaxVisits, repeatable' \subseteq Items, repeatable \subseteq repeatable',
           UNCHANGED <<standing, shares, eventLog, studies, awards, owed>>,
           unwritten' \in [EventKinds -> Nat], \A i \in Items : unwritten'[i] = unwritten[i],
           \A i \in q.unseen : i \notin repeatable' =>
               awards[i] = 0 /\ \A w \in Visitors \ {v} : i \notin visitor[w].unseen,
           q.pc = "read" => \A i \in q.earned \ q.unseen : awards[i] > 0
    PROVE  AwardsInv'
<1>1. AwardsTypeOK'
  BY DEF AwardsInv, AwardsTypeOK
<1>2. \A w \in Visitors : visitor'[w] = IF w = v THEN q ELSE visitor[w]
  BY DEF AwardsInv, AwardsTypeOK
<1>3. TrackedOnce'
  BY <1>2 DEF AwardsInv, TrackedOnce
<1>4. LoggedWereTracked'
  BY <1>2 DEF AwardsInv, LoggedWereTracked
<1>. QED  BY <1>1, <1>3, <1>4 DEF AwardsInv

LEMMA AwardsStep == AwardsInv /\ [AwardsNext]_awardsVars => AwardsInv'
<1>. SUFFICES ASSUME AwardsInv, [AwardsNext]_awardsVars PROVE AwardsInv'
  OBVIOUS
<1>1. /\ standing \in Standings \cup {NewStanding} /\ shares \in Nat /\ eventLog \in Seq(EventKinds)
      /\ unwritten \in [EventKinds -> Nat] /\ visitor \in [Visitors -> Visitor]
      /\ visits \in 0 .. MaxVisits /\ studies \in 0 .. MaxStudies
      /\ awards \in [Items -> Nat] /\ owed \subseteq Items /\ repeatable \subseteq Items
  BY DEF AwardsInv, AwardsTypeOK
<1>2. NoVisitor \in Visitor /\ NoVisitor.unseen = {} /\ NoVisitor.pc = "idle"
  BY DEF NoVisitor, Visitor
<1>3. Items \subseteq EventKinds /\ {"progress_shared", "xp_awarded"} \subseteq EventKinds \ Items
  BY DEF EventKinds, Items, Badges, Milestones
<1>4. ASSUME NEW v \in Visitors, ReadStanding(v) PROVE AwardsInv'
  <2>. DEFINE q == [NoVisitor EXCEPT !.pc = "standing", !.standing = standing, !.shared = shares > 0]
  <2>1. q \in Visitor /\ q.unseen = {} /\ q.pc = "standing"
    <3>1. (shares > 0) \in BOOLEAN
      BY <1>1
    <3>. QED  BY <1>1, <3>1, Zenon DEF NoVisitor, Visitor
  <2>2. visits + 1 \in 0 .. MaxVisits
    BY <1>1, <1>4, AwardsAssumption DEF ReadStanding, Comes
  <2>. HIDE DEF q
  <2>. QED  BY <1>1, <1>4, <2>1, <2>2, VisitorMoves DEF ReadStanding, Comes, q
<1>5. ASSUME NEW v \in Visitors, ReadDashboard(v) PROVE AwardsInv'
  <2>. DEFINE e == BadgesOf(visitor[v].standing, standing, visitor[v].shared) \cup MilestonesOf(visitor[v].standing)
              q == [visitor[v] EXCEPT !.pc = "profile", !.earned = e]
  <2>1. e \subseteq Items
    BY DEF BadgesOf, MilestonesOf, Items
  <2>2. visitor' = [visitor EXCEPT ![v] = q]
    BY <1>5 DEF ReadDashboard
  <2>5. UNCHANGED <<standing, shares, eventLog, unwritten, visits, studies, awards, owed, repeatable>>
    BY <1>5 DEF ReadDashboard
  <2>. HIDE DEF e
  <2>3. q \in Visitor /\ q.unseen = visitor[v].unseen /\ q.pc = "profile"
    BY <1>1, <2>1 DEF Visitor
  <2>4. \A i \in q.unseen : i \notin repeatable =>
            awards[i] = 0 /\ \A w \in Visitors \ {v} : i \notin visitor[w].unseen
    BY <1>1, <2>3 DEF AwardsInv, TrackedOnce, Visitor
  <2>. HIDE DEF q
  <2>. QED  BY <1>1, <2>2, <2>3, <2>4, <2>5, VisitorMoves
<1>6. ASSUME NEW v \in Visitors, ReadAwards(v) PROVE AwardsInv'
  <2>. DEFINE q == [visitor[v] EXCEPT !.pc = "read", !.unseen = visitor[v].earned \ Seen]
  <2>1. visitor' = [visitor EXCEPT ![v] = q]
    BY <1>6 DEF ReadAwards
  <2>9. UNCHANGED <<standing, shares, eventLog, unwritten, visits, studies, awards, owed>>
    BY <1>6 DEF ReadAwards
  <2>2. q \in Visitor /\ q.pc = "read" /\ q.earned = visitor[v].earned /\ q.unseen = visitor[v].earned \ Seen
    BY <1>1 DEF Visitor
  <2>3. visitor[v].earned \subseteq Items
    BY <1>1 DEF Visitor
  <2>4. repeatable' = repeatable \cup (Hidden(v) \cap visitor[v].earned)
    BY <1>6 DEF ReadAwards
  <2>5. Seen = Newest \cap Items /\ \A i \in Newest : \E n \in DOMAIN eventLog : eventLog[n] = i
    BY <1>1, AwardsAssumption DEF Seen, Newest
  <2>6. \A i \in q.unseen : i \notin repeatable' =>
            awards[i] = 0 /\ \A w \in Visitors \ {v} : i \notin visitor[w].unseen
    BY <1>1, <2>2, <2>3, <2>4, <2>5 DEF Hidden
  <2>7. \A i \in q.earned \ q.unseen : awards[i] > 0
    BY <2>2, <2>3, <2>5 DEF AwardsInv, LoggedWereTracked
  <2>8. repeatable' \subseteq Items
    BY <1>1, <2>3, <2>4
  <2>. HIDE DEF q
  <2>. QED  BY <1>1, <2>1, <2>2, <2>4, <2>6, <2>7, <2>8, <2>9, VisitorMoves
<1>7. ASSUME NEW v \in Visitors, Award(v) PROVE AwardsInv'
  <2>. DEFINE q == visitor[v]
  <2>1. /\ q.pc = "read" /\ q.unseen \subseteq Items /\ q.earned \subseteq Items
        /\ awards' = [i \in Items |-> awards[i] + (IF i \in q.unseen THEN 1 ELSE 0)]
        /\ unwritten' = [k \in EventKinds |-> unwritten[k] + (IF k \in q.unseen \cup {"xp_awarded"} THEN 1 ELSE 0)]
        /\ owed' = owed \cup q.earned /\ visitor' = [visitor EXCEPT ![v] = NoVisitor]
        /\ UNCHANGED <<standing, shares, eventLog, visits, studies, repeatable>>
    BY <1>1, <1>7 DEF Award, Visitor
  <2>2. \A w \in Visitors : visitor'[w] = IF w = v THEN NoVisitor ELSE visitor[w]
    BY <1>1, <2>1
  <2>3. awards' \in [Items -> Nat] /\ unwritten' \in [EventKinds -> Nat] /\ visitor' \in [Visitors -> Visitor]
    BY <1>1, <1>2, <2>1
  <2>4. AwardsTypeOK'
    BY <1>1, <2>1, <2>3 DEF AwardsTypeOK
  <2>5. \A i \in Items : /\ awards'[i] = IF i \in q.unseen THEN awards[i] + 1 ELSE awards[i]
                         /\ unwritten'[i] = IF i \in q.unseen THEN unwritten[i] + 1 ELSE unwritten[i]
    BY <1>1, <1>3, <2>1
  <2>. HIDE DEF q
  <2>6. TrackedOnce'
    BY <1>1, <1>2, <2>1, <2>2, <2>5 DEF AwardsInv, TrackedOnce, q
  <2>7. LoggedWereTracked'
    <3>. SUFFICES ASSUME NEW i \in Items
                  PROVE  /\ unwritten'[i] > 0 \/ (\E n \in DOMAIN eventLog : eventLog[n] = i) \/ i \in owed' =>
                                awards'[i] > 0
                         /\ \A w \in Visitors :
                               visitor'[w].pc = "read" /\ i \in visitor'[w].earned \ visitor'[w].unseen => awards'[i] > 0
      BY <2>1 DEF LoggedWereTracked
    <3>1. awards[i] > 0 \/ i \in q.unseen => awards'[i] > 0
      BY <1>1, <2>5
    <3>2. unwritten'[i] > 0 => unwritten[i] > 0 \/ i \in q.unseen
      BY <1>1, <2>5
    <3>3. i \in q.earned => i \in q.unseen \/ awards[i] > 0
      BY <2>1 DEF AwardsInv, LoggedWereTracked, q
    <3>. QED  BY <1>2, <2>1, <2>2, <3>1, <3>2, <3>3 DEF AwardsInv, LoggedWereTracked
  <2>. QED  BY <2>4, <2>6, <2>7 DEF AwardsInv
<1>8. ASSUME NEW v \in Visitors, VisitFails(v) PROVE AwardsInv'
  BY <1>1, <1>2, <1>8, VisitorMoves DEF VisitFails
<1>9. ASSUME NEW v \in Visitors, ShareProgress(v) PROVE AwardsInv'
  <2>1. visits + 1 \in 0 .. MaxVisits
    BY <1>1, <1>9, AwardsAssumption DEF ShareProgress, Comes
  <2>2. unwritten' \in [EventKinds -> Nat] /\ \A i \in Items : unwritten'[i] = unwritten[i]
    BY <1>1, <1>3, <1>9 DEF ShareProgress
  <2>. QED  BY <1>1, <1>2, <1>9, <2>1, <2>2, VisitorMoves DEF ShareProgress, Comes
<1>10. ASSUME NEW k \in EventKinds, WriteEvent(k) \/ DropEvent(k) PROVE AwardsInv'
  <2>1. /\ unwritten[k] > 0 /\ unwritten' = [unwritten EXCEPT ![k] = @ - 1]
        /\ eventLog' = eventLog \/ eventLog' = Append(eventLog, k)
        /\ UNCHANGED <<standing, visitor, visits, studies, awards, owed, repeatable>>
    BY <1>10 DEF WriteEvent, DropEvent
  <2>2. shares' \in Nat
    BY <1>1, <1>10 DEF WriteEvent, DropEvent
  <2>3. unwritten' \in [EventKinds -> Nat] /\ \A i \in Items : unwritten'[i] > 0 => unwritten[i] > 0
    BY <1>1, <1>3, <2>1
  <2>8. eventLog' \in Seq(EventKinds)
    <3>1. eventLog \in Seq(EventKinds) /\ Append(eventLog, k) \in Seq(EventKinds)
      BY <1>1
    <3>. QED  BY <2>1, <3>1
  <2>4. AwardsTypeOK'
    BY <1>1, <2>1, <2>2, <2>3, <2>8 DEF AwardsTypeOK
  <2>5. TrackedOnce'
    BY <2>1 DEF AwardsInv, TrackedOnce
  <2>6. \A n \in DOMAIN eventLog' : eventLog'[n] = k \/ (n \in DOMAIN eventLog /\ eventLog'[n] = eventLog[n])
    <3>1. CASE eventLog' = eventLog
      BY <3>1
    <3>2. CASE eventLog' = Append(eventLog, k)
      BY <1>1, <3>2
    <3>. QED  BY <2>1, <3>1, <3>2
  <2>7. LoggedWereTracked'
    BY <2>1, <2>3, <2>6 DEF AwardsInv, LoggedWereTracked
  <2>. QED  BY <2>4, <2>5, <2>7 DEF AwardsInv
<1>11. CASE Study \/ UNCHANGED awardsVars
  <2>1. /\ UNCHANGED <<shares, eventLog, unwritten, visitor, visits, awards, owed, repeatable>>
        /\ standing' \in Standings \cup {NewStanding} /\ studies' \in 0 .. MaxStudies
    BY <1>1, <1>11, AwardsAssumption DEF Study, awardsVars
  <2>. QED  BY <2>1 DEF AwardsInv, AwardsTypeOK, TrackedOnce, LoggedWereTracked
<1>. QED
  BY <1>4, <1>5, <1>6, <1>7, <1>8, <1>9, <1>10, <1>11 DEF AwardsNext

\* Badges and milestones are awarded once, however requests of one user overlap and however late
\* their events are written, except where refresh could not know: the award was in the buffer,
\* dropped from it, about to be tracked by another request or older than the events it reads.
THEOREM AwardsAreGivenOnce == AwardsSpec => [](AwardsTypeOK /\ AwardedOnce)
<1>1. AwardsInv => AwardsTypeOK /\ AwardedOnce
  BY DEF AwardsInv, AwardsTypeOK, TrackedOnce, LoggedWereTracked, AwardedOnce
<1>. QED  BY <1>1, AwardsStart, AwardsStep, PTL DEF AwardsSpec
=============================================================================

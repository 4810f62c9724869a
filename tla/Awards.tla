-------------------------------- MODULE Awards --------------------------------
(***************************************************************************)
(* GamificationService.refresh for one user: badges and streak milestones  *)
(* that the user's state deserves are tracked as events, unless the newest *)
(* events of the user hold them already.  Events are written later, by the *)
(* tasks of the event service, or dropped; progress that the user shares   *)
(* is such an event, and itself earns a badge once it is written.          *)
(***************************************************************************)
EXTENDS Integers, Sequences, FiniteSets

CONSTANTS
    Visitors,           \* concurrent requests
    Standings,          \* what the user's engagement and learning rows may come to say
    EventWindow,        \* how many events refresh reads; 5000 in the code
    MaxVisits,          \* bound: requests
    MaxStudies          \* bound: changes of the user's standing

ASSUME AwardsAssumption ==
    /\ EventWindow \in Nat \ {0}
    /\ MaxVisits \in Nat /\ MaxStudies \in Nat

VARIABLES
    standing,       \* what badges depend on, but for the shares
    shares,         \* interaction_stats.progress_shares
    eventLog,       \* rows of events, oldest first
    unwritten,      \* tracked events that no row holds yet, by how many
    visitor,        \* the requests
    visits,         \* requests so far
    studies,        \* changes so far
    awards,         \* how often each award was tracked
    owed,           \* awards that a refresh has answered with
    repeatable      \* awards that a refresh had no way to know of; see AwardedOnce

awardsVars == <<standing, shares, eventLog, unwritten, visitor, visits, studies, awards, owed, repeatable>>

NewStanding == [sessions |-> 0, messages |-> 0, lessons |-> 0, accuracy |-> 0, mastery |-> 0, streak |-> 0]

Badges == {"first_session", "conversation_starter", "lesson_climber", "accuracy_ace", "mastery_builder",
           "streak_keeper", "streak_master", "share_your_win"}
Milestones == {"3 days", "7 days"}      \* and four that take longer
Items == Badges \cup Milestones
EventKinds == Items \cup {"xp_awarded", "progress_shared"}

\* "standing": engagement is read; "profile": the dashboard too; "read": the events too.
Visitor == [pc : {"idle", "standing", "profile", "read"}, standing : Standings \cup {NewStanding}, shared : BOOLEAN,
            earned : SUBSET Items, unseen : SUBSET Items]
NoVisitor == [pc |-> "idle", standing |-> NewStanding, shared |-> FALSE, earned |-> {}, unseen |-> {}]

AwardsInit ==
    /\ standing = NewStanding
    /\ shares = 0
    /\ eventLog = <<>>
    /\ unwritten = [k \in EventKinds |-> 0]
    /\ visitor = [v \in Visitors |-> NoVisitor]
    /\ visits = 0 /\ studies = 0
    /\ awards = [i \in Items |-> 0]
    /\ owed = {} /\ repeatable = {}

-----------------------------------------------------------------------------
\* _badges: s from the summary's first transaction, d from the dashboard's.
BadgesOf(s, d, shared) ==
    {b \in Badges :
        CASE b = "first_session" -> s.sessions >= 1
          [] b = "conversation_starter" -> s.messages >= 10
          [] b = "lesson_climber" -> s.lessons >= 5
          [] b = "accuracy_ace" -> d.accuracy >= 85
          [] b = "mastery_builder" -> d.mastery >= 50
          [] b = "streak_keeper" -> s.streak >= 3
          [] b = "streak_master" -> s.streak >= 7
          [] b = "share_your_win" -> shared}

MilestonesOf(s) == {m \in Milestones : s.streak >= (IF m = "3 days" THEN 3 ELSE 7)}

Comes(v, q) ==
    /\ visitor[v].pc = "idle" /\ visits < MaxVisits
    /\ visits' = visits + 1
    /\ visitor' = [visitor EXCEPT ![v] = q]

\* The first transaction of summary.
ReadStanding(v) ==
    /\ Comes(v, [NoVisitor EXCEPT !.pc = "standing", !.standing = standing, !.shared = shares > 0])
    /\ UNCHANGED <<standing, shares, eventLog, unwritten, studies, awards, owed, repeatable>>

\* build_dashboard.
ReadDashboard(v) ==
    LET q == visitor[v] IN
    /\ q.pc = "standing"
    /\ visitor' = [visitor EXCEPT ![v].pc = "profile",
                                  ![v].earned = BadgesOf(q.standing, standing, q.shared) \cup MilestonesOf(q.standing)]
    /\ UNCHANGED <<standing, shares, eventLog, unwritten, visits, studies, awards, owed, repeatable>>

\* list_by_user with its limit.
Newest ==
    LET n == Len(eventLog) IN {eventLog[i] : i \in (IF n > EventWindow THEN n - EventWindow + 1 ELSE 1) .. n}

\* Slip: only the badges are looked for.
SeenBadges == Newest \cap Badges

Seen == Newest \cap Items

\* What another request is about to track, or has and no row holds, or is out of the window.
Hidden(v) ==
    {i \in Items : unwritten[i] > 0 \/ (\E w \in Visitors \ {v} : i \in visitor[w].unseen)
                   \/ (awards[i] > 0 /\ i \notin Newest)}

ReadAwards(v) ==
    LET q == visitor[v] IN
    /\ q.pc = "profile"
    /\ visitor' = [visitor EXCEPT ![v].pc = "read", ![v].unseen = q.earned \ Seen]
    /\ repeatable' = repeatable \cup (Hidden(v) \cap q.earned)
    /\ UNCHANGED <<standing, shares, eventLog, unwritten, visits, studies, awards, owed>>

\* Tracking does not wait for anything: the events are put into the service's buffer.
Award(v) ==
    LET q == visitor[v] IN
    /\ q.pc = "read"
    /\ unwritten' = [k \in EventKinds |-> unwritten[k] + (IF k \in q.unseen \cup {"xp_awarded"} THEN 1 ELSE 0)]
    /\ awards' = [i \in Items |-> awards[i] + (IF i \in q.unseen THEN 1 ELSE 0)]
    /\ owed' = owed \cup q.earned
    /\ visitor' = [visitor EXCEPT ![v] = NoVisitor]
    /\ UNCHANGED <<standing, shares, eventLog, visits, studies, repeatable>>

VisitFails(v) ==
    /\ visitor[v].pc # "idle"
    /\ visitor' = [visitor EXCEPT ![v] = NoVisitor]
    /\ UNCHANGED <<standing, shares, eventLog, unwritten, visits, studies, awards, owed, repeatable>>

\* share_progress, or share_moment that finds a moment or none.
ShareProgress(v) ==
    /\ Comes(v, NoVisitor)
    /\ unwritten' = [unwritten EXCEPT !["progress_shared"] = @ + 1]
    /\ UNCHANGED <<standing, shares, eventLog, studies, awards, owed, repeatable>>

-----------------------------------------------------------------------------
\* An event becomes a row, one that counts in the same transaction.
WriteEvent(k) ==
    /\ unwritten[k] > 0
    /\ unwritten' = [unwritten EXCEPT ![k] = @ - 1]
    /\ eventLog' = Append(eventLog, k)
    /\ shares' = shares + (IF k = "progress_shared" THEN 1 ELSE 0)
    /\ UNCHANGED <<standing, visitor, visits, studies, awards, owed, repeatable>>

DropEvent(k) ==
    /\ unwritten[k] > 0
    /\ unwritten' = [unwritten EXCEPT ![k] = @ - 1]
    /\ UNCHANGED <<standing, shares, eventLog, visitor, visits, studies, awards, owed, repeatable>>

\* Sessions, messages, lessons and the days that pass.
Study ==
    /\ studies < MaxStudies
    /\ studies' = studies + 1
    /\ standing' \in Standings \ {standing}
    /\ UNCHANGED <<shares, eventLog, unwritten, visitor, visits, awards, owed, repeatable>>

AwardsNext ==
    \/ Study
    \/ \E k \in EventKinds : WriteEvent(k) \/ DropEvent(k)
    \/ \E v \in Visitors :
        ReadStanding(v) \/ ReadDashboard(v) \/ ReadAwards(v) \/ Award(v) \/ VisitFails(v) \/ ShareProgress(v)

AwardsSpec == AwardsInit /\ [][AwardsNext]_awardsVars

-----------------------------------------------------------------------------
AwardsTypeOK ==
    /\ standing \in Standings \cup {NewStanding}
    /\ shares \in Nat
    /\ eventLog \in Seq(EventKinds)
    /\ unwritten \in [EventKinds -> Nat]
    /\ visitor \in [Visitors -> Visitor]
    /\ visits \in 0 .. MaxVisits /\ studies \in 0 .. MaxStudies
    /\ awards \in [Items -> Nat]
    /\ owed \subseteq Items /\ repeatable \subseteq Items

\* A badge or a milestone is awarded once, however often the user is looked at and whatever the
\* standing does meanwhile, unless the award before was still in the buffer, dropped from it,
\* about to be tracked by an overlapping request, or older than the events that refresh reads;
\* and what a refresh has answered with was awarded by it or before it.
AwardedOnce ==
    \A i \in Items :
        /\ awards[i] > 1 => i \in repeatable
        /\ i \in owed => awards[i] > 0
=============================================================================

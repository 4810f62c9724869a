---------------------------- MODULE Notifications ----------------------------
(***************************************************************************)
(* Reminders to one user: the decision, from preferences, daily limit and  *)
(* cooldown of the notification row, and the delivery with its attempts    *)
(* and retries, which writes that row afterwards.  Every event of the user *)
(* may run its own.  Time goes by in slots of a few hours.                 *)
(***************************************************************************)
EXTENDS Integers, FiniteSets, Sequences

CONSTANTS
    Senders,        \* concurrent runs of the retention processor
    SlotsPerDay,
    LastSlot,       \* bound: the slots are 0 .. LastSlot
    Cooldown,       \* slots between two reminders
    Limits,         \* frequency limits a user may choose
    MaxAttempts,    \* attempts of one delivery
    MaxNotices      \* bound: decisions

ASSUME NotificationsAssumption ==
    /\ SlotsPerDay \in Nat \ {0}
    /\ LastSlot \in Nat
    /\ Cooldown \in Nat \ {0}
    /\ Limits \subseteq Nat /\ Limits # {}
    /\ MaxAttempts \in Nat \ {0}
    /\ MaxNotices \in Nat
    /\ IsFiniteSet(Senders) /\ Senders # {}

VARIABLES
    slot,           \* the time
    chosenLimit,    \* frequency_limit of user_profiles
    notice,         \* the row of user_notification_states
    deliveries,     \* notification_deliveries: the number of rows of each status
    sender,         \* the runs
    notices,        \* decisions so far
    sends,          \* the sends that returned, oldest first, with the limit of their decision
    disturbed       \* days on which two runs overlapped or one died

noticeVars == <<slot, chosenLimit, notice, deliveries, sender, notices, sends, disturbed>>

Slots == 0 .. LastSlot
DayOf(t) == t \div SlotsPerDay
NoticeRow == [day : -1 .. DayOf(LastSlot), count : Nat, until : 0 .. LastSlot + Cooldown]
Send == [at : Slots, limit : Limits]
DeliveryStatuses == {"pending", "sent", "failed"}
SenderSteps == {"idle", "preferring", "deciding", "attempting", "sending", "sent", "failed", "recording"}
\* `sent` is the status that is being recorded, `at` the time record_delivery takes.
Sender == [pc : SenderSteps, limit : Limits, attempt : Nat, ok : BOOLEAN, at : Slots, loaded : NoticeRow]

NoNoticeYet == [day |-> -1, count |-> 0, until |-> 0]
NoSender == [pc |-> "idle", limit |-> CHOOSE l \in Limits : TRUE, attempt |-> 0, ok |-> FALSE,
             at |-> 0, loaded |-> NoNoticeYet]

NotificationsInit ==
    /\ slot = 0
    /\ chosenLimit \in Limits
    /\ notice = NoNoticeYet
    /\ deliveries = [s \in DeliveryStatuses |-> 0]
    /\ sender = [p \in Senders |-> NoSender]
    /\ notices = 0
    /\ sends = <<>>
    /\ disturbed = {}

-----------------------------------------------------------------------------
Busy(p) == sender[p].pc # "idle"
Disturb(t, overlap) == disturbed' = IF overlap THEN disturbed \cup {DayOf(t)} ELSE disturbed

\* p goes on as r, and whoever else is under way overlaps it.
Step(p, r) ==
    /\ sender' = [sender EXCEPT ![p] = r]
    /\ Disturb(slot, \E o \in Senders \ {p} : Busy(o))

PassTime ==
    /\ slot < LastSlot
    /\ slot' = slot + 1
    /\ Disturb(slot + 1, Cardinality({p \in Senders : Busy(p)}) > 1)
    /\ UNCHANGED <<chosenLimit, notice, deliveries, sender, notices, sends>>

ChooseLimit ==
    /\ \E l \in Limits : chosenLimit' = l
    /\ UNCHANGED <<slot, notice, deliveries, sender, notices, sends, disturbed>>

\* handle and decide: the profile is read.
ReadPreferences(p) ==
    /\ ~Busy(p)
    /\ notices < MaxNotices
    /\ notices' = notices + 1
    /\ Step(p, [NoSender EXCEPT !.pc = "preferring", !.limit = chosenLimit])
    /\ UNCHANGED <<slot, chosenLimit, notice, deliveries, sends>>

\* sync_preferences stores the limit and returns the row, of which decide uses the rest.
SyncPreferences(p) ==
    /\ sender[p].pc = "preferring"
    /\ Step(p, [sender[p] EXCEPT !.pc = "deciding", !.loaded = notice])
    /\ UNCHANGED <<slot, chosenLimit, notice, deliveries, notices, sends>>

CountToday(row) == IF row.day = DayOf(slot) THEN row.count ELSE 0

Refused(limit, row) ==
    \/ limit = 0
    \/ CountToday(row) >= limit
    \/ row.until > slot

\* The decision; without an action, or for another hour, nothing is sent either.
Decline(p) ==
    /\ sender[p].pc = "deciding"
    /\ Step(p, NoSender)
    /\ UNCHANGED <<slot, chosenLimit, notice, deliveries, notices, sends>>

Approve(p) ==
    /\ sender[p].pc = "deciding"
    /\ ~Refused(sender[p].limit, sender[p].loaded)
    /\ Step(p, [sender[p] EXCEPT !.pc = "attempting"])
    /\ UNCHANGED <<slot, chosenLimit, notice, deliveries, notices, sends>>

CreateAttempt(p) ==
    /\ sender[p].pc = "attempting"
    /\ deliveries' = [deliveries EXCEPT !["pending"] = @ + 1]
    /\ Step(p, [sender[p] EXCEPT !.pc = "sending", !.attempt = @ + 1])
    /\ UNCHANGED <<slot, chosenLimit, notice, notices, sends>>

BackendSends(p) ==
    /\ sender[p].pc = "sending"
    /\ sends' = Append(sends, [at |-> slot, limit |-> sender[p].limit])
    /\ Step(p, [sender[p] EXCEPT !.pc = "sent"])
    /\ UNCHANGED <<slot, chosenLimit, notice, deliveries, notices>>

BackendRaises(p) ==
    /\ sender[p].pc = "sending"
    /\ Step(p, [sender[p] EXCEPT !.pc = "failed"])
    /\ UNCHANGED <<slot, chosenLimit, notice, deliveries, notices, sends>>

\* mark_status, and the read of record_delivery.
MarkStatus(p) ==
    /\ sender[p].pc \in {"sent", "failed"}
    /\ deliveries' = [deliveries EXCEPT !["pending"] = @ - 1, ![sender[p].pc] = @ + 1]
    /\ Step(p, [sender[p] EXCEPT !.pc = "recording", !.ok = sender[p].pc = "sent", !.at = slot,
                                 !.loaded = notice])
    /\ UNCHANGED <<slot, chosenLimit, notice, notices, sends>>

\* Slip: the day's first reminder resets the count and is not counted itself.
ResetOnly(r) ==
    [day |-> DayOf(r.at),
     count |-> IF r.loaded.day # DayOf(r.at) THEN 0 ELSE IF r.ok THEN r.loaded.count + 1 ELSE r.loaded.count,
     until |-> IF r.ok THEN r.at + Cooldown ELSE r.loaded.until]

Recorded(r) ==
    LET before == IF r.loaded.day = DayOf(r.at) THEN r.loaded.count ELSE 0
    IN [day |-> DayOf(r.at),
        count |-> IF r.ok THEN before + 1 ELSE before,
        until |-> IF r.ok THEN r.at + Cooldown ELSE r.loaded.until]

\* The flush writes the columns that differ; a failed attempt is retried after a pause.
RecordDelivery(p) ==
    LET r == sender[p]
    IN /\ r.pc = "recording"
       /\ notice' = [col \in DOMAIN notice |->
                        IF Recorded(r)[col] # r.loaded[col] THEN Recorded(r)[col] ELSE notice[col]]
       /\ Step(p, IF r.ok \/ r.attempt >= MaxAttempts THEN NoSender ELSE [r EXCEPT !.pc = "attempting"])
       /\ UNCHANGED <<slot, chosenLimit, deliveries, notices, sends>>

SenderDies(p) ==
    /\ Busy(p)
    /\ sender' = [sender EXCEPT ![p] = NoSender]
    /\ Disturb(slot, TRUE)
    /\ UNCHANGED <<slot, chosenLimit, notice, deliveries, notices, sends>>

NotificationsNext ==
    \/ PassTime \/ ChooseLimit
    \/ \E p \in Senders :
        \/ ReadPreferences(p) \/ SyncPreferences(p) \/ Decline(p) \/ Approve(p) \/ CreateAttempt(p)
        \/ BackendSends(p) \/ BackendRaises(p) \/ MarkStatus(p) \/ RecordDelivery(p) \/ SenderDies(p)

NotificationsSpec == NotificationsInit /\ [][NotificationsNext]_noticeVars

-----------------------------------------------------------------------------
NotificationsTypeOK ==
    /\ slot \in Slots
    /\ chosenLimit \in Limits
    /\ notice \in NoticeRow
    /\ deliveries \in [DeliveryStatuses -> Nat]
    /\ sender \in [Senders -> Sender]
    /\ notices \in 0 .. MaxNotices
    /\ sends \in Seq(Send)
    /\ disturbed \subseteq 0 .. DayOf(LastSlot)

\* On a day that, like the day before, saw no two runs overlap and none die, reminders
\* keep the limit that their decision read, and the cooldown between any two, through
\* retries, changed preferences and runs that last beyond midnight; and once no run is
\* under way the delivery rows tell what was sent.
NoBurst ==
    /\ \A j \in 1 .. Len(sends) :
        LET d == DayOf(sends[j].at) IN
        {d - 1, d} \cap disturbed = {} =>
            /\ Cardinality({i \in 1 .. j : DayOf(sends[i].at) = d}) <= sends[j].limit
            /\ \A i \in 1 .. j - 1 : DayOf(sends[i].at) >= d - 1 => sends[j].at >= sends[i].at + Cooldown
    /\ disturbed = {} /\ (\A p \in Senders : ~Busy(p)) =>
            deliveries["sent"] = Len(sends) /\ deliveries["pending"] = 0
=============================================================================

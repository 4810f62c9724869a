--------------------------- MODULE LearningSession ---------------------------
(***************************************************************************)
(* SessionEngine for one user: sessions that are started, expire, and are  *)
(* completed by the evaluation of a submission, and what the evaluation    *)
(* does to the user's engagement and progress rows.                        *)
(*                                                                         *)
(* A request has one action for each statement at which another request    *)
(* can get in between; what it wrote becomes visible when it commits.      *)
(* Three repositories that it calls commit the session they share, so that *)
(* an evaluation is several transactions.                                  *)
(***************************************************************************)
EXTENDS Integers, FiniteSets

CONSTANTS
    Sessions,       \* session ids
    Submissions,    \* submission ids
    Clients,        \* concurrent requests
    NoResult,       \* for a request that has read nothing
    MaxSubmits,     \* bound: evaluation requests
    MaxFaults       \* bound: evaluations that raise or die

ASSUME ConstantsAssumption ==
    /\ MaxSubmits \in Nat
    /\ MaxFaults \in Nat

VARIABLES
    status,         \* learning_sessions.status; "none" before start_session
    commits,        \* transactions of an evaluation before its last one
    late,           \* sessions whose expires_at has passed
    attempts,       \* committed learning_session_attempts of each session
    effects,        \* how many of those transactions are committed
    engagement,     \* sessions counted in user_engagement_state
    progress,       \* sessions counted in user_progress_state.xp
    ended,          \* sessions with a committed session_ended event
    req,            \* the requests to evaluate_session
    submits,        \* requests so far, which number the evaluations
    answers,        \* feedback that was returned
    overlapped,     \* evaluations that ended while another one was under way
    faults          \* faults so far

table == <<status, commits>>
user == <<effects, engagement, progress, ended, overlapped>>
bounds == <<submits, faults>>
vars == <<table, late, attempts, user, req, answers, bounds>>

Evaluations == 1 .. MaxSubmits
Result == Submissions \X Evaluations

\* A vocabulary item is reviewed or there is none; vocab.update,
\* skill_tracking.record and two calls of learning_events.record commit.
Commits == {2, 4}

\* The last evaluation step that the request has done.
Stages == {"idle", "sent", "read", "late", "checked", "inserted", "marked", "engagement",
           "progress", "writing", "done"}
Request ==
    [pc : Stages, session : Sessions \cup {NoResult}, submission : Submissions \cup {NoResult},
     eval : 0 .. MaxSubmits, status : {"none", "active", "completed", "expired"},
     late : BOOLEAN, engagement : SUBSET Sessions, progress : SUBSET Sessions]
NoRequest ==
    [pc |-> "idle", session |-> NoResult, submission |-> NoResult, eval |-> 0,
     status |-> "none", late |-> FALSE, engagement |-> {}, progress |-> {}]

Init ==
    /\ status = [s \in Sessions |-> "none"]
    /\ commits = [s \in Sessions |-> 2]
    /\ late = {}
    /\ attempts = [s \in Sessions |-> {}]
    /\ effects = [s \in Sessions |-> 0]
    /\ engagement = {}
    /\ progress = {}
    /\ ended = {}
    /\ req = [c \in Clients |-> NoRequest]
    /\ submits = 0
    /\ answers = {}
    /\ overlapped = {}
    /\ faults = 0

-----------------------------------------------------------------------------
\* start_session: the session's warmup has a vocabulary item to review or not.
Start(s) ==
    /\ status[s] = "none"
    /\ status' = [status EXCEPT ![s] = "active"]
    /\ \E n \in Commits : commits' = [commits EXCEPT ![s] = n]
    /\ UNCHANGED <<late, attempts, user, req, answers, bounds>>

\* The time of expires_at.
Expires(s) ==
    /\ status[s] # "none"
    /\ s \notin late
    /\ late' = late \cup {s}
    /\ UNCHANGED <<table, attempts, user, req, answers, bounds>>

-----------------------------------------------------------------------------
(***************************************************************************)
(* evaluate_session up to the evaluation: the first unit of work, which    *)
(* takes no locks.                                                         *)
(***************************************************************************)
Submit(c, s, m) ==
    /\ req[c].pc = "idle"
    /\ status[s] # "none"
    /\ submits < MaxSubmits
    /\ submits' = submits + 1
    /\ req' = [req EXCEPT ![c].pc = "sent", ![c].session = s, ![c].submission = m,
                          ![c].eval = submits + 1]
    /\ UNCHANGED <<table, late, attempts, user, answers, faults>>

\* now is taken just before the session is read.
ReadSession(c) ==
    /\ req[c].pc = "sent"
    /\ req' = [req EXCEPT ![c].pc = "read", ![c].status = status[req[c].session],
                          ![c].late = req[c].session \in late]
    /\ UNCHANGED <<table, late, attempts, user, answers, bounds>>

\* The committed results of the request's own submission.
Prior(c) == {r \in attempts[req[c].session] : r[1] = req[c].submission}

End(c) == req' = [req EXCEPT ![c] = NoRequest]

\* get_attempt_by_submission, or create_attempt_once after its insert was
\* refused: the stored feedback is returned.
\* Definitions whose name begins with Slip are variants that a mistake in the
\* code would give; no run uses them as they stand (README, "Slips").
SlipStored(c) == {<<req[c].submission, req[c].eval>>}    \* its own, not the stored one

Stored(c) == Prior(c)

Replay(c) ==
    /\ Prior(c) # {}
    /\ answers' = answers \cup {<<req[c].session, r[1], r[2]>> : r \in Stored(c)}
    /\ End(c)
    /\ UNCHANGED <<table, late, attempts, user, bounds>>

AnswerPrior(c) == req[c].pc = "read" /\ Replay(c)

Check(c) ==
    /\ req[c].pc = "read"
    /\ Prior(c) = {}
    /\ req[c].status # "completed"
    /\ req' = [req EXCEPT ![c].pc = IF req[c].late THEN "late" ELSE "checked"]
    /\ UNCHANGED <<table, late, attempts, user, answers, bounds>>

\* A stale contract version, a completed session, an answer that is not valid.
\* Nothing but an event is written.
Reject(c) ==
    /\ req[c].pc \in {"read", "checked"}
    /\ End(c)
    /\ UNCHANGED <<table, late, attempts, user, answers, bounds>>

-----------------------------------------------------------------------------
\* mark_completed_once and mark_expired wait for each other's row lock, which
\* ends with the transaction: for a completion, with the first commit.
Holding(d) == req[d].pc \in {"marked", "engagement", "progress"}

Locked(s) == \E d \in Clients : req[d].session = s /\ Holding(d)

\* mark_expired does not look at the status.
MarkExpired(c) ==
    /\ req[c].pc = "late"
    /\ ~Locked(req[c].session)
    /\ status' = [status EXCEPT ![req[c].session] = "expired"]
    /\ End(c)
    /\ UNCHANGED <<commits, late, attempts, user, answers, bounds>>

-----------------------------------------------------------------------------
(***************************************************************************)
(* The second unit of work.  The insert waits while another transaction    *)
(* has inserted the same submission and not ended.                         *)
(***************************************************************************)
Inserting(c) ==
    \E d \in Clients \ {c} :
        /\ req[d].pc = "inserted" \/ Holding(d)
        /\ req[d].session = req[c].session
        /\ req[d].submission = req[c].submission

CreateAttempt(c) ==
    /\ req[c].pc = "checked"
    /\ ~Inserting(c)
    /\ Prior(c) = {}
    /\ req' = [req EXCEPT ![c].pc = "inserted"]
    /\ UNCHANGED <<table, late, attempts, user, answers, bounds>>

\* IntegrityError: the transaction is rolled back and the attempt read.
AnswerExisting(c) == req[c].pc = "checked" /\ ~Inserting(c) /\ Replay(c)

IsActive(s) == status[s] = "active"

MarkCompleted(c) ==
    /\ req[c].pc = "inserted"
    /\ ~Locked(req[c].session)
    /\ IsActive(req[c].session)
    /\ req' = [req EXCEPT ![c].pc = "marked"]
    /\ UNCHANGED <<table, late, attempts, user, answers, bounds>>

\* The attempt is deleted again, and the transaction rolled back.
AlreadyCompleted(c) ==
    /\ req[c].pc = "inserted"
    /\ ~Locked(req[c].session)
    /\ ~IsActive(req[c].session)
    /\ End(c)
    /\ UNCHANGED <<table, late, attempts, user, answers, bounds>>

\* LearningSessionUpdater.apply reads the rows that it will write, unlocked.
ReadEngagement(c) ==
    /\ req[c].pc = "marked"
    /\ req' = [req EXCEPT ![c].pc = "engagement", ![c].engagement = engagement]
    /\ UNCHANGED <<table, late, attempts, user, answers, bounds>>

ReadProgress(c) ==
    /\ req[c].pc = "engagement"
    /\ req' = [req EXCEPT ![c].pc = "progress", ![c].progress = progress]
    /\ UNCHANGED <<table, late, attempts, user, answers, bounds>>

\* The first repository that commits: the attempt and the completion with it.
FirstCommit(c) ==
    LET s == req[c].session IN
    /\ req[c].pc = "progress"
    /\ attempts' = [attempts EXCEPT ![s] = @ \cup {<<req[c].submission, req[c].eval>>}]
    /\ status' = [status EXCEPT ![s] = "completed"]
    /\ effects' = [effects EXCEPT ![s] = 1]
    /\ req' = [req EXCEPT ![c].pc = "writing"]
    /\ UNCHANGED <<commits, late, engagement, progress, ended, answers, overlapped, bounds>>

LaterCommit(c) ==
    LET s == req[c].session IN
    /\ req[c].pc = "writing"
    /\ effects[s] < commits[s]
    /\ effects' = [effects EXCEPT ![s] = @ + 1]
    /\ UNCHANGED <<table, late, attempts, engagement, progress, ended, req, answers, overlapped,
                   bounds>>

\* The request has read a row that it has not written yet.
UnderWay(d) == req[d].pc \in {"engagement", "progress", "writing"}

\* The projection of what was read, with this session added.
SlipProjected(c, seen) == {req[c].session}                   \* counts from zero

Projected(c, seen) == seen \cup {req[c].session}

SlipEvents(c) ==    \* no event without a reviewed item
    IF commits[req[c].session] = 4 THEN {req[c].session} ELSE {}

Events(c) == {req[c].session}

\* The projections, the attempt's feedback, session_ended, lesson_completed and
\* the trace are committed last.
LastCommit(c) ==
    LET s == req[c].session IN
    /\ req[c].pc = "writing"
    /\ effects[s] = commits[s]
    /\ engagement' = Projected(c, req[c].engagement)
    /\ progress' = Projected(c, req[c].progress)
    /\ ended' = ended \cup Events(c)
    /\ overlapped' = IF \E d \in Clients \ {c} : UnderWay(d) THEN overlapped \cup {s}
                     ELSE overlapped
    /\ req' = [req EXCEPT ![c].pc = "done"]
    /\ UNCHANGED <<table, late, attempts, effects, answers, bounds>>

Answer(c) ==
    /\ req[c].pc = "done"
    /\ answers' = answers \cup {<<req[c].session, req[c].submission, req[c].eval>>}
    /\ End(c)
    /\ UNCHANGED <<table, late, attempts, user, bounds>>

\* A statement raises or times out, a lock wait is cancelled, or the process
\* dies: what is not committed is lost, and the client has an error.
Fault(c) ==
    /\ req[c].pc # "idle"
    /\ faults < MaxFaults
    /\ faults' = faults + 1
    /\ End(c)
    /\ UNCHANGED <<table, late, attempts, user, submits, answers>>

-----------------------------------------------------------------------------
Evaluate(c) ==
    \/ \E s \in Sessions, m \in Submissions : Submit(c, s, m)
    \/ ReadSession(c) \/ AnswerPrior(c) \/ Check(c) \/ Reject(c) \/ MarkExpired(c)
    \/ CreateAttempt(c) \/ AnswerExisting(c) \/ MarkCompleted(c) \/ AlreadyCompleted(c)
    \/ ReadEngagement(c) \/ ReadProgress(c)
    \/ FirstCommit(c) \/ LaterCommit(c) \/ LastCommit(c) \/ Answer(c)

Next ==
    \/ \E s \in Sessions : Start(s) \/ Expires(s)
    \/ \E c \in Clients : Evaluate(c) \/ Fault(c)

Spec == Init /\ [][Next]_vars

-----------------------------------------------------------------------------
Applying(s) == \E c \in Clients : req[c].pc = "writing" /\ req[c].session = s

HalfApplied == {s \in Sessions : attempts[s] # {} /\ s \notin ended /\ ~Applying(s)}

TypeOK ==
    /\ status \in [Sessions -> {"none", "active", "completed", "expired"}]
    /\ commits \in [Sessions -> Commits]
    /\ late \subseteq Sessions
    /\ attempts \in [Sessions -> SUBSET Result]
    /\ effects \in [Sessions -> 0 .. 4]
    /\ {engagement, progress, ended, overlapped} \subseteq SUBSET Sessions
    /\ req \in [Clients -> Request]
    /\ submits \in 0 .. MaxSubmits
    /\ answers \subseteq Sessions \X Submissions \X Evaluations
    /\ faults \in 0 .. MaxFaults

\* However submissions, retries, expiry and failures meet, a session has one
\* result, and each answer that is given for a submission is that result.
Promise == INSTANCE OneResult WITH results <- attempts
KeepsPromise == Promise!Spec

\* evaluate_session applies a result in part only if it was cut off: at rest,
\* the completed sessions without a session_ended event are as many as faults.
HalfAppliedNeedsFault == Cardinality(HalfApplied) <= faults

\* The projections write back what they read, so an evaluation can undo
\* another's; one that none overlaps stays counted in both rows.
LostNeedsOverlap == ended \ overlapped \subseteq engagement \cap progress

\* A session that has expired is not completed afterwards, not even by an
\* evaluation that found it active.
ExpiredIsFinal ==
    [][\A s \in Sessions : status[s] = "expired" =>
          status'[s] = "expired" /\ attempts'[s] = attempts[s]]_vars

\* UnitOfWork's "single transaction": an evaluation is recorded as a whole or,
\* when it is cut off, not at all.
EvaluationAtomic == HalfApplied = {}

=============================================================================

------------------------ MODULE LearningSessionProofs ------------------------
(***************************************************************************)
(* Proofs about LearningSession, for any sessions, submissions and         *)
(* concurrent requests and for every value of the bounds.                  *)
(***************************************************************************)
EXTENDS LearningSession, FiniteSetTheorems, TLAPS

-----------------------------------------------------------------------------
(***************************************************************************)
(* The inductive invariant.  Between UPDATE ... WHERE status = 'active'    *)
(* and its first commit a request holds the session's row alone, and the   *)
(* row stays active; a session that is still active has no attempt.        *)
(***************************************************************************)
Requested ==
    \A c \in Clients : req[c].pc # "idle" =>
        /\ req[c].session \in Sessions
        /\ req[c].submission \in Submissions
        /\ req[c].eval \in Evaluations

OneHolder ==
    \A c, d \in Clients : Holding(c) /\ Holding(d) /\ req[c].session = req[d].session => c = d

HeldIsActive == \A c \in Clients : Holding(c) => status[req[c].session] = "active"

ActiveIsEmpty == \A s \in Sessions : status[s] \in {"none", "active"} => attempts[s] = {}

OneAttempt == \A s \in Sessions : \A r, t \in attempts[s] : r = t

OwnResult ==
    \A c \in Clients : req[c].pc \in {"writing", "done"} =>
        <<req[c].submission, req[c].eval>> \in attempts[req[c].session]

ResultInv ==
    TypeOK /\ Requested /\ OneHolder /\ HeldIsActive /\ ActiveIsEmpty /\ OneAttempt /\ OwnResult

-----------------------------------------------------------------------------
LEMMA NoRequestType == NoRequest \in Request
BY ConstantsAssumption DEF NoRequest, Request, Stages

LEMMA EndType == ASSUME TypeOK, NEW c \in Clients, End(c) PROVE req' \in [Clients -> Request]
BY NoRequestType DEF TypeOK, End

\* The stage of a request may change to any other.
LEMMA StageType ==
    ASSUME TypeOK, NEW c \in Clients, NEW stage \in Stages
    PROVE  [req EXCEPT ![c].pc = stage] \in [Clients -> Request]
<1>1. req[c] \in Request
  BY DEF TypeOK
<1>2. [req[c] EXCEPT !.pc = stage] \in Request
  BY <1>1 DEF Request
<1> QED BY <1>2 DEF TypeOK

LEMMA InitResult == Init => ResultInv
<1> SUFFICES ASSUME Init PROVE ResultInv
  OBVIOUS
<1>1. TypeOK
  BY ConstantsAssumption, NoRequestType DEF Init, TypeOK, Commits
<1>2. Requested /\ OneHolder /\ HeldIsActive /\ ActiveIsEmpty /\ OneAttempt /\ OwnResult
  BY DEF Init, NoRequest, Requested, Holding, OneHolder, HeldIsActive, ActiveIsEmpty,
         OneAttempt, OwnResult
<1> QED BY <1>1, <1>2 DEF ResultInv

LEMMA StepType == ResultInv /\ [Next]_vars => TypeOK'
<1> SUFFICES ASSUME ResultInv, [Next]_vars PROVE TypeOK'
  OBVIOUS
<1>i. TypeOK /\ Requested
  BY DEF ResultInv
<1> USE ConstantsAssumption, <1>i DEF TypeOK, table, user, bounds
<1>1. ASSUME NEW s \in Sessions, Start(s) \/ Expires(s) PROVE TypeOK'
  BY <1>1 DEF Start, Expires
<1>2. ASSUME NEW c \in Clients, NEW s \in Sessions, NEW m \in Submissions, Submit(c, s, m)
      PROVE  TypeOK'
  <2>1. req[c] \in Request /\ submits + 1 \in 0 .. MaxSubmits
    BY <1>2 DEF Submit
  <2>2. [req[c] EXCEPT !.pc = "sent", !.session = s, !.submission = m, !.eval = submits + 1]
          \in Request
    BY <2>1 DEF Request, Stages
  <2>3. req' \in [Clients -> Request]
    BY <1>2, <2>2 DEF Submit
  <2> QED BY <1>2, <2>1, <2>3 DEF Submit
<1>3. ASSUME NEW c \in Clients, ReadSession(c) PROVE TypeOK'
  <2>1. req[c] \in Request /\ status[req[c].session] \in {"none", "active", "completed", "expired"}
    BY <1>3 DEF ReadSession, Requested
  <2>2. (req[c].session \in late) \in BOOLEAN
    OBVIOUS
  <2>3. [req[c] EXCEPT !.pc = "read", !.status = status[req[c].session],
                       !.late = req[c].session \in late] \in Request
    BY <2>1, <2>2 DEF Request, Stages
  <2>4. req' \in [Clients -> Request]
    BY <1>3, <2>3 DEF ReadSession
  <2> QED BY <1>3, <2>4 DEF ReadSession
<1>4. ASSUME NEW c \in Clients, AnswerPrior(c) \/ AnswerExisting(c) PROVE TypeOK'
  <2>1. Replay(c) /\ req[c].session \in Sessions
    BY <1>4 DEF AnswerPrior, AnswerExisting, Requested
  <2>2. Stored(c) \subseteq Result
    BY <2>1 DEF Stored, Prior
  <2>3. answers' \subseteq Sessions \X Submissions \X Evaluations
    BY <2>1, <2>2 DEF Replay, Result
  <2> QED BY <2>1, <2>3, EndType DEF Replay
<1>5. ASSUME NEW c \in Clients, Check(c) \/ CreateAttempt(c) \/ MarkCompleted(c) PROVE TypeOK'
  <2>1. \E stage \in Stages : req' = [req EXCEPT ![c].pc = stage]
    BY <1>5 DEF Check, CreateAttempt, MarkCompleted, Stages
  <2>2. req' \in [Clients -> Request]
    BY <2>1, StageType
  <2> QED BY <1>5, <2>2 DEF Check, CreateAttempt, MarkCompleted
<1>6. ASSUME NEW c \in Clients, Reject(c) \/ AlreadyCompleted(c) \/ Fault(c) PROVE TypeOK'
  <2>1. req' \in [Clients -> Request]
    BY <1>6, EndType DEF Reject, AlreadyCompleted, Fault
  <2> QED BY <1>6, <2>1 DEF Reject, AlreadyCompleted, Fault
<1>7. ASSUME NEW c \in Clients, MarkExpired(c) PROVE TypeOK'
  <2>1. req' \in [Clients -> Request]
    BY <1>7, EndType DEF MarkExpired
  <2> QED BY <1>7, <2>1 DEF MarkExpired
<1>8. ASSUME NEW c \in Clients, ReadEngagement(c) \/ ReadProgress(c) PROVE TypeOK'
  <2>1. req[c] \in Request /\ engagement \in SUBSET Sessions /\ progress \in SUBSET Sessions
    OBVIOUS
  <2>2. /\ [req[c] EXCEPT !.pc = "engagement", !.engagement = engagement] \in Request
        /\ [req[c] EXCEPT !.pc = "progress", !.progress = progress] \in Request
    BY <2>1 DEF Request, Stages
  <2>3. req' \in [Clients -> Request]
    BY <1>8, <2>2 DEF ReadEngagement, ReadProgress
  <2> QED BY <1>8, <2>3 DEF ReadEngagement, ReadProgress
<1>9. ASSUME NEW c \in Clients, FirstCommit(c) PROVE TypeOK'
  <2>1. /\ req[c].session \in Sessions
        /\ <<req[c].submission, req[c].eval>> \in Result
    BY <1>9 DEF FirstCommit, Requested, Result
  <2>2. req' \in [Clients -> Request]
    BY <1>9, StageType DEF FirstCommit, Stages
  <2>3. attempts' \in [Sessions -> SUBSET Result]
    BY <1>9, <2>1 DEF FirstCommit
  <2> QED BY <1>9, <2>1, <2>2, <2>3 DEF FirstCommit
<1>10. ASSUME NEW c \in Clients, LaterCommit(c) PROVE TypeOK'
  <2>1. effects' \in [Sessions -> 0 .. 4]
    BY <1>10 DEF LaterCommit, Requested, Commits
  <2> QED BY <1>10, <2>1 DEF LaterCommit
<1>11. ASSUME NEW c \in Clients, LastCommit(c) PROVE TypeOK'
  <2>1. req[c] \in Request /\ req[c].session \in Sessions
    BY <1>11 DEF LastCommit, Requested
  <2>2. engagement' \subseteq Sessions /\ progress' \subseteq Sessions
    BY <1>11, <2>1 DEF LastCommit, Projected, Request
  <2>3. ended' \subseteq Sessions /\ overlapped' \subseteq Sessions
    BY <1>11, <2>1 DEF LastCommit, Events
  <2>4. req' \in [Clients -> Request]
    BY <1>11, StageType DEF LastCommit, Stages
  <2> QED BY <1>11, <2>2, <2>3, <2>4 DEF LastCommit
<1>12. ASSUME NEW c \in Clients, Answer(c) PROVE TypeOK'
  <2>1. req' \in [Clients -> Request]
    BY <1>12, EndType DEF Answer
  <2>2. answers' \subseteq Sessions \X Submissions \X Evaluations
    BY <1>12 DEF Answer, Requested
  <2> QED BY <1>12, <2>1, <2>2 DEF Answer
<1>13. CASE UNCHANGED vars
  BY <1>13 DEF vars
<1> QED BY <1>1, <1>2, <1>3, <1>4, <1>5, <1>6, <1>7, <1>8, <1>9, <1>10, <1>11, <1>12, <1>13
        DEF Next, Evaluate

-----------------------------------------------------------------------------
(***************************************************************************)
(* Most steps move one request and leave the sessions and the committed    *)
(* attempts as they are.                                                   *)
(***************************************************************************)
Others(c) == \A d \in Clients \ {c} : req'[d] = req[d]

SameRequest(c) ==
    /\ req[c].pc # "idle"
    /\ req'[c].session = req[c].session
    /\ req'[c].submission = req[c].submission
    /\ req'[c].eval = req[c].eval

LEMMA QuietStep ==
    ASSUME ResultInv, TypeOK', UNCHANGED <<status, attempts>>, NEW c \in Clients, Others(c),
           \/ req'[c] = NoRequest
           \/ /\ SameRequest(c)
              /\ Holding(c)' => Holding(c)
              /\ req'[c].pc \in {"writing", "done"} => req[c].pc \in {"writing", "done"}
    PROVE  ResultInv'
<1> USE DEF ResultInv
<1>1. ActiveIsEmpty' /\ OneAttempt'
  BY DEF ActiveIsEmpty, OneAttempt
<1>2. CASE req'[c] = NoRequest
  <2>1. req'[c].pc = "idle"
    BY <1>2 DEF NoRequest
  <2>2. Requested'
    BY <2>1 DEF Requested, Others
  <2>3. OneHolder' /\ HeldIsActive'
    BY <2>1 DEF OneHolder, HeldIsActive, Holding, Others
  <2>4. OwnResult'
    BY <2>1 DEF OwnResult, Others
  <2> QED BY <1>1, <2>2, <2>3, <2>4
<1>3. CASE /\ SameRequest(c)
           /\ Holding(c)' => Holding(c)
           /\ req'[c].pc \in {"writing", "done"} => req[c].pc \in {"writing", "done"}
  <2>1. \A d \in Clients : /\ req'[d].session = req[d].session
                           /\ req'[d].submission = req[d].submission
                           /\ req'[d].eval = req[d].eval
                           /\ Holding(d)' => Holding(d)
    BY <1>3 DEF SameRequest, Others, Holding
  <2>2. Requested'
    BY <1>3, <2>1 DEF Requested, SameRequest, Others
  <2>3. OneHolder' /\ HeldIsActive'
    BY <2>1 DEF OneHolder, HeldIsActive
  <2>4. OwnResult'
    BY <1>3, <2>1 DEF OwnResult, Others
  <2> QED BY <1>1, <2>2, <2>3, <2>4
<1> QED BY <1>2, <1>3

LEMMA EndEffect ==
    ASSUME TypeOK, NEW c \in Clients, End(c)
    PROVE  Others(c) /\ req'[c] = NoRequest
BY DEF TypeOK, End, Others

LEMMA StepResult == ResultInv /\ [Next]_vars => ResultInv'
<1> SUFFICES ASSUME ResultInv, [Next]_vars PROVE ResultInv'
  OBVIOUS
<1>i. TypeOK /\ TypeOK' /\ \A c \in Clients : req[c] \in Request
  BY StepType DEF ResultInv, TypeOK
<1> USE <1>i DEF table, user, bounds
<1>1. ASSUME NEW s \in Sessions, Start(s) \/ Expires(s) PROVE ResultInv'
  <2>1. req' = req /\ attempts' = attempts
    BY <1>1 DEF Start, Expires
  <2>2. \A t \in Sessions :
           \/ status'[t] = status[t]
           \/ status[t] = "none" /\ status'[t] = "active"
    <3>1. CASE Start(s)
      BY <3>1 DEF Start, TypeOK
    <3>2. CASE Expires(s)
      BY <3>2 DEF Expires
    <3> QED BY <1>1, <3>1, <3>2
  <2>3. Requested' /\ OneHolder' /\ OneAttempt' /\ OwnResult'
    BY <2>1 DEF ResultInv, Requested, OneHolder, OneAttempt, OwnResult, Holding
  <2>4. ActiveIsEmpty'
    BY <2>1, <2>2 DEF ResultInv, ActiveIsEmpty
  <2>5. HeldIsActive'
    BY <2>1, <2>2 DEF ResultInv, HeldIsActive, Holding, Requested
  <2> QED BY <2>3, <2>4, <2>5 DEF ResultInv
<1>2. ASSUME NEW c \in Clients, NEW s \in Sessions, NEW m \in Submissions, Submit(c, s, m)
      PROVE  ResultInv'
  <2>1. Others(c) /\ attempts' = attempts /\ status' = status
    BY <1>2 DEF Submit, Others, TypeOK
  <2>2. /\ req'[c].pc = "sent" /\ req'[c].session = s /\ req'[c].submission = m
        /\ req'[c].eval \in Evaluations
    <3>1. submits + 1 \in Evaluations
      BY <1>2, ConstantsAssumption DEF Submit, TypeOK, Evaluations
    <3> QED BY <1>2, <3>1 DEF Submit, TypeOK, Request
  <2>3. Requested'
    BY <2>1, <2>2 DEF ResultInv, Requested, Others
  <2>4. OneHolder' /\ HeldIsActive' /\ OwnResult'
    BY <2>1, <2>2 DEF ResultInv, OneHolder, HeldIsActive, OwnResult, Holding, Others
  <2> QED BY <2>1, <2>3, <2>4 DEF ResultInv, ActiveIsEmpty, OneAttempt
<1>3. ASSUME NEW c \in Clients,
             \/ ReadSession(c) \/ Check(c) \/ CreateAttempt(c) \/ ReadEngagement(c)
             \/ ReadProgress(c) \/ LastCommit(c)
      PROVE  ResultInv'
  <2>1. Others(c) /\ attempts' = attempts /\ status' = status
    BY <1>3 DEF ReadSession, Check, CreateAttempt, ReadEngagement, ReadProgress, LastCommit,
                Others, TypeOK
  <2>2. SameRequest(c)
    BY <1>3 DEF ReadSession, Check, CreateAttempt, ReadEngagement, ReadProgress, LastCommit,
                SameRequest, TypeOK, Request
  <2>3. /\ Holding(c)' => Holding(c)
        /\ req'[c].pc \in {"writing", "done"} => req[c].pc \in {"writing", "done"}
    BY <1>3 DEF ReadSession, Check, CreateAttempt, ReadEngagement, ReadProgress, LastCommit,
                Holding, TypeOK, Request
  <2> QED BY <2>1, <2>2, <2>3, QuietStep
<1>4. ASSUME NEW c \in Clients,
             \/ AnswerPrior(c) \/ AnswerExisting(c) \/ Reject(c) \/ AlreadyCompleted(c)
             \/ Fault(c) \/ Answer(c)
      PROVE  ResultInv'
  <2>1. End(c) /\ attempts' = attempts /\ status' = status
    BY <1>4 DEF AnswerPrior, AnswerExisting, Replay, Reject, AlreadyCompleted, Fault, Answer
  <2> QED BY <2>1, EndEffect, QuietStep
<1>5. ASSUME NEW c \in Clients, MarkExpired(c) PROVE ResultInv'
  <2>1. End(c) /\ attempts' = attempts /\ ~Locked(req[c].session)
        /\ status' = [status EXCEPT ![req[c].session] = "expired"]
    BY <1>5 DEF MarkExpired
  <2>2. req'[c].pc = "idle" /\ Others(c)
    BY <2>1, EndEffect DEF NoRequest
  <2>3. Requested'
    BY <2>2 DEF ResultInv, Requested, Others
  <2>4. OneHolder' /\ OwnResult'
    BY <2>1, <2>2 DEF ResultInv, OneHolder, OwnResult, Holding, Others
  <2>5. HeldIsActive'
    BY <2>1, <2>2 DEF ResultInv, HeldIsActive, Locked, Holding, Others, TypeOK, Requested
  <2>6. ActiveIsEmpty' /\ OneAttempt'
    BY <2>1 DEF ResultInv, ActiveIsEmpty, OneAttempt, TypeOK
  <2> QED BY <2>3, <2>4, <2>5, <2>6 DEF ResultInv
<1>6. ASSUME NEW c \in Clients, MarkCompleted(c) PROVE ResultInv'
  <2>1. /\ Others(c) /\ attempts' = attempts /\ status' = status /\ SameRequest(c)
        /\ req'[c].pc = "marked" /\ ~Locked(req[c].session)
        /\ status[req[c].session] = "active"
    BY <1>6 DEF MarkCompleted, IsActive, Others, SameRequest, TypeOK, Request
  <2>2. Requested' /\ OwnResult'
    BY <2>1 DEF ResultInv, Requested, OwnResult, SameRequest, Others
  <2>3. HeldIsActive'
    BY <2>1 DEF ResultInv, HeldIsActive, Holding, SameRequest, Others
  <2>4. OneHolder'
    BY <2>1 DEF ResultInv, OneHolder, Locked, Holding, SameRequest, Others
  <2> QED BY <2>1, <2>2, <2>3, <2>4 DEF ResultInv, ActiveIsEmpty, OneAttempt
<1>7. ASSUME NEW c \in Clients, FirstCommit(c) PROVE ResultInv'
  <2> DEFINE s == req[c].session
             r == <<req[c].submission, req[c].eval>>
  <2>1. /\ Others(c) /\ SameRequest(c) /\ req[c].pc = "progress" /\ req'[c].pc = "writing"
        /\ attempts' = [attempts EXCEPT ![s] = @ \cup {r}]
        /\ status' = [status EXCEPT ![s] = "completed"]
    BY <1>7 DEF FirstCommit, Others, SameRequest, TypeOK, Request
  <2>2. s \in Sessions /\ attempts[s] = {}
    BY <2>1 DEF ResultInv, Requested, HeldIsActive, Holding, ActiveIsEmpty
  <2>3. Requested'
    BY <2>1 DEF ResultInv, Requested, SameRequest, Others
  <2>4. OneHolder' /\ HeldIsActive'
    BY <2>1, <2>2 DEF ResultInv, OneHolder, HeldIsActive, Holding, SameRequest, Others, TypeOK,
                      Requested
  <2>5. ActiveIsEmpty' /\ OneAttempt'
    BY <2>1, <2>2 DEF ResultInv, ActiveIsEmpty, OneAttempt, TypeOK
  <2>6. OwnResult'
    BY <2>1, <2>2 DEF ResultInv, OwnResult, SameRequest, Others, TypeOK, Requested
  <2> QED BY <2>3, <2>4, <2>5, <2>6 DEF ResultInv
<1>8. ASSUME NEW c \in Clients, LaterCommit(c) PROVE ResultInv'
  BY <1>8 DEF LaterCommit, ResultInv, Requested, OneHolder, HeldIsActive, Holding,
              ActiveIsEmpty, OneAttempt, OwnResult
<1>9. CASE UNCHANGED vars
  BY <1>9 DEF vars, ResultInv, Requested, OneHolder, HeldIsActive, Holding, ActiveIsEmpty,
              OneAttempt, OwnResult
<1> QED BY <1>1, <1>2, <1>3, <1>4, <1>5, <1>6, <1>7, <1>8, <1>9 DEF Next, Evaluate

LEMMA ResultInvariant == Spec => []ResultInv
BY InitResult, StepResult, PTL DEF Spec

(***************************************************************************)
(* Every variable keeps its type.                                          *)
(***************************************************************************)
THEOREM TypeCorrect == Spec => []TypeOK
<1>1. ResultInv => TypeOK
  BY DEF ResultInv
<1> QED BY <1>1, ResultInvariant, PTL

-----------------------------------------------------------------------------
\* The steps that neither accept a result, nor answer, nor expire a session.
Quiet(c) ==
    \/ \E s \in Sessions, m \in Submissions : Submit(c, s, m)
    \/ ReadSession(c) \/ Check(c) \/ Reject(c) \/ CreateAttempt(c) \/ MarkCompleted(c)
    \/ AlreadyCompleted(c) \/ ReadEngagement(c) \/ ReadProgress(c) \/ LaterCommit(c)
    \/ LastCommit(c) \/ Fault(c)

LEMMA QuietChanges ==
    ASSUME NEW c \in Clients, Quiet(c) PROVE UNCHANGED <<status, attempts, answers>>
BY DEF Quiet, Submit, ReadSession, Check, Reject, CreateAttempt, MarkCompleted,
       AlreadyCompleted, ReadEngagement, ReadProgress, LaterCommit, LastCommit, Fault, table

\* Feedback that is returned for a stored attempt is that attempt's.
LEMMA ReplayAnswers ==
    ASSUME ResultInv, NEW c \in Clients, req[c].pc # "idle", Replay(c)
    PROVE  Promise!Next
<1>1. PICK r \in Prior(c) : TRUE
  BY DEF Replay
<1>2. req[c].session \in Sessions /\ attempts[req[c].session] \subseteq Result
  BY DEF ResultInv, Requested, TypeOK
<1>3. /\ r \in attempts[req[c].session] /\ r = <<r[1], r[2]>>
      /\ r[1] \in Submissions /\ r[2] \in Evaluations
  BY <1>1, <1>2 DEF Prior, Result
<1>4. Stored(c) = {r}
  BY <1>1, <1>2 DEF Stored, Prior, ResultInv, OneAttempt
<1>5. answers' = answers \cup {<<req[c].session, r[1], r[2]>>} /\ attempts' = attempts
  BY <1>4 DEF Replay
<1>6. Promise!Answer(req[c].session, r[1], r[2])
  BY <1>3, <1>5 DEF Promise!Answer
<1> QED BY <1>2, <1>3, <1>6 DEF Promise!Next

LEMMA StepPromise == ResultInv /\ [Next]_vars => [Promise!Next]_(Promise!vars)
<1> SUFFICES ASSUME ResultInv, [Next]_vars
             PROVE  Promise!Next \/ UNCHANGED <<attempts, answers>>
  BY DEF Promise!vars
<1>1. ASSUME NEW c \in Clients, AnswerPrior(c) \/ AnswerExisting(c) PROVE Promise!Next
  BY <1>1, ReplayAnswers DEF AnswerPrior, AnswerExisting
<1>2. ASSUME NEW c \in Clients, FirstCommit(c) PROVE Promise!Next
  <2>1. /\ req[c].session \in Sessions /\ req[c].submission \in Submissions
        /\ req[c].eval \in Evaluations /\ attempts[req[c].session] = {}
    BY <1>2 DEF FirstCommit, ResultInv, Requested, HeldIsActive, Holding, ActiveIsEmpty
  <2>2. Promise!Accept(req[c].session, req[c].submission, req[c].eval)
    BY <1>2, <2>1 DEF FirstCommit, Promise!Accept
  <2> QED BY <2>1, <2>2 DEF Promise!Next
<1>3. ASSUME NEW c \in Clients, Answer(c) PROVE Promise!Next
  <2>1. /\ req[c].session \in Sessions /\ req[c].submission \in Submissions
        /\ req[c].eval \in Evaluations
        /\ <<req[c].submission, req[c].eval>> \in attempts[req[c].session]
    BY <1>3 DEF Answer, ResultInv, Requested, OwnResult
  <2>2. Promise!Answer(req[c].session, req[c].submission, req[c].eval)
    BY <1>3, <2>1 DEF Answer, Promise!Answer
  <2> QED BY <2>1, <2>2 DEF Promise!Next
<1>4. ASSUME NEW s \in Sessions, Start(s) \/ Expires(s) PROVE UNCHANGED <<attempts, answers>>
  BY <1>4 DEF Start, Expires
<1>5. ASSUME NEW c \in Clients, Quiet(c) \/ MarkExpired(c) PROVE UNCHANGED <<attempts, answers>>
  BY <1>5, QuietChanges DEF MarkExpired
<1>6. CASE UNCHANGED vars
  BY <1>6 DEF vars
<1> QED BY <1>1, <1>2, <1>3, <1>4, <1>5, <1>6 DEF Next, Evaluate, Quiet

(***************************************************************************)
(* evaluate_session keeps the promise of OneResult: a session accepts one  *)
(* submission and whoever asks for it is given the evaluation that was     *)
(* stored, through any retries, expiry, lock waits and failures.           *)
(***************************************************************************)
THEOREM OneResultPerSession == Spec => KeepsPromise
<1>1. Init => Promise!Init
  BY DEF Init, Promise!Init
<1> QED BY <1>1, StepPromise, ResultInvariant, PTL DEF Spec, KeepsPromise, Promise!Spec

(***************************************************************************)
(* mark_completed_once never completes a session that has expired.         *)
(***************************************************************************)
THEOREM ExpiredStaysExpired == Spec => ExpiredIsFinal
<1>1. ResultInv /\ [Next]_vars =>
        [\A s \in Sessions : status[s] = "expired" =>
            status'[s] = "expired" /\ attempts'[s] = attempts[s]]_vars
  <2> SUFFICES ASSUME ResultInv, [Next]_vars, NEW s \in Sessions, status[s] = "expired"
               PROVE  status'[s] = "expired" /\ attempts'[s] = attempts[s]
    OBVIOUS
  <2>t. TypeOK
    BY DEF ResultInv
  <2>1. ASSUME NEW t \in Sessions, Start(t)
        PROVE  status'[s] = "expired" /\ attempts'[s] = attempts[s]
    BY <2>1, <2>t DEF Start, TypeOK
  <2>2. ASSUME NEW c \in Clients, MarkExpired(c)
        PROVE  status'[s] = "expired" /\ attempts'[s] = attempts[s]
    BY <2>2, <2>t DEF MarkExpired, TypeOK
  <2>3. ASSUME NEW c \in Clients, FirstCommit(c)
        PROVE  status'[s] = "expired" /\ attempts'[s] = attempts[s]
    <3>1. s # req[c].session
      BY <2>3 DEF FirstCommit, ResultInv, HeldIsActive, Holding
    <3> QED BY <2>3, <2>t, <3>1 DEF FirstCommit, TypeOK
  <2>4. ASSUME NEW t \in Sessions, Expires(t)
        PROVE  status'[s] = "expired" /\ attempts'[s] = attempts[s]
    BY <2>4 DEF Expires, table
  <2>5. ASSUME NEW c \in Clients, AnswerPrior(c) \/ AnswerExisting(c) \/ Answer(c)
        PROVE  status'[s] = "expired" /\ attempts'[s] = attempts[s]
    BY <2>5 DEF AnswerPrior, AnswerExisting, Replay, Answer, table
  <2>6. ASSUME NEW c \in Clients, Quiet(c)
        PROVE  status'[s] = "expired" /\ attempts'[s] = attempts[s]
    BY <2>6, QuietChanges
  <2>7. CASE UNCHANGED vars
    BY <2>7 DEF vars, table
  <2> QED BY <2>1, <2>2, <2>3, <2>4, <2>5, <2>6, <2>7 DEF Next, Evaluate, Quiet
<1> QED BY <1>1, ResultInvariant, PTL DEF Spec, ExpiredIsFinal

-----------------------------------------------------------------------------
(***************************************************************************)
(* What a request has read of a row includes every session that is counted *)
(* and that no evaluation overlapped: one that ended since was overlapped  *)
(* by this request.                                                        *)
(***************************************************************************)
Kept == ended \ overlapped

SeenInv ==
    /\ LostNeedsOverlap
    /\ \A c \in Clients : UnderWay(c) => Kept \subseteq req[c].engagement
    /\ \A c \in Clients : req[c].pc \in {"progress", "writing"} => Kept \subseteq req[c].progress

LEMMA StepSeen == ResultInv /\ SeenInv /\ [Next]_vars => SeenInv'
<1> SUFFICES ASSUME ResultInv, SeenInv, [Next]_vars PROVE SeenInv'
  OBVIOUS
<1>t. TypeOK /\ \A c \in Clients : req[c] \in Request
  BY DEF ResultInv, TypeOK
<1> USE DEF SeenInv, UnderWay, user
\* A step that leaves the user's rows alone and brings c to no later stage.
<1>q. ASSUME NEW c \in Clients, UNCHANGED user, Others(c),
             ~UnderWay(c)' \/ req'[c] = req[c]
      PROVE  SeenInv'
  BY <1>q DEF Kept, LostNeedsOverlap, Others
<1>1. ASSUME NEW s \in Sessions, Start(s) \/ Expires(s) PROVE SeenInv'
  BY <1>1 DEF Start, Expires, Kept, LostNeedsOverlap
<1>2. ASSUME NEW c \in Clients,
             \/ \E s \in Sessions, m \in Submissions : Submit(c, s, m)
             \/ ReadSession(c) \/ Check(c) \/ CreateAttempt(c) \/ MarkCompleted(c)
      PROVE  SeenInv'
  <2>1. UNCHANGED user /\ Others(c)
    BY <1>2, <1>t DEF Submit, ReadSession, Check, CreateAttempt, MarkCompleted, Others, TypeOK
  <2>2. ~UnderWay(c)'
    <3>1. CASE \E s \in Sessions, m \in Submissions : Submit(c, s, m)
      BY <1>t, <3>1 DEF Submit, TypeOK, Request
    <3>2. CASE ReadSession(c)
      BY <1>t, <3>2 DEF ReadSession, TypeOK, Request
    <3>3. CASE Check(c) \/ CreateAttempt(c) \/ MarkCompleted(c)
      BY <1>t, <3>3 DEF Check, CreateAttempt, MarkCompleted, TypeOK, Request
    <3> QED BY <1>2, <3>1, <3>2, <3>3
  <2> QED BY <1>q, <2>1, <2>2
<1>3. ASSUME NEW c \in Clients,
             \/ AnswerPrior(c) \/ AnswerExisting(c) \/ Reject(c) \/ MarkExpired(c)
             \/ AlreadyCompleted(c) \/ Answer(c) \/ Fault(c)
      PROVE  SeenInv'
  <2>1. UNCHANGED user /\ End(c)
    BY <1>3 DEF AnswerPrior, AnswerExisting, Replay, Reject, MarkExpired, AlreadyCompleted,
                Answer, Fault
  <2>2. Others(c) /\ ~UnderWay(c)'
    BY <1>t, <2>1, EndEffect DEF NoRequest
  <2> QED BY <1>q, <2>1, <2>2
<1>4. ASSUME NEW c \in Clients, ReadEngagement(c) PROVE SeenInv'
  <2>1. /\ UNCHANGED user /\ Others(c) /\ req'[c].pc = "engagement"
        /\ req'[c].engagement = engagement
    BY <1>4, <1>t DEF ReadEngagement, Others, TypeOK, Request
  <2> QED BY <2>1 DEF Kept, LostNeedsOverlap, Others
<1>5. ASSUME NEW c \in Clients, ReadProgress(c) PROVE SeenInv'
  <2>1. /\ UNCHANGED user /\ Others(c) /\ req[c].pc = "engagement" /\ req'[c].pc = "progress"
        /\ req'[c].engagement = req[c].engagement /\ req'[c].progress = progress
    BY <1>5, <1>t DEF ReadProgress, Others, TypeOK, Request
  <2> QED BY <2>1 DEF Kept, LostNeedsOverlap, Others
<1>6. ASSUME NEW c \in Clients, FirstCommit(c) PROVE SeenInv'
  <2>1. /\ UNCHANGED <<engagement, progress, ended, overlapped>> /\ Others(c)
        /\ req[c].pc = "progress" /\ req'[c].pc = "writing"
        /\ req'[c].engagement = req[c].engagement /\ req'[c].progress = req[c].progress
    BY <1>6, <1>t DEF FirstCommit, Others, TypeOK, Request
  <2> QED BY <2>1 DEF Kept, LostNeedsOverlap, Others
<1>7. ASSUME NEW c \in Clients, LaterCommit(c) PROVE SeenInv'
  BY <1>7 DEF LaterCommit, Kept, LostNeedsOverlap
<1>8. ASSUME NEW c \in Clients, LastCommit(c) PROVE SeenInv'
  <2> DEFINE s == req[c].session
  <2>1. /\ req[c].pc = "writing" /\ req'[c].pc = "done" /\ Others(c)
        /\ ended' = ended \cup {s} /\ overlapped \subseteq overlapped'
        /\ engagement' = req[c].engagement \cup {s} /\ progress' = req[c].progress \cup {s}
    BY <1>8, <1>t DEF LastCommit, Others, TypeOK, Request, Projected, Events
  <2>2. LostNeedsOverlap'
    BY <2>1 DEF LostNeedsOverlap, Kept
  <2>3. ASSUME NEW d \in Clients, UnderWay(d)' PROVE d # c /\ Kept' \subseteq Kept
    <3>1. d # c /\ UnderWay(d)
      BY <2>1, <2>3 DEF Others
    <3>2. s \in overlapped'
      BY <1>8, <3>1 DEF LastCommit
    <3> QED BY <2>1, <3>1, <3>2 DEF Kept
  <2>4. \A d \in Clients : UnderWay(d)' => Kept' \subseteq req'[d].engagement
    BY <2>1, <2>3 DEF Others
  <2>5. \A d \in Clients : req'[d].pc \in {"progress", "writing"} => Kept' \subseteq req'[d].progress
    BY <2>3, <2>1 DEF Others
  <2> QED BY <2>2, <2>4, <2>5
<1>9. CASE UNCHANGED vars
  BY <1>9 DEF vars, Kept, LostNeedsOverlap
<1> QED BY <1>1, <1>2, <1>3, <1>4, <1>5, <1>6, <1>7, <1>8, <1>9 DEF Next, Evaluate

(***************************************************************************)
(* The engagement and progress rows lose an evaluation only to another one *)
(* that read them before it was committed.                                 *)
(***************************************************************************)
THEOREM OnlyOverlapLoses == Spec => []LostNeedsOverlap
<1>1. Init => SeenInv
  BY DEF Init, NoRequest, SeenInv, LostNeedsOverlap, UnderWay, Kept
<1>2. SeenInv => LostNeedsOverlap
  BY DEF SeenInv
<1> QED BY <1>1, <1>2, StepSeen, ResultInvariant, PTL DEF Spec

-----------------------------------------------------------------------------
\* A session that was applied in part is one that a fault left so: every other
\* step of an evaluation that is writing keeps writing or records the end.
HalfInv == IsFiniteSet(HalfApplied) /\ Cardinality(HalfApplied) <= faults

LEMMA SubsetCount ==
    ASSUME NEW S, NEW T, IsFiniteSet(S), T \subseteq S
    PROVE  IsFiniteSet(T) /\ Cardinality(T) \in Nat /\ Cardinality(S) \in Nat
           /\ Cardinality(T) <= Cardinality(S)
BY FS_Subset, FS_CardinalityType

LEMMA OneMoreCount ==
    ASSUME NEW S, NEW x, IsFiniteSet(S)
    PROVE  IsFiniteSet(S \cup {x}) /\ Cardinality(S) \in Nat
           /\ Cardinality(S \cup {x}) <= Cardinality(S) + 1
<1>1. Cardinality(S) \in Nat
  BY FS_CardinalityType
<1>2. IsFiniteSet(S \cup {x})
      /\ Cardinality(S \cup {x}) \in {Cardinality(S), Cardinality(S) + 1}
  BY FS_AddElement
<1> QED BY <1>1, <1>2

LEMMA HalfAppliedStays ==
    ASSUME ended \subseteq ended',
           \A s \in Sessions : attempts'[s] = attempts[s] \/ Applying(s)',
           \A s \in Sessions : Applying(s) => Applying(s)' \/ s \in ended'
    PROVE  HalfApplied' \subseteq HalfApplied
BY DEF HalfApplied

\* A step of a request that does not stop writing.
LEMMA StillApplying ==
    ASSUME NEW c \in Clients, Others(c),
           req[c].pc = "writing" => req'[c].pc = "writing" /\ req'[c].session = req[c].session
    PROVE  \A s \in Sessions : Applying(s) => Applying(s)'
BY DEF Others, Applying

LEMMA StepHalf == ResultInv /\ HalfInv /\ [Next]_vars => HalfInv'
<1> SUFFICES ASSUME ResultInv, HalfInv, [Next]_vars PROVE HalfInv'
  OBVIOUS
<1>t. TypeOK /\ faults \in Nat /\ \A c \in Clients : req[c] \in Request
  BY DEF ResultInv, TypeOK
<1>s. ASSUME HalfApplied' \subseteq HalfApplied, UNCHANGED faults PROVE HalfInv'
  BY <1>s, <1>t, SubsetCount DEF HalfInv
<1> USE DEF table, user, bounds
\* A step that leaves committed results alone and does not stop a writer.
<1>q. ASSUME UNCHANGED <<attempts, ended, faults>>, NEW c \in Clients, Others(c),
             req[c].pc = "writing" => req'[c].pc = "writing" /\ req'[c].session = req[c].session
      PROVE  HalfInv'
  BY <1>q, <1>s, StillApplying, HalfAppliedStays
<1>1. ASSUME NEW s \in Sessions, Start(s) \/ Expires(s) PROVE HalfInv'
  <2>1. UNCHANGED <<attempts, ended, faults, req>>
    BY <1>1 DEF Start, Expires
  <2> QED BY <1>s, <2>1 DEF HalfApplied, Applying
<1>2. ASSUME NEW c \in Clients,
             \/ \E s \in Sessions, m \in Submissions : Submit(c, s, m)
             \/ ReadSession(c) \/ Check(c) \/ CreateAttempt(c) \/ MarkCompleted(c)
             \/ ReadEngagement(c) \/ ReadProgress(c)
      PROVE  HalfInv'
  <2>1. UNCHANGED <<attempts, ended, faults>> /\ Others(c) /\ req[c].pc # "writing"
    BY <1>2, <1>t DEF Submit, ReadSession, Check, CreateAttempt, MarkCompleted, ReadEngagement,
                      ReadProgress, Others, TypeOK
  <2> QED BY <1>q, <2>1
<1>3. ASSUME NEW c \in Clients,
             \/ AnswerPrior(c) \/ AnswerExisting(c) \/ Reject(c) \/ MarkExpired(c)
             \/ AlreadyCompleted(c) \/ Answer(c)
      PROVE  HalfInv'
  <2>1. UNCHANGED <<attempts, ended, faults>> /\ End(c) /\ req[c].pc # "writing"
    BY <1>3 DEF AnswerPrior, AnswerExisting, Replay, Reject, MarkExpired, AlreadyCompleted, Answer
  <2> QED BY <1>q, <1>t, <2>1, EndEffect
<1>4. ASSUME NEW c \in Clients, FirstCommit(c) PROVE HalfInv'
  <2>1. /\ UNCHANGED <<ended, faults>> /\ Others(c)
        /\ req[c].pc = "progress" /\ req'[c].pc = "writing"
        /\ req'[c].session = req[c].session
    BY <1>4, <1>t DEF FirstCommit, Others, TypeOK, Request
  <2>2. \A s \in Sessions : attempts'[s] = attempts[s] \/ Applying(s)'
    <3> SUFFICES ASSUME NEW s \in Sessions, s # req[c].session PROVE attempts'[s] = attempts[s]
      BY <2>1 DEF Applying
    <3> QED BY <1>4, <1>t DEF FirstCommit, TypeOK
  <2>3. \A s \in Sessions : Applying(s) => Applying(s)'
    BY <2>1, StillApplying
  <2> QED BY <1>s, <2>1, <2>2, <2>3, HalfAppliedStays
<1>5. ASSUME NEW c \in Clients, LaterCommit(c) PROVE HalfInv'
  <2>1. UNCHANGED <<attempts, ended, faults, req>>
    BY <1>5 DEF LaterCommit
  <2> QED BY <1>s, <2>1 DEF HalfApplied, Applying
<1>6. ASSUME NEW c \in Clients, LastCommit(c) PROVE HalfInv'
  <2>1. /\ UNCHANGED <<attempts, faults>> /\ Others(c) /\ ended' = ended \cup {req[c].session}
    BY <1>6, <1>t DEF LastCommit, Events, Others, TypeOK
  <2>2. \A s \in Sessions : Applying(s) => Applying(s)' \/ s \in ended'
    BY <2>1 DEF Applying, Others
  <2> QED BY <1>s, <2>1, <2>2, HalfAppliedStays
<1>7. ASSUME NEW c \in Clients, Fault(c) PROVE HalfInv'
  <2> DEFINE X == req[c].session
  <2>1. UNCHANGED <<attempts, ended>> /\ Others(c) /\ faults' = faults + 1
    BY <1>7, <1>t, EndEffect DEF Fault
  <2>2. \A s \in Sessions \ {X} : Applying(s) => Applying(s)'
    BY <2>1 DEF Applying, Others
  <2>3. HalfApplied' \subseteq HalfApplied \cup {X}
    BY <2>1, <2>2 DEF HalfApplied
  <2>4. /\ IsFiniteSet(HalfApplied \cup {X}) /\ Cardinality(HalfApplied) \in Nat
        /\ Cardinality(HalfApplied \cup {X}) <= Cardinality(HalfApplied) + 1
    BY OneMoreCount DEF HalfInv
  <2>5. /\ IsFiniteSet(HalfApplied') /\ Cardinality(HalfApplied') \in Nat
        /\ Cardinality(HalfApplied \cup {X}) \in Nat
        /\ Cardinality(HalfApplied') <= Cardinality(HalfApplied \cup {X})
    BY <2>3, <2>4, SubsetCount
  <2> HIDE DEF X
  <2> QED BY <1>t, <2>1, <2>4, <2>5 DEF HalfInv
<1>8. CASE UNCHANGED vars
  <2>1. UNCHANGED <<attempts, ended, faults, req>>
    BY <1>8 DEF vars
  <2> QED BY <1>s, <2>1 DEF HalfApplied, Applying
<1> QED BY <1>1, <1>2, <1>3, <1>4, <1>5, <1>6, <1>7, <1>8 DEF Next, Evaluate

(***************************************************************************)
(* An evaluation is recorded in part only by a fault that cuts it off: the *)
(* sessions left half applied never outnumber the faults.                  *)
(***************************************************************************)
THEOREM HalfAppliedOnlyByFaults == Spec => []HalfAppliedNeedsFault
<1>1. Init => HalfInv
  <2> SUFFICES ASSUME Init PROVE HalfInv
    OBVIOUS
  <2>1. HalfApplied = {} /\ faults = 0
    BY DEF Init, HalfApplied
  <2> QED BY <2>1, FS_EmptySet DEF HalfInv
<1>2. HalfInv => HalfAppliedNeedsFault
  BY DEF HalfInv, HalfAppliedNeedsFault
<1> QED BY <1>1, <1>2, StepHalf, ResultInvariant, PTL DEF Spec

=============================================================================

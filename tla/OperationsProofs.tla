-------------------------- MODULE OperationsProofs ---------------------------
(***************************************************************************)
(* Proofs about the services that run the product: registries, limits,     *)
(* events, health and oversight; and the services of module Operations     *)
(* together.                                                               *)
(***************************************************************************)
EXTENDS Operations, ExperimentsProofs, SubscriptionsProofs, FiniteSetTheorems, WellFoundedInduction,
        TLAPS

-----------------------------------------------------------------------------
(***************************************************************************)
(* Rate limits and circuit breakers (Admission), for any number of         *)
(* callers.                                                                *)
(***************************************************************************)
\* What one request's call is at any time: a failure is an attempt, and an attempt that was
\* counted was not the last.
Calls == {q \in Call : q.failures <= q.tries /\ q.tries < Attempts}

AdmissionInv == AdmissionTypeOK /\ calls \in [Callers -> Calls]

-----------------------------------------------------------------------------
LEMMA NoCallIsCall == NoCall \in Calls /\ NoCall.at = "idle" /\ NoCall.tries = 0 /\ NoCall.failures = 0
BY AdmissionAssumption DEF NoCall, Call, CallKinds, Calls

\* What a request's call may become, whatever it asks for.
LEMMA NextCall ==
    ASSUME NEW q \in Calls
    PROVE  /\ Finished(q) \in Calls /\ Retry(q) \in Calls /\ AfterLog(q) \in Calls
           /\ Finished(q).at \in {"idle", "logging"}
           /\ Retry(q).at \in {q.at, "idle", "logging"}
           /\ \A a \in {"idle", "quota", "handler", "calling", "saving", "learning", "logging"} :
                  [q EXCEPT !.at = a] \in Calls
           /\ [q EXCEPT !.spent = 1] \in Calls /\ [q EXCEPT !.spent = 1].kind = q.kind
           /\ [q EXCEPT !.open = FALSE] \in Calls
           /\ [q EXCEPT !.at = "saving", !.tries = 0, !.failures = 0] \in Calls
<1>1. Finished(q) \in Calls /\ Finished(q).at \in {"idle", "logging"}
  BY NoCallIsCall DEF Finished, Calls, Call
<1>2. Retry(q) \in Calls /\ Retry(q).at \in {q.at, "idle", "logging"}
  BY <1>1, AdmissionAssumption DEF Retry, Calls, Call
<1>3. [q EXCEPT !.spent = 1] \in Calls /\ [q EXCEPT !.spent = 1].kind = q.kind
  <2>1. [q EXCEPT !.spent = 1] \in Call /\ [q EXCEPT !.spent = 1].kind = q.kind
    BY DEF Calls, Call
  <2>. QED  BY <2>1 DEF Calls, Call
<1>4. [q EXCEPT !.open = FALSE] \in Calls
  <2>1. [q EXCEPT !.open = FALSE] \in Call
    BY DEF Calls, Call
  <2>. QED  BY <2>1 DEF Calls, Call
<1>5. [q EXCEPT !.at = "saving", !.tries = 0, !.failures = 0] \in Calls
  <2>. DEFINE r == [q EXCEPT !.at = "saving", !.tries = 0, !.failures = 0]
  <2>1. 0 \in 0 .. Attempts /\ 0 <= 0 /\ 0 < Attempts
    BY AdmissionAssumption
  <2>2. r \in Call /\ r.failures = 0 /\ r.tries = 0
    BY <2>1, Zenon DEF Calls, Call
  <2>. QED  BY <2>1, <2>2 DEF Calls
<1>. QED  BY <1>1, <1>2, <1>3, <1>4, <1>5, NoCallIsCall DEF AfterLog, Calls, Call

\* The next attempt after a failure, which may open the breaker.
LEMMA FailedCall ==
    ASSUME NEW q \in Calls, NEW b \in BOOLEAN, NEW r, r = [q EXCEPT !.failures = q.failures + 1, !.open = b]
    PROVE  Retry(r) \in Calls /\ Retry(r).at \in {q.at, "idle", "logging"}
<1>1. /\ r.at = q.at /\ r.kind = q.kind /\ r.phrase = q.phrase /\ r.tries = q.tries /\ r.failures = q.failures + 1
      /\ r.open = b /\ r.spent = q.spent
      /\ r = [at |-> q.at, kind |-> q.kind, phrase |-> q.phrase, tries |-> q.tries, failures |-> q.failures + 1,
              open |-> b, spent |-> q.spent]
  BY DEF Calls, Call
<1>2. Finished(r) \in Calls /\ Finished(r).at \in {"idle", "logging"}
  BY <1>1, NoCallIsCall DEF Finished, Calls, Call
<1>3. CASE q.tries + 1 < Attempts
  <2>1. Retry(r) = [at |-> q.at, kind |-> q.kind, phrase |-> q.phrase, tries |-> q.tries + 1,
                    failures |-> q.failures + 1, open |-> b, spent |-> q.spent]
    BY <1>1, <1>3 DEF Retry
  <2>2. q.tries + 1 \in 0 .. Attempts /\ q.failures + 1 \in 0 .. Attempts /\ q.failures + 1 <= q.tries + 1
    BY <1>3, AdmissionAssumption DEF Calls, Call
  <2>3. Retry(r) \in Call
    BY <2>1, <2>2 DEF Calls, Call
  <2>. QED  BY <1>3, <2>1, <2>2, <2>3 DEF Calls
<1>4. CASE ~(q.tries + 1 < Attempts)
  BY <1>1, <1>2, <1>4 DEF Retry
<1>. QED  BY <1>3, <1>4

\* What is recorded of what was paid for stays well-typed.
LEMMA PaidIsTyped ==
    ASSUME NEW f \in PaidFor
    PROVE  /\ \A p \in Phrases : /\ [f EXCEPT !.raced = @ \cup {p}] \in PaidFor
                                 /\ [f EXCEPT !.unsaved = @ \cup {p}] \in PaidFor
                                 /\ [f EXCEPT !.translated[p] = @ + 1] \in PaidFor
                                 /\ [f EXCEPT !.translated[p] = @ + 1, !.lost = @ \cup {p}] \in PaidFor
           /\ \A i \in Items : /\ [f EXCEPT !.charged[i] = @ + 1, !.jobRows = @ + 1] \in PaidFor
                               /\ [f EXCEPT !.late[i] = @ + 1] \in PaidFor
                               /\ [f EXCEPT !.redelivered = @ \cup {i}] \in PaidFor
           /\ [f EXCEPT !.jobRows = 0] \in PaidFor
<1>1. \A p \in Phrases : [f EXCEPT !.raced = @ \cup {p}] \in PaidFor /\ [f EXCEPT !.unsaved = @ \cup {p}] \in PaidFor
  BY DEF PaidFor
<1>2. \A p \in Phrases : [f EXCEPT !.translated[p] = @ + 1] \in PaidFor
  BY DEF PaidFor
<1>3. ASSUME NEW p \in Phrases PROVE [f EXCEPT !.translated[p] = @ + 1, !.lost = @ \cup {p}] \in PaidFor
  <2>1. f.translated[p] + 1 \in Nat /\ f.lost \cup {p} \in SUBSET Phrases
    BY DEF PaidFor
  <2>2. [f.translated EXCEPT ![p] = @ + 1] \in [Phrases -> Nat]
    BY <2>1 DEF PaidFor
  <2>. QED  BY <2>1, <2>2, Zenon DEF PaidFor
<1>4. ASSUME NEW i \in Items PROVE [f EXCEPT !.charged[i] = @ + 1, !.jobRows = @ + 1] \in PaidFor
  <2>1. f.jobRows + 1 \in Nat /\ f.charged[i] + 1 \in Nat
    BY DEF PaidFor
  <2>2. [f.charged EXCEPT ![i] = @ + 1] \in [Items -> Nat]
    BY <2>1 DEF PaidFor
  <2>. QED  BY <2>1, <2>2, Zenon DEF PaidFor
<1>5. \A i \in Items : [f EXCEPT !.late[i] = @ + 1] \in PaidFor /\ [f EXCEPT !.redelivered = @ \cup {i}] \in PaidFor
  BY DEF PaidFor
<1>6. [f EXCEPT !.jobRows = 0] \in PaidFor
  BY DEF PaidFor
<1>. QED  BY <1>1, <1>2, <1>3, <1>4, <1>5, <1>6


LEMMA AdmissionStarts == AdmissionInit => AdmissionInv
<1>1. NoCall \in Call
  BY NoCallIsCall DEF Calls
<1>. QED  BY <1>1, NoCallIsCall, AdmissionAssumption DEF AdmissionInit, AdmissionInv, AdmissionTypeOK, Job, PaidFor

\* One request's call becomes r, and what else a request changes keeps its type.
LEMMA OneCall ==
    ASSUME AdmissionInv, NEW c \in Callers, NEW r \in Calls, calls' = [calls EXCEPT ![c] = r],
           bucket' \in Nat, usage' \in [rows : Nat, tokens : Nat], translations' \subseteq Phrases,
           jobs' \in [Items -> Job], arrivals' \in Nat, paid' \in PaidFor, UNCHANGED deadLetters
    PROVE  AdmissionInv'
<1>1. calls' \in [Callers -> Calls] /\ calls' \in [Callers -> Call]
  BY DEF AdmissionInv, Calls
<1>. QED  BY <1>1 DEF AdmissionInv, AdmissionTypeOK

LEMMA ServeKeepsInv == ASSUME AdmissionInv, NEW c \in Callers, Serve(c) PROVE AdmissionInv'
<1>. DEFINE q == calls[c]
<1>1. /\ bucket \in Nat /\ usage \in [rows : Nat, tokens : Nat] /\ calls \in [Callers -> Calls] /\ q \in Calls
      /\ translations \subseteq Phrases /\ jobs \in [Items -> Job] /\ arrivals \in Nat /\ paid \in PaidFor
  BY DEF AdmissionInv, AdmissionTypeOK
<1>2. q.spent \in 0 .. 1 /\ q.phrase \in Phrases /\ q.kind \in CallKinds
  BY <1>1 DEF Calls, Call
<1>3. Charged(q.spent) \in [rows : Nat, tokens : Nat]
  BY <1>1, <1>2 DEF Charged
<1>4. \A p \in Phrases : /\ [paid EXCEPT !.raced = @ \cup {p}] \in PaidFor
                         /\ [paid EXCEPT !.unsaved = @ \cup {p}] \in PaidFor
                         /\ [paid EXCEPT !.translated[p] = @ + 1] \in PaidFor
                         /\ [paid EXCEPT !.translated[p] = @ + 1, !.lost = @ \cup {p}] \in PaidFor
  BY <1>1, PaidIsTyped
<1>5. CASE Arrive(c)
  <2>1. PICK k \in CallKinds, p \in Phrases :
            /\ bucket' = IF k \in Heavy THEN bucket + 1 ELSE bucket
            /\ calls' = IF k \in Heavy /\ bucket' > PerWindow THEN calls
                        ELSE [calls EXCEPT ![c] = [NoCall EXCEPT !.at = "quota", !.kind = k, !.phrase = p]]
    BY <1>5 DEF Arrive
  <2>. DEFINE r == [NoCall EXCEPT !.at = "quota", !.kind = k, !.phrase = p]
  <2>2. r \in Calls
    BY NoCallIsCall DEF Calls, Call
  <2>3. bucket' \in Nat /\ arrivals' \in Nat
    BY <1>1, <1>5, <2>1 DEF Arrive
  <2>4. CASE calls' = calls
    <3>1. calls' = [calls EXCEPT ![c] = q]
      BY <1>1, <2>4
    <3>. QED  BY <1>1, <1>5, <2>3, <3>1, OneCall DEF Arrive
  <2>5. CASE calls' = [calls EXCEPT ![c] = r]
    BY <1>1, <1>5, <2>2, <2>3, <2>5, OneCall DEF Arrive
  <2>. QED  BY <2>1, <2>4, <2>5
<1>6. CASE EvaluateRequest(c)
  <2>. DEFINE r == IF Entitled THEN [q EXCEPT !.at = FirstStep(q.kind)] ELSE NoCall
  <2>1. FirstStep(q.kind) \in {"handler", "calling", "logging"}
    BY DEF FirstStep
  <2>2. r \in Calls
    BY <1>1, <2>1, NextCall, NoCallIsCall
  <2>3. calls' = [calls EXCEPT ![c] = r]
    BY <1>6 DEF EvaluateRequest
  <2>. QED  BY <1>1, <1>6, <2>2, <2>3, OneCall DEF EvaluateRequest
<1>7. CASE LogUsage(c)
  BY <1>1, <1>3, <1>7, NextCall, OneCall DEF LogUsage
<1>8. CASE LogFails(c)
  BY <1>1, <1>8, NextCall, OneCall DEF LogFails
<1>9. CASE LookUp(c)
  <2>. DEFINE r == [q EXCEPT !.at = IF Saved(q.phrase) THEN "learning" ELSE "calling"]
  <2>1. r \in Calls
    BY <1>1, NextCall
  <2>2. calls' = [calls EXCEPT ![c] = r]
    BY <1>9 DEF LookUp
  <2>3. paid' \in PaidFor
    BY <1>1, <1>2, <1>4, <1>9 DEF LookUp
  <2>. QED  BY <1>1, <1>9, <2>1, <2>2, <2>3, OneCall DEF LookUp
<1>10. CASE AttemptSucceeds(c)
  <2>. DEFINE r == IF q.kind = "translate" THEN [q EXCEPT !.at = "saving", !.tries = 0, !.failures = 0]
                   ELSE Finished([q EXCEPT !.spent = 1])
  <2>1. [q EXCEPT !.spent = 1] \in Calls /\ [q EXCEPT !.at = "saving", !.tries = 0, !.failures = 0] \in Calls
    BY <1>1, NextCall
  <2>2. r \in Calls
    BY <2>1, NextCall
  <2>3. calls' = [calls EXCEPT ![c] = r]
    BY <1>10 DEF AttemptSucceeds
  <2>4. paid' \in PaidFor
    BY <1>1, <1>2, <1>4, <1>10 DEF AttemptSucceeds
  <2>. QED  BY <1>1, <1>10, <2>2, <2>3, <2>4, OneCall DEF AttemptSucceeds
<1>11. CASE AttemptFails(c)
  <2>. DEFINE n == q.failures + 1
              r == [q EXCEPT !.failures = n, !.open = n >= BreakerThreshold]
  <2>1. (n >= BreakerThreshold) \in BOOLEAN
    OBVIOUS
  <2>2. Retry(r) \in Calls
    BY <1>1, <2>1, FailedCall
  <2>3. calls' = [calls EXCEPT ![c] = Retry(r)]
    BY <1>11 DEF AttemptFails
  <2>. HIDE DEF r
  <2>4. paid' \in PaidFor
    BY <1>1, <1>2, <1>4, <1>11 DEF AttemptFails
  <2>. QED  BY <1>1, <1>11, <2>2, <2>3, <2>4, OneCall DEF AttemptFails
<1>12. CASE AttemptBlocked(c)
  BY <1>1, <1>12, NextCall, OneCall DEF AttemptBlocked
<1>13. CASE BreakerElapses(c)
  <2>1. [q EXCEPT !.open = FALSE] \in Calls
    BY <1>1, NextCall
  <2>. QED  BY <1>1, <1>13, <2>1, OneCall DEF BreakerElapses
<1>14. CASE AnswerUnusable(c)
  BY <1>1, <1>14, NextCall, OneCall DEF AnswerUnusable
<1>15. CASE SaveTranslation(c)
  <2>1. [q EXCEPT !.at = "learning"] \in Calls
    BY <1>1, NextCall
  <2>. QED  BY <1>1, <1>2, <1>15, <2>1, OneCall DEF SaveTranslation
<1>16. CASE SaveFails(c)
  BY <1>1, <1>2, <1>4, <1>16, NextCall, OneCall DEF SaveFails
<1>17. CASE LearnWord(c)
  <2>1. jobs' \in [Items -> Job]
    BY <1>1, <1>17 DEF LearnWord, Job
  <2>. QED  BY <1>1, <1>17, <2>1, NextCall, OneCall DEF LearnWord
<1>. QED
  BY <1>5, <1>6, <1>7, <1>8, <1>9, <1>10, <1>11, <1>12, <1>13, <1>14, <1>15, <1>16, <1>17 DEF Serve

LEMMA JobKeepsInv == ASSUME AdmissionInv, NEW i \in Items, RunJob(i) PROVE AdmissionInv'
<1>1. /\ jobs \in [Items -> Job] /\ jobs[i] \in Job /\ usage \in [rows : Nat, tokens : Nat] /\ paid \in PaidFor
      /\ calls \in [Callers -> Calls]
  BY DEF AdmissionInv, AdmissionTypeOK
<1>2. UNCHANGED <<bucket, calls, translations, arrivals>>
  BY DEF RunJob, StartJob, EnrichRow, CommitJob, Acknowledge, JobRaises, JobFails, JobTimesOut, WorkerDies
<1>3. jobs' \in [Items -> Job]
  BY <1>1, AdmissionAssumption
      DEF RunJob, StartJob, EnrichRow, CommitJob, Acknowledge, JobRaises, JobFails, JobTimesOut, WorkerDies, Job,
          InWorker
<1>4. usage' \in [rows : Nat, tokens : Nat] /\ paid' \in PaidFor
  <2>1. Charged(1) \in [rows : Nat, tokens : Nat]
    BY <1>1 DEF Charged
  <2>2. CASE CommitJob(i)
    BY <1>1, <2>1, <2>2, PaidIsTyped DEF CommitJob
  <2>3. CASE JobRaises(i) \/ WorkerDies(i)
    BY <1>1, <2>3, PaidIsTyped DEF JobRaises, WorkerDies
  <2>. QED  BY <1>1, <2>2, <2>3 DEF RunJob, StartJob, EnrichRow, Acknowledge, JobFails, JobTimesOut
<1>5. deadLetters' \subseteq Items
  BY DEF RunJob, StartJob, EnrichRow, CommitJob, Acknowledge, JobRaises, JobFails, JobTimesOut, WorkerDies,
      AdmissionInv, AdmissionTypeOK
<1>. QED  BY <1>1, <1>2, <1>3, <1>4, <1>5 DEF AdmissionInv, AdmissionTypeOK

LEMMA StepKeepsAdmission == AdmissionInv /\ [AdmissionNext]_admissionVars => AdmissionInv'
<1>. SUFFICES ASSUME AdmissionInv, [AdmissionNext]_admissionVars PROVE AdmissionInv'
  OBVIOUS
<1>1. CASE WindowPasses
  BY <1>1 DEF WindowPasses, AdmissionInv, AdmissionTypeOK
<1>2. CASE UsageMidnight
  BY <1>2 DEF UsageMidnight, AdmissionInv, AdmissionTypeOK, PaidFor
<1>3. CASE UNCHANGED admissionVars
  BY <1>3 DEF admissionVars, AdmissionInv, AdmissionTypeOK
<1>. QED  BY <1>1, <1>2, <1>3, ServeKeepsInv, JobKeepsInv DEF AdmissionNext

\* Every variable of the admission keeps its type; the retries and failures of a call stay below
\* its attempts.
THEOREM AdmissionTypeCorrect == AdmissionSpec => []AdmissionTypeOK
<1>1. AdmissionInv => AdmissionTypeOK
  BY DEF AdmissionInv
<1>. QED  BY <1>1, AdmissionStarts, StepKeepsAdmission, PTL DEF AdmissionSpec

-----------------------------------------------------------------------------
\* A request that was admitted and is not in the log yet; a stream is logged before it is sent.
Admitted(q) ==
    \/ q.at \in {"handler", "saving", "learning", "logging"}
    \/ q.at = "calling" /\ q.kind # "stream"

InProgress == {c \in Callers : Admitted(calls[c])}

\* Who is admitted is counted with what the log says: the last one who was admitted found the
\* log below the limit, and there were no more requests in progress than there are callers.
AdmittedAreCounted ==
    /\ usage.rows + Cardinality(InProgress) <= RequestLimit + Cardinality(Callers) - 1 + paid.jobRows
    /\ RequestLimit = 0 => InProgress = {}

\* What a request's call becomes, as far as the log goes.
LEMMA WhoIsAdmitted ==
    ASSUME NEW q \in Calls
    PROVE  /\ ~Admitted(NoCall) /\ ~Admitted(AfterLog(q))
           /\ Admitted(q) => q.at # "idle" /\ q.at # "quota"
           /\ q.kind = "stream" => ~Admitted(Finished(q))
           /\ q.at = "calling" /\ Admitted(Retry(q)) => Admitted(q)
BY NoCallIsCall DEF Admitted, Finished, Retry, AfterLog, Calls, Call

\* The counts, when one request's call becomes r.
LEMMA InProgressChanges ==
    ASSUME AdmissionInv, NEW c \in Callers, NEW r, calls' = [calls EXCEPT ![c] = r]
    PROVE  /\ Cardinality(InProgress) \in Nat /\ Cardinality(Callers) \in Nat \ {0}
           /\ InProgress' \subseteq Callers /\ Cardinality(InProgress') \in 0 .. Cardinality(Callers)
           /\ (Admitted(r) => Admitted(calls[c])) =>
                  InProgress' \subseteq InProgress /\ Cardinality(InProgress') <= Cardinality(InProgress)
           /\ ~Admitted(r) /\ Admitted(calls[c]) =>
                  InProgress' \subseteq InProgress /\ Cardinality(InProgress') = Cardinality(InProgress) - 1
<1>1. \A d \in Callers : calls'[d] = IF d = c THEN r ELSE calls[d]
  BY DEF AdmissionInv
<1>2. InProgress' = {d \in Callers : Admitted(calls'[d])}
  BY Zenon DEF InProgress, Admitted
<1>3. IsFiniteSet(InProgress) /\ Cardinality(InProgress) \in Nat /\ Cardinality(Callers) \in Nat \ {0}
  BY AdmissionAssumption, FS_Subset, FS_CardinalityType, FS_EmptySet DEF InProgress
<1>4. InProgress' \subseteq Callers
  BY <1>2
<1>5. Cardinality(InProgress') \in 0 .. Cardinality(Callers)
  BY <1>3, <1>4, AdmissionAssumption, FS_Subset, FS_CardinalityType
<1>6. ASSUME Admitted(r) => Admitted(calls[c])
      PROVE  InProgress' \subseteq InProgress /\ Cardinality(InProgress') <= Cardinality(InProgress)
  <2>1. InProgress' \subseteq InProgress
    BY <1>1, <1>2, <1>6 DEF InProgress
  <2>. QED  BY <1>3, <2>1, FS_Subset
<1>7. ASSUME ~Admitted(r), Admitted(calls[c])
      PROVE  InProgress' \subseteq InProgress /\ Cardinality(InProgress') = Cardinality(InProgress) - 1
  <2>1. InProgress' = InProgress \ {c} /\ c \in InProgress
    BY <1>1, <1>2, <1>7 DEF InProgress
  <2>. QED  BY <1>3, <2>1, FS_RemoveElement
<1>. QED  BY <1>3, <1>4, <1>5, <1>6, <1>7

\* A request is admitted while the log is below the limit, leaves with a row in the log, or goes on.
LEMMA ServeIsCounted ==
    ASSUME AdmissionInv, NEW c \in Callers, Serve(c)
    PROVE  \E r : /\ calls' = [calls EXCEPT ![c] = r] /\ paid'.jobRows = paid.jobRows
                  /\ \/ usage' = usage /\ usage.rows < RequestLimit
                     \/ usage'.rows = usage.rows + 1 /\ Admitted(calls[c]) /\ ~Admitted(r)
                     \/ usage' = usage /\ (Admitted(r) => Admitted(calls[c]))
<1>. DEFINE q == calls[c]
            Counted(r) == /\ calls' = [calls EXCEPT ![c] = r] /\ paid'.jobRows = paid.jobRows
                          /\ \/ usage' = usage /\ usage.rows < RequestLimit
                             \/ usage'.rows = usage.rows + 1 /\ Admitted(q) /\ ~Admitted(r)
                             \/ usage' = usage /\ (Admitted(r) => Admitted(q))
<1>1. calls \in [Callers -> Calls] /\ q \in Calls /\ paid \in PaidFor /\ usage \in [rows : Nat, tokens : Nat]
  BY DEF AdmissionInv, AdmissionTypeOK
<1>2. UNCHANGED paid => paid'.jobRows = paid.jobRows
  OBVIOUS
<1>3. /\ \A p \in Phrases : /\ [paid EXCEPT !.raced = @ \cup {p}].jobRows = paid.jobRows
                            /\ [paid EXCEPT !.unsaved = @ \cup {p}].jobRows = paid.jobRows
                            /\ [paid EXCEPT !.translated[p] = @ + 1].jobRows = paid.jobRows
                            /\ [paid EXCEPT !.translated[p] = @ + 1, !.lost = @ \cup {p}].jobRows = paid.jobRows
      /\ q.phrase \in Phrases
  BY <1>1 DEF PaidFor, Calls, Call
<1>4. CASE Arrive(c)
  <2>1. PICK k \in CallKinds, p \in Phrases :
            calls' = IF k \in Heavy /\ bucket' > PerWindow THEN calls
                     ELSE [calls EXCEPT ![c] = [NoCall EXCEPT !.at = "quota", !.kind = k, !.phrase = p]]
    BY <1>4 DEF Arrive
  <2>. DEFINE r == [NoCall EXCEPT !.at = "quota", !.kind = k, !.phrase = p]
  <2>2. ~Admitted(r)
    BY NoCallIsCall DEF Admitted, Calls, Call
  <2>3. calls = [calls EXCEPT ![c] = q]
    BY <1>1
  <2>4. Counted(q) \/ Counted(r)
    BY <1>4, <2>1, <2>2, <2>3 DEF Arrive
  <2>. QED  BY <2>4
<1>5. CASE EvaluateRequest(c)
  <2>. DEFINE r == IF Entitled THEN [q EXCEPT !.at = FirstStep(q.kind)] ELSE NoCall
  <2>1. Counted(r)
    <3>1. CASE Entitled
      BY <1>5, <3>1 DEF EvaluateRequest, Entitled
    <3>2. CASE ~Entitled
      BY <1>1, <1>5, <3>2, WhoIsAdmitted DEF EvaluateRequest
    <3>. QED  BY <3>1, <3>2
  <2>. QED  BY <2>1
<1>6. CASE LogUsage(c)
  <2>1. usage'.rows = usage.rows + 1
    BY <1>6 DEF LogUsage, Charged
  <2>2. Admitted(q) /\ ~Admitted(AfterLog(q))
    BY <1>1, <1>6, WhoIsAdmitted DEF LogUsage, Admitted
  <2>. QED  BY <1>6, <2>1, <2>2 DEF LogUsage
<1>7. CASE LogFails(c)
  BY <1>1, <1>7, WhoIsAdmitted DEF LogFails
<1>8. CASE LookUp(c)
  <2>1. Admitted(q)
    BY <1>8 DEF LookUp, Admitted
  <2>2. paid'.jobRows = paid.jobRows
    BY <1>1, <1>3, <1>8 DEF LookUp
  <2>. QED  BY <1>8, <2>1, <2>2 DEF LookUp
<1>9. CASE AttemptSucceeds(c)
  <2>. DEFINE s == [q EXCEPT !.spent = 1]
              r == IF q.kind = "translate" THEN [q EXCEPT !.at = "saving", !.tries = 0, !.failures = 0] ELSE Finished(s)
  <2>1. s \in Calls /\ s.kind = q.kind /\ q.at = "calling"
    BY <1>1, <1>9, NextCall DEF AttemptSucceeds
  <2>2. Admitted(r) => Admitted(q)
    BY <2>1, WhoIsAdmitted DEF Admitted
  <2>3. paid'.jobRows = paid.jobRows
    BY <1>1, <1>3, <1>9 DEF AttemptSucceeds
  <2>4. calls' = [calls EXCEPT ![c] = r] /\ usage' = usage
    BY <1>9 DEF AttemptSucceeds
  <2>. QED  BY <2>2, <2>3, <2>4
<1>10. CASE AttemptFails(c)
  <2>. DEFINE n == q.failures + 1
              s == [q EXCEPT !.failures = n, !.open = n >= BreakerThreshold]
  <2>1. s.kind = q.kind /\ q.at = "calling" /\ s.at = "calling"
    BY <1>1, <1>10 DEF AttemptFails, Calls, Call
  <2>2. q.kind = "stream" => ~Admitted(Retry(s))
    BY <2>1, NoCallIsCall DEF Retry, Finished, Admitted
  <2>3. Admitted(Retry(s)) => Admitted(q)
    BY <2>1, <2>2 DEF Admitted
  <2>4. calls' = [calls EXCEPT ![c] = Retry(s)] /\ usage' = usage
    BY <1>10 DEF AttemptFails
  <2>5. paid'.jobRows = paid.jobRows
    BY <1>3, <1>10 DEF AttemptFails
  <2>. QED  BY <2>3, <2>4, <2>5
<1>11. CASE AttemptBlocked(c)
  BY <1>1, <1>11, WhoIsAdmitted DEF AttemptBlocked
<1>12. CASE BreakerElapses(c)
  <2>. DEFINE r == [q EXCEPT !.open = FALSE]
  <2>1. Admitted(r) => Admitted(q)
    BY <1>1 DEF Admitted, Calls, Call
  <2>2. calls' = [calls EXCEPT ![c] = r] /\ usage' = usage /\ paid' = paid
    BY <1>12 DEF BreakerElapses
  <2>. QED  BY <2>1, <2>2
<1>13. CASE AnswerUnusable(c)
  <2>1. Admitted(q)
    BY <1>13 DEF AnswerUnusable, Admitted
  <2>. QED  BY <1>13, <2>1 DEF AnswerUnusable
<1>14. CASE SaveTranslation(c)
  <2>1. Admitted(q)
    BY <1>14 DEF SaveTranslation, Admitted
  <2>. QED  BY <1>14, <2>1 DEF SaveTranslation
<1>15. CASE SaveFails(c)
  <2>1. Admitted(q)
    BY <1>15 DEF SaveFails, Admitted
  <2>. QED  BY <1>3, <1>15, <2>1 DEF SaveFails
<1>16. CASE LearnWord(c)
  <2>1. Admitted(q)
    BY <1>16 DEF LearnWord, Admitted
  <2>. QED  BY <1>16, <2>1 DEF LearnWord
<1>. QED
  BY <1>4, <1>5, <1>6, <1>7, <1>8, <1>9, <1>10, <1>11, <1>12, <1>13, <1>14, <1>15, <1>16 DEF Serve

LEMMA StepIsCounted == AdmissionInv /\ AdmittedAreCounted /\ [AdmissionNext]_admissionVars => AdmittedAreCounted'
<1>. SUFFICES ASSUME AdmissionInv, AdmittedAreCounted, [AdmissionNext]_admissionVars PROVE AdmittedAreCounted'
  OBVIOUS
<1>1. usage \in [rows : Nat, tokens : Nat] /\ usage.rows \in Nat /\ paid \in PaidFor /\ paid.jobRows \in Nat
  BY DEF AdmissionInv, AdmissionTypeOK, PaidFor
<1>2. RequestLimit \in Nat
  BY AdmissionAssumption
<1>3. IsFiniteSet(InProgress) /\ Cardinality(InProgress) \in 0 .. Cardinality(Callers) /\ Cardinality(Callers) \in Nat \ {0}
  BY AdmissionAssumption, FS_Subset, FS_CardinalityType, FS_EmptySet DEF InProgress
<1>4. UNCHANGED calls => InProgress' = InProgress
  BY DEF InProgress, Admitted
<1>5. ASSUME NEW c \in Callers, Serve(c) PROVE AdmittedAreCounted'
  <2>1. PICK r : /\ calls' = [calls EXCEPT ![c] = r] /\ paid'.jobRows = paid.jobRows
                 /\ \/ usage' = usage /\ usage.rows < RequestLimit
                    \/ usage'.rows = usage.rows + 1 /\ Admitted(calls[c]) /\ ~Admitted(r)
                    \/ usage' = usage /\ (Admitted(r) => Admitted(calls[c]))
    BY <1>5, ServeIsCounted
  <2>. DEFINE here == Cardinality(InProgress)
              next == Cardinality(InProgress')
  <2>2. /\ next \in 0 .. Cardinality(Callers)
        /\ (Admitted(r) => Admitted(calls[c])) => InProgress' \subseteq InProgress /\ next <= here
        /\ ~Admitted(r) /\ Admitted(calls[c]) => InProgress' \subseteq InProgress /\ next = here - 1
    BY <2>1, InProgressChanges
  <2>3. here \in Nat /\ next \in Nat
    BY <1>3, <2>2
  <2>. HIDE DEF here, next
  <2>4. /\ usage.rows + here <= RequestLimit + Cardinality(Callers) - 1 + paid.jobRows
        /\ RequestLimit = 0 => InProgress = {}
    BY DEF AdmittedAreCounted, here
  <2>5. /\ usage'.rows + next <= RequestLimit + Cardinality(Callers) - 1 + paid'.jobRows
        /\ RequestLimit = 0 => InProgress' = {}
    <3>1. CASE usage' = usage /\ usage.rows < RequestLimit
      BY <1>1, <1>2, <1>3, <2>1, <2>2, <3>1
    <3>2. CASE usage'.rows = usage.rows + 1 /\ Admitted(calls[c]) /\ ~Admitted(r)
      BY <1>1, <1>2, <1>3, <2>1, <2>2, <2>3, <2>4, <3>2
    <3>3. CASE usage' = usage /\ (Admitted(r) => Admitted(calls[c]))
      BY <1>1, <1>2, <1>3, <2>1, <2>2, <2>3, <2>4, <3>3
    <3>. QED  BY <2>1, <3>1, <3>2, <3>3
  <2>. QED  BY <2>5 DEF AdmittedAreCounted, next
<1>6. ASSUME NEW i \in Items, RunJob(i) PROVE AdmittedAreCounted'
  <2>1. UNCHANGED calls
    BY <1>6 DEF RunJob, StartJob, EnrichRow, CommitJob, Acknowledge, JobRaises, JobFails, JobTimesOut, WorkerDies
  <2>2. CASE CommitJob(i)
    <3>1. usage'.rows = usage.rows + 1 /\ paid'.jobRows = paid.jobRows + 1
      BY <1>1, <2>2 DEF CommitJob, Charged, PaidFor
    <3>. QED  BY <1>1, <1>2, <1>3, <1>4, <2>1, <3>1 DEF AdmittedAreCounted
  <2>3. CASE ~CommitJob(i)
    <3>1. usage' = usage /\ paid'.jobRows = paid.jobRows
      BY <1>1, <1>6, <2>3 DEF RunJob, StartJob, EnrichRow, Acknowledge, JobRaises, JobFails, JobTimesOut, WorkerDies,
          PaidFor
    <3>. QED  BY <1>4, <2>1, <3>1 DEF AdmittedAreCounted
  <2>. QED  BY <2>2, <2>3
<1>7. CASE WindowPasses
  BY <1>4, <1>7 DEF WindowPasses, AdmittedAreCounted
<1>8. CASE UsageMidnight
  <2>1. usage'.rows = 0 /\ paid'.jobRows = 0 /\ InProgress' = InProgress
    BY <1>1, <1>4, <1>8 DEF UsageMidnight, PaidFor
  <2>2. RequestLimit = 0 => Cardinality(InProgress) = 0
    BY FS_EmptySet DEF AdmittedAreCounted
  <2>. QED  BY <1>2, <1>3, <2>1, <2>2 DEF AdmittedAreCounted
<1>9. CASE UNCHANGED admissionVars
  BY <1>4, <1>9 DEF admissionVars, AdmittedAreCounted
<1>. QED  BY <1>5, <1>6, <1>7, <1>8, <1>9 DEF AdmissionNext

-----------------------------------------------------------------------------
\* A request that is at the provider for a phrase, or has its answer and has not saved it.
Translating(q, p) == q.at \in {"calling", "saving"} /\ q.kind = "translate" /\ q.phrase = p

\* Of a phrase that was never looked up by two requests at once and whose answers came and were saved,
\* there is one request under way at most, and it asks only when there is no answer yet.
OnceInFlight(p, cs, saved, n) ==
    /\ \A c, d \in Callers : Translating(cs[c], p) /\ Translating(cs[d], p) => c = d
    /\ n \in 0 .. 1
    /\ n = 1 => p \in saved \/ \E c \in Callers : Translating(cs[c], p) /\ cs[c].at = "saving"
    /\ \A c \in Callers : Translating(cs[c], p) /\ cs[c].at = "calling" => n = 0

TranslationsInFlight ==
    \A p \in Phrases \ (paid.raced \cup paid.lost \cup paid.unsaved) :
        OnceInFlight(p, calls, translations, paid.translated[p])

\* A job was charged once more than it raised when it had been charged, and only since its last try
\* began.
JobsCharged ==
    \A i \in Items :
        /\ paid.late[i] <= jobs[i].tries
        /\ i \notin paid.redelivered =>
               /\ paid.charged[i] <= paid.late[i] + 1
               /\ jobs[i].at \notin {"committed", "done", "failed"} => paid.charged[i] <= paid.late[i]

LEMMA JobsStayCharged == AdmissionInv /\ JobsCharged /\ [AdmissionNext]_admissionVars => JobsCharged'
<1>. SUFFICES ASSUME AdmissionInv, JobsCharged, [AdmissionNext]_admissionVars PROVE JobsCharged'
  OBVIOUS
<1>1. /\ jobs \in [Items -> Job] /\ paid \in PaidFor /\ paid.charged \in [Items -> Nat] /\ paid.late \in [Items -> Nat]
      /\ paid.redelivered \subseteq Items
      /\ \A i \in Items : jobs[i] \in Job /\ jobs[i].tries \in Nat
  BY AdmissionAssumption DEF AdmissionInv, AdmissionTypeOK, PaidFor, Job
<1>2. ASSUME paid'.charged = paid.charged, paid'.late = paid.late, paid'.redelivered = paid.redelivered,
             \A i \in Items : jobs'[i].tries = jobs[i].tries
                              /\ (jobs[i].at \in {"committed", "done", "failed"} =>
                                      jobs'[i].at \in {"committed", "done", "failed"})
      PROVE  JobsCharged'
  BY <1>1, <1>2 DEF JobsCharged
<1>3. ASSUME NEW c \in Callers, Serve(c) PROVE JobsCharged'
  <2>1. paid'.charged = paid.charged /\ paid'.late = paid.late /\ paid'.redelivered = paid.redelivered
    BY <1>1, <1>3 DEF Serve, Arrive, EvaluateRequest, LogUsage, LogFails, LookUp, SaveTranslation, SaveFails, LearnWord,
        AttemptSucceeds, AttemptFails, AttemptBlocked, BreakerElapses, AnswerUnusable, PaidFor
  <2>2. \A i \in Items : jobs'[i].tries = jobs[i].tries /\ (jobs'[i] = jobs[i] \/ jobs[i].at = "none")
    <3>1. CASE LearnWord(c)
      BY <1>1, <3>1 DEF LearnWord, Job
    <3>2. CASE ~LearnWord(c)
      <4>1. UNCHANGED jobs
        BY <1>3, <3>2 DEF Serve, Arrive, EvaluateRequest, LogUsage, LogFails, LookUp, SaveTranslation, SaveFails,
            AttemptSucceeds, AttemptFails, AttemptBlocked, BreakerElapses, AnswerUnusable
      <4>. QED  BY <4>1
    <3>. QED  BY <3>1, <3>2
  <2>. QED  BY <1>2, <2>1, <2>2
<1>4. ASSUME NEW i \in Items, RunJob(i) PROVE JobsCharged'
  <2>1. CASE CommitJob(i)
    <3>1. /\ paid'.charged = [paid.charged EXCEPT ![i] = @ + 1] /\ paid'.late = paid.late
          /\ paid'.redelivered = paid.redelivered
          /\ jobs' = [jobs EXCEPT ![i].at = "committed"] /\ jobs[i].at = "enriched"
      BY <1>1, <2>1 DEF CommitJob, PaidFor
    <3>2. jobs'[i].at = "committed" /\ jobs'[i].tries = jobs[i].tries /\ \A j \in Items : j # i => jobs'[j] = jobs[j]
      BY <1>1, <3>1 DEF Job
    <3>. QED  BY <1>1, <3>1, <3>2 DEF JobsCharged
  <2>2. CASE JobRaises(i)
    <3>1. /\ paid'.charged = paid.charged /\ paid'.redelivered = paid.redelivered
          /\ paid'.late = IF jobs[i].at = "committed" THEN [paid.late EXCEPT ![i] = @ + 1] ELSE paid.late
          /\ jobs[i].at \in {"running", "enriched", "committed"}
      BY <1>1, <2>2 DEF JobRaises, InWorker, PaidFor
    <3>2. jobs'[i].tries = jobs[i].tries + 1 /\ \A j \in Items : j # i => jobs'[j] = jobs[j]
      BY <1>1, <2>2 DEF JobRaises, Job
    <3>. QED  BY <1>1, <3>1, <3>2 DEF JobsCharged
  <2>3. CASE WorkerDies(i)
    <3>1. /\ paid'.charged = paid.charged /\ paid'.late = paid.late /\ paid'.redelivered = paid.redelivered \cup {i}
      BY <1>1, <2>3 DEF WorkerDies, PaidFor
    <3>2. jobs'[i].tries = jobs[i].tries /\ \A j \in Items : j # i => jobs'[j] = jobs[j]
      BY <1>1, <2>3 DEF WorkerDies, Job
    <3>. QED  BY <1>1, <3>1, <3>2 DEF JobsCharged
  <2>4. CASE StartJob(i) \/ EnrichRow(i) \/ Acknowledge(i) \/ JobFails(i) \/ JobTimesOut(i)
    <3>1. UNCHANGED paid
      BY <2>4 DEF StartJob, EnrichRow, Acknowledge, JobFails, JobTimesOut
    <3>2. PICK a \in {"running", "enriched", "done", "failed"} :
              /\ jobs' = [jobs EXCEPT ![i] = [jobs[i] EXCEPT !.at = a]]
              /\ jobs[i].at \in {"queued", "running"} \/ a \in {"done", "failed"}
      BY <2>4 DEF StartJob, EnrichRow, Acknowledge, JobFails, JobTimesOut
    <3>3. /\ jobs'[i].tries = jobs[i].tries /\ jobs'[i].at = a
          /\ \A j \in Items : j # i => jobs'[j] = jobs[j]
      BY <1>1, <3>2 DEF Job
    <3>. QED  BY <1>1, <1>2, <3>1, <3>2, <3>3
  <2>. QED  BY <1>4, <2>1, <2>2, <2>3, <2>4 DEF RunJob
<1>5. CASE WindowPasses \/ UsageMidnight \/ UNCHANGED admissionVars
  <2>1. /\ paid'.charged = paid.charged /\ paid'.late = paid.late /\ paid'.redelivered = paid.redelivered
        /\ UNCHANGED jobs
    BY <1>1, <1>5 DEF WindowPasses, UsageMidnight, admissionVars, PaidFor
  <2>. QED  BY <1>2, <2>1
<1>. QED  BY <1>3, <1>4, <1>5 DEF AdmissionNext

\* What a request that neither looks up, nor is answered, nor saves does to the phrase it is at: it
\* stays there or leaves it.
LEMMA OtherCalls ==
    ASSUME AdmissionInv, NEW c \in Callers, Serve(c),
           ~LookUp(c), ~(AttemptSucceeds(c) /\ calls[c].kind = "translate"), ~SaveTranslation(c), ~SaveFails(c)
    PROVE  /\ UNCHANGED translations
           /\ paid' = paid \/ \E p \in Phrases : paid' = [paid EXCEPT !.translated[p] = @ + 1, !.lost = @ \cup {p}]
           /\ calls[c].at # "saving"
           /\ \E r : /\ calls' = [calls EXCEPT ![c] = r]
                     /\ \A p \in Phrases : Translating(r, p) => Translating(calls[c], p) /\ r.at = calls[c].at
<1>. DEFINE q == calls[c]
            Leaves(r) == \A p \in Phrases : Translating(r, p) => Translating(q, p) /\ r.at = q.at
<1>1. calls \in [Callers -> Calls] /\ q \in Calls
  BY DEF AdmissionInv
<1>2. /\ UNCHANGED translations
      /\ paid' = paid \/ \E p \in Phrases : paid' = [paid EXCEPT !.translated[p] = @ + 1, !.lost = @ \cup {p}]
      /\ q.at # "saving"
  <2>1. CASE AttemptFails(c)
    BY <1>1, <2>1 DEF AttemptFails, Calls, Call
  <2>. QED  BY <2>1 DEF Serve, Arrive, EvaluateRequest, LogUsage, LogFails, LearnWord, AttemptSucceeds, AttemptBlocked,
      BreakerElapses, AnswerUnusable
<1>3. \A r : r.at \notin {"calling", "saving"} \/ r.kind # "translate" => Leaves(r)
  BY DEF Translating
<1>4. Leaves(q) /\ Leaves(NoCall) /\ Leaves(AfterLog(q)) /\ Leaves(Finished(q))
  <2>1. NoCall.at = "idle" /\ Finished(q).at \in {"idle", "logging"}
    BY <1>1, NoCallIsCall, NextCall
  <2>2. AfterLog(q).at = "idle" \/ AfterLog(q).kind = "stream"
    BY <1>1, <2>1 DEF AfterLog, Calls, Call
  <2>. QED  BY <1>3, <2>1, <2>2
<1>5. Leaves(Retry(q))
  BY <1>1, <1>4 DEF Retry, Translating, Calls, Call
<1>6. CASE Arrive(c)
  <2>1. PICK k \in CallKinds, p \in Phrases :
            calls' = IF k \in Heavy /\ bucket' > PerWindow THEN calls
                     ELSE [calls EXCEPT ![c] = [NoCall EXCEPT !.at = "quota", !.kind = k, !.phrase = p]]
    BY <1>6 DEF Arrive
  <2>. DEFINE r == [NoCall EXCEPT !.at = "quota", !.kind = k, !.phrase = p]
  <2>2. r.at = "quota" /\ calls = [calls EXCEPT ![c] = q]
    BY <1>1, NoCallIsCall DEF Calls, Call
  <2>. HIDE DEF r
  <2>3. Leaves(r)
    BY <1>3, <2>2
  <2>. HIDE DEF Leaves
  <2>4. \E s : calls' = [calls EXCEPT ![c] = s] /\ Leaves(s)
    BY <1>4, <2>1, <2>2, <2>3 DEF r
  <2>. QED  BY <1>2, <2>4 DEF Leaves
<1>7. CASE EvaluateRequest(c)
  <2>. DEFINE r == [q EXCEPT !.at = FirstStep(q.kind)]
  <2>1. r.at \in {"handler", "calling", "logging"} /\ (r.at = "calling" => r.kind = "chat")
    BY <1>1 DEF FirstStep, Calls, Call
  <2>2. calls' = [calls EXCEPT ![c] = IF Entitled THEN r ELSE NoCall]
    BY <1>7 DEF EvaluateRequest
  <2>. HIDE DEF r
  <2>3. Leaves(r)
    BY <1>3, <2>1
  <2>. HIDE DEF Leaves
  <2>. QED  BY <1>2, <1>4, <2>2, <2>3 DEF Leaves
<1>8. CASE AttemptSucceeds(c)
  <2>. DEFINE s == [q EXCEPT !.spent = 1]
  <2>1. calls' = [calls EXCEPT ![c] = Finished(s)]
    BY <1>8 DEF AttemptSucceeds
  <2>2. Finished(s).at \in {"idle", "logging"}
    BY <1>1, NextCall
  <2>3. Leaves(Finished(s))
    BY <1>3, <2>2
  <2>. QED  BY <1>2, <2>1, <2>3
<1>9. CASE AttemptFails(c)
  <2>. DEFINE n == q.failures + 1
              s == [q EXCEPT !.failures = n, !.open = n >= BreakerThreshold]
  <2>1. s.at = q.at /\ s.kind = q.kind /\ s.phrase = q.phrase
        /\ [s EXCEPT !.tries = @ + 1].at = q.at /\ [s EXCEPT !.tries = @ + 1].kind = q.kind
        /\ [s EXCEPT !.tries = @ + 1].phrase = q.phrase
    BY <1>1 DEF Calls, Call
  <2>2. (n >= BreakerThreshold) \in BOOLEAN
    OBVIOUS
  <2>3. Retry(s).at \in {q.at, "idle", "logging"}
    BY <1>1, <2>2, FailedCall
  <2>4. calls' = [calls EXCEPT ![c] = Retry(s)]
    BY <1>9 DEF AttemptFails
  <2>. HIDE DEF s
  <2>5. Finished(s).at \in {"idle", "logging"}
    BY NoCallIsCall DEF Finished, Calls, Call
  <2>6. Leaves(Retry(s))
    BY <2>1, <2>5 DEF Retry, Translating
  <2>. QED  BY <1>2, <2>4, <2>6
<1>10. CASE BreakerElapses(c)
  <2>. DEFINE r == [q EXCEPT !.open = FALSE]
  <2>1. r.at = q.at /\ r.kind = q.kind /\ r.phrase = q.phrase /\ calls' = [calls EXCEPT ![c] = r]
    BY <1>1, <1>10 DEF BreakerElapses, Calls, Call
  <2>. HIDE DEF r
  <2>. QED  BY <1>2, <2>1 DEF Translating
<1>11. CASE LogUsage(c) \/ LogFails(c) \/ AttemptBlocked(c) \/ AnswerUnusable(c) \/ LearnWord(c)
  <2>. HIDE DEF Leaves
  <2>1. \E r : calls' = [calls EXCEPT ![c] = r] /\ Leaves(r)
    BY <1>4, <1>5, <1>11 DEF LogUsage, LogFails, AttemptBlocked, AnswerUnusable, LearnWord
  <2>. QED  BY <1>2, <2>1 DEF Leaves
<1>. QED  BY <1>6, <1>7, <1>8, <1>9, <1>10, <1>11 DEF Serve

LEMMA TranslationsStayInFlight ==
    AdmissionInv /\ TranslationsInFlight /\ [AdmissionNext]_admissionVars => TranslationsInFlight'
<1>. SUFFICES ASSUME AdmissionInv, TranslationsInFlight, [AdmissionNext]_admissionVars, NEW p \in Phrases,
                     p \notin paid'.raced \cup paid'.lost \cup paid'.unsaved
              PROVE  OnceInFlight(p, calls', translations', paid'.translated[p])
  BY Zenon DEF TranslationsInFlight, OnceInFlight, Translating
<1>. DEFINE SameForIt == p \notin paid.raced \cup paid.lost \cup paid.unsaved /\ paid'.translated[p] = paid.translated[p]
<1>1. /\ calls \in [Callers -> Calls] /\ paid \in PaidFor /\ paid.translated \in [Phrases -> Nat]
      /\ paid.raced \subseteq Phrases /\ paid.lost \subseteq Phrases /\ paid.unsaved \subseteq Phrases
      /\ \A c \in Callers : calls[c] \in Calls /\ calls[c].phrase \in Phrases
  BY DEF AdmissionInv, AdmissionTypeOK, PaidFor, Calls, Call
<1>2. ASSUME p \notin paid.raced \cup paid.lost \cup paid.unsaved
      PROVE  OnceInFlight(p, calls, translations, paid.translated[p])
  BY <1>2 DEF TranslationsInFlight
<1>3. ASSUME NEW c \in Callers, Serve(c),
             ~LookUp(c), ~(AttemptSucceeds(c) /\ calls[c].kind = "translate"), ~SaveTranslation(c), ~SaveFails(c)
      PROVE  /\ SameForIt /\ translations' = translations
             /\ \A d \in Callers : /\ Translating(calls'[d], p) => Translating(calls[d], p) /\ calls'[d].at = calls[d].at
                                   /\ calls[d].at = "saving" => calls'[d] = calls[d]
  <2>1. CASE paid' = paid
    BY <1>1, <1>3, <2>1, OtherCalls
  <2>2. ASSUME NEW o \in Phrases, paid' = [paid EXCEPT !.translated[o] = @ + 1, !.lost = @ \cup {o}]
        PROVE  SameForIt
    <3>1. /\ paid'.raced = paid.raced /\ paid'.unsaved = paid.unsaved /\ paid'.lost = paid.lost \cup {o}
          /\ paid'.translated = [paid.translated EXCEPT ![o] = @ + 1]
      BY <1>1, <2>2 DEF PaidFor
    <3>. QED  BY <1>1, <3>1
  <2>. QED  BY <1>1, <1>3, <2>1, <2>2, OtherCalls
<1>4. ASSUME NEW c \in Callers, LookUp(c), Saved(calls[c].phrase)
      PROVE  /\ SameForIt /\ translations' = translations
             /\ \A d \in Callers : /\ Translating(calls'[d], p) => Translating(calls[d], p) /\ calls'[d].at = calls[d].at
                                   /\ calls[d].at = "saving" => calls'[d] = calls[d]
  <2>. DEFINE r == [calls[c] EXCEPT !.at = "learning"]
  <2>1. r.at = "learning" /\ calls' = [calls EXCEPT ![c] = r] /\ calls[c].at = "handler"
    BY <1>1, <1>4 DEF LookUp, Calls, Call
  <2>. HIDE DEF r
  <2>. QED  BY <1>1, <1>4, <2>1 DEF LookUp, Translating
<1>5. ASSUME SameForIt, translations' = translations,
             \A d \in Callers : /\ Translating(calls'[d], p) => Translating(calls[d], p) /\ calls'[d].at = calls[d].at
                                /\ calls[d].at = "saving" => calls'[d] = calls[d]
      PROVE  OnceInFlight(p, calls', translations', paid'.translated[p])
  BY <1>2, <1>5 DEF OnceInFlight
<1>6. ASSUME NEW c \in Callers, LookUp(c), ~Saved(calls[c].phrase)
      PROVE  OnceInFlight(p, calls', translations', paid'.translated[p])
  <2>. DEFINE r == [calls[c] EXCEPT !.at = "calling"]
  <2>1. /\ r.phrase = calls[c].phrase /\ calls' = [calls EXCEPT ![c] = r] /\ calls[c].at = "handler"
        /\ translations' = translations
    BY <1>1, <1>6 DEF LookUp, Calls, Call
  <2>2. /\ paid'.translated = paid.translated /\ paid'.unsaved = paid.unsaved /\ paid'.lost = paid.lost
        /\ paid.raced \subseteq paid'.raced
        /\ (\E d \in Callers \ {c} : Translating(calls[d], calls[c].phrase)) => calls[c].phrase \in paid'.raced
    BY <1>1, <1>6 DEF LookUp, Translating, PaidFor
  <2>. HIDE DEF r
  <2>3. p \notin paid.raced \cup paid.lost \cup paid.unsaved
    BY <2>2
  <2>4. \A d \in Callers : d # c => calls'[d] = calls[d]
    BY <1>1, <2>1
  <2>5. calls'[c] = r /\ ~Translating(calls[c], p)
    BY <1>1, <2>1 DEF Translating
  <2>6. CASE p = calls[c].phrase
    <3>1. \A d \in Callers : ~Translating(calls[d], p)
      BY <2>2, <2>5, <2>6
    <3>2. paid.translated[p] = 0
      BY <1>1, <1>2, <1>6, <2>3, <2>6, <3>1 DEF Saved, OnceInFlight
    <3>. QED  BY <2>1, <2>2, <2>4, <2>5, <3>1, <3>2 DEF OnceInFlight
  <2>7. CASE p # calls[c].phrase
    <3>1. ~Translating(r, p)
      BY <2>1, <2>7 DEF Translating
    <3>. QED  BY <1>2, <2>1, <2>2, <2>3, <2>4, <2>5, <3>1 DEF OnceInFlight
  <2>. QED  BY <2>6, <2>7
<1>7. ASSUME NEW c \in Callers, AttemptSucceeds(c), calls[c].kind = "translate"
      PROVE  OnceInFlight(p, calls', translations', paid'.translated[p])
  <2>. DEFINE r == [calls[c] EXCEPT !.at = "saving", !.tries = 0, !.failures = 0]
  <2>1. /\ r.phrase = calls[c].phrase /\ r.at = "saving" /\ r.kind = "translate"
        /\ calls' = [calls EXCEPT ![c] = r] /\ calls[c].at = "calling"
        /\ translations' = translations
    BY <1>1, <1>7 DEF AttemptSucceeds, Calls, Call
  <2>2. /\ paid'.raced = paid.raced /\ paid'.unsaved = paid.unsaved /\ paid'.lost = paid.lost
        /\ paid'.translated = [paid.translated EXCEPT ![calls[c].phrase] = @ + 1]
    BY <1>1, <1>7 DEF AttemptSucceeds, PaidFor
  <2>. HIDE DEF r
  <2>3. p \notin paid.raced \cup paid.lost \cup paid.unsaved
    BY <2>2
  <2>4. \A d \in Callers : calls'[d] = IF d = c THEN r ELSE calls[d]
    BY <1>1, <2>1
  <2>5. CASE p = calls[c].phrase
    <3>1. Translating(calls[c], p) /\ Translating(r, p)
      BY <1>7, <2>1, <2>5 DEF Translating
    <3>2. paid.translated[p] = 0 /\ \A d \in Callers : d # c => ~Translating(calls[d], p)
      BY <1>2, <2>1, <2>3, <3>1 DEF OnceInFlight
    <3>3. paid'.translated[p] = 1
      BY <1>1, <2>2, <2>5, <3>2
    <3>. QED  BY <2>1, <2>4, <3>1, <3>2, <3>3 DEF OnceInFlight
  <2>6. CASE p # calls[c].phrase
    <3>1. paid'.translated[p] = paid.translated[p] /\ ~Translating(r, p) /\ ~Translating(calls[c], p)
      BY <1>1, <2>1, <2>2, <2>6 DEF Translating
    <3>. QED  BY <1>2, <2>1, <2>3, <2>4, <3>1 DEF OnceInFlight
  <2>. QED  BY <2>5, <2>6
<1>8. ASSUME NEW c \in Callers, SaveTranslation(c) \/ SaveFails(c)
      PROVE  OnceInFlight(p, calls', translations', paid'.translated[p])
  <2>1. PICK r : /\ calls' = [calls EXCEPT ![c] = r] /\ r.at \in {"learning", "idle", "logging"}
                 /\ translations \subseteq translations' /\ paid'.translated = paid.translated
                 /\ paid.raced \subseteq paid'.raced /\ paid.unsaved \subseteq paid'.unsaved /\ paid'.lost = paid.lost
                 /\ calls[c].phrase \in translations' \cup paid'.unsaved
    <3>1. CASE SaveTranslation(c)
      <4>. DEFINE r == [calls[c] EXCEPT !.at = "learning"]
      <4>1. r.at = "learning"
        BY <1>1 DEF Calls, Call
      <4>. QED  BY <3>1, <4>1 DEF SaveTranslation
    <3>2. CASE SaveFails(c)
      <4>1. Finished(calls[c]).at \in {"idle", "logging"}
        BY <1>1, NextCall
      <4>2. /\ paid'.translated = paid.translated /\ paid'.raced = paid.raced /\ paid'.lost = paid.lost
            /\ paid'.unsaved = paid.unsaved \cup {calls[c].phrase}
        BY <1>1, <3>2 DEF SaveFails, PaidFor
      <4>. QED  BY <3>2, <4>1, <4>2 DEF SaveFails
    <3>. QED  BY <1>8, <3>1, <3>2
  <2>2. p \notin paid.raced \cup paid.lost \cup paid.unsaved
    BY <2>1
  <2>3. \A d \in Callers : calls'[d] = IF d = c THEN r ELSE calls[d]
    BY <1>1, <2>1
  <2>4. ~Translating(r, p) /\ (Translating(calls[c], p) => p \in translations')
    BY <2>1 DEF Translating
  <2>. QED  BY <1>2, <2>1, <2>2, <2>3, <2>4 DEF OnceInFlight
<1>9. ASSUME NEW c \in Callers, Serve(c)
      PROVE  OnceInFlight(p, calls', translations', paid'.translated[p])
  BY <1>3, <1>4, <1>5, <1>6, <1>7, <1>8, <1>9
<1>10. CASE WindowPasses \/ UsageMidnight \/ (\E i \in Items : RunJob(i)) \/ UNCHANGED admissionVars
  <2>1. /\ paid'.translated = paid.translated /\ paid'.raced = paid.raced /\ paid'.unsaved = paid.unsaved
        /\ paid'.lost = paid.lost /\ calls' = calls /\ translations' = translations
    BY <1>1, <1>10 DEF WindowPasses, UsageMidnight, RunJob, StartJob, EnrichRow, CommitJob, Acknowledge, JobRaises,
        JobFails, JobTimesOut, WorkerDies, admissionVars, PaidFor
  <2>. QED  BY <1>2, <2>1 DEF OnceInFlight
<1>. QED  BY <1>9, <1>10 DEF AdmissionNext

-----------------------------------------------------------------------------
AdmissionAllInv == AdmissionInv /\ AdmittedAreCounted /\ TranslationsInFlight /\ JobsCharged

LEMMA InvariantOfAdmission == AdmissionSpec => []AdmissionAllInv
<1>1. AdmissionInit => AdmissionAllInv
  <2>. SUFFICES ASSUME AdmissionInit PROVE AdmissionAllInv
    OBVIOUS
  <2>1. AdmissionInv
    BY AdmissionStarts
  <2>2. InProgress = {} /\ \A c \in Callers, p \in Phrases : ~Translating(calls[c], p)
    BY NoCallIsCall DEF AdmissionInit, InProgress, Admitted, Translating
  <2>3. Cardinality(InProgress) = 0 /\ Cardinality(Callers) \in Nat \ {0}
    BY <2>2, AdmissionAssumption, FS_CardinalityType, FS_EmptySet
  <2>4. AdmittedAreCounted
    BY <2>2, <2>3, AdmissionAssumption DEF AdmissionInit, AdmittedAreCounted
  <2>5. TranslationsInFlight
    BY <2>2 DEF AdmissionInit, TranslationsInFlight, OnceInFlight
  <2>6. JobsCharged
    BY DEF AdmissionInit, JobsCharged
  <2>. QED  BY <2>1, <2>4, <2>5, <2>6 DEF AdmissionAllInv
<1>2. AdmissionAllInv /\ [AdmissionNext]_admissionVars => AdmissionAllInv'
  BY StepKeepsAdmission, StepIsCounted, TranslationsStayInFlight, JobsStayCharged DEF AdmissionAllInv
<1>. QED  BY <1>1, <1>2, PTL DEF AdmissionSpec

\* The limits are checked in one transaction and the log is written in another (main.py:107 and
\* 141): however many requests are admitted on the same count, the log passes the limit only by
\* the requests that were in progress with the last one admitted, and by what the jobs have logged.
THEOREM OverrunStaysBounded == AdmissionSpec => []OverrunIsBounded
<1>1. AdmissionAllInv => OverrunIsBounded
  <2>. SUFFICES ASSUME AdmissionAllInv PROVE OverrunIsBounded
    OBVIOUS
  <2>1. /\ usage.rows \in Nat /\ paid.jobRows \in Nat /\ RequestLimit \in Nat
        /\ Cardinality(InProgress) \in Nat /\ Cardinality(Callers) \in Nat
    BY AdmissionAssumption, FS_Subset, FS_CardinalityType
        DEF AdmissionAllInv, AdmissionInv, AdmissionTypeOK, InProgress, PaidFor
  <2>. QED  BY <2>1 DEF AdmissionAllInv, AdmittedAreCounted, OverrunIsBounded
<1>. QED  BY <1>1, InvariantOfAdmission, PTL

\* Open breakers and failed attempts do not pay for a phrase twice: it is translated again only if
\* two requests looked it up at once, an answer was lost or its translation was not saved
\* (cached_translator.py:27, libretranslate_provider.py:133).  An enrichment whose worker did not die
\* is charged once and once more for every try that raised when it had been charged, and these are
\* JobRetries at most, whatever raised and timed out before (enrichment.py:23 and 78).
THEOREM NothingPaidTwice == AdmissionSpec => []PaidForOnce
<1>1. AdmissionAllInv => PaidForOnce
  <2>. SUFFICES ASSUME AdmissionAllInv PROVE PaidForOnce
    OBVIOUS
  <2>1. ASSUME NEW p \in Phrases, paid.translated[p] > 1 PROVE p \in paid.raced \cup paid.lost \cup paid.unsaved
    BY <2>1 DEF AdmissionAllInv, TranslationsInFlight, OnceInFlight
  <2>2. ASSUME NEW i \in Items \ paid.redelivered
        PROVE  paid.charged[i] <= 1 + paid.late[i] /\ paid.charged[i] <= 1 + JobRetries
    <3>1. paid.charged[i] \in Nat /\ paid.late[i] \in Nat /\ jobs[i].tries \in 0 .. JobRetries /\ JobRetries \in Nat
      BY AdmissionAssumption DEF AdmissionAllInv, AdmissionInv, AdmissionTypeOK, PaidFor, Job
    <3>2. paid.late[i] <= jobs[i].tries /\ paid.charged[i] <= paid.late[i] + 1
      BY DEF AdmissionAllInv, JobsCharged
    <3>. QED  BY <3>1, <3>2
  <2>. QED  BY <2>1, <2>2 DEF PaidForOnce
<1>. QED  BY <1>1, InvariantOfAdmission, PTL

-----------------------------------------------------------------------------
(***************************************************************************)
(* The buffer of events (EventIngest), for any number of events and        *)
(* callers of flush.                                                       *)
(***************************************************************************)
\* The events that wait in the buffer are those the drain task will take, in the order they came;
\* it has one at a time.
QueueInOrder ==
    /\ \A e \in Events : place[e] = "queued" <=> \E n \in DOMAIN buffer : buffer[n] = e
    /\ \A m, n \in DOMAIN buffer : m < n => buffer[m] < buffer[n]
    /\ \A d, e \in Events : place[d] # "nowhere" /\ place[e] = "nowhere" => d < e
    /\ \A e \in Events : /\ via[e] = "nobody" <=> place[e] = "nowhere"
                         /\ place[e] \in {"queued", "cancelled"} => via[e] = "drain"
    /\ \A d, e \in ByDrain : d = e

\* Once a caller of flush has joined the queue, what was in it before is finished, and it gathers
\* what was being written by tasks.
FlushersWait ==
    \A f \in Flushers : \A e \in flusher[f].before :
        /\ via[e] \in {"drain", "task"}
        /\ via[e] = "drain" /\ flusher[f].pc \in {"joined", "gathering"} => place[e] \in Settled \cup {"cancelled"}
        /\ via[e] = "task" /\ flusher[f].pc = "gathering" /\ place[e] \in InWriting => e \in flusher[f].waits

AllDrained == \A e \in Events : via[e] \in {"nobody", "drain"}

\* What the drain task alone writes is written and counted in order.
InOrder(at, stored, count, read) ==
    /\ Increasing(stored) /\ count = Len(stored)
    /\ \A n \in DOMAIN stored :
          /\ at[stored[n]] \notin {"nowhere", "queued", "taken", "read"}
          /\ \A e \in Events : at[e] \in {"queued", "taken", "read"} => stored[n] < e
    /\ \A d, e \in Events : at[d] \in {"taken", "read"} /\ at[e] = "queued" => d < e
    /\ \A e \in Events : at[e] = "read" => read[e] = count

DrainedInOrder == AllDrained => InOrder(place, storedEvents, stats, seen)

EventIngestInv == EventIngestTypeOK /\ QueueInOrder /\ FlushersWait /\ DrainedInOrder

-----------------------------------------------------------------------------
LEMMA TailOf ==
    ASSUME NEW S, NEW s \in Seq(S), s # <<>>
    PROVE  /\ Head(s) = s[1] /\ Head(s) \in S /\ 1 \in DOMAIN s /\ Tail(s) \in Seq(S) /\ Len(Tail(s)) = Len(s) - 1
           /\ \A n \in DOMAIN Tail(s) : n \in Nat /\ n + 1 \in DOMAIN s /\ Tail(s)[n] = s[n + 1]
           /\ \A n \in DOMAIN s : n # 1 => n \in Nat /\ n - 1 \in DOMAIN Tail(s) /\ Tail(s)[n - 1] = s[n]
OBVIOUS

LEMMA AppendOf ==
    ASSUME NEW S, NEW s \in Seq(S), NEW x \in S
    PROVE  /\ Append(s, x) \in Seq(S) /\ Len(Append(s, x)) = Len(s) + 1
           /\ \A n \in DOMAIN Append(s, x) :
                  \/ n = Len(s) + 1 /\ Append(s, x)[n] = x
                  \/ n \in DOMAIN s /\ n <= Len(s) /\ Append(s, x)[n] = s[n]
           /\ \A n \in DOMAIN s : n \in DOMAIN Append(s, x) /\ Append(s, x)[n] = s[n]
           /\ Len(s) + 1 \in DOMAIN Append(s, x) /\ Append(s, x)[Len(s) + 1] = x
OBVIOUS

LEMMA EventIngestStarts == EventIngestInit => EventIngestInv
<1>. SUFFICES ASSUME EventIngestInit PROVE EventIngestInv
  OBVIOUS
<1>. USE DEF EventIngestInit
<1>1. EventIngestTypeOK
  <2>1. NoFlusher \in Flusher
    BY DEF NoFlusher, Flusher
  <2>2. "nowhere" \in Places /\ <<>> \in Seq(Events) /\ Len(<<>>) <= BufferSize
    BY EventIngestAssumption DEF Places
  <2>3. 0 \in Nat /\ 0 \in 0 .. MaxFlushes
    BY EventIngestAssumption
  <2>. QED  BY <2>1, <2>2, <2>3, Zenon DEF EventIngestTypeOK
<1>2. QueueInOrder
  BY DEF QueueInOrder, ByDrain
<1>3. FlushersWait
  BY DEF FlushersWait, NoFlusher
<1>4. DrainedInOrder
  BY DEF DrainedInOrder, InOrder, Increasing
<1>. QED  BY <1>1, <1>2, <1>3, <1>4 DEF EventIngestInv

-----------------------------------------------------------------------------
\* What the service and its callers do.
Ingests ==
    \/ DrainTakes
    \/ \E e \in Events :
        \/ TrackBuffered(e) \/ Spawn(e) \/ TrackDurable(e)
        \/ ReadStats(e) \/ Store(e) \/ AttributionEnds(e) \/ DropEvent(e)

LEMMA FlushersAreTyped ==
    ASSUME flusher \in [Flushers -> Flusher], NEW f \in Flushers
    PROVE  /\ flusher[f] \in Flusher /\ flusher[f].pc \in {"idle", "joining", "joined", "gathering"}
           /\ flusher[f].waits \subseteq Events /\ flusher[f].before \subseteq Events
           /\ [flusher[f] EXCEPT !.pc = "joined"] \in Flusher
           /\ [flusher[f] EXCEPT !.pc = "joined"].before = flusher[f].before
           /\ [flusher[f] EXCEPT !.pc = "joined"].pc = "joined"
           /\ NoFlusher \in Flusher /\ NoFlusher.before = {} /\ NoFlusher.pc = "idle"
BY DEF Flusher, NoFlusher

LEMMA GatheringIsTyped ==
    ASSUME flusher \in [Flushers -> Flusher], NEW f \in Flushers, NEW W \in SUBSET Events, NEW q,
           q = [flusher[f] EXCEPT !.pc = "gathering", !.waits = W]
    PROVE  q \in Flusher /\ q.before = flusher[f].before /\ q.pc = "gathering" /\ q.waits = W
<1>. DEFINE r == flusher[f]
<1>1. r \in Flusher
  OBVIOUS
<1>. HIDE DEF r
<1>2. q = [r EXCEPT !.pc = "gathering", !.waits = W]
  BY DEF r
<1>3. q \in Flusher /\ q.before = r.before /\ q.pc = "gathering" /\ q.waits = W
  BY <1>1, <1>2 DEF Flusher
<1>. QED  BY <1>3 DEF r

LEMMA TypesStay == EventIngestTypeOK /\ [EventIngestNext]_eventIngestVars => EventIngestTypeOK'
<1>. SUFFICES ASSUME EventIngestTypeOK, [EventIngestNext]_eventIngestVars PROVE EventIngestTypeOK'
  OBVIOUS
<1>1. /\ mode \in Modes /\ buffer \in Seq(Events) /\ Len(buffer) <= BufferSize /\ place \in [Events -> Places]
      /\ via \in [Events -> {"nobody", "drain", "task", "caller"}] /\ seen \in [Events -> Nat] /\ stats \in Nat
      /\ storedEvents \in Seq(Events) /\ draining \in BOOLEAN /\ flusher \in [Flushers -> Flusher]
      /\ flushes \in 0 .. MaxFlushes
  BY DEF EventIngestTypeOK
<1>2. BufferSize \in Nat /\ MaxFlushes \in Nat
  BY EventIngestAssumption
<1>3. {"nowhere", "queued", "taken", "read", "stored", "done", "dropped", "cancelled"} \subseteq Places
  BY DEF Places
<1>4. ASSUME NEW e \in Events PROVE TaskDone(e) => flusher' \in [Flushers -> Flusher]
  <2>1. \A f \in Flushers : flusher[f] \in Flusher /\ [flusher[f] EXCEPT !.pc = "joined"] \in Flusher
    BY <1>1, FlushersAreTyped
  <2>. QED  BY <1>1, <2>1 DEF TaskDone
<1>5. CASE DrainTakes
  BY <1>1, <1>2, <1>3, <1>5, TailOf DEF DrainTakes, EventIngestTypeOK
<1>6. ASSUME NEW e \in Events, TrackBuffered(e) PROVE EventIngestTypeOK'
  BY <1>1, <1>2, <1>3, <1>6, AppendOf DEF TrackBuffered, Goes, EventIngestTypeOK
<1>7. ASSUME NEW e \in Events, Spawn(e) \/ TrackDurable(e) PROVE EventIngestTypeOK'
  BY <1>1, <1>3, <1>7 DEF Spawn, TrackDurable, Goes, EventIngestTypeOK
<1>8. ASSUME NEW e \in Events, ReadStats(e) PROVE EventIngestTypeOK'
  BY <1>1, <1>3, <1>8 DEF ReadStats, EventIngestTypeOK
<1>9. ASSUME NEW e \in Events, Store(e) PROVE EventIngestTypeOK'
  BY <1>1, <1>3, <1>9, AppendOf DEF Store, EventIngestTypeOK
<1>10. ASSUME NEW e \in Events, AttributionEnds(e) \/ DropEvent(e) PROVE EventIngestTypeOK'
  BY <1>1, <1>3, <1>4, <1>10 DEF AttributionEnds, DropEvent, EventIngestTypeOK
<1>11. ASSUME NEW f \in Flushers, Flush(f) PROVE EventIngestTypeOK'
  <2>1. PICK closes \in BOOLEAN :
            flusher' = [flusher EXCEPT ![f] =
                [pc |-> IF Unfinished(buffer, ByDrain) = 0 THEN "joined" ELSE "joining",
                 closes |-> closes, waits |-> {},
                 before |-> {e \in Events : place[e] \in {"queued"} \cup InWriting /\ via[e] # "caller"}]]
    BY <1>11 DEF Flush
  <2>2. flusher' \in [Flushers -> Flusher]
    BY <1>1, <2>1 DEF Flusher
  <2>3. flushes' \in 0 .. MaxFlushes /\ draining' \in BOOLEAN
    BY <1>1, <1>2, <1>11 DEF Flush
  <2>. QED  BY <1>1, <1>11, <2>2, <2>3 DEF Flush, EventIngestTypeOK
<1>12. ASSUME NEW f \in Flushers, Gather(f) \/ FlushReturns(f) PROVE EventIngestTypeOK'
  <2>1. PendingTasks \subseteq Events
    BY DEF PendingTasks
  <2>2. flusher' \in [Flushers -> Flusher]
    <3>1. NoFlusher \in Flusher /\ [flusher[f] EXCEPT !.pc = "gathering", !.waits = PendingTasks] \in Flusher
      BY <1>1, <2>1, FlushersAreTyped, GatheringIsTyped
    <3>2. \/ flusher' = [flusher EXCEPT ![f] = NoFlusher]
          \/ flusher' = [flusher EXCEPT ![f] = [flusher[f] EXCEPT !.pc = "gathering", !.waits = PendingTasks]]
      BY <1>1, <1>12 DEF Gather, FlushReturns
    <3>. QED  BY <1>1, <3>1, <3>2
  <2>. QED  BY <1>1, <1>12, <2>2 DEF Gather, FlushReturns, EventIngestTypeOK
<1>13. ASSUME NEW f \in Flushers, CloseReturns(f) PROVE EventIngestTypeOK'
  <2>1. flusher' \in [Flushers -> Flusher]
    BY <1>1, <1>13, FlushersAreTyped DEF CloseReturns
  <2>2. place' \in [Events -> Places]
    BY <1>1, <1>3, <1>13 DEF CloseReturns
  <2>. QED  BY <1>1, <1>13, <2>1, <2>2 DEF CloseReturns, EventIngestTypeOK
<1>14. CASE UNCHANGED eventIngestVars
  BY <1>14 DEF eventIngestVars, EventIngestTypeOK
<1>. QED
  BY <1>5, <1>6, <1>7, <1>8, <1>9, <1>10, <1>11, <1>12, <1>13, <1>14 DEF EventIngestNext

-----------------------------------------------------------------------------
\* Nothing is taken, written or joined: the events that are underway stay where they are.
LEMMA QueueStays ==
    ASSUME QueueInOrder, UNCHANGED <<buffer, via>>,
           \A e \in Events : \/ place'[e] = place[e]
                             \/ place[e] \in InWriting /\ place'[e] \in InWriting \cup Settled
                             \/ e \in ByDrain /\ place'[e] = "cancelled"
    PROVE  QueueInOrder'
<1>1. \A e \in Events : e \in ByDrain' => e \in ByDrain
  BY DEF ByDrain, InWriting, Settled
<1>2. \A e \in Events : place'[e] = "queued" <=> place[e] = "queued"
  BY DEF InWriting, Settled, ByDrain
<1>3. \A e \in Events : place'[e] = "nowhere" <=> place[e] = "nowhere"
  BY DEF InWriting, Settled, ByDrain
<1>4. \A e \in Events : place'[e] = "cancelled" => place[e] = "cancelled" \/ via[e] = "drain"
  BY DEF InWriting, Settled, ByDrain
<1>5. ByDrain' \subseteq Events
  BY DEF ByDrain
<1>. QED  BY <1>1, <1>2, <1>3, <1>4, <1>5 DEF QueueInOrder

LEMMA QueueKeepsOrder ==
    EventIngestTypeOK /\ QueueInOrder /\ [EventIngestNext]_eventIngestVars => QueueInOrder'
<1>. SUFFICES ASSUME EventIngestTypeOK, QueueInOrder, [EventIngestNext]_eventIngestVars PROVE QueueInOrder'
  OBVIOUS
<1>1. /\ buffer \in Seq(Events) /\ place \in [Events -> Places]
      /\ via \in [Events -> {"nobody", "drain", "task", "caller"}] /\ Events \subseteq Nat
  BY DEF EventIngestTypeOK, Events
<1>2. CASE DrainTakes
  <2>1. /\ ByDrain = {} /\ buffer # <<>> /\ via' = via
        /\ place' = [place EXCEPT ![buffer[1]] = "taken"] /\ buffer' = Tail(buffer)
    BY <1>1, <1>2, TailOf DEF DrainTakes
  <2>. DEFINE h == buffer[1]
  <2>2. h \in Events /\ place[h] = "queued" /\ 1 \in DOMAIN buffer
    <3>1. h \in Events /\ 1 \in DOMAIN buffer
      BY <1>1, <2>1, TailOf
    <3>. QED  BY <3>1 DEF QueueInOrder
  <2>3. \A e \in Events : place'[e] = IF e = h THEN "taken" ELSE place[e]
    BY <1>1, <2>1
  <2>4. \A e \in Events : (\E n \in DOMAIN buffer' : buffer'[n] = e) <=>
                          e # h /\ \E n \in DOMAIN buffer : buffer[n] = e
    <3>1. \A n \in DOMAIN buffer : n \in Nat /\ (n # 1 => 1 < n)
      BY <1>1
    <3>2. \A n \in DOMAIN buffer : n # 1 => buffer[n] # h
      BY <1>1, <2>2, <3>1 DEF QueueInOrder
    <3>3. /\ \A n \in DOMAIN buffer' : n + 1 \in DOMAIN buffer /\ n + 1 # 1 /\ buffer'[n] = buffer[n + 1]
          /\ \A n \in DOMAIN buffer : n # 1 => n - 1 \in DOMAIN buffer' /\ buffer'[n - 1] = buffer[n]
      <4>1. \A n \in DOMAIN buffer' : n \in Nat
        BY <1>1, <2>1
      <4>. QED  BY <1>1, <2>1, <4>1, TailOf
    <3>. QED  BY <3>2, <3>3
  <2>5. \A m, n \in DOMAIN buffer' : m < n => buffer'[m] < buffer'[n]
    <3>1. \A n \in DOMAIN buffer' : n \in Nat /\ n + 1 \in DOMAIN buffer /\ buffer'[n] = buffer[n + 1]
      BY <1>1, <2>1, TailOf
    <3>2. \A m, n \in DOMAIN buffer' : m < n => m + 1 < n + 1
      BY <3>1
    <3>. QED  BY <3>1, <3>2 DEF QueueInOrder
  <2>6. \A e \in ByDrain' : e = h
    BY <1>1, <2>1, <2>3 DEF ByDrain
  <2>. HIDE DEF h
  <2>7. \A e \in Events : (place'[e] = "queued" <=> e # h /\ place[e] = "queued")
                          /\ (place'[e] = "nowhere" <=> place[e] = "nowhere")
                          /\ (place'[e] = "cancelled" => place[e] = "cancelled")
    BY <2>2, <2>3
  <2>. QED  BY <2>1, <2>2, <2>4, <2>5, <2>6, <2>7 DEF QueueInOrder
<1>3. ASSUME NEW e \in Events, TrackBuffered(e) PROVE QueueInOrder'
  <2>1. /\ buffer' = Append(buffer, e) /\ via' = [via EXCEPT ![e] = "drain"]
        /\ place' = [place EXCEPT ![e] = "queued"] /\ place[e] = "nowhere"
    BY <1>3 DEF TrackBuffered, Goes, NextEvent
  <2>2. \A d \in Events : /\ place'[d] = IF d = e THEN "queued" ELSE place[d]
                          /\ via'[d] = IF d = e THEN "drain" ELSE via[d]
    BY <1>1, <2>1
  <2>3. \A d \in Events : place[d] # "nowhere" => d < e
    BY <2>1 DEF QueueInOrder
  <2>4. \A d \in Events : place'[d] = "nowhere" => e < d
    BY <1>1, <1>3, <2>1, <2>2 DEF TrackBuffered, NextEvent, Events
  <2>5. \A n \in DOMAIN buffer : buffer[n] < e
    <3>1. \A n \in DOMAIN buffer : buffer[n] \in Events
      BY <1>1
    <3>. QED  BY <2>3, <3>1 DEF QueueInOrder
  <2>6. \A m, n \in DOMAIN buffer' : m < n => buffer'[m] < buffer'[n]
    <3>1. \A n \in DOMAIN buffer' : \/ n = Len(buffer) + 1 /\ buffer'[n] = e
                                    \/ n \in DOMAIN buffer /\ n <= Len(buffer) /\ buffer'[n] = buffer[n]
      BY <1>1, <2>1, AppendOf
    <3>2. Len(buffer) \in Nat /\ DOMAIN buffer \subseteq Nat
      BY <1>1
    <3>. QED  BY <2>5, <3>1, <3>2 DEF QueueInOrder
  <2>7. \A d \in Events : (\E n \in DOMAIN buffer' : buffer'[n] = d) <=>
                          d = e \/ \E n \in DOMAIN buffer : buffer[n] = d
    <3>1. /\ \A n \in DOMAIN buffer' : buffer'[n] = e \/ (n \in DOMAIN buffer /\ buffer'[n] = buffer[n])
          /\ \A n \in DOMAIN buffer : n \in DOMAIN buffer' /\ buffer'[n] = buffer[n]
          /\ Len(buffer) + 1 \in DOMAIN buffer' /\ buffer'[Len(buffer) + 1] = e
      BY <1>1, <2>1, AppendOf
    <3>. QED  BY <3>1
  <2>8. \A d \in Events : d \in ByDrain' => d \in ByDrain
    BY <2>2 DEF ByDrain, InWriting
  <2>9. ByDrain' \subseteq Events
    BY DEF ByDrain
  <2>. QED  BY <1>1, <2>2, <2>3, <2>4, <2>6, <2>7, <2>8, <2>9 DEF QueueInOrder
<1>4. ASSUME NEW e \in Events, Spawn(e) \/ TrackDurable(e) PROVE QueueInOrder'
  <2>1. PICK w \in {"task", "caller"} :
            /\ buffer' = buffer /\ via' = [via EXCEPT ![e] = w]
            /\ place' = [place EXCEPT ![e] = "taken"] /\ place[e] = "nowhere" /\ NextEvent(e)
    BY <1>4 DEF Spawn, TrackDurable, Goes, NextEvent
  <2>2. \A d \in Events : /\ place'[d] = IF d = e THEN "taken" ELSE place[d]
                          /\ via'[d] = IF d = e THEN w ELSE via[d]
    BY <1>1, <2>1
  <2>3. \A d \in Events : place[d] # "nowhere" => d < e
    BY <2>1 DEF QueueInOrder
  <2>4. \A d \in Events : place'[d] = "nowhere" => e < d
    BY <1>1, <2>1, <2>2 DEF NextEvent, Events
  <2>5. \A d \in Events : d \in ByDrain' => d \in ByDrain
    BY <2>1, <2>2 DEF ByDrain, InWriting
  <2>6. ByDrain' \subseteq Events
    BY DEF ByDrain
  <2>7. \A d \in Events : place'[d] = "queued" <=> place[d] = "queued"
    BY <2>1, <2>2
  <2>. QED  BY <1>1, <2>1, <2>2, <2>3, <2>4, <2>5, <2>6, <2>7 DEF QueueInOrder
<1>5. ASSUME NEW e \in Events, ReadStats(e) \/ Store(e) \/ AttributionEnds(e) \/ DropEvent(e) PROVE QueueInOrder'
  <2>1. UNCHANGED <<buffer, via>> /\ place[e] \in InWriting /\ \A d \in Events : d # e => place'[d] = place[d]
    BY <1>1, <1>5 DEF ReadStats, Store, AttributionEnds, DropEvent, InWriting
  <2>2. place'[e] \in InWriting \cup Settled
    BY <1>1, <1>5 DEF ReadStats, Store, AttributionEnds, DropEvent, InWriting, Settled
  <2>. QED  BY <2>1, <2>2, QueueStays
<1>6. ASSUME NEW f \in Flushers, Flush(f) \/ Gather(f) \/ FlushReturns(f) PROVE QueueInOrder'
  <2>1. UNCHANGED <<buffer, via, place>>
    BY <1>6 DEF Flush, Gather, FlushReturns
  <2>. QED  BY <2>1, QueueStays
<1>7. ASSUME NEW f \in Flushers, CloseReturns(f) PROVE QueueInOrder'
  <2>1. UNCHANGED <<buffer, via>> /\ \A e \in Events : place'[e] = IF e \in ByDrain THEN "cancelled" ELSE place[e]
    BY <1>7 DEF CloseReturns
  <2>. QED  BY <2>1, QueueStays
<1>8. CASE UNCHANGED eventIngestVars
  BY <1>8, QueueStays DEF eventIngestVars
<1>. QED  BY <1>2, <1>3, <1>4, <1>5, <1>6, <1>7, <1>8 DEF EventIngestNext

-----------------------------------------------------------------------------
\* With nothing unfinished in the queue, there is nothing in the buffer.
LEMMA NothingUnfinished ==
    ASSUME EventIngestTypeOK, QueueInOrder, NEW W \in SUBSET Events, Unfinished(buffer, W) = 0
    PROVE  W = {} /\ \A e \in Events : place[e] # "queued"
<1>1. IsFiniteSet(Events)
  BY EventIngestAssumption, FS_Interval DEF Events
<1>2. IsFiniteSet(W) /\ Cardinality(W) \in Nat
  BY <1>1, FS_Subset, FS_CardinalityType
<1>3. Len(buffer) = 0 /\ Cardinality(W) = 0
  BY <1>2 DEF Unfinished, EventIngestTypeOK
<1>4. W = {}
  BY <1>2, <1>3, FS_EmptySet
<1>5. DOMAIN buffer = {}
  BY <1>3 DEF EventIngestTypeOK
<1>. QED  BY <1>4, <1>5 DEF QueueInOrder

\* An event that is finished stays so, a task does not start again, and each caller of flush
\* waits on, leaves, or has joined a queue where nothing is left.
LEMMA WaitGoesOn ==
    ASSUME EventIngestTypeOK, QueueInOrder, FlushersWait,
           \A e \in Events : /\ via[e] # "nobody" => via'[e] = via[e]
                             /\ place[e] \in Settled \cup {"cancelled"} => place'[e] \in Settled \cup {"cancelled"}
                             /\ via[e] = "task" /\ place'[e] \in InWriting => place[e] \in InWriting,
           \A f \in Flushers :
               \/ flusher'[f].before = {}
               \/ flusher'[f] = flusher[f]
               \/ /\ flusher'[f].before = flusher[f].before /\ flusher'[f].pc = "joined"
                  /\ \A e \in Events : via[e] = "drain" => place'[e] \in Settled \cup {"cancelled"}
    PROVE  FlushersWait'
<1>. SUFFICES ASSUME NEW f \in Flushers, NEW e \in flusher'[f].before
              PROVE  /\ via'[e] \in {"drain", "task"}
                     /\ via'[e] = "drain" /\ flusher'[f].pc \in {"joined", "gathering"} =>
                            place'[e] \in Settled \cup {"cancelled"}
                     /\ via'[e] = "task" /\ flusher'[f].pc = "gathering" /\ place'[e] \in InWriting =>
                            e \in flusher'[f].waits
  BY Zenon DEF FlushersWait, Settled, InWriting
<1>1. flusher'[f].before = flusher[f].before
  OBVIOUS
<1>2. e \in Events /\ via[e] \in {"drain", "task"}
  BY <1>1, FlushersAreTyped DEF FlushersWait, EventIngestTypeOK
<1>3. via'[e] = via[e]
  BY <1>2
<1>. QED  BY <1>1, <1>2, <1>3 DEF FlushersWait

\* The last unfinished event of the queue is done: every event of the drain task is.
LEMMA QueueIsDone ==
    ASSUME EventIngestTypeOK, QueueInOrder, Unfinished(buffer, {}) = 0,
           NEW D \in SUBSET ByDrain, ByDrain # {} => D # {},
           \A e \in Events : place'[e] = place[e] \/ e \in D,
           \A e \in D : place'[e] \in Settled \cup {"cancelled"}
    PROVE  \A e \in Events : via[e] = "drain" => place'[e] \in Settled \cup {"cancelled"}
<1>. SUFFICES ASSUME NEW e \in Events, via[e] = "drain" PROVE place'[e] \in Settled \cup {"cancelled"}
  OBVIOUS
<1>1. place[e] # "queued" /\ place[e] # "nowhere" /\ place[e] \in Places
  <2>1. {} \in SUBSET Events
    OBVIOUS
  <2>2. place[e] # "queued"
    BY <2>1, NothingUnfinished
  <2>. QED  BY <2>2 DEF QueueInOrder, EventIngestTypeOK
<1>2. e \in ByDrain => e \in D
  BY DEF QueueInOrder
<1>. QED  BY <1>1, <1>2 DEF Places, Settled, InWriting, ByDrain

LEMMA FlushersGoOnWaiting ==
    EventIngestTypeOK /\ QueueInOrder /\ FlushersWait /\ [EventIngestNext]_eventIngestVars => FlushersWait'
<1>. SUFFICES ASSUME EventIngestTypeOK, QueueInOrder, FlushersWait, [EventIngestNext]_eventIngestVars
              PROVE  FlushersWait'
  OBVIOUS
<1>1. /\ place \in [Events -> Places] /\ flusher \in [Flushers -> Flusher] /\ buffer \in Seq(Events)
      /\ via \in [Events -> {"nobody", "drain", "task", "caller"}]
  BY DEF EventIngestTypeOK
<1>2. CASE DrainTakes
  <2>1. /\ Head(buffer) \in Events /\ place[Head(buffer)] = "queued"
        /\ place' = [place EXCEPT ![Head(buffer)] = "taken"] /\ UNCHANGED <<via, flusher>>
    BY <1>1, <1>2, TailOf DEF DrainTakes, QueueInOrder
  <2>2. via[Head(buffer)] = "drain"
    BY <2>1 DEF QueueInOrder
  <2>. QED  BY <1>1, <2>1, <2>2, WaitGoesOn DEF Settled
<1>3. ASSUME NEW e \in Events, TrackBuffered(e) \/ Spawn(e) \/ TrackDurable(e) PROVE FlushersWait'
  <2>1. PICK w, p :
            /\ via' = [via EXCEPT ![e] = w] /\ place' = [place EXCEPT ![e] = p]
            /\ place[e] = "nowhere" /\ UNCHANGED flusher
    BY <1>3 DEF TrackBuffered, Spawn, TrackDurable, Goes, NextEvent
  <2>2. via[e] = "nobody"
    BY <2>1 DEF QueueInOrder
  <2>. QED  BY <1>1, <2>1, <2>2, WaitGoesOn DEF Settled
<1>4. ASSUME NEW e \in Events, ReadStats(e) \/ Store(e) PROVE FlushersWait'
  <2>1. PICK p : place' = [place EXCEPT ![e] = p] /\ place[e] \in InWriting /\ UNCHANGED <<via, flusher>>
    BY <1>4 DEF ReadStats, Store, InWriting
  <2>. QED  BY <1>1, <2>1, WaitGoesOn DEF Settled, InWriting
<1>5. ASSUME NEW e \in Events, AttributionEnds(e) \/ DropEvent(e) PROVE FlushersWait'
  <2>1. PICK p \in Settled : place' = [place EXCEPT ![e] = p] /\ place[e] \in InWriting /\ UNCHANGED via /\ TaskDone(e)
    BY <1>5 DEF AttributionEnds, DropEvent, InWriting, Settled
  <2>2. \A d \in Events : place'[d] = IF d = e THEN p ELSE place[d]
    BY <1>1, <2>1
  <2>3. CASE via[e] = "drain" /\ Unfinished(buffer, {}) = 0
    <3>1. e \in ByDrain
      BY <2>1, <2>3 DEF ByDrain
    <3>2. \A d \in Events : via[d] = "drain" => place'[d] \in Settled \cup {"cancelled"}
      <4>1. {e} \in SUBSET ByDrain
        BY <3>1
      <4>. QED  BY <2>2, <2>3, <4>1, QueueIsDone
    <3>3. \A f \in Flushers : \/ flusher'[f] = flusher[f]
                              \/ flusher'[f].before = flusher[f].before /\ flusher'[f].pc = "joined"
      BY <1>1, <2>1, <2>3, FlushersAreTyped DEF TaskDone
    <3>. QED  BY <2>1, <2>2, <3>2, <3>3, WaitGoesOn DEF InWriting, Settled
  <2>4. CASE ~(via[e] = "drain" /\ Unfinished(buffer, {}) = 0)
    <3>1. UNCHANGED flusher
      BY <2>1, <2>4 DEF TaskDone
    <3>. QED  BY <2>1, <2>2, <3>1, WaitGoesOn DEF InWriting, Settled
  <2>. QED  BY <2>3, <2>4
<1>6. ASSUME NEW f \in Flushers, Flush(f) PROVE FlushersWait'
  <2>1. PICK closes \in BOOLEAN :
            flusher' = [flusher EXCEPT ![f] =
                [pc |-> IF Unfinished(buffer, ByDrain) = 0 THEN "joined" ELSE "joining",
                 closes |-> closes, waits |-> {},
                 before |-> {e \in Events : place[e] \in {"queued"} \cup InWriting /\ via[e] # "caller"}]]
    BY <1>6 DEF Flush
  <2>2. \A g \in Flushers : g # f => flusher'[g] = flusher[g]
    BY <1>1, <2>1
  <2>3. /\ flusher'[f].pc = IF Unfinished(buffer, ByDrain) = 0 THEN "joined" ELSE "joining"
        /\ flusher'[f].before = {e \in Events : place[e] \in {"queued"} \cup InWriting /\ via[e] # "caller"}
    BY <1>1, <2>1
  <2>4. UNCHANGED <<place, via>>
    BY <1>6 DEF Flush
  <2>5. ASSUME NEW e \in flusher'[f].before
        PROVE  /\ e \in Events /\ via[e] \in {"drain", "task"}
               /\ via[e] = "drain" => flusher'[f].pc # "joined"
    <3>1. e \in Events /\ place[e] \in {"queued"} \cup InWriting /\ via[e] # "caller"
      BY <2>3, <2>5
    <3>2. via[e] # "nobody"
      BY <3>1 DEF QueueInOrder, InWriting
    <3>3. via[e] = "drain" => place[e] = "queued" \/ e \in ByDrain
      BY <3>1 DEF ByDrain
    <3>4. ByDrain \in SUBSET Events
      BY DEF ByDrain
    <3>5. via[e] = "drain" => Unfinished(buffer, ByDrain) # 0
      BY <3>1, <3>3, <3>4, NothingUnfinished
    <3>. QED  BY <1>1, <2>3, <3>1, <3>2, <3>5
  <2>. QED  BY <2>2, <2>3, <2>4, <2>5 DEF FlushersWait
<1>7. ASSUME NEW f \in Flushers, Gather(f) PROVE FlushersWait'
  <2>1. PendingTasks \in SUBSET Events
    BY DEF PendingTasks
  <2>2. /\ flusher' = [flusher EXCEPT ![f] = [flusher[f] EXCEPT !.pc = "gathering", !.waits = PendingTasks]]
        /\ flusher[f].pc = "joined" /\ UNCHANGED <<place, via>>
    BY <1>1, <1>7 DEF Gather
  <2>5. PICK q : q = [flusher[f] EXCEPT !.pc = "gathering", !.waits = PendingTasks]
    OBVIOUS
  <2>3. q.before = flusher[f].before /\ q.pc = "gathering" /\ q.waits = PendingTasks
    <3>1. PICK r : r = flusher[f]
      OBVIOUS
    <3>2. r \in Flusher /\ q = [r EXCEPT !.pc = "gathering", !.waits = PendingTasks]
      BY <1>1, <2>5, <3>1
    <3>3. q.before = r.before /\ q.pc = "gathering" /\ q.waits = PendingTasks
      BY <3>2 DEF Flusher
    <3>. QED  BY <3>1, <3>3
  <2>4. \A g \in Flushers : flusher'[g] = IF g = f THEN q ELSE flusher[g]
    BY <1>1, <2>2, <2>5
  <2>6. \A e \in flusher[f].before : e \in Events /\ (via[e] = "task" /\ place[e] \in InWriting => e \in PendingTasks)
    BY <1>1, FlushersAreTyped DEF PendingTasks
  <2>. QED  BY <2>2, <2>3, <2>4, <2>6 DEF FlushersWait
<1>8. ASSUME NEW f \in Flushers, FlushReturns(f) PROVE FlushersWait'
  <2>1. flusher' = [flusher EXCEPT ![f] = NoFlusher] /\ UNCHANGED <<place, via>>
    BY <1>8 DEF FlushReturns
  <2>2. \A g \in Flushers : flusher'[g] = flusher[g] \/ flusher'[g].before = {}
    BY <1>1, <2>1 DEF NoFlusher
  <2>. QED  BY <2>1, <2>2, WaitGoesOn
<1>9. ASSUME NEW f \in Flushers, CloseReturns(f) PROVE FlushersWait'
  <2>1. /\ place' = [e \in Events |-> IF e \in ByDrain THEN "cancelled" ELSE place[e]] /\ UNCHANGED via
        /\ flusher' = [g \in Flushers |->
              IF g = f THEN NoFlusher
              ELSE IF flusher[g].pc = "joining" /\ ByDrain # {} /\ Unfinished(buffer, {}) = 0
                   THEN [flusher[g] EXCEPT !.pc = "joined"]
              ELSE flusher[g]]
    BY <1>9 DEF CloseReturns
  <2>2. /\ \A e \in Events : place'[e] = IF e \in ByDrain THEN "cancelled" ELSE place[e]
        /\ \A e \in ByDrain : e \in Events /\ via[e] = "drain"
    BY <2>1 DEF ByDrain
  <2>3. Unfinished(buffer, {}) = 0 =>
            \A e \in Events : via[e] = "drain" => place'[e] \in Settled \cup {"cancelled"}
    <3>1. ByDrain \in SUBSET ByDrain
      OBVIOUS
    <3>. QED  BY <2>2, <3>1, QueueIsDone
  <2>4. \A g \in Flushers : \/ flusher'[g].before = {}
                            \/ flusher'[g] = flusher[g]
                            \/ /\ flusher'[g].before = flusher[g].before /\ flusher'[g].pc = "joined"
                               /\ Unfinished(buffer, {}) = 0
    <3>. SUFFICES ASSUME NEW g \in Flushers
                  PROVE  \/ flusher'[g].before = {}
                         \/ flusher'[g] = flusher[g]
                         \/ /\ flusher'[g].before = flusher[g].before /\ flusher'[g].pc = "joined"
                            /\ Unfinished(buffer, {}) = 0
      OBVIOUS
    <3>1. /\ [flusher[g] EXCEPT !.pc = "joined"].before = flusher[g].before
          /\ [flusher[g] EXCEPT !.pc = "joined"].pc = "joined" /\ NoFlusher.before = {}
      BY <1>1, FlushersAreTyped
    <3>2. \/ flusher'[g] = NoFlusher
          \/ flusher'[g] = [flusher[g] EXCEPT !.pc = "joined"] /\ Unfinished(buffer, {}) = 0
          \/ flusher'[g] = flusher[g]
      BY <2>1, Zenon
    <3>. QED  BY <3>1, <3>2
  <2>. QED  BY <2>1, <2>2, <2>3, <2>4, WaitGoesOn DEF Settled, InWriting
<1>10. CASE UNCHANGED eventIngestVars
  BY <1>10, WaitGoesOn DEF eventIngestVars
<1>. QED  BY <1>2, <1>3, <1>4, <1>5, <1>6, <1>7, <1>8, <1>9, <1>10 DEF EventIngestNext

-----------------------------------------------------------------------------
\* What the drain task puts into the buffer, finishes or loses leaves the order.
LEMMA OrderStays ==
    ASSUME EventIngestTypeOK, QueueInOrder, InOrder(place, storedEvents, stats, seen),
           UNCHANGED <<stats, storedEvents, seen>>,
           \A e \in Events : \/ place'[e] = place[e]
                             \/ place[e] = "nowhere" /\ place'[e] = "queued"
                             \/ place[e] # "nowhere" /\ place'[e] \in {"stored", "done", "dropped", "cancelled"}
    PROVE  InOrder(place', storedEvents', stats', seen')
<1>1. \A n \in DOMAIN storedEvents : storedEvents[n] \in Events
  BY DEF EventIngestTypeOK
<1>2. \A d, e \in Events : place[d] # "nowhere" /\ place[e] = "nowhere" => d < e
  BY DEF QueueInOrder
<1>3. \A e \in Events : /\ place'[e] \in {"taken", "read"} => place'[e] = place[e]
                        /\ place'[e] = "queued" => place[e] \in {"queued", "nowhere"}
  OBVIOUS
<1>4. ASSUME NEW n \in DOMAIN storedEvents
      PROVE  /\ place'[storedEvents[n]] \notin {"nowhere", "queued", "taken", "read"}
             /\ \A e \in Events : place'[e] \in {"queued", "taken", "read"} => storedEvents[n] < e
  <2>1. storedEvents[n] \in Events /\ place[storedEvents[n]] \notin {"nowhere", "queued", "taken", "read"}
    BY <1>1 DEF InOrder
  <2>2. \A e \in Events : place[e] \in {"queued", "taken", "read"} => storedEvents[n] < e
    BY DEF InOrder
  <2>. QED  BY <1>2, <1>3, <2>1, <2>2
<1>5. \A d, e \in Events : place'[d] \in {"taken", "read"} /\ place'[e] = "queued" => d < e
  BY <1>2, <1>3 DEF InOrder
<1>6. \A e \in Events : place'[e] = "read" => seen[e] = stats
  BY <1>3 DEF InOrder
<1>. QED  BY <1>4, <1>5, <1>6 DEF InOrder

LEMMA DrainedStayInOrder ==
    EventIngestTypeOK /\ QueueInOrder /\ DrainedInOrder /\ [EventIngestNext]_eventIngestVars => DrainedInOrder'
<1>. SUFFICES ASSUME EventIngestTypeOK, QueueInOrder, DrainedInOrder, [EventIngestNext]_eventIngestVars, AllDrained'
              PROVE  InOrder(place', storedEvents', stats', seen')
  BY Zenon DEF DrainedInOrder, InOrder, Increasing
<1>1. /\ place \in [Events -> Places] /\ buffer \in Seq(Events) /\ storedEvents \in Seq(Events)
      /\ via \in [Events -> {"nobody", "drain", "task", "caller"}] /\ seen \in [Events -> Nat] /\ stats \in Nat
      /\ Events \subseteq Nat
  BY DEF EventIngestTypeOK, Events
<1>2. (\A e \in Events : via'[e] = via[e] \/ via[e] = "nobody") => InOrder(place, storedEvents, stats, seen)
  BY DEF AllDrained, DrainedInOrder
<1>3. \A e \in Events : place[e] \in InWriting \cup {"queued"} /\ via'[e] = via[e] => via[e] = "drain"
  BY DEF AllDrained, QueueInOrder, InWriting
<1>4. CASE DrainTakes
  <2>. DEFINE h == buffer[1]
  <2>1. /\ ByDrain = {} /\ buffer # <<>> /\ via' = via /\ h \in Events /\ 1 \in DOMAIN buffer
        /\ place' = [place EXCEPT ![h] = "taken"] /\ UNCHANGED <<stats, storedEvents, seen>>
    BY <1>1, <1>4, TailOf DEF DrainTakes
  <2>2. place[h] = "queued"
    BY <2>1 DEF QueueInOrder
  <2>3. InOrder(place, storedEvents, stats, seen)
    BY <1>2, <2>1
  <2>4. \A e \in Events : place[e] \notin {"taken", "read"}
    BY <1>3, <2>1 DEF ByDrain, InWriting
  <2>5. \A e \in Events : place[e] = "queued" => e = h \/ h < e
    <3>1. \A n \in DOMAIN buffer : n \in Nat /\ (n # 1 => 1 < n)
      BY <1>1
    <3>. QED  BY <2>1, <3>1 DEF QueueInOrder
  <2>. HIDE DEF h
  <2>6. \A e \in Events : place'[e] = IF e = h THEN "taken" ELSE place[e]
    BY <1>1, <2>1
  <2>7. \A n \in DOMAIN storedEvents : storedEvents[n] \in Events
    BY <1>1
  <2>8. ASSUME NEW n \in DOMAIN storedEvents
        PROVE  /\ place'[storedEvents[n]] \notin {"nowhere", "queued", "taken", "read"}
               /\ \A e \in Events : place'[e] \in {"queued", "taken", "read"} => storedEvents[n] < e
    BY <2>1, <2>2, <2>3, <2>6, <2>7 DEF InOrder
  <2>9. \A d, e \in Events : place'[d] \in {"taken", "read"} /\ place'[e] = "queued" => d < e
    BY <2>4, <2>5, <2>6
  <2>10. \A e \in Events : place'[e] # "read"
    BY <2>4, <2>6
  <2>. QED  BY <2>1, <2>3, <2>8, <2>9, <2>10 DEF InOrder
<1>5. ASSUME NEW e \in Events, TrackBuffered(e) PROVE InOrder(place', storedEvents', stats', seen')
  <2>1. /\ via' = [via EXCEPT ![e] = "drain"] /\ place' = [place EXCEPT ![e] = "queued"] /\ place[e] = "nowhere"
        /\ UNCHANGED <<stats, storedEvents, seen>>
    BY <1>5 DEF TrackBuffered, Goes, NextEvent
  <2>2. via[e] = "nobody"
    BY <2>1 DEF QueueInOrder
  <2>3. InOrder(place, storedEvents, stats, seen)
    BY <1>1, <1>2, <2>1, <2>2
  <2>. QED  BY <1>1, <2>1, <2>3, OrderStays
<1>6. ASSUME NEW e \in Events, Spawn(e) \/ TrackDurable(e) PROVE FALSE
  <2>1. via'[e] \in {"task", "caller"}
    BY <1>1, <1>6 DEF Spawn, TrackDurable, Goes
  <2>. QED  BY <2>1 DEF AllDrained
<1>7. ASSUME NEW e \in Events, ReadStats(e) PROVE InOrder(place', storedEvents', stats', seen')
  <2>1. /\ place[e] = "taken" /\ place' = [place EXCEPT ![e] = "read"] /\ seen' = [seen EXCEPT ![e] = stats]
        /\ UNCHANGED <<via, stats, storedEvents>>
    BY <1>7 DEF ReadStats
  <2>2. InOrder(place, storedEvents, stats, seen)
    BY <1>2, <2>1
  <2>3. \A d \in Events : /\ place'[d] = IF d = e THEN "read" ELSE place[d]
                          /\ seen'[d] = IF d = e THEN stats ELSE seen[d]
    BY <1>1, <2>1
  <2>4. \A n \in DOMAIN storedEvents : storedEvents[n] \in Events
    BY <1>1
  <2>. QED  BY <2>1, <2>2, <2>3, <2>4 DEF InOrder
<1>8. ASSUME NEW e \in Events, Store(e) PROVE InOrder(place', storedEvents', stats', seen')
  <2>1. /\ place[e] = "read" /\ place' = [place EXCEPT ![e] = "stored"] /\ stats' = seen[e] + 1
        /\ storedEvents' = Append(storedEvents, e) /\ via' = via
    BY <1>8 DEF Store
  <2>2. InOrder(place, storedEvents, stats, seen)
    BY <1>2, <2>1
  <2>3. \A d \in Events : place'[d] = IF d = e THEN "stored" ELSE place[d]
    BY <1>1, <2>1
  <2>4. \A d \in Events : place[d] \in {"taken", "read"} => d = e
    <3>1. e \in ByDrain /\ \A d \in Events : place[d] \in {"taken", "read"} => d \in ByDrain
      BY <1>3, <2>1 DEF ByDrain, InWriting
    <3>. QED  BY <3>1 DEF QueueInOrder
  <2>5. /\ \A n \in DOMAIN storedEvents' : \/ n = Len(storedEvents) + 1 /\ storedEvents'[n] = e
                                           \/ /\ n \in DOMAIN storedEvents /\ n <= Len(storedEvents)
                                              /\ storedEvents'[n] = storedEvents[n]
        /\ Len(storedEvents') = Len(storedEvents) + 1
    BY <1>1, <2>1, AppendOf
  <2>6. /\ Len(storedEvents) \in Nat /\ DOMAIN storedEvents \subseteq Nat
        /\ \A n \in DOMAIN storedEvents : storedEvents[n] \in Events
    BY <1>1
  <2>7. /\ \A n \in DOMAIN storedEvents : storedEvents[n] < e
        /\ \A d \in Events : place[d] = "queued" => e < d
    BY <2>1, <2>2 DEF InOrder
  <2>8. Increasing(storedEvents')
    BY <2>2, <2>5, <2>6, <2>7 DEF InOrder, Increasing
  <2>9. stats' = Len(storedEvents')
    BY <2>1, <2>2, <2>5 DEF InOrder
  <2>10. ASSUME NEW n \in DOMAIN storedEvents'
         PROVE  /\ place'[storedEvents'[n]] \notin {"nowhere", "queued", "taken", "read"}
                /\ \A d \in Events : place'[d] \in {"queued", "taken", "read"} => storedEvents'[n] < d
    <3>1. CASE storedEvents'[n] = e
      BY <2>3, <2>4, <2>7, <3>1
    <3>2. CASE n \in DOMAIN storedEvents /\ storedEvents'[n] = storedEvents[n]
      BY <2>2, <2>3, <2>6, <3>2 DEF InOrder
    <3>. QED  BY <2>5, <3>1, <3>2
  <2>11. \A d \in Events : place'[d] \notin {"taken", "read"}
    BY <2>3, <2>4
  <2>. QED  BY <2>8, <2>9, <2>10, <2>11 DEF InOrder
<1>9. ASSUME NEW e \in Events, AttributionEnds(e) \/ DropEvent(e) PROVE InOrder(place', storedEvents', stats', seen')
  <2>1. PICK p \in {"done", "dropped"} :
            /\ place' = [place EXCEPT ![e] = p] /\ place[e] # "nowhere" /\ UNCHANGED <<via, stats, storedEvents, seen>>
    BY <1>9 DEF AttributionEnds, DropEvent
  <2>2. InOrder(place, storedEvents, stats, seen)
    BY <1>2, <2>1
  <2>. QED  BY <1>1, <2>1, <2>2, OrderStays
<1>10. ASSUME NEW f \in Flushers, Flush(f) \/ Gather(f) \/ FlushReturns(f) \/ CloseReturns(f)
       PROVE  InOrder(place', storedEvents', stats', seen')
  <2>1. /\ UNCHANGED <<via, stats, storedEvents, seen>>
        /\ \A e \in Events : \/ place'[e] = place[e]
                             \/ place[e] # "nowhere" /\ place'[e] = "cancelled"
    BY <1>10 DEF Flush, Gather, FlushReturns, CloseReturns, ByDrain, InWriting
  <2>2. InOrder(place, storedEvents, stats, seen)
    BY <1>2, <2>1
  <2>. QED  BY <2>1, <2>2, OrderStays
<1>11. CASE UNCHANGED eventIngestVars
  <2>1. UNCHANGED <<via, stats, storedEvents, seen, place>>
    BY <1>11 DEF eventIngestVars
  <2>. QED  BY <1>2, <2>1, OrderStays
<1>. QED  BY <1>4, <1>5, <1>6, <1>7, <1>8, <1>9, <1>10, <1>11 DEF EventIngestNext

-----------------------------------------------------------------------------
LEMMA InvariantOfEventIngest == EventIngestSpec => []EventIngestInv
<1>1. EventIngestInv /\ [EventIngestNext]_eventIngestVars => EventIngestInv'
  BY TypesStay, QueueKeepsOrder, FlushersGoOnWaiting, DrainedStayInOrder DEF EventIngestInv
<1>. QED  BY <1>1, EventIngestStarts, PTL DEF EventIngestSpec

\* Every variable of the event service keeps its type, and the buffer its size.
THEOREM EventIngestTypeCorrect == EventIngestSpec => []EventIngestTypeOK
<1>1. EventIngestInv => EventIngestTypeOK
  BY DEF EventIngestInv
<1>. QED  BY <1>1, InvariantOfEventIngest, PTL

\* What a step of the event service keeps to.
FlushedStep ==
    /\ \A f \in Flushers : flusher[f].pc = "gathering" /\ flusher'[f].pc = "idle" =>
          \A e \in flusher[f].before : place[e] \in Settled \cup {"cancelled"}
    /\ \A e \in Events : place'[e] = "cancelled" /\ place[e] # "cancelled" =>
          \A f \in Flushers : flusher[f].pc = "gathering" /\ flusher'[f].pc = "idle" => e \notin flusher[f].before
    /\ (\A e \in Events : via[e] \in {"nobody", "drain"}) =>
          Increasing(storedEvents) /\ stats = Len(storedEvents)

\* A caller of flush or close comes back when every event that was accepted before is written or
\* dropped, however the drain task, the tasks for the overflow and other callers interleave; and
\* what the drain task writes alone is written in the order it came, and counted
\* (event_service.py).
THEOREM FlushAlwaysDrains == EventIngestSpec => FlushDrains
<1>1. EventIngestInv /\ [EventIngestNext]_eventIngestVars => [FlushedStep]_eventIngestVars
  <2>. SUFFICES ASSUME EventIngestInv, EventIngestNext PROVE FlushedStep
    OBVIOUS
  <2>1. /\ flusher \in [Flushers -> Flusher] /\ place \in [Events -> Places]
        /\ via \in [Events -> {"nobody", "drain", "task", "caller"}]
    BY DEF EventIngestInv, EventIngestTypeOK
  <2>2. ASSUME NEW f \in Flushers, flusher[f].pc = "gathering", flusher'[f].pc = "idle" PROVE Gathered(f)
    <3>1. CASE \E g \in Flushers : Flush(g) \/ Gather(g)
      <4>1. PICK g \in Flushers : Flush(g) \/ Gather(g)
        BY <3>1
      <4>2. flusher[g].pc \in {"idle", "joined"}
        BY <4>1 DEF Flush, Gather
      <4>3. g # f => flusher'[f] = flusher[f]
        BY <2>1, <4>1 DEF Flush, Gather
      <4>. QED  BY <2>2, <4>2, <4>3
    <3>2. CASE \E g \in Flushers : FlushReturns(g) \/ CloseReturns(g)
      <4>1. PICK g \in Flushers : FlushReturns(g) \/ CloseReturns(g)
        BY <3>2
      <4>2. g # f => flusher'[f].pc # "idle"
        <5>1. [flusher[f] EXCEPT !.pc = "joined"].pc = "joined"
          BY <2>1, FlushersAreTyped
        <5>2. g # f => \/ flusher'[f] = flusher[f]
                       \/ flusher'[f] = [flusher[f] EXCEPT !.pc = "joined"]
          BY <2>1, <4>1 DEF FlushReturns, CloseReturns
        <5>. QED  BY <2>2, <5>1, <5>2
      <4>. QED  BY <2>2, <4>1, <4>2 DEF FlushReturns, CloseReturns
    <3>3. CASE Ingests
      <4>1. flusher'[f] = flusher[f] \/ flusher[f].pc = "joining"
        BY <2>1, <3>3 DEF Ingests, DrainTakes, TrackBuffered, Spawn, TrackDurable, Goes, ReadStats, Store, AttributionEnds,
            DropEvent, TaskDone
      <4>. QED  BY <2>2, <4>1
    <3>. QED  BY <3>1, <3>2, <3>3 DEF EventIngestNext, Ingests
  <2>3. ASSUME NEW f \in Flushers, flusher[f].pc = "gathering", Gathered(f), NEW e \in flusher[f].before
        PROVE  place[e] \in Settled \cup {"cancelled"}
    <3>1. e \in Events /\ via[e] \in {"drain", "task"} /\ place[e] \in Places
      BY <2>1, FlushersAreTyped DEF EventIngestInv, FlushersWait
    <3>2. CASE via[e] = "drain"
      BY <2>3, <3>2 DEF EventIngestInv, FlushersWait
    <3>3. CASE via[e] = "task"
      <4>1. place[e] \notin InWriting
        BY <2>3, <3>1, <3>3 DEF EventIngestInv, FlushersWait, Gathered, PendingTasks
      <4>2. place[e] \notin {"nowhere", "queued"}
        BY <3>1, <3>3 DEF EventIngestInv, QueueInOrder
      <4>. QED  BY <3>1, <4>1, <4>2 DEF Places, InWriting, Settled
    <3>. QED  BY <3>1, <3>2, <3>3
  <2>4. ASSUME NEW e \in Events, place'[e] = "cancelled", place[e] # "cancelled" PROVE place[e] \in InWriting
    BY <2>1, <2>4 DEF EventIngestNext, DrainTakes, TrackBuffered, Spawn, TrackDurable, Goes, ReadStats, Store,
        AttributionEnds, DropEvent, Flush, Gather, FlushReturns, CloseReturns, ByDrain
  <2>5. \A e \in Events : place[e] \in InWriting => place[e] \notin Settled \cup {"cancelled"}
    BY DEF InWriting, Settled
  <2>6. (\A e \in Events : via[e] \in {"nobody", "drain"}) => Increasing(storedEvents) /\ stats = Len(storedEvents)
    BY DEF EventIngestInv, DrainedInOrder, AllDrained, InOrder
  <2>. QED  BY <2>2, <2>3, <2>4, <2>5, <2>6 DEF FlushedStep
<1>2. [][FlushedStep]_eventIngestVars => FlushDrains
  BY PTL DEF FlushDrains, FlushedStep
<1>. QED  BY <1>1, <1>2, InvariantOfEventIngest, PTL DEF EventIngestSpec

-----------------------------------------------------------------------------
(***************************************************************************)
(* Health signals and their alarms (HealthSignals).                        *)
(***************************************************************************)
-----------------------------------------------------------------------------
(* Metrics that become worse do not make a status better *)

Critical(alerts) == \E a \in alerts : a.severity = "critical"

\* A status is as bad as another if what made the other critical, or no longer healthy, does so here.
LEMMA StatusIsMonotone ==
    ASSUME NEW new, NEW old, Critical(old) => Critical(new), old # {} => new # {}
    PROVE  Rank(StatusOf(new)) <= Rank(StatusOf(old))
BY DEF StatusOf, Rank, Critical

\* The metrics of sessions, what makes them critical, and what is worth a warning.
SessionNumbers == [completion : Int, expiry : Int, stale : Int, rejections : Int, drift : Int]
SessionCritical(m) ==
    \/ m.drift > 0
    \/ m.rejections > 0
    \/ volume >= 20 /\ OrHundred(m.completion) < 35
    \/ volume >= 20 /\ m.expiry > 35
SessionWarning(m) ==
    \/ volume >= 20 /\ OrHundred(m.completion) < 55
    \/ volume >= 20 /\ m.expiry > 20
    \/ m.stale >= 5

LEMMA SessionWorsens ==
    ASSUME volume \in Nat, NEW old \in SessionNumbers, NEW new \in SessionNumbers,
           AsBad(new, old), RatesOfZero(new) \subseteq RatesOfZero(old)
    PROVE  Rank(StatusOf(SessionAlerts(new))) <= Rank(StatusOf(SessionAlerts(old)))
<1>1. DOMAIN old = {"completion", "expiry", "stale", "rejections", "drift"}
      /\ DOMAIN new = {"completion", "expiry", "stale", "rejections", "drift"}
  BY DEF SessionNumbers
<1>2. \A k \in DOMAIN old :
        \/ new[k] = old[k]
        \/ k \notin Neutral /\ IF k \in LessIsWorse THEN new[k] < old[k] ELSE new[k] > old[k]
  BY DEF AsBad
<1>3. (new.completion = 0 => old.completion = 0)
  BY <1>1 DEF RatesOfZero
<1>4. /\ OrHundred(new.completion) <= OrHundred(old.completion)
      /\ new.expiry >= old.expiry
      /\ new.stale >= old.stale
      /\ new.rejections >= old.rejections
      /\ new.drift >= old.drift
  BY <1>1, <1>2, <1>3 DEF SessionNumbers, LessIsWorse, Neutral, OrHundred
<1>5. Critical(SessionAlerts(old)) => SessionCritical(old)
  BY DEF SessionCritical, SessionAlerts, Graded, Alert, Critical, SessionNumbers
<1>6. SessionCritical(old) => SessionCritical(new)
  BY <1>4 DEF SessionCritical, SessionNumbers, OrHundred
<1>7. SessionCritical(new) => Critical(SessionAlerts(new))
  <2>1. /\ new.drift > 0 =>
             [code |-> "reference_drift", severity |-> "critical"] \in SessionAlerts(new)
        /\ new.rejections > 0 =>
             [code |-> "generation_rejections", severity |-> "critical"] \in SessionAlerts(new)
        /\ volume >= 20 /\ OrHundred(new.completion) < 35 =>
             [code |-> "completion_low", severity |-> "critical"] \in SessionAlerts(new)
        /\ volume >= 20 /\ new.expiry > 35 =>
             [code |-> "expiry_high", severity |-> "critical"] \in SessionAlerts(new)
    BY DEF SessionAlerts, Graded, Alert, SessionNumbers
  <2> QED
    BY <2>1 DEF SessionCritical, Critical
<1>8. SessionAlerts(old) # {} => SessionCritical(old) \/ SessionWarning(old)
  <2>1. ASSUME NEW a \in SessionAlerts(old) PROVE SessionCritical(old) \/ SessionWarning(old)
    BY DEF SessionCritical, SessionWarning, SessionAlerts, Graded, Alert, SessionNumbers
  <2> QED
    BY <2>1
<1>9. SessionCritical(old) \/ SessionWarning(old) => SessionCritical(new) \/ SessionWarning(new)
  BY <1>4 DEF SessionCritical, SessionWarning, SessionNumbers, OrHundred
<1>10. SessionWarning(new) => SessionAlerts(new) # {}
  <2>1. /\ volume >= 20 /\ OrHundred(new.completion) < 55 =>
             \/ [code |-> "completion_low", severity |-> "warning"] \in SessionAlerts(new)
             \/ [code |-> "completion_low", severity |-> "critical"] \in SessionAlerts(new)
        /\ volume >= 20 /\ new.expiry > 20 =>
             \/ [code |-> "expiry_high", severity |-> "warning"] \in SessionAlerts(new)
             \/ [code |-> "expiry_high", severity |-> "critical"] \in SessionAlerts(new)
        /\ new.stale >= 5 =>
             [code |-> "stale_contracts", severity |-> "warning"] \in SessionAlerts(new)
    BY DEF SessionAlerts, Graded, Alert, SessionNumbers
  <2> QED
    BY <2>1 DEF SessionWarning
<1>11. Critical(SessionAlerts(new)) => SessionAlerts(new) # {}
  BY DEF Critical
<1> QED
  BY <1>5, <1>6, <1>7, <1>8, <1>9, <1>10, <1>11, StatusIsMonotone

\* The metrics of the daily loop, what makes them critical, and what is worth a warning.
DailyNumbers == [coverage : Int, completion : Int, gap : Int, mismatches : Int, violations : Int]
DailyCritical(m) ==
    \/ m.mismatches > 0
    \/ volume >= 10 /\ OrHundred(m.coverage) < 75
    \/ volume >= 20 /\ OrHundred(m.completion) < 35
    \/ m.gap >= 3
    \/ m.violations > 0
DailyWarning(m) ==
    \/ volume >= 10 /\ OrHundred(m.coverage) < 90
    \/ volume >= 20 /\ OrHundred(m.completion) < 55

LEMMA DailyWorsens ==
    ASSUME volume \in Nat, NEW old \in DailyNumbers, NEW new \in DailyNumbers,
           AsBad(new, old), RatesOfZero(new) \subseteq RatesOfZero(old)
    PROVE  Rank(StatusOf(DailyAlerts(new))) <= Rank(StatusOf(DailyAlerts(old)))
<1>1. DOMAIN old = {"coverage", "completion", "gap", "mismatches", "violations"}
      /\ DOMAIN new = {"coverage", "completion", "gap", "mismatches", "violations"}
  BY DEF DailyNumbers
<1>2. \A k \in DOMAIN old :
        \/ new[k] = old[k]
        \/ k \notin Neutral /\ IF k \in LessIsWorse THEN new[k] < old[k] ELSE new[k] > old[k]
  BY DEF AsBad
<1>3. (new.coverage = 0 => old.coverage = 0) /\ (new.completion = 0 => old.completion = 0)
  BY <1>1 DEF RatesOfZero
<1>4. /\ OrHundred(new.coverage) <= OrHundred(old.coverage)
      /\ OrHundred(new.completion) <= OrHundred(old.completion)
      /\ new.gap >= old.gap
      /\ new.mismatches >= old.mismatches
      /\ new.violations >= old.violations
  BY <1>1, <1>2, <1>3 DEF DailyNumbers, LessIsWorse, Neutral, OrHundred
<1>5. Critical(DailyAlerts(old)) => DailyCritical(old)
  BY DEF DailyCritical, DailyAlerts, Graded, Alert, Critical, DailyNumbers
<1>6. DailyCritical(old) => DailyCritical(new)
  BY <1>4 DEF DailyCritical, DailyNumbers, OrHundred
<1>7. DailyCritical(new) => Critical(DailyAlerts(new))
  <2>1. /\ new.mismatches > 0 =>
             [code |-> "reward_mismatch", severity |-> "critical"] \in DailyAlerts(new)
        /\ volume >= 10 /\ OrHundred(new.coverage) < 75 =>
             [code |-> "coverage_low", severity |-> "critical"] \in DailyAlerts(new)
        /\ volume >= 20 /\ OrHundred(new.completion) < 35 =>
             [code |-> "completion_low", severity |-> "critical"] \in DailyAlerts(new)
        /\ new.gap >= 3 =>
             [code |-> "unlock_gap", severity |-> "critical"] \in DailyAlerts(new)
        /\ new.violations > 0 =>
             [code |-> "shield_violation", severity |-> "critical"] \in DailyAlerts(new)
    BY DEF DailyAlerts, Graded, Alert, DailyNumbers
  <2> QED
    BY <2>1 DEF DailyCritical, Critical
<1>8. DailyAlerts(old) # {} => DailyCritical(old) \/ DailyWarning(old)
  <2>1. ASSUME NEW a \in DailyAlerts(old) PROVE DailyCritical(old) \/ DailyWarning(old)
    BY DEF DailyCritical, DailyWarning, DailyAlerts, Graded, Alert, DailyNumbers
  <2> QED
    BY <2>1
<1>9. DailyCritical(old) \/ DailyWarning(old) => DailyCritical(new) \/ DailyWarning(new)
  BY <1>4 DEF DailyCritical, DailyWarning, DailyNumbers, OrHundred
<1>10. DailyWarning(new) => DailyAlerts(new) # {}
  <2>1. /\ volume >= 10 /\ OrHundred(new.coverage) < 90 =>
             \/ [code |-> "coverage_low", severity |-> "warning"] \in DailyAlerts(new)
             \/ [code |-> "coverage_low", severity |-> "critical"] \in DailyAlerts(new)
        /\ volume >= 20 /\ OrHundred(new.completion) < 55 =>
             \/ [code |-> "completion_low", severity |-> "warning"] \in DailyAlerts(new)
             \/ [code |-> "completion_low", severity |-> "critical"] \in DailyAlerts(new)
    BY DEF DailyAlerts, Graded, Alert, DailyNumbers
  <2> QED
    BY <2>1 DEF DailyWarning
<1>11. Critical(DailyAlerts(new)) => DailyAlerts(new) # {}
  BY DEF Critical
<1> QED
  BY <1>5, <1>6, <1>7, <1>8, <1>9, <1>10, <1>11, StatusIsMonotone

\* The metrics of monetization, what makes them critical, and what is worth a warning.
MonetizationNumbers == [conversion : Int, dismissal : Int, fatigue : Int, mismatches : Int]
MonetizationCritical(m) ==
    \/ m.mismatches > 0
    \/ volume >= 25 /\ m.conversion < 3
MonetizationWarning(m) ==
    \/ volume >= 25 /\ m.dismissal > 55
    \/ volume >= 10 /\ 2 * m.fatigue > 7

LEMMA MonetizationWorsens ==
    ASSUME volume \in Nat, NEW old \in MonetizationNumbers, NEW new \in MonetizationNumbers,
           AsBad(new, old), RatesOfZero(new) \subseteq RatesOfZero(old)
    PROVE  Rank(StatusOf(MonetizationAlerts(new))) <= Rank(StatusOf(MonetizationAlerts(old)))
<1>1. DOMAIN old = {"conversion", "dismissal", "fatigue", "mismatches"}
      /\ DOMAIN new = {"conversion", "dismissal", "fatigue", "mismatches"}
  BY DEF MonetizationNumbers
<1>2. \A k \in DOMAIN old :
        \/ new[k] = old[k]
        \/ k \notin Neutral /\ IF k \in LessIsWorse THEN new[k] < old[k] ELSE new[k] > old[k]
  BY DEF AsBad
<1>3. /\ new.conversion <= old.conversion
      /\ new.dismissal >= old.dismissal
      /\ new.fatigue >= old.fatigue
      /\ new.mismatches >= old.mismatches
  BY <1>1, <1>2 DEF MonetizationNumbers, LessIsWorse, Neutral
<1>4. Critical(MonetizationAlerts(old)) => MonetizationCritical(old)
  BY DEF MonetizationCritical, MonetizationAlerts, Graded, Alert, Critical, MonetizationNumbers
<1>5. MonetizationCritical(old) => MonetizationCritical(new)
  BY <1>3 DEF MonetizationCritical, MonetizationNumbers
<1>6. MonetizationCritical(new) => Critical(MonetizationAlerts(new))
  <2>1. /\ new.mismatches > 0 =>
             [code |-> "stage_mismatch", severity |-> "critical"] \in MonetizationAlerts(new)
        /\ volume >= 25 /\ new.conversion < 3 =>
             [code |-> "conversion_low", severity |-> "critical"] \in MonetizationAlerts(new)
    BY DEF MonetizationAlerts, Graded, Alert, MonetizationNumbers
  <2> QED
    BY <2>1 DEF MonetizationCritical, Critical
<1>7. MonetizationAlerts(old) # {} => MonetizationCritical(old) \/ MonetizationWarning(old)
  <2>1. ASSUME NEW a \in MonetizationAlerts(old) PROVE MonetizationCritical(old) \/ MonetizationWarning(old)
    BY DEF MonetizationCritical, MonetizationWarning, MonetizationAlerts, Graded, Alert, MonetizationNumbers
  <2> QED
    BY <2>1
<1>8. MonetizationCritical(old) \/ MonetizationWarning(old) => MonetizationCritical(new) \/ MonetizationWarning(new)
  BY <1>3 DEF MonetizationCritical, MonetizationWarning, MonetizationNumbers
<1>9. MonetizationWarning(new) => MonetizationAlerts(new) # {}
  <2>1. /\ volume >= 25 /\ new.dismissal > 55 =>
             [code |-> "dismissal_high", severity |-> "warning"] \in MonetizationAlerts(new)
        /\ volume >= 10 /\ 2 * new.fatigue > 7 =>
             [code |-> "fatigue_high", severity |-> "warning"] \in MonetizationAlerts(new)
    BY DEF MonetizationAlerts, Graded, Alert, MonetizationNumbers
  <2> QED
    BY <2>1 DEF MonetizationWarning
<1>10. Critical(MonetizationAlerts(new)) => MonetizationAlerts(new) # {}
  BY DEF Critical
<1> QED
  BY <1>4, <1>5, <1>6, <1>7, <1>8, <1>9, <1>10, StatusIsMonotone

\* The metrics of learning, what makes them critical, and what is worth a warning.
LearningNumbers == [coverage : Int, missing : Int, generic : Int, undetected : Int]
LearningCritical(m) ==
    \/ volume >= 20 /\ OrHundred(m.coverage) < 30
    \/ volume >= 20 /\ m.missing > 10
LearningWarning(m) ==
    \/ volume >= 20 /\ OrHundred(m.coverage) < 50
    \/ volume >= 20 /\ m.generic > 40 /\ ~(m.missing > 10)
    \/ m.undetected > 0

LEMMA LearningWorsens ==
    ASSUME volume \in Nat, NEW old \in LearningNumbers, NEW new \in LearningNumbers,
           AsBad(new, old), RatesOfZero(new) \subseteq RatesOfZero(old)
    PROVE  Rank(StatusOf(LearningAlerts(new))) <= Rank(StatusOf(LearningAlerts(old)))
<1>1. DOMAIN old = {"coverage", "missing", "generic", "undetected"}
      /\ DOMAIN new = {"coverage", "missing", "generic", "undetected"}
  BY DEF LearningNumbers
<1>2. \A k \in DOMAIN old :
        \/ new[k] = old[k]
        \/ k \notin Neutral /\ IF k \in LessIsWorse THEN new[k] < old[k] ELSE new[k] > old[k]
  BY DEF AsBad
<1>3. (new.coverage = 0 => old.coverage = 0)
  BY <1>1 DEF RatesOfZero
<1>4. /\ OrHundred(new.coverage) <= OrHundred(old.coverage)
      /\ new.missing >= old.missing
      /\ new.generic >= old.generic
      /\ new.undetected >= old.undetected
  BY <1>1, <1>2, <1>3 DEF LearningNumbers, LessIsWorse, Neutral, OrHundred
<1>5. Critical(LearningAlerts(old)) => LearningCritical(old)
  BY DEF LearningCritical, LearningAlerts, Graded, Alert, Critical, LearningNumbers
<1>6. LearningCritical(old) => LearningCritical(new)
  BY <1>4 DEF LearningCritical, LearningNumbers, OrHundred
<1>7. LearningCritical(new) => Critical(LearningAlerts(new))
  <2>1. /\ volume >= 20 /\ OrHundred(new.coverage) < 30 =>
             [code |-> "coverage_low", severity |-> "critical"] \in LearningAlerts(new)
        /\ volume >= 20 /\ new.missing > 10 =>
             [code |-> "target_missing", severity |-> "critical"] \in LearningAlerts(new)
    BY DEF LearningAlerts, Graded, Alert, LearningNumbers
  <2> QED
    BY <2>1 DEF LearningCritical, Critical
<1>8. LearningAlerts(old) # {} => LearningCritical(old) \/ LearningWarning(old)
  <2>1. ASSUME NEW a \in LearningAlerts(old) PROVE LearningCritical(old) \/ LearningWarning(old)
    BY DEF LearningCritical, LearningWarning, LearningAlerts, Graded, Alert, LearningNumbers
  <2> QED
    BY <2>1
<1>9. LearningCritical(old) \/ LearningWarning(old) => LearningCritical(new) \/ LearningWarning(new)
  BY <1>4 DEF LearningCritical, LearningWarning, LearningNumbers, OrHundred
<1>10. LearningWarning(new) => LearningAlerts(new) # {}
  <2>1. /\ volume >= 20 /\ OrHundred(new.coverage) < 50 =>
             \/ [code |-> "coverage_low", severity |-> "warning"] \in LearningAlerts(new)
             \/ [code |-> "coverage_low", severity |-> "critical"] \in LearningAlerts(new)
        /\ volume >= 20 /\ new.generic > 40 /\ ~(new.missing > 10) =>
             [code |-> "target_generic", severity |-> "warning"] \in LearningAlerts(new)
        /\ new.undetected > 0 =>
             [code |-> "weak_areas_missing", severity |-> "warning"] \in LearningAlerts(new)
    BY DEF LearningAlerts, Graded, Alert, LearningNumbers
  <2> QED
    BY <2>1 DEF LearningWarning
<1>11. Critical(LearningAlerts(new)) => LearningAlerts(new) # {}
  BY DEF Critical
<1> QED
  BY <1>5, <1>6, <1>7, <1>8, <1>9, <1>10, <1>11, StatusIsMonotone

\* The metrics of content, what makes them critical, and what is worth a warning.
ContentNumbers == [rejection : Int, ambiguous : Int, weak : Int, target : Int, answer : Int]
ContentCritical(m) ==
    \/ volume >= 10 /\ m.rejection >= 15
    \/ m.target > 0
    \/ m.answer > 0
ContentWarning(m) ==
    \/ volume >= 10 /\ m.rejection >= 5
    \/ m.ambiguous > 0
    \/ m.weak > 0

LEMMA ContentWorsens ==
    ASSUME volume \in Nat, NEW old \in ContentNumbers, NEW new \in ContentNumbers,
           AsBad(new, old), RatesOfZero(new) \subseteq RatesOfZero(old)
    PROVE  Rank(StatusOf(ContentAlerts(new))) <= Rank(StatusOf(ContentAlerts(old)))
<1>1. DOMAIN old = {"rejection", "ambiguous", "weak", "target", "answer"}
      /\ DOMAIN new = {"rejection", "ambiguous", "weak", "target", "answer"}
  BY DEF ContentNumbers
<1>2. \A k \in DOMAIN old :
        \/ new[k] = old[k]
        \/ k \notin Neutral /\ IF k \in LessIsWorse THEN new[k] < old[k] ELSE new[k] > old[k]
  BY DEF AsBad
<1>3. /\ new.rejection >= old.rejection
      /\ new.ambiguous >= old.ambiguous
      /\ new.weak >= old.weak
      /\ new.target >= old.target
      /\ new.answer >= old.answer
  BY <1>1, <1>2 DEF ContentNumbers, LessIsWorse, Neutral
<1>4. Critical(ContentAlerts(old)) => ContentCritical(old)
  BY DEF ContentCritical, ContentAlerts, Graded, Alert, Critical, ContentNumbers
<1>5. ContentCritical(old) => ContentCritical(new)
  BY <1>3 DEF ContentCritical, ContentNumbers
<1>6. ContentCritical(new) => Critical(ContentAlerts(new))
  <2>1. /\ volume >= 10 /\ new.rejection >= 15 =>
             [code |-> "rejection_high", severity |-> "critical"] \in ContentAlerts(new)
        /\ new.target > 0 =>
             [code |-> "target_failures", severity |-> "critical"] \in ContentAlerts(new)
        /\ new.answer > 0 =>
             [code |-> "answer_failures", severity |-> "critical"] \in ContentAlerts(new)
    BY DEF ContentAlerts, Graded, Alert, ContentNumbers
  <2> QED
    BY <2>1 DEF ContentCritical, Critical
<1>7. ContentAlerts(old) # {} => ContentCritical(old) \/ ContentWarning(old)
  <2>1. ASSUME NEW a \in ContentAlerts(old) PROVE ContentCritical(old) \/ ContentWarning(old)
    BY DEF ContentCritical, ContentWarning, ContentAlerts, Graded, Alert, ContentNumbers
  <2> QED
    BY <2>1
<1>8. ContentCritical(old) \/ ContentWarning(old) => ContentCritical(new) \/ ContentWarning(new)
  BY <1>3 DEF ContentCritical, ContentWarning, ContentNumbers
<1>9. ContentWarning(new) => ContentAlerts(new) # {}
  <2>1. /\ volume >= 10 /\ new.rejection >= 5 =>
             \/ [code |-> "rejection_high", severity |-> "warning"] \in ContentAlerts(new)
             \/ [code |-> "rejection_high", severity |-> "critical"] \in ContentAlerts(new)
        /\ new.ambiguous > 0 =>
             [code |-> "ambiguous", severity |-> "warning"] \in ContentAlerts(new)
        /\ new.weak > 0 =>
             [code |-> "weak_distractors", severity |-> "warning"] \in ContentAlerts(new)
    BY DEF ContentAlerts, Graded, Alert, ContentNumbers
  <2> QED
    BY <2>1 DEF ContentWarning
<1>10. Critical(ContentAlerts(new)) => ContentAlerts(new) # {}
  BY DEF Critical
<1> QED
  BY <1>4, <1>5, <1>6, <1>7, <1>8, <1>9, <1>10, StatusIsMonotone

\* The metrics of one template, what makes them critical, and what is worth a warning.
TemplateNumbers == [rejection : Int, fixtures : Int, archived : Int, draft : Int]
TemplateCritical(m) ==
    \/ m.fixtures > 0 /\ m.archived = 0 /\ m.draft = 0
    \/ volume >= 5 /\ m.rejection >= 20
    \/ m.archived > 0
TemplateWarning(m) ==
    \/ m.fixtures > 0
    \/ volume >= 3 /\ m.rejection >= 10
    \/ ~(m.archived = 0 /\ m.draft = 0)

LEMMA TemplateWorsens ==
    ASSUME volume \in Nat, NEW old \in TemplateNumbers, NEW new \in TemplateNumbers,
           AsBad(new, old), RatesOfZero(new) \subseteq RatesOfZero(old)
    PROVE  Rank(StatusOf(TemplateAlerts(new))) <= Rank(StatusOf(TemplateAlerts(old)))
<1>1. DOMAIN old = {"rejection", "fixtures", "archived", "draft"}
      /\ DOMAIN new = {"rejection", "fixtures", "archived", "draft"}
  BY DEF TemplateNumbers
<1>2. \A k \in DOMAIN old :
        \/ new[k] = old[k]
        \/ k \notin Neutral /\ IF k \in LessIsWorse THEN new[k] < old[k] ELSE new[k] > old[k]
  BY DEF AsBad
<1>3. /\ new.rejection >= old.rejection
      /\ new.fixtures >= old.fixtures
      /\ new.archived = old.archived
      /\ new.draft = old.draft
  BY <1>1, <1>2 DEF TemplateNumbers, LessIsWorse, Neutral
<1>4. Critical(TemplateAlerts(old)) => TemplateCritical(old)
  BY DEF TemplateCritical, TemplateAlerts, Graded, Alert, Critical, TemplateNumbers
<1>5. TemplateCritical(old) => TemplateCritical(new)
  BY <1>3 DEF TemplateCritical, TemplateNumbers
<1>6. TemplateCritical(new) => Critical(TemplateAlerts(new))
  <2>1. /\ new.fixtures > 0 /\ new.archived = 0 /\ new.draft = 0 =>
             [code |-> "fixture_regression", severity |-> "critical"] \in TemplateAlerts(new)
        /\ volume >= 5 /\ new.rejection >= 20 =>
             [code |-> "rejection_high", severity |-> "critical"] \in TemplateAlerts(new)
        /\ new.archived > 0 =>
             [code |-> "inactive_overuse", severity |-> "critical"] \in TemplateAlerts(new)
    BY DEF TemplateAlerts, Graded, Alert, TemplateNumbers
  <2> QED
    BY <2>1 DEF TemplateCritical, Critical
<1>7. TemplateAlerts(old) # {} => TemplateCritical(old) \/ TemplateWarning(old)
  <2>1. ASSUME NEW a \in TemplateAlerts(old) PROVE TemplateCritical(old) \/ TemplateWarning(old)
    BY DEF TemplateCritical, TemplateWarning, TemplateAlerts, Graded, Alert, TemplateNumbers
  <2> QED
    BY <2>1
<1>8. TemplateCritical(old) \/ TemplateWarning(old) => TemplateCritical(new) \/ TemplateWarning(new)
  BY <1>3 DEF TemplateCritical, TemplateWarning, TemplateNumbers
<1>9. TemplateWarning(new) => TemplateAlerts(new) # {}
  <2>1. /\ new.fixtures > 0 =>
             \/ [code |-> "fixture_regression", severity |-> "warning"] \in TemplateAlerts(new)
             \/ [code |-> "fixture_regression", severity |-> "critical"] \in TemplateAlerts(new)
        /\ volume >= 3 /\ new.rejection >= 10 =>
             \/ [code |-> "rejection_high", severity |-> "warning"] \in TemplateAlerts(new)
             \/ [code |-> "rejection_high", severity |-> "critical"] \in TemplateAlerts(new)
        /\ ~(new.archived = 0 /\ new.draft = 0) =>
             \/ [code |-> "inactive_overuse", severity |-> "warning"] \in TemplateAlerts(new)
             \/ [code |-> "inactive_overuse", severity |-> "critical"] \in TemplateAlerts(new)
    BY DEF TemplateAlerts, Graded, Alert, TemplateNumbers
  <2> QED
    BY <2>1 DEF TemplateWarning
<1>10. Critical(TemplateAlerts(new)) => TemplateAlerts(new) # {}
  BY DEF Critical
<1> QED
  BY <1>4, <1>5, <1>6, <1>7, <1>8, <1>9, <1>10, StatusIsMonotone

\* The metrics of all templates, what makes them critical, and what is worth a warning.
TemplatesNumbers == [rejection : Int, activeFailed : Int, failed : Int, archivedUse : Int, inactiveUse : Int]
TemplatesCritical(m) ==
    \/ m.activeFailed > 0
    \/ volume >= 10 /\ m.rejection >= 15
    \/ m.archivedUse > 0 \/ m.inactiveUse >= 3
TemplatesWarning(m) ==
    \/ m.failed > 0
    \/ volume >= 5 /\ m.rejection >= 5
    \/ m.inactiveUse > 0

LEMMA TemplatesWorsens ==
    ASSUME volume \in Nat, NEW old \in TemplatesNumbers, NEW new \in TemplatesNumbers,
           AsBad(new, old), RatesOfZero(new) \subseteq RatesOfZero(old)
    PROVE  Rank(StatusOf(TemplatesAlerts(new))) <= Rank(StatusOf(TemplatesAlerts(old)))
<1>1. DOMAIN old = {"rejection", "activeFailed", "failed", "archivedUse", "inactiveUse"}
      /\ DOMAIN new = {"rejection", "activeFailed", "failed", "archivedUse", "inactiveUse"}
  BY DEF TemplatesNumbers
<1>2. \A k \in DOMAIN old :
        \/ new[k] = old[k]
        \/ k \notin Neutral /\ IF k \in LessIsWorse THEN new[k] < old[k] ELSE new[k] > old[k]
  BY DEF AsBad
<1>3. /\ new.rejection >= old.rejection
      /\ new.activeFailed >= old.activeFailed
      /\ new.failed >= old.failed
      /\ new.archivedUse >= old.archivedUse
      /\ new.inactiveUse >= old.inactiveUse
  BY <1>1, <1>2 DEF TemplatesNumbers, LessIsWorse, Neutral
<1>4. Critical(TemplatesAlerts(old)) => TemplatesCritical(old)
  BY DEF TemplatesCritical, TemplatesAlerts, Graded, Alert, Critical, TemplatesNumbers
<1>5. TemplatesCritical(old) => TemplatesCritical(new)
  BY <1>3 DEF TemplatesCritical, TemplatesNumbers
<1>6. TemplatesCritical(new) => Critical(TemplatesAlerts(new))
  <2>1. /\ new.activeFailed > 0 =>
             [code |-> "fixture_regression", severity |-> "critical"] \in TemplatesAlerts(new)
        /\ volume >= 10 /\ new.rejection >= 15 =>
             [code |-> "rejection_high", severity |-> "critical"] \in TemplatesAlerts(new)
        /\ new.archivedUse > 0 \/ new.inactiveUse >= 3 =>
             [code |-> "inactive_overuse", severity |-> "critical"] \in TemplatesAlerts(new)
    BY DEF TemplatesAlerts, Graded, Alert, TemplatesNumbers
  <2> QED
    BY <2>1 DEF TemplatesCritical, Critical
<1>7. TemplatesAlerts(old) # {} => TemplatesCritical(old) \/ TemplatesWarning(old)
  <2>1. ASSUME NEW a \in TemplatesAlerts(old) PROVE TemplatesCritical(old) \/ TemplatesWarning(old)
    BY DEF TemplatesCritical, TemplatesWarning, TemplatesAlerts, Graded, Alert, TemplatesNumbers
  <2> QED
    BY <2>1
<1>8. TemplatesCritical(old) \/ TemplatesWarning(old) => TemplatesCritical(new) \/ TemplatesWarning(new)
  BY <1>3 DEF TemplatesCritical, TemplatesWarning, TemplatesNumbers
<1>9. TemplatesWarning(new) => TemplatesAlerts(new) # {}
  <2>1. /\ new.failed > 0 =>
             \/ [code |-> "fixture_regression", severity |-> "warning"] \in TemplatesAlerts(new)
             \/ [code |-> "fixture_regression", severity |-> "critical"] \in TemplatesAlerts(new)
        /\ volume >= 5 /\ new.rejection >= 5 =>
             \/ [code |-> "rejection_high", severity |-> "warning"] \in TemplatesAlerts(new)
             \/ [code |-> "rejection_high", severity |-> "critical"] \in TemplatesAlerts(new)
        /\ new.inactiveUse > 0 =>
             \/ [code |-> "inactive_overuse", severity |-> "warning"] \in TemplatesAlerts(new)
             \/ [code |-> "inactive_overuse", severity |-> "critical"] \in TemplatesAlerts(new)
    BY DEF TemplatesAlerts, Graded, Alert, TemplatesNumbers
  <2> QED
    BY <2>1 DEF TemplatesWarning
<1>10. Critical(TemplatesAlerts(new)) => TemplatesAlerts(new) # {}
  BY DEF Critical
<1> QED
  BY <1>4, <1>5, <1>6, <1>7, <1>8, <1>9, <1>10, StatusIsMonotone

\* The metrics of an experiment, what makes them critical, and what is worth a warning.
ExperimentNumbers == [coverage : Int, gap : 0 .. volume]
ExperimentCritical(m) ==
    \/ volume >= 5 /\ m.gap = volume
    \/ m.gap >= 10
ExperimentWarning(m) ==
    \/ volume >= 5 /\ m.gap # volume /\ m.coverage < 95

LEMMA ExperimentWorsens ==
    ASSUME volume \in Nat, NEW old \in ExperimentNumbers, NEW new \in ExperimentNumbers,
           AsBad(new, old), RatesOfZero(new) \subseteq RatesOfZero(old)
    PROVE  Rank(StatusOf(ExperimentAlerts(new))) <= Rank(StatusOf(ExperimentAlerts(old)))
<1>1. DOMAIN old = {"coverage", "gap"}
      /\ DOMAIN new = {"coverage", "gap"}
  BY DEF ExperimentNumbers
<1>2. \A k \in DOMAIN old :
        \/ new[k] = old[k]
        \/ k \notin Neutral /\ IF k \in LessIsWorse THEN new[k] < old[k] ELSE new[k] > old[k]
  BY DEF AsBad
<1>3. /\ new.coverage <= old.coverage
      /\ new.gap >= old.gap
  BY <1>1, <1>2 DEF ExperimentNumbers, LessIsWorse, Neutral
<1>4. Critical(ExperimentAlerts(old)) => ExperimentCritical(old)
  BY DEF ExperimentCritical, ExperimentAlerts, Graded, Alert, Critical, ExperimentNumbers
<1>5. ExperimentCritical(old) => ExperimentCritical(new)
  BY <1>3 DEF ExperimentCritical, ExperimentNumbers
<1>6. ExperimentCritical(new) => Critical(ExperimentAlerts(new))
  <2>1. /\ volume >= 5 /\ new.gap = volume =>
             [code |-> "no_exposures", severity |-> "critical"] \in ExperimentAlerts(new)
        /\ new.gap >= 10 =>
             [code |-> "gap_high", severity |-> "critical"] \in ExperimentAlerts(new)
    BY DEF ExperimentAlerts, Graded, Alert, ExperimentNumbers
  <2> QED
    BY <2>1 DEF ExperimentCritical, Critical
<1>7. ExperimentAlerts(old) # {} => ExperimentCritical(old) \/ ExperimentWarning(old)
  <2>1. ASSUME NEW a \in ExperimentAlerts(old) PROVE ExperimentCritical(old) \/ ExperimentWarning(old)
    BY DEF ExperimentCritical, ExperimentWarning, ExperimentAlerts, Graded, Alert, ExperimentNumbers
  <2> QED
    BY <2>1
<1>8. ExperimentCritical(old) \/ ExperimentWarning(old) => ExperimentCritical(new) \/ ExperimentWarning(new)
  BY <1>3 DEF ExperimentCritical, ExperimentWarning, ExperimentNumbers
<1>9. ExperimentWarning(new) => ExperimentAlerts(new) # {}
  <2>1. /\ volume >= 5 /\ new.gap # volume /\ new.coverage < 95 =>
             [code |-> "coverage_low", severity |-> "warning"] \in ExperimentAlerts(new)
    BY DEF ExperimentAlerts, Graded, Alert, ExperimentNumbers
  <2> QED
    BY <2>1 DEF ExperimentWarning
<1>10. Critical(ExperimentAlerts(new)) => ExperimentAlerts(new) # {}
  BY DEF Critical
<1> QED
  BY <1>4, <1>5, <1>6, <1>7, <1>8, <1>9, <1>10, StatusIsMonotone

\* The metrics of a notification policy, what makes them critical, and what is worth a warning.
PolicyNumbers == [failed : Int, outcomes : Int, suppressed : Int, drop : Int]
PolicyCritical(m) ==
    \/ volume >= 25 /\ m.failed > 8
    \/ volume >= 25 /\ m.drop > 20
PolicyWarning(m) ==
    \/ m.outcomes >= 25 /\ m.suppressed > 45

LEMMA PolicyWorsens ==
    ASSUME volume \in Nat, NEW old \in PolicyNumbers, NEW new \in PolicyNumbers,
           AsBad(new, old), RatesOfZero(new) \subseteq RatesOfZero(old)
    PROVE  Rank(StatusOf(PolicyAlerts(new))) <= Rank(StatusOf(PolicyAlerts(old)))
<1>1. DOMAIN old = {"failed", "outcomes", "suppressed", "drop"}
      /\ DOMAIN new = {"failed", "outcomes", "suppressed", "drop"}
  BY DEF PolicyNumbers
<1>2. \A k \in DOMAIN old :
        \/ new[k] = old[k]
        \/ k \notin Neutral /\ IF k \in LessIsWorse THEN new[k] < old[k] ELSE new[k] > old[k]
  BY DEF AsBad
<1>3. /\ new.failed >= old.failed
      /\ new.outcomes = old.outcomes
      /\ new.suppressed >= old.suppressed
      /\ new.drop >= old.drop
  BY <1>1, <1>2 DEF PolicyNumbers, LessIsWorse, Neutral
<1>4. Critical(PolicyAlerts(old)) => PolicyCritical(old)
  BY DEF PolicyCritical, PolicyAlerts, Graded, Alert, Critical, PolicyNumbers
<1>5. PolicyCritical(old) => PolicyCritical(new)
  BY <1>3 DEF PolicyCritical, PolicyNumbers
<1>6. PolicyCritical(new) => Critical(PolicyAlerts(new))
  <2>1. /\ volume >= 25 /\ new.failed > 8 =>
             [code |-> "failed_high", severity |-> "critical"] \in PolicyAlerts(new)
        /\ volume >= 25 /\ new.drop > 20 =>
             [code |-> "send_rate_regression", severity |-> "critical"] \in PolicyAlerts(new)
    BY DEF PolicyAlerts, Graded, Alert, PolicyNumbers
  <2> QED
    BY <2>1 DEF PolicyCritical, Critical
<1>7. PolicyAlerts(old) # {} => PolicyCritical(old) \/ PolicyWarning(old)
  <2>1. ASSUME NEW a \in PolicyAlerts(old) PROVE PolicyCritical(old) \/ PolicyWarning(old)
    BY DEF PolicyCritical, PolicyWarning, PolicyAlerts, Graded, Alert, PolicyNumbers
  <2> QED
    BY <2>1
<1>8. PolicyCritical(old) \/ PolicyWarning(old) => PolicyCritical(new) \/ PolicyWarning(new)
  BY <1>3 DEF PolicyCritical, PolicyWarning, PolicyNumbers
<1>9. PolicyWarning(new) => PolicyAlerts(new) # {}
  <2>1. /\ new.outcomes >= 25 /\ new.suppressed > 45 =>
             [code |-> "suppression_high", severity |-> "warning"] \in PolicyAlerts(new)
    BY DEF PolicyAlerts, Graded, Alert, PolicyNumbers
  <2> QED
    BY <2>1 DEF PolicyWarning
<1>10. Critical(PolicyAlerts(new)) => PolicyAlerts(new) # {}
  BY DEF Critical
<1> QED
  BY <1>4, <1>5, <1>6, <1>7, <1>8, <1>9, <1>10, StatusIsMonotone

\* The metrics of the lifecycle, what makes them critical, and what is worth a warning.
LifecycleNumbers == [churned : Int, atRisk : Int, transitions : Nat, suppressed : Int, mismatches : Int]
LifecycleCritical(m) ==
    \/ m.mismatches > 0
    \/ volume >= 20 /\ m.churned >= 20
    \/ m.suppressed > 0
LifecycleWarning(m) ==
    \/ volume >= 20 /\ m.atRisk >= 35 /\ m.churned < 20
    \/ volume >= 20 /\ m.transitions = 0

LEMMA LifecycleWorsens ==
    ASSUME volume \in Nat, NEW old \in LifecycleNumbers, NEW new \in LifecycleNumbers,
           AsBad(new, old), RatesOfZero(new) \subseteq RatesOfZero(old)
    PROVE  Rank(StatusOf(LifecycleAlerts(new))) <= Rank(StatusOf(LifecycleAlerts(old)))
<1>1. DOMAIN old = {"churned", "atRisk", "transitions", "suppressed", "mismatches"}
      /\ DOMAIN new = {"churned", "atRisk", "transitions", "suppressed", "mismatches"}
  BY DEF LifecycleNumbers
<1>2. \A k \in DOMAIN old :
        \/ new[k] = old[k]
        \/ k \notin Neutral /\ IF k \in LessIsWorse THEN new[k] < old[k] ELSE new[k] > old[k]
  BY DEF AsBad
<1>3. /\ new.churned >= old.churned
      /\ new.atRisk >= old.atRisk
      /\ new.transitions <= old.transitions
      /\ new.suppressed >= old.suppressed
      /\ new.mismatches >= old.mismatches
  BY <1>1, <1>2 DEF LifecycleNumbers, LessIsWorse, Neutral
<1>4. Critical(LifecycleAlerts(old)) => LifecycleCritical(old)
  BY DEF LifecycleCritical, LifecycleAlerts, Graded, Alert, Critical, LifecycleNumbers
<1>5. LifecycleCritical(old) => LifecycleCritical(new)
  BY <1>3 DEF LifecycleCritical, LifecycleNumbers
<1>6. LifecycleCritical(new) => Critical(LifecycleAlerts(new))
  <2>1. /\ new.mismatches > 0 =>
             [code |-> "state_drift", severity |-> "critical"] \in LifecycleAlerts(new)
        /\ volume >= 20 /\ new.churned >= 20 =>
             [code |-> "churned_high", severity |-> "critical"] \in LifecycleAlerts(new)
        /\ new.suppressed > 0 =>
             [code |-> "recovery_blocked", severity |-> "critical"] \in LifecycleAlerts(new)
    BY DEF LifecycleAlerts, Graded, Alert, LifecycleNumbers
  <2> QED
    BY <2>1 DEF LifecycleCritical, Critical
<1>7. LifecycleAlerts(old) # {} => LifecycleCritical(old) \/ LifecycleWarning(old)
  <2>1. ASSUME NEW a \in LifecycleAlerts(old) PROVE LifecycleCritical(old) \/ LifecycleWarning(old)
    BY DEF LifecycleCritical, LifecycleWarning, LifecycleAlerts, Graded, Alert, LifecycleNumbers
  <2> QED
    BY <2>1
<1>8. LifecycleCritical(old) \/ LifecycleWarning(old) => LifecycleCritical(new) \/ LifecycleWarning(new)
  BY <1>3 DEF LifecycleCritical, LifecycleWarning, LifecycleNumbers
<1>9. LifecycleWarning(new) => LifecycleAlerts(new) # {}
  <2>1. /\ volume >= 20 /\ new.atRisk >= 35 /\ new.churned < 20 =>
             [code |-> "at_risk_high", severity |-> "warning"] \in LifecycleAlerts(new)
        /\ volume >= 20 /\ new.transitions = 0 =>
             [code |-> "flow_stalled", severity |-> "warning"] \in LifecycleAlerts(new)
    BY DEF LifecycleAlerts, Graded, Alert, LifecycleNumbers
  <2> QED
    BY <2>1 DEF LifecycleWarning
<1>10. Critical(LifecycleAlerts(new)) => LifecycleAlerts(new) # {}
  BY DEF Critical
<1> QED
  BY <1>4, <1>5, <1>6, <1>7, <1>8, <1>9, <1>10, StatusIsMonotone

\* The metrics of a recovery stage, what makes them critical, and what is worth a warning.
RecoveryNumbers == [transitions : Nat, suppressed : Int, mismatches : Int]
RecoveryCritical(m) ==
    \/ m.mismatches > 0
    \/ volume >= 5 /\ m.suppressed > 0
RecoveryWarning(m) ==
    \/ volume >= 5 /\ m.transitions = 0 /\ m.suppressed = 0

LEMMA RecoveryWorsens ==
    ASSUME volume \in Nat, NEW old \in RecoveryNumbers, NEW new \in RecoveryNumbers,
           AsBad(new, old), RatesOfZero(new) \subseteq RatesOfZero(old)
    PROVE  Rank(StatusOf(RecoveryAlerts(new))) <= Rank(StatusOf(RecoveryAlerts(old)))
<1>1. DOMAIN old = {"transitions", "suppressed", "mismatches"}
      /\ DOMAIN new = {"transitions", "suppressed", "mismatches"}
  BY DEF RecoveryNumbers
<1>2. \A k \in DOMAIN old :
        \/ new[k] = old[k]
        \/ k \notin Neutral /\ IF k \in LessIsWorse THEN new[k] < old[k] ELSE new[k] > old[k]
  BY DEF AsBad
<1>3. /\ new.transitions <= old.transitions
      /\ new.suppressed >= old.suppressed
      /\ new.mismatches >= old.mismatches
  BY <1>1, <1>2 DEF RecoveryNumbers, LessIsWorse, Neutral
<1>4. Critical(RecoveryAlerts(old)) => RecoveryCritical(old)
  BY DEF RecoveryCritical, RecoveryAlerts, Graded, Alert, Critical, RecoveryNumbers
<1>5. RecoveryCritical(old) => RecoveryCritical(new)
  BY <1>3 DEF RecoveryCritical, RecoveryNumbers
<1>6. RecoveryCritical(new) => Critical(RecoveryAlerts(new))
  <2>1. /\ new.mismatches > 0 =>
             [code |-> "state_drift", severity |-> "critical"] \in RecoveryAlerts(new)
        /\ volume >= 5 /\ new.suppressed > 0 =>
             [code |-> "recovery_blocked", severity |-> "critical"] \in RecoveryAlerts(new)
    BY DEF RecoveryAlerts, Graded, Alert, RecoveryNumbers
  <2> QED
    BY <2>1 DEF RecoveryCritical, Critical
<1>7. RecoveryAlerts(old) # {} => RecoveryCritical(old) \/ RecoveryWarning(old)
  <2>1. ASSUME NEW a \in RecoveryAlerts(old) PROVE RecoveryCritical(old) \/ RecoveryWarning(old)
    BY DEF RecoveryCritical, RecoveryWarning, RecoveryAlerts, Graded, Alert, RecoveryNumbers
  <2> QED
    BY <2>1
<1>8. RecoveryCritical(old) \/ RecoveryWarning(old) => RecoveryCritical(new) \/ RecoveryWarning(new)
  BY <1>3 DEF RecoveryCritical, RecoveryWarning, RecoveryNumbers
<1>9. RecoveryWarning(new) => RecoveryAlerts(new) # {}
  <2>1. /\ volume >= 5 /\ new.transitions = 0 /\ new.suppressed = 0 =>
             [code |-> "flow_stalled", severity |-> "warning"] \in RecoveryAlerts(new)
    BY DEF RecoveryAlerts, Graded, Alert, RecoveryNumbers
  <2> QED
    BY <2>1 DEF RecoveryWarning
<1>10. Critical(RecoveryAlerts(new)) => RecoveryAlerts(new) # {}
  BY DEF Critical
<1> QED
  BY <1>4, <1>5, <1>6, <1>7, <1>8, <1>9, <1>10, StatusIsMonotone
-----------------------------------------------------------------------------
(* The metrics are numbers *)

LEMMA PercentIsANumber ==
    ASSUME volume \in Nat \ {0}
    PROVE  \A n \in Nat : Percent(n) \in Int
BY DEF Percent

LEMMA MetricsAreNumbers ==
    ASSUME volume \in Nat \ {0}
    PROVE  /\ \A c \in [Counts("session") -> Nat] : SessionMetrics(c) \in SessionNumbers
           /\ \A c \in [Counts("daily") -> Nat] : DailyMetrics(c) \in DailyNumbers
           /\ \A c \in [Counts("monetization") -> Nat] : MonetizationMetrics(c) \in MonetizationNumbers
           /\ \A c \in [Counts("learning") -> Nat] : LearningMetrics(c) \in LearningNumbers
           /\ \A c \in [Counts("content") -> Nat] : ContentMetrics(c) \in ContentNumbers
           /\ \A c \in [Counts("template") -> Nat] : TemplateMetrics(c) \in TemplateNumbers
           /\ \A c \in [Counts("templates") -> Nat] : TemplatesMetrics(c) \in TemplatesNumbers
           /\ \A c \in [Counts("experiment") -> Nat] : ExperimentMetrics(c) \in ExperimentNumbers
           /\ \A c \in [Counts("policy") -> Nat] : PolicyMetrics(c) \in PolicyNumbers
           /\ \A c \in [Counts("lifecycle") -> Nat] : LifecycleMetrics(c) \in LifecycleNumbers
           /\ \A c \in [Counts("recovery") -> Nat] : c \in RecoveryNumbers
<1>1. \A n \in Nat : Percent(n) \in Int
  BY PercentIsANumber
<1>2. \A c \in [Counts("session") -> Nat] : SessionMetrics(c) \in SessionNumbers
  BY <1>1 DEF Counts, ShareCounts, FewCounts, SessionMetrics, SessionNumbers
<1>3. \A c \in [Counts("daily") -> Nat] : DailyMetrics(c) \in DailyNumbers
  BY <1>1 DEF Counts, ShareCounts, FewCounts, DailyMetrics, DailyNumbers, Gap
<1>4. \A c \in [Counts("monetization") -> Nat] : MonetizationMetrics(c) \in MonetizationNumbers
  BY <1>1 DEF Counts, ShareCounts, FewCounts, MonetizationMetrics, MonetizationNumbers
<1>5. \A c \in [Counts("learning") -> Nat] : LearningMetrics(c) \in LearningNumbers
  BY <1>1 DEF Counts, ShareCounts, FewCounts, LearningMetrics, LearningNumbers
<1>6. \A c \in [Counts("content") -> Nat] : ContentMetrics(c) \in ContentNumbers
  BY <1>1 DEF Counts, ShareCounts, FewCounts, ContentMetrics, ContentNumbers
<1>7. \A c \in [Counts("template") -> Nat] : TemplateMetrics(c) \in TemplateNumbers
  BY <1>1 DEF Counts, ShareCounts, FewCounts, TemplateMetrics, TemplateNumbers
<1>8. \A c \in [Counts("templates") -> Nat] : TemplatesMetrics(c) \in TemplatesNumbers
  BY <1>1 DEF Counts, ShareCounts, FewCounts, TemplatesMetrics, TemplatesNumbers
<1>9. \A c \in [Counts("experiment") -> Nat] : ExperimentMetrics(c) \in ExperimentNumbers
  BY <1>1 DEF Counts, ShareCounts, FewCounts, ExperimentMetrics, ExperimentNumbers, Gap
<1>10. \A c \in [Counts("policy") -> Nat] : PolicyMetrics(c) \in PolicyNumbers
  BY <1>1 DEF Counts, ShareCounts, FewCounts, PolicyMetrics, PolicyNumbers, Gap
<1>11. \A c \in [Counts("lifecycle") -> Nat] : LifecycleMetrics(c) \in LifecycleNumbers
  BY <1>1 DEF Counts, ShareCounts, FewCounts, LifecycleMetrics, LifecycleNumbers
<1>12. \A c \in [Counts("recovery") -> Nat] : c \in RecoveryNumbers
  BY DEF Counts, ShareCounts, FewCounts, RecoveryNumbers
<1> QED
  BY <1>2, <1>3, <1>4, <1>5, <1>6, <1>7, <1>8, <1>9, <1>10, <1>11, <1>12

\* What the counts of a subsystem say: metrics that only became worse do not look healthier.
LEMMA WorseLooksNoBetter ==
    ASSUME volume \in Nat \ {0}, subject \in Subjects,
           NEW old \in [Counts(subject) -> Nat], NEW new \in [Counts(subject) -> Nat],
           AsBad(Metrics(new), Metrics(old)), RatesOfZero(Metrics(new)) \subseteq RatesOfZero(Metrics(old))
    PROVE  Rank(Status(new)) <= Rank(Status(old))
<1>1. CASE subject = "session"
  BY <1>1, MetricsAreNumbers, SessionWorsens DEF Metrics, Alerts, Status
<1>2. CASE subject = "daily"
  BY <1>2, MetricsAreNumbers, DailyWorsens DEF Metrics, Alerts, Status
<1>3. CASE subject = "monetization"
  BY <1>3, MetricsAreNumbers, MonetizationWorsens DEF Metrics, Alerts, Status
<1>4. CASE subject = "learning"
  BY <1>4, MetricsAreNumbers, LearningWorsens DEF Metrics, Alerts, Status
<1>5. CASE subject = "content"
  BY <1>5, MetricsAreNumbers, ContentWorsens DEF Metrics, Alerts, Status
<1>6. CASE subject = "template"
  BY <1>6, MetricsAreNumbers, TemplateWorsens DEF Metrics, Alerts, Status
<1>7. CASE subject = "templates"
  BY <1>7, MetricsAreNumbers, TemplatesWorsens DEF Metrics, Alerts, Status
<1>8. CASE subject = "experiment"
  BY <1>8, MetricsAreNumbers, ExperimentWorsens DEF Metrics, Alerts, Status
<1>9. CASE subject = "policy"
  BY <1>9, MetricsAreNumbers, PolicyWorsens DEF Metrics, Alerts, Status
<1>10. CASE subject = "lifecycle"
  BY <1>10, MetricsAreNumbers, LifecycleWorsens DEF Metrics, Alerts, Status
<1>11. CASE subject = "recovery"
  BY <1>11, MetricsAreNumbers, RecoveryWorsens DEF Metrics, Alerts, Status
<1> QED
  BY <1>1, <1>2, <1>3, <1>4, <1>5, <1>6, <1>7, <1>8, <1>9, <1>10, <1>11 DEF Subjects
-----------------------------------------------------------------------------
(* What the accounts of alerts rest on: a row has finitely many codes *)

LEMMA AlertIsFinite == \A is, code, severity : IsFiniteSet(Alert(is, code, severity))
<1> TAKE is, code, severity
<1>1. IsFiniteSet({}) /\ IsFiniteSet({[code |-> code, severity |-> severity]})
  BY FS_EmptySet, FS_Singleton
<1> QED
  BY <1>1 DEF Alert

LEMMA UnionIsFinite == \A A, B : IsFiniteSet(A) /\ IsFiniteSet(B) => IsFiniteSet(A \cup B)
BY FS_Union

LEMMA ThreeAreFinite ==
    \A A, B, C : IsFiniteSet(A) /\ IsFiniteSet(B) /\ IsFiniteSet(C) => IsFiniteSet(A \cup B \cup C)
BY UnionIsFinite, Zenon

LEMMA FourAreFinite ==
    \A A, B, C, D : IsFiniteSet(A) /\ IsFiniteSet(B) /\ IsFiniteSet(C) /\ IsFiniteSet(D) => IsFiniteSet(A \cup B \cup C \cup D)
BY UnionIsFinite, Zenon

LEMMA FiveAreFinite ==
    \A A, B, C, D, E : IsFiniteSet(A) /\ IsFiniteSet(B) /\ IsFiniteSet(C) /\ IsFiniteSet(D) /\ IsFiniteSet(E)
        => IsFiniteSet(A \cup B \cup C \cup D \cup E)
BY UnionIsFinite, Zenon

LEMMA GradedIsFinite == \A critical, warning, code : IsFiniteSet(Graded(critical, warning, code))
BY AlertIsFinite, UnionIsFinite, Zenon DEF Graded

LEMMA AlertsAreFinite == \A m : subject \in Subjects => IsFiniteSet(Alerts(m))
<1>1. \A m : IsFiniteSet(SessionAlerts(m))
  <2> TAKE m
  <2>1. PICK A, B, C, D, E :
           /\ A = Alert(m.drift > 0, "reference_drift", "critical")
           /\ B = Alert(m.rejections > 0, "generation_rejections", "critical")
           /\ C = Graded(OrHundred(m.completion) < 35, OrHundred(m.completion) < 55, "completion_low")
           /\ D = Graded(m.expiry > 35, m.expiry > 20, "expiry_high")
           /\ E = Alert(m.stale >= 5, "stale_contracts", "warning")
    OBVIOUS
  <2>2. SessionAlerts(m) = A \cup B \cup (IF volume < 20 THEN {} ELSE C \cup D) \cup E
    BY <2>1, Zenon DEF SessionAlerts
  <2>3. IsFiniteSet(A) /\ IsFiniteSet(B) /\ IsFiniteSet(C) /\ IsFiniteSet(D) /\ IsFiniteSet(E)
    BY <2>1, AlertIsFinite, GradedIsFinite, Zenon
  <2>4. IsFiniteSet(C \cup D)
    BY <2>3, UnionIsFinite, Zenon
  <2>5. IsFiniteSet(IF volume < 20 THEN {} ELSE C \cup D)
    BY <2>4, FS_EmptySet, Zenon
  <2>6. IsFiniteSet(A \cup B \cup (IF volume < 20 THEN {} ELSE C \cup D) \cup E)
    BY <2>3, <2>5, FourAreFinite, Zenon
  <2> QED
    BY <2>2, <2>6
<1>2. \A m : IsFiniteSet(DailyAlerts(m))
  <2> TAKE m
  <2>1. PICK A, B, C, D, E :
           /\ A = Alert(m.mismatches > 0, "reward_mismatch", "critical")
           /\ B = Graded(volume >= 10 /\ OrHundred(m.coverage) < 75, volume >= 10 /\ OrHundred(m.coverage) < 90, "coverage_low")
           /\ C = Graded(volume >= 20 /\ OrHundred(m.completion) < 35, volume >= 20 /\ OrHundred(m.completion) < 55, "completion_low")
           /\ D = Alert(m.gap >= 3, "unlock_gap", "critical")
           /\ E = Alert(m.violations > 0, "shield_violation", "critical")
    OBVIOUS
  <2>2. DailyAlerts(m) = A \cup B \cup C \cup D \cup E
    BY <2>1, Zenon DEF DailyAlerts
  <2>3. IsFiniteSet(A) /\ IsFiniteSet(B) /\ IsFiniteSet(C) /\ IsFiniteSet(D) /\ IsFiniteSet(E)
    BY <2>1, AlertIsFinite, GradedIsFinite, Zenon
  <2>4. IsFiniteSet(A \cup B \cup C \cup D \cup E)
    BY <2>3, FiveAreFinite, Zenon
  <2> QED
    BY <2>2, <2>4
<1>3. \A m : IsFiniteSet(MonetizationAlerts(m))
  <2> TAKE m
  <2>1. PICK A, B, C, D :
           /\ A = Alert(m.mismatches > 0, "stage_mismatch", "critical")
           /\ B = Alert(volume >= 25 /\ m.conversion < 3, "conversion_low", "critical")
           /\ C = Alert(volume >= 25 /\ m.dismissal > 55, "dismissal_high", "warning")
           /\ D = Alert(volume >= 10 /\ 2 * m.fatigue > 7, "fatigue_high", "warning")
    OBVIOUS
  <2>2. MonetizationAlerts(m) = A \cup B \cup C \cup D
    BY <2>1, Zenon DEF MonetizationAlerts
  <2>3. IsFiniteSet(A) /\ IsFiniteSet(B) /\ IsFiniteSet(C) /\ IsFiniteSet(D)
    BY <2>1, AlertIsFinite, GradedIsFinite, Zenon
  <2>4. IsFiniteSet(A \cup B \cup C \cup D)
    BY <2>3, FourAreFinite, Zenon
  <2> QED
    BY <2>2, <2>4
<1>4. \A m : IsFiniteSet(LearningAlerts(m))
  <2> TAKE m
  <2>1. PICK A, B, C, D :
           /\ A = Graded(OrHundred(m.coverage) < 30, OrHundred(m.coverage) < 50, "coverage_low")
           /\ B = Alert(m.missing > 10, "target_missing", "critical")
           /\ C = Alert(m.generic > 40 /\ ~(m.missing > 10), "target_generic", "warning")
           /\ D = Alert(m.undetected > 0, "weak_areas_missing", "warning")
    OBVIOUS
  <2>2. LearningAlerts(m) = (IF volume < 20 THEN {} ELSE A \cup B \cup C) \cup D
    BY <2>1, Zenon DEF LearningAlerts
  <2>3. IsFiniteSet(A) /\ IsFiniteSet(B) /\ IsFiniteSet(C) /\ IsFiniteSet(D)
    BY <2>1, AlertIsFinite, GradedIsFinite, Zenon
  <2>4. IsFiniteSet(A \cup B \cup C)
    BY <2>3, ThreeAreFinite, Zenon
  <2>5. IsFiniteSet(IF volume < 20 THEN {} ELSE A \cup B \cup C)
    BY <2>4, FS_EmptySet, Zenon
  <2>6. IsFiniteSet((IF volume < 20 THEN {} ELSE A \cup B \cup C) \cup D)
    BY <2>3, <2>5, UnionIsFinite, Zenon
  <2> QED
    BY <2>2, <2>6
<1>5. \A m : IsFiniteSet(ContentAlerts(m))
  <2> TAKE m
  <2>1. PICK A, B, C, D, E :
           /\ A = Graded(m.rejection >= 15, m.rejection >= 5, "rejection_high")
           /\ B = Alert(m.target > 0, "target_failures", "critical")
           /\ C = Alert(m.answer > 0, "answer_failures", "critical")
           /\ D = Alert(m.ambiguous > 0, "ambiguous", "warning")
           /\ E = Alert(m.weak > 0, "weak_distractors", "warning")
    OBVIOUS
  <2>2. ContentAlerts(m) = (IF volume < 10 THEN {} ELSE A) \cup B \cup C \cup D \cup E
    BY <2>1, Zenon DEF ContentAlerts
  <2>3. IsFiniteSet(A) /\ IsFiniteSet(B) /\ IsFiniteSet(C) /\ IsFiniteSet(D) /\ IsFiniteSet(E)
    BY <2>1, AlertIsFinite, GradedIsFinite, Zenon
  <2>4. IsFiniteSet(A)
    BY <2>3, Zenon
  <2>5. IsFiniteSet(IF volume < 10 THEN {} ELSE A)
    BY <2>4, FS_EmptySet, Zenon
  <2>6. IsFiniteSet((IF volume < 10 THEN {} ELSE A) \cup B \cup C \cup D \cup E)
    BY <2>3, <2>5, FiveAreFinite, Zenon
  <2> QED
    BY <2>2, <2>6
<1>6. \A m : IsFiniteSet(TemplateAlerts(m))
  <2> TAKE m
  <2>1. PICK A, B, C :
           /\ A = Graded(m.fixtures > 0 /\ (m.archived = 0 /\ m.draft = 0), m.fixtures > 0, "fixture_regression")
           /\ B = Graded(volume >= 5 /\ m.rejection >= 20, volume >= 3 /\ m.rejection >= 10, "rejection_high")
           /\ C = Graded(m.archived > 0, ~(m.archived = 0 /\ m.draft = 0), "inactive_overuse")
    OBVIOUS
  <2>2. TemplateAlerts(m) = A \cup B \cup C
    BY <2>1, Zenon DEF TemplateAlerts
  <2>3. IsFiniteSet(A) /\ IsFiniteSet(B) /\ IsFiniteSet(C)
    BY <2>1, AlertIsFinite, GradedIsFinite, Zenon
  <2>4. IsFiniteSet(A \cup B \cup C)
    BY <2>3, ThreeAreFinite, Zenon
  <2> QED
    BY <2>2, <2>4
<1>7. \A m : IsFiniteSet(TemplatesAlerts(m))
  <2> TAKE m
  <2>1. PICK A, B, C :
           /\ A = Graded(m.activeFailed > 0, m.failed > 0, "fixture_regression")
           /\ B = Graded(volume >= 10 /\ m.rejection >= 15, volume >= 5 /\ m.rejection >= 5, "rejection_high")
           /\ C = Graded(m.archivedUse > 0 \/ m.inactiveUse >= 3, m.inactiveUse > 0, "inactive_overuse")
    OBVIOUS
  <2>2. TemplatesAlerts(m) = A \cup B \cup C
    BY <2>1, Zenon DEF TemplatesAlerts
  <2>3. IsFiniteSet(A) /\ IsFiniteSet(B) /\ IsFiniteSet(C)
    BY <2>1, AlertIsFinite, GradedIsFinite, Zenon
  <2>4. IsFiniteSet(A \cup B \cup C)
    BY <2>3, ThreeAreFinite, Zenon
  <2> QED
    BY <2>2, <2>4
<1>8. \A m : IsFiniteSet(ExperimentAlerts(m))
  <2> TAKE m
  <2>1. PICK A, B, C :
           /\ A = Alert(m.gap = volume, "no_exposures", "critical")
           /\ B = Alert(~(m.gap = volume) /\ m.coverage < 95, "coverage_low", "warning")
           /\ C = Alert(m.gap >= 10, "gap_high", "critical")
    OBVIOUS
  <2>2. ExperimentAlerts(m) = (IF volume < 5 THEN {} ELSE A \cup B) \cup C
    BY <2>1, Zenon DEF ExperimentAlerts
  <2>3. IsFiniteSet(A) /\ IsFiniteSet(B) /\ IsFiniteSet(C)
    BY <2>1, AlertIsFinite, GradedIsFinite, Zenon
  <2>4. IsFiniteSet(A \cup B)
    BY <2>3, UnionIsFinite, Zenon
  <2>5. IsFiniteSet(IF volume < 5 THEN {} ELSE A \cup B)
    BY <2>4, FS_EmptySet, Zenon
  <2>6. IsFiniteSet((IF volume < 5 THEN {} ELSE A \cup B) \cup C)
    BY <2>3, <2>5, UnionIsFinite, Zenon
  <2> QED
    BY <2>2, <2>6
<1>9. \A m : IsFiniteSet(PolicyAlerts(m))
  <2> TAKE m
  <2>1. PICK A, B, C :
           /\ A = Alert(m.failed > 8, "failed_high", "critical")
           /\ B = Alert(m.drop > 20, "send_rate_regression", "critical")
           /\ C = Alert(m.outcomes >= 25 /\ m.suppressed > 45, "suppression_high", "warning")
    OBVIOUS
  <2>2. PolicyAlerts(m) = (IF volume < 25 THEN {} ELSE A \cup B) \cup C
    BY <2>1, Zenon DEF PolicyAlerts
  <2>3. IsFiniteSet(A) /\ IsFiniteSet(B) /\ IsFiniteSet(C)
    BY <2>1, AlertIsFinite, GradedIsFinite, Zenon
  <2>4. IsFiniteSet(A \cup B)
    BY <2>3, UnionIsFinite, Zenon
  <2>5. IsFiniteSet(IF volume < 25 THEN {} ELSE A \cup B)
    BY <2>4, FS_EmptySet, Zenon
  <2>6. IsFiniteSet((IF volume < 25 THEN {} ELSE A \cup B) \cup C)
    BY <2>3, <2>5, UnionIsFinite, Zenon
  <2> QED
    BY <2>2, <2>6
<1>10. \A m : IsFiniteSet(LifecycleAlerts(m))
  <2> TAKE m
  <2>1. PICK A, B, C, D, E :
           /\ A = Alert(m.mismatches > 0, "state_drift", "critical")
           /\ B = Alert(m.churned >= 20, "churned_high", "critical")
           /\ C = Alert(m.atRisk >= 35 /\ m.churned < 20, "at_risk_high", "warning")
           /\ D = Alert(m.transitions = 0, "flow_stalled", "warning")
           /\ E = Alert(m.suppressed > 0, "recovery_blocked", "critical")
    OBVIOUS
  <2>2. LifecycleAlerts(m) = A \cup (IF volume < 20 THEN {} ELSE B \cup C \cup D) \cup E
    BY <2>1, Zenon DEF LifecycleAlerts
  <2>3. IsFiniteSet(A) /\ IsFiniteSet(B) /\ IsFiniteSet(C) /\ IsFiniteSet(D) /\ IsFiniteSet(E)
    BY <2>1, AlertIsFinite, GradedIsFinite, Zenon
  <2>4. IsFiniteSet(B \cup C \cup D)
    BY <2>3, ThreeAreFinite, Zenon
  <2>5. IsFiniteSet(IF volume < 20 THEN {} ELSE B \cup C \cup D)
    BY <2>4, FS_EmptySet, Zenon
  <2>6. IsFiniteSet(A \cup (IF volume < 20 THEN {} ELSE B \cup C \cup D) \cup E)
    BY <2>3, <2>5, ThreeAreFinite, Zenon
  <2> QED
    BY <2>2, <2>6
<1>11. \A m : IsFiniteSet(RecoveryAlerts(m))
  <2> TAKE m
  <2>1. PICK A, B, C :
           /\ A = Alert(m.mismatches > 0, "state_drift", "critical")
           /\ B = Alert(m.suppressed > 0, "recovery_blocked", "critical")
           /\ C = Alert(m.transitions = 0 /\ m.suppressed = 0, "flow_stalled", "warning")
    OBVIOUS
  <2>2. RecoveryAlerts(m) = A \cup (IF volume < 5 THEN {} ELSE B \cup C)
    BY <2>1, Zenon DEF RecoveryAlerts
  <2>3. IsFiniteSet(A) /\ IsFiniteSet(B) /\ IsFiniteSet(C)
    BY <2>1, AlertIsFinite, GradedIsFinite, Zenon
  <2>4. IsFiniteSet(B \cup C)
    BY <2>3, UnionIsFinite, Zenon
  <2>5. IsFiniteSet(IF volume < 5 THEN {} ELSE B \cup C)
    BY <2>4, FS_EmptySet, Zenon
  <2>6. IsFiniteSet(A \cup (IF volume < 5 THEN {} ELSE B \cup C))
    BY <2>3, <2>5, UnionIsFinite, Zenon
  <2> QED
    BY <2>2, <2>6
<1> QED
  BY <1>1, <1>2, <1>3, <1>4, <1>5, <1>6, <1>7, <1>8, <1>9, <1>10, <1>11, Zenon DEF Subjects, Alerts

LEMMA CodesAreFinite == \A c : subject \in Subjects => IsFiniteSet(Codes(c))
<1> SUFFICES ASSUME NEW c, subject \in Subjects PROVE IsFiniteSet(Codes(c))
  OBVIOUS
<1>1. PICK A : A = Alerts(Metrics(c))
  OBVIOUS
<1>2. IsFiniteSet(A)
  BY <1>1, AlertsAreFinite
<1>3. [a \in A |-> a.code] \in Surjection(A, {a.code : a \in A})
  BY DEF Surjection
<1>4. IsFiniteSet({a.code : a \in A})
  BY <1>2, <1>3, FS_Surjection
<1> QED
  BY <1>1, <1>4 DEF Codes

LEMMA StatusIsHealth == \A c : Status(c) \in Health
BY DEF Status, StatusOf, Health

\* The row of given counts is the same while the subsystem and its volume are.
LEMMA RowsOfCountsStay ==
    subject' = subject /\ volume' = volume => \A c : Codes(c)' = Codes(c) /\ Status(c)' = Status(c)
<1> SUFFICES ASSUME subject' = subject, volume' = volume, NEW c PROVE Codes(c)' = Codes(c) /\ Status(c)' = Status(c)
  OBVIOUS
<1>1. \A n : Percent(n)' = Percent(n)
  BY DEF Percent
<1>2. Metrics(c)' = Metrics(c)
  BY <1>1, Zenon DEF Metrics, SessionMetrics, DailyMetrics, MonetizationMetrics, LearningMetrics, ContentMetrics,
     TemplateMetrics, TemplatesMetrics, ExperimentMetrics, PolicyMetrics, LifecycleMetrics
<1>3. \A m : Alerts(m)' = Alerts(m)
  <2>1. \A m : SessionAlerts(m)' = SessionAlerts(m)
    BY Zenon DEF SessionAlerts
  <2>2. \A m : DailyAlerts(m)' = DailyAlerts(m)
    BY Zenon DEF DailyAlerts
  <2>3. \A m : MonetizationAlerts(m)' = MonetizationAlerts(m)
    BY Zenon DEF MonetizationAlerts
  <2>4. \A m : LearningAlerts(m)' = LearningAlerts(m)
    BY Zenon DEF LearningAlerts
  <2>5. \A m : ContentAlerts(m)' = ContentAlerts(m)
    BY Zenon DEF ContentAlerts
  <2>6. \A m : TemplateAlerts(m)' = TemplateAlerts(m)
    BY Zenon DEF TemplateAlerts
  <2>7. \A m : TemplatesAlerts(m)' = TemplatesAlerts(m)
    BY Zenon DEF TemplatesAlerts
  <2>8. \A m : ExperimentAlerts(m)' = ExperimentAlerts(m)
    BY Zenon DEF ExperimentAlerts
  <2>9. \A m : PolicyAlerts(m)' = PolicyAlerts(m)
    BY Zenon DEF PolicyAlerts
  <2>10. \A m : LifecycleAlerts(m)' = LifecycleAlerts(m)
    BY Zenon DEF LifecycleAlerts
  <2>11. \A m : RecoveryAlerts(m)' = RecoveryAlerts(m)
    BY Zenon DEF RecoveryAlerts
  <2> QED
    BY <2>1, <2>2, <2>3, <2>4, <2>5, <2>6, <2>7, <2>8, <2>9, <2>10, <2>11, Zenon DEF Alerts
<1> QED
  BY <1>2, <1>3, Zenon DEF Codes, Status
-----------------------------------------------------------------------------
(* Types *)

IsHealthRow(r) ==
    r = NoHealthRow \/ \E s \in Health : \E k : IsFiniteSet(k) /\ r = [status |-> s, codes |-> k]

IsChecker(q, ns) ==
    \/ q = NoChecker
    \/ \E b : \E p \in {"read", "loaded", "persisted"}, n \in ns, x \in BOOLEAN :
        IsHealthRow(b) /\ q = [pc |-> p, counts |-> n, before |-> b, crossed |-> x]

HealthTypes ==
    /\ subject \in Subjects /\ volume \in Volumes
    /\ data \in [Counts(subject) -> Nat]
    /\ dataChanges \in 0 .. MaxDataChanges /\ checks \in 0 .. MaxChecks
    /\ IsHealthRow(healthRow)
    /\ checker = [c \in Checkers |-> checker[c]]
    /\ \A c \in Checkers : IsChecker(checker[c], [Counts(subject) -> Nat])
    /\ alarmsOwed \in Int /\ turnsOwed \in Int
    /\ torn \in BOOLEAN

LEMMA ARowIsARow ==
    \A r : IsHealthRow(r) =>
        IsFiniteSet(r.codes) /\ (r # NoHealthRow => r \in [status : Health, codes : SUBSET r.codes])
<1> SUFFICES ASSUME NEW r, IsHealthRow(r)
             PROVE  IsFiniteSet(r.codes) /\ (r # NoHealthRow => r \in [status : Health, codes : SUBSET r.codes])
  OBVIOUS
<1>1. CASE r = NoHealthRow
  <2>1. r.codes = {}
    BY <1>1 DEF NoHealthRow
  <2> QED
    BY <1>1, <2>1, FS_EmptySet
<1>2. CASE \E s \in Health : \E k : IsFiniteSet(k) /\ r = [status |-> s, codes |-> k]
  BY <1>2
<1> QED
  BY <1>1, <1>2 DEF IsHealthRow

LEMMA NewRowIsARow == \A q : subject \in Subjects => IsHealthRow(NewRow(q)) /\ NewRow(q) # NoHealthRow
<1> SUFFICES ASSUME NEW q, subject \in Subjects PROVE IsHealthRow(NewRow(q)) /\ NewRow(q) # NoHealthRow
  OBVIOUS
<1>1. Status(q.counts) \in Health /\ IsFiniteSet(Codes(q.counts))
  BY CodesAreFinite, StatusIsHealth
<1>2. NewRow(q).status # "no row"
  BY <1>1 DEF NewRow, Health
<1> QED
  BY <1>1, <1>2 DEF NewRow, IsHealthRow, NoHealthRow

LEMMA RisenIsANumber ==
    \A b, n : IsHealthRow(b) /\ IsHealthRow(n) =>
        /\ IsFiniteSet(n.codes \ b.codes)
        /\ Risen(b, n) \in Nat /\ Risen(b, n) = Cardinality(n.codes \ b.codes)
        /\ Turned(b, n) \in {0, 1}
BY ARowIsARow, FS_Difference, FS_CardinalityType DEF Risen, Turned

\* What a checker carries at each step.
LEMMA CheckerCarries ==
    ASSUME HealthTypes, NEW c \in Checkers
    PROVE  /\ checker[c].pc \in {"idle", "read", "loaded", "persisted"}
           /\ checker[c].crossed \in BOOLEAN
           /\ IsHealthRow(checker[c].before)
           /\ checker[c].pc # "idle" => checker[c].counts \in [Counts(subject) -> Nat]
           /\ checker[c].pc # "idle" => \A p \in {"read", "loaded", "persisted"} :
                IsChecker([checker[c] EXCEPT !.pc = p], [Counts(subject) -> Nat])
           /\ checker[c].pc # "idle" => \A b : IsHealthRow(b) =>
                IsChecker([checker[c] EXCEPT !.pc = "loaded", !.before = b], [Counts(subject) -> Nat])
           /\ checker[c].pc # "idle" =>
                IsChecker([checker[c] EXCEPT !.crossed = TRUE], [Counts(subject) -> Nat])
<1>1. PICK N : N = [Counts(subject) -> Nat]
  OBVIOUS
<1>2. PICK q : q = checker[c]
  OBVIOUS
<1>3. IsChecker(q, N)
  BY <1>1, <1>2 DEF HealthTypes
<1>4. CASE q = NoChecker
  <2>1. q.pc = "idle" /\ q.crossed = FALSE /\ q.before = NoHealthRow
    BY <1>4 DEF NoChecker
  <2>2. IsHealthRow(q.before)
    BY <2>1 DEF IsHealthRow
  <2> QED
    BY <1>2, <2>1, <2>2
<1>5. CASE \E b : \E p \in {"read", "loaded", "persisted"}, n \in N, x \in BOOLEAN :
             IsHealthRow(b) /\ q = [pc |-> p, counts |-> n, before |-> b, crossed |-> x]
  <2>1. PICK b : \E p \in {"read", "loaded", "persisted"}, n \in N, x \in BOOLEAN :
             IsHealthRow(b) /\ q = [pc |-> p, counts |-> n, before |-> b, crossed |-> x]
    BY <1>5
  <2>2. PICK p \in {"read", "loaded", "persisted"}, n \in N, x \in BOOLEAN :
             IsHealthRow(b) /\ q = [pc |-> p, counts |-> n, before |-> b, crossed |-> x]
    BY <2>1
  <2>3. \A bb : \A pp \in {"read", "loaded", "persisted"}, nn \in N, xx \in BOOLEAN :
             IsHealthRow(bb) => IsChecker([pc |-> pp, counts |-> nn, before |-> bb, crossed |-> xx], N)
    BY Zenon DEF IsChecker
  <2>4. \A pp : [q EXCEPT !.pc = pp] = [pc |-> pp, counts |-> n, before |-> b, crossed |-> x]
    BY <2>2
  <2>5. ASSUME NEW bb, IsHealthRow(bb)
        PROVE  IsChecker([q EXCEPT !.pc = "loaded", !.before = bb], N)
    <3>1. PICK l \in {"read", "loaded", "persisted"} : l = "loaded"
      OBVIOUS
    <3>2. PICK r : r = [q EXCEPT !.pc = l, !.before = bb]
      OBVIOUS
    <3>3. r = [pc |-> l, counts |-> n, before |-> bb, crossed |-> x]
      BY <2>2, <3>2
    <3>4. IsChecker(r, N)
      BY <2>3, <2>5, <3>3, Zenon
    <3> QED
      BY <3>1, <3>2, <3>4, Zenon
  <2>6. IsChecker([q EXCEPT !.crossed = TRUE], N)
    <3>1. PICK t \in BOOLEAN : t = TRUE
      OBVIOUS
    <3>2. PICK r : r = [q EXCEPT !.crossed = t]
      OBVIOUS
    <3>3. r = [pc |-> p, counts |-> n, before |-> b, crossed |-> t]
      BY <2>2, <3>2
    <3>4. IsChecker(r, N)
      BY <2>2, <2>3, <3>3, Zenon
    <3>5. [q EXCEPT !.crossed = TRUE] = r
      BY <3>1, <3>2, Zenon
    <3> QED
      BY <3>4, <3>5, Zenon
  <2>7. q.pc = p /\ q.counts = n /\ q.before = b /\ q.crossed = x
    BY <2>2
  <2>8. \A pp \in {"read", "loaded", "persisted"} : IsChecker([q EXCEPT !.pc = pp], N)
    <3> TAKE pp \in {"read", "loaded", "persisted"}
    <3>1. IsChecker([pc |-> pp, counts |-> n, before |-> b, crossed |-> x], N)
      BY <2>2, <2>3, Zenon
    <3> QED
      BY <2>4, <3>1, Zenon
  <2> QED
    BY <1>1, <1>2, <2>2, <2>5, <2>6, <2>7, <2>8, Zenon
<1> QED
  BY <1>3, <1>4, <1>5 DEF IsChecker
\* An evaluation reads counts; so does no other step change what is carried otherwise.
LEMMA HealthTypesInit == HealthSignalsInit => HealthTypes
<1> SUFFICES ASSUME HealthSignalsInit PROVE HealthTypes
  OBVIOUS
<1>1. subject \in Subjects /\ volume \in Volumes /\ volume \in Nat
  BY HealthSignalsAssumption DEF HealthSignalsInit
<1>2. data \in [Counts(subject) -> Nat]
  BY <1>1 DEF HealthSignalsInit, Calm
<1>3. IsHealthRow(healthRow)
  BY DEF HealthSignalsInit, IsHealthRow
<1>4. \A c \in Checkers : IsChecker(checker[c], [Counts(subject) -> Nat])
  BY DEF HealthSignalsInit, IsChecker
<1>5. dataChanges \in 0 .. MaxDataChanges /\ checks \in 0 .. MaxChecks
  BY HealthSignalsAssumption DEF HealthSignalsInit
<1>6. checker = [c \in Checkers |-> checker[c]]
  BY DEF HealthSignalsInit
<1>7. alarmsOwed \in Int /\ turnsOwed \in Int /\ torn \in BOOLEAN
  <2>1. alarmsOwed = 0 /\ turnsOwed = 0 /\ torn = FALSE
    BY Zenon DEF HealthSignalsInit
  <2>2. torn \in BOOLEAN
    BY <2>1, Zenon
  <2>3. alarmsOwed \in Int /\ turnsOwed \in Int
    BY <2>1
  <2> QED
    BY <2>2, <2>3
<1> QED
  BY <1>1, <1>2, <1>3, <1>4, <1>5, <1>6, <1>7, Zenon DEF HealthTypes

\* The checkers after a step of one of them, which may mark others as crossed.
LEMMA CheckersKeepTypes ==
    ASSUME HealthTypes, subject' = subject, checker' = [c \in Checkers |-> checker'[c]],
           \A o \in Checkers : \/ checker'[o] = checker[o]
                               \/ checker[o].pc # "idle" /\ checker'[o] = [checker[o] EXCEPT !.crossed = TRUE]
                               \/ IsChecker(checker'[o], [Counts(subject) -> Nat])
    PROVE  checker' = [c \in Checkers |-> checker'[c]] /\ \A o \in Checkers : IsChecker(checker'[o], [Counts(subject') -> Nat])
<1> SUFFICES ASSUME NEW o \in Checkers PROVE IsChecker(checker'[o], [Counts(subject') -> Nat])
  OBVIOUS
<1>1. IsChecker(checker[o], [Counts(subject) -> Nat])
  BY DEF HealthTypes
<1>2. checker[o].pc # "idle" => IsChecker([checker[o] EXCEPT !.crossed = TRUE], [Counts(subject) -> Nat])
  BY CheckerCarries
<1> QED
  BY <1>1, <1>2, Zenon

LEMMA HealthTypesStep == HealthTypes /\ [HealthSignalsNext]_healthSignalsVars => HealthTypes'
<1> SUFFICES ASSUME HealthTypes, [HealthSignalsNext]_healthSignalsVars PROVE HealthTypes'
  OBVIOUS
<1> USE HealthSignalsAssumption
<1>1. ASSUME DataChanges PROVE HealthTypes'
  <2>1. PICK k \in Counts(subject) : \E n \in IF k \in ShareCounts(subject) THEN Shares ELSE Few : data' = [data EXCEPT ![k] = n]
    BY <1>1 DEF DataChanges
  <2>2. Shares \subseteq Nat /\ Few \subseteq Nat
    <3>1. volume \in Nat
      BY DEF HealthTypes
    <3>2. volume \div 4 \in Nat /\ volume \div 2 \in Nat
      BY <3>1
    <3> QED
      BY <3>1, <3>2 DEF Shares, Few
  <2>3. data' \in [Counts(subject) -> Nat]
    BY <2>1, <2>2 DEF HealthTypes
  <2> QED
    BY <1>1, <2>3 DEF DataChanges, HealthTypes
<1>2. ASSUME NEW c \in Checkers, ReadData(c) PROVE HealthTypes'
  <2>1. checks' \in 0 .. MaxChecks
    BY <1>2 DEF ReadData, HealthTypes
  <2>2. IsChecker(checker'[c], [Counts(subject) -> Nat])
    <3>1. PICK p \in {"read", "loaded", "persisted"} : p = "read"
      OBVIOUS
    <3>2. PICK n \in [Counts(subject) -> Nat] : n = data
      BY DEF HealthTypes
    <3>3. PICK r : r = [NoChecker EXCEPT !.pc = p, !.counts = n]
      OBVIOUS
    <3>4. r = [pc |-> p, counts |-> n, before |-> NoHealthRow, crossed |-> FALSE]
      BY <3>3 DEF NoChecker
    <3>5. IsHealthRow(NoHealthRow)
      BY DEF IsHealthRow
    <3>6. IsChecker(r, [Counts(subject) -> Nat])
      BY <3>4, <3>5, Zenon DEF IsChecker
    <3>7. checker'[c] = r
      BY <1>2, <3>1, <3>2, <3>3 DEF ReadData, HealthTypes
    <3> QED
      BY <3>6, <3>7
  <2>3. subject' = subject /\ checker' = [o \in Checkers |-> checker'[o]]
        /\ \A o \in Checkers : o # c => checker'[o] = checker[o]
    BY <1>2 DEF ReadData, HealthTypes
  <2>4. checker' = [o \in Checkers |-> checker'[o]] /\ \A o \in Checkers : IsChecker(checker'[o], [Counts(subject') -> Nat])
    BY <2>2, <2>3, CheckersKeepTypes
  <2> QED
    BY <1>2, <2>1, <2>4 DEF ReadData, HealthTypes
<1>3. ASSUME NEW c \in Checkers, ReadRow(c) PROVE HealthTypes'
  <2>1. IsChecker(checker'[c], [Counts(subject) -> Nat])
    <3>1. IsHealthRow(healthRow)
      BY DEF HealthTypes
    <3>2. checker'[c] = [checker[c] EXCEPT !.pc = "loaded", !.before = healthRow]
      BY <1>3 DEF ReadRow, HealthTypes
    <3>3. checker[c].pc # "idle"
      BY <1>3 DEF ReadRow
    <3>4. IsChecker([checker[c] EXCEPT !.pc = "loaded", !.before = healthRow], [Counts(subject) -> Nat])
      BY <3>1, <3>3, CheckerCarries, Zenon
    <3> QED
      BY <3>2, <3>4, Zenon
  <2>2. subject' = subject /\ checker' = [o \in Checkers |-> checker'[o]]
        /\ \A o \in Checkers : o # c => checker'[o] = checker[o]
    BY <1>3 DEF ReadRow, HealthTypes
  <2>3. checker' = [o \in Checkers |-> checker'[o]] /\ \A o \in Checkers : IsChecker(checker'[o], [Counts(subject') -> Nat])
    BY <2>1, <2>2, CheckersKeepTypes
  <2> QED
    BY <1>3, <2>3 DEF ReadRow, HealthTypes
<1>4. ASSUME NEW c \in Checkers, PersistRow(c) PROVE HealthTypes'
  <2>1. CASE InsertFails(c)
    <3>1. checker' = [checker EXCEPT ![c] = NoChecker] /\ UNCHANGED <<healthRow, alarmsOwed, turnsOwed, torn>>
      BY <1>4, <2>1 DEF PersistRow, InsertFails
    <3>2. checker'[c] = NoChecker /\ checker' = [o \in Checkers |-> checker'[o]]
          /\ \A o \in Checkers : o # c => checker'[o] = checker[o]
      BY <3>1 DEF HealthTypes
    <3>3. IsChecker(checker'[c], [Counts(subject) -> Nat])
      BY <3>2 DEF IsChecker
    <3>4. checker' = [o \in Checkers |-> checker'[o]] /\ \A o \in Checkers : IsChecker(checker'[o], [Counts(subject') -> Nat])
      BY <1>4, <3>2, <3>3, CheckersKeepTypes DEF PersistRow
    <3> QED
      BY <1>4, <3>1, <3>4 DEF PersistRow, HealthTypes
  <2>2. CASE RowIsWritten(c, RowWritten(NewRow(checker[c]), checker[c].before))
    <3>1. PICK new : new = NewRow(checker[c])
      OBVIOUS
    <3>0. PICK w : w = RowWritten(new, checker[c].before)
      OBVIOUS
    <3>2. /\ checker[c].pc = "loaded" /\ healthRow' = w
          /\ alarmsOwed' = alarmsOwed + Risen(healthRow, w)
          /\ turnsOwed' = turnsOwed + Turned(healthRow, w)
          /\ torn' = (torn \/ checker[c].crossed)
          /\ checker' = [o \in Checkers |->
               IF o = c THEN [checker[c] EXCEPT !.pc = "persisted"]
               ELSE IF checker[o].pc = "loaded" THEN [checker[o] EXCEPT !.crossed = TRUE]
               ELSE checker[o]]
          /\ UNCHANGED <<subject, volume, data, dataChanges, checks>>
      BY <1>4, <2>2, <3>1, <3>0 DEF PersistRow, RowIsWritten
    <3>3. IsHealthRow(w) /\ IsHealthRow(healthRow)
      <4>1. IsHealthRow(new) /\ IsHealthRow(healthRow)
        BY <3>1, NewRowIsARow DEF HealthTypes
      <4>2. CASE NoHealthRow \in {checker[c].before, healthRow}
        BY <3>0, <4>1, <4>2 DEF RowWritten
      <4>3. CASE NoHealthRow \notin {checker[c].before, healthRow}
        <5>1. PICK s, k : s \in Health /\ IsFiniteSet(k) /\ new = [status |-> s, codes |-> k]
          BY <3>1, <4>1, NewRowIsARow DEF IsHealthRow, HealthTypes
        <5>2. PICK t, l : t \in Health /\ IsFiniteSet(l) /\ healthRow = [status |-> t, codes |-> l]
          BY <4>1, <4>3 DEF IsHealthRow
        <5>3. PICK u \in {s, t}, m \in {k, l} : w = [status |-> u, codes |-> m]
          BY <3>0, <4>3, <5>1, <5>2 DEF RowWritten
        <5> QED
          BY <4>1, <5>1, <5>2, <5>3 DEF IsHealthRow
      <4> QED
        BY <4>2, <4>3
    <3>4. alarmsOwed' \in Int /\ turnsOwed' \in Int
      <4>1. Risen(healthRow, w) \in Nat /\ Turned(healthRow, w) \in {0, 1}
        BY <3>3, RisenIsANumber, Zenon
      <4> QED
        BY <3>2, <4>1 DEF HealthTypes
    <3>5. torn' \in BOOLEAN
      BY <3>2, CheckerCarries DEF HealthTypes
    <3>6. IsChecker(checker'[c], [Counts(subject) -> Nat])
      <4>1. checker'[c] = [checker[c] EXCEPT !.pc = "persisted"]
        BY <3>2, Zenon
      <4> QED
        BY <3>2, <4>1, CheckerCarries
    <3>7. \A o \in Checkers : o # c =>
            \/ checker'[o] = checker[o]
            \/ checker[o].pc # "idle" /\ checker'[o] = [checker[o] EXCEPT !.crossed = TRUE]
      BY <3>2, Zenon
    <3>8. checker' = [o \in Checkers |-> checker'[o]] /\ \A o \in Checkers : IsChecker(checker'[o], [Counts(subject') -> Nat])
      BY <3>2, <3>6, <3>7, CheckersKeepTypes
    <3> QED
      BY <3>2, <3>3, <3>4, <3>5, <3>8 DEF HealthTypes
  <2> QED
    BY <1>4, <2>1, <2>2 DEF PersistRow
<1>5. ASSUME NEW c \in Checkers, Emit(c) PROVE HealthTypes'
  <2>1. PICK new : new = NewRow(checker[c])
    OBVIOUS
  <2>2. /\ alarmsOwed' = alarmsOwed - Risen(checker[c].before, new)
        /\ turnsOwed' = turnsOwed - Turned(checker[c].before, new)
        /\ checker' = [checker EXCEPT ![c] = NoChecker]
        /\ UNCHANGED <<subject, volume, data, dataChanges, healthRow, checks, torn>>
    BY <1>5, <2>1 DEF Emit
  <2>3. IsHealthRow(new) /\ IsHealthRow(checker[c].before)
    BY <2>1, NewRowIsARow, CheckerCarries DEF HealthTypes
  <2>4. alarmsOwed' \in Int /\ turnsOwed' \in Int
    <3>1. Risen(checker[c].before, new) \in Nat /\ Turned(checker[c].before, new) \in {0, 1}
      BY <2>3, RisenIsANumber, Zenon
    <3> QED
      BY <2>2, <3>1 DEF HealthTypes
  <2>5. checker'[c] = NoChecker /\ checker' = [o \in Checkers |-> checker'[o]]
        /\ \A o \in Checkers : o # c => checker'[o] = checker[o]
    BY <2>2 DEF HealthTypes
  <2>6. IsChecker(checker'[c], [Counts(subject) -> Nat])
    BY <2>5 DEF IsChecker
  <2>7. checker' = [o \in Checkers |-> checker'[o]] /\ \A o \in Checkers : IsChecker(checker'[o], [Counts(subject') -> Nat])
    BY <2>2, <2>5, <2>6, CheckersKeepTypes
  <2> QED
    BY <2>2, <2>4, <2>7 DEF HealthTypes
<1>6. ASSUME NEW c \in Checkers, CheckerDies(c) PROVE HealthTypes'
  <2>1. checker'[c] = NoChecker /\ checker' = [o \in Checkers |-> checker'[o]]
        /\ \A o \in Checkers : o # c => checker'[o] = checker[o]
    BY <1>6 DEF CheckerDies, HealthTypes
  <2>2. IsChecker(checker'[c], [Counts(subject) -> Nat])
    BY <2>1 DEF IsChecker
  <2>3. subject' = subject
    BY <1>6 DEF CheckerDies
  <2>4. checker' = [o \in Checkers |-> checker'[o]] /\ \A o \in Checkers : IsChecker(checker'[o], [Counts(subject') -> Nat])
    BY <2>1, <2>2, <2>3, CheckersKeepTypes
  <2> QED
    BY <1>6, <2>4 DEF CheckerDies, HealthTypes
<1>7. CASE UNCHANGED healthSignalsVars
  BY <1>7 DEF healthSignalsVars, HealthTypes
<1> QED
  BY <1>1, <1>2, <1>3, <1>4, <1>5, <1>6, <1>7 DEF HealthSignalsNext

LEMMA HealthTypesHold == HealthSignalsSpec => []HealthTypes
BY HealthTypesInit, HealthTypesStep, PTL DEF HealthSignalsSpec

\* Every variable of the health signals keeps its type: what an evaluation carries from a read to
\* a write is a row or none, and counts of the subsystem's own.
THEOREM HealthSignalsTypeCorrect == HealthSignalsSpec => []HealthSignalsTypeOK
<1>1. HealthTypes => HealthSignalsTypeOK
  <2> SUFFICES ASSUME HealthTypes PROVE HealthSignalsTypeOK
    OBVIOUS
  <2>1. healthRow \in {NoHealthRow} \cup [status : Health, codes : SUBSET healthRow.codes]
    BY ARowIsARow DEF HealthTypes
  <2>2. \A c \in Checkers : /\ checker[c].pc \in {"idle", "read", "loaded", "persisted"}
                            /\ checker[c].pc # "idle" => checker[c].counts \in [Counts(subject) -> Nat]
    BY CheckerCarries
  <2> QED
    BY <2>1, <2>2 DEF HealthTypes, HealthSignalsTypeOK
<1> QED
  BY <1>1, HealthTypesHold, PTL
-----------------------------------------------------------------------------
(***************************************************************************)
(* What is owed.  An alert that an evaluation has stored and not yet told  *)
(* is a pair of the evaluation and a code; while no writes have crossed    *)
(* and no teller has died, the account is the number of these pairs.       *)
(***************************************************************************)

Rise(q) == NewRow(q).codes \ q.before.codes
Pairs(tellers, rise) == UNION {{c} \X rise[c] : c \in tellers}
AlarmsDue == Pairs(Untold, [c \in Checkers |-> Rise(checker[c])])
TurnsDue == {c \in Untold : Turned(checker[c].before, NewRow(checker[c])) = 1}

\* An evaluation that no write has crossed has read the row that it replaces.
Accounts ==
    /\ \A c \in Checkers : checker[c].pc = "loaded" /\ ~checker[c].crossed => checker[c].before = healthRow
    /\ IsFiniteSet(AlarmsDue) /\ IsFiniteSet(TurnsDue)
    /\ ~torn => alarmsOwed = Cardinality(AlarmsDue) /\ turnsOwed = Cardinality(TurnsDue)

LEMMA PairsOfOne ==
    ASSUME NEW c, NEW S, IsFiniteSet(S)
    PROVE  IsFiniteSet({c} \X S) /\ Cardinality({c} \X S) = Cardinality(S)
<1>1. [x \in S |-> <<c, x>>] \in Bijection(S, {c} \X S)
  <2>1. PICK f : f = [x \in S |-> <<c, x>>]
    OBVIOUS
  <2>2. f \in [S -> {c} \X S]
    BY <2>1
  <2>3. \A x, y \in S : f[x] = f[y] => x = y
    BY <2>1
  <2>4. \A p \in {c} \X S : \E x \in S : f[x] = p
    <3> TAKE p \in {c} \X S
    <3>1. PICK x \in S : p = <<c, x>>
      OBVIOUS
    <3> QED
      BY <2>1, <3>1
  <2> QED
    <3>1. f \in Injection(S, {c} \X S)
      BY <2>2, <2>3, Zenon DEF Injection, IsInjective
    <3>2. f \in Surjection(S, {c} \X S)
      BY <2>2, <2>4, Zenon DEF Surjection
    <3> QED
      BY <2>1, <3>1, <3>2 DEF Bijection
<1>2. ExistsBijection(S, {c} \X S)
  BY <1>1, Zenon DEF ExistsBijection
<1> QED
  BY <1>2, FS_Bijection

LEMMA PairsAdded ==
    ASSUME NEW T, NEW rise, NEW c, c \notin T, IsFiniteSet(Pairs(T, rise)), IsFiniteSet(rise[c])
    PROVE  /\ IsFiniteSet(Pairs(T \cup {c}, rise))
           /\ Cardinality(Pairs(T \cup {c}, rise)) = Cardinality(Pairs(T, rise)) + Cardinality(rise[c])
<1>1. PICK P : P = Pairs(T, rise)
  OBVIOUS
<1>2. PICK Q : Q = {c} \X rise[c]
  OBVIOUS
<1>3. Pairs(T \cup {c}, rise) = P \cup Q
  BY <1>1, <1>2 DEF Pairs
<1>4. P \cap Q = {}
  <2>1. \A x \in P : \E d \in T : \E k \in rise[d] : x = <<d, k>>
    BY <1>1 DEF Pairs
  <2>2. \A x \in Q : \E k \in rise[c] : x = <<c, k>>
    BY <1>2
  <2> QED
    BY <2>1, <2>2
<1>5. IsFiniteSet(Q) /\ Cardinality(Q) = Cardinality(rise[c])
  BY <1>2, PairsOfOne
<1>6. IsFiniteSet(P \cup Q) /\ Cardinality(P \cup Q) = Cardinality(P) + Cardinality(Q) - Cardinality(P \cap Q)
  BY <1>1, <1>5, FS_Union
<1>7. Cardinality(P \cap Q) = 0 /\ Cardinality(P) \in Nat /\ Cardinality(Q) \in Nat
  BY <1>1, <1>4, <1>5, FS_EmptySet, FS_CardinalityType
<1>8. Cardinality(P \cup Q) = Cardinality(P) + Cardinality(rise[c])
  BY <1>5, <1>6, <1>7
<1> QED
  BY <1>1, <1>3, <1>6, <1>8, Zenon

LEMMA PairsAgree ==
    \A T, rise, other : (\A c \in T : rise[c] = other[c]) => Pairs(T, rise) = Pairs(T, other)
<1> SUFFICES ASSUME NEW T, NEW rise, NEW other, \A c \in T : rise[c] = other[c]
             PROVE  Pairs(T, rise) = Pairs(T, other)
  OBVIOUS
<1>1. \A x : x \in Pairs(T, rise) <=> \E c \in T : x \in {c} \X rise[c]
  BY DEF Pairs
<1>2. \A x : x \in Pairs(T, other) <=> \E c \in T : x \in {c} \X other[c]
  BY DEF Pairs
<1>3. \A x : x \in Pairs(T, rise) <=> x \in Pairs(T, other)
  BY <1>1, <1>2
<1> QED
  BY <1>3

LEMMA PairsOfFewer ==
    \A T, S, rise : S \subseteq T /\ IsFiniteSet(Pairs(T, rise)) => IsFiniteSet(Pairs(S, rise))
<1> SUFFICES ASSUME NEW T, NEW S, NEW rise, S \subseteq T, IsFiniteSet(Pairs(T, rise)) PROVE IsFiniteSet(Pairs(S, rise))
  OBVIOUS
<1>1. Pairs(S, rise) \subseteq Pairs(T, rise)
  BY DEF Pairs
<1> QED
  BY <1>1, FS_Subset
\* The rows that evaluations compute stay the same at every step.
LEMMA NewRowsStay ==
    subject' = subject /\ volume' = volume => \A q : NewRow(q)' = NewRow(q) /\ Rise(q)' = Rise(q)
<1> SUFFICES ASSUME subject' = subject, volume' = volume, NEW q PROVE NewRow(q)' = NewRow(q) /\ Rise(q)' = Rise(q)
  OBVIOUS
<1>1. Codes(q.counts)' = Codes(q.counts) /\ Status(q.counts)' = Status(q.counts)
  BY RowsOfCountsStay
<1>2. NewRow(q)' = NewRow(q)
  BY <1>1, Zenon DEF NewRow
<1> QED
  BY <1>2, Zenon DEF Rise

\* What is owed does not change with a step that leaves alone who has still to tell, and what.
LEMMA DuesStay ==
    ASSUME HealthTypes, subject' = subject, volume' = volume, Untold' = Untold,
           \A o \in Untold : Rise(checker'[o]) = Rise(checker[o])
                             /\ Turned(checker'[o].before, NewRow(checker'[o])) = Turned(checker[o].before, NewRow(checker[o]))
    PROVE  AlarmsDue' = AlarmsDue /\ TurnsDue' = TurnsDue
<1>1. \A q : NewRow(q)' = NewRow(q) /\ Rise(q)' = Rise(q)
  BY NewRowsStay
<1>2. PICK T : T = Untold
  OBVIOUS
<1>3. PICK rise : rise = [c \in Checkers |-> Rise(checker[c])]
  OBVIOUS
<1>4. PICK later : later = [c \in Checkers |-> Rise(checker'[c])]
  OBVIOUS
<1>5. [c \in Checkers |-> Rise(checker[c])]' = later
  BY <1>1, <1>4
<1>6. \A o \in T : later[o] = rise[o]
  BY <1>2, <1>3, <1>4 DEF Untold
<1>7. Pairs(T, later) = Pairs(T, rise)
  BY <1>6, PairsAgree
<1>8. AlarmsDue' = AlarmsDue
  BY <1>2, <1>3, <1>5, <1>7, Zenon DEF AlarmsDue
<1>9. \A o \in Untold : Turned(checker[o].before, NewRow(checker[o]))' = Turned(checker[o].before, NewRow(checker[o]))
  BY <1>1, Zenon DEF Turned
<1>10. TurnsDue' = TurnsDue
  BY <1>2, <1>9 DEF TurnsDue
<1> QED
  BY <1>8, <1>10
\* An evaluation that has stored its row owes what rose in it; one that tells owes it no more.
LEMMA DuesAdded ==
    ASSUME HealthTypes, subject' = subject, volume' = volume, NEW c \in Checkers, c \notin Untold, Untold' = Untold \cup {c},
           \A o \in Untold : checker'[o] = checker[o],
           IsHealthRow(checker'[c].before), IsFiniteSet(AlarmsDue), IsFiniteSet(TurnsDue)
    PROVE  /\ IsFiniteSet(AlarmsDue') /\ IsFiniteSet(TurnsDue')
           /\ Cardinality(AlarmsDue') = Cardinality(AlarmsDue) + Risen(checker'[c].before, NewRow(checker'[c]))
           /\ Cardinality(TurnsDue') = Cardinality(TurnsDue) + Turned(checker'[c].before, NewRow(checker'[c]))
<1>1. \A q : NewRow(q)' = NewRow(q) /\ Rise(q)' = Rise(q)
  BY NewRowsStay
<1>2. PICK T : T = Untold
  OBVIOUS
<1>3. PICK rise : rise = [o \in Checkers |-> Rise(checker[o])]
  OBVIOUS
<1>4. PICK later : later = [o \in Checkers |-> Rise(checker'[o])]
  OBVIOUS
<1>5. [o \in Checkers |-> Rise(checker[o])]' = later
  BY <1>1, <1>4
<1>6. Pairs(T, later) = Pairs(T, rise)
  <2>1. \A o \in T : later[o] = rise[o]
    BY <1>2, <1>3, <1>4 DEF Untold
  <2> QED
    BY <2>1, PairsAgree
<1>7. PICK b, n : b = checker'[c].before /\ n = NewRow(checker'[c])
  OBVIOUS
<1>8. IsHealthRow(b) /\ IsHealthRow(n)
  BY <1>7, NewRowIsARow DEF HealthTypes
<1>9. later[c] = n.codes \ b.codes
  BY <1>4, <1>7 DEF Rise
<1>10. IsFiniteSet(n.codes \ b.codes) /\ Risen(b, n) = Cardinality(n.codes \ b.codes) /\ Turned(b, n) \in {0, 1}
  BY <1>8, RisenIsANumber, Zenon
<1>11. IsFiniteSet(Pairs(T, later)) /\ Pairs(T, later) = AlarmsDue
  BY <1>2, <1>3, <1>6, Zenon DEF AlarmsDue
<1>12. /\ IsFiniteSet(Pairs(T \cup {c}, later))
       /\ Cardinality(Pairs(T \cup {c}, later)) = Cardinality(AlarmsDue) + Risen(b, n)
  <2>1. c \notin T /\ IsFiniteSet(later[c]) /\ Cardinality(later[c]) = Risen(b, n)
    BY <1>2, <1>9, <1>10, Zenon
  <2>2. Cardinality(Pairs(T \cup {c}, later)) = Cardinality(Pairs(T, later)) + Cardinality(later[c])
    BY <1>11, <2>1, PairsAdded
  <2>3. IsFiniteSet(Pairs(T \cup {c}, later))
    BY <1>11, <2>1, PairsAdded
  <2> QED
    BY <1>11, <2>1, <2>2, <2>3, Zenon
<1>13. AlarmsDue' = Pairs(T \cup {c}, later)
  BY <1>2, <1>5, Zenon DEF AlarmsDue
<1>14. TurnsDue' = IF Turned(b, n) = 1 THEN TurnsDue \cup {c} ELSE TurnsDue
  <2>1. \A o \in Untold : Turned(checker[o].before, NewRow(checker[o]))' = Turned(checker[o].before, NewRow(checker[o]))
    BY <1>1, Zenon DEF Turned
  <2>2. Turned(checker[c].before, NewRow(checker[c]))' = Turned(b, n)
    BY <1>1, <1>7, Zenon DEF Turned
  <2> QED
    BY <2>1, <2>2 DEF TurnsDue
<1>15. c \notin TurnsDue
  BY DEF TurnsDue
<1>16. PICK D : D = TurnsDue
  OBVIOUS
<1>17. /\ IsFiniteSet(D \cup {c}) /\ Cardinality(D \cup {c}) = Cardinality(D) + 1 /\ Cardinality(D) \in Nat
  BY <1>15, <1>16, FS_AddElement, FS_CardinalityType
<1>18. CASE Turned(b, n) = 1
  <2>1. TurnsDue' = D \cup {c}
    BY <1>14, <1>16, <1>18
  <2> QED
    BY <1>7, <1>12, <1>13, <1>16, <1>17, <1>18, <2>1
<1>19. CASE Turned(b, n) = 0
  <2>1. TurnsDue' = D
    BY <1>14, <1>16, <1>19
  <2> QED
    BY <1>7, <1>12, <1>13, <1>16, <1>17, <1>19, <2>1
<1> QED
  BY <1>10, <1>18, <1>19

LEMMA DuesTold ==
    ASSUME HealthTypes, subject' = subject, volume' = volume, NEW c \in Untold, Untold' = Untold \ {c},
           \A o \in Untold \ {c} : checker'[o] = checker[o], IsFiniteSet(AlarmsDue), IsFiniteSet(TurnsDue)
    PROVE  /\ IsFiniteSet(AlarmsDue') /\ IsFiniteSet(TurnsDue')
           /\ Cardinality(AlarmsDue) = Cardinality(AlarmsDue') + Risen(checker[c].before, NewRow(checker[c]))
           /\ Cardinality(TurnsDue) = Cardinality(TurnsDue') + Turned(checker[c].before, NewRow(checker[c]))
<1> c \in Checkers
  BY DEF Untold
<1>1. \A q : NewRow(q)' = NewRow(q) /\ Rise(q)' = Rise(q)
  BY NewRowsStay
<1>2. PICK T : T = Untold \ {c}
  OBVIOUS
<1>3. PICK rise : rise = [o \in Checkers |-> Rise(checker[o])]
  OBVIOUS
<1>4. PICK later : later = [o \in Checkers |-> Rise(checker'[o])]
  OBVIOUS
<1>5. [o \in Checkers |-> Rise(checker[o])]' = later
  BY <1>1, <1>4
<1>6. Pairs(T, later) = Pairs(T, rise)
  <2>1. \A o \in T : later[o] = rise[o]
    BY <1>2, <1>3, <1>4 DEF Untold
  <2> QED
    BY <2>1, PairsAgree
<1>7. PICK b, n : b = checker[c].before /\ n = NewRow(checker[c])
  OBVIOUS
<1>8. IsHealthRow(b) /\ IsHealthRow(n)
  <2>1. IsHealthRow(b)
    BY <1>7, CheckerCarries
  <2> QED
    BY <2>1, <1>7, NewRowIsARow DEF HealthTypes
<1>9. rise[c] = n.codes \ b.codes
  BY <1>3, <1>7 DEF Rise
<1>10. IsFiniteSet(n.codes \ b.codes) /\ Risen(b, n) = Cardinality(n.codes \ b.codes) /\ Turned(b, n) \in {0, 1}
  BY <1>8, RisenIsANumber, Zenon
<1>11. Untold = T \cup {c} /\ c \notin T /\ T \subseteq T \cup {c}
  BY <1>2
<1>12. AlarmsDue = Pairs(T \cup {c}, rise)
  BY <1>3, <1>11, Zenon DEF AlarmsDue
<1>13. IsFiniteSet(Pairs(T, rise))
  <2>1. IsFiniteSet(Pairs(T \cup {c}, rise))
    BY <1>12
  <2> QED
    BY <2>1, <1>11, PairsOfFewer, Zenon
<1>14. Cardinality(AlarmsDue) = Cardinality(Pairs(T, rise)) + Risen(b, n)
  <2>1. c \notin T /\ IsFiniteSet(rise[c]) /\ Cardinality(rise[c]) = Risen(b, n)
    BY <1>11, <1>9, <1>10, Zenon
  <2>2. Cardinality(Pairs(T \cup {c}, rise)) = Cardinality(Pairs(T, rise)) + Cardinality(rise[c])
    BY <1>13, <2>1, PairsAdded
  <2> QED
    BY <1>12, <2>1, <2>2, Zenon
<1>15. AlarmsDue' = Pairs(T, rise)
  BY <1>2, <1>5, <1>6, Zenon DEF AlarmsDue
<1>16. PICK D : D = TurnsDue
  OBVIOUS
<1>17. TurnsDue' = D \ {c} /\ (c \in D <=> Turned(b, n) = 1)
  <2>1. \A o \in Untold \ {c} : Turned(checker[o].before, NewRow(checker[o]))' = Turned(checker[o].before, NewRow(checker[o]))
    BY <1>1, Zenon DEF Turned
  <2>2. c \in D <=> Turned(b, n) = 1
    BY <1>7, <1>16 DEF TurnsDue
  <2>3. TurnsDue' = D \ {c}
    BY <1>16, <2>1 DEF TurnsDue
  <2> QED
    BY <2>2, <2>3
<1>18. /\ IsFiniteSet(D \ {c}) /\ Cardinality(D) \in Nat
       /\ Cardinality(D \ {c}) = IF c \in D THEN Cardinality(D) - 1 ELSE Cardinality(D)
  BY <1>16, FS_RemoveElement, FS_CardinalityType
<1>19. Cardinality(TurnsDue) = Cardinality(TurnsDue') + Turned(b, n)
  BY <1>10, <1>16, <1>17, <1>18
<1> QED
  BY <1>7, <1>13, <1>14, <1>15, <1>16, <1>17, <1>18, <1>19
LEMMA NothingDue == Untold = {} => AlarmsDue = {} /\ TurnsDue = {}
BY DEF AlarmsDue, TurnsDue, Pairs

LEMMA AccountsInit == HealthSignalsInit => Accounts
<1> SUFFICES ASSUME HealthSignalsInit PROVE Accounts
  OBVIOUS
<1>1. \A c \in Checkers : checker[c].pc = "idle"
  BY DEF HealthSignalsInit, NoChecker
<1>2. AlarmsDue = {} /\ TurnsDue = {}
  BY <1>1, NothingDue DEF Untold
<1>3. alarmsOwed = 0 /\ turnsOwed = 0
  BY Zenon DEF HealthSignalsInit
<1> QED
  BY <1>1, <1>2, <1>3, FS_EmptySet DEF Accounts

LEMMA AccountsStep == HealthTypes /\ Accounts /\ [HealthSignalsNext]_healthSignalsVars => Accounts'
<1> SUFFICES ASSUME HealthTypes, Accounts, [HealthSignalsNext]_healthSignalsVars PROVE Accounts'
  OBVIOUS
<1>1. ASSUME subject' = subject, volume' = volume, Untold' = Untold, alarmsOwed' = alarmsOwed, turnsOwed' = turnsOwed,
             torn' = FALSE => torn = FALSE, torn \in BOOLEAN, torn' \in BOOLEAN,
             \A o \in Untold : checker'[o] = checker[o],
             \A o \in Checkers : checker'[o].pc = "loaded" /\ ~checker'[o].crossed => checker'[o].before = healthRow'
      PROVE  Accounts'
  <2>1. AlarmsDue' = AlarmsDue /\ TurnsDue' = TurnsDue
    BY <1>1, DuesStay
  <2> QED
    BY <1>1, <2>1 DEF Accounts
<1>2. ASSUME DataChanges PROVE Accounts'
  <2>1. Untold' = Untold
    BY <1>2, Zenon DEF DataChanges, Untold
  <2> QED
    BY <1>1, <1>2, <2>1 DEF DataChanges, Accounts, HealthTypes
<1>3. ASSUME NEW c \in Checkers, ReadData(c) PROVE Accounts'
  <2>1. checker'[c].pc = "read" /\ \A o \in Checkers : o # c => checker'[o] = checker[o]
    BY <1>3 DEF ReadData, NoChecker, HealthTypes
  <2>2. Untold' = Untold /\ c \notin Untold
    BY <1>3, <2>1 DEF ReadData, Untold
  <2> QED
    BY <1>1, <1>3, <2>1, <2>2 DEF ReadData, Accounts, HealthTypes, Untold
<1>4. ASSUME NEW c \in Checkers, ReadRow(c) PROVE Accounts'
  <2>1. /\ checker'[c] = [checker[c] EXCEPT !.pc = "loaded", !.before = healthRow]
        /\ \A o \in Checkers : o # c => checker'[o] = checker[o]
    BY <1>4 DEF ReadRow, HealthTypes
  <2>2. checker'[c].pc = "loaded" /\ checker'[c].before = healthRow
    <3>1. \E b : \E p \in {"read", "loaded", "persisted"}, n \in [Counts(subject) -> Nat], x \in BOOLEAN :
            checker[c] = [pc |-> p, counts |-> n, before |-> b, crossed |-> x]
      BY <1>4 DEF HealthTypes, IsChecker, ReadRow, NoChecker
    <3> QED
      BY <2>1, <3>1
  <2>3. Untold' = Untold /\ c \notin Untold
    BY <1>4, <2>1, <2>2 DEF ReadRow, Untold
  <2> QED
    BY <1>1, <1>4, <2>1, <2>2, <2>3 DEF ReadRow, Accounts, HealthTypes, Untold
<1>5. ASSUME NEW c \in Checkers, PersistRow(c) PROVE Accounts'
  <2>1. CASE InsertFails(c)
    <3>1. /\ checker' = [checker EXCEPT ![c] = NoChecker] /\ checker[c].pc = "loaded"
          /\ UNCHANGED <<subject, volume, healthRow, alarmsOwed, turnsOwed, torn>>
      BY <1>5, <2>1 DEF PersistRow, InsertFails
    <3>2. checker'[c].pc = "idle" /\ \A o \in Checkers : o # c => checker'[o] = checker[o]
      BY <3>1 DEF NoChecker, HealthTypes
    <3>3. Untold' = Untold /\ c \notin Untold
      BY <3>1, <3>2 DEF Untold
    <3> QED
      BY <1>1, <3>1, <3>2, <3>3 DEF Accounts, HealthTypes, Untold
  <2>2. CASE RowIsWritten(c, RowWritten(NewRow(checker[c]), checker[c].before))
    <3>1. PICK new : new = NewRow(checker[c])
      OBVIOUS
    <3>0. PICK w : w = RowWritten(new, checker[c].before)
      OBVIOUS
    <3>2. /\ checker[c].pc = "loaded" /\ healthRow' = w
          /\ alarmsOwed' = alarmsOwed + Risen(healthRow, w)
          /\ turnsOwed' = turnsOwed + Turned(healthRow, w)
          /\ torn' = (torn \/ checker[c].crossed)
          /\ checker' = [o \in Checkers |->
               IF o = c THEN [checker[c] EXCEPT !.pc = "persisted"]
               ELSE IF checker[o].pc = "loaded" THEN [checker[o] EXCEPT !.crossed = TRUE]
               ELSE checker[o]]
          /\ UNCHANGED <<subject, volume>>
      BY <1>5, <2>2, <3>1, <3>0 DEF PersistRow, RowIsWritten
    <3>3. /\ checker'[c].pc = "persisted" /\ checker'[c].before = checker[c].before
          /\ checker'[c].counts = checker[c].counts
      <4>1. checker'[c] = [checker[c] EXCEPT !.pc = "persisted"]
        BY <3>2, Zenon
      <4>2. \E b : \E p \in {"read", "loaded", "persisted"}, n \in [Counts(subject) -> Nat], x \in BOOLEAN :
              checker[c] = [pc |-> p, counts |-> n, before |-> b, crossed |-> x]
        BY <3>2 DEF HealthTypes, IsChecker, NoChecker
      <4> QED
        BY <4>1, <4>2
    <3>4. \A o \in Checkers : o # c /\ checker[o].pc # "loaded" => checker'[o] = checker[o]
      BY <3>2, Zenon
    <3>5. \A o \in Checkers : o # c /\ checker[o].pc = "loaded" => checker'[o].pc = "loaded" /\ checker'[o].crossed
      <4> SUFFICES ASSUME NEW o \in Checkers, o # c, checker[o].pc = "loaded"
                   PROVE  checker'[o].pc = "loaded" /\ checker'[o].crossed = TRUE
        OBVIOUS
      <4>1. checker'[o] = [checker[o] EXCEPT !.crossed = TRUE]
        BY <3>2, Zenon
      <4>2. \E b : \E p \in {"read", "loaded", "persisted"}, n \in [Counts(subject) -> Nat], x \in BOOLEAN :
              checker[o] = [pc |-> p, counts |-> n, before |-> b, crossed |-> x]
        BY DEF HealthTypes, IsChecker, NoChecker
      <4> QED
        BY <4>1, <4>2
    <3>6. Untold' = Untold \cup {c} /\ c \notin Untold /\ \A o \in Untold : checker'[o] = checker[o]
      BY <3>2, <3>3, <3>4, <3>5 DEF Untold
    <3>7. IsHealthRow(checker'[c].before)
      BY <3>3, CheckerCarries
    <3>8. NewRow(checker'[c]) = new
      BY <3>1, <3>3, Zenon DEF NewRow
    <3>9. /\ IsFiniteSet(AlarmsDue') /\ IsFiniteSet(TurnsDue')
          /\ Cardinality(AlarmsDue') = Cardinality(AlarmsDue) + Risen(checker[c].before, new)
          /\ Cardinality(TurnsDue') = Cardinality(TurnsDue) + Turned(checker[c].before, new)
      BY <3>2, <3>3, <3>6, <3>7, <3>8, DuesAdded DEF Accounts
    <3>10. ~torn' => /\ alarmsOwed' = Cardinality(AlarmsDue') /\ turnsOwed' = Cardinality(TurnsDue')
      <4> SUFFICES ASSUME ~torn' PROVE alarmsOwed' = Cardinality(AlarmsDue') /\ turnsOwed' = Cardinality(TurnsDue')
        OBVIOUS
      <4>1. ~torn /\ ~checker[c].crossed
        BY <3>2
      <4>2. checker[c].before = healthRow
        BY <3>2, <4>1 DEF Accounts
      <4>3. w = new
        <5>1. new = [status |-> new.status, codes |-> new.codes]
          BY <3>1 DEF NewRow
        <5>2. RowWritten(new, healthRow) = new
          BY <5>1 DEF RowWritten
        <5> QED
          BY <3>0, <4>2, <5>2, Zenon
      <4> QED
        BY <3>2, <3>9, <4>1, <4>2, <4>3 DEF Accounts
    <3>11. \A o \in Checkers : checker'[o].pc = "loaded" /\ ~checker'[o].crossed => checker'[o].before = healthRow'
      BY <3>3, <3>4, <3>5
    <3> QED
      BY <3>9, <3>10, <3>11 DEF Accounts
  <2> QED
    BY <1>5, <2>1, <2>2 DEF PersistRow
<1>6. ASSUME NEW c \in Checkers, Emit(c) PROVE Accounts'
  <2>1. PICK new : new = NewRow(checker[c])
    OBVIOUS
  <2>2. /\ checker[c].pc = "persisted"
        /\ alarmsOwed' = alarmsOwed - Risen(checker[c].before, new)
        /\ turnsOwed' = turnsOwed - Turned(checker[c].before, new)
        /\ checker' = [checker EXCEPT ![c] = NoChecker]
        /\ UNCHANGED <<subject, volume, healthRow, torn>>
    BY <1>6, <2>1 DEF Emit
  <2>3. checker'[c].pc = "idle" /\ \A o \in Checkers : o # c => checker'[o] = checker[o]
    BY <2>2 DEF NoChecker, HealthTypes
  <2>4. Untold' = Untold \ {c} /\ c \in Untold
    BY <2>2, <2>3 DEF Untold
  <2>5. \A o \in Untold \ {c} : checker'[o] = checker[o]
    BY <2>3 DEF Untold
  <2>6. /\ IsFiniteSet(AlarmsDue') /\ IsFiniteSet(TurnsDue')
        /\ Cardinality(AlarmsDue) = Cardinality(AlarmsDue') + Risen(checker[c].before, new)
        /\ Cardinality(TurnsDue) = Cardinality(TurnsDue') + Turned(checker[c].before, new)
    BY <2>1, <2>2, <2>4, <2>5, DuesTold DEF Accounts
  <2>7. Cardinality(AlarmsDue') \in Nat /\ Cardinality(TurnsDue') \in Nat
    BY <2>6, FS_CardinalityType
  <2>8. Risen(checker[c].before, new) \in Nat /\ Turned(checker[c].before, new) \in {0, 1}
    <3>1. IsHealthRow(new) /\ IsHealthRow(checker[c].before)
      BY <2>1, NewRowIsARow, CheckerCarries DEF HealthTypes
    <3> QED
      BY <3>1, RisenIsANumber, Zenon
  <2>9. ~torn' => alarmsOwed' = Cardinality(AlarmsDue') /\ turnsOwed' = Cardinality(TurnsDue')
    BY <2>2, <2>6, <2>7, <2>8 DEF Accounts
  <2>10. \A o \in Checkers : checker'[o].pc = "loaded" /\ ~checker'[o].crossed => checker'[o].before = healthRow'
    BY <2>2, <2>3 DEF Accounts
  <2> QED
    BY <2>6, <2>9, <2>10 DEF Accounts
<1>7. ASSUME NEW c \in Checkers, CheckerDies(c) PROVE Accounts'
  <2>1. checker'[c].pc = "idle" /\ \A o \in Checkers : o # c => checker'[o] = checker[o]
    BY <1>7 DEF CheckerDies, NoChecker, HealthTypes
  <2>2. subject' = subject /\ volume' = volume /\ healthRow' = healthRow
    BY <1>7 DEF CheckerDies
  <2>3. \A o \in Checkers : checker'[o].pc = "loaded" /\ ~checker'[o].crossed => checker'[o].before = healthRow'
    BY <2>1, <2>2 DEF Accounts
  <2>4. CASE checker[c].pc = "persisted"
    <3>1. Untold' = Untold \ {c} /\ c \in Untold /\ \A o \in Untold \ {c} : checker'[o] = checker[o]
      BY <2>1, <2>4 DEF Untold
    <3>2. IsFiniteSet(AlarmsDue') /\ IsFiniteSet(TurnsDue')
      BY <2>2, <3>1, DuesTold DEF Accounts
    <3>3. torn'
      BY <1>7, <2>4 DEF CheckerDies
    <3> QED
      BY <2>3, <3>2, <3>3 DEF Accounts
  <2>5. CASE checker[c].pc # "persisted"
    <3>1. Untold' = Untold /\ \A o \in Untold : checker'[o] = checker[o]
      BY <2>1, <2>5 DEF Untold
    <3>2. torn' = torn /\ alarmsOwed' = alarmsOwed /\ turnsOwed' = turnsOwed
      BY <1>7, <2>5 DEF CheckerDies, HealthTypes
    <3> QED
      BY <1>1, <2>2, <2>3, <3>1, <3>2 DEF HealthTypes
  <2> QED
    BY <2>4, <2>5
<1>8. CASE UNCHANGED healthSignalsVars
  <2>1. Untold' = Untold
    BY <1>8, Zenon DEF healthSignalsVars, Untold
  <2> QED
    BY <1>1, <1>8, <2>1 DEF healthSignalsVars, Accounts, HealthTypes
<1> QED
  BY <1>2, <1>3, <1>4, <1>5, <1>6, <1>7, <1>8 DEF HealthSignalsNext

LEMMA AccountsHold == HealthSignalsSpec => []Accounts
BY AccountsInit, AccountsStep, HealthTypesHold, PTL DEF HealthSignalsSpec

RaisesAlarms ==
    /\ data' # data /\ AsBad(Metrics(data'), Metrics(data)) /\ RatesOfZero(Metrics(data')) \subseteq RatesOfZero(Metrics(data)) =>
          Rank(Status(data')) <= Rank(Status(data))
    /\ ~torn' /\ Untold' = {} => alarmsOwed' = 0 /\ turnsOwed' = 0

\* In every subsystem, metrics that only become worse never look healthier; and unless writes
\* crossed or a teller died, every alert and every change of the status is told exactly once, by
\* any number of evaluations that overlap in any order.
THEOREM EveryAlarmIsRaised == HealthSignalsSpec => AlarmsAreRaised
<1>1. HealthTypes /\ HealthTypes' /\ Accounts' /\ [HealthSignalsNext]_healthSignalsVars => [RaisesAlarms]_healthSignalsVars
  <2> SUFFICES ASSUME HealthTypes, HealthTypes', Accounts', [HealthSignalsNext]_healthSignalsVars PROVE RaisesAlarms
    OBVIOUS
  <2>1. ~torn' /\ Untold' = {} => alarmsOwed' = 0 /\ turnsOwed' = 0
    <3>1. Untold' = {} => AlarmsDue' = {} /\ TurnsDue' = {}
      BY DEF AlarmsDue, TurnsDue, Pairs
    <3> QED
      BY <3>1, FS_EmptySet DEF Accounts
  <2>2. volume \in Nat \ {0} /\ subject \in Subjects /\ data \in [Counts(subject) -> Nat]
    BY HealthSignalsAssumption DEF HealthTypes
  <2>3. data' # data => data' \in [Counts(subject) -> Nat]
    <3>1. subject' = subject
      BY Zenon DEF HealthSignalsNext, healthSignalsVars, DataChanges, ReadData, ReadRow, PersistRow, Emit, CheckerDies
    <3> QED
      BY <3>1 DEF HealthTypes
  <2>4. PICK new : new = data'
    OBVIOUS
  <2>5. new # data /\ AsBad(Metrics(new), Metrics(data)) /\ RatesOfZero(Metrics(new)) \subseteq RatesOfZero(Metrics(data)) =>
          Rank(Status(new)) <= Rank(Status(data))
    BY <2>2, <2>3, <2>4, WorseLooksNoBetter
  <2> QED
    BY <2>1, <2>4, <2>5, Zenon DEF RaisesAlarms
<1> QED
  BY <1>1, HealthTypesHold, AccountsHold, PTL DEF HealthSignalsSpec, AlarmsAreRaised, RaisesAlarms

-----------------------------------------------------------------------------
(***************************************************************************)
(* Reports, decision traces and repairs (Oversight).                       *)
(***************************************************************************)
(* The newest row of a set: the set is not empty, and the greatest of its dates has a last row *)

LEMMA LessIsWellFounded == IsWellFoundedOn({p \in Nat \X Nat : p[1] < p[2]}, Nat)
BY NatLessThanWellFounded, Zenon DEF OpToRel

\* A non-empty set of naturals has a least number.
LEMMA LeastOf == \A T : T \subseteq Nat /\ T # {} => \E x \in T : \A y \in T : x <= y
<1> SUFFICES ASSUME NEW T, T \subseteq Nat, T # {} PROVE \E x \in T : \A y \in T : x <= y
  OBVIOUS
<1>1. PICK x \in T : \A y \in T : ~ (<<y, x>> \in {p \in Nat \X Nat : p[1] < p[2]})
  BY LessIsWellFounded, WFMin
<1>2. \A y \in T : ~ (y < x)
  BY <1>1
<1> QED
  BY <1>2

\* One that is bounded has a greatest.
LEMMA GreatestOf == \A T, n : n \in Nat /\ T \subseteq 0 .. n /\ T # {} => \E x \in T : \A y \in T : y <= x
<1> SUFFICES ASSUME NEW T, NEW n \in Nat, T \subseteq 0 .. n, T # {} PROVE \E x \in T : \A y \in T : y <= x
  OBVIOUS
<1>1. PICK Z : Z = {n - t : t \in T}
  OBVIOUS
<1>2. \A t \in T : t \in Nat /\ n - t \in Nat
  OBVIOUS
<1>3. Z \subseteq Nat /\ Z # {}
  BY <1>1, <1>2
<1>4. PICK z \in Z : \A y \in Z : z <= y
  BY <1>3, LeastOf
<1>5. PICK x \in T : z = n - x
  BY <1>1
<1>6. ASSUME NEW y \in T PROVE y <= x
  <2>1. n - y \in Z
    BY <1>1
  <2>2. n - x <= n - y
    BY <1>4, <1>5, <2>1
  <2> QED
    BY <1>2, <2>2
<1> QED
  BY <1>6

\* Rows and writes that are dated no later than n.
DatedEntry(n) == [kind : EntryKinds, ref : Nat, at : 0 .. n]
DatedWrite(n) == [to : EntryKinds \cup ColumnNames, ref : Nat, at : 0 .. n, seen : Nat]

LEMMA ElementsOf == \A S : \A s \in Seq(S) : \A i \in 1 .. Len(s) : s[i] \in S
OBVIOUS

LEMMA RowsAreDated ==
    ASSUME NEW n \in Nat, journal \in Seq(DatedEntry(n))
    PROVE  /\ Now \in Nat
           /\ \A i \in 1 .. Now :
                /\ journal[i].kind \in EntryKinds /\ journal[i].ref \in Nat
                /\ journal[i].at \in Nat /\ journal[i].at <= n
<1>1. Now \in Nat /\ \A i \in 1 .. Now : journal[i] \in DatedEntry(n)
  BY ElementsOf DEF Now
<1>2. \A e \in DatedEntry(n) : e.kind \in EntryKinds /\ e.ref \in Nat /\ e.at \in Nat /\ e.at <= n
  BY DEF DatedEntry
<1> QED
  BY <1>1, <1>2

LEMMA NewestIs ==
    ASSUME NEW n \in Nat, journal \in Seq(DatedEntry(n)), NEW S, S \subseteq 1 .. Now, S # {}
    PROVE  Newest(S) \in S /\ \A j \in S : Sorts(j, Newest(S))
<1>1. Now \in Nat /\ \A i \in S : journal[i].at \in 0 .. n /\ i \in 0 .. Now /\ i \in Nat
  BY RowsAreDated
<1>2. PICK D : D = {journal[i].at : i \in S}
  OBVIOUS
<1>3. PICK d \in D : \A e \in D : e <= d
  <2>1. D \subseteq 0 .. n /\ D # {}
    BY <1>1, <1>2
  <2> QED
    BY <2>1, GreatestOf
<1>4. PICK T : T = {i \in S : journal[i].at = d}
  OBVIOUS
<1>5. PICK k \in T : \A i \in T : i <= k
  <2>1. T \subseteq 0 .. Now /\ T # {} /\ Now \in Nat
    BY <1>1, <1>2, <1>3, <1>4
  <2> QED
    BY <2>1, GreatestOf
<1>6. k \in S /\ journal[k].at = d /\ d \in Nat /\ k \in Nat
  BY <1>1, <1>4, <1>5
<1>7. ASSUME NEW j \in S PROVE Sorts(j, k)
  <2>1. journal[j].at \in Nat /\ j \in Nat /\ journal[j].at <= d
    BY <1>1, <1>2, <1>3
  <2>2. journal[j].at = d => j <= k
    BY <1>4, <1>5
  <2> QED
    BY <1>6, <2>1, <2>2 DEF Sorts
<1> QED
  BY <1>6, <1>7, Zenon DEF Newest

\* A row that no other follows, in date or in order, is the newest.
LEMMA NewestIsLast ==
    ASSUME NEW n \in Nat, journal \in Seq(DatedEntry(n)), NEW S, S \subseteq 1 .. Now,
           NEW k \in S, \A j \in S : j <= k /\ journal[j].at <= journal[k].at
    PROVE  Newest(S) = k
<1>1. Newest(S) \in S /\ \A j \in S : Sorts(j, Newest(S))
  <2>1. S # {}
    OBVIOUS
  <2> QED
    BY <2>1, NewestIs
<1>2. \A j \in S : j <= k /\ journal[j].at <= journal[k].at
  OBVIOUS
<1>3. PICK w : w = Newest(S) /\ w \in S
  BY <1>1
<1>4. w <= k /\ journal[w].at <= journal[k].at
  BY <1>2, <1>3, Zenon
<1>5. Sorts(k, w)
  BY <1>1, <1>3, Zenon
<1>6. w \in Nat /\ k \in Nat /\ journal[w].at \in Nat /\ journal[k].at \in Nat
  BY <1>3, RowsAreDated
<1>7. w = k
  BY <1>4, <1>5, <1>6 DEF Sorts
<1> QED
  BY <1>3, <1>7

LEMMA RowsAreRows ==
    ASSUME NEW n \in Nat, n <= Now, NEW b
    PROVE  RowsOf(b, n) \subseteq 1 .. Now
BY DEF RowsOf, Now

LEMMA NewestRefIsNat ==
    ASSUME NEW m \in Nat, journal \in Seq(DatedEntry(m)), NEW b
    PROVE  NewestRef(b, Now) \in Nat
<1>1. Now \in Nat
  BY RowsAreDated
<1>2. RowsOf(b, Now) # {} => Newest(RowsOf(b, Now)) \in 1 .. Now
  BY <1>1, NewestIs, RowsAreRows
<1> QED
  BY <1>2, RowsAreDated DEF NewestRef, Nothing
-----------------------------------------------------------------------------
(* What requests and repairs have yet to write *)

LEMMA StagesAreNats == \A d \in Domains : LifeStages[d] \subseteq Nat /\ LifeStages[d] # {}
BY OversightAssumption DEF Domains

LEMMA ConcatIsSeq == \A S : \A p, q \in Seq(S) : p \o q \in Seq(S)
OBVIOUS

LEMMA OneOrTwo == \A S : \A a, b \in S : <<a>> \in Seq(S) /\ <<a, b>> \in Seq(S)
OBVIOUS

LEMMA SequencesOf == \A S, T : S \subseteq T => Seq(S) \subseteq Seq(T)
OBVIOUS

LEMMA LaterToo ==
    ASSUME NEW n \in Nat, NEW m \in Nat, n <= m
    PROVE  Seq(DatedWrite(n)) \subseteq Seq(DatedWrite(m)) /\ Seq(DatedEntry(n)) \subseteq Seq(DatedEntry(m))
<1>1. DatedWrite(n) \subseteq DatedWrite(m) /\ DatedEntry(n) \subseteq DatedEntry(m)
  BY DEF DatedWrite, DatedEntry
<1> QED
  BY <1>1, SequencesOf

LEMMA ToIsWrite ==
    ASSUME NEW n \in Nat, NEW t \in EntryKinds \cup ColumnNames, NEW r \in Nat
    PROVE  To(t, r) \in DatedWrite(n)
BY DEF To, DatedWrite

LEMMA KeptIsSeq == \A S : \A w \in S : Kept(w) \in Seq(S)
BY DEF Kept

LEMMA KindsAndColumns ==
    /\ TraceKinds \subseteq EntryKinds
    /\ {"lifecycle_decision", "monetization_decision", "notification_selection", "reward_chest_resolution",
        "session_evaluation", "transition", "delivery", "mission", "chest", "session", "attempt", "rejection"}
       \subseteq EntryKinds
    /\ {"stage", "noticeStage", "noticeRef", "offerStage", "offerRow"} \subseteq ColumnNames
    /\ EntryKinds \cap ColumnNames = {}
BY DEF EntryKinds, TraceKinds, ColumnNames

LEMMA SelectionIsPlan ==
    ASSUME NEW n \in Nat, NEW r \in Nat
    PROVE  SelectionPlan(r) \in Seq(DatedWrite(n))
<1>1. PICK a, b : a = To("noticeRef", r) /\ b = To("notification_selection", IF r = Nothing THEN ByUser ELSE r)
  OBVIOUS
<1>2. a \in DatedWrite(n) /\ b \in DatedWrite(n)
  BY <1>1, ToIsWrite, KindsAndColumns DEF ByUser
<1>3. Kept(a) \in Seq(DatedWrite(n)) /\ Kept(b) \in Seq(DatedWrite(n))
  BY <1>2, KeptIsSeq
<1> QED
  BY <1>1, <1>3, ConcatIsSeq DEF SelectionPlan

LEMMA EvaluationIsPlan ==
    ASSUME Clock \in Nat, columns \in Columns, NEW s \in Nat
    PROVE  EvaluationPlan(s) \in Seq(DatedWrite(Clock + 1))
<1>1. PICK S : S = DatedWrite(Clock + 1)
  OBVIOUS
<1>2. PICK a, b, c, d, e :
        a = To("offerRow", 1) /\ b = ToStage(s) /\ c = To("noticeStage", s) /\ d = StageSelection(s)
        /\ e = To("lifecycle_decision", s)
  OBVIOUS
<1>3. a \in S /\ c \in S /\ e \in S
  BY <1>1, <1>2, ToIsWrite, KindsAndColumns
<1>4. b \in S
  BY <1>1, <1>2, KindsAndColumns DEF ToStage, DatedWrite, Columns
<1>5. d \in Seq(S)
  <2>1. SelectionPlan(ByLifecycle) \in Seq(S) /\ <<>> \in Seq(S)
    BY <1>1, SelectionIsPlan DEF ByLifecycle
  <2> QED
    BY <1>2, <2>1 DEF StageSelection
<1>6. Kept(a) \in Seq(S) /\ Kept(b) \in Seq(S) /\ Kept(c) \in Seq(S) /\ Kept(e) \in Seq(S)
  BY <1>3, <1>4, KeptIsSeq
<1>7. EvaluationPlan(s) = Kept(a) \o Kept(b) \o Kept(c) \o d \o Kept(e)
  BY <1>2 DEF EvaluationPlan
<1>8. Kept(a) \o Kept(b) \o Kept(c) \o d \o Kept(e) \in Seq(S)
  BY <1>5, <1>6, ConcatIsSeq
<1> QED
  BY <1>1, <1>7, <1>8

LEMMA PlansArePlans ==
    ASSUME domain \in Domains, Clock \in Nat, journal \in Seq(DatedEntry(Clock)), columns \in Columns
    PROVE  Plans \subseteq Seq(DatedWrite(Clock + 1))
<1>1. PICK S : S = DatedWrite(Clock + 1)
  OBVIOUS
<1>2. \A t \in EntryKinds \cup ColumnNames, r \in Nat : To(t, r) \in S
  BY <1>1, ToIsWrite
<1>3. \A s \in LifeStages[domain] : s \in Nat
  BY StagesAreNats
<1>4. \A s \in LifeStages[domain] : EvaluationPlan(s) \in Seq(S)
  BY <1>1, <1>3, EvaluationIsPlan
<1>5. \A s \in LifeStages[domain] : MonetizationPlan(s) \in Seq(S)
  <2> TAKE s \in LifeStages[domain]
  <2>1. PICK p, q : p = Kept(To("monetization_decision", s)) /\ q = Kept(To("offerStage", s))
    OBVIOUS
  <2>2. p \in Seq(S) /\ q \in Seq(S)
    BY <1>2, <1>3, <2>1, KeptIsSeq, KindsAndColumns
  <2> QED
    BY <1>4, <2>1, <2>2, ConcatIsSeq DEF MonetizationPlan
<1>6. ReminderPlan \in Seq(S)
  <2>1. PICK o, p, q :
          o = SelectionPlan(Nothing) /\ p = Kept(To("delivery", Nothing)) /\ q = Kept(To("noticeRef", Nothing))
    OBVIOUS
  <2>2. p \in Seq(S) /\ q \in Seq(S)
    BY <1>2, <2>1, KeptIsSeq, KindsAndColumns DEF Nothing
  <2>3. o \in Seq(S)
    BY <1>1, <2>1, SelectionIsPlan DEF Nothing
  <2> QED
    BY <2>1, <2>2, <2>3, ConcatIsSeq DEF ReminderPlan
<1>7. DailyPlans \subseteq Seq(S)
  <2>1. PICK m : m = NewestRef("mission", Now) /\ m \in Nat
    BY NewestRefIsNat
  <2>2. To("mission", m + 1) \in S /\ To("reward_chest_resolution", Nothing) \in S /\ To("reward_chest_resolution", m) \in S
    BY <1>2, <2>1, KindsAndColumns DEF Nothing
  <2>3. \A p \in DailyPlans : \/ p = <<To("mission", m + 1)>> \/ p = <<To("reward_chest_resolution", Nothing)>>
                              \/ p = <<To("reward_chest_resolution", m)>>
    BY <2>1 DEF DailyPlans
  <2>4. \A p \in DailyPlans : p \in Seq(S)
    BY <2>2, <2>3, OneOrTwo, Zenon
  <2> QED
    BY <2>4
<1>8. SessionPlans \subseteq Seq(S)
  <2>1. PICK m : m = NewestRef("session", Now) /\ m \in Nat
    BY NewestRefIsNat
  <2>2. \A r \in Nat : To("session", r) \in S /\ To("attempt", r) \in S /\ To("session_evaluation", r) \in S
                       /\ To("rejection", r) \in S
    BY <1>2, KindsAndColumns
  <2>3. \A p \in SessionPlans : \E r \in Nat : \/ p = <<To("session", r)>> \/ p = <<To("attempt", r), To("session_evaluation", r)>>
                                               \/ p = <<To("rejection", r)>>
    BY <2>1 DEF SessionPlans
  <2>4. ASSUME NEW p \in SessionPlans PROVE p \in Seq(S)
    <3>1. PICK r \in Nat : \/ p = <<To("session", r)>> \/ p = <<To("attempt", r), To("session_evaluation", r)>>
                           \/ p = <<To("rejection", r)>>
      BY <2>3
    <3>2. <<To("session", r)>> \in Seq(S) /\ <<To("attempt", r), To("session_evaluation", r)>> \in Seq(S)
          /\ <<To("rejection", r)>> \in Seq(S)
      BY <2>2, OneOrTwo, Zenon
    <3> QED
      BY <3>1, <3>2, Zenon
  <2> QED
    BY <2>4
<1> QED
  BY <1>1, <1>4, <1>5, <1>6, <1>7, <1>8 DEF Plans, Domains

\* The repairs that are offered, and what they write.
Repairs == {"session_reference", "notification_state", "lifecycle_transition", "monetization_state"}

LEMMA RepairsArePlans ==
    ASSUME domain \in Domains, Clock \in Nat, columns \in Columns, NEW a \in Offered, NEW p \in RepairPlans(a)
    PROVE  a \in Repairs /\ p \in Seq(DatedWrite(Clock + 1))
<1>1. PICK S : S = DatedWrite(Clock + 1)
  OBVIOUS
<1>2. \A t \in EntryKinds \cup ColumnNames, r \in Nat : To(t, r) \in S
  BY <1>1, ToIsWrite
<1>3. columns.stage \in Nat
  BY DEF Columns, ColumnNames
<1>4. To("noticeStage", columns.stage) \in S /\ To("transition", Nothing) \in S /\ To("offerStage", columns.stage) \in S
  BY <1>2, <1>3, KindsAndColumns DEF Nothing
<1>5. \A s \in LifeStages[domain] : EvaluationPlan(s) \in Seq(S)
  BY <1>1, StagesAreNats, EvaluationIsPlan
<1>6. \A w \in S, s \in LifeStages[domain] : <<w>> \o EvaluationPlan(s) \in Seq(S)
  BY <1>5, OneOrTwo, ConcatIsSeq
<1>7. a \in Repairs
  BY DEF Repairs, Offered, OfferedForSession, OfferedForLifecycle, OfferedForMonetization
<1>8. ASSUME a = "notification_state" PROVE p \in Seq(DatedWrite(Clock + 1))
  <2>1. RepairPlans(a) = {<<To("noticeStage", columns.stage)>> \o EvaluationPlan(s) : s \in LifeStages[domain]}
    BY <1>8 DEF RepairPlans
  <2>2. PICK s \in LifeStages[domain] : p = <<To("noticeStage", columns.stage)>> \o EvaluationPlan(s)
    BY <2>1
  <2> QED
    BY <1>1, <1>4, <1>6, <2>2, Zenon
<1>9. ASSUME a = "lifecycle_transition" PROVE p \in Seq(DatedWrite(Clock + 1))
  <2>1. RepairPlans(a) = {<<To("transition", Nothing)>> \o EvaluationPlan(s) : s \in LifeStages[domain]}
    BY <1>9 DEF RepairPlans
  <2>2. PICK s \in LifeStages[domain] : p = <<To("transition", Nothing)>> \o EvaluationPlan(s)
    BY <2>1
  <2> QED
    BY <1>1, <1>4, <1>6, <2>2, Zenon
<1>10. ASSUME a = "monetization_state" PROVE p \in Seq(DatedWrite(Clock + 1))
  <2>1. RepairPlans(a) = {<<To("offerStage", columns.stage)>>}
    BY <1>10 DEF RepairPlans
  <2> QED
    BY <1>1, <1>4, <2>1, OneOrTwo, Zenon
<1>11. ASSUME a = "session_reference" PROVE p \in Seq(DatedWrite(Clock + 1))
  <2>1. RepairPlans(a) = {<<>>}
    BY <1>11 DEF RepairPlans, SessionRepair
  <2> QED
    BY <1>1, <2>1
<1> QED
  BY <1>7, <1>8, <1>9, <1>10, <1>11 DEF Repairs
-----------------------------------------------------------------------------
(* The shape of the state *)

IsReview(r, n) ==
    \E l \in {"idle", "reading", "repairing", "done"}, w \in {"report", "check"}, t, i \in Nat, m \in Columns,
       q \in Seq(DatedWrite(n)), a \in Repairs \cup {"nothing"}, o \in BOOLEAN : \E f :
        r = [pc |-> l, what |-> w, traces |-> t, rows |-> m, since |-> i, plan |-> q, repaired |-> a,
             found |-> f, overlapped |-> o]

\* Every row and every write that is to come is dated no later than what has begun.
OversightShape ==
    /\ domain \in Domains
    /\ journal \in Seq(DatedEntry(Clock))
    /\ columns \in Columns
    /\ aged \in 0 .. Len(journal)
    /\ tracing \in [Traced -> Seq(DatedWrite(Clock))]
    /\ IsReview(review, Clock)
    /\ begun \in 0 .. MaxTraced[domain] /\ reviews \in 0 .. MaxReviews
    /\ crossed \in BOOLEAN

LEMMA BoundsAreNats == \A d \in Domains : MaxTraced[d] \in Nat /\ MaxReviews \in Nat
BY OversightAssumption DEF Domains

LEMMA ShapeIsType == OversightShape => OversightTypeOK
<1> SUFFICES ASSUME OversightShape PROVE OversightTypeOK
  OBVIOUS
<1>1. Clock \in Nat
  BY BoundsAreNats DEF OversightShape, Clock
<1>2. DatedWrite(Clock) \subseteq Write /\ DatedEntry(Clock) \subseteq Entry
  BY <1>1 DEF DatedWrite, DatedEntry, Write, Entry
<1>3. journal \in Seq(Entry) /\ \A p \in Seq(DatedWrite(Clock)) : p \in Seq(Write)
  BY <1>2, SequencesOf DEF OversightShape
<1>4. tracing \in [Traced -> Seq(Write)]
  BY <1>3 DEF OversightShape
<1> QED
  BY <1>3, <1>4 DEF OversightShape, IsReview, OversightTypeOK

LEMMA NoReviewIsReview == \A n \in Nat : IsReview(NoReview, n)
<1>1. NoColumns \in Columns
  BY DEF NoColumns, Columns, Nothing
<1>2. 0 \in Nat /\ \A n \in Nat : <<>> \in Seq(DatedWrite(n))
  OBVIOUS
<1> QED
  BY <1>1, <1>2, Zenon DEF IsReview, NoReview

LEMMA ShapeAtFirst == OversightInit => OversightShape
<1> SUFFICES ASSUME OversightInit PROVE OversightShape
  OBVIOUS
<1>1. domain \in Domains /\ begun = 0 /\ reviews = 0 /\ crossed = FALSE /\ aged = 0 /\ Clock = 0
  BY DEF OversightInit, Clock
<1>2. NoColumns \in Columns
  BY DEF NoColumns, Columns, Nothing
<1>3. FirstStage \in Nat
  BY StagesAreNats DEF FirstStage, Domains
<1>4. journal \in Seq(DatedEntry(Clock)) /\ columns \in Columns
  <2>1. [kind |-> "transition", ref |-> FirstStage, at |-> 0] \in DatedEntry(0)
    BY <1>3, KindsAndColumns DEF DatedEntry
  <2>2. [NoColumns EXCEPT !.stage = FirstStage, !.noticeStage = FirstStage] \in Columns
    BY <1>2, <1>3 DEF Columns
  <2>3. PICK e : e = [kind |-> "transition", ref |-> FirstStage, at |-> 0]
    OBVIOUS
  <2>4. <<e>> \in Seq(DatedEntry(0)) /\ <<>> \in Seq(DatedEntry(0))
    BY <2>1, <2>3, OneOrTwo
  <2>5. journal = <<e>> \/ journal = <<>>
    BY <2>3, Zenon DEF OversightInit
  <2>6. columns = NoColumns \/ columns = [NoColumns EXCEPT !.stage = FirstStage, !.noticeStage = FirstStage]
    BY Zenon DEF OversightInit
  <2> QED
    BY <1>1, <1>2, <2>2, <2>4, <2>5, <2>6, Zenon
<1>5. tracing \in [Traced -> Seq(DatedWrite(Clock))]
  BY DEF OversightInit
<1>6. IsReview(review, Clock)
  BY <1>1, NoReviewIsReview DEF OversightInit
<1>7. /\ aged \in 0 .. Len(journal)
      /\ begun \in 0 .. MaxTraced[domain] /\ reviews \in 0 .. MaxReviews
  <2>1. Len(journal) \in Nat /\ MaxTraced[domain] \in Nat /\ MaxReviews \in Nat
    BY <1>1, <1>4, BoundsAreNats
  <2>2. aged = 0 /\ begun = 0 /\ reviews = 0
    BY <1>1
  <2> QED
    BY <2>1, <2>2
<1>8. crossed \in BOOLEAN
  BY <1>1
<1> QED
  BY <1>1, <1>4, <1>5, <1>6, <1>7, <1>8, Zenon DEF OversightShape

\* What a commit leaves.
LEMMA AppendedAreRows ==
    ASSUME NEW n \in Nat, NEW w \in DatedWrite(n)
    PROVE  Appended(w) \in Seq(DatedEntry(n))
<1>1. w.to \in EntryKinds \cup ColumnNames /\ w.ref \in Nat /\ w.at \in 0 .. n
  BY DEF DatedWrite
<1>2. \A b \in EntryKinds : [kind |-> b, ref |-> w.ref, at |-> w.at] \in DatedEntry(n)
  BY <1>1 DEF DatedEntry
<1>3. PICK row : row = [b \in EntryKinds |-> [kind |-> b, ref |-> w.ref, at |-> w.at]]
  OBVIOUS
<1>4. \/ Appended(w) = <<>>
      \/ Appended(w) = <<[kind |-> "transition", ref |-> w.ref, at |-> w.at]>>
      \/ Appended(w) = <<[kind |-> "mission", ref |-> w.ref, at |-> w.at], [kind |-> "chest", ref |-> w.ref, at |-> w.at]>>
      \/ w.to \notin ColumnNames /\ Appended(w) = <<[kind |-> w.to, ref |-> w.ref, at |-> w.at]>>
  <2>1. CASE w.to = "stage"
    BY <2>1, Zenon DEF Appended
  <2>2. CASE w.to = "mission"
    BY <2>2 DEF Appended
  <2>3. CASE w.to \notin {"stage", "mission"}
    <3>1. w.to \in ColumnNames \ {"stage"} => Appended(w) = <<>>
      BY <2>3, Zenon DEF Appended
    <3>2. w.to \notin ColumnNames \ {"stage"} => Appended(w) = <<[kind |-> w.to, ref |-> w.ref, at |-> w.at]>>
      BY <2>3, Zenon DEF Appended
    <3> QED
      BY <2>3, <3>1, <3>2
  <2> QED
    BY <2>1, <2>2, <2>3
<1>5. PICK T : T = DatedEntry(n)
  OBVIOUS
<1>6. \A b \in EntryKinds : <<[kind |-> b, ref |-> w.ref, at |-> w.at]>> \in Seq(T)
  BY <1>2, <1>5, OneOrTwo, Zenon
<1>7. <<[kind |-> "mission", ref |-> w.ref, at |-> w.at], [kind |-> "chest", ref |-> w.ref, at |-> w.at]>> \in Seq(T)
  BY <1>2, <1>5, OneOrTwo, KindsAndColumns, "mission" \in EntryKinds, "chest" \in EntryKinds, Zenon
<1>8. <<>> \in Seq(T)
  OBVIOUS
<1>9. "transition" \in EntryKinds
  BY KindsAndColumns
<1> QED
  BY <1>1, <1>4, <1>5, <1>6, <1>7, <1>8, <1>9, Zenon

LEMMA CommitsKeepShape ==
    ASSUME NEW n \in Nat, journal \in Seq(DatedEntry(n)), columns \in Columns, NEW w \in DatedWrite(n), Commits(w)
    PROVE  /\ journal' \in Seq(DatedEntry(n)) /\ Len(journal) <= Len(journal')
           /\ columns' \in Columns
<1>1. Appended(w) \in Seq(DatedEntry(n)) /\ journal' = journal \o Appended(w)
  BY AppendedAreRows DEF Commits
<1>2. PICK q : q = Appended(w)
  OBVIOUS
<1>3. journal' \in Seq(DatedEntry(n)) /\ Len(journal') = Len(journal) + Len(q) /\ Len(journal) \in Nat /\ Len(q) \in Nat
  BY <1>1, <1>2, ConcatIsSeq
<1>4. w.ref \in Nat
  BY DEF DatedWrite
<1>5. columns' = columns \/ (w.to \in ColumnNames /\ columns' = [columns EXCEPT ![w.to] = w.ref])
  BY DEF Commits, Overwritten
<1> QED
  BY <1>3, <1>4, <1>5 DEF Columns

LEMMA TailIsSeq == \A S : \A q \in Seq(S) : q # <<>> => Tail(q) \in Seq(S) /\ Head(q) \in S
OBVIOUS

LEMMA ReviewsAre ==
    \A n : \A l \in {"idle", "reading", "repairing", "done"}, w \in {"report", "check"}, t, i \in Nat, m \in Columns,
             q \in Seq(DatedWrite(n)), a \in Repairs \cup {"nothing"}, o \in BOOLEAN : \A f :
        IsReview([pc |-> l, what |-> w, traces |-> t, rows |-> m, since |-> i, plan |-> q, repaired |-> a,
                  found |-> f, overlapped |-> o], n)
<1> TAKE n
<1> TAKE l \in {"idle", "reading", "repairing", "done"}, w \in {"report", "check"}, t, i \in Nat, m \in Columns,
         q \in Seq(DatedWrite(n)), a \in Repairs \cup {"nothing"}, o \in BOOLEAN
<1> TAKE f
<1>1. \E f_ : [pc |-> l, what |-> w, traces |-> t, rows |-> m, since |-> i, plan |-> q, repaired |-> a,
                found |-> f, overlapped |-> o]
               = [pc |-> l, what |-> w, traces |-> t, rows |-> m, since |-> i, plan |-> q, repaired |-> a,
                  found |-> f_, overlapped |-> o]
  BY Zenon
<1> QED
  BY <1>1, ZenonT(60) DEF IsReview

\* What the steps of a review leave, and how they read.
LEMMA ReviewKeepsShape ==
    ASSUME NEW n \in Nat, NEW r, IsReview(r, n)
    PROVE  /\ \A m \in Nat : n <= m => IsReview(r, m)
           /\ \A b \in BOOLEAN : IsReview([r EXCEPT !.overlapped = b], n)
           /\ r.plan # <<>> => IsReview([r EXCEPT !.plan = Tail(@)], n)
           /\ \A f : IsReview([r EXCEPT !.pc = "done", !.found = f], n)
           /\ \A w \in {"report", "check"}, t, i \in Nat, m \in Columns :
                IsReview([r EXCEPT !.pc = "reading", !.what = w, !.traces = t, !.rows = m, !.since = i], n)
           /\ \A a \in Repairs, q \in Seq(DatedWrite(n)), b \in BOOLEAN :
                IsReview([r EXCEPT !.pc = "repairing", !.repaired = a, !.plan = q, !.overlapped = b], n)
           /\ r.pc \in {"idle", "reading", "repairing", "done"} /\ r.rows \in Columns
           /\ r.plan \in Seq(DatedWrite(n)) /\ r.overlapped \in BOOLEAN /\ r.what \in {"report", "check"}
<1>1. PICK l \in {"idle", "reading", "repairing", "done"}, w \in {"report", "check"}, t \in Nat, i \in Nat, m \in Columns,
           q \in Seq(DatedWrite(n)), a \in Repairs \cup {"nothing"}, o \in BOOLEAN : \E f :
        r = [pc |-> l, what |-> w, traces |-> t, rows |-> m, since |-> i, plan |-> q, repaired |-> a,
             found |-> f, overlapped |-> o]
  BY Zenon DEF IsReview
<1>2. PICK f :
        r = [pc |-> l, what |-> w, traces |-> t, rows |-> m, since |-> i, plan |-> q, repaired |-> a,
             found |-> f, overlapped |-> o]
  BY <1>1
<1>3. ASSUME NEW k \in Nat, n <= k PROVE IsReview(r, k)
  <2>1. q \in Seq(DatedWrite(k))
    BY <1>3, LaterToo
  <2> QED
    BY <1>2, <2>1, ReviewsAre
<1>4. ASSUME NEW b \in BOOLEAN PROVE IsReview([r EXCEPT !.overlapped = b], n)
  <2>1. [r EXCEPT !.overlapped = b]
        = [pc |-> l, what |-> w, traces |-> t, rows |-> m, since |-> i, plan |-> q, repaired |-> a,
           found |-> f, overlapped |-> b]
    BY <1>2
  <2> QED
    BY <2>1, ReviewsAre
<1>5. ASSUME r.plan # <<>> PROVE IsReview([r EXCEPT !.plan = Tail(@)], n)
  <2>1. r.plan = q
    BY <1>2
  <2>2. Tail(q) \in Seq(DatedWrite(n))
    BY <1>5, <2>1, TailIsSeq
  <2>3. PICK u : u = Tail(q)
    OBVIOUS
  <2>4. PICK v : v = [r EXCEPT !.plan = u]
    OBVIOUS
  <2>5. v = [pc |-> l, what |-> w, traces |-> t, rows |-> m, since |-> i, plan |-> u, repaired |-> a,
             found |-> f, overlapped |-> o]
    BY <1>2, <2>4
  <2>6. IsReview(v, n)
    BY <2>2, <2>3, <2>5, ReviewsAre, ZenonT(60)
  <2> QED
    BY <2>1, <2>3, <2>4, <2>6
<1>6. ASSUME NEW g PROVE IsReview([r EXCEPT !.pc = "done", !.found = g], n)
  <2>1. PICK v : v = [r EXCEPT !.pc = "done", !.found = g]
    OBVIOUS
  <2>3. v = [pc |-> "done", what |-> w, traces |-> t, rows |-> m, since |-> i, plan |-> q, repaired |-> a,
           found |-> g, overlapped |-> o]
    BY <1>2, <2>1
  <2>4. IsReview(v, n)
    BY <2>3, ReviewsAre, ZenonT(60)
  <2> QED
    BY <2>1, <2>4, Zenon
<1>7. ASSUME NEW ww \in {"report", "check"}, NEW tt \in Nat, NEW ii \in Nat, NEW mm \in Columns
      PROVE  IsReview([r EXCEPT !.pc = "reading", !.what = ww, !.traces = tt, !.rows = mm, !.since = ii], n)
  <2>1. PICK v : v = [r EXCEPT !.pc = "reading", !.what = ww, !.traces = tt, !.rows = mm, !.since = ii]
    OBVIOUS
  <2>3. v = [pc |-> "reading", what |-> ww, traces |-> tt, rows |-> mm, since |-> ii, plan |-> q, repaired |-> a,
           found |-> f, overlapped |-> o]
    BY <1>2, <2>1
  <2>4. IsReview(v, n)
    BY <2>3, ReviewsAre, ZenonT(60)
  <2> QED
    BY <2>1, <2>4, Zenon
<1>8. ASSUME NEW aa \in Repairs, NEW qq \in Seq(DatedWrite(n)), NEW bb \in BOOLEAN
      PROVE  IsReview([r EXCEPT !.pc = "repairing", !.repaired = aa, !.plan = qq, !.overlapped = bb], n)
  <2>1. PICK v : v = [r EXCEPT !.pc = "repairing", !.repaired = aa, !.plan = qq, !.overlapped = bb]
    OBVIOUS
  <2>3. v = [pc |-> "repairing", what |-> w, traces |-> t, rows |-> m, since |-> i, plan |-> qq, repaired |-> aa,
           found |-> f, overlapped |-> bb]
    BY <1>2, <2>1
  <2>2. aa \in Repairs \cup {"nothing"}
    OBVIOUS
  <2>4. IsReview(v, n)
    BY <2>2, <2>3, ReviewsAre, ZenonT(60)
  <2> QED
    BY <2>1, <2>4, Zenon
<1>9. /\ r.pc \in {"idle", "reading", "repairing", "done"} /\ r.rows \in Columns
      /\ r.plan \in Seq(DatedWrite(n)) /\ r.overlapped \in BOOLEAN /\ r.what \in {"report", "check"}
  <2>1. r.pc = l /\ r.rows = m /\ r.plan = q /\ r.overlapped = o /\ r.what = w
    BY <1>2
  <2> QED
    BY <2>1, Zenon
<1> QED
  BY <1>3, <1>4, <1>5, <1>6, <1>7, <1>8, <1>9, Zenon

LEMMA RepairingIsWrite ==
    ASSUME Clock \in Nat, columns \in Columns, NEW w \in DatedWrite(Clock)
    PROVE  Repairing(w) \in DatedWrite(Clock)
<1>1. PICK s, n : s = columns.stage /\ n = Clock /\ s \in Nat /\ n \in Nat
  BY DEF Columns, ColumnNames
<1>2. PICK v : v = [w EXCEPT !.ref = s, !.at = n]
  OBVIOUS
<1>3. v \in DatedWrite(Clock)
  <2>1. PICK t \in EntryKinds \cup ColumnNames, r \in Nat, a \in 0 .. Clock, e \in Nat :
          w = [to |-> t, ref |-> r, at |-> a, seen |-> e]
    BY DEF DatedWrite
  <2>2. v = [to |-> t, ref |-> s, at |-> n, seen |-> e]
    BY <1>2, <2>1
  <2>3. n \in 0 .. Clock
    BY <1>1
  <2> QED
    BY <1>1, <2>2, <2>3 DEF DatedWrite
<1>4. Repairing(w) = w \/ Repairing(w) = v
  BY <1>1, <1>2 DEF Repairing
<1> QED
  BY <1>3, <1>4

LEMMA ShapeKept == OversightShape /\ [OversightNext]_oversightVars => OversightShape'
<1> SUFFICES ASSUME OversightShape, [OversightNext]_oversightVars PROVE OversightShape'
  OBVIOUS
<1>1. /\ domain \in Domains /\ MaxTraced[domain] \in Nat /\ MaxReviews \in Nat
      /\ begun \in Nat /\ reviews \in Nat /\ Clock \in Nat /\ Clock = begun + reviews /\ Clock' = begun' + reviews'
      /\ begun <= MaxTraced[domain] /\ reviews <= MaxReviews
  BY BoundsAreNats DEF OversightShape, Clock
<1>2. /\ journal \in Seq(DatedEntry(Clock)) /\ columns \in Columns
      /\ aged \in Nat /\ aged <= Len(journal) /\ Len(journal) \in Nat /\ Now \in Nat
      /\ tracing \in [Traced -> Seq(DatedWrite(Clock))] /\ IsReview(review, Clock) /\ crossed \in BOOLEAN
  BY DEF OversightShape, Now
<1>3. review.overlapped \in BOOLEAN /\ Reviewed \in BOOLEAN /\ Busied \in BOOLEAN
  <2>1. review.overlapped \in BOOLEAN
    BY <1>1, <1>2, ReviewKeepsShape
  <2>2. Reviewed \in BOOLEAN
    BY DEF Reviewed
  <2>3. Busied \in BOOLEAN
    BY DEF Busied
  <2> QED
    BY <2>1, <2>2, <2>3
<1>4. PICK b \in BOOLEAN : b = (review.overlapped \/ Reviewed)
  BY <1>3
<1>5. review' = [review EXCEPT !.overlapped = @ \/ Reviewed] => IsReview(review', Clock)
  <2>1. IsReview([review EXCEPT !.overlapped = b], Clock)
    BY <1>1, <1>2, ReviewKeepsShape
  <2> QED
    BY <1>4, <2>1, Zenon
<1>6. CASE UNCHANGED oversightVars
  <2>1. domain' = domain /\ journal' = journal /\ columns' = columns /\ aged' = aged /\ tracing' = tracing
        /\ review' = review /\ begun' = begun /\ reviews' = reviews /\ crossed' = crossed /\ Clock' = Clock
    BY <1>6, <1>1 DEF oversightVars
  <2> QED
    BY <2>1, Zenon DEF OversightShape
<1>7. CASE GrowOld
  <2>1. domain' = domain /\ journal' = journal /\ columns' = columns /\ tracing' = tracing
        /\ review' = review /\ begun' = begun /\ reviews' = reviews /\ crossed' = crossed /\ Clock' = Clock
    BY <1>7, <1>1 DEF GrowOld
  <2>2. aged' \in 0 .. Len(journal)
    BY <1>2, <1>7 DEF GrowOld, Now
  <2> QED
    BY <2>1, <2>2, Zenon DEF OversightShape
<1>8. CASE StartReview
  <2>1. domain' = domain /\ journal' = journal /\ columns' = columns /\ aged' = aged /\ tracing' = tracing
        /\ begun' = begun /\ reviews' = reviews + 1 /\ crossed' = crossed /\ Clock' = Clock + 1
    BY <1>8, <1>1 DEF StartReview
  <2>2. PICK w \in {"report", "check"} : Read([NoReview EXCEPT !.overlapped = Busied], w)
    BY <1>8 DEF StartReview
  <2>3. PICK r : r = [NoReview EXCEPT !.overlapped = Busied]
    OBVIOUS
  <2>4. Clock + 1 \in Nat /\ IsReview(r, Clock + 1)
    <3>1. PICK o \in BOOLEAN : o = Busied
      BY <1>3
    <3>2. Clock + 1 \in Nat /\ IsReview(NoReview, Clock + 1)
      BY <1>1, NoReviewIsReview
    <3>3. IsReview([NoReview EXCEPT !.overlapped = o], Clock + 1)
      BY <3>2, ReviewKeepsShape
    <3> QED
      BY <2>3, <3>1, <3>2, <3>3
  <2>5. IsReview(review', Clock')
    <3>1. review' = [r EXCEPT !.pc = "reading", !.what = w, !.traces = Now, !.rows = columns, !.since = aged]
      BY <2>2, <2>3 DEF Read
    <3>2. IsReview([r EXCEPT !.pc = "reading", !.what = w, !.traces = Now, !.rows = columns, !.since = aged], Clock + 1)
      BY <1>2, <2>4, ReviewKeepsShape
    <3> QED
      BY <2>1, <3>1, <3>2
  <2>6. journal \in Seq(DatedEntry(Clock + 1)) /\ \A q \in Seq(DatedWrite(Clock)) : q \in Seq(DatedWrite(Clock + 1))
    BY <1>1, <1>2, LaterToo
  <2>7. tracing \in [Traced -> Seq(DatedWrite(Clock + 1))]
    BY <1>2, <2>6
  <2>8. reviews' \in 0 .. MaxReviews
    BY <1>1, <1>8 DEF StartReview
  <2> QED
    BY <2>1, <2>5, <2>6, <2>7, <2>8, Zenon DEF OversightShape
<1>9. CASE EndReview
  <2>1. domain' = domain /\ journal' = journal /\ columns' = columns /\ aged' = aged /\ tracing' = tracing
        /\ begun' = begun /\ reviews' = reviews /\ crossed' = crossed /\ Clock' = Clock
    BY <1>9, <1>1 DEF EndReview
  <2>2. PICK f : review' = [review EXCEPT !.pc = "done", !.found = f]
    BY <1>9, Zenon DEF EndReview
  <2>3. IsReview(review', Clock)
    BY <1>1, <1>2, <2>2, ReviewKeepsShape
  <2> QED
    BY <2>1, <2>3, Zenon DEF OversightShape
<1>10. CASE StartRepair
  <2>1. domain' = domain /\ journal' = journal /\ columns' = columns /\ aged' = aged /\ tracing' = tracing
        /\ begun' = begun /\ reviews' = reviews + 1 /\ Clock' = Clock + 1
    BY <1>10, <1>1 DEF StartRepair
  <2>2. PICK a \in Offered : \E p \in RepairPlans(a) :
          review' = [NoReview EXCEPT !.pc = "repairing", !.repaired = a, !.plan = p, !.overlapped = Busied]
    BY <1>10, Zenon DEF StartRepair
  <2>3. PICK p \in RepairPlans(a) :
          review' = [NoReview EXCEPT !.pc = "repairing", !.repaired = a, !.plan = p, !.overlapped = Busied]
    BY <2>2
  <2>4. a \in Repairs /\ p \in Seq(DatedWrite(Clock + 1))
    BY <1>1, <1>2, RepairsArePlans
  <2>5. Clock + 1 \in Nat /\ IsReview(NoReview, Clock + 1)
    BY <1>1, NoReviewIsReview
  <2>6. IsReview(review', Clock')
    BY <1>3, <2>1, <2>3, <2>4, <2>5, ReviewKeepsShape
  <2>7. journal \in Seq(DatedEntry(Clock + 1)) /\ \A q \in Seq(DatedWrite(Clock)) : q \in Seq(DatedWrite(Clock + 1))
    BY <1>1, <1>2, LaterToo
  <2>8. tracing \in [Traced -> Seq(DatedWrite(Clock + 1))]
    BY <1>2, <2>7
  <2>9. reviews' \in 0 .. MaxReviews
    BY <1>1, <1>10 DEF StartRepair
  <2>10. crossed' \in BOOLEAN
    BY <1>10, Zenon DEF StartRepair
  <2> QED
    BY <2>1, <2>6, <2>7, <2>8, <2>9, <2>10, Zenon DEF OversightShape
<1>11. CASE Repair
  <2>1. domain' = domain /\ aged' = aged /\ tracing' = tracing
        /\ begun' = begun /\ reviews' = reviews /\ crossed' = crossed /\ Clock' = Clock
    BY <1>11, <1>1 DEF Repair
  <2>2. review.plan # <<>> /\ review' = [review EXCEPT !.plan = Tail(@)] /\ Commits(Repairing(Head(review.plan)))
    BY <1>11 DEF Repair
  <2>3. IsReview(review', Clock) /\ review.plan \in Seq(DatedWrite(Clock))
    BY <1>1, <1>2, <2>2, ReviewKeepsShape
  <2>4. PICK w : w = Repairing(Head(review.plan))
    OBVIOUS
  <2>5. w \in DatedWrite(Clock)
    BY <1>1, <1>2, <2>2, <2>3, <2>4, TailIsSeq, RepairingIsWrite
  <2>6. journal' \in Seq(DatedEntry(Clock)) /\ Len(journal) <= Len(journal') /\ columns' \in Columns
    BY <1>1, <1>2, <2>2, <2>4, <2>5, CommitsKeepShape
  <2>7. aged \in 0 .. Len(journal')
    BY <1>2, <2>6
  <2> QED
    BY <2>1, <2>3, <2>6, <2>7, Zenon DEF OversightShape
<1>12. CASE CheckRepair
  <2>1. domain' = domain /\ journal' = journal /\ columns' = columns /\ aged' = aged /\ tracing' = tracing
        /\ begun' = begun /\ reviews' = reviews /\ crossed' = crossed /\ Clock' = Clock
    BY <1>12, <1>1 DEF CheckRepair
  <2>2. review' = [review EXCEPT !.pc = "reading", !.what = "check", !.traces = Now, !.rows = columns, !.since = aged]
    BY <1>12 DEF CheckRepair, Read
  <2>3. IsReview(review', Clock)
    BY <1>1, <1>2, <2>2, ReviewKeepsShape
  <2> QED
    BY <2>1, <2>3, Zenon DEF OversightShape
<1>13. ASSUME NEW c \in Traced, BeginTraced(c) PROVE OversightShape'
  <2>1. domain' = domain /\ journal' = journal /\ columns' = columns /\ aged' = aged
        /\ begun' = begun + 1 /\ reviews' = reviews /\ Clock' = Clock + 1
    BY <1>13, <1>1 DEF BeginTraced
  <2>2. PICK p \in Plans : tracing' = [tracing EXCEPT ![c] = p]
    BY <1>13, Zenon DEF BeginTraced
  <2>3. p \in Seq(DatedWrite(Clock + 1))
    BY <1>1, <1>2, PlansArePlans
  <2>4. Clock + 1 \in Nat /\ Clock <= Clock + 1
    BY <1>1
  <2>5. journal \in Seq(DatedEntry(Clock + 1)) /\ \A q \in Seq(DatedWrite(Clock)) : q \in Seq(DatedWrite(Clock + 1))
    BY <1>1, <1>2, <2>4, LaterToo
  <2>6. tracing' \in [Traced -> Seq(DatedWrite(Clock + 1))]
    BY <1>2, <2>2, <2>3, <2>5
  <2>7. IsReview(review', Clock + 1)
    <3>1. IsReview(review', Clock)
      BY <1>5, <1>13, Zenon DEF BeginTraced
    <3> QED
      BY <1>1, <2>4, <3>1, ReviewKeepsShape
  <2>8. begun' \in 0 .. MaxTraced[domain]
    BY <1>1, <1>13 DEF BeginTraced
  <2>9. crossed' \in BOOLEAN
    BY <1>13, Zenon DEF BeginTraced
  <2> QED
    BY <1>2, <2>1, <2>5, <2>6, <2>7, <2>8, <2>9, Zenon DEF OversightShape
<1>14. ASSUME NEW c \in Traced, Trace(c) PROVE OversightShape'
  <2>1. domain' = domain /\ aged' = aged /\ begun' = begun /\ reviews' = reviews /\ crossed' = crossed /\ Clock' = Clock
    BY <1>14, <1>1 DEF Trace
  <2>2. tracing[c] # <<>> /\ Commits(Head(tracing[c])) /\ tracing' = [tracing EXCEPT ![c] = Tail(@)]
    BY <1>14 DEF Trace, UnderWay
  <2>3. PICK w : w = Head(tracing[c])
    OBVIOUS
  <2>4. w \in DatedWrite(Clock) /\ Tail(tracing[c]) \in Seq(DatedWrite(Clock))
    BY <1>2, <2>2, <2>3, TailIsSeq
  <2>5. journal' \in Seq(DatedEntry(Clock)) /\ Len(journal) <= Len(journal') /\ columns' \in Columns
    BY <1>1, <1>2, <2>2, <2>3, <2>4, CommitsKeepShape
  <2>6. aged \in 0 .. Len(journal')
    BY <1>2, <2>5
  <2>7. tracing' \in [Traced -> Seq(DatedWrite(Clock))]
    BY <1>2, <2>2, <2>4
  <2>8. IsReview(review', Clock)
    BY <1>5, <1>14, Zenon DEF Trace
  <2> QED
    BY <2>1, <2>5, <2>6, <2>7, <2>8, Zenon DEF OversightShape
<1>15. ASSUME NEW c \in Traced, TracedDies(c) PROVE OversightShape'
  <2>1. domain' = domain /\ journal' = journal /\ columns' = columns /\ aged' = aged /\ begun' = begun
        /\ reviews' = reviews /\ Clock' = Clock
    BY <1>15, <1>1 DEF TracedDies
  <2>2. tracing' \in [Traced -> Seq(DatedWrite(Clock))]
    <3>1. <<>> \in Seq(DatedWrite(Clock)) /\ tracing' = [tracing EXCEPT ![c] = <<>>]
      BY <1>15 DEF TracedDies
    <3> QED
      BY <1>2, <3>1
  <2>3. IsReview(review', Clock)
    BY <1>5, <1>15, Zenon DEF TracedDies
  <2>4. crossed' \in BOOLEAN
    BY <1>15, Zenon DEF TracedDies
  <2> QED
    BY <2>1, <2>2, <2>3, <2>4, Zenon DEF OversightShape
<1> QED
  BY <1>6, <1>7, <1>8, <1>9, <1>10, <1>11, <1>12, <1>13, <1>14, <1>15, Zenon DEF OversightNext

\* What is recorded of a user keeps its shape, the rows and writes of every domain, and the
\* reviews that read them.
THEOREM OversightTypeCorrect == OversightSpec => []OversightTypeOK
BY ShapeAtFirst, ShapeKept, ShapeIsType, PTL DEF OversightSpec
-----------------------------------------------------------------------------
(* What a repair ends *)

\* What each step changes of a review, and what it leaves.
LEMMA ReviewFields ==
    ASSUME NEW n \in Nat, NEW r, IsReview(r, n)
    PROVE  /\ \A b : LET v == [r EXCEPT !.overlapped = b] IN
                v.pc = r.pc /\ v.rows = r.rows /\ v.plan = r.plan /\ v.repaired = r.repaired /\ v.overlapped = b
           /\ \A q : LET v == [r EXCEPT !.plan = q] IN
                v.pc = r.pc /\ v.rows = r.rows /\ v.plan = q /\ v.repaired = r.repaired /\ v.overlapped = r.overlapped
           /\ \A f : LET v == [r EXCEPT !.pc = "done", !.found = f] IN v.pc = "done" /\ v.found = f
           /\ \A w, t, i, m : LET v == [r EXCEPT !.pc = "reading", !.what = w, !.traces = t, !.rows = m, !.since = i] IN
                v.pc = "reading" /\ v.rows = m /\ v.plan = r.plan /\ v.repaired = r.repaired /\ v.overlapped = r.overlapped
           /\ \A a, q, b : LET v == [r EXCEPT !.pc = "repairing", !.repaired = a, !.plan = q, !.overlapped = b] IN
                v.pc = "repairing" /\ v.plan = q /\ v.repaired = a /\ v.overlapped = b
<1>1. PICK l, w, t, i, m, q, a, o, f :
        r = [pc |-> l, what |-> w, traces |-> t, rows |-> m, since |-> i, plan |-> q, repaired |-> a,
             found |-> f, overlapped |-> o]
  BY Zenon DEF IsReview
<1>2. ASSUME NEW b
      PROVE  LET v == [r EXCEPT !.overlapped = b] IN
             v.pc = r.pc /\ v.rows = r.rows /\ v.plan = r.plan /\ v.repaired = r.repaired /\ v.overlapped = b
  BY <1>1
<1>3. ASSUME NEW u
      PROVE  LET v == [r EXCEPT !.plan = u] IN
             v.pc = r.pc /\ v.rows = r.rows /\ v.plan = u /\ v.repaired = r.repaired /\ v.overlapped = r.overlapped
  BY <1>1
<1>4. ASSUME NEW g
      PROVE  LET v == [r EXCEPT !.pc = "done", !.found = g] IN v.pc = "done" /\ v.found = g
  BY <1>1
<1>5. ASSUME NEW ww, NEW tt, NEW ii, NEW mm
      PROVE  LET v == [r EXCEPT !.pc = "reading", !.what = ww, !.traces = tt, !.rows = mm, !.since = ii] IN
             v.pc = "reading" /\ v.rows = mm /\ v.plan = r.plan /\ v.repaired = r.repaired /\ v.overlapped = r.overlapped
  BY <1>1
<1>6. ASSUME NEW aa, NEW u, NEW b
      PROVE  LET v == [r EXCEPT !.pc = "repairing", !.repaired = aa, !.plan = u, !.overlapped = b] IN
             v.pc = "repairing" /\ v.plan = u /\ v.repaired = aa /\ v.overlapped = b
  BY <1>1
<1> QED
  BY <1>2, <1>3, <1>4, <1>5, <1>6, Zenon

LEMMA SameSequence ==
    ASSUME NEW S, NEW s \in Seq(S), NEW t \in Seq(S), Len(s) = Len(t), \A i \in 1 .. Len(s) : s[i] = t[i]
    PROVE  s = t
OBVIOUS

LEMMA JoinTwo == \A a, b : <<a>> \o <<b>> = <<a, b>>
<1> TAKE a, b
<1>1. PICK S : S = {a, b}
  OBVIOUS
<1>2. <<a>> \in Seq(S) /\ <<b>> \in Seq(S) /\ <<a, b>> \in Seq(S)
  BY <1>1
<1>3. PICK s : s = <<a>> \o <<b>>
  OBVIOUS
<1>4. s \in Seq(S) /\ Len(s) = 2 /\ s[1] = a /\ s[2] = b
  BY <1>2, <1>3
<1>5. PICK t : t = <<a, b>>
  OBVIOUS
<1>6. t \in Seq(S) /\ Len(t) = 2 /\ t[1] = a /\ t[2] = b
  BY <1>2, <1>5
<1>7. s = t
  BY <1>4, <1>6, SameSequence
<1> QED
  BY <1>3, <1>5, <1>7

LEMMA JoinThree == \A a, b, c : <<a>> \o <<b, c>> = <<a, b, c>>
<1> TAKE a, b, c
<1>1. PICK S : S = {a, b, c}
  OBVIOUS
<1>2. <<a>> \in Seq(S) /\ <<b, c>> \in Seq(S) /\ <<a, b, c>> \in Seq(S)
  BY <1>1
<1>3. PICK s : s = <<a>> \o <<b, c>>
  OBVIOUS
<1>4. s \in Seq(S) /\ Len(s) = 3 /\ s[1] = a /\ s[2] = b /\ s[3] = c
  BY <1>2, <1>3
<1>5. PICK t : t = <<a, b, c>>
  OBVIOUS
<1>6. t \in Seq(S) /\ Len(t) = 3 /\ t[1] = a /\ t[2] = b /\ t[3] = c
  BY <1>2, <1>5
<1>7. s = t
  BY <1>4, <1>6, SameSequence
<1> QED
  BY <1>3, <1>5, <1>7

\* The evaluation that ends a repair of the lifecycle.
StageWrite(s, n, was) == [to |-> "stage", ref |-> s, at |-> n, seen |-> was]

LEMMA LifecycleEvaluation ==
    ASSUME domain = "lifecycle", NEW s
    PROVE  EvaluationPlan(s) = <<StageWrite(s, Clock + 1, columns.stage), To("noticeStage", s)>>
<1>1. Watched = {"stage", "noticeStage", "transition"}
  BY DEF Watched
<1>2. PICK a, b, c, d, e, x, y :
        a = To("offerRow", 1) /\ b = ToStage(s) /\ c = To("noticeStage", s) /\ d = To("lifecycle_decision", s)
        /\ e = StageSelection(s) /\ x = To("noticeRef", ByLifecycle)
        /\ y = To("notification_selection", IF ByLifecycle = Nothing THEN ByUser ELSE ByLifecycle)
  OBVIOUS
<1>3. a.to = "offerRow" /\ b.to = "stage" /\ c.to = "noticeStage" /\ d.to = "lifecycle_decision"
      /\ x.to = "noticeRef" /\ y.to = "notification_selection"
  BY <1>2 DEF To, ToStage
<1>4. Kept(a) = <<>> /\ Kept(b) = <<b>> /\ Kept(c) = <<c>> /\ Kept(d) = <<>> /\ Kept(x) = <<>> /\ Kept(y) = <<>>
  BY <1>1, <1>3 DEF Kept
<1>5. e = <<>>
  <2>1. e = <<>> \/ e = Kept(x) \o Kept(y)
    BY <1>2, Zenon DEF SelectionPlan, StageSelection
  <2> QED
    BY <1>4, <2>1
<1>6. EvaluationPlan(s) = Kept(a) \o Kept(b) \o Kept(c) \o e \o Kept(d)
  BY <1>2, Zenon DEF EvaluationPlan
<1>7. EvaluationPlan(s) = <<b, c>>
  <2>1. Kept(a) \o Kept(b) = <<b>>
    BY <1>4
  <2>2. <<b>> \o Kept(c) = <<b, c>>
    BY <1>4, JoinTwo
  <2>3. <<b, c>> \o e = <<b, c>> /\ <<b, c>> \o Kept(d) = <<b, c>>
    BY <1>4, <1>5
  <2> QED
    BY <1>6, <2>1, <2>2, <2>3, Zenon
<1> QED
  BY <1>2, <1>7 DEF ToStage, StageWrite

(***************************************************************************)
(* How far a repair has come that nothing overlaps, by what it has yet to  *)
(* write; at the end the columns agree.                                    *)
(***************************************************************************)
NoticeRepair(q) ==
    \/ \E s : q = <<To("noticeStage", columns.stage), StageWrite(s, Clock, columns.stage), To("noticeStage", s)>>
    \/ \E s : q = <<StageWrite(s, Clock, columns.stage), To("noticeStage", s)>>
    \/ q = <<To("noticeStage", columns.stage)>>
    \/ q = <<>> /\ columns.noticeStage = columns.stage

\* The last row is of the stage that the row of columns has.
LastIsStage ==
    /\ Now # 0
    /\ journal[Now] = [kind |-> "transition", ref |-> columns.stage, at |-> Clock]

TransitionRepair(q) ==
    \/ \E s : q = <<To("transition", Nothing), StageWrite(s, Clock, columns.stage), To("noticeStage", s)>>
    \/ \E s : q = <<StageWrite(s, Clock, columns.stage), To("noticeStage", s)>> /\ LastIsStage
    \/ \E s : q = <<To("noticeStage", s)>> /\ LastIsStage
    \/ q = <<>> /\ LastIsStage

OfferRepair(q) ==
    \/ q = <<To("offerStage", columns.stage)>>
    \/ q = <<>> /\ columns.offerStage = columns.stage

RepairInv ==
    Reviewed /\ ~review.overlapped =>
        /\ \A c \in Traced : tracing[c] = <<>>
        /\ review.pc = "reading" => review.rows = columns /\ review.plan = <<>>
        /\ review.repaired = "notification_state" => domain = "lifecycle" /\ NoticeRepair(review.plan)
        /\ review.repaired = "lifecycle_transition" => domain = "lifecycle" /\ TransitionRepair(review.plan)
        /\ review.repaired = "monetization_state" => domain = "monetization" /\ OfferRepair(review.plan)

LEMMA RepairAtFirst == OversightInit => RepairInv
<1>1. NoReview.pc = "idle"
  BY DEF NoReview
<1> QED
  BY <1>1 DEF OversightInit, RepairInv, Reviewed

\* What a repair of one user writes, from its offer.
LEMMA RepairsBegin ==
    ASSUME domain \in Domains, Clock \in Nat, columns \in Columns, NEW a \in Offered, NEW p \in RepairPlans(a),
           columns' = columns, Clock' = Clock + 1
    PROVE  /\ a = "notification_state" => domain = "lifecycle" /\ NoticeRepair(p)'
           /\ a = "lifecycle_transition" => domain = "lifecycle" /\ TransitionRepair(p)'
           /\ a = "monetization_state" => domain = "monetization" /\ OfferRepair(p)'
<1>1. /\ a \in {"notification_state", "lifecycle_transition"} => domain = "lifecycle"
      /\ a = "monetization_state" => domain = "monetization"
  BY DEF Offered, OfferedForSession, OfferedForLifecycle, OfferedForMonetization, Domains
<1>2. ASSUME a = "notification_state" PROVE NoticeRepair(p)'
  <2>1. RepairPlans(a) = {<<To("noticeStage", columns.stage)>> \o EvaluationPlan(s) : s \in LifeStages[domain]}
    BY <1>2 DEF RepairPlans
  <2>2. PICK s \in LifeStages[domain] : p = <<To("noticeStage", columns.stage)>> \o EvaluationPlan(s)
    BY <2>1
  <2>3. EvaluationPlan(s) = <<StageWrite(s, Clock + 1, columns.stage), To("noticeStage", s)>>
    BY <1>1, <1>2, LifecycleEvaluation
  <2>4. p = <<To("noticeStage", columns.stage), StageWrite(s, Clock + 1, columns.stage), To("noticeStage", s)>>
    BY <2>2, <2>3, JoinThree
  <2> QED
    BY <2>4 DEF NoticeRepair
<1>3. ASSUME a = "lifecycle_transition" PROVE TransitionRepair(p)'
  <2>1. RepairPlans(a) = {<<To("transition", Nothing)>> \o EvaluationPlan(s) : s \in LifeStages[domain]}
    BY <1>3 DEF RepairPlans
  <2>2. PICK s \in LifeStages[domain] : p = <<To("transition", Nothing)>> \o EvaluationPlan(s)
    BY <2>1
  <2>3. EvaluationPlan(s) = <<StageWrite(s, Clock + 1, columns.stage), To("noticeStage", s)>>
    BY <1>1, <1>3, LifecycleEvaluation
  <2>4. p = <<To("transition", Nothing), StageWrite(s, Clock + 1, columns.stage), To("noticeStage", s)>>
    BY <2>2, <2>3, JoinThree
  <2> QED
    BY <2>4 DEF TransitionRepair
<1>4. ASSUME a = "monetization_state" PROVE OfferRepair(p)'
  <2>1. RepairPlans(a) = {<<To("offerStage", columns.stage)>>}
    BY <1>4 DEF RepairPlans
  <2> QED
    BY <2>1 DEF OfferRepair
<1> QED
  BY <1>1, <1>2, <1>3, <1>4

\* What the writes of a repair leave of the columns and of the journal.
LEMMA WriteCommits ==
    ASSUME columns \in Columns, NEW w, Commits(w)
    PROVE  /\ \A s : w = To("noticeStage", s) =>
                columns' = [columns EXCEPT !.noticeStage = s] /\ journal' = journal \o <<>>
           /\ \A s : w = To("offerStage", s) => columns' = [columns EXCEPT !.offerStage = s]
           /\ \A s, n, was : w = StageWrite(s, n, was) =>
                columns' = (IF was = s THEN columns ELSE [columns EXCEPT !.stage = s])
                /\ journal' = journal \o (IF was = s THEN <<>> ELSE <<[kind |-> "transition", ref |-> s, at |-> n]>>)
           /\ \A r, n : w.to = "transition" /\ w.ref = r /\ w.at = n =>
                columns' = columns /\ journal' = journal \o <<[kind |-> "transition", ref |-> r, at |-> n]>>
<1>1. columns' = Overwritten(w) /\ journal' = journal \o Appended(w)
  BY DEF Commits
<1>2. ASSUME NEW s, w = To("noticeStage", s)
      PROVE  columns' = [columns EXCEPT !.noticeStage = s] /\ journal' = journal \o <<>>
  <2>1. w.to = "noticeStage" /\ w.ref = s
    BY <1>2 DEF To
  <2>2. Overwritten(w) = [columns EXCEPT ![w.to] = w.ref]
    BY <2>1, KindsAndColumns, Zenon DEF Overwritten, ColumnNames
  <2>3. Appended(w) = <<>>
    BY <2>1 DEF Appended, ColumnNames
  <2> QED
    BY <1>1, <2>1, <2>2, <2>3
<1>3. ASSUME NEW s, w = To("offerStage", s) PROVE columns' = [columns EXCEPT !.offerStage = s]
  <2>1. w.to = "offerStage" /\ w.ref = s
    BY <1>3 DEF To
  <2>2. Overwritten(w) = [columns EXCEPT ![w.to] = w.ref]
    BY <2>1, KindsAndColumns, Zenon DEF Overwritten, ColumnNames
  <2> QED
    BY <1>1, <2>1, <2>2
<1>4. ASSUME NEW s, NEW n, NEW was, w = StageWrite(s, n, was)
      PROVE  /\ columns' = (IF was = s THEN columns ELSE [columns EXCEPT !.stage = s])
             /\ journal' = journal \o (IF was = s THEN <<>> ELSE <<[kind |-> "transition", ref |-> s, at |-> n]>>)
  <2>1. w.to = "stage" /\ w.ref = s /\ w.at = n /\ w.seen = was
    BY <1>4 DEF StageWrite
  <2>2. Overwritten(w) = IF was = s THEN columns ELSE [columns EXCEPT ![w.to] = w.ref]
    BY <2>1 DEF Overwritten, ColumnNames
  <2>3. Appended(w) = IF was = s THEN <<>> ELSE <<[kind |-> "transition", ref |-> s, at |-> n]>>
    BY <2>1 DEF Appended
  <2> QED
    BY <1>1, <2>1, <2>2, <2>3
<1>5. ASSUME NEW r, NEW n, w.to = "transition", w.ref = r, w.at = n
      PROVE  columns' = columns /\ journal' = journal \o <<[kind |-> "transition", ref |-> r, at |-> n]>>
  <2>1. Overwritten(w) = columns
    BY <1>5 DEF Overwritten, ColumnNames
  <2>2. Appended(w) = <<[kind |-> "transition", ref |-> r, at |-> n]>>
    BY <1>5 DEF Appended, ColumnNames
  <2> QED
    BY <1>1, <2>1, <2>2
<1> QED
  BY <1>2, <1>3, <1>4, <1>5

LEMMA SetColumn ==
    ASSUME NEW x \in Columns, NEW v, NEW y, y = [x EXCEPT !.noticeStage = v] \/ y = [x EXCEPT !.offerStage = v] \/ y = [x EXCEPT !.stage = v]
    PROVE  /\ y = [x EXCEPT !.noticeStage = v] => y.noticeStage = v /\ y.stage = x.stage
           /\ y = [x EXCEPT !.offerStage = v] => y.offerStage = v /\ y.stage = x.stage
           /\ y = [x EXCEPT !.stage = v] => y.stage = v
BY DEF Columns, ColumnNames

LEMMA AppendedRow ==
    ASSUME NEW n \in Nat, journal \in Seq(DatedEntry(n)), NEW e \in DatedEntry(n)
    PROVE  /\ journal' = journal \o <<e>> => Now' # 0 /\ journal'[Now'] = e
           /\ journal' = journal \o <<>> => journal' = journal
<1>1. ASSUME journal' = journal \o <<e>> PROVE Now' # 0 /\ journal'[Now'] = e
  <2>1. <<e>> \in Seq(DatedEntry(n)) /\ Len(<<e>>) = 1 /\ Len(journal) \in Nat
    BY OneOrTwo
  <2>2. Now' = Len(journal) + 1
    BY <1>1, <2>1 DEF Now
  <2>3. journal'[Now'] = e
    BY <1>1, <2>1, <2>2
  <2> QED
    BY <2>1, <2>2, <2>3
<1> QED
  BY <1>1

LEMMA NoticeRepairStep ==
    ASSUME columns \in Columns, NEW q, NoticeRepair(q), q # <<>>, Commits(Repairing(Head(q))), Clock' = Clock
    PROVE  NoticeRepair(Tail(q))'
<1>1. PICK w : w = Head(q)
  OBVIOUS
<1>2. CASE \E s : q = <<To("noticeStage", columns.stage), StageWrite(s, Clock, columns.stage), To("noticeStage", s)>>
  <2>1. PICK s : q = <<To("noticeStage", columns.stage), StageWrite(s, Clock, columns.stage), To("noticeStage", s)>>
    BY <1>2
  <2>2. w = To("noticeStage", columns.stage) /\ Tail(q) = <<StageWrite(s, Clock, columns.stage), To("noticeStage", s)>>
    BY <1>1, <2>1
  <2>3. Repairing(w) = w
    BY <2>2 DEF Repairing, To
  <2>4. columns' = [columns EXCEPT !.noticeStage = columns.stage]
    BY <1>1, <2>2, <2>3, WriteCommits
  <2>5. columns'.stage = columns.stage
    BY <2>4, SetColumn
  <2> QED
    BY <2>2, <2>5 DEF NoticeRepair
<1>3. CASE \E s : q = <<StageWrite(s, Clock, columns.stage), To("noticeStage", s)>>
  <2>1. PICK s : q = <<StageWrite(s, Clock, columns.stage), To("noticeStage", s)>>
    BY <1>3
  <2>2. w = StageWrite(s, Clock, columns.stage) /\ Tail(q) = <<To("noticeStage", s)>>
    BY <1>1, <2>1
  <2>3. Repairing(w) = w
    BY <2>2 DEF Repairing, StageWrite
  <2>4. columns' = (IF columns.stage = s THEN columns ELSE [columns EXCEPT !.stage = s])
    <3>1. Commits(w)
      BY <1>1, <2>3
    <3>2. \A z, n, was : w = StageWrite(z, n, was) => columns' = (IF was = z THEN columns ELSE [columns EXCEPT !.stage = z])
      BY <3>1, WriteCommits, Zenon
    <3> QED
      BY <2>2, <3>2, Zenon
  <2>5. columns'.stage = s
    BY <2>4, SetColumn
  <2> QED
    BY <2>2, <2>5 DEF NoticeRepair
<1>4. CASE q = <<To("noticeStage", columns.stage)>>
  <2>1. w = To("noticeStage", columns.stage) /\ Tail(q) = <<>>
    BY <1>1, <1>4
  <2>2. Repairing(w) = w
    BY <2>1 DEF Repairing, To
  <2>3. columns' = [columns EXCEPT !.noticeStage = columns.stage]
    BY <1>1, <2>1, <2>2, WriteCommits
  <2>4. columns'.stage = columns.stage /\ columns'.noticeStage = columns.stage
    BY <2>3, SetColumn
  <2> QED
    BY <2>1, <2>4 DEF NoticeRepair
<1> QED
  BY <1>2, <1>3, <1>4, Zenon DEF NoticeRepair

LEMMA TransitionRepairStep ==
    ASSUME columns \in Columns, Clock \in Nat, journal \in Seq(DatedEntry(Clock)), NEW q \in Seq(DatedWrite(Clock)),
           TransitionRepair(q), q # <<>>, Commits(Repairing(Head(q))), Clock' = Clock
    PROVE  TransitionRepair(Tail(q))'
<1>1. PICK w : w = Head(q) /\ w \in DatedWrite(Clock)
  BY TailIsSeq
<1>2. \A s \in Nat : [kind |-> "transition", ref |-> s, at |-> Clock] \in DatedEntry(Clock)
  BY KindsAndColumns DEF DatedEntry
<1>3. columns.stage \in Nat
  BY DEF Columns, ColumnNames
<1>4. CASE \E s : q = <<To("transition", Nothing), StageWrite(s, Clock, columns.stage), To("noticeStage", s)>>
  <2>1. PICK s : q = <<To("transition", Nothing), StageWrite(s, Clock, columns.stage), To("noticeStage", s)>>
    BY <1>4
  <2>2. w = To("transition", Nothing) /\ Tail(q) = <<StageWrite(s, Clock, columns.stage), To("noticeStage", s)>>
    BY <1>1, <2>1
  <2>3. PICK v : v = Repairing(w)
    OBVIOUS
  <2>4. v.to = "transition" /\ v.ref = columns.stage /\ v.at = Clock
    BY <2>2, <2>3 DEF Repairing, To
  <2>5. columns' = columns /\ journal' = journal \o <<[kind |-> "transition", ref |-> columns.stage, at |-> Clock]>>
    BY <1>1, <2>3, <2>4, WriteCommits
  <2>6. LastIsStage'
    BY <1>2, <1>3, <2>5, AppendedRow DEF LastIsStage
  <2> QED
    BY <2>2, <2>5, <2>6 DEF TransitionRepair
<1>5. CASE \E s : q = <<StageWrite(s, Clock, columns.stage), To("noticeStage", s)>> /\ LastIsStage
  <2>1. PICK s : q = <<StageWrite(s, Clock, columns.stage), To("noticeStage", s)>> /\ LastIsStage
    BY <1>5
  <2>2. w = StageWrite(s, Clock, columns.stage) /\ Tail(q) = <<To("noticeStage", s)>>
    BY <1>1, <2>1
  <2>3. Repairing(w) = w
    BY <2>2 DEF Repairing, StageWrite
  <2>4. /\ columns' = (IF columns.stage = s THEN columns ELSE [columns EXCEPT !.stage = s])
        /\ journal' = journal \o (IF columns.stage = s THEN <<>> ELSE <<[kind |-> "transition", ref |-> s, at |-> Clock]>>)
    BY <1>1, <2>2, <2>3, WriteCommits
  <2>5. s \in Nat
    BY <1>1, <2>2 DEF StageWrite, DatedWrite
  <2>6. CASE columns.stage = s
    <3>1. columns' = columns /\ journal' = journal
      BY <1>2, <2>4, <2>5, <2>6, AppendedRow
    <3> QED
      BY <2>1, <2>2, <3>1 DEF TransitionRepair, LastIsStage, Now
  <2>7. CASE columns.stage # s
    <3>1. columns'.stage = s
      BY <2>4, <2>7, SetColumn
    <3>2. LastIsStage'
      BY <1>2, <2>4, <2>5, <2>7, <3>1, AppendedRow DEF LastIsStage
    <3> QED
      BY <2>2, <3>2 DEF TransitionRepair
  <2> QED
    BY <2>6, <2>7
<1>6. CASE \E s : q = <<To("noticeStage", s)>> /\ LastIsStage
  <2>1. PICK s : q = <<To("noticeStage", s)>> /\ LastIsStage
    BY <1>6
  <2>2. w = To("noticeStage", s) /\ Tail(q) = <<>>
    BY <1>1, <2>1
  <2>3. Repairing(w) = w
    BY <2>2 DEF Repairing, To
  <2>4. columns' = [columns EXCEPT !.noticeStage = s] /\ journal' = journal \o <<>>
    BY <1>1, <2>2, <2>3, WriteCommits
  <2>5. columns'.stage = columns.stage /\ journal' = journal
    BY <1>2, <1>3, <2>4, SetColumn, AppendedRow
  <2> QED
    BY <2>1, <2>2, <2>5 DEF TransitionRepair, LastIsStage, Now
<1> QED
  BY <1>4, <1>5, <1>6, Zenon DEF TransitionRepair

LEMMA OfferRepairStep ==
    ASSUME columns \in Columns, NEW q, OfferRepair(q), q # <<>>, Commits(Repairing(Head(q)))
    PROVE  OfferRepair(Tail(q))'
<1>1. q = <<To("offerStage", columns.stage)>>
  BY DEF OfferRepair
<1>2. PICK w : w = Head(q)
  OBVIOUS
<1>3. w = To("offerStage", columns.stage) /\ Tail(q) = <<>>
  BY <1>1, <1>2
<1>4. Repairing(w) = w
  BY <1>3 DEF Repairing, To
<1>5. columns' = [columns EXCEPT !.offerStage = columns.stage]
  BY <1>2, <1>3, <1>4, WriteCommits
<1>6. columns'.offerStage = columns'.stage
  BY <1>5, SetColumn
<1> QED
  BY <1>3, <1>6 DEF OfferRepair

LEMMA RepairKept == OversightShape /\ RepairInv /\ [OversightNext]_oversightVars => RepairInv'
<1> SUFFICES ASSUME OversightShape, RepairInv, [OversightNext]_oversightVars,
                    Reviewed', ~review'.overlapped
             PROVE  /\ \A c \in Traced : tracing'[c] = <<>>
                    /\ review'.pc = "reading" => review'.rows = columns' /\ review'.plan = <<>>
                    /\ review'.repaired = "notification_state" => domain' = "lifecycle" /\ NoticeRepair(review.plan)'
                    /\ review'.repaired = "lifecycle_transition" => domain' = "lifecycle" /\ TransitionRepair(review.plan)'
                    /\ review'.repaired = "monetization_state" => domain' = "monetization" /\ OfferRepair(review.plan)'
  BY Zenon DEF RepairInv
<1>1. /\ domain \in Domains /\ Clock \in Nat /\ Clock = begun + reviews /\ Clock' = begun' + reviews'
      /\ begun \in Nat /\ reviews \in Nat
      /\ journal \in Seq(DatedEntry(Clock)) /\ columns \in Columns /\ IsReview(review, Clock)
  BY BoundsAreNats DEF OversightShape, Clock
<1>2. Reviewed /\ ~review.overlapped =>
        /\ \A c \in Traced : tracing[c] = <<>>
        /\ review.pc = "reading" => review.rows = columns /\ review.plan = <<>>
        /\ review.repaired = "notification_state" => domain = "lifecycle" /\ NoticeRepair(review.plan)
        /\ review.repaired = "lifecycle_transition" => domain = "lifecycle" /\ TransitionRepair(review.plan)
        /\ review.repaired = "monetization_state" => domain = "monetization" /\ OfferRepair(review.plan)
  BY Zenon DEF RepairInv
<1>13. \A q : review'.plan = q =>
        /\ NoticeRepair(q)' => NoticeRepair(review.plan)'
        /\ TransitionRepair(q)' => TransitionRepair(review.plan)'
        /\ OfferRepair(q)' => OfferRepair(review.plan)'
  OBVIOUS
<1>14. columns' = columns /\ journal' = journal /\ Clock' = Clock =>
        \A q : /\ NoticeRepair(q) => NoticeRepair(q)'
               /\ TransitionRepair(q) => TransitionRepair(q)'
               /\ OfferRepair(q) => OfferRepair(q)'
  BY DEF NoticeRepair, TransitionRepair, OfferRepair, LastIsStage, Now
<1>15. \A q : q = review.plan =>
        /\ NoticeRepair(review.plan) => NoticeRepair(q)
        /\ TransitionRepair(review.plan) => TransitionRepair(q)
        /\ OfferRepair(review.plan) => OfferRepair(q)
  OBVIOUS
<1>3. CASE UNCHANGED <<domain, journal, columns, tracing, review, begun, reviews>>
  <2>1. domain' = domain /\ journal' = journal /\ columns' = columns /\ tracing' = tracing
        /\ review' = review /\ Clock' = Clock
    BY <1>1, <1>3
  <2>2. Reviewed /\ ~review.overlapped
    BY <2>1 DEF Reviewed
  <2>3. PICK q : q = review.plan
    OBVIOUS
  <2>4. /\ review.repaired = "notification_state" => domain = "lifecycle" /\ NoticeRepair(q)'
        /\ review.repaired = "lifecycle_transition" => domain = "lifecycle" /\ TransitionRepair(q)'
        /\ review.repaired = "monetization_state" => domain = "monetization" /\ OfferRepair(q)'
    <3>1. columns' = columns /\ journal' = journal /\ Clock' = Clock
      BY <2>1
    <3>2. ASSUME review.repaired = "notification_state" PROVE domain = "lifecycle" /\ NoticeRepair(q)'
      <4>1. domain = "lifecycle" /\ NoticeRepair(review.plan)
        BY <1>2, <3>2, <2>2
      <4>2. NoticeRepair(q)
        BY <1>15, <2>3, <4>1
      <4> QED
        BY <1>14, <3>1, <4>1, <4>2
    <3>3. ASSUME review.repaired = "lifecycle_transition" PROVE domain = "lifecycle" /\ TransitionRepair(q)'
      <4>1. domain = "lifecycle" /\ TransitionRepair(review.plan)
        BY <1>2, <3>3, <2>2
      <4>2. TransitionRepair(q)
        BY <1>15, <2>3, <4>1
      <4> QED
        BY <1>14, <3>1, <4>1, <4>2
    <3>4. ASSUME review.repaired = "monetization_state" PROVE domain = "monetization" /\ OfferRepair(q)'
      <4>1. domain = "monetization" /\ OfferRepair(review.plan)
        BY <1>2, <3>4, <2>2
      <4>2. OfferRepair(q)
        BY <1>15, <2>3, <4>1
      <4> QED
        BY <1>14, <3>1, <4>1, <4>2
    <3> QED
      BY <3>2, <3>3, <3>4
  <2>5. review'.plan = q /\ review'.repaired = review.repaired /\ review'.rows = review.rows /\ review'.pc = review.pc
    BY <2>1, <2>3
  <2>6. (\A c \in Traced : tracing'[c] = <<>>) /\ (review'.pc = "reading" => review'.rows = columns' /\ review'.plan = <<>>)
    BY <1>2, <2>1, <2>2
  <2> QED
    BY <1>13, <2>1, <2>4, <2>5, <2>6, Zenon
<1>4. ASSUME review' = [review EXCEPT !.overlapped = @ \/ Reviewed] PROVE FALSE
  <2>1. PICK b : b = (review.overlapped \/ Reviewed)
    OBVIOUS
  <2>2. review' = [review EXCEPT !.overlapped = b]
    BY <1>4, <2>1, Zenon
  <2>3. review'.pc = review.pc /\ review'.overlapped = b
    BY <1>1, <2>2, ReviewFields
  <2> QED
    BY <2>1, <2>3, Zenon DEF Reviewed
<1>5. CASE StartReview
  <2>1. PICK w \in {"report", "check"} : Read([NoReview EXCEPT !.overlapped = Busied], w)
    BY <1>5 DEF StartReview
  <2>2. PICK b : b = Busied
    OBVIOUS
  <2>3. PICK r : r = [NoReview EXCEPT !.overlapped = b]
    OBVIOUS
  <2>4. r.overlapped = b /\ r.repaired = "nothing" /\ r.plan = <<>>
    BY <2>3 DEF NoReview
  <2>5. Clock + 1 \in Nat /\ IsReview(r, Clock + 1)
    <3>1. b \in BOOLEAN
      BY <2>2 DEF Busied
    <3>2. Clock + 1 \in Nat /\ IsReview(NoReview, Clock + 1)
      BY <1>1, NoReviewIsReview
    <3>3. IsReview([NoReview EXCEPT !.overlapped = b], Clock + 1)
      BY <3>1, <3>2, ReviewKeepsShape
    <3> QED
      BY <2>3, <3>2, <3>3
  <2>6. review' = [r EXCEPT !.pc = "reading", !.what = w, !.traces = Now, !.rows = columns, !.since = aged]
    BY <2>1, <2>2, <2>3 DEF Read
  <2>7. review'.rows = columns /\ review'.plan = <<>> /\ review'.repaired = "nothing" /\ review'.overlapped = b
    BY <2>4, <2>5, <2>6, ReviewFields
  <2>8. \A c \in Traced : tracing[c] = <<>>
    BY <2>2, <2>7, Zenon DEF Busied, UnderWay
  <2>9. columns' = columns /\ tracing' = tracing
    BY <1>5 DEF StartReview
  <2> QED
    BY <2>7, <2>8, <2>9
<1>6. ASSUME EndReview PROVE FALSE
  <2>1. PICK f : review' = [review EXCEPT !.pc = "done", !.found = f]
    BY <1>6, Zenon DEF EndReview
  <2>2. review'.pc = "done"
    BY <1>1, <2>1, ReviewFields
  <2> QED
    BY <2>2 DEF Reviewed
<1>7. CASE StartRepair
  <2>1. PICK a \in Offered : \E p \in RepairPlans(a) :
          review' = [NoReview EXCEPT !.pc = "repairing", !.repaired = a, !.plan = p, !.overlapped = Busied]
    BY <1>7, Zenon DEF StartRepair
  <2>2. PICK p \in RepairPlans(a) :
          review' = [NoReview EXCEPT !.pc = "repairing", !.repaired = a, !.plan = p, !.overlapped = Busied]
    BY <2>1
  <2>3. PICK b : b = Busied
    OBVIOUS
  <2>4. review' = [NoReview EXCEPT !.pc = "repairing", !.repaired = a, !.plan = p, !.overlapped = b]
    BY <2>2, <2>3
  <2>5. review'.pc = "repairing" /\ review'.repaired = a /\ review'.plan = p /\ review'.overlapped = b
    BY <1>1, <2>4, NoReviewIsReview, ReviewFields
  <2>6. \A c \in Traced : tracing[c] = <<>>
    BY <2>3, <2>5, Zenon DEF Busied, UnderWay
  <2>7. columns' = columns /\ tracing' = tracing /\ domain' = domain /\ Clock' = Clock + 1
    BY <1>1, <1>7 DEF StartRepair
  <2>8. /\ a = "notification_state" => domain = "lifecycle" /\ NoticeRepair(p)'
        /\ a = "lifecycle_transition" => domain = "lifecycle" /\ TransitionRepair(p)'
        /\ a = "monetization_state" => domain = "monetization" /\ OfferRepair(p)'
    BY <1>1, <2>7, RepairsBegin
  <2> QED
    BY <1>13, <2>5, <2>6, <2>7, <2>8, Zenon
<1>8. CASE Repair
  <2>1. domain' = domain /\ tracing' = tracing /\ Clock' = Clock
    BY <1>8, <1>1 DEF Repair
  <2>2. PICK q : q = review.plan
    OBVIOUS
  <2>3. q # <<>> /\ review' = [review EXCEPT !.plan = Tail(q)] /\ Commits(Repairing(Head(q))) /\ review.pc = "repairing"
    BY <1>8, <2>2 DEF Repair
  <2>4. q \in Seq(DatedWrite(Clock))
    BY <1>1, <2>2, ReviewKeepsShape
  <2>5. /\ review'.pc = "repairing" /\ review'.plan = Tail(q) /\ review'.repaired = review.repaired
        /\ review'.overlapped = review.overlapped
    BY <1>1, <2>3, ReviewFields
  <2>6. Reviewed /\ ~review.overlapped
    BY <2>3, <2>5 DEF Reviewed
  <2>7. review.repaired = "notification_state" => domain = "lifecycle" /\ NoticeRepair(Tail(q))'
    BY <1>1, <1>2, <2>1, <2>2, <2>3, <2>6, NoticeRepairStep
  <2>8. review.repaired = "lifecycle_transition" => domain = "lifecycle" /\ TransitionRepair(Tail(q))'
    BY <1>1, <1>2, <2>1, <2>2, <2>3, <2>4, <2>6, TransitionRepairStep
  <2>9. review.repaired = "monetization_state" => domain = "monetization" /\ OfferRepair(Tail(q))'
    BY <1>1, <1>2, <2>2, <2>3, <2>6, OfferRepairStep
  <2>10. \A c \in Traced : tracing'[c] = <<>>
    BY <1>2, <2>1, <2>6
  <2>11. review'.pc # "reading"
    BY <2>5
  <2> QED
    BY <1>13, <2>1, <2>5, <2>7, <2>8, <2>9, <2>10, <2>11, Zenon
<1>9. CASE CheckRepair
  <2>1. domain' = domain /\ journal' = journal /\ columns' = columns /\ tracing' = tracing /\ Clock' = Clock
    BY <1>9, <1>1 DEF CheckRepair
  <2>2. review' = [review EXCEPT !.pc = "reading", !.what = "check", !.traces = Now, !.rows = columns, !.since = aged]
        /\ review.pc = "repairing" /\ review.plan = <<>>
    BY <1>9 DEF CheckRepair, Read
  <2>3. /\ review'.rows = columns /\ review'.plan = review.plan /\ review'.repaired = review.repaired
        /\ review'.overlapped = review.overlapped
    BY <1>1, <2>2, ReviewFields
  <2>4. Reviewed /\ ~review.overlapped
    BY <2>2, <2>3 DEF Reviewed
  <2>5. PICK q : q = review.plan
    OBVIOUS
  <2>6. /\ review.repaired = "notification_state" => domain = "lifecycle" /\ NoticeRepair(q)'
        /\ review.repaired = "lifecycle_transition" => domain = "lifecycle" /\ TransitionRepair(q)'
        /\ review.repaired = "monetization_state" => domain = "monetization" /\ OfferRepair(q)'
    <3>1. columns' = columns /\ journal' = journal /\ Clock' = Clock
      BY <2>1
    <3>2. ASSUME review.repaired = "notification_state" PROVE domain = "lifecycle" /\ NoticeRepair(q)'
      <4>1. domain = "lifecycle" /\ NoticeRepair(review.plan)
        BY <1>2, <3>2, <2>4
      <4>2. NoticeRepair(q)
        BY <1>15, <2>5, <4>1
      <4> QED
        BY <1>14, <3>1, <4>1, <4>2
    <3>3. ASSUME review.repaired = "lifecycle_transition" PROVE domain = "lifecycle" /\ TransitionRepair(q)'
      <4>1. domain = "lifecycle" /\ TransitionRepair(review.plan)
        BY <1>2, <3>3, <2>4
      <4>2. TransitionRepair(q)
        BY <1>15, <2>5, <4>1
      <4> QED
        BY <1>14, <3>1, <4>1, <4>2
    <3>4. ASSUME review.repaired = "monetization_state" PROVE domain = "monetization" /\ OfferRepair(q)'
      <4>1. domain = "monetization" /\ OfferRepair(review.plan)
        BY <1>2, <3>4, <2>4
      <4>2. OfferRepair(q)
        BY <1>15, <2>5, <4>1
      <4> QED
        BY <1>14, <3>1, <4>1, <4>2
    <3> QED
      BY <3>2, <3>3, <3>4
  <2>7. (\A c \in Traced : tracing'[c] = <<>>) /\ review'.rows = columns' /\ review'.plan = q /\ q = <<>>
    BY <1>2, <2>1, <2>2, <2>3, <2>4, <2>5
  <2> QED
    BY <1>13, <2>1, <2>3, <2>6, <2>7, Zenon
<1>10. CASE GrowOld
  BY <1>3, <1>10 DEF GrowOld
<1>11. CASE UNCHANGED oversightVars
  BY <1>3, <1>11 DEF oversightVars
<1>12. ASSUME NEW c \in Traced, BeginTraced(c) \/ Trace(c) \/ TracedDies(c) PROVE FALSE
  BY <1>4, <1>12, Zenon DEF BeginTraced, Trace, TracedDies
<1> QED
  BY <1>5, <1>6, <1>7, <1>8, <1>9, <1>10, <1>11, <1>12, Zenon DEF OversightNext

\* The step that ends a check.
RepairSettlesStep ==
    Concludes /\ review.what = "check" /\ ~review.overlapped =>
        CASE review.repaired = "notification_state" -> "notification_stage_mismatches" \notin review'.found
          [] review.repaired = "lifecycle_transition" -> "transition_stage_mismatches" \notin review'.found
          [] review.repaired = "monetization_state" -> review'.found = {}
          [] OTHER -> TRUE

LEMMA OnlyEndsConclude ==
    ASSUME OversightShape, [OversightNext]_oversightVars, Concludes
    PROVE  EndReview
<1>1. Clock \in Nat /\ IsReview(review, Clock) /\ review.pc = "reading" /\ review'.pc = "done"
  BY BoundsAreNats DEF OversightShape, Clock, Concludes
<1>2. ASSUME review' = [review EXCEPT !.overlapped = @ \/ Reviewed] PROVE FALSE
  <2>1. PICK b : b = (review.overlapped \/ Reviewed)
    OBVIOUS
  <2>2. review' = [review EXCEPT !.overlapped = b]
    BY <1>2, <2>1, Zenon
  <2> QED
    BY <1>1, <2>2, ReviewFields
<1>3. ASSUME review' = review PROVE FALSE
  BY <1>1, <1>3
<1>4. Reviewed
  BY <1>1 DEF Reviewed
<1>5. ASSUME Repair \/ CheckRepair PROVE FALSE
  BY <1>1, <1>5 DEF Repair, CheckRepair
<1>6. ASSUME StartReview \/ StartRepair PROVE FALSE
  BY <1>4, <1>6 DEF StartReview, StartRepair
<1>7. ASSUME GrowOld \/ UNCHANGED oversightVars PROVE FALSE
  BY <1>3, <1>7 DEF GrowOld, oversightVars
<1>8. ASSUME NEW c \in Traced, BeginTraced(c) \/ Trace(c) \/ TracedDies(c) PROVE FALSE
  BY <1>2, <1>8, Zenon DEF BeginTraced, Trace, TracedDies
<1> QED
  BY <1>5, <1>6, <1>7, <1>8, Zenon DEF OversightNext

LEMMA LastIsNewest ==
    ASSUME Clock \in Nat, journal \in Seq(DatedEntry(Clock)), LastIsStage, NEW since \in Nat
    PROVE  LET recent == {i \in RowsOf("transition", Now) : i > since} IN
           recent # {} => journal[Newest(recent)].ref = columns.stage
<1>1. PICK S : S = {i \in RowsOf("transition", Now) : i > since}
  OBVIOUS
<1>2. SUFFICES ASSUME S # {} PROVE journal[Newest(S)].ref = columns.stage
  BY <1>1
<1>3. Now \in Nat /\ Now \in 1 .. Now /\ journal[Now].kind = "transition" /\ journal[Now].at = Clock /\ journal[Now].ref = columns.stage
  BY RowsAreDated DEF LastIsStage
<1>4. \A i \in S : i \in 1 .. Now /\ i <= Now /\ journal[i].at <= journal[Now].at
  BY <1>1, <1>3, RowsAreDated DEF RowsOf
<1>5. Now \in S
  <2>1. PICK i \in S : i \in 1 .. Now /\ i > since
    BY <1>1, <1>2, <1>4
  <2>2. Now > since
    BY <1>3, <2>1
  <2> QED
    BY <1>1, <1>3, <2>2 DEF RowsOf
<1>6. Newest(S) = Now
  <2>1. S \subseteq 1 .. Now /\ \A j \in S : j <= Now /\ journal[j].at <= journal[Now].at
    BY <1>4
  <2> QED
    BY <1>5, <2>1, NewestIsLast
<1> QED
  BY <1>3, <1>6

LEMMA EndsAreSettled ==
    ASSUME OversightShape, RepairInv, [OversightNext]_oversightVars
    PROVE  RepairSettlesStep
<1> SUFFICES ASSUME Concludes, review.what = "check", ~review.overlapped
             PROVE  CASE review.repaired = "notification_state" -> "notification_stage_mismatches" \notin review'.found
                      [] review.repaired = "lifecycle_transition" -> "transition_stage_mismatches" \notin review'.found
                      [] review.repaired = "monetization_state" -> review'.found = {}
                      [] OTHER -> TRUE
  BY Zenon DEF RepairSettlesStep
<1>1. EndReview /\ Clock \in Nat /\ IsReview(review, Clock) /\ journal \in Seq(DatedEntry(Clock))
  BY OnlyEndsConclude, BoundsAreNats DEF OversightShape, Clock
<1>2. PICK d : d = Drift(review.rows, review.traces, review.since)
  OBVIOUS
<1>3. PICK f : f = IF review.what = "report" THEN Issues(review.rows, review.traces)
                   ELSE Drift(review.rows, review.traces, review.since)
  OBVIOUS
<1>4. review' = [review EXCEPT !.pc = "done", !.found = f] /\ review.pc = "reading" /\ f = d
  BY <1>1, <1>2, <1>3 DEF EndReview
<1>5. review'.found = d
  BY <1>1, <1>4, ReviewFields
<1>6. /\ review.rows = columns /\ review.plan = <<>>
      /\ review.repaired = "notification_state" => domain = "lifecycle" /\ NoticeRepair(<<>>)
      /\ review.repaired = "lifecycle_transition" => domain = "lifecycle" /\ TransitionRepair(<<>>)
      /\ review.repaired = "monetization_state" => domain = "monetization" /\ OfferRepair(<<>>)
  <2>1. Reviewed
    BY <1>4 DEF Reviewed
  <2>2. review.plan = <<>> /\ review.rows = columns
    BY <1>4, <2>1 DEF RepairInv
  <2> QED
    BY <2>1, <2>2 DEF RepairInv
<1>7. ASSUME review.repaired = "notification_state" PROVE "notification_stage_mismatches" \notin d
  <2>1. columns.noticeStage = columns.stage
    BY <1>6, <1>7 DEF NoticeRepair
  <2>2. d = LifecycleDrift(columns, review.since)
    BY <1>2, <1>6, <1>7 DEF Drift
  <2> QED
    BY <2>1, <2>2 DEF LifecycleDrift
<1>8. ASSUME review.repaired = "lifecycle_transition" PROVE "transition_stage_mismatches" \notin d
  <2>1. LastIsStage
    BY <1>6, <1>8 DEF TransitionRepair
  <2>2. d = LifecycleDrift(columns, review.since)
    BY <1>2, <1>6, <1>8 DEF Drift
  <2>3. review.since \in Nat
    BY <1>1 DEF IsReview
  <2>4. PICK recent : recent = {i \in RowsOf("transition", Now) : i > review.since}
    OBVIOUS
  <2>5. recent # {} => journal[Newest(recent)].ref = columns.stage
    BY <1>1, <2>1, <2>3, <2>4, LastIsNewest
  <2> QED
    BY <2>2, <2>4, <2>5 DEF LifecycleDrift
<1>9. ASSUME review.repaired = "monetization_state" PROVE d = {}
  <2>1. columns.offerStage = columns.stage
    BY <1>6, <1>9 DEF OfferRepair
  <2>2. d = MonetizationDrift(columns)
    BY <1>2, <1>6, <1>9 DEF Drift
  <2> QED
    BY <2>1, <2>2 DEF MonetizationDrift
<1> QED
  BY <1>5, <1>7, <1>8, <1>9

\* A repair that no request overlaps ends the drift that it was asked to end, however the
\* drift arose, for any requests, stages and earlier repairs.
THEOREM RepairsSettle == OversightSpec => RepairSettles
<1>1. OversightInit => OversightShape /\ RepairInv
  BY ShapeAtFirst, RepairAtFirst
<1>2. OversightShape /\ RepairInv /\ [OversightNext]_oversightVars => (OversightShape /\ RepairInv)'
  BY ShapeKept, RepairKept
<1>3. OversightShape /\ RepairInv /\ [OversightNext]_oversightVars => RepairSettlesStep
  BY EndsAreSettled
<1> QED
  BY <1>1, <1>2, <1>3, PTL DEF OversightSpec, RepairSettles, RepairSettlesStep
-----------------------------------------------------------------------------
(***************************************************************************)
(* Alarms have a cause.  Of a user none of whose requests and repairs      *)
(* overlapped or died, one request at most is under way: what it has still *)
(* to write, and what the rows and columns then are, is an invariant for   *)
(* each domain.                                                            *)
(***************************************************************************)

\* What is still to be written, by the only request, or by none.
ToCome(q) ==
    \/ q # <<>> /\ \E c \in Traced : tracing[c] = q
    \/ q = <<>> /\ \A c \in Traced : tracing[c] = <<>>

Uncrossed ==
    ~crossed => /\ \A c, d \in Traced : UnderWay(c) /\ UnderWay(d) => c = d
                /\ review.pc = "repairing" => ~Busied

\* What a report or check that nothing overlaps has read of the traces is all of them.
TracesAreRead == review.pc = "reading" /\ ~review.overlapped => review.traces = Now

\* The steps of such a user: a request begins, writes, or a repair does, or nobody.
OneBegins ==
    /\ ToCome(<<>>) /\ review.pc # "repairing" /\ review'.pc # "repairing"
    /\ journal' = journal /\ columns' = columns /\ Clock' = Clock + 1
    /\ \E p \in Plans : \A q : ToCome(q)' => q = p

OneWrites(q) ==
    /\ ToCome(q) /\ q # <<>> /\ q \in Seq(DatedWrite(Clock))
    /\ review.pc # "repairing" /\ review'.pc # "repairing" /\ Clock' = Clock
    /\ Commits(Head(q))
    /\ \A x : ToCome(x)' => x = Tail(q)

OneRepairs ==
    /\ ToCome(<<>>) /\ tracing' = tracing /\ Clock' = Clock
    /\ review.pc = "repairing" /\ review.plan # <<>> /\ review'.plan = Tail(review.plan)
    /\ Commits(Repairing(Head(review.plan)))

NoneWrites ==
    /\ journal' = journal /\ columns' = columns /\ tracing' = tracing /\ (Clock' = Clock \/ Clock' = Clock + 1)
    /\ review'.pc = "repairing" =>
         \/ review.pc = "repairing" /\ review'.plan = review.plan
         \/ ToCome(<<>>) /\ \E a \in Offered : review'.plan \in RepairPlans(a)

LEMMA NobodyMeansNothing == ~Busied <=> ToCome(<<>>)
BY DEF Busied, UnderWay, ToCome

LEMMA UncrossedAtFirst == OversightInit => Uncrossed /\ TracesAreRead
BY DEF OversightInit, Uncrossed, TracesAreRead, UnderWay, NoReview

LEMMA TracesOfReview ==
    ASSUME NEW n \in Nat, NEW r, IsReview(r, n)
    PROVE  /\ \A b : LET v == [r EXCEPT !.overlapped = b] IN v.pc = r.pc /\ v.traces = r.traces /\ v.overlapped = b
           /\ \A q : [r EXCEPT !.plan = q].pc = r.pc
           /\ \A f : [r EXCEPT !.pc = "done", !.found = f].pc = "done"
           /\ \A w, t, i, m : [r EXCEPT !.pc = "reading", !.what = w, !.traces = t, !.rows = m, !.since = i].traces = t
           /\ \A a, q, b : [r EXCEPT !.pc = "repairing", !.repaired = a, !.plan = q, !.overlapped = b].pc = "repairing"
<1>1. PICK l, w, t, i, m, q, a, o, f :
        r = [pc |-> l, what |-> w, traces |-> t, rows |-> m, since |-> i, plan |-> q, repaired |-> a,
             found |-> f, overlapped |-> o]
  BY Zenon DEF IsReview
<1>2. ASSUME NEW b
      PROVE  LET v == [r EXCEPT !.overlapped = b] IN v.pc = r.pc /\ v.traces = r.traces /\ v.overlapped = b
  BY <1>1
<1>3. ASSUME NEW u PROVE [r EXCEPT !.plan = u].pc = r.pc
  BY <1>1
<1>4. ASSUME NEW g PROVE [r EXCEPT !.pc = "done", !.found = g].pc = "done"
  BY <1>1
<1>5. ASSUME NEW ww, NEW tt, NEW ii, NEW mm
      PROVE  [r EXCEPT !.pc = "reading", !.what = ww, !.traces = tt, !.rows = mm, !.since = ii].traces = tt
  BY <1>1
<1>6. ASSUME NEW aa, NEW u, NEW b
      PROVE  [r EXCEPT !.pc = "repairing", !.repaired = aa, !.plan = u, !.overlapped = b].pc = "repairing"
  BY <1>1
<1> QED
  BY <1>2, <1>3, <1>4, <1>5, <1>6, Zenon

\* What becomes of the review when a request takes a step.
LEMMA RequestsOverlap ==
    ASSUME NEW n \in Nat, IsReview(review, n), review' = [review EXCEPT !.overlapped = @ \/ Reviewed]
    PROVE  /\ review'.pc = review.pc /\ review'.traces = review.traces /\ review'.plan = review.plan
           /\ review.pc = "reading" => review'.overlapped
<1>1. PICK b : b = (review.overlapped \/ Reviewed)
  OBVIOUS
<1>2. review' = [review EXCEPT !.overlapped = b]
  BY <1>1, Zenon
<1>3. /\ review'.pc = review.pc /\ review'.traces = review.traces /\ review'.plan = review.plan
      /\ review'.overlapped = b
  <2>1. PICK v : v = [review EXCEPT !.overlapped = b]
    OBVIOUS
  <2>2. v.pc = review.pc /\ v.traces = review.traces /\ v.plan = review.plan /\ v.overlapped = b
    BY <2>1, TracesOfReview, ReviewFields
  <2> QED
    BY <1>2, <2>1, <2>2
<1>4. review.pc = "reading" => b
  BY <1>1 DEF Reviewed
<1> QED
  BY <1>3, <1>4, Zenon

\* The other steps of a review.
LEMMA ReviewSteps ==
    ASSUME OversightShape
    PROVE  /\ StartReview => review'.pc = "reading" /\ review'.traces = Now
           /\ EndReview => review'.pc = "done"
           /\ StartRepair => /\ review'.pc = "repairing"
                             /\ \E a \in Offered : review'.plan \in RepairPlans(a)
           /\ Repair => review'.pc = "repairing" /\ review'.plan = Tail(review.plan)
           /\ CheckRepair => review'.pc = "reading" /\ review'.traces = Now
<1>1. Clock \in Nat /\ IsReview(review, Clock) /\ Clock + 1 \in Nat
  BY BoundsAreNats DEF OversightShape, Clock
<1>2. ASSUME StartReview PROVE review'.pc = "reading" /\ review'.traces = Now
  <2>1. PICK w \in {"report", "check"} : Read([NoReview EXCEPT !.overlapped = Busied], w)
    BY <1>2 DEF StartReview
  <2>2. PICK b : b = Busied /\ b \in BOOLEAN
    BY DEF Busied
  <2>3. PICK r : r = [NoReview EXCEPT !.overlapped = b]
    OBVIOUS
  <2>4. IsReview(r, Clock)
    <3>1. IsReview(NoReview, Clock)
      BY <1>1, NoReviewIsReview
    <3>2. IsReview([NoReview EXCEPT !.overlapped = b], Clock)
      BY <1>1, <2>2, <3>1, ReviewKeepsShape
    <3> QED
      BY <2>3, <3>2
  <2>5. review' = [r EXCEPT !.pc = "reading", !.what = w, !.traces = Now, !.rows = columns, !.since = aged]
    BY <2>1, <2>2, <2>3 DEF Read
  <2> QED
    BY <1>1, <2>4, <2>5, TracesOfReview, ReviewFields
<1>3. ASSUME EndReview PROVE review'.pc = "done"
  <2>1. PICK f : review' = [review EXCEPT !.pc = "done", !.found = f]
    BY <1>3, Zenon DEF EndReview
  <2> QED
    BY <1>1, <2>1, ReviewFields
<1>4. ASSUME StartRepair PROVE review'.pc = "repairing" /\ \E a \in Offered : review'.plan \in RepairPlans(a)
  <2>1. PICK a \in Offered : \E p \in RepairPlans(a) :
          review' = [NoReview EXCEPT !.pc = "repairing", !.repaired = a, !.plan = p, !.overlapped = Busied]
    BY <1>4, Zenon DEF StartRepair
  <2>2. PICK p \in RepairPlans(a) :
          review' = [NoReview EXCEPT !.pc = "repairing", !.repaired = a, !.plan = p, !.overlapped = Busied]
    BY <2>1
  <2>3. PICK b : b = Busied
    OBVIOUS
  <2>4. review' = [NoReview EXCEPT !.pc = "repairing", !.repaired = a, !.plan = p, !.overlapped = b]
    BY <2>2, <2>3
  <2>5. review'.pc = "repairing" /\ review'.plan = p
    BY <1>1, <2>4, NoReviewIsReview, ReviewFields
  <2> QED
    BY <2>5
<1>5. ASSUME Repair PROVE review'.pc = "repairing" /\ review'.plan = Tail(review.plan)
  <2>1. PICK q : q = Tail(review.plan)
    OBVIOUS
  <2>2. review' = [review EXCEPT !.plan = q] /\ review.pc = "repairing"
    BY <1>5, <2>1 DEF Repair
  <2> QED
    BY <1>1, <2>1, <2>2, ReviewFields
<1>6. ASSUME CheckRepair PROVE review'.pc = "reading" /\ review'.traces = Now
  <2>1. review' = [review EXCEPT !.pc = "reading", !.what = "check", !.traces = Now, !.rows = columns, !.since = aged]
    BY <1>6 DEF CheckRepair, Read
  <2> QED
    BY <1>1, <2>1, TracesOfReview, ReviewFields
<1> QED
  BY <1>2, <1>3, <1>4, <1>5, <1>6

LEMMA TracesReadKept ==
    OversightShape /\ TracesAreRead /\ [OversightNext]_oversightVars => TracesAreRead'
<1> SUFFICES ASSUME OversightShape, TracesAreRead, [OversightNext]_oversightVars,
                    review'.pc = "reading", ~review'.overlapped
             PROVE  review'.traces = Now'
  BY DEF TracesAreRead
<1>1. Clock \in Nat /\ IsReview(review, Clock)
  BY BoundsAreNats DEF OversightShape, Clock
<1>2. ASSUME review' = [review EXCEPT !.overlapped = @ \/ Reviewed] PROVE FALSE
  BY <1>1, <1>2, RequestsOverlap
<1>3. ASSUME review' = review, journal' = journal PROVE review'.traces = Now'
  BY <1>3 DEF TracesAreRead, Now
<1>4. ASSUME StartReview \/ CheckRepair PROVE review'.traces = Now'
  BY <1>4, ReviewSteps DEF StartReview, CheckRepair, Now
<1>5. ASSUME EndReview \/ StartRepair \/ Repair PROVE FALSE
  BY <1>5, ReviewSteps
<1>6. ASSUME GrowOld \/ UNCHANGED oversightVars PROVE review'.traces = Now'
  BY <1>3, <1>6 DEF GrowOld, oversightVars
<1>7. ASSUME NEW c \in Traced, BeginTraced(c) \/ Trace(c) \/ TracedDies(c) PROVE FALSE
  BY <1>2, <1>7, Zenon DEF BeginTraced, Trace, TracedDies
<1> QED
  BY <1>4, <1>5, <1>6, <1>7, Zenon DEF OversightNext

LEMMA UncrossedKept ==
    OversightShape /\ Uncrossed /\ [OversightNext]_oversightVars => Uncrossed'
<1> SUFFICES ASSUME OversightShape, Uncrossed, [OversightNext]_oversightVars, ~crossed'
             PROVE  /\ \A c, d \in Traced : UnderWay(c)' /\ UnderWay(d)' => c = d
                    /\ review'.pc = "repairing" => ~Busied'
  BY DEF Uncrossed
<1>1. Clock \in Nat /\ IsReview(review, Clock) /\ DOMAIN tracing = Traced
  BY BoundsAreNats DEF OversightShape, Clock
<1>2. ASSUME ~crossed
      PROVE  /\ \A c, d \in Traced : tracing[c] # <<>> /\ tracing[d] # <<>> => c = d
             /\ review.pc = "repairing" => \A c \in Traced : tracing[c] = <<>>
  BY <1>2 DEF Uncrossed, UnderWay, Busied
<1>3. SUFFICES /\ \A c, d \in Traced : tracing'[c] # <<>> /\ tracing'[d] # <<>> => c = d
               /\ review'.pc = "repairing" => \A c \in Traced : tracing'[c] = <<>>
  BY DEF UnderWay, Busied
<1>4. ASSUME tracing' = tracing, crossed' = crossed, review'.pc = "repairing" => review.pc = "repairing"
      PROVE  /\ \A c, d \in Traced : tracing'[c] # <<>> /\ tracing'[d] # <<>> => c = d
             /\ review'.pc = "repairing" => \A c \in Traced : tracing'[c] = <<>>
  BY <1>2, <1>4
<1>5. ASSUME StartReview \/ EndReview \/ CheckRepair \/ Repair
      PROVE  tracing' = tracing /\ crossed' = crossed /\ (review'.pc = "repairing" => review.pc = "repairing")
  <2>1. tracing' = tracing /\ crossed' = crossed
    BY <1>5 DEF StartReview, EndReview, CheckRepair, Repair
  <2>2. ASSUME StartReview \/ EndReview \/ CheckRepair PROVE review'.pc # "repairing"
    BY <2>2, ReviewSteps
  <2> QED
    BY <1>5, <2>1, <2>2 DEF Repair
<1>6. CASE StartReview \/ EndReview \/ CheckRepair \/ Repair
  BY <1>4, <1>5, <1>6
<1>7. CASE GrowOld \/ UNCHANGED oversightVars
  BY <1>4, <1>7 DEF GrowOld, oversightVars
<1>8. CASE StartRepair
  <2>1. tracing' = tracing /\ ~crossed /\ ~Busied
    BY <1>8 DEF StartRepair
  <2> QED
    BY <1>2, <2>1 DEF Busied, UnderWay
<1>9. ASSUME NEW c \in Traced, BeginTraced(c)
      PROVE  /\ \A i, j \in Traced : tracing'[i] # <<>> /\ tracing'[j] # <<>> => i = j
             /\ review'.pc = "repairing" => \A i \in Traced : tracing'[i] = <<>>
  <2>1. review.pc # "repairing" /\ \A o \in Traced : ~UnderWay(o)
    BY <1>9, Zenon DEF BeginTraced
  <2>2. review'.pc = review.pc
    BY <1>1, <1>9, RequestsOverlap, Zenon DEF BeginTraced
  <2>3. PICK p : tracing' = [tracing EXCEPT ![c] = p]
    BY <1>9 DEF BeginTraced
  <2> QED
    BY <1>1, <2>1, <2>2, <2>3 DEF UnderWay
<1>10. ASSUME NEW c \in Traced, Trace(c)
       PROVE  /\ \A i, j \in Traced : tracing'[i] # <<>> /\ tracing'[j] # <<>> => i = j
              /\ review'.pc = "repairing" => \A i \in Traced : tracing'[i] = <<>>
  <2>1. ~crossed /\ tracing[c] # <<>>
    BY <1>10, Zenon DEF Trace, UnderWay
  <2>2. review'.pc = review.pc
    BY <1>1, <1>10, RequestsOverlap, Zenon DEF Trace
  <2>3. PICK p : tracing' = [tracing EXCEPT ![c] = p]
    BY <1>10 DEF Trace
  <2> QED
    BY <1>1, <1>2, <2>1, <2>2, <2>3
<1>11. ASSUME NEW c \in Traced, TracedDies(c) PROVE FALSE
  BY <1>11 DEF TracedDies
<1> QED
  BY <1>3, <1>6, <1>7, <1>8, <1>9, <1>10, <1>11, Zenon DEF OversightNext

LEMMA StepsOfOne ==
    ASSUME OversightShape, Uncrossed, [OversightNext]_oversightVars, ~crossed'
    PROVE  /\ ~crossed /\ domain' = domain
           /\ OneBegins \/ (\E q : OneWrites(q)) \/ OneRepairs \/ NoneWrites
<1>1. /\ Clock \in Nat /\ IsReview(review, Clock) /\ DOMAIN tracing = Traced
      /\ tracing \in [Traced -> Seq(DatedWrite(Clock))] /\ begun \in Nat /\ reviews \in Nat
  BY BoundsAreNats DEF OversightShape, Clock
<1>2. Clock = begun + reviews /\ Clock' = begun' + reviews'
  BY DEF Clock
<1>3. ASSUME ~crossed
      PROVE  /\ \A c, d \in Traced : tracing[c] # <<>> /\ tracing[d] # <<>> => c = d
             /\ review.pc = "repairing" => \A c \in Traced : tracing[c] = <<>>
  BY <1>3 DEF Uncrossed, UnderWay, Busied
<1>4. CASE StartReview \/ EndReview \/ CheckRepair
  <2>1. /\ journal' = journal /\ columns' = columns /\ tracing' = tracing /\ crossed' = crossed /\ domain' = domain
        /\ begun' = begun /\ (reviews' = reviews \/ reviews' = reviews + 1)
    BY <1>4 DEF StartReview, EndReview, CheckRepair
  <2>2. review'.pc # "repairing"
    BY <1>4, ReviewSteps
  <2> QED
    BY <1>1, <1>2, <2>1, <2>2 DEF NoneWrites
<1>5. CASE GrowOld \/ UNCHANGED oversightVars
  <2>1. /\ journal' = journal /\ columns' = columns /\ tracing' = tracing /\ crossed' = crossed /\ domain' = domain
        /\ begun' = begun /\ reviews' = reviews /\ review' = review
    BY <1>5 DEF GrowOld, oversightVars
  <2> QED
    BY <1>1, <1>2, <2>1 DEF NoneWrites
<1>6. CASE StartRepair
  <2>1. /\ journal' = journal /\ columns' = columns /\ tracing' = tracing /\ ~crossed /\ ~Busied /\ domain' = domain
        /\ begun' = begun /\ reviews' = reviews + 1
    BY <1>6 DEF StartRepair
  <2>2. ToCome(<<>>) /\ \E a \in Offered : review'.plan \in RepairPlans(a)
    BY <1>6, <2>1, ReviewSteps, NobodyMeansNothing
  <2> QED
    BY <1>1, <1>2, <2>1, <2>2 DEF NoneWrites
<1>7. CASE Repair
  <2>1. /\ tracing' = tracing /\ crossed' = crossed /\ domain' = domain /\ begun' = begun /\ reviews' = reviews
        /\ review.pc = "repairing" /\ review.plan # <<>> /\ Commits(Repairing(Head(review.plan)))
    BY <1>7 DEF Repair
  <2>2. ToCome(<<>>)
    BY <1>3, <2>1 DEF ToCome
  <2>3. review'.plan = Tail(review.plan)
    BY <1>7, ReviewSteps
  <2> QED
    BY <1>2, <2>1, <2>2, <2>3 DEF OneRepairs
<1>8. ASSUME NEW c \in Traced, BeginTraced(c)
      PROVE  ~crossed /\ domain' = domain /\ OneBegins
  <2>1. /\ review.pc # "repairing" /\ ~crossed /\ (\A o \in Traced : ~UnderWay(o)) /\ domain' = domain
        /\ journal' = journal /\ columns' = columns /\ begun' = begun + 1 /\ reviews' = reviews
    BY <1>8, Zenon DEF BeginTraced
  <2>2. review'.pc = review.pc
    BY <1>1, <1>8, RequestsOverlap, Zenon DEF BeginTraced
  <2>3. PICK p \in Plans : tracing' = [tracing EXCEPT ![c] = p]
    BY <1>8, Zenon DEF BeginTraced
  <2>4. \A o \in Traced : tracing[o] = <<>>
    BY <2>1 DEF UnderWay
  <2>5. ASSUME NEW q, ToCome(q)' PROVE q = p
    <3>1. \/ q # <<>> /\ \E o \in Traced : tracing'[o] = q
          \/ q = <<>> /\ \A o \in Traced : tracing'[o] = <<>>
      BY <2>5 DEF ToCome
    <3> QED
      BY <1>1, <2>3, <2>4, <3>1
  <2>6. ToCome(<<>>)
    BY <2>4 DEF ToCome
  <2>7. Clock' = Clock + 1
    BY <1>1, <1>2, <2>1
  <2> QED
    BY <2>1, <2>2, <2>5, <2>6, <2>7, Zenon DEF OneBegins
<1>9. ASSUME NEW c \in Traced, Trace(c)
      PROVE  ~crossed /\ domain' = domain /\ \E q : OneWrites(q)
  <2>1. PICK q : q = tracing[c]
    OBVIOUS
  <2>2. /\ q # <<>> /\ ~crossed /\ domain' = domain /\ begun' = begun /\ reviews' = reviews
        /\ Commits(Head(q)) /\ tracing' = [tracing EXCEPT ![c] = Tail(q)]
    BY <1>9, <2>1 DEF Trace, UnderWay
  <2>3. review'.pc = review.pc
    BY <1>1, <1>9, RequestsOverlap, Zenon DEF Trace
  <2>4. review.pc # "repairing" /\ \A o \in Traced \ {c} : tracing[o] = <<>>
    BY <1>3, <2>1, <2>2
  <2>5. ASSUME NEW x, ToCome(x)' PROVE x = Tail(q)
    <3>1. \/ x # <<>> /\ \E o \in Traced : tracing'[o] = x
          \/ x = <<>> /\ \A o \in Traced : tracing'[o] = <<>>
      BY <2>5 DEF ToCome
    <3>2. PICK u : u = Tail(q)
      OBVIOUS
    <3>3. tracing' = [tracing EXCEPT ![c] = u]
      BY <2>2, <3>2
    <3>4. x = u
      BY <1>1, <2>4, <3>1, <3>3
    <3> QED
      BY <3>2, <3>4
  <2>6. ToCome(q) /\ q \in Seq(DatedWrite(Clock))
    BY <1>1, <2>1, <2>2 DEF ToCome
  <2>7. Clock' = Clock
    BY <1>2, <2>2
  <2>8. OneWrites(q)
    BY <2>2, <2>3, <2>4, <2>5, <2>6, <2>7, Zenon DEF OneWrites
  <2> QED
    BY <2>2, <2>8
<1>10. ASSUME NEW c \in Traced, TracedDies(c) PROVE FALSE
  BY <1>10 DEF TracedDies
<1> QED
  BY <1>4, <1>5, <1>6, <1>7, <1>8, <1>9, <1>10, Zenon DEF OversightNext

LEMMA HeadsAndTails ==
    /\ \A a : Head(<<a>>) = a /\ Tail(<<a>>) = <<>> /\ <<a>> # <<>>
    /\ \A a, b : Head(<<a, b>>) = a /\ Tail(<<a, b>>) = <<b>> /\ <<a, b>> # <<>>
    /\ \A a, b, c : Head(<<a, b, c>>) = a /\ Tail(<<a, b, c>>) = <<b, c>> /\ <<a, b, c>> # <<>>
    /\ \A a, b, c, d : Head(<<a, b, c, d>>) = a /\ Tail(<<a, b, c, d>>) = <<b, c, d>> /\ <<a, b, c, d>> # <<>>
    /\ \A a, b, c, d, e : Head(<<a, b, c, d, e>>) = a /\ Tail(<<a, b, c, d, e>>) = <<b, c, d, e>>
                          /\ <<a, b, c, d, e>> # <<>>
OBVIOUS

\* What a write leaves of the journal and of the columns.
LEMMA WhatIsCommitted ==
    ASSUME NEW n \in Nat, journal \in Seq(DatedEntry(n)), columns \in Columns, NEW w \in DatedWrite(n), Commits(w)
    PROVE  /\ Now \in Nat /\ Now' \in Nat /\ Now <= Now' /\ \A i \in 1 .. Now : journal'[i] = journal[i]
           /\ w.to \in ColumnNames \ {"stage"} => Now' = Now
           /\ w.to = "stage" /\ w.seen = w.ref => Now' = Now
           /\ w.to = "stage" /\ w.seen # w.ref =>
                Now' = Now + 1 /\ journal'[Now + 1] = [kind |-> "transition", ref |-> w.ref, at |-> w.at]
           /\ w.to = "mission" =>
                /\ Now' = Now + 2 /\ journal'[Now + 1] = [kind |-> "mission", ref |-> w.ref, at |-> w.at]
                /\ journal'[Now + 2] = [kind |-> "chest", ref |-> w.ref, at |-> w.at]
           /\ w.to \in EntryKinds \ {"mission"} =>
                Now' = Now + 1 /\ journal'[Now + 1] = [kind |-> w.to, ref |-> w.ref, at |-> w.at]
           /\ \A b \in ColumnNames :
                columns'[b] = IF b = w.to /\ ~(b = "noticeRef" /\ w.ref = Nothing) /\ ~(b = "stage" /\ w.seen = w.ref)
                              THEN w.ref ELSE columns[b]
<1>1. PICK q : q = Appended(w)
  OBVIOUS
<1>2. q \in Seq(DatedEntry(n)) /\ journal' = journal \o q /\ columns' = Overwritten(w)
  BY <1>1, AppendedAreRows DEF Commits
<1>3. /\ Now \in Nat /\ Now' = Now + Len(q) /\ Len(q) \in Nat
      /\ \A i \in 1 .. Now : journal'[i] = journal[i]
      /\ \A i \in 1 .. Len(q) : journal'[Now + i] = q[i]
  BY <1>2 DEF Now
<1>4. w.to \in EntryKinds \cup ColumnNames /\ EntryKinds \cap ColumnNames = {} /\ "stage" \in ColumnNames
      /\ "mission" \in EntryKinds
  BY KindsAndColumns DEF DatedWrite
<1>5. ASSUME w.to \in ColumnNames \ {"stage"} PROVE q = <<>>
  <2>1. w.to # "mission" /\ w.to # "stage"
    BY <1>4, <1>5
  <2> QED
    BY <1>1, <1>5, <2>1, Zenon DEF Appended
<1>6. ASSUME w.to = "stage", w.seen = w.ref PROVE q = <<>>
  BY <1>1, <1>6 DEF Appended
<1>7. ASSUME w.to = "stage", w.seen # w.ref PROVE q = <<[kind |-> "transition", ref |-> w.ref, at |-> w.at]>>
  BY <1>1, <1>7 DEF Appended
<1>8. ASSUME w.to = "mission"
      PROVE  q = <<[kind |-> "mission", ref |-> w.ref, at |-> w.at], [kind |-> "chest", ref |-> w.ref, at |-> w.at]>>
  <2>1. w.to # "stage" /\ w.to \notin ColumnNames
    BY <1>4, <1>8
  <2>2. Appended(w) = <<[kind |-> "mission", ref |-> w.ref, at |-> w.at], [kind |-> "chest", ref |-> w.ref, at |-> w.at]>>
    BY <1>8, <2>1, Zenon DEF Appended
  <2> QED
    BY <1>1, <2>2
<1>9. ASSUME w.to \in EntryKinds \ {"mission"} PROVE q = <<[kind |-> w.to, ref |-> w.ref, at |-> w.at]>>
  <2>1. w.to # "mission" /\ w.to # "stage" /\ w.to \notin ColumnNames
    BY <1>4, <1>9
  <2> QED
    BY <1>1, <2>1, Zenon DEF Appended
<1>10. ASSUME NEW b \in ColumnNames
       PROVE  columns'[b] = IF b = w.to /\ ~(b = "noticeRef" /\ w.ref = Nothing) /\ ~(b = "stage" /\ w.seen = w.ref)
                            THEN w.ref ELSE columns[b]
  BY <1>2 DEF Overwritten, Columns
<1>11. \A e : q = <<e>> => Len(q) = 1 /\ q[1] = e
  OBVIOUS
<1>12. \A e, f : q = <<e, f>> => Len(q) = 2 /\ q[1] = e /\ q[2] = f
  OBVIOUS
<1>13. q = <<>> => Len(q) = 0
  OBVIOUS
<1>14. \A e : q = <<e>> => Now' = Now + 1 /\ journal'[Now + 1] = e
  BY <1>3, <1>11
<1>15. \A e, f : q = <<e, f>> => Now' = Now + 2 /\ journal'[Now + 1] = e /\ journal'[Now + 2] = f
  BY <1>3, <1>12
<1>16. q = <<>> => Now' = Now
  BY <1>3, <1>13
<1>17. Now \in Nat /\ Now' \in Nat /\ Now <= Now' /\ \A i \in 1 .. Now : journal'[i] = journal[i]
  BY <1>3
<1>18. /\ w.to \in ColumnNames \ {"stage"} => Now' = Now
       /\ w.to = "stage" /\ w.seen = w.ref => Now' = Now
  BY <1>5, <1>6, <1>16
<1>19. w.to = "stage" /\ w.seen # w.ref =>
         Now' = Now + 1 /\ journal'[Now + 1] = [kind |-> "transition", ref |-> w.ref, at |-> w.at]
  BY <1>7, <1>14, Zenon
<1>20. w.to = "mission" =>
         /\ Now' = Now + 2 /\ journal'[Now + 1] = [kind |-> "mission", ref |-> w.ref, at |-> w.at]
         /\ journal'[Now + 2] = [kind |-> "chest", ref |-> w.ref, at |-> w.at]
  BY <1>8, <1>15, Zenon
<1>21. w.to \in EntryKinds \ {"mission"} =>
         Now' = Now + 1 /\ journal'[Now + 1] = [kind |-> w.to, ref |-> w.ref, at |-> w.at]
  BY <1>9, <1>14, Zenon
<1> QED
  BY <1>10, <1>17, <1>18, <1>19, <1>20, <1>21, Zenon

LEMMA ColumnsCommitted ==
    ASSUME NEW n \in Nat, journal \in Seq(DatedEntry(n)), columns \in Columns, NEW w \in DatedWrite(n), Commits(w)
    PROVE  /\ w.to = "stage" /\ w.seen = columns.stage => columns'.stage = w.ref
           /\ w.to # "stage" => columns'.stage = columns.stage
           /\ columns'.noticeStage = IF w.to = "noticeStage" THEN w.ref ELSE columns.noticeStage
           /\ columns'.noticeRef = IF w.to = "noticeRef" /\ w.ref # Nothing THEN w.ref ELSE columns.noticeRef
           /\ columns'.offerStage = IF w.to = "offerStage" THEN w.ref ELSE columns.offerStage
<1>1. \A b \in ColumnNames :
        columns'[b] = IF b = w.to /\ ~(b = "noticeRef" /\ w.ref = Nothing) /\ ~(b = "stage" /\ w.seen = w.ref)
                      THEN w.ref ELSE columns[b]
  BY WhatIsCommitted
<1>2. "stage" \in ColumnNames /\ "noticeStage" \in ColumnNames /\ "noticeRef" \in ColumnNames
      /\ "offerStage" \in ColumnNames
  BY KindsAndColumns
<1>3. columns'.stage = IF "stage" = w.to /\ w.seen # w.ref THEN w.ref ELSE columns.stage
  BY <1>1, <1>2
<1>4. columns'.noticeStage = IF "noticeStage" = w.to THEN w.ref ELSE columns.noticeStage
  BY <1>1, <1>2
<1>5. columns'.noticeRef = IF "noticeRef" = w.to /\ w.ref # Nothing THEN w.ref ELSE columns.noticeRef
  BY <1>1, <1>2
<1>6. columns'.offerStage = IF "offerStage" = w.to THEN w.ref ELSE columns.offerStage
  BY <1>1, <1>2
<1> QED
  BY <1>3, <1>4, <1>5, <1>6

\* The lifecycle: the last transition is the newest and names the stage of the row.
LastTransition ==
    \E k \in 1 .. Now :
        /\ journal[k].kind = "transition" /\ journal[k].ref = columns.stage
        /\ \A j \in 1 .. Now : journal[j].kind = "transition" => j <= k /\ journal[j].at <= journal[k].at

LifecycleToCome(q) ==
    /\ columns.stage # Nothing /\ LastTransition
    /\ \/ q = <<>> /\ columns.noticeStage = columns.stage
       \/ \E s \in Nat \ {0}, n \in 0 .. Clock :
            /\ q = <<StageWrite(s, n, columns.stage), To("noticeStage", s)>> /\ columns.noticeStage = columns.stage
            /\ \A j \in 1 .. Now : journal[j].at <= n
       \/ q = <<To("noticeStage", columns.stage)>>

LifecycleInv ==
    domain = "lifecycle" /\ ~crossed => review.pc # "repairing" /\ \A q : ToCome(q) => LifecycleToCome(q)

LEMMA LastTransitionIsNewest ==
    ASSUME NEW n \in Nat, journal \in Seq(DatedEntry(n)), LastTransition
    PROVE  /\ NewestRef("transition", Now) = columns.stage
           /\ \A since \in Nat :
                LET recent == {i \in RowsOf("transition", Now) : i > since} IN
                recent # {} => journal[Newest(recent)].ref = columns.stage
<1>1. PICK k \in 1 .. Now :
        /\ journal[k].kind = "transition" /\ journal[k].ref = columns.stage
        /\ \A j \in 1 .. Now : journal[j].kind = "transition" => j <= k /\ journal[j].at <= journal[k].at
  BY DEF LastTransition
<1>2. Now \in Nat /\ k \in Nat
  BY <1>1, RowsAreDated
<1>3. ASSUME NEW S, S \subseteq RowsOf("transition", Now), k \in S PROVE journal[Newest(S)].ref = columns.stage
  <2>1. S \subseteq 1 .. Now /\ \A j \in S : j <= k /\ journal[j].at <= journal[k].at
    BY <1>1, <1>3 DEF RowsOf
  <2>2. Newest(S) = k
    BY <1>3, <2>1, NewestIsLast
  <2> QED
    BY <1>1, <2>2
<1>4. k \in RowsOf("transition", Now)
  BY <1>1, <1>2 DEF RowsOf
<1>5. NewestRef("transition", Now) = columns.stage
  BY <1>3, <1>4 DEF NewestRef
<1>6. ASSUME NEW since \in Nat, NEW recent, recent = {i \in RowsOf("transition", Now) : i > since}, recent # {}
      PROVE  journal[Newest(recent)].ref = columns.stage
  <2>1. PICK i \in RowsOf("transition", Now) : i > since
    BY <1>6
  <2>2. i <= k /\ i \in Nat
    BY <1>1, <1>2, <2>1 DEF RowsOf
  <2>3. k \in recent /\ recent \subseteq RowsOf("transition", Now)
    BY <1>2, <1>4, <1>6, <2>1, <2>2
  <2> QED
    BY <1>3, <2>3
<1> QED
  BY <1>5, <1>6

LEMMA LifecycleAtFirst == OversightInit => LifecycleInv
<1> SUFFICES ASSUME OversightInit, domain = "lifecycle", NEW q, ToCome(q) PROVE LifecycleToCome(q)
  <2>1. OversightInit => review = NoReview
    BY DEF OversightInit
  <2>2. NoReview.pc # "repairing"
    BY DEF NoReview
  <2> QED
    BY <2>1, <2>2, Zenon DEF LifecycleInv
<1>1. OversightShape
  BY ShapeAtFirst
<1>2. q = <<>>
  BY DEF ToCome, OversightInit
<1>3. FirstStage \in Nat \ {0}
  BY OversightAssumption DEF FirstStage
<1>4. columns.stage = FirstStage /\ columns.noticeStage = FirstStage
  BY DEF OversightInit, NoColumns, ColumnNames
<1>5. journal = <<[kind |-> "transition", ref |-> FirstStage, at |-> 0]>>
  BY DEF OversightInit
<1>6. Now = 1 /\ journal[1] = [kind |-> "transition", ref |-> FirstStage, at |-> 0]
  BY <1>5 DEF Now
<1>7. LastTransition
  BY <1>4, <1>6 DEF LastTransition
<1> QED
  BY <1>2, <1>3, <1>4, <1>7 DEF LifecycleToCome, Nothing

LEMMA LifecycleKept == OversightShape /\ Uncrossed /\ LifecycleInv /\ [OversightNext]_oversightVars => LifecycleInv'
<1> SUFFICES ASSUME OversightShape, Uncrossed, LifecycleInv, [OversightNext]_oversightVars, ~crossed', domain' = "lifecycle"
             PROVE  review'.pc # "repairing" /\ \A q : ToCome(q)' => LifecycleToCome(q)'
  BY DEF LifecycleInv
<1>1. /\ ~crossed /\ domain = "lifecycle"
      /\ OneBegins \/ (\E q : OneWrites(q)) \/ OneRepairs \/ NoneWrites
  BY StepsOfOne
<1>2. review.pc # "repairing" /\ \A q : ToCome(q) => LifecycleToCome(q)
  BY <1>1 DEF LifecycleInv
<1>3. Clock \in Nat /\ journal \in Seq(DatedEntry(Clock)) /\ columns \in Columns /\ Now \in Nat
  BY BoundsAreNats, RowsAreDated DEF OversightShape, Clock
<1>4. \A j \in 1 .. Now : journal[j].at \in Nat /\ journal[j].at <= Clock
  BY <1>3, RowsAreDated
<1>5. CASE OneBegins
  <2>1. PICK p \in Plans : \A q : ToCome(q)' => q = p
    BY <1>5 DEF OneBegins
  <2>2. review'.pc # "repairing" /\ journal' = journal /\ columns' = columns /\ Clock' = Clock + 1 /\ LifecycleToCome(<<>>)
    BY <1>2, <1>5 DEF OneBegins
  <2>3. PICK s \in LifeStages[domain] : p = EvaluationPlan(s)
    BY <1>1, <2>1 DEF Plans
  <2>4. p = <<StageWrite(s, Clock + 1, columns.stage), To("noticeStage", s)>> /\ s \in Nat \ {0}
    BY <1>1, <2>3, LifecycleEvaluation, OversightAssumption
  <2>5. columns.stage # Nothing /\ LastTransition /\ columns.noticeStage = columns.stage
    BY <2>2 DEF LifecycleToCome, StageWrite
  <2>6. LastTransition'
    BY <2>2, <2>5 DEF LastTransition, Now
  <2>7. \A j \in 1 .. Now' : journal'[j].at <= Clock + 1
    BY <1>3, <1>4, <2>2 DEF Now
  <2>8. p = <<StageWrite(s, Clock + 1, columns'.stage), To("noticeStage", s)>> /\ Clock + 1 \in 0 .. Clock'
    BY <1>3, <2>2, <2>4
  <2>9. columns'.stage # Nothing /\ columns'.noticeStage = columns'.stage
    BY <2>2, <2>5
  <2>10. LifecycleToCome(p)'
    BY <2>4, <2>6, <2>7, <2>8, <2>9, Zenon DEF LifecycleToCome
  <2> QED
    BY <2>1, <2>2, <2>10, Zenon
<1>6. ASSUME NEW q, OneWrites(q)
      PROVE  review'.pc # "repairing" /\ \A x : ToCome(x)' => LifecycleToCome(x)'
  <2>1. /\ review'.pc # "repairing" /\ q # <<>> /\ q \in Seq(DatedWrite(Clock)) /\ Commits(Head(q)) /\ Clock' = Clock
        /\ \A x : ToCome(x)' => x = Tail(q)
    BY <1>6 DEF OneWrites
  <2>2. LifecycleToCome(q)
    BY <1>2, <1>6 DEF OneWrites
  <2>3. PICK w \in DatedWrite(Clock) : w = Head(q)
    BY <2>1, TailIsSeq
  <2>4. Commits(w)
    BY <2>1, <2>3
  <2>5. CASE \E s \in Nat \ {0}, n \in 0 .. Clock :
            /\ q = <<StageWrite(s, n, columns.stage), To("noticeStage", s)>> /\ columns.noticeStage = columns.stage
            /\ \A j \in 1 .. Now : journal[j].at <= n
    <3>1. PICK s \in Nat \ {0}, n \in 0 .. Clock :
            /\ q = <<StageWrite(s, n, columns.stage), To("noticeStage", s)>>
            /\ \A j \in 1 .. Now : journal[j].at <= n
      BY <2>5
    <3>2. w = StageWrite(s, n, columns.stage) /\ Tail(q) = <<To("noticeStage", s)>>
      BY <2>3, <3>1, HeadsAndTails
    <3>3. w.to = "stage" /\ w.ref = s /\ w.seen = columns.stage /\ w.at = n
      BY <3>2 DEF StageWrite
    <3>4. columns'.stage = s
      BY <1>3, <2>4, <3>3, ColumnsCommitted
    <3>5. LastTransition'
      <4>1. PICK k \in 1 .. Now :
              /\ journal[k].kind = "transition" /\ journal[k].ref = columns.stage
              /\ \A j \in 1 .. Now : journal[j].kind = "transition" => j <= k /\ journal[j].at <= journal[k].at
        BY <2>2 DEF LifecycleToCome, LastTransition
      <4>2. \A i \in 1 .. Now : journal'[i] = journal[i]
        BY <1>3, <2>4, WhatIsCommitted
      <4>3. CASE columns.stage = s
        <5>1. Now' = Now
          <6>1. w.seen = w.ref /\ w.to = "stage"
            BY <3>3, <4>3
          <6> QED
            BY <1>3, <2>4, <6>1, WhatIsCommitted
        <5> QED
          BY <3>4, <4>1, <4>2, <4>3, <5>1 DEF LastTransition
      <4>4. CASE columns.stage # s
        <5>1. Now' = Now + 1 /\ journal'[Now + 1] = [kind |-> "transition", ref |-> s, at |-> n]
          BY <1>3, <2>4, <3>3, <4>4, WhatIsCommitted
        <5>2. ASSUME NEW j \in 1 .. Now' PROVE j <= Now' /\ journal'[j].at <= n
          <6>1. j \in 1 .. Now \/ j = Now + 1
            BY <1>3, <5>1
          <6>2. ASSUME j \in 1 .. Now PROVE journal'[j].at <= n
            BY <3>1, <4>2, <6>2
          <6>3. ASSUME j = Now + 1 PROVE journal'[j].at <= n
            BY <5>1, <6>3
          <6> QED
            BY <1>3, <5>1, <6>1, <6>2, <6>3
        <5> QED
          BY <1>3, <3>4, <5>1, <5>2 DEF LastTransition
      <4> QED
        BY <4>3, <4>4
    <3>6. Tail(q) = <<To("noticeStage", columns'.stage)>> /\ columns'.stage # Nothing
      BY <3>1, <3>2, <3>4 DEF Nothing
    <3>7. \A x : x = <<To("noticeStage", columns'.stage)>> => LifecycleToCome(x)'
      BY <3>5, <3>6, Zenon DEF LifecycleToCome
    <3> QED
      BY <2>1, <3>6, <3>7, Zenon
  <2>6. CASE q = <<To("noticeStage", columns.stage)>>
    <3>1. w = To("noticeStage", columns.stage) /\ Tail(q) = <<>>
      BY <2>3, <2>6, HeadsAndTails
    <3>2. w.to = "noticeStage" /\ w.ref = columns.stage /\ w.to \in ColumnNames \ {"stage"}
      BY <3>1, KindsAndColumns DEF To
    <3>3. columns'.noticeStage = columns.stage /\ columns'.stage = columns.stage
      BY <1>3, <2>4, <3>2, ColumnsCommitted
    <3>4. Now' = Now /\ \A i \in 1 .. Now : journal'[i] = journal[i]
      BY <1>3, <2>4, <3>2, WhatIsCommitted
    <3>5. LastTransition' /\ columns.stage # Nothing
      BY <2>2, <3>3, <3>4 DEF LifecycleToCome, LastTransition
    <3>6. LifecycleToCome(<<>>)'
      BY <3>3, <3>5 DEF LifecycleToCome
    <3> QED
      BY <2>1, <3>1, <3>6, Zenon
  <2> QED
    BY <2>1, <2>2, <2>5, <2>6, Zenon DEF LifecycleToCome
<1>7. ASSUME OneRepairs PROVE FALSE
  BY <1>2, <1>7 DEF OneRepairs
<1>8. CASE NoneWrites
  <2>1. journal' = journal /\ columns' = columns /\ tracing' = tracing /\ Clock <= Clock' /\ Clock' \in Nat
    BY <1>3, <1>8 DEF NoneWrites
  <2>2. review'.pc # "repairing"
    <3>1. SUFFICES ASSUME ToCome(<<>>), NEW a \in Offered PROVE FALSE
      BY <1>2, <1>8 DEF NoneWrites
    <3>2. LastTransition /\ columns.noticeStage = columns.stage
      BY <1>2, <3>1 DEF LifecycleToCome
    <3>3. NewestRef("transition", Now) = columns.stage
      BY <1>3, <3>2, LastTransitionIsNewest
    <3> QED
      BY <1>1, <3>1, <3>2, <3>3 DEF Offered, OfferedForLifecycle
  <2>3. ASSUME NEW q, ToCome(q)' PROVE LifecycleToCome(q)'
    <3>1. LifecycleToCome(q)
      BY <1>2, <2>1, <2>3 DEF ToCome
    <3>2. \A n \in 0 .. Clock : n \in 0 .. Clock'
      BY <1>3, <2>1
    <3> QED
      BY <2>1, <3>1, <3>2 DEF LifecycleToCome, LastTransition, Now
  <2> QED
    BY <2>2, <2>3
<1> QED
  BY <1>1, <1>5, <1>6, <1>7, <1>8

LEMMA JoinTwoOne == \A a, b, c : <<a, b>> \o <<c>> = <<a, b, c>>
<1> TAKE a, b, c
<1>1. PICK S : S = {a, b, c}
  OBVIOUS
<1>2. <<a, b>> \in Seq(S) /\ <<c>> \in Seq(S) /\ <<a, b, c>> \in Seq(S)
  BY <1>1
<1>3. PICK s, t : s = <<a, b>> \o <<c>> /\ t = <<a, b, c>>
  OBVIOUS
<1>4. s \in Seq(S) /\ Len(s) = 3 /\ s[1] = a /\ s[2] = b /\ s[3] = c
  BY <1>2, <1>3
<1>5. t \in Seq(S) /\ Len(t) = 3 /\ t[1] = a /\ t[2] = b /\ t[3] = c
  BY <1>2, <1>3
<1>6. s = t
  BY <1>4, <1>5, SameSequence
<1> QED
  BY <1>3, <1>6

LEMMA JoinTwoTwo == \A a, b, c, d : <<a, b>> \o <<c, d>> = <<a, b, c, d>>
<1> TAKE a, b, c, d
<1>1. PICK S : S = {a, b, c, d}
  OBVIOUS
<1>2. <<a, b>> \in Seq(S) /\ <<c, d>> \in Seq(S) /\ <<a, b, c, d>> \in Seq(S)
  BY <1>1
<1>3. PICK s, t : s = <<a, b>> \o <<c, d>> /\ t = <<a, b, c, d>>
  OBVIOUS
<1>4. s \in Seq(S) /\ Len(s) = 4 /\ s[1] = a /\ s[2] = b /\ s[3] = c /\ s[4] = d
  BY <1>2, <1>3
<1>5. t \in Seq(S) /\ Len(t) = 4 /\ t[1] = a /\ t[2] = b /\ t[3] = c /\ t[4] = d
  BY <1>2, <1>3
<1>6. s = t
  BY <1>4, <1>5, SameSequence
<1> QED
  BY <1>3, <1>6

LEMMA JoinThreeOne == \A a, b, c, d : <<a, b, c>> \o <<d>> = <<a, b, c, d>>
<1> TAKE a, b, c, d
<1>1. PICK S : S = {a, b, c, d}
  OBVIOUS
<1>2. <<a, b, c>> \in Seq(S) /\ <<d>> \in Seq(S) /\ <<a, b, c, d>> \in Seq(S)
  BY <1>1
<1>3. PICK s, t : s = <<a, b, c>> \o <<d>> /\ t = <<a, b, c, d>>
  OBVIOUS
<1>4. s \in Seq(S) /\ Len(s) = 4 /\ s[1] = a /\ s[2] = b /\ s[3] = c /\ s[4] = d
  BY <1>2, <1>3
<1>5. t \in Seq(S) /\ Len(t) = 4 /\ t[1] = a /\ t[2] = b /\ t[3] = c /\ t[4] = d
  BY <1>2, <1>3
<1>6. s = t
  BY <1>4, <1>5, SameSequence
<1> QED
  BY <1>3, <1>6

LEMMA JoinFourOne == \A a, b, c, d, e : <<a, b, c, d>> \o <<e>> = <<a, b, c, d, e>>
<1> TAKE a, b, c, d, e
<1>1. PICK S : S = {a, b, c, d, e}
  OBVIOUS
<1>2. <<a, b, c, d>> \in Seq(S) /\ <<e>> \in Seq(S) /\ <<a, b, c, d, e>> \in Seq(S)
  BY <1>1
<1>3. PICK s, t : s = <<a, b, c, d>> \o <<e>> /\ t = <<a, b, c, d, e>>
  OBVIOUS
<1>4. s \in Seq(S) /\ Len(s) = 5 /\ s[1] = a /\ s[2] = b /\ s[3] = c /\ s[4] = d /\ s[5] = e
  BY <1>2, <1>3
<1>5. t \in Seq(S) /\ Len(t) = 5 /\ t[1] = a /\ t[2] = b /\ t[3] = c /\ t[4] = d /\ t[5] = e
  BY <1>2, <1>3
<1>6. s = t
  BY <1>4, <1>5, SameSequence
<1> QED
  BY <1>3, <1>6

\* The plans of the other domains that evaluate the lifecycle.
LEMMA NotificationPlans ==
    ASSUME domain = "notification", NEW s
    PROVE  /\ s # Engaged =>
                 EvaluationPlan(s) = <<StageWrite(s, Clock + 1, columns.stage), To("noticeStage", s), To("noticeRef", ByLifecycle),
                                       To("notification_selection", ByLifecycle), To("lifecycle_decision", s)>>
           /\ s = Engaged =>
                 EvaluationPlan(s) = <<StageWrite(s, Clock + 1, columns.stage), To("noticeStage", s), To("lifecycle_decision", s)>>
           /\ ReminderPlan = <<To("noticeRef", Nothing), To("notification_selection", ByUser), To("delivery", Nothing),
                               To("noticeRef", Nothing)>>
<1>1. Watched = {"stage", "noticeStage", "noticeRef", "notification_selection", "lifecycle_decision", "delivery"}
  BY DEF Watched
<1>2. PICK a, b, c, e, x, y, z, u, v :
        a = To("offerRow", 1) /\ b = ToStage(s) /\ c = To("noticeStage", s) /\ e = To("lifecycle_decision", s)
        /\ x = To("noticeRef", ByLifecycle) /\ y = To("notification_selection", ByLifecycle)
        /\ z = To("noticeRef", Nothing) /\ u = To("notification_selection", ByUser) /\ v = To("delivery", Nothing)
  OBVIOUS
<1>3. a.to = "offerRow" /\ b.to = "stage" /\ c.to = "noticeStage" /\ e.to = "lifecycle_decision" /\ x.to = "noticeRef"
      /\ y.to = "notification_selection" /\ z.to = "noticeRef" /\ u.to = "notification_selection" /\ v.to = "delivery"
  BY <1>2 DEF To, ToStage
<1>4. /\ Kept(a) = <<>> /\ Kept(b) = <<b>> /\ Kept(c) = <<c>> /\ Kept(e) = <<e>> /\ Kept(x) = <<x>> /\ Kept(y) = <<y>>
      /\ Kept(z) = <<z>> /\ Kept(u) = <<u>> /\ Kept(v) = <<v>>
  BY <1>1, <1>3 DEF Kept
<1>5. ByLifecycle # Nothing
  BY DEF ByLifecycle, Nothing
<1>6. SelectionPlan(ByLifecycle) = <<x, y>> /\ SelectionPlan(Nothing) = <<z, u>>
  <2>1. SelectionPlan(ByLifecycle) = Kept(x) \o Kept(y) /\ SelectionPlan(Nothing) = Kept(z) \o Kept(u)
    BY <1>2, <1>5, Zenon DEF SelectionPlan
  <2> QED
    BY <1>4, <2>1, JoinTwo
<1>7. /\ s # Engaged => EvaluationPlan(s) = <<b, c, x, y, e>>
      /\ s = Engaged => EvaluationPlan(s) = <<b, c, e>>
  <2>1. EvaluationPlan(s) = Kept(a) \o Kept(b) \o Kept(c) \o StageSelection(s) \o Kept(e)
    BY <1>2, Zenon DEF EvaluationPlan
  <2>2. Kept(a) \o Kept(b) = <<b>>
    BY <1>4
  <2>3. <<b>> \o Kept(c) = <<b, c>> /\ <<b, c>> \o SelectionPlan(ByLifecycle) = <<b, c, x, y>>
        /\ <<b, c, x, y>> \o Kept(e) = <<b, c, x, y, e>>
        /\ <<b, c>> \o <<>> = <<b, c>> /\ <<b, c>> \o Kept(e) = <<b, c, e>>
    BY <1>4, <1>6, JoinTwo, JoinTwoOne, JoinTwoTwo, JoinFourOne
  <2>4. /\ s # Engaged => StageSelection(s) = SelectionPlan(ByLifecycle)
        /\ s = Engaged => StageSelection(s) = <<>>
    BY DEF StageSelection
  <2> QED
    BY <2>1, <2>2, <2>3, <2>4, Zenon
<1>8. ReminderPlan = <<z, u, v, z>>
  <2>1. ReminderPlan = SelectionPlan(Nothing) \o Kept(v) \o Kept(z)
    BY <1>2, Zenon DEF ReminderPlan
  <2>2. <<z, u>> \o Kept(v) = <<z, u, v>> /\ <<z, u, v>> \o Kept(z) = <<z, u, v, z>>
    BY <1>4, JoinTwoOne, JoinThreeOne
  <2> QED
    BY <1>6, <2>1, <2>2, Zenon
<1> QED
  BY <1>2, <1>7, <1>8 DEF ToStage, StageWrite

LEMMA MonetizationPlans ==
    ASSUME domain = "monetization", NEW s
    PROVE  /\ EvaluationPlan(s) = <<To("offerRow", 1), StageWrite(s, Clock + 1, columns.stage), To("lifecycle_decision", s)>>
           /\ MonetizationPlan(s) = <<To("offerRow", 1), StageWrite(s, Clock + 1, columns.stage), To("lifecycle_decision", s),
                                      To("monetization_decision", s), To("offerStage", s)>>
<1>1. Watched = {"offerRow", "stage", "lifecycle_decision", "monetization_decision", "offerStage"}
  BY DEF Watched
<1>2. PICK a, b, c, e, x, y, f, g :
        a = To("offerRow", 1) /\ b = ToStage(s) /\ c = To("noticeStage", s) /\ e = To("lifecycle_decision", s)
        /\ x = To("noticeRef", ByLifecycle) /\ y = To("notification_selection", ByLifecycle)
        /\ f = To("monetization_decision", s) /\ g = To("offerStage", s)
  OBVIOUS
<1>3. a.to = "offerRow" /\ b.to = "stage" /\ c.to = "noticeStage" /\ e.to = "lifecycle_decision" /\ x.to = "noticeRef"
      /\ y.to = "notification_selection" /\ f.to = "monetization_decision" /\ g.to = "offerStage"
  BY <1>2 DEF To, ToStage
<1>4. /\ Kept(a) = <<a>> /\ Kept(b) = <<b>> /\ Kept(c) = <<>> /\ Kept(e) = <<e>> /\ Kept(x) = <<>> /\ Kept(y) = <<>>
      /\ Kept(f) = <<f>> /\ Kept(g) = <<g>>
  BY <1>1, <1>3 DEF Kept
<1>5. ByLifecycle # Nothing
  BY DEF ByLifecycle, Nothing
<1>6. SelectionPlan(ByLifecycle) = <<>>
  <2>1. SelectionPlan(ByLifecycle) = Kept(x) \o Kept(y)
    BY <1>2, <1>5, Zenon DEF SelectionPlan
  <2> QED
    BY <1>4, <2>1
<1>7. EvaluationPlan(s) = <<a, b, e>>
  <2>1. /\ EvaluationPlan(s) = Kept(a) \o Kept(b) \o Kept(c) \o StageSelection(s) \o Kept(e)
        /\ StageSelection(s) = <<>>
    BY <1>2, <1>6, Zenon DEF EvaluationPlan, StageSelection
  <2>2. Kept(a) \o Kept(b) = <<a, b>>
    BY <1>4, JoinTwo
  <2>3. <<a, b>> \o Kept(c) = <<a, b>> /\ <<a, b>> \o <<>> = <<a, b>>
    BY <1>4
  <2>4. <<a, b>> \o Kept(e) = <<a, b, e>>
    BY <1>4, JoinTwoOne
  <2> QED
    BY <2>1, <2>2, <2>3, <2>4, Zenon
<1>8. MonetizationPlan(s) = <<a, b, e, f, g>>
  <2>1. MonetizationPlan(s) = EvaluationPlan(s) \o Kept(f) \o Kept(g)
    BY <1>2, Zenon DEF MonetizationPlan
  <2>2. <<a, b, e>> \o Kept(f) = <<a, b, e, f>> /\ <<a, b, e, f>> \o Kept(g) = <<a, b, e, f, g>>
    BY <1>4, JoinThreeOne, JoinFourOne
  <2> QED
    BY <1>7, <2>1, <2>2, Zenon
<1> QED
  BY <1>2, <1>7, <1>8 DEF ToStage, StageWrite

\* A row that is new is a transition, a mission, its chest, or what the write names.
LEMMA RowsAfter ==
    ASSUME NEW n \in Nat, journal \in Seq(DatedEntry(n)), columns \in Columns, NEW w \in DatedWrite(n), Commits(w)
    PROVE  /\ Now \in Nat /\ Now' \in Nat
           /\ \A i \in 1 .. Now' : \/ i \in 1 .. Now /\ journal'[i] = journal[i]
                                   \/ journal'[i].kind \in {"transition", "mission", "chest"}
                                   \/ journal'[i].kind = w.to /\ journal'[i].ref = w.ref
<1>1. Now \in Nat /\ Now' \in Nat /\ \A i \in 1 .. Now : journal'[i] = journal[i]
  BY WhatIsCommitted
<1>2. w.to \in EntryKinds \cup ColumnNames
  BY DEF DatedWrite
<1> SUFFICES ASSUME NEW i \in 1 .. Now', i \notin 1 .. Now
             PROVE  \/ journal'[i].kind \in {"transition", "mission", "chest"}
                    \/ journal'[i].kind = w.to /\ journal'[i].ref = w.ref
  BY <1>1
<1>3. ASSUME Now' = Now PROVE FALSE
  BY <1>3
<1>4. ASSUME w.to \in ColumnNames \ {"stage"} PROVE FALSE
  BY <1>3, <1>4, WhatIsCommitted
<1>5. ASSUME w.to = "stage", w.seen = w.ref PROVE FALSE
  BY <1>3, <1>5, WhatIsCommitted
<1>6. CASE w.to = "stage" /\ w.seen # w.ref
  <2>1. Now' = Now + 1 /\ journal'[Now + 1] = [kind |-> "transition", ref |-> w.ref, at |-> w.at]
    BY <1>6, WhatIsCommitted
  <2>2. i = Now + 1
    BY <1>1, <2>1
  <2> QED
    BY <2>1, <2>2
<1>7. CASE w.to = "mission"
  <2>1. Now' = Now + 2 /\ journal'[Now + 1] = [kind |-> "mission", ref |-> w.ref, at |-> w.at]
        /\ journal'[Now + 2] = [kind |-> "chest", ref |-> w.ref, at |-> w.at]
    BY <1>7, WhatIsCommitted
  <2>2. i = Now + 1 \/ i = Now + 2
    BY <1>1, <2>1
  <2> QED
    BY <2>1, <2>2
<1>8. CASE w.to \in EntryKinds \ {"mission"}
  <2>1. Now' = Now + 1 /\ journal'[Now + 1] = [kind |-> w.to, ref |-> w.ref, at |-> w.at]
    BY <1>8, WhatIsCommitted
  <2>2. i = Now + 1
    BY <1>1, <2>1
  <2> QED
    BY <2>1, <2>2
<1> QED
  BY <1>2, <1>4, <1>5, <1>6, <1>7, <1>8

\* Notifications: a selection names the lifecycle's reference or the user's, a delivery none.
NoticeWrite(w) ==
    /\ w.to = "noticeRef" => w.ref \in {Nothing, ByLifecycle}
    /\ w.to = "notification_selection" => w.ref \in {ByLifecycle, ByUser}
    /\ w.to = "delivery" => w.ref = Nothing

NoticeRows ==
    domain = "notification" =>
        /\ \A c \in Traced : \A i \in 1 .. Len(tracing[c]) : NoticeWrite(tracing[c][i])
        /\ \A i \in 1 .. Now : journal[i].kind = "notification_selection" => journal[i].ref \in {ByLifecycle, ByUser}
        /\ \A i \in 1 .. Now : journal[i].kind = "delivery" => journal[i].ref = Nothing
        /\ columns.noticeRef \in {Nothing, ByLifecycle}
        /\ review.pc # "repairing"

\* What is left of an evaluation brings the two stages together.
NoticeToCome(q) ==
    \/ /\ columns.noticeStage = columns.stage
       /\ \A i \in 1 .. Len(q) : q[i].to \notin {"stage", "noticeStage"}
    \/ /\ columns.noticeStage = columns.stage
       /\ 2 <= Len(q) /\ q[1].to = "stage" /\ q[1].seen = columns.stage
       /\ q[2].to = "noticeStage" /\ q[2].ref = q[1].ref
       /\ \A i \in 3 .. Len(q) : q[i].to \notin {"stage", "noticeStage"}
    \/ /\ 1 <= Len(q) /\ q[1].to = "noticeStage" /\ q[1].ref = columns.stage
       /\ \A i \in 2 .. Len(q) : q[i].to \notin {"stage", "noticeStage"}

NoticeInv ==
    domain = "notification" /\ ~crossed => \A q : ToCome(q) => NoticeToCome(q)

LEMMA NoticePlansAre ==
    ASSUME domain = "notification", NEW p \in Plans
    PROVE  /\ \A i \in 1 .. Len(p) : NoticeWrite(p[i])
           /\ \/ \A i \in 1 .. Len(p) : p[i].to \notin {"stage", "noticeStage"}
              \/ /\ 2 <= Len(p) /\ p[1].to = "stage" /\ p[1].seen = columns.stage
                 /\ p[2].to = "noticeStage" /\ p[2].ref = p[1].ref
                 /\ \A i \in 3 .. Len(p) : p[i].to \notin {"stage", "noticeStage"}
<1>1. (\E s \in LifeStages[domain] : p = EvaluationPlan(s)) \/ p = ReminderPlan
  BY DEF Plans
<1>2. ASSUME NEW s, p = EvaluationPlan(s)
      PROVE  /\ \A i \in 1 .. Len(p) : NoticeWrite(p[i])
             /\ 2 <= Len(p) /\ p[1].to = "stage" /\ p[1].seen = columns.stage
             /\ p[2].to = "noticeStage" /\ p[2].ref = p[1].ref
             /\ \A i \in 3 .. Len(p) : p[i].to \notin {"stage", "noticeStage"}
  <2>1. PICK a, b, c, d, e :
          a = StageWrite(s, Clock + 1, columns.stage) /\ b = To("noticeStage", s) /\ c = To("noticeRef", ByLifecycle)
          /\ d = To("notification_selection", ByLifecycle) /\ e = To("lifecycle_decision", s)
    OBVIOUS
  <2>2. p = <<a, b, c, d, e>> \/ p = <<a, b, e>>
    BY <1>2, <2>1, NotificationPlans
  <2>3. /\ 2 <= Len(p) /\ Len(p) \in Nat /\ p[1] = a /\ p[2] = b
        /\ \A i \in 3 .. Len(p) : p[i] \in {c, d, e}
    <3>1. CASE p = <<a, b, c, d, e>>
      <4>1. Len(p) = 5 /\ p[1] = a /\ p[2] = b /\ p[3] = c /\ p[4] = d /\ p[5] = e
        BY <3>1
      <4>2. \A i \in 3 .. 5 : i = 3 \/ i = 4 \/ i = 5
        OBVIOUS
      <4> QED
        BY <4>1, <4>2
    <3>2. CASE p = <<a, b, e>>
      <4>1. Len(p) = 3 /\ p[1] = a /\ p[2] = b /\ p[3] = e
        BY <3>2
      <4> QED
        BY <4>1
    <3> QED
      BY <2>2, <3>1, <3>2
  <2>4. NoticeWrite(a) /\ NoticeWrite(b) /\ NoticeWrite(c) /\ NoticeWrite(d) /\ NoticeWrite(e)
    BY <2>1 DEF NoticeWrite, To, StageWrite
  <2>5. a.to = "stage" /\ a.seen = columns.stage /\ a.ref = s /\ b.to = "noticeStage" /\ b.ref = s
        /\ c.to = "noticeRef" /\ d.to = "notification_selection" /\ e.to = "lifecycle_decision"
    BY <2>1 DEF To, StageWrite
  <2>6. \A i \in 1 .. Len(p) : i = 1 \/ i = 2 \/ i \in 3 .. Len(p)
    BY <2>3
  <2>7. \A i \in 1 .. Len(p) : NoticeWrite(p[i])
    BY <2>3, <2>4, <2>6
  <2>8. \A i \in 3 .. Len(p) : p[i].to \notin {"stage", "noticeStage"}
    BY <2>3, <2>5
  <2> QED
    BY <2>3, <2>5, <2>7, <2>8
<1>3. ASSUME p = ReminderPlan
      PROVE  /\ \A i \in 1 .. Len(p) : NoticeWrite(p[i])
             /\ \A i \in 1 .. Len(p) : p[i].to \notin {"stage", "noticeStage"}
  <2>1. PICK a, b, c :
          a = To("noticeRef", Nothing) /\ b = To("notification_selection", ByUser) /\ c = To("delivery", Nothing)
    OBVIOUS
  <2>2. p = <<a, b, c, a>>
    BY <1>3, <2>1, NotificationPlans
  <2>3. Len(p) = 4 /\ p[1] = a /\ p[2] = b /\ p[3] = c /\ p[4] = a
    BY <2>2
  <2>4. NoticeWrite(a) /\ NoticeWrite(b) /\ NoticeWrite(c)
    BY <2>1 DEF NoticeWrite, To
  <2>5. a.to = "noticeRef" /\ b.to = "notification_selection" /\ c.to = "delivery"
    BY <2>1 DEF To
  <2>6. \A i \in 1 .. 4 : i = 1 \/ i = 2 \/ i = 3 \/ i = 4
    OBVIOUS
  <2> QED
    BY <2>3, <2>4, <2>5, <2>6
<1> QED
  BY <1>1, <1>2, <1>3

LEMMA NoticeAtFirst == OversightInit => NoticeRows /\ NoticeInv
<1> SUFFICES ASSUME OversightInit, domain = "notification" PROVE NoticeRows /\ NoticeInv
  BY DEF NoticeRows, NoticeInv
<1>1. journal = <<>> /\ columns = NoColumns /\ review = NoReview /\ \A c \in Traced : tracing[c] = <<>>
  BY DEF OversightInit
<1>2. columns.noticeRef = Nothing /\ columns.stage = Nothing /\ columns.noticeStage = Nothing
  BY <1>1 DEF NoColumns, ColumnNames
<1>3. review.pc # "repairing"
  BY <1>1 DEF NoReview
<1>4. Now = 0
  BY <1>1 DEF Now
<1>5. NoticeRows
  BY <1>1, <1>2, <1>3, <1>4 DEF NoticeRows
<1>6. ASSUME NEW q, ToCome(q) PROVE NoticeToCome(q)
  <2>1. q = <<>>
    BY <1>1, <1>6 DEF ToCome
  <2> QED
    BY <1>2, <2>1 DEF NoticeToCome
<1> QED
  BY <1>5, <1>6 DEF NoticeInv

LEMMA WritesAfterFirst ==
    ASSUME NEW S, NEW q \in Seq(S), q # <<>>
    PROVE  /\ Len(q) \in Nat /\ 1 <= Len(q) /\ Len(Tail(q)) = Len(q) - 1 /\ Head(q) = q[1]
           /\ \A i \in 1 .. Len(Tail(q)) : Tail(q)[i] = q[i + 1] /\ i + 1 \in 1 .. Len(q)
OBVIOUS

LEMMA NoticeRowsKept == OversightShape /\ NoticeRows /\ [OversightNext]_oversightVars => NoticeRows'
<1> SUFFICES ASSUME OversightShape, NoticeRows, [OversightNext]_oversightVars, domain' = "notification" PROVE NoticeRows'
  BY DEF NoticeRows
<1>1. domain' = domain
  BY DEF OversightNext, oversightVars, GrowOld, StartReview, EndReview, StartRepair, Repair, CheckRepair, BeginTraced,
         Trace, TracedDies
<1>2. /\ \A c \in Traced : \A i \in 1 .. Len(tracing[c]) : NoticeWrite(tracing[c][i])
      /\ \A i \in 1 .. Now : journal[i].kind = "notification_selection" => journal[i].ref \in {ByLifecycle, ByUser}
      /\ \A i \in 1 .. Now : journal[i].kind = "delivery" => journal[i].ref = Nothing
      /\ columns.noticeRef \in {Nothing, ByLifecycle}
      /\ review.pc # "repairing" /\ domain = "notification"
  BY <1>1 DEF NoticeRows
<1>3. /\ Clock \in Nat /\ journal \in Seq(DatedEntry(Clock)) /\ columns \in Columns /\ IsReview(review, Clock)
      /\ tracing \in [Traced -> Seq(DatedWrite(Clock))]
  BY BoundsAreNats DEF OversightShape, Clock
<1>4. ASSUME NEW t, tracing' = t, journal' = journal, columns' = columns, review'.pc # "repairing",
             \A c \in Traced : \A i \in 1 .. Len(t[c]) : NoticeWrite(t[c][i])
      PROVE  NoticeRows'
  BY <1>2, <1>4 DEF NoticeRows, Now
<1>5. ASSUME tracing' = tracing, journal' = journal, columns' = columns, review'.pc # "repairing"
      PROVE  NoticeRows'
  BY <1>2, <1>4, <1>5
<1>6. CASE StartReview \/ EndReview \/ CheckRepair
  <2>1. review'.pc # "repairing"
    BY <1>6, ReviewSteps
  <2>2. tracing' = tracing /\ journal' = journal /\ columns' = columns
    BY <1>6 DEF StartReview, EndReview, CheckRepair
  <2> QED
    BY <1>5, <2>1, <2>2
<1>7. CASE GrowOld \/ UNCHANGED oversightVars
  BY <1>2, <1>5, <1>7 DEF GrowOld, oversightVars
<1>8. ASSUME StartRepair PROVE FALSE
  <2>1. Offered = {}
    BY <1>2 DEF Offered
  <2> QED
    BY <1>8, <2>1 DEF StartRepair
<1>9. ASSUME Repair PROVE FALSE
  BY <1>2, <1>9 DEF Repair
<1>10. ASSUME NEW c \in Traced, BeginTraced(c) PROVE NoticeRows'
  <2>1. PICK p \in Plans : tracing' = [tracing EXCEPT ![c] = p]
    BY <1>10, Zenon DEF BeginTraced
  <2>2. journal' = journal /\ columns' = columns /\ review'.pc # "repairing"
    <3>1. journal' = journal /\ columns' = columns
      BY <1>10 DEF BeginTraced
    <3>2. review'.pc = review.pc
      BY <1>3, <1>10, RequestsOverlap, Zenon DEF BeginTraced
    <3> QED
      BY <1>2, <3>1, <3>2
  <2>3. \A i \in 1 .. Len(p) : NoticeWrite(p[i])
    BY <1>2, NoticePlansAre
  <2>4. PICK t : t = [tracing EXCEPT ![c] = p]
    OBVIOUS
  <2>5. \A o \in Traced : \A i \in 1 .. Len(t[o]) : NoticeWrite(t[o][i])
    <3>1. \A o \in Traced : t[o] = IF o = c THEN p ELSE tracing[o]
      BY <1>3, <2>4
    <3> QED
      BY <1>2, <2>3, <3>1
  <2> QED
    BY <1>4, <2>1, <2>2, <2>4, <2>5
<1>11. ASSUME NEW c \in Traced, TracedDies(c) PROVE NoticeRows'
  <2>1. PICK t : t = [tracing EXCEPT ![c] = <<>>]
    OBVIOUS
  <2>2. tracing' = t /\ journal' = journal /\ columns' = columns
    BY <1>11, <2>1 DEF TracedDies
  <2>3. review'.pc = review.pc
    BY <1>3, <1>11, RequestsOverlap, Zenon DEF TracedDies
  <2>4. \A o \in Traced : t[o] = IF o = c THEN <<>> ELSE tracing[o]
    BY <1>3, <2>1
  <2>5. \A o \in Traced : \A i \in 1 .. Len(t[o]) : NoticeWrite(t[o][i])
    BY <1>2, <2>4
  <2> QED
    BY <1>2, <1>4, <2>2, <2>3, <2>5
<1>12. ASSUME NEW c \in Traced, Trace(c) PROVE NoticeRows'
  <2>1. PICK q : q = tracing[c]
    OBVIOUS
  <2>2. PICK t : t = [tracing EXCEPT ![c] = Tail(q)]
    OBVIOUS
  <2>3. q # <<>> /\ Commits(Head(q)) /\ tracing' = t /\ q \in Seq(DatedWrite(Clock))
    BY <1>3, <1>12, <2>1, <2>2 DEF Trace, UnderWay
  <2>4. review'.pc = review.pc
    BY <1>3, <1>12, RequestsOverlap, Zenon DEF Trace
  <2>5. PICK w \in DatedWrite(Clock) : w = Head(q) /\ NoticeWrite(w)
    BY <1>2, <2>1, <2>3, TailIsSeq, WritesAfterFirst
  <2>6. Commits(w)
    BY <2>3, <2>5
  <2>7. \A o \in Traced : \A i \in 1 .. Len(t[o]) : NoticeWrite(t[o][i])
    <3>1. \A o \in Traced : t[o] = IF o = c THEN Tail(q) ELSE tracing[o]
      BY <1>3, <2>2
    <3>2. PICK r : r = Tail(q)
      OBVIOUS
    <3>3. \A i \in 1 .. Len(r) : NoticeWrite(r[i])
      BY <1>2, <2>1, <2>3, <3>2, WritesAfterFirst
    <3> QED
      BY <1>2, <3>1, <3>2, <3>3
  <2>8. columns'.noticeRef \in {Nothing, ByLifecycle}
    <3>1. columns'.noticeRef = IF w.to = "noticeRef" /\ w.ref # Nothing THEN w.ref ELSE columns.noticeRef
      BY <1>3, <2>6, ColumnsCommitted
    <3> QED
      BY <1>2, <2>5, <3>1 DEF NoticeWrite
  <2>9. /\ Now \in Nat /\ Now' \in Nat
        /\ \A i \in 1 .. Now' : \/ i \in 1 .. Now /\ journal'[i] = journal[i]
                                \/ journal'[i].kind \in {"transition", "mission", "chest"}
                                \/ journal'[i].kind = w.to /\ journal'[i].ref = w.ref
    BY <1>3, <2>6, RowsAfter
  <2>10. ASSUME NEW i \in 1 .. Now'
         PROVE  /\ journal'[i].kind = "notification_selection" => journal'[i].ref \in {ByLifecycle, ByUser}
                /\ journal'[i].kind = "delivery" => journal'[i].ref = Nothing
    <3>1. CASE i \in 1 .. Now /\ journal'[i] = journal[i]
      BY <1>2, <3>1
    <3>2. CASE journal'[i].kind \in {"transition", "mission", "chest"}
      BY <3>2
    <3>3. CASE journal'[i].kind = w.to /\ journal'[i].ref = w.ref
      BY <2>5, <3>3 DEF NoticeWrite
    <3> QED
      BY <2>9, <3>1, <3>2, <3>3
  <2>11. review'.pc # "repairing" /\ \A o \in Traced : \A i \in 1 .. Len(tracing'[o]) : NoticeWrite(tracing'[o][i])
    BY <1>2, <2>3, <2>4, <2>7
  <2> QED
    BY <2>8, <2>10, <2>11 DEF NoticeRows
<1> QED
  BY <1>6, <1>7, <1>8, <1>9, <1>10, <1>11, <1>12, Zenon DEF OversightNext

LEMMA NoticeKept ==
    OversightShape /\ Uncrossed /\ NoticeRows /\ NoticeInv /\ [OversightNext]_oversightVars => NoticeInv'
<1> SUFFICES ASSUME OversightShape, Uncrossed, NoticeRows, NoticeInv, [OversightNext]_oversightVars, ~crossed',
                    domain' = "notification", NEW x, ToCome(x)'
             PROVE  NoticeToCome(x)'
  BY DEF NoticeInv
<1>1. /\ ~crossed /\ domain = "notification"
      /\ OneBegins \/ (\E q : OneWrites(q)) \/ OneRepairs \/ NoneWrites
  BY StepsOfOne
<1>2. review.pc # "repairing" /\ \A q : ToCome(q) => NoticeToCome(q)
  BY <1>1 DEF NoticeInv, NoticeRows
<1>3. Clock \in Nat /\ journal \in Seq(DatedEntry(Clock)) /\ columns \in Columns
  BY BoundsAreNats DEF OversightShape, Clock
<1>4. CASE OneBegins
  <2>1. PICK p \in Plans : \A q : ToCome(q)' => q = p
    BY <1>4 DEF OneBegins
  <2>2. columns' = columns /\ NoticeToCome(<<>>)
    BY <1>2, <1>4 DEF OneBegins
  <2>3. columns.noticeStage = columns.stage
    BY <2>2 DEF NoticeToCome
  <2>4. \/ \A i \in 1 .. Len(p) : p[i].to \notin {"stage", "noticeStage"}
        \/ /\ 2 <= Len(p) /\ p[1].to = "stage" /\ p[1].seen = columns.stage
           /\ p[2].to = "noticeStage" /\ p[2].ref = p[1].ref
           /\ \A i \in 3 .. Len(p) : p[i].to \notin {"stage", "noticeStage"}
    BY <1>1, NoticePlansAre
  <2>5. x = p
    BY <2>1
  <2>6. columns'.noticeStage = columns'.stage /\ columns'.stage = columns.stage
    BY <2>2, <2>3
  <2> QED
    BY <2>4, <2>5, <2>6 DEF NoticeToCome
<1>5. ASSUME NEW q, OneWrites(q) PROVE NoticeToCome(x)'
  <2>1. /\ q # <<>> /\ q \in Seq(DatedWrite(Clock)) /\ Commits(Head(q)) /\ x = Tail(q)
        /\ ToCome(q)
    BY <1>5 DEF OneWrites
  <2>2. NoticeToCome(q)
    BY <1>2, <2>1
  <2>3. PICK w \in DatedWrite(Clock) : w = Head(q) /\ w = q[1]
    BY <2>1, TailIsSeq, WritesAfterFirst
  <2>4. Commits(w)
    BY <2>1, <2>3
  <2>5. /\ Len(q) \in Nat /\ 1 <= Len(q) /\ Len(x) = Len(q) - 1
        /\ \A i \in 1 .. Len(x) : x[i] = q[i + 1] /\ i + 1 \in 1 .. Len(q)
    BY <2>1, WritesAfterFirst
  <2>6. /\ w.to = "stage" /\ w.seen = columns.stage => columns'.stage = w.ref
        /\ w.to # "stage" => columns'.stage = columns.stage
        /\ columns'.noticeStage = IF w.to = "noticeStage" THEN w.ref ELSE columns.noticeStage
    BY <1>3, <2>4, ColumnsCommitted
  <2>7. CASE /\ columns.noticeStage = columns.stage
             /\ \A i \in 1 .. Len(q) : q[i].to \notin {"stage", "noticeStage"}
    <3>1. w.to # "stage" /\ w.to # "noticeStage"
      BY <2>3, <2>5, <2>7
    <3>2. columns'.noticeStage = columns'.stage
      BY <2>6, <2>7, <3>1
    <3>3. \A i \in 1 .. Len(x) : x[i].to \notin {"stage", "noticeStage"}
      BY <2>5, <2>7
    <3> QED
      BY <3>2, <3>3 DEF NoticeToCome
  <2>8. CASE /\ columns.noticeStage = columns.stage
             /\ 2 <= Len(q) /\ q[1].to = "stage" /\ q[1].seen = columns.stage
             /\ q[2].to = "noticeStage" /\ q[2].ref = q[1].ref
             /\ \A i \in 3 .. Len(q) : q[i].to \notin {"stage", "noticeStage"}
    <3>1. columns'.stage = w.ref
      BY <2>3, <2>6, <2>8
    <3>2. 1 <= Len(x) /\ x[1] = q[2]
      BY <2>5, <2>8
    <3>3. x[1].to = "noticeStage" /\ x[1].ref = columns'.stage
      BY <2>3, <2>8, <3>1, <3>2
    <3>4. \A i \in 2 .. Len(x) : x[i].to \notin {"stage", "noticeStage"}
      <4>1. \A i \in 2 .. Len(x) : i \in 1 .. Len(x) /\ i + 1 \in 3 .. Len(q)
        BY <2>5
      <4> QED
        BY <2>5, <2>8, <4>1
    <3> QED
      BY <3>2, <3>3, <3>4 DEF NoticeToCome
  <2>9. CASE /\ 1 <= Len(q) /\ q[1].to = "noticeStage" /\ q[1].ref = columns.stage
             /\ \A i \in 2 .. Len(q) : q[i].to \notin {"stage", "noticeStage"}
    <3>1. columns'.noticeStage = columns'.stage
      BY <2>3, <2>6, <2>9
    <3>2. \A i \in 1 .. Len(x) : x[i].to \notin {"stage", "noticeStage"}
      <4>1. \A i \in 1 .. Len(x) : i + 1 \in 2 .. Len(q)
        BY <2>5
      <4> QED
        BY <2>5, <2>9, <4>1
    <3> QED
      BY <3>1, <3>2 DEF NoticeToCome
  <2> QED
    BY <2>2, <2>7, <2>8, <2>9 DEF NoticeToCome
<1>6. ASSUME OneRepairs PROVE FALSE
  BY <1>2, <1>6 DEF OneRepairs
<1>7. CASE NoneWrites
  <2>1. columns' = columns /\ tracing' = tracing
    BY <1>7 DEF NoneWrites
  <2>2. NoticeToCome(x)
    BY <1>2, <2>1 DEF ToCome
  <2> QED
    BY <2>1, <2>2 DEF NoticeToCome
<1> QED
  BY <1>1, <1>4, <1>5, <1>6, <1>7

\* Monetization: every decision has an evaluation of the lifecycle before it.
DecidedInTurn ==
    \A j \in 1 .. Now : journal[j].kind = "monetization_decision" =>
        \E i \in 1 .. Now : i < j /\ journal[i].kind = "lifecycle_decision"

UndatedDecisions ==
    \A j \in 1 .. Now : journal[j].kind = "lifecycle_decision" => journal[j].at = 0

\* One that comes after it is why the stage of the offers may differ from the lifecycle's.
EvaluatedSince ==
    \A j \in 1 .. Now : journal[j].kind = "monetization_decision" =>
        \E i \in 1 .. Now : j < i /\ journal[i].kind = "lifecycle_decision"

\* The last evaluation chose the stage of the row.
LastDecision ==
    \E k \in 1 .. Now :
        /\ journal[k].kind = "lifecycle_decision" /\ journal[k].ref = columns.stage
        /\ \A j \in 1 .. Now : journal[j].kind = "lifecycle_decision" => j <= k

OffersSettled == EvaluatedSince \/ (LastDecision /\ columns.offerStage = columns.stage /\ columns.stage # Nothing)

MonetizationToCome(q) ==
    /\ DecidedInTurn /\ UndatedDecisions
    /\ \/ q = <<>> /\ OffersSettled
       \/ /\ OffersSettled
          /\ \E s \in Nat \ {0}, n \in Nat :
               \/ q = <<To("offerRow", 1), StageWrite(s, n, columns.stage), To("lifecycle_decision", s)>>
               \/ q = <<To("offerRow", 1), StageWrite(s, n, columns.stage), To("lifecycle_decision", s),
                        To("monetization_decision", s), To("offerStage", s)>>
               \/ q = <<StageWrite(s, n, columns.stage), To("lifecycle_decision", s)>>
               \/ q = <<StageWrite(s, n, columns.stage), To("lifecycle_decision", s),
                        To("monetization_decision", s), To("offerStage", s)>>
       \/ /\ columns.stage # Nothing
          /\ \/ q = <<To("lifecycle_decision", columns.stage)>>
             \/ q = <<To("lifecycle_decision", columns.stage), To("monetization_decision", columns.stage),
                      To("offerStage", columns.stage)>>
       \/ /\ columns.stage # Nothing /\ LastDecision
          /\ \/ q = <<To("monetization_decision", columns.stage), To("offerStage", columns.stage)>>
             \/ q = <<To("offerStage", columns.stage)>>

MonetizationInv ==
    domain = "monetization" /\ ~crossed =>
        /\ \A q : ToCome(q) => MonetizationToCome(q)
        /\ review.pc = "repairing" =>
             EvaluatedSince /\ (review.plan = <<>> \/ \E s : review.plan = <<To("offerStage", s)>>)

LEMMA MonetizationAtFirst == OversightInit => MonetizationInv
<1> SUFFICES ASSUME OversightInit, domain = "monetization" PROVE MonetizationInv
  BY DEF MonetizationInv
<1>1. journal = <<>> /\ review = NoReview /\ \A c \in Traced : tracing[c] = <<>>
  BY DEF OversightInit
<1>2. Now = 0 /\ review.pc # "repairing"
  BY <1>1 DEF Now, NoReview
<1>3. EvaluatedSince /\ DecidedInTurn /\ UndatedDecisions
  BY <1>2 DEF EvaluatedSince, DecidedInTurn, UndatedDecisions
<1>4. ASSUME NEW q, ToCome(q) PROVE MonetizationToCome(q)
  <2>1. q = <<>>
    BY <1>1, <1>4 DEF ToCome
  <2> QED
    BY <1>3, <2>1 DEF MonetizationToCome, OffersSettled
<1> QED
  BY <1>2, <1>4 DEF MonetizationInv

LEMMA MonetizationWrites ==
    ASSUME NEW n \in Nat, journal \in Seq(DatedEntry(n)), columns \in Columns, NEW w \in DatedWrite(n), Commits(w),
           DecidedInTurn, UndatedDecisions
    PROVE  /\ w.to \in ColumnNames => DecidedInTurn' /\ UndatedDecisions' /\ (EvaluatedSince => EvaluatedSince')
           /\ w.to \in ColumnNames \ {"stage"} /\ LastDecision => LastDecision'
           /\ w.to = "lifecycle_decision" /\ w.at = 0 /\ w.ref = columns.stage =>
                DecidedInTurn' /\ UndatedDecisions' /\ LastDecision' /\ EvaluatedSince'
           /\ w.to = "monetization_decision" /\ LastDecision => DecidedInTurn' /\ UndatedDecisions' /\ LastDecision'
<1>1. Now \in Nat /\ Now' \in Nat /\ Now <= Now' /\ \A i \in 1 .. Now : journal'[i] = journal[i] /\ i \in 1 .. Now'
  <2>1. Now \in Nat /\ Now' \in Nat /\ Now <= Now' /\ \A i \in 1 .. Now : journal'[i] = journal[i]
    BY WhatIsCommitted
  <2> QED
    BY <2>1
<1>2. /\ \A j \in 1 .. Now : journal[j].kind = "monetization_decision" =>
           \E i \in 1 .. Now : i < j /\ journal[i].kind = "lifecycle_decision"
      /\ \A j \in 1 .. Now : journal[j].kind = "lifecycle_decision" => journal[j].at = 0
  BY DEF DecidedInTurn, UndatedDecisions
<1>3. ASSUME w.to \in ColumnNames
      PROVE  \A j \in 1 .. Now' : journal'[j].kind \in {"monetization_decision", "lifecycle_decision"} => j \in 1 .. Now
  <2>1. w.to \notin {"monetization_decision", "lifecycle_decision"}
    BY <1>3, KindsAndColumns
  <2> QED
    BY <2>1, RowsAfter
<1>4. ASSUME w.to \in ColumnNames PROVE DecidedInTurn' /\ UndatedDecisions' /\ (EvaluatedSince => EvaluatedSince')
  <2>1. DecidedInTurn'
    BY <1>1, <1>2, <1>3, <1>4 DEF DecidedInTurn
  <2>2. UndatedDecisions'
    BY <1>1, <1>2, <1>3, <1>4 DEF UndatedDecisions
  <2>3. ASSUME EvaluatedSince PROVE EvaluatedSince'
    BY <1>1, <1>3, <1>4, <2>3 DEF EvaluatedSince
  <2> QED
    BY <2>1, <2>2, <2>3
<1>5. ASSUME w.to \in ColumnNames \ {"stage"}, LastDecision PROVE LastDecision'
  <2>1. columns'.stage = columns.stage
    BY <1>5, ColumnsCommitted
  <2> QED
    BY <1>1, <1>3, <1>5, <2>1 DEF LastDecision
<1>6. ASSUME w.to = "lifecycle_decision", w.at = 0, w.ref = columns.stage
      PROVE  DecidedInTurn' /\ UndatedDecisions' /\ LastDecision' /\ EvaluatedSince'
  <2>1. w.to \in EntryKinds \ {"mission"}
    BY <1>6, KindsAndColumns
  <2>2. Now' = Now + 1 /\ journal'[Now + 1] = [kind |-> "lifecycle_decision", ref |-> w.ref, at |-> w.at]
    BY <1>6, <2>1, WhatIsCommitted
  <2>3. /\ Now + 1 \in 1 .. Now' /\ journal'[Now + 1].kind = "lifecycle_decision" /\ journal'[Now + 1].at = 0
        /\ journal'[Now + 1].ref = columns.stage /\ columns'.stage = columns.stage
    BY <1>1, <1>6, <2>2, ColumnsCommitted
  <2>4. \A j \in 1 .. Now' : (j \in 1 .. Now \/ j = Now + 1) /\ j <= Now + 1
    BY <1>1, <2>2
  <2>5. DecidedInTurn'
    <3> SUFFICES ASSUME NEW j \in 1 .. Now', journal'[j].kind = "monetization_decision"
                 PROVE  \E i \in 1 .. Now' : i < j /\ journal'[i].kind = "lifecycle_decision"
      BY DEF DecidedInTurn
    <3>1. j \in 1 .. Now
      BY <2>3, <2>4
    <3> QED
      BY <1>1, <1>2, <3>1
  <2>6. UndatedDecisions'
    BY <1>1, <1>2, <2>3, <2>4 DEF UndatedDecisions
  <2>7. LastDecision'
    BY <2>3, <2>4, <2>2 DEF LastDecision
  <2>8. EvaluatedSince'
    <3> SUFFICES ASSUME NEW j \in 1 .. Now', journal'[j].kind = "monetization_decision"
                 PROVE  \E i \in 1 .. Now' : j < i /\ journal'[i].kind = "lifecycle_decision"
      BY DEF EvaluatedSince
    <3>1. j \in 1 .. Now
      BY <2>3, <2>4
    <3>2. j < Now + 1
      BY <1>1, <3>1
    <3> QED
      BY <2>3, <3>2
  <2> QED
    BY <2>5, <2>6, <2>7, <2>8
<1>7. ASSUME w.to = "monetization_decision", LastDecision PROVE DecidedInTurn' /\ UndatedDecisions' /\ LastDecision'
  <2>1. w.to \in EntryKinds \ {"mission"}
    BY <1>7, KindsAndColumns
  <2>2. Now' = Now + 1 /\ journal'[Now + 1] = [kind |-> "monetization_decision", ref |-> w.ref, at |-> w.at]
    BY <1>7, <2>1, WhatIsCommitted
  <2>3. journal'[Now + 1].kind = "monetization_decision" /\ columns'.stage = columns.stage
    BY <1>7, <2>2, ColumnsCommitted
  <2>4. \A j \in 1 .. Now' : j \in 1 .. Now \/ j = Now + 1
    BY <1>1, <2>2
  <2>5. \A j \in 1 .. Now' : journal'[j].kind = "lifecycle_decision" => j \in 1 .. Now
    BY <2>3, <2>4
  <2>6. PICK k \in 1 .. Now :
          /\ journal[k].kind = "lifecycle_decision" /\ journal[k].ref = columns.stage
          /\ \A j \in 1 .. Now : journal[j].kind = "lifecycle_decision" => j <= k
    BY <1>7 DEF LastDecision
  <2>7. DecidedInTurn'
    <3> SUFFICES ASSUME NEW j \in 1 .. Now', journal'[j].kind = "monetization_decision"
                 PROVE  \E i \in 1 .. Now' : i < j /\ journal'[i].kind = "lifecycle_decision"
      BY DEF DecidedInTurn
    <3>1. CASE j \in 1 .. Now
      BY <1>1, <1>2, <3>1
    <3>2. CASE j = Now + 1
      <4>1. k < j /\ k \in 1 .. Now' /\ journal'[k].kind = "lifecycle_decision"
        BY <1>1, <2>6, <3>2
      <4> QED
        BY <4>1
    <3> QED
      BY <2>4, <3>1, <3>2
  <2>8. UndatedDecisions'
    BY <1>1, <1>2, <2>5 DEF UndatedDecisions
  <2>9. LastDecision'
    BY <1>1, <2>3, <2>5, <2>6 DEF LastDecision
  <2> QED
    BY <2>7, <2>8, <2>9
<1> QED
  BY <1>4, <1>5, <1>6, <1>7

LEMMA MonetizationWritten ==
    ASSUME NEW n \in Nat, journal \in Seq(DatedEntry(n)), columns \in Columns, NEW q \in Seq(DatedWrite(n)), q # <<>>,
           Commits(Head(q)), MonetizationToCome(q)
    PROVE  MonetizationToCome(Tail(q))'
<1>1. PICK w \in DatedWrite(n) : w = Head(q)
  BY TailIsSeq
<1>2. PICK x : x = Tail(q)
  OBVIOUS
<1>3. /\ Commits(w) /\ DecidedInTurn /\ UndatedDecisions
  BY <1>1 DEF MonetizationToCome
<1>4. /\ w.to = "stage" /\ w.seen = columns.stage => columns'.stage = w.ref
      /\ w.to # "stage" => columns'.stage = columns.stage
      /\ columns'.offerStage = IF w.to = "offerStage" THEN w.ref ELSE columns.offerStage
  BY <1>3, ColumnsCommitted
<1>5. /\ w.to \in ColumnNames => DecidedInTurn' /\ UndatedDecisions' /\ (EvaluatedSince => EvaluatedSince')
      /\ w.to \in ColumnNames \ {"stage"} /\ LastDecision => LastDecision'
      /\ w.to = "lifecycle_decision" /\ w.at = 0 /\ w.ref = columns.stage =>
           DecidedInTurn' /\ UndatedDecisions' /\ LastDecision' /\ EvaluatedSince'
      /\ w.to = "monetization_decision" /\ LastDecision => DecidedInTurn' /\ UndatedDecisions' /\ LastDecision'
  BY <1>3, MonetizationWrites
<1>6. \A t, r : To(t, r).to = t /\ To(t, r).ref = r /\ To(t, r).at = 0
  BY DEF To
<1>7. \A s, m, was : StageWrite(s, m, was).to = "stage" /\ StageWrite(s, m, was).ref = s /\ StageWrite(s, m, was).seen = was
  BY DEF StageWrite
<1>8. "stage" \in ColumnNames /\ "offerRow" \in ColumnNames \ {"stage"} /\ "offerStage" \in ColumnNames \ {"stage"}
  BY KindsAndColumns
<1>9. SUFFICES MonetizationToCome(x)'
  BY <1>2
<1>10. ASSUME OffersSettled, w = To("offerRow", 1), NEW s \in Nat \ {0}, NEW m \in Nat,
              \/ x = <<StageWrite(s, m, columns.stage), To("lifecycle_decision", s)>>
              \/ x = <<StageWrite(s, m, columns.stage), To("lifecycle_decision", s),
                       To("monetization_decision", s), To("offerStage", s)>>
       PROVE  MonetizationToCome(x)'
  <2>1. w.to = "offerRow" /\ w.to \in ColumnNames \ {"stage"}
    BY <1>6, <1>8, <1>10
  <2>2. columns'.stage = columns.stage /\ columns'.offerStage = columns.offerStage
    BY <1>4, <2>1
  <2>3. DecidedInTurn' /\ UndatedDecisions' /\ OffersSettled'
    BY <1>5, <1>10, <2>1, <2>2 DEF OffersSettled
  <2> QED
    BY <1>10, <2>2, <2>3, Zenon DEF MonetizationToCome
<1>11. ASSUME NEW s \in Nat \ {0}, NEW m \in Nat, w = StageWrite(s, m, columns.stage),
              \/ x = <<To("lifecycle_decision", s)>>
              \/ x = <<To("lifecycle_decision", s), To("monetization_decision", s), To("offerStage", s)>>
       PROVE  MonetizationToCome(x)'
  <2>1. w.to = "stage" /\ w.seen = columns.stage /\ w.ref = s
    BY <1>7, <1>11
  <2>2. columns'.stage = s /\ columns'.stage # Nothing
    BY <1>4, <2>1 DEF Nothing
  <2>3. DecidedInTurn' /\ UndatedDecisions'
    BY <1>5, <1>8, <2>1
  <2> QED
    BY <1>11, <2>2, <2>3, Zenon DEF MonetizationToCome
<1>12. ASSUME columns.stage # Nothing, w = To("lifecycle_decision", columns.stage),
              \/ x = <<>>
              \/ x = <<To("monetization_decision", columns.stage), To("offerStage", columns.stage)>>
       PROVE  MonetizationToCome(x)'
  <2>1. w.to = "lifecycle_decision" /\ w.at = 0 /\ w.ref = columns.stage
    BY <1>6, <1>12
  <2>2. columns'.stage = columns.stage
    BY <1>4, <2>1
  <2>3. DecidedInTurn' /\ UndatedDecisions' /\ LastDecision' /\ EvaluatedSince'
    BY <1>5, <2>1
  <2> QED
    BY <1>12, <2>2, <2>3, Zenon DEF MonetizationToCome, OffersSettled
<1>13. ASSUME columns.stage # Nothing, LastDecision, w = To("monetization_decision", columns.stage),
              x = <<To("offerStage", columns.stage)>>
       PROVE  MonetizationToCome(x)'
  <2>1. w.to = "monetization_decision"
    BY <1>6, <1>13
  <2>2. columns'.stage = columns.stage
    BY <1>4, <2>1
  <2>3. DecidedInTurn' /\ UndatedDecisions' /\ LastDecision'
    BY <1>5, <1>13, <2>1
  <2> QED
    BY <1>13, <2>2, <2>3, Zenon DEF MonetizationToCome
<1>14. ASSUME columns.stage # Nothing, LastDecision, w = To("offerStage", columns.stage), x = <<>>
       PROVE  MonetizationToCome(x)'
  <2>1. w.to = "offerStage" /\ w.to \in ColumnNames \ {"stage"} /\ w.ref = columns.stage
    BY <1>6, <1>8, <1>14
  <2>2. columns'.stage = columns.stage /\ columns'.offerStage = columns.stage
    BY <1>4, <2>1
  <2>3. DecidedInTurn' /\ UndatedDecisions' /\ LastDecision'
    BY <1>5, <1>14, <2>1
  <2> QED
    BY <1>14, <2>2, <2>3, Zenon DEF MonetizationToCome, OffersSettled
<1>15. ASSUME OffersSettled, NEW s \in Nat \ {0}, NEW m \in Nat,
              \/ q = <<To("offerRow", 1), StageWrite(s, m, columns.stage), To("lifecycle_decision", s)>>
              \/ q = <<To("offerRow", 1), StageWrite(s, m, columns.stage), To("lifecycle_decision", s),
                       To("monetization_decision", s), To("offerStage", s)>>
              \/ q = <<StageWrite(s, m, columns.stage), To("lifecycle_decision", s)>>
              \/ q = <<StageWrite(s, m, columns.stage), To("lifecycle_decision", s),
                       To("monetization_decision", s), To("offerStage", s)>>
       PROVE  MonetizationToCome(x)'
  <2>1. PICK a, b, c, d, e :
          a = To("offerRow", 1) /\ b = StageWrite(s, m, columns.stage) /\ c = To("lifecycle_decision", s)
          /\ d = To("monetization_decision", s) /\ e = To("offerStage", s)
    OBVIOUS
  <2>2. q = <<a, b, c>> \/ q = <<a, b, c, d, e>> \/ q = <<b, c>> \/ q = <<b, c, d, e>>
    BY <1>15, <2>1
  <2>3. \/ w = a /\ (x = <<b, c>> \/ x = <<b, c, d, e>>)
        \/ w = b /\ (x = <<c>> \/ x = <<c, d, e>>)
    <3>1. ASSUME q = <<a, b, c>> PROVE w = a /\ x = <<b, c>>
      <4>1. Head(q) = a /\ Tail(q) = <<b, c>>
        BY <3>1, HeadsAndTails
      <4> QED
        BY <1>1, <1>2, <4>1
    <3>2. ASSUME q = <<a, b, c, d, e>> PROVE w = a /\ x = <<b, c, d, e>>
      <4>1. Head(q) = a /\ Tail(q) = <<b, c, d, e>>
        BY <3>2, HeadsAndTails
      <4> QED
        BY <1>1, <1>2, <4>1
    <3>3. ASSUME q = <<b, c>> PROVE w = b /\ x = <<c>>
      <4>1. Head(q) = b /\ Tail(q) = <<c>>
        BY <3>3, HeadsAndTails
      <4> QED
        BY <1>1, <1>2, <4>1
    <3>4. ASSUME q = <<b, c, d, e>> PROVE w = b /\ x = <<c, d, e>>
      <4>1. Head(q) = b /\ Tail(q) = <<c, d, e>>
        BY <3>4, HeadsAndTails
      <4> QED
        BY <1>1, <1>2, <4>1
    <3> QED
      BY <2>2, <3>1, <3>2, <3>3, <3>4, Zenon
  <2> QED
    BY <1>10, <1>11, <1>15, <2>1, <2>3
<1>16. ASSUME columns.stage # Nothing,
              \/ q = <<To("lifecycle_decision", columns.stage)>>
              \/ q = <<To("lifecycle_decision", columns.stage), To("monetization_decision", columns.stage),
                       To("offerStage", columns.stage)>>
       PROVE  MonetizationToCome(x)'
  <2>1. PICK c, d, e :
          c = To("lifecycle_decision", columns.stage) /\ d = To("monetization_decision", columns.stage)
          /\ e = To("offerStage", columns.stage)
    OBVIOUS
  <2>2. q = <<c>> \/ q = <<c, d, e>>
    BY <1>16, <2>1
  <2>3. w = c /\ (x = <<>> \/ x = <<d, e>>)
    <3>1. ASSUME q = <<c>> PROVE w = c /\ x = <<>>
      <4>1. Head(q) = c /\ Tail(q) = <<>>
        BY <3>1, HeadsAndTails
      <4> QED
        BY <1>1, <1>2, <4>1
    <3>2. ASSUME q = <<c, d, e>> PROVE w = c /\ x = <<d, e>>
      <4>1. Head(q) = c /\ Tail(q) = <<d, e>>
        BY <3>2, HeadsAndTails
      <4> QED
        BY <1>1, <1>2, <4>1
    <3> QED
      BY <2>2, <3>1, <3>2, Zenon
  <2> QED
    BY <1>12, <1>16, <2>1, <2>3
<1>17. ASSUME columns.stage # Nothing, LastDecision,
              \/ q = <<To("monetization_decision", columns.stage), To("offerStage", columns.stage)>>
              \/ q = <<To("offerStage", columns.stage)>>
       PROVE  MonetizationToCome(x)'
  <2>1. PICK d, e : d = To("monetization_decision", columns.stage) /\ e = To("offerStage", columns.stage)
    OBVIOUS
  <2>2. q = <<d, e>> \/ q = <<e>>
    BY <1>17, <2>1
  <2>3. (w = d /\ x = <<e>>) \/ (w = e /\ x = <<>>)
    <3>1. ASSUME q = <<d, e>> PROVE w = d /\ x = <<e>>
      <4>1. Head(q) = d /\ Tail(q) = <<e>>
        BY <3>1, HeadsAndTails
      <4> QED
        BY <1>1, <1>2, <4>1
    <3>2. ASSUME q = <<e>> PROVE w = e /\ x = <<>>
      <4>1. Head(q) = e /\ Tail(q) = <<>>
        BY <3>2, HeadsAndTails
      <4> QED
        BY <1>1, <1>2, <4>1
    <3> QED
      BY <2>2, <3>1, <3>2
  <2> QED
    BY <1>13, <1>14, <1>17, <2>1, <2>3
<1> QED
  BY <1>15, <1>16, <1>17, Zenon DEF MonetizationToCome

LEMMA MonetizationKept ==
    OversightShape /\ Uncrossed /\ MonetizationInv /\ [OversightNext]_oversightVars => MonetizationInv'
<1> SUFFICES ASSUME OversightShape, Uncrossed, MonetizationInv, [OversightNext]_oversightVars, ~crossed',
                    domain' = "monetization"
             PROVE  /\ \A q : ToCome(q)' => MonetizationToCome(q)'
                    /\ review'.pc = "repairing" =>
                         EvaluatedSince' /\ (review'.plan = <<>> \/ \E s : review'.plan = <<To("offerStage", s)>>)
  BY DEF MonetizationInv
<1>1. /\ ~crossed /\ domain = "monetization"
      /\ OneBegins \/ (\E q : OneWrites(q)) \/ OneRepairs \/ NoneWrites
  BY StepsOfOne
<1>2. /\ \A q : ToCome(q) => MonetizationToCome(q)
      /\ review.pc = "repairing" =>
           EvaluatedSince /\ (review.plan = <<>> \/ \E s : review.plan = <<To("offerStage", s)>>)
  BY <1>1 DEF MonetizationInv
<1>3. Clock \in Nat /\ journal \in Seq(DatedEntry(Clock)) /\ columns \in Columns /\ IsReview(review, Clock)
  BY BoundsAreNats DEF OversightShape, Clock
<1>4. CASE OneBegins
  <2>1. PICK p \in Plans : \A q : ToCome(q)' => q = p
    BY <1>4 DEF OneBegins
  <2>2. review'.pc # "repairing" /\ journal' = journal /\ columns' = columns /\ MonetizationToCome(<<>>)
    BY <1>2, <1>4 DEF OneBegins
  <2>3. PICK s \in LifeStages[domain] : p = EvaluationPlan(s) \/ p = MonetizationPlan(s)
    BY <1>1, <2>1 DEF Plans
  <2>4. s \in Nat \ {0} /\ Clock + 1 \in Nat
    BY <1>1, <1>3, OversightAssumption
  <2>5. \/ p = <<To("offerRow", 1), StageWrite(s, Clock + 1, columns'.stage), To("lifecycle_decision", s)>>
        \/ p = <<To("offerRow", 1), StageWrite(s, Clock + 1, columns'.stage), To("lifecycle_decision", s),
                 To("monetization_decision", s), To("offerStage", s)>>
    BY <1>1, <2>2, <2>3, MonetizationPlans
  <2>6. OffersSettled /\ DecidedInTurn /\ UndatedDecisions
    <3>1. <<>> # <<To("offerStage", columns.stage)>> /\ <<>> # <<To("lifecycle_decision", columns.stage)>>
          /\ <<>> # <<To("monetization_decision", columns.stage), To("offerStage", columns.stage)>>
          /\ <<>> # <<To("lifecycle_decision", columns.stage), To("monetization_decision", columns.stage),
                      To("offerStage", columns.stage)>>
      OBVIOUS
    <3> QED
      BY <2>2, <3>1 DEF MonetizationToCome
  <2>7. OffersSettled' /\ DecidedInTurn' /\ UndatedDecisions'
    BY <2>2, <2>6
       DEF OffersSettled, DecidedInTurn, UndatedDecisions, EvaluatedSince, LastDecision, Now
  <2>8. MonetizationToCome(p)'
    BY <2>4, <2>5, <2>7, Zenon DEF MonetizationToCome
  <2> QED
    BY <2>1, <2>2, <2>8, Zenon
<1>5. ASSUME NEW q, OneWrites(q)
      PROVE  review'.pc # "repairing" /\ \A x : ToCome(x)' => MonetizationToCome(x)'
  <2>1. /\ review'.pc # "repairing" /\ q # <<>> /\ q \in Seq(DatedWrite(Clock)) /\ Commits(Head(q)) /\ ToCome(q)
        /\ \A x : ToCome(x)' => x = Tail(q)
    BY <1>5 DEF OneWrites
  <2>2. MonetizationToCome(Tail(q))'
    BY <1>2, <1>3, <2>1, MonetizationWritten
  <2> QED
    BY <2>1, <2>2, Zenon
<1>6. CASE OneRepairs
  <2>1. /\ ToCome(<<>>) /\ tracing' = tracing /\ review.pc = "repairing" /\ review.plan # <<>>
        /\ review'.plan = Tail(review.plan) /\ Commits(Repairing(Head(review.plan)))
    BY <1>6 DEF OneRepairs
  <2>2. EvaluatedSince /\ MonetizationToCome(<<>>)
    BY <1>2, <2>1
  <2>3. PICK s : review.plan = <<To("offerStage", s)>>
    BY <1>2, <2>1
  <2>4. PICK w : w = To("offerStage", s)
    OBVIOUS
  <2>5. Head(review.plan) = w /\ review'.plan = <<>>
    BY <2>1, <2>3, <2>4, HeadsAndTails
  <2>6. w.to = "offerStage" /\ w.to \in ColumnNames
    BY <2>4, KindsAndColumns DEF To
  <2>7. Commits(w)
    BY <2>1, <2>5, <2>6 DEF Repairing
  <2>8. w \in DatedWrite(Clock)
    <3>1. review.plan \in Seq(DatedWrite(Clock))
      BY <1>3, ReviewKeepsShape
    <3> QED
      BY <2>1, <2>5, <3>1, TailIsSeq
  <2>9. DecidedInTurn' /\ UndatedDecisions' /\ EvaluatedSince'
    BY <1>3, <2>2, <2>6, <2>7, <2>8, MonetizationWrites DEF MonetizationToCome
  <2>10. ASSUME NEW q, ToCome(q)' PROVE MonetizationToCome(q)'
    <3>1. q = <<>>
      BY <2>1, <2>10 DEF ToCome
    <3> QED
      BY <2>9, <3>1 DEF MonetizationToCome, OffersSettled
  <2> QED
    BY <2>5, <2>9, <2>10
<1>7. CASE NoneWrites
  <2>1. journal' = journal /\ columns' = columns /\ tracing' = tracing
    BY <1>7 DEF NoneWrites
  <2>2. ASSUME NEW q, ToCome(q)' PROVE MonetizationToCome(q)'
    <3>1. MonetizationToCome(q)
      BY <1>2, <2>1, <2>2 DEF ToCome
    <3> QED
      BY <2>1, <3>1
         DEF MonetizationToCome, OffersSettled, DecidedInTurn, UndatedDecisions, EvaluatedSince, LastDecision, Now
  <2>3. EvaluatedSince => EvaluatedSince'
    BY <2>1 DEF EvaluatedSince, Now
  <2>4. ASSUME ToCome(<<>>), NEW a \in Offered, NEW p \in RepairPlans(a)
        PROVE  EvaluatedSince /\ \E s : p = <<To("offerStage", s)>>
    <3>1. a = "monetization_state" /\ columns.offerStage # columns.stage
      BY <1>1, <2>4 DEF Offered, OfferedForMonetization
    <3>2. p = <<To("offerStage", columns.stage)>>
      BY <2>4, <3>1 DEF RepairPlans
    <3>3. MonetizationToCome(<<>>)
      BY <1>2, <2>4
    <3>4. OffersSettled
      <4>1. <<>> # <<To("offerStage", columns.stage)>> /\ <<>> # <<To("lifecycle_decision", columns.stage)>>
            /\ <<>> # <<To("monetization_decision", columns.stage), To("offerStage", columns.stage)>>
            /\ <<>> # <<To("lifecycle_decision", columns.stage), To("monetization_decision", columns.stage),
                        To("offerStage", columns.stage)>>
        OBVIOUS
      <4> QED
        BY <3>3, <4>1 DEF MonetizationToCome
    <3> QED
      BY <3>1, <3>2, <3>4 DEF OffersSettled
  <2> QED
    BY <1>2, <1>7, <2>2, <2>3, <2>4 DEF NoneWrites
<1> QED
  BY <1>1, <1>4, <1>5, <1>6, <1>7

\* Sessions: whatever names a session was written after its row, and no number is left out.
SessionOf(r) == \E i \in 1 .. Now : journal[i].kind = "session" /\ journal[i].ref = r

SessionWrite(w) ==
    /\ w.to \in {"session", "attempt", "session_evaluation", "rejection"}
    /\ w.to = "session" => \A x \in 1 .. (w.ref - 1) : SessionOf(x)
    /\ w.to \in {"attempt", "session_evaluation"} => SessionOf(w.ref)

SessionsKnown ==
    \A j \in 1 .. Now, r \in Nat : journal[j].ref = r =>
        /\ journal[j].kind \in {"attempt", "session_evaluation"} => SessionOf(r)
        /\ journal[j].kind = "session" => \A x \in 1 .. r : SessionOf(x)

SessionInv ==
    domain = "session" /\ ~crossed =>
        /\ SessionsKnown
        /\ \A q : ToCome(q) => \A i \in 1 .. Len(q) : SessionWrite(q[i])
        /\ review.pc = "repairing" => review.plan = <<>>

LEMMA SessionAtFirst == OversightInit => SessionInv
<1> SUFFICES ASSUME OversightInit, domain = "session" PROVE SessionInv
  BY DEF SessionInv
<1>1. journal = <<>> /\ review = NoReview /\ \A c \in Traced : tracing[c] = <<>>
  BY DEF OversightInit
<1>2. Now = 0 /\ review.pc # "repairing"
  BY <1>1 DEF Now, NoReview
<1>3. \A q : ToCome(q) => q = <<>>
  BY <1>1 DEF ToCome
<1>4. \A q : ToCome(q) => \A i \in 1 .. Len(q) : SessionWrite(q[i])
  BY <1>3
<1> QED
  BY <1>2, <1>4 DEF SessionInv, SessionsKnown

LEMMA SessionPlansAre ==
    ASSUME Clock \in Nat, journal \in Seq(DatedEntry(Clock)), NEW p \in SessionPlans, SessionsKnown
    PROVE  \A i \in 1 .. Len(p) : SessionWrite(p[i])
<1>1. PICK m : m = NewestRef("session", Now) /\ m \in Nat
  BY NewestRefIsNat
<1>2. \A x \in 1 .. m : SessionOf(x)
  <2>1. CASE RowsOf("session", Now) = {}
    <3>1. m = 0
      BY <1>1, <2>1 DEF NewestRef, Nothing
    <3> QED
      BY <3>1
  <2>2. CASE RowsOf("session", Now) # {}
    <3>1. Now \in Nat
      BY RowsAreDated
    <3>2. PICK k : k = Newest(RowsOf("session", Now)) /\ k \in RowsOf("session", Now)
      BY <2>2, <3>1, NewestIs, RowsAreRows
    <3>3. m = journal[k].ref /\ k \in 1 .. Now /\ journal[k].kind = "session"
      BY <1>1, <2>2, <3>2 DEF NewestRef, RowsOf
    <3> QED
      BY <1>1, <3>3 DEF SessionsKnown
  <2> QED
    BY <2>1, <2>2
<1>3. ASSUME NEW r \in Nat, p = <<To("session", r)>>, \A x \in 1 .. (r - 1) : SessionOf(x)
      PROVE  \A i \in 1 .. Len(p) : SessionWrite(p[i])
  <2>1. PICK w : w = To("session", r)
    OBVIOUS
  <2>2. Len(p) = 1 /\ p[1] = w
    BY <1>3, <2>1
  <2>3. w.to = "session" /\ w.ref = r
    BY <2>1 DEF To
  <2>4. SessionWrite(w)
    BY <1>3, <2>3 DEF SessionWrite
  <2> QED
    BY <2>2, <2>4
<1>4. ASSUME NEW r \in 1 .. m, p = <<To("attempt", r), To("session_evaluation", r)>>
      PROVE  \A i \in 1 .. Len(p) : SessionWrite(p[i])
  <2>1. PICK w, v : w = To("attempt", r) /\ v = To("session_evaluation", r)
    OBVIOUS
  <2>2. Len(p) = 2 /\ p[1] = w /\ p[2] = v
    BY <1>4, <2>1
  <2>3. w.to = "attempt" /\ w.ref = r /\ v.to = "session_evaluation" /\ v.ref = r
    BY <2>1 DEF To
  <2>4. SessionWrite(w) /\ SessionWrite(v)
    BY <1>2, <2>3 DEF SessionWrite
  <2>5. \A i \in 1 .. 2 : i = 1 \/ i = 2
    OBVIOUS
  <2> QED
    BY <2>2, <2>4, <2>5
<1>5. ASSUME NEW r \in 1 .. m, p = <<To("rejection", r)>>
      PROVE  \A i \in 1 .. Len(p) : SessionWrite(p[i])
  <2>1. PICK w : w = To("rejection", r)
    OBVIOUS
  <2>2. Len(p) = 1 /\ p[1] = w
    BY <1>5, <2>1
  <2>3. w.to = "rejection"
    BY <2>1 DEF To
  <2>4. SessionWrite(w)
    BY <2>3 DEF SessionWrite
  <2> QED
    BY <2>2, <2>4
<1>6. \/ p = <<To("session", m + 1)>>
      \/ \E r \in 1 .. m : p = <<To("attempt", r), To("session_evaluation", r)>>
      \/ \E r \in 1 .. m : p = <<To("rejection", r)>>
  BY <1>1 DEF SessionPlans
<1>7. m + 1 \in Nat /\ \A x \in 1 .. ((m + 1) - 1) : SessionOf(x)
  BY <1>1, <1>2
<1> QED
  BY <1>3, <1>4, <1>5, <1>6, <1>7

LEMMA SessionKept == OversightShape /\ Uncrossed /\ SessionInv /\ [OversightNext]_oversightVars => SessionInv'
<1> SUFFICES ASSUME OversightShape, Uncrossed, SessionInv, [OversightNext]_oversightVars, ~crossed',
                    domain' = "session"
             PROVE  SessionInv'
  BY DEF SessionInv
<1>1. /\ ~crossed /\ domain = "session"
      /\ OneBegins \/ (\E q : OneWrites(q)) \/ OneRepairs \/ NoneWrites
  BY StepsOfOne
<1>2. /\ SessionsKnown
      /\ \A q : ToCome(q) => \A i \in 1 .. Len(q) : SessionWrite(q[i])
      /\ review.pc = "repairing" => review.plan = <<>>
  BY <1>1 DEF SessionInv
<1>3. Clock \in Nat /\ journal \in Seq(DatedEntry(Clock)) /\ columns \in Columns
  BY BoundsAreNats DEF OversightShape, Clock
<1>4. ASSUME journal' = journal
      PROVE  SessionsKnown' /\ \A w : SessionWrite(w) => SessionWrite(w)'
  <2>1. \A x : SessionOf(x) => SessionOf(x)'
    BY <1>4 DEF SessionOf, Now
  <2>2. ASSUME NEW w, SessionWrite(w) PROVE SessionWrite(w)'
    BY <2>1, <2>2 DEF SessionWrite
  <2>3. Now' = Now
    BY <1>4 DEF Now
  <2>4. SessionsKnown'
    BY <1>2, <1>4, <2>1, <2>3 DEF SessionsKnown
  <2> QED
    BY <2>2, <2>4
<1>5. CASE OneBegins
  <2>1. PICK p \in SessionPlans : \A q : ToCome(q)' => q = p
    BY <1>1, <1>5 DEF OneBegins, Plans
  <2>2. review'.pc # "repairing" /\ journal' = journal
    BY <1>5 DEF OneBegins
  <2>3. \A i \in 1 .. Len(p) : SessionWrite(p[i])
    BY <1>2, <1>3, SessionPlansAre
  <2>4. \A i \in 1 .. Len(p) : SessionWrite(p[i])'
    BY <1>4, <2>2, <2>3
  <2>5. \A q : ToCome(q)' => \A i \in 1 .. Len(q) : SessionWrite(q[i])'
    BY <2>1, <2>4, Zenon
  <2> QED
    BY <1>4, <2>2, <2>5 DEF SessionInv
<1>6. ASSUME NEW q, OneWrites(q) PROVE SessionInv'
  <2>1. /\ review'.pc # "repairing" /\ q # <<>> /\ q \in Seq(DatedWrite(Clock)) /\ Commits(Head(q)) /\ ToCome(q)
        /\ \A x : ToCome(x)' => x = Tail(q)
    BY <1>6 DEF OneWrites
  <2>2. PICK w \in DatedWrite(Clock) : w = Head(q) /\ SessionWrite(w)
    <3>1. Head(q) = q[1] /\ 1 \in 1 .. Len(q)
      BY <2>1, WritesAfterFirst
    <3> QED
      BY <1>2, <2>1, <3>1, TailIsSeq
  <2>3. Commits(w) /\ w.ref \in Nat
    BY <2>1, <2>2 DEF DatedWrite
  <2>4. w.to \in {"session", "attempt", "session_evaluation", "rejection"} /\ w.to \in EntryKinds \ {"mission"}
    BY <2>2, KindsAndColumns DEF SessionWrite
  <2>5. /\ Now \in Nat /\ Now' = Now + 1 /\ journal'[Now + 1] = [kind |-> w.to, ref |-> w.ref, at |-> w.at]
        /\ \A i \in 1 .. Now : journal'[i] = journal[i]
    BY <1>3, <2>3, <2>4, WhatIsCommitted
  <2>6. \A i \in 1 .. Now' : i \in 1 .. Now \/ i = Now + 1
    BY <2>5
  <2>7. \A x : SessionOf(x) => SessionOf(x)'
    BY <2>5 DEF SessionOf
  <2>8. ASSUME NEW v, SessionWrite(v) PROVE SessionWrite(v)'
    BY <2>7, <2>8 DEF SessionWrite
  <2>9. SessionsKnown'
    <3> SUFFICES ASSUME NEW j \in 1 .. Now', NEW r \in Nat, journal'[j].ref = r
                 PROVE  /\ journal'[j].kind \in {"attempt", "session_evaluation"} => SessionOf(r)'
                        /\ journal'[j].kind = "session" => \A x \in 1 .. r : SessionOf(x)'
      BY DEF SessionsKnown
    <3>1. CASE j \in 1 .. Now
      <4>1. journal[j].ref = r /\ journal'[j].kind = journal[j].kind
        BY <2>5, <3>1
      <4>2. /\ journal[j].kind \in {"attempt", "session_evaluation"} => SessionOf(r)
            /\ journal[j].kind = "session" => \A x \in 1 .. r : SessionOf(x)
        BY <1>2, <3>1, <4>1 DEF SessionsKnown
      <4> QED
        BY <2>7, <4>1, <4>2
    <3>2. CASE j = Now + 1
      <4>1. journal'[j].kind = w.to /\ r = w.ref
        BY <2>5, <3>2
      <4>2. w.to \in {"attempt", "session_evaluation"} => SessionOf(r)'
        BY <2>2, <2>7, <4>1 DEF SessionWrite
      <4>3. ASSUME w.to = "session", NEW x \in 1 .. r PROVE SessionOf(x)'
        <5>1. CASE x = r
          <6>1. j \in 1 .. Now' /\ journal'[j].kind = "session" /\ journal'[j].ref = x
            BY <4>1, <4>3, <5>1
          <6> QED
            BY <6>1 DEF SessionOf
        <5>2. CASE x # r
          <6>1. x \in 1 .. (w.ref - 1)
            BY <2>3, <4>1, <4>3, <5>2
          <6> QED
            BY <2>2, <2>7, <4>1, <4>3, <6>1 DEF SessionWrite
        <5> QED
          BY <5>1, <5>2
      <4> QED
        BY <4>1, <4>2, <4>3
    <3> QED
      BY <2>6, <3>1, <3>2
  <2>10. ASSUME NEW x, ToCome(x)', NEW i \in 1 .. Len(x) PROVE SessionWrite(x[i])'
    <3>1. x = Tail(q)
      BY <2>1, <2>10
    <3>2. x[i] = q[i + 1] /\ i + 1 \in 1 .. Len(q)
      BY <2>1, <2>10, <3>1, WritesAfterFirst
    <3> QED
      BY <1>2, <2>1, <2>8, <3>2
  <2> QED
    BY <2>1, <2>9, <2>10 DEF SessionInv
<1>7. ASSUME OneRepairs PROVE FALSE
  BY <1>2, <1>7 DEF OneRepairs
<1>8. CASE NoneWrites
  <2>1. journal' = journal /\ tracing' = tracing
    BY <1>8 DEF NoneWrites
  <2>2. \A q : ToCome(q)' => \A i \in 1 .. Len(q) : SessionWrite(q[i])'
    BY <1>2, <1>4, <2>1 DEF ToCome
  <2>3. ASSUME NEW a \in Offered, NEW p \in RepairPlans(a) PROVE p = <<>>
    <3>1. a = "session_reference"
      BY <1>1, <2>3 DEF Offered, OfferedForSession
    <3> QED
      BY <2>3, <3>1 DEF RepairPlans, SessionRepair
  <2>4. review'.pc = "repairing" => review'.plan = <<>>
    BY <1>2, <1>8, <2>3 DEF NoneWrites
  <2> QED
    BY <1>4, <2>1, <2>2, <2>4 DEF SessionInv
<1> QED
  BY <1>1, <1>5, <1>6, <1>7, <1>8

\* The daily loop: each mission has its chest beside it, and what is resolved first is the mission.
MissionsPaired ==
    \A i \in 1 .. Now :
        /\ journal[i].kind = "mission" =>
             /\ i + 1 \in 1 .. Now /\ journal[i + 1].kind = "chest"
             /\ journal[i + 1].ref = journal[i].ref /\ journal[i + 1].at = journal[i].at
        /\ journal[i].kind = "chest" =>
             /\ i - 1 \in 1 .. Now /\ journal[i - 1].kind = "mission"
             /\ journal[i - 1].ref = journal[i].ref /\ journal[i - 1].at = journal[i].at

Resolved == \E i \in 1 .. Now : journal[i].kind = "reward_chest_resolution"

FirstResolution ==
    \A i \in 1 .. Now :
        /\ journal[i].kind = "reward_chest_resolution"
        /\ \A j \in 1 .. Now : journal[j].kind = "reward_chest_resolution" => i <= j
        => journal[i].ref = Nothing

DailyWrite(w) ==
    /\ w.to \in {"mission", "reward_chest_resolution"}
    /\ w.to = "reward_chest_resolution" /\ w.ref # Nothing => Resolved

DailyInv ==
    domain = "daily" /\ ~crossed =>
        /\ MissionsPaired /\ FirstResolution
        /\ \A q : ToCome(q) => \A i \in 1 .. Len(q) : DailyWrite(q[i])
        /\ review.pc # "repairing"

LEMMA DailyAtFirst == OversightInit => DailyInv
<1> SUFFICES ASSUME OversightInit, domain = "daily" PROVE DailyInv
  BY DEF DailyInv
<1>1. journal = <<>> /\ review = NoReview /\ \A c \in Traced : tracing[c] = <<>>
  BY DEF OversightInit
<1>2. Now = 0 /\ review.pc # "repairing"
  BY <1>1 DEF Now, NoReview
<1>3. \A q : ToCome(q) => q = <<>>
  BY <1>1 DEF ToCome
<1>4. \A q : ToCome(q) => \A i \in 1 .. Len(q) : DailyWrite(q[i])
  BY <1>3
<1>5. MissionsPaired /\ FirstResolution
  BY <1>2 DEF MissionsPaired, FirstResolution
<1> QED
  BY <1>2, <1>4, <1>5 DEF DailyInv

LEMMA DailyPlansAre ==
    ASSUME NEW p \in DailyPlans
    PROVE  \A i \in 1 .. Len(p) : DailyWrite(p[i])
<1>1. PICK today : today = NewestRef("mission", Now)
  OBVIOUS
<1>2. PICK resolved : resolved = {i \in RowsOf("reward_chest_resolution", Now) : i > Newest(RowsOf("mission", Now))}
  OBVIOUS
<1>3. \/ p = <<To("mission", today + 1)>>
      \/ p = <<To("reward_chest_resolution", Nothing)>>
      \/ resolved # {} /\ p = <<To("reward_chest_resolution", today)>>
  BY <1>1, <1>2 DEF DailyPlans
<1>4. ASSUME NEW w, p = <<w>>, DailyWrite(w) PROVE \A i \in 1 .. Len(p) : DailyWrite(p[i])
  <2>1. Len(p) = 1 /\ p[1] = w
    BY <1>4
  <2> QED
    BY <1>4, <2>1
<1>5. CASE p = <<To("mission", today + 1)>>
  <2>1. To("mission", today + 1).to = "mission"
    BY DEF To
  <2>2. DailyWrite(To("mission", today + 1))
    BY <2>1 DEF DailyWrite
  <2> QED
    BY <1>4, <1>5, <2>2
<1>6. CASE p = <<To("reward_chest_resolution", Nothing)>>
  <2>1. To("reward_chest_resolution", Nothing).to = "reward_chest_resolution"
        /\ To("reward_chest_resolution", Nothing).ref = Nothing
    BY DEF To
  <2>2. DailyWrite(To("reward_chest_resolution", Nothing))
    BY <2>1 DEF DailyWrite
  <2> QED
    BY <1>4, <1>6, <2>2
<1>7. CASE resolved # {} /\ p = <<To("reward_chest_resolution", today)>>
  <2>1. Resolved
    BY <1>2, <1>7 DEF Resolved, RowsOf
  <2>2. To("reward_chest_resolution", today).to = "reward_chest_resolution"
    BY DEF To
  <2>3. DailyWrite(To("reward_chest_resolution", today))
    BY <2>1, <2>2 DEF DailyWrite
  <2> QED
    BY <1>4, <1>7, <2>3
<1> QED
  BY <1>3, <1>5, <1>6, <1>7

LEMMA DailyKept == OversightShape /\ Uncrossed /\ DailyInv /\ [OversightNext]_oversightVars => DailyInv'
<1> SUFFICES ASSUME OversightShape, Uncrossed, DailyInv, [OversightNext]_oversightVars, ~crossed', domain' = "daily"
             PROVE  DailyInv'
  BY DEF DailyInv
<1>1. /\ ~crossed /\ domain = "daily"
      /\ OneBegins \/ (\E q : OneWrites(q)) \/ OneRepairs \/ NoneWrites
  BY StepsOfOne
<1>2. /\ MissionsPaired /\ FirstResolution
      /\ \A q : ToCome(q) => \A i \in 1 .. Len(q) : DailyWrite(q[i])
      /\ review.pc # "repairing"
  BY <1>1 DEF DailyInv
<1>3. Clock \in Nat /\ journal \in Seq(DatedEntry(Clock)) /\ columns \in Columns
  BY BoundsAreNats DEF OversightShape, Clock
<1>4. ASSUME journal' = journal
      PROVE  MissionsPaired' /\ FirstResolution' /\ \A w : DailyWrite(w) => DailyWrite(w)'
  BY <1>2, <1>4 DEF MissionsPaired, FirstResolution, DailyWrite, Resolved, Now
<1>5. CASE OneBegins
  <2>1. PICK p \in DailyPlans : \A q : ToCome(q)' => q = p
    BY <1>1, <1>5 DEF OneBegins, Plans
  <2>2. review'.pc # "repairing" /\ journal' = journal
    BY <1>5 DEF OneBegins
  <2>3. \A i \in 1 .. Len(p) : DailyWrite(p[i])
    BY DailyPlansAre
  <2>4. \A i \in 1 .. Len(p) : DailyWrite(p[i])'
    BY <1>4, <2>2, <2>3
  <2>5. \A q : ToCome(q)' => \A i \in 1 .. Len(q) : DailyWrite(q[i])'
    BY <2>1, <2>4, Zenon
  <2> QED
    BY <1>4, <2>2, <2>5 DEF DailyInv
<1>6. ASSUME NEW q, OneWrites(q) PROVE DailyInv'
  <2>1. /\ review'.pc # "repairing" /\ q # <<>> /\ q \in Seq(DatedWrite(Clock)) /\ Commits(Head(q)) /\ ToCome(q)
        /\ \A x : ToCome(x)' => x = Tail(q)
    BY <1>6 DEF OneWrites
  <2>2. PICK w \in DatedWrite(Clock) : w = Head(q) /\ DailyWrite(w)
    <3>1. Head(q) = q[1] /\ 1 \in 1 .. Len(q)
      BY <2>1, WritesAfterFirst
    <3> QED
      BY <1>2, <2>1, <3>1, TailIsSeq
  <2>3. Commits(w)
    BY <2>1, <2>2
  <2>4. Now \in Nat /\ Now' \in Nat /\ Now <= Now' /\ \A i \in 1 .. Now : journal'[i] = journal[i]
    BY <1>3, <2>3, WhatIsCommitted
  <2>5. ASSUME NEW v, DailyWrite(v) PROVE DailyWrite(v)'
    <3>1. Resolved => Resolved'
      BY <2>4 DEF Resolved
    <3> QED
      BY <2>5, <3>1 DEF DailyWrite
  <2>6. MissionsPaired' /\ FirstResolution'
    <3>1. CASE w.to = "mission"
      <4>1. /\ Now' = Now + 2 /\ journal'[Now + 1] = [kind |-> "mission", ref |-> w.ref, at |-> w.at]
            /\ journal'[Now + 2] = [kind |-> "chest", ref |-> w.ref, at |-> w.at]
        BY <1>3, <2>3, <3>1, WhatIsCommitted
      <4>2. \A i \in 1 .. Now' : i \in 1 .. Now \/ i = Now + 1 \/ i = Now + 2
        BY <2>4, <4>1
      <4>3. /\ journal'[Now + 1].kind = "mission" /\ journal'[Now + 2].kind = "chest"
            /\ journal'[Now + 2].ref = journal'[Now + 1].ref /\ journal'[Now + 2].at = journal'[Now + 1].at
        BY <4>1
      <4>4. MissionsPaired'
        <5> SUFFICES ASSUME NEW i \in 1 .. Now'
                     PROVE  /\ journal'[i].kind = "mission" =>
                                 /\ i + 1 \in 1 .. Now' /\ journal'[i + 1].kind = "chest"
                                 /\ journal'[i + 1].ref = journal'[i].ref /\ journal'[i + 1].at = journal'[i].at
                            /\ journal'[i].kind = "chest" =>
                                 /\ i - 1 \in 1 .. Now' /\ journal'[i - 1].kind = "mission"
                                 /\ journal'[i - 1].ref = journal'[i].ref /\ journal'[i - 1].at = journal'[i].at
          BY DEF MissionsPaired
        <5>1. CASE i \in 1 .. Now
          <6>1. /\ journal[i].kind = "mission" =>
                     /\ i + 1 \in 1 .. Now /\ journal[i + 1].kind = "chest"
                     /\ journal[i + 1].ref = journal[i].ref /\ journal[i + 1].at = journal[i].at
                /\ journal[i].kind = "chest" =>
                     /\ i - 1 \in 1 .. Now /\ journal[i - 1].kind = "mission"
                     /\ journal[i - 1].ref = journal[i].ref /\ journal[i - 1].at = journal[i].at
            BY <1>2, <5>1 DEF MissionsPaired
          <6>2. \A x \in 1 .. Now : x \in 1 .. Now' /\ journal'[x] = journal[x]
            BY <2>4
          <6> QED
            BY <5>1, <6>1, <6>2
        <5>2. CASE i = Now + 1
          <6>1. i + 1 = Now + 2 /\ i + 1 \in 1 .. Now'
            BY <2>4, <4>1, <5>2
          <6> QED
            BY <4>3, <5>2, <6>1
        <5>3. CASE i = Now + 2
          <6>1. i - 1 = Now + 1 /\ i - 1 \in 1 .. Now'
            BY <2>4, <4>1, <5>3
          <6> QED
            BY <4>3, <5>3, <6>1
        <5> QED
          BY <4>2, <5>1, <5>2, <5>3
      <4>5. FirstResolution'
        <5> SUFFICES ASSUME NEW i \in 1 .. Now', journal'[i].kind = "reward_chest_resolution",
                            \A j \in 1 .. Now' : journal'[j].kind = "reward_chest_resolution" => i <= j
                     PROVE  journal'[i].ref = Nothing
          BY DEF FirstResolution
        <5>1. i \in 1 .. Now
          BY <4>2, <4>3
        <5>2. \A j \in 1 .. Now : journal[j].kind = "reward_chest_resolution" => i <= j
          BY <2>4
        <5> QED
          BY <1>2, <2>4, <5>1, <5>2 DEF FirstResolution
      <4> QED
        BY <4>4, <4>5
    <3>2. CASE w.to = "reward_chest_resolution"
      <4>1. Now' = Now + 1 /\ journal'[Now + 1] = [kind |-> w.to, ref |-> w.ref, at |-> w.at]
        <5>1. w.to \in EntryKinds \ {"mission"}
          BY <3>2, KindsAndColumns
        <5> QED
          BY <1>3, <2>3, <5>1, WhatIsCommitted
      <4>2. \A i \in 1 .. Now' : i \in 1 .. Now \/ i = Now + 1
        BY <2>4, <4>1
      <4>3. journal'[Now + 1].kind = "reward_chest_resolution" /\ journal'[Now + 1].ref = w.ref
        BY <3>2, <4>1
      <4>4. \A x \in 1 .. Now : x \in 1 .. Now' /\ journal'[x] = journal[x]
        BY <2>4
      <4>5. MissionsPaired'
        <5> SUFFICES ASSUME NEW i \in 1 .. Now, i \in 1 .. Now'
                     PROVE  /\ journal'[i].kind = "mission" =>
                                 /\ i + 1 \in 1 .. Now' /\ journal'[i + 1].kind = "chest"
                                 /\ journal'[i + 1].ref = journal'[i].ref /\ journal'[i + 1].at = journal'[i].at
                            /\ journal'[i].kind = "chest" =>
                                 /\ i - 1 \in 1 .. Now' /\ journal'[i - 1].kind = "mission"
                                 /\ journal'[i - 1].ref = journal'[i].ref /\ journal'[i - 1].at = journal'[i].at
          BY <4>2, <4>3 DEF MissionsPaired
        <5>1. /\ journal[i].kind = "mission" =>
                   /\ i + 1 \in 1 .. Now /\ journal[i + 1].kind = "chest"
                   /\ journal[i + 1].ref = journal[i].ref /\ journal[i + 1].at = journal[i].at
              /\ journal[i].kind = "chest" =>
                   /\ i - 1 \in 1 .. Now /\ journal[i - 1].kind = "mission"
                   /\ journal[i - 1].ref = journal[i].ref /\ journal[i - 1].at = journal[i].at
          BY <1>2 DEF MissionsPaired
        <5> QED
          BY <4>4, <5>1
      <4>6. FirstResolution'
        <5> SUFFICES ASSUME NEW i \in 1 .. Now', journal'[i].kind = "reward_chest_resolution",
                            \A j \in 1 .. Now' : journal'[j].kind = "reward_chest_resolution" => i <= j
                     PROVE  journal'[i].ref = Nothing
          BY DEF FirstResolution
        <5>1. CASE i \in 1 .. Now
          <6>1. \A j \in 1 .. Now : journal[j].kind = "reward_chest_resolution" => i <= j
            BY <4>4
          <6> QED
            BY <1>2, <4>4, <5>1, <6>1 DEF FirstResolution
        <5>2. CASE i = Now + 1
          <6>1. ~Resolved
            BY <2>4, <4>4, <5>2 DEF Resolved
          <6> QED
            BY <2>2, <3>2, <4>3, <5>2, <6>1 DEF DailyWrite
        <5> QED
          BY <4>2, <5>1, <5>2
      <4> QED
        BY <4>5, <4>6
    <3> QED
      BY <2>2, <3>1, <3>2 DEF DailyWrite
  <2>7. ASSUME NEW x, ToCome(x)', NEW i \in 1 .. Len(x) PROVE DailyWrite(x[i])'
    <3>1. x = Tail(q)
      BY <2>1, <2>7
    <3>2. x[i] = q[i + 1] /\ i + 1 \in 1 .. Len(q)
      BY <2>1, <2>7, <3>1, WritesAfterFirst
    <3> QED
      BY <1>2, <2>1, <2>5, <3>2
  <2> QED
    BY <2>1, <2>6, <2>7 DEF DailyInv
<1>7. ASSUME OneRepairs PROVE FALSE
  BY <1>2, <1>7 DEF OneRepairs
<1>8. CASE NoneWrites
  <2>1. journal' = journal /\ tracing' = tracing
    BY <1>8 DEF NoneWrites
  <2>2. \A q : ToCome(q)' => \A i \in 1 .. Len(q) : DailyWrite(q[i])'
    BY <1>2, <1>4, <2>1 DEF ToCome
  <2>3. Offered = {}
    BY <1>1 DEF Offered
  <2>4. review'.pc # "repairing"
    BY <1>2, <1>8, <2>3 DEF NoneWrites
  <2> QED
    BY <1>4, <2>1, <2>2, <2>4 DEF DailyInv
<1> QED
  BY <1>1, <1>5, <1>6, <1>7, <1>8

(* What is raised when nothing is under way and all the rows have been read *)

\* The traces that follow a later row are fewer.
TracesFrom(i) == {j \in i .. Now : journal[j].kind \in TraceKinds}

LEMMA LaterTracesAreFewer ==
    ASSUME NEW n \in Nat, journal \in Seq(DatedEntry(n)), NEW a \in Nat, NEW b \in Nat, a <= b
    PROVE  /\ Cardinality(TracesFrom(a)) \in Nat /\ Cardinality(TracesFrom(b)) \in Nat
           /\ Cardinality(TracesFrom(b)) <= Cardinality(TracesFrom(a))
<1>1. Now \in Nat
  BY RowsAreDated
<1>2. IsFiniteSet(a .. Now)
  BY <1>1, FS_Interval
<1>3. IsFiniteSet(TracesFrom(a))
  <2>1. TracesFrom(a) \in SUBSET (a .. Now)
    BY DEF TracesFrom
  <2> QED
    BY <1>2, <2>1, FS_Subset
<1>4. TracesFrom(b) \in SUBSET TracesFrom(a)
  BY <1>1 DEF TracesFrom
<1>5. IsFiniteSet(TracesFrom(b)) /\ Cardinality(TracesFrom(b)) <= Cardinality(TracesFrom(a))
  BY <1>3, <1>4, FS_Subset
<1> QED
  BY <1>3, <1>5, FS_CardinalityType

\* The window holds, with a trace, all that are later; and all there are, when these are few.
LEMMA WindowsAre ==
    ASSUME NEW n \in Nat, journal \in Seq(DatedEntry(n))
    PROVE  /\ \A i \in Traces(Now), k \in 1 .. Now : i <= k /\ journal[k].kind \in TraceKinds => k \in Traces(Now)
           /\ Cardinality(TracesFrom(1)) \in Nat
           /\ ~(Cardinality(TracesFrom(1)) > Window) =>
                \A k \in 1 .. Now : journal[k].kind \in TraceKinds => k \in Traces(Now)
<1>1. Now \in Nat /\ Window \in Nat
  BY RowsAreDated, OversightAssumption
<1>2. Traces(Now) = {i \in 1 .. Now : journal[i].kind \in TraceKinds /\ Cardinality(TracesFrom(i)) <= Window}
  BY DEF Traces, TracesFrom
<1>3. ASSUME NEW i \in Traces(Now), NEW k \in 1 .. Now, i <= k, journal[k].kind \in TraceKinds
      PROVE  k \in Traces(Now)
  <2>1. i \in Nat /\ k \in Nat /\ Cardinality(TracesFrom(i)) <= Window
    BY <1>1, <1>2, <1>3
  <2>2. /\ Cardinality(TracesFrom(k)) \in Nat /\ Cardinality(TracesFrom(i)) \in Nat
        /\ Cardinality(TracesFrom(k)) <= Cardinality(TracesFrom(i))
    BY <1>3, <2>1, LaterTracesAreFewer
  <2> QED
    BY <1>1, <1>2, <1>3, <2>1, <2>2
<1>4. Cardinality(TracesFrom(1)) \in Nat
  BY LaterTracesAreFewer
<1>5. ASSUME ~(Cardinality(TracesFrom(1)) > Window), NEW k \in 1 .. Now, journal[k].kind \in TraceKinds
      PROVE  k \in Traces(Now)
  <2>1. k \in Nat /\ 1 <= k
    BY <1>1
  <2>2. Cardinality(TracesFrom(k)) \in Nat /\ Cardinality(TracesFrom(k)) <= Cardinality(TracesFrom(1))
    BY <2>1, LaterTracesAreFewer
  <2> QED
    BY <1>1, <1>2, <1>4, <1>5, <2>2
<1> QED
  BY <1>3, <1>4, <1>5

Caused(f, since) == \A code \in f : Cause(code, since)

LEMMA LifecycleAgrees ==
    ASSUME NEW n \in Nat, journal \in Seq(DatedEntry(n)), LifecycleToCome(<<>>), NEW since \in Nat
    PROVE  LifecycleIssues(columns) = {} /\ LifecycleDrift(columns, since) = {}
<1>1. LastTransition /\ columns.noticeStage = columns.stage
  BY DEF LifecycleToCome
<1>2. /\ NewestRef("transition", Now) = columns.stage
      /\ LET recent == {i \in RowsOf("transition", Now) : i > since} IN
         recent # {} => journal[Newest(recent)].ref = columns.stage
  BY <1>1, LastTransitionIsNewest
<1>3. LifecycleIssues(columns) = {}
  BY <1>2 DEF LifecycleIssues
<1>4. LifecycleDrift(columns, since) = {}
  BY <1>1, <1>2 DEF LifecycleDrift
<1> QED
  BY <1>3, <1>4

LEMMA DeliveriesNameNothing ==
    ASSUME NEW n \in Nat, journal \in Seq(DatedEntry(n)), domain = "notification", NoticeRows
    PROVE  NewestRef("delivery", Now) = Nothing
<1>1. CASE RowsOf("delivery", Now) = {}
  BY <1>1 DEF NewestRef
<1>2. CASE RowsOf("delivery", Now) # {}
  <2>1. Now \in Nat
    BY RowsAreDated
  <2>2. PICK k : k = Newest(RowsOf("delivery", Now)) /\ k \in RowsOf("delivery", Now)
    BY <1>2, <2>1, NewestIs, RowsAreRows
  <2>3. k \in 1 .. Now /\ journal[k].kind = "delivery" /\ NewestRef("delivery", Now) = journal[k].ref
    BY <1>2, <2>2 DEF RowsOf, NewestRef
  <2> QED
    BY <2>3 DEF NoticeRows
<1> QED
  BY <1>1, <1>2

LEMMA NoticesAgree ==
    ASSUME NEW n \in Nat, journal \in Seq(DatedEntry(n)), domain = "notification", NoticeRows, NoticeToCome(<<>>),
           NEW since \in Nat
    PROVE  Caused(NotificationIssues(columns, Now), since)
<1>1. columns.noticeStage = columns.stage
  <2>1. Len(<<>>) = 0
    OBVIOUS
  <2>2. ~(2 <= Len(<<>>)) /\ ~(1 <= Len(<<>>))
    BY <2>1
  <2> QED
    BY <2>2, Zenon DEF NoticeToCome
<1>2. NewestRef("delivery", Now) = Nothing
  BY DeliveriesNameNothing
<1> SUFFICES ASSUME NEW code \in NotificationIssues(columns, Now) PROVE Cause(code, since)
  BY DEF Caused
<1>3. code = "notification_reference_mismatch"
      /\ \E i \in Compared("notification_selection", Now) : columns.noticeRef \notin {Nothing, journal[i].ref}
  BY <1>1, <1>2 DEF NotificationIssues
<1>4. PICK i \in Compared("notification_selection", Now) : columns.noticeRef \notin {Nothing, journal[i].ref}
  BY <1>3
<1>5. i \in 1 .. Now /\ journal[i].kind = "notification_selection"
  BY <1>4 DEF Compared, Traces
<1>6. journal[i].ref = ByUser
  BY <1>4, <1>5 DEF NoticeRows
<1>7. i \in RowsOf("notification_selection", Now)
  BY <1>5 DEF RowsOf
<1> QED
  BY <1>3, <1>6, <1>7 DEF Cause

LEMMA OffersAgree ==
    ASSUME NEW n \in Nat, journal \in Seq(DatedEntry(n)), DecidedInTurn, UndatedDecisions, OffersSettled,
           NEW since \in Nat
    PROVE  Caused(MonetizationIssues(columns, Now), since) /\ Caused(MonetizationDrift(columns), since)
<1>1. Now \in Nat /\ {"lifecycle_decision", "monetization_decision"} \subseteq TraceKinds
  BY RowsAreDated DEF TraceKinds
<1>2. ASSUME EvaluatedSince
      PROVE  Cause("monetization_lifecycle_stage_mismatch", since) /\ Cause("lifecycle_stage_mismatches", since)
  <2>1. ASSUME NEW i \in RowsOf("monetization_decision", Now)
        PROVE  \E j \in RowsOf("lifecycle_decision", Now) : j > i
    <3>1. i \in 1 .. Now /\ journal[i].kind = "monetization_decision"
      BY <2>1 DEF RowsOf
    <3>2. PICK j \in 1 .. Now : i < j /\ journal[j].kind = "lifecycle_decision"
      BY <1>2, <3>1 DEF EvaluatedSince
    <3>3. j \in RowsOf("lifecycle_decision", Now) /\ j > i
      BY <1>1, <3>1, <3>2 DEF RowsOf
    <3> QED
      BY <3>3
  <2> QED
    BY <2>1 DEF Cause
<1>3. ASSUME LastDecision, columns.offerStage = columns.stage, columns.stage # Nothing
      PROVE  ShownStage(columns, Now) = columns.stage
  <2>1. PICK k \in 1 .. Now :
          /\ journal[k].kind = "lifecycle_decision" /\ journal[k].ref = columns.stage
          /\ \A j \in 1 .. Now : journal[j].kind = "lifecycle_decision" => j <= k
    BY <1>3 DEF LastDecision
  <2>2. PICK decided : decided = {i \in Traces(Now) : journal[i].kind = "lifecycle_decision"}
    OBVIOUS
  <2>3. CASE decided = {}
    BY <1>3, <2>2, <2>3 DEF ShownStage
  <2>4. CASE decided # {}
    <3>1. PICK i \in decided : i \in Traces(Now) /\ i \in 1 .. Now /\ journal[i].kind = "lifecycle_decision"
      BY <2>2, <2>4 DEF Traces
    <3>2. k \in decided
      <4>1. i <= k /\ journal[k].kind \in TraceKinds
        BY <1>1, <2>1, <3>1
      <4>2. k \in Traces(Now)
        BY <3>1, <4>1, WindowsAre
      <4> QED
        BY <2>1, <2>2, <4>2
    <3>3. decided \subseteq 1 .. Now /\ \A j \in decided : j <= k /\ journal[j].at <= journal[k].at
      <4>1. decided \subseteq 1 .. Now
        BY <2>2 DEF Traces
      <4>2. ASSUME NEW j \in decided PROVE j <= k /\ journal[j].at <= journal[k].at
        <5>1. j \in 1 .. Now /\ journal[j].kind = "lifecycle_decision"
          BY <2>2, <4>1, <4>2
        <5>2. journal[j].at = 0 /\ journal[k].at = 0
          BY <2>1, <5>1 DEF UndatedDecisions
        <5> QED
          BY <2>1, <5>1, <5>2
      <4> QED
        BY <4>1, <4>2
    <3>4. Newest(decided) = k
      BY <3>2, <3>3, NewestIsLast
    <3> QED
      BY <2>1, <2>2, <2>4, <3>4 DEF ShownStage
  <2> QED
    BY <2>3, <2>4
<1>4. ASSUME NEW i \in Compared("lifecycle_decision", Now), NEW j \in Compared("monetization_decision", Now), j < i
      PROVE  Cause("monetization_timeline_mismatch", since)
  <2>1. /\ i \in 1 .. Now /\ \A x \in Traces(Now) : journal[x].kind = "lifecycle_decision" => i <= x
        /\ j \in 1 .. Now /\ journal[j].kind = "monetization_decision"
    BY <1>4 DEF Compared, Traces
  <2>2. PICK x \in 1 .. Now : x < j /\ journal[x].kind = "lifecycle_decision"
    BY <2>1 DEF DecidedInTurn
  <2>3. x \notin Traces(Now)
    BY <1>1, <1>4, <2>1, <2>2
  <2>4. Cardinality(TracesFrom(1)) > Window
    BY <1>1, <2>2, <2>3, WindowsAre
  <2> QED
    BY <2>4 DEF Cause, TracesFrom
<1>5. ASSUME NEW code \in MonetizationIssues(columns, Now) PROVE Cause(code, since)
  <2>1. \/ code = "monetization_lifecycle_stage_mismatch" /\ columns.offerStage # ShownStage(columns, Now)
        \/ /\ code = "monetization_timeline_mismatch"
           /\ \E i \in Compared("lifecycle_decision", Now), j \in Compared("monetization_decision", Now) : j < i
    BY <1>5 DEF MonetizationIssues
  <2> QED
    BY <1>2, <1>3, <1>4, <2>1 DEF OffersSettled
<1>6. ASSUME NEW code \in MonetizationDrift(columns) PROVE Cause(code, since)
  <2>1. code = "lifecycle_stage_mismatches" /\ columns.offerStage # columns.stage
    BY <1>6 DEF MonetizationDrift
  <2> QED
    BY <1>2, <2>1 DEF OffersSettled
<1> QED
  BY <1>5, <1>6 DEF Caused

LEMMA MissionsAgree ==
    ASSUME NEW n \in Nat, journal \in Seq(DatedEntry(n)), MissionsPaired, FirstResolution, NEW since \in Nat
    PROVE  Caused(DailyIssues(Now), since) /\ DailyDrift(Now) = {}
<1>1. Now \in Nat /\ "reward_chest_resolution" \in TraceKinds
  BY RowsAreDated DEF TraceKinds
<1>2. ASSUME NEW i \in RowsOf("chest", Now)
      PROVE  i \in 1 .. Now /\ i - 1 \in RowsOf("mission", Now) /\ journal[i - 1].ref = journal[i].ref
             /\ journal[i - 1].at = journal[i].at
  BY <1>2 DEF RowsOf, MissionsPaired
<1>3. ASSUME NEW i \in RowsOf("mission", Now)
      PROVE  i \in 1 .. Now /\ i + 1 \in RowsOf("chest", Now) /\ journal[i + 1].at = journal[i].at
  BY <1>3 DEF RowsOf, MissionsPaired
<1>4. DailyDrift(Now) = {}
  <2>1. ASSUME NEW i \in RowsOf("chest", Now)
        PROVE  journal[i].ref \in {journal[x].ref : x \in RowsOf("mission", Now)}
    BY <1>2
  <2>2. {journal[i].ref : i \in RowsOf("chest", Now)} \ {journal[i].ref : i \in RowsOf("mission", Now)} = {}
    BY <2>1
  <2> QED
    BY <2>2 DEF DailyDrift
<1>5. ASSUME RowsOf("chest", Now) # {}
      PROVE  NewestRef("chest", Now) = NewestRef("mission", Now)
  <2>1. PICK k : k = Newest(RowsOf("chest", Now)) /\ k \in RowsOf("chest", Now)
    BY <1>1, <1>5, NewestIs, RowsAreRows
  <2>2. \A j \in RowsOf("chest", Now) : Sorts(j, k)
    BY <1>1, <1>5, <2>1, NewestIs, RowsAreRows
  <2>3. k \in 1 .. Now /\ k - 1 \in RowsOf("mission", Now) /\ journal[k - 1].ref = journal[k].ref
        /\ journal[k - 1].at = journal[k].at
    BY <1>2, <2>1
  <2>4. RowsOf("mission", Now) # {}
    BY <2>3
  <2>5. PICK m : m = Newest(RowsOf("mission", Now)) /\ m \in RowsOf("mission", Now)
    BY <1>1, <2>4, NewestIs, RowsAreRows
  <2>6. Sorts(k - 1, m)
    <3>1. \A j \in RowsOf("mission", Now) : Sorts(j, m)
      BY <1>1, <2>4, <2>5, NewestIs, RowsAreRows
    <3> QED
      BY <2>3, <3>1
  <2>7. m \in 1 .. Now /\ m + 1 \in RowsOf("chest", Now) /\ journal[m + 1].at = journal[m].at
    BY <1>3, <2>5
  <2>8. Sorts(m + 1, k)
    BY <2>2, <2>7
  <2>9. journal[m].at \in Nat /\ journal[k].at \in Nat
    BY <2>3, <2>7, RowsAreDated
  <2>10. m = k - 1
    BY <1>1, <2>3, <2>6, <2>7, <2>8, <2>9 DEF Sorts
  <2> QED
    BY <1>5, <2>1, <2>3, <2>4, <2>5, <2>10 DEF NewestRef
<1>6. NewestRef("chest", Now) # Nothing => NewestRef("chest", Now) = NewestRef("mission", Now)
  BY <1>5 DEF NewestRef
<1>7. ASSUME NEW i \in Compared("reward_chest_resolution", Now), journal[i].ref # Nothing
      PROVE  Cause("daily_loop_reward_trace_mismatch", since)
  <2>1. /\ i \in 1 .. Now /\ journal[i].kind = "reward_chest_resolution"
        /\ \A x \in Traces(Now) : journal[x].kind = "reward_chest_resolution" => i <= x
    BY <1>7 DEF Compared, Traces
  <2>2. PICK x \in 1 .. Now : journal[x].kind = "reward_chest_resolution" /\ ~(i <= x)
    BY <1>7, <2>1 DEF FirstResolution
  <2>3. x \notin Traces(Now)
    BY <2>1, <2>2
  <2>4. Cardinality(TracesFrom(1)) > Window
    BY <1>1, <2>2, <2>3, WindowsAre
  <2> QED
    BY <2>4 DEF Cause, TracesFrom
<1>8. ASSUME NEW code \in DailyIssues(Now) PROVE Cause(code, since)
  <2>1. /\ code = "daily_loop_reward_trace_mismatch"
        /\ \E i \in Compared("reward_chest_resolution", Now) : journal[i].ref \notin {Nothing, NewestRef("chest", Now)}
    BY <1>6, <1>8 DEF DailyIssues
  <2> QED
    BY <1>7, <2>1
<1> QED
  BY <1>4, <1>8 DEF Caused

LEMMA SessionsAgree ==
    ASSUME NEW n \in Nat, journal \in Seq(DatedEntry(n)), SessionsKnown, NEW since \in Nat
    PROVE  Caused(SessionDrift(Now, since), since)
<1>1. Now \in Nat
  BY RowsAreDated
<1>2. PICK known : known = {journal[i].ref : i \in {k \in RowsOf("session", Now) : k > since}}
  OBVIOUS
<1>3. ASSUME NEW j \in RowsOf("attempt", Now) \cup RowsOf("session_evaluation", Now), j > since, journal[j].ref \notin known
      PROVE  Cause("attempt_reference_mismatches", since) /\ Cause("evaluation_reference_mismatches", since)
  <2>1. j \in 1 .. Now /\ journal[j].kind \in {"attempt", "session_evaluation"}
    BY <1>3 DEF RowsOf
  <2>2. PICK r \in Nat : r = journal[j].ref
    BY <2>1, RowsAreDated
  <2>3. SessionOf(r)
    BY <2>1, <2>2 DEF SessionsKnown
  <2>4. PICK i \in 1 .. Now : journal[i].kind = "session" /\ journal[i].ref = r
    BY <2>3 DEF SessionOf
  <2>5. ~(i > since)
    BY <1>2, <1>3, <2>2, <2>4 DEF RowsOf
  <2>6. i \in RowsOf("session", since)
    BY <1>1, <2>4, <2>5 DEF RowsOf
  <2>7. \E i1 \in RowsOf("session", since) : \E j1 \in RowsOf("attempt", Now) \cup RowsOf("session_evaluation", Now) :
          j1 > since /\ journal[j1].ref = journal[i1].ref
    BY <1>3, <2>2, <2>4, <2>6
  <2> QED
    BY <2>7 DEF Cause
<1>4. ASSUME NEW code \in SessionDrift(Now, since) PROVE Cause(code, since)
  <2>1. /\ code \in {"attempt_reference_mismatches", "evaluation_reference_mismatches"}
        /\ \E j \in RowsOf("attempt", Now) \cup RowsOf("session_evaluation", Now) : j > since /\ journal[j].ref \notin known
    BY <1>2, <1>4 DEF SessionDrift
  <2> QED
    BY <1>3, <2>1
<1> QED
  BY <1>4 DEF Caused

LEMMA NothingLeftSettles ==
    MonetizationToCome(<<>>) => DecidedInTurn /\ UndatedDecisions /\ OffersSettled
<1>1. <<>> # <<To("offerStage", columns.stage)>> /\ <<>> # <<To("lifecycle_decision", columns.stage)>>
      /\ <<>> # <<To("monetization_decision", columns.stage), To("offerStage", columns.stage)>>
      /\ <<>> # <<To("lifecycle_decision", columns.stage), To("monetization_decision", columns.stage),
                  To("offerStage", columns.stage)>>
  OBVIOUS
<1> QED
  BY <1>1 DEF MonetizationToCome

LEMMA LookedUpByReference ==
    ASSUME NEW n \in Nat, journal \in Seq(DatedEntry(n)), NEW m
    PROVE  SessionIssues(m) = {}
<1>1. Now \in Nat
  BY RowsAreDated
<1>2. ASSUME NEW s, NEW b, NEW S, S = {i \in RowsOf(b, Now) : journal[i].ref = s}, S # {}
      PROVE  journal[Newest(S)].ref = s
  <2>1. S \subseteq 1 .. Now
    BY <1>2 DEF RowsOf
  <2>2. Newest(S) \in S
    BY <1>2, <2>1, NewestIs
  <2> QED
    BY <1>2, <2>2
<1>3. PICK s : s = NewestRef("session", m)
  OBVIOUS
<1>4. PICK F : F = [b \in {"attempt", "session_evaluation", "rejection"} |-> {i \in RowsOf(b, Now) : journal[i].ref = s}]
  OBVIOUS
<1>5. \A b \in {"attempt", "session_evaluation", "rejection"} :
        ~(F[b] # {} /\ journal[Newest(F[b])].ref # s)
  BY <1>2, <1>4
<1>6. SessionIssues(m) =
        {c \in {"session_attempt_reference_mismatch"} : F["attempt"] # {} /\ journal[Newest(F["attempt"])].ref # s}
        \cup {c \in {"session_evaluation_reference_mismatch"} :
                F["session_evaluation"] # {} /\ journal[Newest(F["session_evaluation"])].ref # s}
        \cup {c \in {"session_rejection_reference_mismatch"} :
                F["rejection"] # {} /\ journal[Newest(F["rejection"])].ref # s}
  BY <1>3, <1>4 DEF SessionIssues
<1> QED
  BY <1>5, <1>6

\* Whatever overlaps, these codes are not raised.
LEMMA SomeAreNeverRaised ==
    ASSUME OversightShape, NoticeRows, NEW r, NEW m, NEW since
    PROVE  Issues(r, m) \cap NeverRaised = {} /\ Drift(r, m, since) \cap NeverRaised = {}
<1>1. Clock \in Nat /\ journal \in Seq(DatedEntry(Clock)) /\ domain \in Domains
  BY BoundsAreNats DEF OversightShape, Clock
<1>2. SessionIssues(m) = {}
  BY <1>1, LookedUpByReference
<1>3. ASSUME domain = "notification" PROVE "notification_delivery_reference_mismatch" \notin NotificationIssues(r, m)
  <2>1. NewestRef("delivery", Now) = Nothing
    BY <1>1, <1>3, DeliveriesNameNothing
  <2> QED
    BY <2>1 DEF NotificationIssues
<1>4. ASSUME domain = "notification" PROVE NotificationIssues(r, m) \cap NeverRaised = {}
  <2>1. NotificationIssues(r, m) \subseteq
          {"notification_lifecycle_alignment_mismatch", "notification_reference_mismatch",
           "notification_delivery_reference_mismatch"}
    BY DEF NotificationIssues
  <2> QED
    BY <1>3, <1>4, <2>1 DEF NeverRaised
<1>5. /\ LifecycleIssues(r) \cap NeverRaised = {} /\ MonetizationIssues(r, m) \cap NeverRaised = {}
      /\ DailyIssues(m) \cap NeverRaised = {}
  BY DEF LifecycleIssues, MonetizationIssues, DailyIssues, NeverRaised
<1>6. /\ SessionDrift(m, since) \cap NeverRaised = {} /\ LifecycleDrift(r, since) \cap NeverRaised = {}
      /\ MonetizationDrift(r) \cap NeverRaised = {} /\ DailyDrift(m) \cap NeverRaised = {}
  BY DEF SessionDrift, LifecycleDrift, MonetizationDrift, DailyDrift, NeverRaised
<1>7. Issues(r, m) \cap NeverRaised = {}
  BY <1>1, <1>2, <1>4, <1>5 DEF Issues, Domains
<1>8. Drift(r, m, since) \cap NeverRaised = {}
  BY <1>1, <1>6 DEF Drift, Domains
<1> QED
  BY <1>7, <1>8

\* What keeps the alarms of every domain to their causes.
AlarmsInv ==
    /\ Uncrossed /\ TracesAreRead
    /\ LifecycleInv /\ NoticeRows /\ NoticeInv /\ MonetizationInv /\ DailyInv /\ SessionInv

\* The step that ends a report or check.
AlarmsNeedCauseStep ==
    Concludes =>
        /\ review'.found \cap NeverRaised = {}
        /\ ~review.overlapped /\ ~crossed => \A code \in review'.found : Cause(code, review.since)

LEMMA EndsAreCaused ==
    ASSUME OversightShape, RepairInv, AlarmsInv, [OversightNext]_oversightVars
    PROVE  AlarmsNeedCauseStep
<1> SUFFICES ASSUME Concludes
             PROVE  /\ review'.found \cap NeverRaised = {}
                    /\ ~review.overlapped /\ ~crossed => Caused(review'.found, review.since)
  BY DEF AlarmsNeedCauseStep, Caused
<1>1. /\ EndReview /\ Clock \in Nat /\ IsReview(review, Clock) /\ journal \in Seq(DatedEntry(Clock))
      /\ domain \in Domains
  BY OnlyEndsConclude, BoundsAreNats DEF OversightShape, Clock
<1>2. PICK f : f = IF review.what = "report" THEN Issues(review.rows, review.traces)
                   ELSE Drift(review.rows, review.traces, review.since)
  OBVIOUS
<1>3. review' = [review EXCEPT !.pc = "done", !.found = f] /\ review.pc = "reading"
  BY <1>1, <1>2 DEF EndReview
<1>4. review'.found = f
  BY <1>1, <1>3, ReviewFields
<1>5. f \cap NeverRaised = {}
  BY <1>2, SomeAreNeverRaised DEF AlarmsInv
<1>6. ASSUME ~review.overlapped, ~crossed PROVE Caused(f, review.since)
  <2>1. review.rows = columns /\ ToCome(<<>>)
    BY <1>3, <1>6 DEF RepairInv, Reviewed, ToCome
  <2>2. review.traces = Now
    BY <1>3, <1>6 DEF AlarmsInv, TracesAreRead
  <2>3. PICK since \in Nat : since = review.since
    BY <1>1 DEF IsReview
  <2>4. f = Issues(columns, Now) \/ f = Drift(columns, Now, since)
    BY <1>2, <2>1, <2>2, <2>3
  <2>5. CASE domain = "lifecycle"
    <3>1. LifecycleToCome(<<>>)
      BY <1>6, <2>1, <2>5 DEF AlarmsInv, LifecycleInv
    <3>2. LifecycleIssues(columns) = {} /\ LifecycleDrift(columns, since) = {}
      BY <1>1, <3>1, LifecycleAgrees
    <3>3. f = {}
      BY <2>4, <2>5, <3>2 DEF Issues, Drift
    <3> QED
      BY <3>3 DEF Caused
  <2>6. CASE domain = "monetization"
    <3>1. MonetizationToCome(<<>>)
      BY <1>6, <2>1, <2>6 DEF AlarmsInv, MonetizationInv
    <3>2. DecidedInTurn /\ UndatedDecisions /\ OffersSettled
      BY <3>1, NothingLeftSettles
    <3>3. Caused(MonetizationIssues(columns, Now), since) /\ Caused(MonetizationDrift(columns), since)
      BY <1>1, <3>2, OffersAgree
    <3>4. f = MonetizationIssues(columns, Now) \/ f = MonetizationDrift(columns)
      BY <2>4, <2>6 DEF Issues, Drift
    <3> QED
      BY <2>3, <3>3, <3>4
  <2>7. CASE domain = "notification"
    <3>1. NoticeToCome(<<>>) /\ NoticeRows
      BY <1>6, <2>1, <2>7 DEF AlarmsInv, NoticeInv
    <3>2. Caused(NotificationIssues(columns, Now), since)
      BY <1>1, <2>7, <3>1, NoticesAgree
    <3>3. f = NotificationIssues(columns, Now) \/ f = {}
      BY <2>4, <2>7 DEF Issues, Drift
    <3> QED
      BY <2>3, <3>2, <3>3 DEF Caused
  <2>8. CASE domain = "daily"
    <3>1. MissionsPaired /\ FirstResolution
      BY <1>6, <2>8 DEF AlarmsInv, DailyInv
    <3>2. Caused(DailyIssues(Now), since) /\ DailyDrift(Now) = {}
      BY <1>1, <3>1, MissionsAgree
    <3>3. f = DailyIssues(Now) \/ f = DailyDrift(Now)
      BY <2>4, <2>8 DEF Issues, Drift
    <3> QED
      BY <2>3, <3>2, <3>3 DEF Caused
  <2>9. CASE domain = "session"
    <3>1. SessionsKnown
      BY <1>6, <2>9 DEF AlarmsInv, SessionInv
    <3>2. Caused(SessionDrift(Now, since), since) /\ SessionIssues(Now) = {}
      BY <1>1, <3>1, SessionsAgree, LookedUpByReference
    <3>3. f = SessionIssues(Now) \/ f = SessionDrift(Now, since)
      BY <2>4, <2>9 DEF Issues, Drift
    <3> QED
      BY <2>3, <3>2, <3>3 DEF Caused
  <2> QED
    BY <1>1, <2>5, <2>6, <2>7, <2>8, <2>9 DEF Domains
<1> QED
  BY <1>4, <1>5, <1>6

LEMMA AlarmsAtFirst == OversightInit => AlarmsInv
BY UncrossedAtFirst, LifecycleAtFirst, NoticeAtFirst, MonetizationAtFirst, DailyAtFirst, SessionAtFirst DEF AlarmsInv

LEMMA AlarmsKept == OversightShape /\ AlarmsInv /\ [OversightNext]_oversightVars => AlarmsInv'
BY UncrossedKept, TracesReadKept, LifecycleKept, NoticeRowsKept, NoticeKept, MonetizationKept, DailyKept, SessionKept
   DEF AlarmsInv

\* What a report or check that nothing overlapped raises about a user whose requests and
\* repairs never overlapped or died has its cause in the rows, and four codes are raised by
\* no interleaving, for any requests, stages, window and earlier repairs.
THEOREM AlarmsHaveCauses == OversightSpec => AlarmsNeedCause
<1>1. OversightInit => OversightShape /\ RepairInv /\ AlarmsInv
  BY ShapeAtFirst, RepairAtFirst, AlarmsAtFirst
<1>2. OversightShape /\ RepairInv /\ AlarmsInv /\ [OversightNext]_oversightVars
      => (OversightShape /\ RepairInv /\ AlarmsInv)'
  BY ShapeKept, RepairKept, AlarmsKept
<1>3. OversightShape /\ RepairInv /\ AlarmsInv /\ [OversightNext]_oversightVars => AlarmsNeedCauseStep
  BY EndsAreCaused
<1> QED
  BY <1>1, <1>2, <1>3, PTL DEF OversightSpec, AlarmsNeedCause, AlarmsNeedCauseStep

-----------------------------------------------------------------------------
(***************************************************************************)
(* The services side by side (Operations): a behaviour of all of them is   *)
(* one of each, so that what is proved of one alone holds of it there.     *)
(***************************************************************************)

\* What starts all of them starts each.
LEMMA EachStarts ==
    OperationsInit => /\ ExperimentsInit /\ RegistryInit /\ SubscriptionsInit /\ EventIngestInit /\ HealthSignalsInit
                      /\ OversightInit /\ AdmissionInit
BY Zenon DEF OperationsInit

\* A step of one of them is a step of it, and leaves the others as they were.
LEMMA EachSteps ==
    [OperationsNext]_operationsVars =>
        /\ [ExperimentsNext]_experimentVars /\ [RegistryNext]_registryVars /\ [SubscriptionsNext]_subscriptionsVars
        /\ [EventIngestNext]_eventIngestVars /\ [HealthSignalsNext]_healthSignalsVars
        /\ [OversightNext]_oversightVars /\ [AdmissionNext]_admissionVars
<1>1. CASE UNCHANGED operationsVars
    BY <1>1 DEF operationsVars
<1>2. CASE OperationsNext
    BY <1>2, Zenon DEF OperationsNext, Rest
<1> QED
    BY <1>1, <1>2

(***************************************************************************)
(* Every behaviour of these services together is one of each: the theorems *)
(* above hold of OperationsSpec, which the runs check.                     *)
(***************************************************************************)
THEOREM OperationsAreEach ==
    OperationsSpec => /\ ExperimentsSpec /\ RegistrySpec /\ SubscriptionsSpec /\ EventIngestSpec /\ HealthSignalsSpec
                      /\ OversightSpec /\ AdmissionSpec
BY EachStarts, EachSteps, PTL DEF OperationsSpec, ExperimentsSpec, RegistrySpec, SubscriptionsSpec, EventIngestSpec,
    HealthSignalsSpec, OversightSpec, AdmissionSpec

\* The shape of the state that each of these services keeps holds when all of them run, whichever
\* of them takes the next step.
THEOREM OperationsTypesCorrect == OperationsSpec => []OperationsTypeOK
<1>1. /\ ExperimentsTypeOK /\ RegistryTypeOK /\ SubscriptionsTypeOK /\ EventIngestTypeOK /\ HealthSignalsTypeOK
      /\ OversightTypeOK /\ AdmissionTypeOK
      /\ component \in Components
      => OperationsTypeOK
  BY DEF OperationsTypeOK, Components
<1>2. OperationsSpec => [](component \in Components)
  <2>1. OperationsInit => component \in Components
    BY DEF OperationsInit
  <2>2. component \in Components /\ [OperationsNext]_operationsVars => (component \in Components)'
    <3>1. CASE UNCHANGED operationsVars
      BY <3>1 DEF operationsVars
    <3>2. CASE OperationsNext
      BY <3>2, Zenon DEF OperationsNext, Rest
    <3> QED
      BY <3>1, <3>2
  <2> QED
    BY <2>1, <2>2, PTL DEF OperationsSpec
<1> QED
  BY <1>1, <1>2, OperationsAreEach, ExperimentsTypeCorrect, RegistryTypeCorrect, SubscriptionsTypeCorrect,
     EventIngestTypeCorrect, HealthSignalsTypeCorrect, OversightTypeCorrect, AdmissionTypeCorrect, PTL
=============================================================================

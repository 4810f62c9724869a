------------------------------ MODULE Admission -------------------------------
(***************************************************************************)
(* What one user may use in a day.  The middleware limits heavy requests   *)
(* per window, compares the usage log with the user's limits, runs the     *)
(* handler and then appends to the log: nothing is reserved in between.    *)
(* Handlers call providers behind retries, a circuit breaker that lives as *)
(* long as its request, and a table of translations; words are enriched by *)
(* jobs, which append to the same log.                                     *)
(***************************************************************************)
EXTENDS Integers, FiniteSets

CONSTANTS
    Callers,            \* concurrent requests
    Phrases,            \* texts to translate
    Items,              \* rows of new words, which jobs enrich; bound: later words are not enriched
    PerWindow,          \* heavy requests that a window allows
    RequestLimit, TokenLimit,   \* of a day
    Attempts,           \* of one call of a provider
    BreakerThreshold,   \* failures that open the breaker
    JobRetries,
    MaxArrivals         \* bound: requests

ASSUME AdmissionAssumption ==
    /\ {PerWindow, RequestLimit, TokenLimit, JobRetries, MaxArrivals} \subseteq Nat
    /\ {Attempts, BreakerThreshold} \subseteq Nat \ {0}
    /\ IsFiniteSet(Callers) /\ Callers # {} /\ Phrases # {}

VARIABLES
    bucket,             \* heavy requests in this window
    usage,              \* of the log, the rows of today and their tokens
    calls,              \* the requests
    translations,       \* the phrases in translation_cache
    jobs,
    deadLetters,        \* items whose job was sent to the dead-letter queue
    arrivals,           \* requests so far
    paid                \* what was called and logged; not in the code, see PaidFor

admissionVars == <<bucket, usage, calls, translations, jobs, deadLetters, arrivals, paid>>

\* "plain" handlers call no provider, "translate" adds a word, and a "stream" is sent after its
\* request was logged.
CallKinds == {"plain", "translate", "chat", "stream"}
Heavy == CallKinds \ {"plain"}

\* tries, failures and open: attempts of the call, and the breaker that the request has built.
Call == [at : {"idle", "quota", "handler", "calling", "saving", "learning", "logging"}, kind : CallKinds, phrase : Phrases,
         tries : 0 .. Attempts, failures : 0 .. Attempts, open : BOOLEAN, spent : 0 .. 1]

NoCall == [at |-> "idle", kind |-> "plain", phrase |-> CHOOSE p \in Phrases : TRUE,
           tries |-> 0, failures |-> 0, open |-> FALSE, spent |-> 0]

\* "enriched": the row of the word is committed, the log is not yet.
Job == [at : {"none", "queued", "running", "enriched", "committed", "done", "failed"}, tries : 0 .. JobRetries]

\* A worker has the job, and has not acknowledged it.
InWorker == {"running", "enriched", "committed"}

\* translated: translations that the provider gave; raced: phrases that were looked up while
\* another request was at them; lost: phrases whose answer came too late; unsaved: phrases whose
\* answer was not saved; charged: log rows of a job; jobRows: the rows of today that are jobs';
\* late: how often a job raised when it had been charged; redelivered: jobs that were given to a
\* worker twice without a retry.
PaidFor == [translated : [Phrases -> Nat], raced : SUBSET Phrases, lost : SUBSET Phrases, unsaved : SUBSET Phrases,
         charged : [Items -> Nat], jobRows : Nat, late : [Items -> Nat], redelivered : SUBSET Items]

AdmissionInit ==
    /\ bucket = 0
    /\ usage = [rows |-> 0, tokens |-> 0]
    /\ calls = [c \in Callers |-> NoCall]
    /\ translations = {}
    /\ jobs = [i \in Items |-> [at |-> "none", tries |-> 0]]
    /\ deadLetters = {}
    /\ arrivals = 0
    /\ paid = [translated |-> [p \in Phrases |-> 0], raced |-> {}, lost |-> {}, unsaved |-> {},
               charged |-> [i \in Items |-> 0], jobRows |-> 0, late |-> [i \in Items |-> 0], redelivered |-> {}]

-----------------------------------------------------------------------------
(***************************************************************************)
(* The middleware.                                                         *)
(***************************************************************************)
\* A request that the window refuses is counted in it too.
Arrive(c) ==
    /\ calls[c].at = "idle"
    /\ arrivals < MaxArrivals
    /\ arrivals' = arrivals + 1
    /\ \E k \in CallKinds, p \in Phrases :
        /\ k # "translate" => p = NoCall.phrase
        /\ bucket' = IF k \in Heavy THEN bucket + 1 ELSE bucket
        /\ calls' = IF k \in Heavy /\ bucket' > PerWindow THEN calls
                    ELSE [calls EXCEPT ![c] = [NoCall EXCEPT !.at = "quota", !.kind = k, !.phrase = p]]
    /\ UNCHANGED <<usage, translations, jobs, deadLetters, paid>>

WindowPasses ==
    /\ bucket > 0
    /\ bucket' = 0
    /\ UNCHANGED <<usage, calls, translations, jobs, deadLetters, arrivals, paid>>

\* The rows of the day that has ended are not read again.
UsageMidnight ==
    /\ usage.rows > 0
    /\ usage' = [rows |-> 0, tokens |-> 0]
    /\ paid' = [paid EXCEPT !.jobRows = 0]
    /\ UNCHANGED <<bucket, calls, translations, jobs, deadLetters, arrivals>>

\* Slip: the request that reaches the limit is not counted.
SlipEntitled == usage.rows <= RequestLimit /\ usage.tokens < TokenLimit

Entitled == usage.rows < RequestLimit /\ usage.tokens < TokenLimit

\* What a handler does first.
FirstStep(k) == CASE k = "translate" -> "handler" [] k = "chat" -> "calling" [] OTHER -> "logging"

EvaluateRequest(c) ==
    /\ calls[c].at = "quota"
    /\ calls' = [calls EXCEPT ![c] = IF Entitled THEN [@ EXCEPT !.at = FirstStep(calls[c].kind)] ELSE NoCall]
    /\ UNCHANGED <<bucket, usage, translations, jobs, deadLetters, arrivals, paid>>

Charged(tokens) == [rows |-> usage.rows + 1, tokens |-> usage.tokens + tokens]

AfterLog(q) == IF q.kind = "stream" THEN [q EXCEPT !.at = "calling"] ELSE NoCall

\* Failed requests are logged as well.  What a stream will spend is not known yet.
LogUsage(c) ==
    /\ calls[c].at = "logging"
    /\ usage' = Charged(calls[c].spent)
    /\ calls' = [calls EXCEPT ![c] = AfterLog(@)]
    /\ UNCHANGED <<bucket, translations, jobs, deadLetters, arrivals, paid>>

\* The answer is sent all the same.
LogFails(c) ==
    /\ calls[c].at = "logging"
    /\ calls' = [calls EXCEPT ![c] = AfterLog(@)]
    /\ UNCHANGED <<bucket, usage, translations, jobs, deadLetters, arrivals, paid>>

-----------------------------------------------------------------------------
(***************************************************************************)
(* Providers.                                                              *)
(***************************************************************************)
\* Slip: the table is asked with other keys than it is written with.
NeverSaved(p) == FALSE

Saved(p) == p \in translations

LookUp(c) ==
    /\ calls[c].at = "handler"
    /\ LET p == calls[c].phrase
           others == \E d \in Callers \ {c} : calls[d].phrase = p /\ calls[d].at \in {"calling", "saving"} /\ calls[d].kind = "translate"
       IN /\ calls' = [calls EXCEPT ![c].at = IF Saved(p) THEN "learning" ELSE "calling"]
          /\ paid' = IF others /\ ~Saved(p) THEN [paid EXCEPT !.raced = @ \cup {p}] ELSE paid
    /\ UNCHANGED <<bucket, usage, translations, jobs, deadLetters, arrivals>>

\* The breaker and the attempts are forgotten.  A stream has been answered already.
Finished(q) == IF q.kind = "stream" THEN NoCall ELSE [NoCall EXCEPT !.at = "logging", !.spent = q.spent]

\* An attempt that is answered closes the breaker.
AttemptSucceeds(c) ==
    /\ calls[c].at = "calling" /\ ~calls[c].open
    /\ calls' = [calls EXCEPT ![c] = IF @.kind = "translate" THEN [@ EXCEPT !.at = "saving", !.tries = 0, !.failures = 0]
                                     ELSE Finished([@ EXCEPT !.spent = 1])]
    /\ paid' = IF calls[c].kind = "translate" THEN [paid EXCEPT !.translated[calls[c].phrase] = @ + 1] ELSE paid
    /\ UNCHANGED <<bucket, usage, translations, jobs, deadLetters, arrivals>>

\* The next attempt, or the exception once there is none.
Retry(q) == IF q.tries + 1 < Attempts THEN [q EXCEPT !.tries = @ + 1] ELSE Finished(q)

\* The provider may have translated, and its answer be lost or past the timeout.  Bound: once per
\* phrase.
AttemptFails(c) ==
    /\ calls[c].at = "calling" /\ ~calls[c].open
    /\ LET n == calls[c].failures + 1
       IN calls' = [calls EXCEPT ![c] = Retry([@ EXCEPT !.failures = n, !.open = n >= BreakerThreshold])]
    /\ \/ UNCHANGED paid
       \/ LET p == calls[c].phrase
          IN /\ calls[c].kind = "translate" /\ p \notin paid.lost
             /\ paid' = [paid EXCEPT !.translated[p] = @ + 1, !.lost = @ \cup {p}]
    /\ UNCHANGED <<bucket, usage, translations, jobs, deadLetters, arrivals>>

\* Not a failure to the breaker, but an attempt to the retry loop.
AttemptBlocked(c) ==
    /\ calls[c].at = "calling" /\ calls[c].open
    /\ calls' = [calls EXCEPT ![c] = Retry(@)]
    /\ UNCHANGED <<bucket, usage, translations, jobs, deadLetters, arrivals, paid>>

\* The failures stay: the next one opens it again.
BreakerElapses(c) ==
    /\ calls[c].at = "calling" /\ calls[c].open
    /\ calls' = [calls EXCEPT ![c].open = FALSE]
    /\ UNCHANGED <<bucket, usage, translations, jobs, deadLetters, arrivals, paid>>

\* An answer with an error status, or without a translation: a success to the breaker, and not retried.
AnswerUnusable(c) ==
    /\ calls[c].at = "calling" /\ ~calls[c].open /\ calls[c].kind = "translate"
    /\ calls' = [calls EXCEPT ![c] = Finished(@)]
    /\ UNCHANGED <<bucket, usage, translations, jobs, deadLetters, arrivals, paid>>

SaveTranslation(c) ==
    /\ calls[c].at = "saving"
    /\ translations' = translations \cup {calls[c].phrase}
    /\ calls' = [calls EXCEPT ![c].at = "learning"]
    /\ UNCHANGED <<bucket, usage, jobs, deadLetters, arrivals, paid>>

SaveFails(c) ==
    /\ calls[c].at = "saving"
    /\ calls' = [calls EXCEPT ![c] = Finished(@)]
    /\ paid' = [paid EXCEPT !.unsaved = @ \cup {calls[c].phrase}]
    /\ UNCHANGED <<bucket, usage, translations, jobs, deadLetters, arrivals>>

-----------------------------------------------------------------------------
(***************************************************************************)
(* Enrichment jobs.                                                        *)
(***************************************************************************)
\* The processor of word_learned queues the enrichment of the new row.
LearnWord(c) ==
    /\ calls[c].at = "learning"
    /\ \/ \E i \in Items : jobs[i].at = "none" /\ jobs' = [jobs EXCEPT ![i].at = "queued"]
       \/ (\A i \in Items : jobs[i].at # "none") /\ UNCHANGED jobs
    /\ calls' = [calls EXCEPT ![c] = Finished(@)]
    /\ UNCHANGED <<bucket, usage, translations, deadLetters, arrivals, paid>>

StartJob(i) ==
    /\ jobs[i].at = "queued"
    /\ jobs' = [jobs EXCEPT ![i].at = "running"]
    /\ UNCHANGED <<bucket, usage, calls, translations, deadLetters, arrivals, paid>>

\* The repository commits the row of the word before the log is written.
EnrichRow(i) ==
    /\ jobs[i].at = "running"
    /\ jobs' = [jobs EXCEPT ![i].at = "enriched"]
    /\ UNCHANGED <<bucket, usage, calls, translations, deadLetters, arrivals, paid>>

CommitJob(i) ==
    /\ jobs[i].at = "enriched"
    /\ jobs' = [jobs EXCEPT ![i].at = "committed"]
    /\ usage' = Charged(1)
    /\ paid' = [paid EXCEPT !.charged[i] = @ + 1, !.jobRows = @ + 1]
    /\ UNCHANGED <<bucket, calls, translations, deadLetters, arrivals>>

\* Acknowledged late.
Acknowledge(i) ==
    /\ jobs[i].at = "committed"
    /\ jobs' = [jobs EXCEPT ![i].at = "done"]
    /\ UNCHANGED <<bucket, usage, calls, translations, deadLetters, arrivals, paid>>

\* The failure handler looks for a request that the signal does not pass on, and takes it that
\* the job was not retried.
RetriesSeen(i) == 0

\* Anything that the task raises has it queued again: a provider's error, the soft time limit, or
\* once the log is committed, a session that does not close or a commit whose reply was lost.
JobRaises(i) ==
    /\ jobs[i].at \in InWorker
    /\ jobs[i].tries < JobRetries
    /\ jobs' = [jobs EXCEPT ![i] = [at |-> "queued", tries |-> @.tries + 1]]
    /\ paid' = IF jobs[i].at = "committed" THEN [paid EXCEPT !.late[i] = @ + 1] ELSE paid
    /\ UNCHANGED <<bucket, usage, calls, translations, deadLetters, arrivals>>

JobFails(i) ==
    /\ jobs[i].at \in InWorker
    /\ jobs[i].tries = JobRetries
    /\ jobs' = [jobs EXCEPT ![i].at = "failed"]
    /\ deadLetters' = IF RetriesSeen(i) >= JobRetries THEN deadLetters \cup {i} ELSE deadLetters
    /\ UNCHANGED <<bucket, usage, calls, translations, arrivals, paid>>

\* The hard time limit kills the task, which is neither retried nor given to the failure handler.
JobTimesOut(i) ==
    /\ jobs[i].at \in InWorker
    /\ jobs' = [jobs EXCEPT ![i].at = "failed"]
    /\ UNCHANGED <<bucket, usage, calls, translations, deadLetters, arrivals, paid>>

\* A worker that dies, or is cut from its broker, does not acknowledge the job, and it is delivered
\* again with the tries it had.  Bound: a job that was delivered again is not once more when it has
\* been charged.
WorkerDies(i) ==
    /\ jobs[i].at \in InWorker
    /\ i \in paid.redelivered => jobs[i].at # "committed"
    /\ jobs' = [jobs EXCEPT ![i].at = "queued"]
    /\ paid' = [paid EXCEPT !.redelivered = @ \cup {i}]
    /\ UNCHANGED <<bucket, usage, calls, translations, deadLetters, arrivals>>

-----------------------------------------------------------------------------
Serve(c) ==
    \/ Arrive(c) \/ EvaluateRequest(c) \/ LogUsage(c) \/ LogFails(c)
    \/ LookUp(c) \/ SaveTranslation(c) \/ SaveFails(c) \/ LearnWord(c)
    \/ AttemptSucceeds(c) \/ AttemptFails(c) \/ AttemptBlocked(c) \/ BreakerElapses(c) \/ AnswerUnusable(c)

RunJob(i) ==
    \/ StartJob(i) \/ EnrichRow(i) \/ CommitJob(i) \/ Acknowledge(i)
    \/ JobRaises(i) \/ JobFails(i) \/ JobTimesOut(i) \/ WorkerDies(i)

AdmissionNext ==
    \/ WindowPasses
    \/ UsageMidnight
    \/ \E c \in Callers : Serve(c)
    \/ \E i \in Items : RunJob(i)

AdmissionSpec == AdmissionInit /\ [][AdmissionNext]_admissionVars

-----------------------------------------------------------------------------
AdmissionTypeOK ==
    /\ bucket \in Nat
    /\ usage \in [rows : Nat, tokens : Nat]
    /\ calls \in [Callers -> Call]
    /\ translations \subseteq Phrases
    /\ jobs \in [Items -> Job]
    /\ deadLetters \subseteq Items
    /\ arrivals \in Nat
    /\ paid \in PaidFor

\* The quota is compared and the request logged in two transactions (main.py:107 and 141), and
\* requests that are admitted before midnight are logged after it; still, beyond what the jobs
\* have logged, a day passes its limit only by the requests that were in progress together with
\* the last one that was admitted.
OverrunIsBounded ==
    usage.rows <= RequestLimit + Cardinality(Callers) - 1 + paid.jobRows

\* A phrase is translated again only if two requests looked it up at once, an answer came too late
\* or a translation could not be saved: not by open breakers or by attempts that fail at the
\* provider.  A word's enrichment is charged again only by a try that follows one which raised when
\* it had been charged, so that retries charge it JobRetries times more at most; a delivery that
\* repeats a try, because its worker died, is the only thing that charges more
\* (cached_translator.py:27, libretranslate_provider.py:133, enrichment.py:23 and 78).
PaidForOnce ==
    /\ \A p \in Phrases : paid.translated[p] > 1 => p \in paid.raced \cup paid.lost \cup paid.unsaved
    /\ \A i \in Items \ paid.redelivered : /\ paid.charged[i] <= 1 + paid.late[i]
                                          /\ paid.charged[i] <= 1 + JobRetries
=============================================================================

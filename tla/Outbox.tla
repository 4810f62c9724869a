-------------------------------- MODULE Outbox --------------------------------
(***************************************************************************)
(* The transactional outbox: rows that Mutator.mutate inserts,             *)
(* OutboxWorker.run_once, which claims, publishes and settles them, and    *)
(* the reference consumer, IdempotentConsumer.consume_once.                *)
(*                                                                         *)
(* A worker claims rows in one transaction, which commits and so releases  *)
(* the row locks, publishes outside any transaction, and settles what it   *)
(* published and what failed in a second transaction.                      *)
(***************************************************************************)
EXTENDS Integers, FiniteSets, Sequences

CONSTANTS
    NumEvents,      \* bound: outbox rows ever inserted; their ids are 1 .. NumEvents
    Workers,        \* OutboxWorker processes
    BatchSize,      \* rows that one claim takes
    RetryLimit,     \* 10 in increment_retry_many
    MaxFaults       \* bound: publish errors, worker crashes and handler errors

ASSUME ConstantsAssumption ==
    /\ NumEvents \in Nat
    /\ BatchSize \in Nat \ {0}
    /\ RetryLimit \in Nat
    /\ MaxFaults \in Nat

Events == 1 .. NumEvents

VARIABLES
    rows,           \* outbox_events: the rows, by id
    worker,         \* run_once of each worker
    broker,         \* how many deliveries of each event wait for the consumer
    delivered,      \* how many publishes of each event reached the broker
    failures,       \* how many publishes of each event raised
    seen,           \* InMemoryConsumerDedupeStore._seen
    handled,        \* how often the handler completed for each event
    faults          \* faults so far

consumer == <<seen, handled>>
vars == <<rows, worker, broker, delivered, failures, consumer, faults>>

\* due: next_attempt_at <= now
RowType == [published : BOOLEAN, dead : BOOLEAN, due : BOOLEAN, retries : Nat]
NewRow == [published |-> FALSE, dead |-> FALSE, due |-> TRUE, retries |-> 0]

WorkerType ==
    [pc : {"publishing", "settling"}, batch : SUBSET Events,
     published : SUBSET Events, failed : SUBSET Events, counts : [Events -> Nat]]
IdleWorker ==
    [pc |-> "idle", batch |-> {}, published |-> {}, failed |-> {},
     counts |-> [e \in Events |-> 0]]

Init ==
    /\ rows = <<>>
    /\ worker = [w \in Workers |-> IdleWorker]
    /\ broker = [e \in Events |-> 0]
    /\ delivered = [e \in Events |-> 0]
    /\ failures = [e \in Events |-> 0]
    /\ seen = {}
    /\ handled = [e \in Events |-> 0]
    /\ faults = 0

-----------------------------------------------------------------------------
\* outbox_events.insert, in the transaction of a mutation that commits.
Insert ==
    /\ Len(rows) < NumEvents
    /\ rows' = Append(rows, NewRow)
    /\ UNCHANGED <<worker, broker, delivered, failures, consumer, faults>>

\* The backoff of a row ends: next_attempt_at is in the past.
BecomeDue(e) ==
    /\ e \in DOMAIN rows
    /\ ~rows[e].due
    /\ rows' = [rows EXCEPT ![e].due = TRUE]
    /\ UNCHANGED <<worker, broker, delivered, failures, consumer, faults>>

\* Definitions whose name begins with Slip are variants that a mistake in the
\* code would give; no run uses them as they stand (README, "Slips").
SlipClaimableOnce ==    \* rows that were retried are left alone
    {e \in DOMAIN rows : ~rows[e].published /\ ~rows[e].dead /\ rows[e].retries = 0}

Claimable == {e \in DOMAIN rows : ~rows[e].published /\ ~rows[e].dead /\ rows[e].due}

\* claim_unpublished and its commit: from here on nothing is locked.
Claim(w) ==
    /\ worker[w] = IdleWorker
    /\ Claimable # {}
    /\ worker' = [worker EXCEPT ![w].pc = "publishing", ![w].batch =
                    {e \in Claimable : Cardinality({d \in Claimable : d <= e}) <= BatchSize}]
    /\ UNCHANGED <<rows, broker, delivered, failures, consumer, faults>>

-----------------------------------------------------------------------------
(***************************************************************************)
(* The publish loop, in id order.  A publisher that raises may or may not  *)
(* have reached the broker.                                                *)
(***************************************************************************)
NextToPublish(w, e) ==
    /\ worker[w].pc = "publishing"
    /\ e \in worker[w].batch
    /\ \A d \in worker[w].batch : e <= d

Deliver(e) ==
    /\ broker' = [broker EXCEPT ![e] = @ + 1]
    /\ delivered' = [delivered EXCEPT ![e] = @ + 1]

PublishOk(w, e) ==
    /\ NextToPublish(w, e)
    /\ Deliver(e)
    /\ worker' = [worker EXCEPT ![w].batch = @ \ {e}, ![w].published = @ \cup {e}]
    /\ UNCHANGED <<rows, failures, consumer, faults>>

\* A publish that raised, recorded as if it had returned.
SlipPublishRaises(w, e) ==
    /\ NextToPublish(w, e)
    /\ faults < MaxFaults
    /\ faults' = faults + 1
    /\ worker' = [worker EXCEPT ![w].batch = @ \ {e}, ![w].published = @ \cup {e}]
    /\ UNCHANGED <<rows, broker, delivered, failures, consumer>>

PublishRaises(w, e) ==
    /\ NextToPublish(w, e)
    /\ faults < MaxFaults
    /\ faults' = faults + 1
    /\ failures' = [failures EXCEPT ![e] = @ + 1]
    /\ worker' = [worker EXCEPT ![w].batch = @ \ {e}, ![w].failed = @ \cup {e}]
    /\ Deliver(e) \/ UNCHANGED <<broker, delivered>>
    /\ UNCHANGED <<rows, consumer>>

-----------------------------------------------------------------------------
(***************************************************************************)
(* The settling transaction.  increment_retry_many reads the retry counts  *)
(* of the failed rows, without a lock, and then writes each one plus one.  *)
(* Neither update looks at what the row has become since the claim.        *)
(***************************************************************************)
ReadRetryCounts(w) ==
    /\ worker[w].pc = "publishing"
    /\ worker[w].batch = {}
    /\ worker' = [worker EXCEPT ![w].pc = "settling", ![w].counts =
          [e \in Events |-> IF e \in worker[w].failed THEN rows[e].retries ELSE 0]]
    /\ UNCHANGED <<rows, broker, delivered, failures, consumer, faults>>

SlipRetried(row, count) ==
    IF count + 1 >= RetryLimit
    THEN [row EXCEPT !.retries = count + 1, !.dead = TRUE]
    ELSE [row EXCEPT !.retries = count + 1, !.due = FALSE]

Retried(row, count) ==
    IF count + 1 > RetryLimit
    THEN [row EXCEPT !.retries = count + 1, !.dead = TRUE]
    ELSE [row EXCEPT !.retries = count + 1, !.due = FALSE]

Settle(w) ==
    /\ worker[w].pc = "settling"
    /\ rows' = [e \in DOMAIN rows |->
                  CASE e \in worker[w].published -> [rows[e] EXCEPT !.published = TRUE]
                    [] e \in worker[w].failed    -> Retried(rows[e], worker[w].counts[e])
                    [] OTHER                     -> rows[e]]
    /\ worker' = [worker EXCEPT ![w] = IdleWorker]
    /\ UNCHANGED <<broker, delivered, failures, consumer, faults>>

\* The process dies, or the settling transaction does (a statement timeout, or
\* a deadlock with another settling transaction): nothing is recorded.
Crash(w) ==
    /\ worker[w] # IdleWorker
    /\ faults < MaxFaults
    /\ faults' = faults + 1
    /\ worker' = [worker EXCEPT ![w] = IdleWorker]
    /\ UNCHANGED <<rows, broker, delivered, failures, consumer>>

-----------------------------------------------------------------------------
(***************************************************************************)
(* consume_once: the dedupe key is marked before the handler runs.  A      *)
(* delivery whose consume_once raised is delivered again.                  *)
(***************************************************************************)
SlipMarkOnce(e) == TRUE

MarkOnce(e) == e \notin seen

ConsumeDuplicate(e) ==
    /\ broker[e] > 0
    /\ ~MarkOnce(e)
    /\ broker' = [broker EXCEPT ![e] = @ - 1]
    /\ UNCHANGED <<rows, worker, delivered, failures, consumer, faults>>

Consume(e) ==
    /\ broker[e] > 0
    /\ MarkOnce(e)
    /\ seen' = seen \cup {e}
    /\ handled' = [handled EXCEPT ![e] = @ + 1]
    /\ broker' = [broker EXCEPT ![e] = @ - 1]
    /\ UNCHANGED <<rows, worker, delivered, failures, faults>>

ConsumeRaises(e) ==
    /\ broker[e] > 0
    /\ MarkOnce(e)
    /\ faults < MaxFaults
    /\ faults' = faults + 1
    /\ seen' = seen \cup {e}
    /\ UNCHANGED <<rows, worker, broker, delivered, failures, handled>>

-----------------------------------------------------------------------------
Run(w) ==
    \/ Claim(w)
    \/ \E e \in Events : PublishOk(w, e) \/ PublishRaises(w, e)
    \/ ReadRetryCounts(w)
    \/ Settle(w)

ConsumerNext(e) == Consume(e) \/ ConsumeDuplicate(e) \/ ConsumeRaises(e)

Next ==
    \/ Insert
    \/ \E w \in Workers : Run(w) \/ Crash(w)
    \/ \E e \in Events : BecomeDue(e) \/ ConsumerNext(e)

Spec == Init /\ [][Next]_vars

(***************************************************************************)
(* run_forever keeps every worker going, time passes, and the broker hands *)
(* deliveries to a consumer that is up.  Faults may but need not happen,   *)
(* and inserts need not either.                                            *)
(***************************************************************************)
Fairness ==
    /\ \A w \in Workers : WF_vars(Run(w))
    /\ \A e \in Events : WF_vars(BecomeDue(e)) /\ WF_vars(ConsumerNext(e))

FairSpec == Spec /\ Fairness

-----------------------------------------------------------------------------
Settled(e) == e \in DOMAIN rows /\ (rows[e].published \/ rows[e].dead)

TypeOK ==
    /\ rows \in Seq(RowType) /\ Len(rows) <= NumEvents
    /\ worker \in [Workers -> WorkerType \cup {IdleWorker}]
    /\ {broker, delivered, failures, handled} \subseteq [Events -> Nat]
    /\ seen \subseteq Events
    /\ faults \in 0 .. MaxFaults

\* run_once never records a publish that did not happen: a row is marked
\* published only after the broker has the event.
PublishedIsDelivered ==
    \A e \in DOMAIN rows : rows[e].published => delivered[e] > 0

\* A dead-lettered row has failed more than RetryLimit times; retry counts that
\* two workers read and write over each other only delay that.
DeadLetterEarned ==
    \A e \in DOMAIN rows :
        /\ rows[e].retries <= failures[e]
        /\ rows[e].dead => failures[e] > RetryLimit

\* The consumer's handler completes at most once for an event, however often
\* the event is published (test_duplicate_publish_processed_once).
HandledAtMostOnce == \A e \in Events : handled[e] <= 1

\* Every row that is inserted is published or dead-lettered in the end.
EventuallySettled == \A e \in Events : (e \in DOMAIN rows) ~> Settled(e)

\* Every published event is handled in the end.
PublishedIsHandled ==
    \A e \in Events : (e \in DOMAIN rows /\ rows[e].published) ~> handled[e] = 1

=============================================================================

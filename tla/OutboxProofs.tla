----------------------------- MODULE OutboxProofs -----------------------------
(***************************************************************************)
(* Proofs about the outbox, for any number of events, workers and faults.  *)
(***************************************************************************)
EXTENDS Outbox, FiniteSetTheorems, TLAPS

-----------------------------------------------------------------------------
(***************************************************************************)
(* The inductive invariant.  A worker's published events have been         *)
(* delivered, its failed ones are rows, which it does not publish again.   *)
(* Every worker that still has to record a failure of a row leaves room    *)
(* for it: what the row says, and what any worker has read of it, stays    *)
(* below the number of failures by the failures that are not yet recorded. *)
(***************************************************************************)
Unrecorded(e) == {w \in Workers : e \in worker[w].failed}

BatchesAreRows ==
    \A w \in Workers :
        /\ worker[w].batch \cup worker[w].failed \cup worker[w].published \subseteq DOMAIN rows
        /\ worker[w].batch \cap (worker[w].failed \cup worker[w].published) = {}
        /\ worker[w].failed \cap worker[w].published = {}

PublishesReached == \A w \in Workers : \A e \in worker[w].published : delivered[e] > 0

FailuresRecorded ==
    \A e \in DOMAIN rows :
        /\ IsFiniteSet(Unrecorded(e))
        /\ rows[e].retries + Cardinality(Unrecorded(e)) <= failures[e]
        /\ rows[e].dead => failures[e] > RetryLimit
        /\ \A w \in Unrecorded(e) : worker[w].pc = "settling" =>
              worker[w].counts[e] + Cardinality(Unrecorded(e)) <= failures[e]

MarkedOnce == \A e \in Events : handled[e] <= 1 /\ (e \notin seen => handled[e] = 0)

Inv == TypeOK /\ BatchesAreRows /\ PublishesReached /\ PublishedIsDelivered /\ FailuresRecorded /\ MarkedOnce

-----------------------------------------------------------------------------
LEMMA RowFields ==
    ASSUME TypeOK
    PROVE  /\ DOMAIN rows = 1 .. Len(rows) /\ Len(rows) \in Nat /\ DOMAIN rows \subseteq Events
           /\ \A e \in DOMAIN rows : rows[e] \in RowType
<1>1. rows \in Seq(RowType) /\ Len(rows) <= NumEvents
  BY DEF TypeOK
<1>2. DOMAIN rows = 1 .. Len(rows) /\ Len(rows) \in Nat /\ \A e \in DOMAIN rows : rows[e] \in RowType
  BY <1>1
<1>3. 1 .. Len(rows) \subseteq Events
  BY <1>1, <1>2, ConstantsAssumption DEF Events
<1>. QED  BY <1>2, <1>3

LEMMA WorkerFields ==
    ASSUME TypeOK, NEW w \in Workers
    PROVE  /\ worker[w].pc \in {"idle", "publishing", "settling"}
           /\ worker[w].batch \subseteq Events /\ worker[w].published \subseteq Events
           /\ worker[w].failed \subseteq Events /\ worker[w].counts \in [Events -> Nat]
           /\ worker[w].pc # "idle" => worker[w] \in WorkerType
           /\ worker[w].pc = "idle" => worker[w] = IdleWorker
<1>1. worker[w] \in WorkerType \/ worker[w] = IdleWorker
  BY DEF TypeOK
<1>2. CASE worker[w] \in WorkerType
  BY <1>2 DEF WorkerType
<1>3. CASE worker[w] = IdleWorker
  BY <1>3 DEF IdleWorker
<1>. QED  BY <1>1, <1>2, <1>3

LEMMA Idle == /\ IdleWorker.pc = "idle" /\ IdleWorker.batch = {} /\ IdleWorker.published = {} /\ IdleWorker.failed = {}
BY DEF IdleWorker

LEMMA InitiallyInv == Init => Inv
<1>. SUFFICES ASSUME Init PROVE Inv
  OBVIOUS
<1>. USE DEF Init
<1>1. TypeOK
  BY ConstantsAssumption DEF TypeOK
<1>2. BatchesAreRows /\ PublishesReached
  BY Idle DEF BatchesAreRows, PublishesReached
<1>3. PublishedIsDelivered /\ FailuresRecorded /\ MarkedOnce
  BY DEF PublishedIsDelivered, FailuresRecorded, MarkedOnce
<1>. QED  BY <1>1, <1>2, <1>3 DEF Inv

-----------------------------------------------------------------------------
\* A worker that records or forgets what failed leaves more room for the others.
LEMMA UnrecordedShrinks ==
    ASSUME NEW w \in Workers, NEW e, IsFiniteSet(Unrecorded(e)), worker'[w].failed = {},
           \A v \in Workers \ {w} : worker'[v] = worker[v]
    PROVE  /\ Unrecorded(e)' = Unrecorded(e) \ {w}
           /\ IsFiniteSet(Unrecorded(e)')
           /\ Cardinality(Unrecorded(e)') = Cardinality(Unrecorded(e)) - IF w \in Unrecorded(e) THEN 1 ELSE 0
<1>1. Unrecorded(e)' = Unrecorded(e) \ {w}
  BY DEF Unrecorded
<1>. QED  BY <1>1, FS_RemoveElement, FS_CardinalityType

LEMMA InsertKeepsInv ==
    ASSUME Inv, Insert
    PROVE  Inv'
<1>. USE DEF Insert
<1>0. rows \in Seq(RowType) /\ NewRow \in RowType
  BY DEF Inv, TypeOK, NewRow, RowType
<1>1. /\ rows' \in Seq(RowType) /\ Len(rows') = Len(rows) + 1 /\ DOMAIN rows' = DOMAIN rows \cup {Len(rows) + 1}
      /\ \A e \in DOMAIN rows : rows'[e] = rows[e]
      /\ rows'[Len(rows) + 1] = NewRow
  BY <1>0
<1>2. TypeOK'
  <2>1. Len(rows) + 1 <= NumEvents
    BY <1>0, ConstantsAssumption
  <2>. QED  BY <1>1, <2>1 DEF Inv, TypeOK, consumer
<1>3. BatchesAreRows' /\ PublishesReached' /\ MarkedOnce'
  BY <1>1, Zenon DEF Inv, BatchesAreRows, PublishesReached, MarkedOnce, consumer
<1>4. PublishedIsDelivered'
  BY <1>1 DEF Inv, PublishedIsDelivered, NewRow
<1>5. FailuresRecorded'
  <2>. SUFFICES ASSUME NEW e \in DOMAIN rows'
                PROVE  /\ IsFiniteSet(Unrecorded(e))
                       /\ rows'[e].retries + Cardinality(Unrecorded(e)) <= failures[e]
                       /\ rows'[e].dead => failures[e] > RetryLimit
                       /\ \A w \in Unrecorded(e) : worker[w].pc = "settling" =>
                             worker[w].counts[e] + Cardinality(Unrecorded(e)) <= failures[e]
    BY Zenon DEF FailuresRecorded, Unrecorded
  <2>1. CASE e \in DOMAIN rows
    <3>1. rows'[e] = rows[e]
      BY <1>1, <2>1
    <3>2. /\ IsFiniteSet(Unrecorded(e))
          /\ rows[e].retries + Cardinality(Unrecorded(e)) <= failures[e]
          /\ rows[e].dead => failures[e] > RetryLimit
          /\ \A w \in Unrecorded(e) : worker[w].pc = "settling" =>
                worker[w].counts[e] + Cardinality(Unrecorded(e)) <= failures[e]
      BY <2>1, Zenon DEF Inv, FailuresRecorded
    <3>. QED  BY <3>1, <3>2, Zenon
  <2>2. CASE e = Len(rows) + 1
    <3>1. e \notin DOMAIN rows /\ e \in Events
      BY <1>0, <2>2, ConstantsAssumption DEF Events
    <3>2. Unrecorded(e) = {}
      BY <3>1 DEF Inv, BatchesAreRows, Unrecorded
    <3>3. failures[e] \in Nat
      BY <3>1 DEF Inv, TypeOK
    <3>4. rows'[e].retries = 0 /\ ~rows'[e].dead
      BY <1>1, <2>2 DEF NewRow
    <3>5. IsFiniteSet(Unrecorded(e)) /\ Cardinality(Unrecorded(e)) = 0
      BY <3>2, FS_EmptySet
    <3>. QED  BY <3>2, <3>3, <3>4, <3>5
  <2>. QED  BY <1>1, <2>1, <2>2
<1>. QED  BY <1>2, <1>3, <1>4, <1>5 DEF Inv

LEMMA BecomeDueKeepsInv ==
    ASSUME Inv, NEW d, BecomeDue(d)
    PROVE  Inv'
<1>. USE DEF BecomeDue
<1>1. /\ DOMAIN rows' = DOMAIN rows /\ rows' \in Seq(RowType) /\ Len(rows') = Len(rows)
      /\ \A e \in DOMAIN rows : rows'[e].published = rows[e].published /\ rows'[e].dead = rows[e].dead
                                /\ rows'[e].retries = rows[e].retries
  <2>1. [rows[d] EXCEPT !.due = TRUE] \in RowType
    BY RowFields DEF Inv, RowType
  <2>2. rows \in Seq(RowType) /\ d \in DOMAIN rows /\ rows' = [rows EXCEPT ![d] = [rows[d] EXCEPT !.due = TRUE]]
    BY DEF Inv, TypeOK
  <2>3. DOMAIN rows' = DOMAIN rows /\ rows' \in Seq(RowType) /\ Len(rows') = Len(rows)
    BY <2>1, <2>2
  <2>4. ASSUME NEW e \in DOMAIN rows
        PROVE  /\ rows'[e].published = rows[e].published /\ rows'[e].dead = rows[e].dead
               /\ rows'[e].retries = rows[e].retries
    BY <2>2, RowFields DEF RowType, Inv
  <2>. QED  BY <2>3, <2>4
<1>2. TypeOK'
  BY <1>1 DEF Inv, TypeOK, consumer
<1>3. BatchesAreRows' /\ PublishesReached' /\ MarkedOnce'
  BY <1>1, Zenon DEF Inv, BatchesAreRows, PublishesReached, MarkedOnce, consumer
<1>4. PublishedIsDelivered'
  BY <1>1 DEF Inv, PublishedIsDelivered
<1>5. FailuresRecorded'
  BY <1>1 DEF Inv, FailuresRecorded, Unrecorded
<1>. QED  BY <1>2, <1>3, <1>4, <1>5 DEF Inv

-----------------------------------------------------------------------------
(***************************************************************************)
(* The steps of a worker.  What each changes of the worker is a record     *)
(* with the same fields, so that the type is the same lemma for all.       *)
(***************************************************************************)
LEMMA ClaimKeepsInv ==
    ASSUME Inv, NEW w \in Workers, Claim(w)
    PROVE  Inv'
<1> DEFINE batch == {e \in Claimable : Cardinality({d \in Claimable : d <= e}) <= BatchSize}
           v == [IdleWorker EXCEPT !.pc = "publishing", !.batch = batch]
<1>. USE DEF Claim
<1>0. worker \in [Workers -> WorkerType \cup {IdleWorker}] /\ worker[w] = IdleWorker
  BY DEF Inv, TypeOK
<1>1. batch \subseteq DOMAIN rows /\ batch \subseteq Events
  BY RowFields DEF Claimable, Inv
<1>. HIDE DEF batch
<1>2. /\ v.pc = "publishing" /\ v.batch = batch /\ v.failed = {} /\ v.published = {}
      /\ v \in WorkerType
  BY <1>1 DEF IdleWorker, WorkerType
<1>3. worker' = [worker EXCEPT ![w] = v]
  BY <1>0 DEF batch
<1>. HIDE DEF v
<1>4. worker' \in [Workers -> WorkerType \cup {IdleWorker}] /\ \A u \in Workers : worker'[u] = IF u = w THEN v ELSE worker[u]
  BY <1>0, <1>2, <1>3
<1>5. TypeOK'
  BY <1>4 DEF Inv, TypeOK, consumer
<1>6. BatchesAreRows' /\ PublishesReached'
  BY <1>1, <1>2, <1>4 DEF Inv, BatchesAreRows, PublishesReached
<1>7. PublishedIsDelivered' /\ MarkedOnce'
  BY DEF Inv, PublishedIsDelivered, MarkedOnce, consumer
<1>8. FailuresRecorded'
  <2>1. ASSUME NEW e PROVE Unrecorded(e)' = Unrecorded(e)
    BY <1>0, <1>2, <1>4, Idle DEF Unrecorded
  <2>2. \A e : \A u \in Unrecorded(e) : worker'[u] = worker[u]
    BY <1>0, <1>4, Idle DEF Unrecorded
  <2>. QED  BY <2>1, <2>2, ZenonT(60) DEF Inv, FailuresRecorded
<1>. QED  BY <1>5, <1>6, <1>7, <1>8 DEF Inv

LEMMA PublishOkKeepsInv ==
    ASSUME Inv, NEW w \in Workers, NEW e \in Events, PublishOk(w, e)
    PROVE  Inv'
<1> DEFINE v == [worker[w] EXCEPT !.batch = @ \ {e}, !.published = @ \cup {e}]
<1>. USE DEF PublishOk, NextToPublish, Deliver
<1>0. /\ worker \in [Workers -> WorkerType \cup {IdleWorker}] /\ worker[w] \in WorkerType /\ worker[w].pc = "publishing"
      /\ e \in worker[w].batch /\ broker \in [Events -> Nat] /\ delivered \in [Events -> Nat]
  BY WorkerFields DEF Inv, TypeOK
<1>1. /\ v.pc = "publishing" /\ v.batch = worker[w].batch \ {e} /\ v.published = worker[w].published \cup {e}
      /\ v.failed = worker[w].failed /\ v.counts = worker[w].counts /\ v \in WorkerType
  BY <1>0 DEF WorkerType
<1>2. worker' = [worker EXCEPT ![w] = v]
  BY <1>0
<1>. HIDE DEF v
<1>3. worker' \in [Workers -> WorkerType \cup {IdleWorker}] /\ \A u \in Workers : worker'[u] = IF u = w THEN v ELSE worker[u]
  BY <1>0, <1>1, <1>2, ZenonT(60)
<1>4. delivered' \in [Events -> Nat] /\ broker' \in [Events -> Nat] /\ delivered'[e] > 0
      /\ \A d \in Events : delivered[d] > 0 => delivered'[d] > 0
  BY <1>0
<1>5. TypeOK'
  <2>1. UNCHANGED <<rows, failures, handled, seen, faults>>
    BY DEF consumer
  <2>. HIDE DEF PublishOk, NextToPublish, Deliver
  <2>. QED  BY <1>3, <1>4, <2>1 DEF Inv, TypeOK
<1>6. BatchesAreRows'
  BY <1>0, <1>1, <1>3 DEF Inv, BatchesAreRows
<1>7. PublishesReached'
  BY <1>1, <1>3, <1>4, WorkerFields DEF Inv, PublishesReached
<1>8. PublishedIsDelivered' /\ MarkedOnce'
  BY <1>4, RowFields DEF Inv, PublishedIsDelivered, MarkedOnce, consumer
<1>9. FailuresRecorded'
  <2>1. ASSUME NEW d PROVE Unrecorded(d)' = Unrecorded(d)
    BY <1>1, <1>3 DEF Unrecorded
  <2>2. \A u \in Workers : worker'[u].pc = worker[u].pc /\ worker'[u].counts = worker[u].counts
    BY <1>0, <1>1, <1>3
  <2>3. \A d : Unrecorded(d) \subseteq Workers
    BY DEF Unrecorded
  <2>. QED  BY <2>1, <2>2, <2>3, ZenonT(60) DEF Inv, FailuresRecorded
<1>. QED  BY <1>5, <1>6, <1>7, <1>8, <1>9 DEF Inv

LEMMA PublishRaisesKeepsInv ==
    ASSUME Inv, NEW w \in Workers, NEW e \in Events, PublishRaises(w, e)
    PROVE  Inv'
<1> DEFINE v == [worker[w] EXCEPT !.batch = @ \ {e}, !.failed = @ \cup {e}]
<1>. USE DEF PublishRaises, NextToPublish, Deliver
<1>0. /\ worker \in [Workers -> WorkerType \cup {IdleWorker}] /\ worker[w] \in WorkerType /\ worker[w].pc = "publishing"
      /\ e \in worker[w].batch /\ broker \in [Events -> Nat] /\ delivered \in [Events -> Nat]
      /\ failures \in [Events -> Nat] /\ faults \in 0 .. MaxFaults
  BY WorkerFields DEF Inv, TypeOK
<1>1. /\ v.pc = "publishing" /\ v.batch = worker[w].batch \ {e} /\ v.failed = worker[w].failed \cup {e}
      /\ v.published = worker[w].published /\ v.counts = worker[w].counts /\ v \in WorkerType
  BY <1>0 DEF WorkerType
<1>2. worker' = [worker EXCEPT ![w] = v]
  BY <1>0
<1>. HIDE DEF v
<1>3. worker' \in [Workers -> WorkerType \cup {IdleWorker}] /\ \A u \in Workers : worker'[u] = IF u = w THEN v ELSE worker[u]
  BY <1>0, <1>1, <1>2, ZenonT(60)
<1>4. /\ delivered' \in [Events -> Nat] /\ broker' \in [Events -> Nat]
      /\ \A d \in Events : delivered[d] > 0 => delivered'[d] > 0
  BY <1>0
<1>5. /\ failures' \in [Events -> Nat] /\ failures'[e] = failures[e] + 1
      /\ \A d \in Events : d # e => failures'[d] = failures[d]
      /\ faults' \in 0 .. MaxFaults
  BY <1>0, ConstantsAssumption
<1>6. TypeOK'
  BY <1>3, <1>4, <1>5, ZenonT(60) DEF Inv, TypeOK, consumer
<1>7. BatchesAreRows'
  BY <1>0, <1>1, <1>3 DEF Inv, BatchesAreRows
<1>8. PublishesReached'
  BY <1>1, <1>3, <1>4, WorkerFields DEF Inv, PublishesReached
<1>9. PublishedIsDelivered' /\ MarkedOnce'
  BY <1>4, RowFields DEF Inv, PublishedIsDelivered, MarkedOnce, consumer
<1>10. FailuresRecorded'
  <2>. SUFFICES ASSUME NEW d \in DOMAIN rows
                PROVE  /\ IsFiniteSet(Unrecorded(d)')
                       /\ rows[d].retries + Cardinality(Unrecorded(d)') <= failures'[d]
                       /\ rows[d].dead => failures'[d] > RetryLimit
                       /\ \A u \in Unrecorded(d)' : worker'[u].pc = "settling" =>
                             worker'[u].counts[d] + Cardinality(Unrecorded(d)') <= failures'[d]
    <3>1. rows' = rows
      BY Zenon
    <3>. QED  BY <3>1, Zenon DEF FailuresRecorded
  <2>1. \A u \in Workers : worker'[u].pc = worker[u].pc /\ worker'[u].counts = worker[u].counts
    BY <1>0, <1>1, <1>3
  <2>2. /\ IsFiniteSet(Unrecorded(d))
        /\ rows[d].retries + Cardinality(Unrecorded(d)) <= failures[d]
        /\ rows[d].dead => failures[d] > RetryLimit
        /\ \A u \in Unrecorded(d) : worker[u].pc = "settling" =>
              worker[u].counts[d] + Cardinality(Unrecorded(d)) <= failures[d]
    BY Zenon DEF Inv, FailuresRecorded
  <2>3. CASE d # e
    <3>1. Unrecorded(d)' = Unrecorded(d)
      BY <1>1, <1>3, <2>3 DEF Unrecorded
    <3>2. failures'[d] = failures[d] /\ Unrecorded(d) \subseteq Workers
      BY <1>5, <2>3, RowFields DEF Unrecorded, Inv
    <3>. QED  BY <2>1, <2>2, <3>1, <3>2
  <2>4. CASE d = e
    <3>1. Unrecorded(e)' = Unrecorded(e) \cup {w} /\ w \notin Unrecorded(e)
      BY <1>0, <1>1, <1>3 DEF Unrecorded, Inv, BatchesAreRows
    <3>2. IsFiniteSet(Unrecorded(e)') /\ Cardinality(Unrecorded(e)') = Cardinality(Unrecorded(e)) + 1
      BY <2>2, <2>4, <3>1, FS_AddElement
    <3>3. Cardinality(Unrecorded(e)) \in Nat /\ rows[e].retries \in Nat /\ failures[e] \in Nat /\ RetryLimit \in Nat
      BY <1>0, <2>2, <2>4, FS_CardinalityType, RowFields, ConstantsAssumption DEF Inv, RowType
    <3>4. rows[e].retries + Cardinality(Unrecorded(e)') <= failures'[e]
      BY <1>5, <2>2, <2>4, <3>2, <3>3
    <3>5. rows[e].dead => failures'[e] > RetryLimit
      BY <1>5, <2>2, <2>4, <3>3
    <3>6. ASSUME NEW u \in Unrecorded(e)', worker'[u].pc = "settling"
          PROVE  worker'[u].counts[e] + Cardinality(Unrecorded(e)') <= failures'[e]
      <4>1. u # w /\ u \in Unrecorded(e) /\ u \in Workers
        BY <1>1, <1>3, <3>1, <3>6 DEF Unrecorded
      <4>2. worker[u].counts[e] \in Nat
        BY <4>1, WorkerFields DEF Inv
      <4>3. worker[u].counts[e] + Cardinality(Unrecorded(e)) <= failures[e]
        BY <2>1, <2>2, <2>4, <3>6, <4>1
      <4>4. worker'[u].counts[e] = worker[u].counts[e]
        BY <2>1, <4>1
      <4>. HIDE DEF PublishRaises
      <4>. QED  BY <1>5, <3>2, <3>3, <4>2, <4>3, <4>4
    <3>. QED  BY <2>4, <3>2, <3>4, <3>5, <3>6
  <2>. QED  BY <2>3, <2>4
<1>. QED  BY <1>6, <1>7, <1>8, <1>9, <1>10 DEF Inv

\* The counts that are read fit: they are those of the rows.
LEMMA ReadRetryCountsKeepsInv ==
    ASSUME Inv, NEW w \in Workers, ReadRetryCounts(w)
    PROVE  Inv'
<1> DEFINE read == [e \in Events |-> IF e \in worker[w].failed THEN rows[e].retries ELSE 0]
           v == [worker[w] EXCEPT !.pc = "settling", !.counts = read]
<1>0. /\ worker \in [Workers -> WorkerType \cup {IdleWorker}] /\ worker[w] \in WorkerType
      /\ worker[w].failed \subseteq DOMAIN rows
  BY WorkerFields DEF Inv, TypeOK, BatchesAreRows, ReadRetryCounts
<1>1. read \in [Events -> Nat] /\ \A e \in worker[w].failed : read[e] = rows[e].retries
  BY <1>0, RowFields DEF Inv, RowType
<1>. HIDE DEF read
<1>2. /\ v.pc = "settling" /\ v.batch = worker[w].batch /\ v.failed = worker[w].failed
      /\ v.published = worker[w].published /\ v.counts = read /\ v \in WorkerType
  BY <1>0, <1>1 DEF WorkerType
<1>3. worker' = [worker EXCEPT ![w] = v] /\ UNCHANGED <<rows, broker, delivered, failures, consumer, faults>>
  BY <1>0 DEF ReadRetryCounts, read
<1>. HIDE DEF v
<1>4. worker' \in [Workers -> WorkerType \cup {IdleWorker}] /\ \A u \in Workers : worker'[u] = IF u = w THEN v ELSE worker[u]
  BY <1>0, <1>2, <1>3
<1>5. TypeOK'
  BY <1>3, <1>4 DEF Inv, TypeOK, consumer
<1>6. BatchesAreRows' /\ PublishesReached'
  BY <1>2, <1>3, <1>4 DEF Inv, BatchesAreRows, PublishesReached
<1>7. PublishedIsDelivered' /\ MarkedOnce'
  BY <1>3 DEF Inv, PublishedIsDelivered, MarkedOnce, consumer
<1>8. FailuresRecorded'
  <2>1. \A e : Unrecorded(e)' = Unrecorded(e) /\ Unrecorded(e) \subseteq Workers
    BY <1>2, <1>4 DEF Unrecorded
  <2>2. ASSUME NEW e \in DOMAIN rows, NEW u \in Unrecorded(e), worker'[u].pc = "settling"
        PROVE  worker'[u].counts[e] + Cardinality(Unrecorded(e)) <= failures[e]
    <3>1. CASE u # w
      <4>1. worker'[u] = worker[u]
        BY <1>4, <2>1, <3>1
      <4>. QED  BY <2>2, <4>1, Zenon DEF Inv, FailuresRecorded
    <3>2. CASE u = w
      <4>1. worker'[u].counts[e] = rows[e].retries
        BY <1>1, <1>2, <1>4, <3>2 DEF Unrecorded
      <4>2. rows[e].retries + Cardinality(Unrecorded(e)) <= failures[e]
        BY Zenon DEF Inv, FailuresRecorded
      <4>. QED  BY <4>1, <4>2
    <3>. QED  BY <3>1, <3>2
  <2>. QED  BY <1>3, <2>1, <2>2 DEF Inv, FailuresRecorded
<1>. QED  BY <1>5, <1>6, <1>7, <1>8 DEF Inv

\* A worker that crashes, or whose transaction does, forgets its failures.
LEMMA CrashKeepsInv ==
    ASSUME Inv, NEW w \in Workers, Crash(w)
    PROVE  Inv'
<1>1. /\ worker' = [worker EXCEPT ![w] = IdleWorker] /\ UNCHANGED <<rows, broker, delivered, failures, consumer>>
      /\ faults < MaxFaults /\ faults' = faults + 1 /\ worker \in [Workers -> WorkerType \cup {IdleWorker}]
  BY DEF Crash, Inv, TypeOK
<1>2. /\ worker' \in [Workers -> WorkerType \cup {IdleWorker}]
      /\ \A u \in Workers : worker'[u] = IF u = w THEN IdleWorker ELSE worker[u]
  BY <1>1
<1>3. TypeOK'
  <2>1. faults' \in 0 .. MaxFaults
    BY <1>1, ConstantsAssumption DEF Inv, TypeOK
  <2>. QED  BY <1>1, <1>2, <2>1 DEF Inv, TypeOK, consumer
<1>4. BatchesAreRows' /\ PublishesReached'
  BY <1>1, <1>2, Idle DEF Inv, BatchesAreRows, PublishesReached
<1>5. PublishedIsDelivered' /\ MarkedOnce'
  BY <1>1 DEF Inv, PublishedIsDelivered, MarkedOnce, consumer
<1>6. FailuresRecorded'
  <2>. SUFFICES ASSUME NEW e \in DOMAIN rows
                PROVE  /\ IsFiniteSet(Unrecorded(e)')
                       /\ rows[e].retries + Cardinality(Unrecorded(e)') <= failures[e]
                       /\ rows[e].dead => failures[e] > RetryLimit
                       /\ \A u \in Unrecorded(e)' : worker'[u].pc = "settling" =>
                             worker'[u].counts[e] + Cardinality(Unrecorded(e)') <= failures[e]
    <3>1. rows' = rows /\ failures' = failures
      BY <1>1
    <3>. QED  BY <3>1, Zenon DEF FailuresRecorded
  <2>1. /\ IsFiniteSet(Unrecorded(e))
        /\ rows[e].retries + Cardinality(Unrecorded(e)) <= failures[e]
        /\ rows[e].dead => failures[e] > RetryLimit
        /\ \A u \in Unrecorded(e) : worker[u].pc = "settling" =>
              worker[u].counts[e] + Cardinality(Unrecorded(e)) <= failures[e]
    BY Zenon DEF Inv, FailuresRecorded
  <2>2. /\ Unrecorded(e)' = Unrecorded(e) \ {w} /\ IsFiniteSet(Unrecorded(e)')
        /\ Cardinality(Unrecorded(e)') = Cardinality(Unrecorded(e)) - IF w \in Unrecorded(e) THEN 1 ELSE 0
    BY <1>2, <2>1, Idle, UnrecordedShrinks
  <2>3. Cardinality(Unrecorded(e)) \in Nat /\ rows[e].retries \in Nat /\ failures[e] \in Nat
    BY <2>1, FS_CardinalityType, RowFields DEF Inv, RowType, TypeOK
  <2>4. ASSUME NEW u \in Unrecorded(e)', worker'[u].pc = "settling"
        PROVE  worker'[u].counts[e] + Cardinality(Unrecorded(e)') <= failures[e]
    <3>1. u \in Unrecorded(e) /\ u \in Workers /\ worker'[u] = worker[u]
      BY <1>2, <2>2 DEF Unrecorded
    <3>2. worker[u].counts[e] \in Nat
      BY <3>1, WorkerFields, RowFields DEF Inv
    <3>3. worker[u].counts[e] + Cardinality(Unrecorded(e)) <= failures[e]
      BY <2>1, <2>4, <3>1
    <3>. QED  BY <2>2, <2>3, <3>1, <3>2, <3>3
  <2>5. rows[e].retries + Cardinality(Unrecorded(e)') <= failures[e]
    BY <2>1, <2>2, <2>3
  <2>. QED  BY <2>1, <2>2, <2>4, <2>5
<1>. QED  BY <1>3, <1>4, <1>5, <1>6 DEF Inv

-----------------------------------------------------------------------------
LEMMA RetriedFields ==
    ASSUME NEW row \in RowType, NEW count \in Nat
    PROVE  /\ Retried(row, count) \in RowType
           /\ Retried(row, count).published <=> row.published
           /\ Retried(row, count).retries = count + 1
           /\ Retried(row, count).dead => row.dead \/ count + 1 > RetryLimit
<1>0. count + 1 \in Nat
  OBVIOUS
<1>1. ASSUME NEW n \in Nat, NEW r, r = [row EXCEPT !.retries = n, !.dead = TRUE]
      PROVE  r \in RowType /\ (r.published <=> row.published) /\ r.retries = n
  BY <1>1 DEF RowType
<1>2. ASSUME NEW n \in Nat, NEW r, r = [row EXCEPT !.retries = n, !.due = FALSE]
      PROVE  r \in RowType /\ (r.published <=> row.published) /\ r.retries = n /\ (r.dead <=> row.dead)
  BY <1>2 DEF RowType
<1>3. CASE count + 1 > RetryLimit
  <2>1. Retried(row, count) = [row EXCEPT !.retries = count + 1, !.dead = TRUE]
    BY <1>3 DEF Retried
  <2>. QED  BY <1>0, <1>1, <1>3, <2>1
<1>4. CASE ~(count + 1 > RetryLimit)
  <2>1. Retried(row, count) = [row EXCEPT !.retries = count + 1, !.due = FALSE]
    BY <1>4 DEF Retried
  <2>. QED  BY <1>0, <1>2, <2>1
<1>. QED  BY <1>3, <1>4

\* A failure that is written leaves the room that was left for it.
LEMMA SettleKeepsInv ==
    ASSUME Inv, NEW w \in Workers, Settle(w)
    PROVE  Inv'
<1> DEFINE p == worker[w].published
           f == worker[w].failed
           c == worker[w].counts
<1>1. /\ worker' = [worker EXCEPT ![w] = IdleWorker] /\ UNCHANGED <<broker, delivered, failures, consumer, faults>>
      /\ worker \in [Workers -> WorkerType \cup {IdleWorker}] /\ worker[w].pc = "settling"
  BY DEF Settle, Inv, TypeOK
<1>2. /\ worker' \in [Workers -> WorkerType \cup {IdleWorker}]
      /\ \A u \in Workers : worker'[u] = IF u = w THEN IdleWorker ELSE worker[u]
  BY <1>1
<1>3. p \cap f = {} /\ c \in [Events -> Nat]
  BY WorkerFields DEF Inv, BatchesAreRows
<1>4. ASSUME NEW e \in DOMAIN rows
      PROVE  /\ rows'[e] \in RowType
             /\ rows'[e].published <=> rows[e].published \/ e \in p
             /\ rows'[e].retries = IF e \in f THEN c[e] + 1 ELSE rows[e].retries
             /\ rows'[e].dead => rows[e].dead \/ (e \in f /\ c[e] + 1 > RetryLimit)
  <2>1. rows[e] \in RowType /\ e \in Events /\ c[e] \in Nat
    BY <1>3, RowFields DEF Inv
  <2>2. rows'[e] = CASE e \in p -> [rows[e] EXCEPT !.published = TRUE]
                     [] e \in f -> Retried(rows[e], c[e])
                     [] OTHER -> rows[e]
    BY DEF Settle
  <2>. HIDE DEF p, f, c
  <2>3. CASE e \in p
    <3>1. rows'[e] = [rows[e] EXCEPT !.published = TRUE] /\ e \notin f
      BY <1>3, <2>2, <2>3
    <3>. QED  BY <2>1, <2>3, <3>1 DEF RowType
  <2>4. CASE e \in f
    <3>1. rows'[e] = Retried(rows[e], c[e]) /\ e \notin p
      BY <1>3, <2>2, <2>4
    <3>2. /\ Retried(rows[e], c[e]) \in RowType
          /\ Retried(rows[e], c[e]).published <=> rows[e].published
          /\ Retried(rows[e], c[e]).retries = c[e] + 1
          /\ Retried(rows[e], c[e]).dead => rows[e].dead \/ c[e] + 1 > RetryLimit
      BY <2>1, RetriedFields
    <3>. QED  BY <2>4, <3>1, <3>2
  <2>5. CASE e \notin p \cup f
    BY <2>1, <2>2, <2>5
  <2>. QED  BY <2>3, <2>4, <2>5
<1>5. DOMAIN rows' = DOMAIN rows /\ rows' \in Seq(RowType) /\ Len(rows') = Len(rows)
  <2>1. DOMAIN rows = 1 .. Len(rows) /\ Len(rows) \in Nat
    BY RowFields DEF Inv
  <2>2. /\ rows' = [e \in 1 .. Len(rows) |-> rows'[e]]
        /\ \A e \in 1 .. Len(rows) : rows'[e] \in RowType
    BY <1>4, <2>1 DEF Settle
  <2>. QED  BY <2>1, <2>2
<1>6. TypeOK'
  BY <1>1, <1>2, <1>5 DEF Inv, TypeOK, consumer
<1>7. BatchesAreRows' /\ PublishesReached'
  BY <1>1, <1>2, <1>5, Idle DEF Inv, BatchesAreRows, PublishesReached
<1>8. PublishedIsDelivered' /\ MarkedOnce'
  BY <1>1, <1>4, <1>5 DEF Inv, PublishesReached, PublishedIsDelivered, MarkedOnce, consumer
<1>9. FailuresRecorded'
  <2>. SUFFICES ASSUME NEW e \in DOMAIN rows
                PROVE  /\ IsFiniteSet(Unrecorded(e)')
                       /\ rows'[e].retries + Cardinality(Unrecorded(e)') <= failures[e]
                       /\ rows'[e].dead => failures[e] > RetryLimit
                       /\ \A u \in Unrecorded(e)' : worker'[u].pc = "settling" =>
                             worker'[u].counts[e] + Cardinality(Unrecorded(e)') <= failures[e]
    <3>1. failures' = failures
      BY <1>1
    <3>. QED  BY <1>5, <3>1, Zenon DEF FailuresRecorded
  <2>1. /\ IsFiniteSet(Unrecorded(e))
        /\ rows[e].retries + Cardinality(Unrecorded(e)) <= failures[e]
        /\ rows[e].dead => failures[e] > RetryLimit
        /\ \A u \in Unrecorded(e) : worker[u].pc = "settling" =>
              worker[u].counts[e] + Cardinality(Unrecorded(e)) <= failures[e]
    BY Zenon DEF Inv, FailuresRecorded
  <2>2. /\ Unrecorded(e)' = Unrecorded(e) \ {w} /\ IsFiniteSet(Unrecorded(e)')
        /\ Cardinality(Unrecorded(e)') = Cardinality(Unrecorded(e)) - IF e \in f THEN 1 ELSE 0
    <3>1. w \in Unrecorded(e) <=> e \in f
      BY DEF Unrecorded
    <3>. QED  BY <1>2, <2>1, <3>1, Idle, UnrecordedShrinks
  <2>3. /\ Cardinality(Unrecorded(e)) \in Nat /\ rows[e].retries \in Nat /\ failures[e] \in Nat /\ c[e] \in Nat
        /\ RetryLimit \in Nat
    BY <1>3, <2>1, FS_CardinalityType, RowFields, ConstantsAssumption DEF Inv, RowType, TypeOK
  <2>4. e \in f => c[e] + Cardinality(Unrecorded(e)) <= failures[e] /\ Cardinality(Unrecorded(e)) >= 1
    <3>1. ASSUME e \in f PROVE w \in Unrecorded(e)
      BY <3>1 DEF Unrecorded
    <3>2. ASSUME e \in f PROVE Cardinality(Unrecorded(e)) # 0
      BY <2>1, <3>1, <3>2, FS_EmptySet
    <3>. QED  BY <1>1, <2>1, <2>3, <3>1, <3>2
  <2>. HIDE DEF c, f
  <2>5. rows'[e].retries + Cardinality(Unrecorded(e)') <= failures[e]
    BY <1>4, <2>1, <2>2, <2>3, <2>4
  <2>6. rows'[e].dead => failures[e] > RetryLimit
    BY <1>4, <2>1, <2>3, <2>4
  <2>7. ASSUME NEW u \in Unrecorded(e)', worker'[u].pc = "settling"
        PROVE  worker'[u].counts[e] + Cardinality(Unrecorded(e)') <= failures[e]
    <3>1. u \in Unrecorded(e) /\ u \in Workers /\ worker'[u] = worker[u]
      BY <1>2, <2>2 DEF Unrecorded
    <3>2. worker[u].counts[e] \in Nat
      BY <3>1, WorkerFields, RowFields DEF Inv
    <3>3. worker[u].counts[e] + Cardinality(Unrecorded(e)) <= failures[e]
      BY <2>1, <2>7, <3>1
    <3>. QED  BY <2>2, <2>3, <3>1, <3>2, <3>3
  <2>. QED  BY <2>2, <2>5, <2>6, <2>7
<1>. QED  BY <1>6, <1>7, <1>8, <1>9 DEF Inv

LEMMA ConsumerKeepsInv ==
    ASSUME Inv, NEW e \in Events, ConsumerNext(e)
    PROVE  Inv'
<1>1. /\ UNCHANGED <<rows, worker, delivered, failures>>
      /\ broker' = broker \/ (broker' = [broker EXCEPT ![e] = @ - 1] /\ broker[e] > 0)
      /\ faults' = faults \/ (faults < MaxFaults /\ faults' = faults + 1)
  BY DEF ConsumerNext, Consume, ConsumeDuplicate, ConsumeRaises, consumer
<1>2. \/ seen' = seen /\ handled' = handled
      \/ seen' = seen \cup {e} /\ handled' = handled
      \/ e \notin seen /\ seen' = seen \cup {e} /\ handled' = [handled EXCEPT ![e] = @ + 1]
  BY DEF ConsumerNext, Consume, ConsumeDuplicate, ConsumeRaises, MarkOnce, consumer
<1>3. TypeOK'
  <2>1. broker \in [Events -> Nat] /\ handled \in [Events -> Nat] /\ faults \in 0 .. MaxFaults /\ seen \subseteq Events
    BY DEF Inv, TypeOK
  <2>2. broker' \in [Events -> Nat] /\ handled' \in [Events -> Nat] /\ seen' \subseteq Events
    BY <1>1, <1>2, <2>1
  <2>3. faults' \in 0 .. MaxFaults
    BY <1>1, <2>1, ConstantsAssumption
  <2>. QED  BY <1>1, <2>2, <2>3 DEF Inv, TypeOK
<1>4. MarkedOnce'
  BY <1>2 DEF Inv, TypeOK, MarkedOnce
<1>5. BatchesAreRows' /\ PublishesReached' /\ PublishedIsDelivered' /\ FailuresRecorded'
  BY <1>1, Zenon DEF Inv, BatchesAreRows, PublishesReached, PublishedIsDelivered, FailuresRecorded, Unrecorded
<1>. QED  BY <1>3, <1>4, <1>5 DEF Inv

-----------------------------------------------------------------------------
LEMMA InvAlways == Spec => []Inv
<1>1. Inv /\ Next => Inv'
  BY InsertKeepsInv, BecomeDueKeepsInv, ClaimKeepsInv, PublishOkKeepsInv, PublishRaisesKeepsInv,
     ReadRetryCountsKeepsInv, SettleKeepsInv, CrashKeepsInv, ConsumerKeepsInv DEF Next, Run
<1>2. Inv /\ UNCHANGED vars => Inv'
  BY Zenon DEF Inv, TypeOK, BatchesAreRows, PublishesReached, PublishedIsDelivered, FailuresRecorded, MarkedOnce,
      Unrecorded, vars, consumer
<1>. QED  BY InitiallyInv, <1>1, <1>2, PTL DEF Spec

\* The outbox's variables keep their types.
THEOREM OutboxTypeCorrect == Spec => []TypeOK
<1>1. Inv => TypeOK
  BY DEF Inv
<1>. QED  BY InvAlways, <1>1, PTL

\* run_once marks a row published only after the broker has its event.
THEOREM PublishedMeansDelivered == Spec => []PublishedIsDelivered
<1>1. Inv => PublishedIsDelivered
  BY DEF Inv
<1>. QED  BY InvAlways, <1>1, PTL

\* A row is dead only after more than RetryLimit failures, and its count of retries is
\* never above the failures, whichever workers read and write it over each other.
THEOREM DeadLettersAreEarned == Spec => []DeadLetterEarned
<1>1. Inv => DeadLetterEarned
  <2>. SUFFICES ASSUME Inv, NEW e \in DOMAIN rows
                PROVE  rows[e].retries <= failures[e] /\ (rows[e].dead => failures[e] > RetryLimit)
    BY DEF DeadLetterEarned
  <2>1. /\ IsFiniteSet(Unrecorded(e)) /\ rows[e].retries + Cardinality(Unrecorded(e)) <= failures[e]
        /\ rows[e].dead => failures[e] > RetryLimit
    BY DEF Inv, FailuresRecorded
  <2>2. Cardinality(Unrecorded(e)) \in Nat /\ rows[e].retries \in Nat /\ failures[e] \in Nat
    BY <2>1, FS_CardinalityType, RowFields DEF Inv, RowType, TypeOK
  <2>. QED  BY <2>1, <2>2
<1>. QED  BY InvAlways, <1>1, PTL

\* However often an event is delivered, its handler completes once at most.
THEOREM HandledOnce == Spec => []HandledAtMostOnce
<1>1. Inv => HandledAtMostOnce
  BY DEF Inv, MarkedOnce, HandledAtMostOnce
<1>. QED  BY InvAlways, <1>1, PTL

=============================================================================

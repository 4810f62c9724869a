------------------------- MODULE CoreMutationsProofs -------------------------
(***************************************************************************)
(* Proofs about CoreMutations, for any number of keys, clients, workers    *)
(* and readers and for every value of the bounds.                          *)
(***************************************************************************)
EXTENDS CoreMutations, FiniteSetTheorems, TLAPS

-----------------------------------------------------------------------------
(***************************************************************************)
(* The inductive invariant.  A send is in one place at a time: open (its   *)
(* request has not committed), in one row of the queue, or in xp.  Rows    *)
(* have numbers of their own, and a flush works on rows that exist and     *)
(* that no other flush has locked.                                         *)
(***************************************************************************)
Open(c) == req[c].pc \in {"wait", "locked"}

RowsNumbered ==
    /\ IsFiniteSet(queue)
    /\ \A a, b \in queue : a.seq = b.seq => a = b
    /\ \A a \in queue : a.seq < nextSeq

HeldByClaim == \A w \in Workers : SeqsOf(worker[w].batch) \subseteq worker[w].held

Submitted(s) == s[2] <= sent[s[1]]

OpenOnce ==
    /\ \A c \in Clients : Open(c) => Submitted(req[c].send) /\ xp[req[c].send] = 0
    /\ \A c, d \in Clients : Open(c) /\ Open(d) /\ req[c].send = req[d].send => c = d

QueuedOnce ==
    /\ \A a \in queue : \A s \in a.sends : Submitted(s) /\ xp[s] = 0
    /\ \A a, b \in queue : \A s \in a.sends \cap b.sends : a = b
    /\ \A c \in Clients : \A a \in queue : Open(c) => req[c].send \notin a.sends

CreditedOnce == \A s \in Sends : xp[s] <= 1 /\ (xp[s] > 0 => Submitted(s))

Inv ==
    /\ TypeOK
    /\ RowsNumbered
    /\ FlushOwnsItsRows
    /\ HeldByClaim
    /\ OpenOnce
    /\ QueuedOnce
    /\ CreditedOnce

-----------------------------------------------------------------------------
\* What claim_batch may return: locked by nobody else, and rows of the queue.
LEMMA LowestSubset == \A rows, n : Lowest(rows, n) \subseteq rows
BY DEF Lowest

LEMMA UnlockedSubset == \A p : Unlocked(p) \subseteq queue
BY DEF Unlocked

\* The number of rows of a finite batch that carry a send is a natural number.
LEMMA CreditsNat ==
    ASSUME NEW rows, IsFiniteSet(rows), NEW s
    PROVE  Cardinality({r \in rows : s \in r.sends}) \in Nat
<1>1. IsFiniteSet({r \in rows : s \in r.sends})
  BY FS_Subset, {r \in rows : s \in r.sends} \subseteq rows
<1> QED BY <1>1, FS_CardinalityType

\* Coalescing changes one row at most: the latest of rows with distinct numbers.
LEMMA TargetUnique ==
    ASSUME Inv, NEW c, NEW a \in CoalesceTarget(c), NEW b \in CoalesceTarget(c)
    PROVE  a = b
<1>1. a \in queue /\ b \in queue /\ a.seq <= b.seq /\ b.seq <= a.seq
  BY DEF CoalesceTarget, Unlocked
<1>2. a.seq \in Nat /\ b.seq \in Nat
  BY <1>1 DEF Inv, TypeOK, Row
<1> QED BY <1>1, <1>2 DEF Inv, RowsNumbered

LEMMA InitInv == Init => Inv
<1> SUFFICES ASSUME Init PROVE Inv
  OBVIOUS
<1> USE DEF Init
<1>1. TypeOK
  BY ConstantsAssumption DEF TypeOK, NoReceipt, NoRequest, NoFlush, NoRead, Sends
<1>2. RowsNumbered
  BY FS_EmptySet DEF RowsNumbered
<1>3. FlushOwnsItsRows /\ HeldByClaim
  BY DEF FlushOwnsItsRows, HeldByClaim, NoFlush, SeqsOf
<1>4. OpenOnce /\ QueuedOnce /\ CreditedOnce
  BY DEF OpenOnce, QueuedOnce, CreditedOnce, Open, NoRequest
<1> QED BY <1>1, <1>2, <1>3, <1>4 DEF Inv

-----------------------------------------------------------------------------
(***************************************************************************)
(* One lemma per kind of step.                                             *)
(***************************************************************************)

\* A new submission has a number that nothing in the tables has.
LEMMA SubmitInv ==
    ASSUME Inv, NEW c \in Clients, NEW k \in Keys, NEW m \in Modes, Submit(c, k, m)
    PROVE  Inv'
<1> USE DEF Inv, Submit, core, queued
<1>1. sent[k] \in Nat /\ sent[k] + 1 \in 1 .. MaxSends
  BY ConstantsAssumption DEF TypeOK
<1>s. PICK s \in Sends : s = <<k, sent[k] + 1>>
  BY <1>1 DEF Sends
<1>2. TypeOK'
  <2>1. req'[c] \in Request
    BY <1>1, <1>s DEF TypeOK, Request
  <2>2. req' \in [Clients -> Request \cup {NoRequest}]
    BY <2>1 DEF TypeOK
  <2>3. sent' \in [Keys -> 0 .. MaxSends]
    BY <1>1, ConstantsAssumption DEF TypeOK
  <2> QED BY <2>2, <2>3 DEF TypeOK
<1>3. RowsNumbered' /\ FlushOwnsItsRows' /\ HeldByClaim'
  BY DEF RowsNumbered, FlushOwnsItsRows, HeldByClaim
<1>4. \A t \in Sends : Submitted(t) => Submitted(t)' /\ t # s
  BY <1>1, <1>s DEF TypeOK, Submitted, Sends
<1>5. Submitted(s)' /\ ~Submitted(s)
  BY <1>1, <1>s DEF TypeOK, Submitted
<1>6. xp[s] = 0
  BY <1>1, <1>5 DEF CreditedOnce, TypeOK
<1>7. \A a \in queue : s \notin a.sends /\ a.sends \subseteq Sends
  BY <1>5 DEF QueuedOnce, TypeOK, Row
<1>8. \A d \in Clients : Open(d) => req[d].send # s /\ req[d].send \in Sends
  BY <1>5 DEF OpenOnce, TypeOK, Open, NoRequest, Request
<1>9. \A d \in Clients : d # c => req'[d] = req[d]
  BY DEF TypeOK
<1>10. req'[c].send = s
  BY <1>s DEF TypeOK
<1>11. OpenOnce'
  BY <1>4, <1>5, <1>6, <1>8, <1>9, <1>10 DEF OpenOnce, Open
<1>12. QueuedOnce'
  BY <1>4, <1>7, <1>9, <1>10 DEF QueuedOnce, Open
<1>13. CreditedOnce'
  BY <1>4 DEF CreditedOnce
<1> QED BY <1>2, <1>3, <1>11, <1>12, <1>13

\* A request that gets the core lock or fails opens nothing.
LEMMA RequestStepInv ==
    ASSUME Inv, NEW c \in Clients, LockForRequest(c) \/ RequestFails(c)
    PROVE  Inv'
<1> USE DEF Inv, LockForRequest, RequestFails, core, queued, bounds
<1>1. TypeOK'
  BY DEF TypeOK, Request, NoRequest
<1>2. RowsNumbered' /\ FlushOwnsItsRows' /\ HeldByClaim' /\ CreditedOnce'
  BY DEF RowsNumbered, FlushOwnsItsRows, HeldByClaim, CreditedOnce, Submitted
<1>3. \A d \in Clients : Open(d)' => Open(d) /\ req'[d].send = req[d].send
  BY DEF Open, TypeOK, Request, NoRequest
<1>4. OpenOnce' /\ QueuedOnce'
  BY <1>3 DEF OpenOnce, QueuedOnce, Submitted
<1> QED BY <1>1, <1>2, <1>4

\* What answering a hot command does to the requests.
LEMMA AnswerHotReq ==
    ASSUME Inv, NEW c \in Clients, req[c].pc = "locked", NEW seq \in Nat, AnswerHot(c, seq)
    PROVE  /\ req[c].send \in Sends
           /\ ~Open(c)'
           /\ \A d \in Clients : Open(d)' => d # c /\ Open(d) /\ req'[d].send = req[d].send
           /\ receipts' \in [Keys -> Receipt \cup {NoReceipt}]
           /\ acked' \subseteq Sends
           /\ req' \in [Clients -> Request \cup {NoRequest}]
           /\ coreLock' \in Clients \cup Workers \cup {None}
<1> USE DEF Inv, AnswerHot
<1>1. req[c] \in Request
  BY DEF TypeOK, NoRequest
<1>2. req[c].send \in Sends /\ KeyOf(req[c].send) \in Keys
  BY <1>1 DEF Request, Sends, KeyOf
<1>3. [mode |-> "hot", seq |-> seq] \in Receipt
  BY DEF Receipt
<1> QED BY <1>2, <1>3 DEF TypeOK, Open, NoRequest

LEMMA EnqueueDropInv ==
    ASSUME Inv, NEW c \in Clients, EnqueueDrop(c)
    PROVE  Inv'
<1>1. PICK seq \in Nat : AnswerHot(c, seq)
  BY DEF EnqueueDrop, Inv, TypeOK
<1>2. req[c].pc = "locked"
  BY DEF EnqueueDrop, Enqueueing
<1> USE DEF Inv, EnqueueDrop, AnswerHot, core, bounds
<1>3. TypeOK'
  BY <1>1, <1>2, AnswerHotReq DEF TypeOK
<1>4. RowsNumbered' /\ FlushOwnsItsRows' /\ HeldByClaim' /\ CreditedOnce'
  BY <1>1 DEF RowsNumbered, FlushOwnsItsRows, HeldByClaim, CreditedOnce, Submitted
<1>5. OpenOnce' /\ QueuedOnce'
  BY <1>1, <1>2, AnswerHotReq DEF OpenOnce, QueuedOnce, Submitted
<1> QED BY <1>3, <1>4, <1>5

\* One row, that no flush has, gets the send of the request that is answered.
LEMMA EnqueueCoalesceInv ==
    ASSUME Inv, NEW c \in Clients, EnqueueCoalesce(c)
    PROVE  Inv'
<1>1. PICK seq \in Nat : AnswerHot(c, seq)
  BY DEF EnqueueCoalesce, Inv, TypeOK
<1>2. req[c].pc = "locked" /\ Open(c)
  BY DEF EnqueueCoalesce, Enqueueing, Open
<1>3. PICK row \in CoalesceTarget(c) : TRUE
  BY DEF EnqueueCoalesce
<1>4. CoalesceTarget(c) = {row}
  BY <1>3, TargetUnique
<1> DEFINE s == req[c].send
           new == [row EXCEPT !.sends = @ \cup {s}]
<1>5. queue' = (queue \ {row}) \cup {new}
  BY <1>4 DEF EnqueueCoalesce, Coalesced
<1>6. row \in queue /\ \A w \in Workers : row.seq \notin worker[w].held
  BY <1>3, ProcessesAssumption DEF CoalesceTarget, Unlocked
<1>7. s \in Sends
  BY <1>1, <1>2, AnswerHotReq
<1>8. row \in Row
  BY <1>6 DEF Inv, TypeOK
<1>9. new \in Row /\ new.seq = row.seq /\ new.sends = row.sends \cup {s}
  BY <1>7, <1>8 DEF Row
<1> HIDE DEF s, new
<1>10. UNCHANGED <<xp, version, ledger, outbox, nextSeq, lastApplied, worker, reader, sent, aborts>>
  BY <1>1 DEF EnqueueCoalesce, AnswerHot, core, bounds
<1>11. TypeOK'
  <2>1. queue' \subseteq Row
    BY <1>5, <1>9 DEF Inv, TypeOK
  <2> QED BY <1>1, <1>2, <1>10, <2>1, AnswerHotReq DEF Inv, TypeOK
<1>12. RowsNumbered'
  <2>1. IsFiniteSet(queue')
    BY <1>5, FS_Union, FS_Singleton, FS_Subset, queue \ {row} \subseteq queue
       DEF Inv, RowsNumbered
  <2> QED BY <1>5, <1>6, <1>9, <1>10, <2>1 DEF Inv, RowsNumbered
<1>13. FlushOwnsItsRows'
  <2>1. ASSUME NEW w \in Workers PROVE worker[w].batch \subseteq queue \ {row}
    BY <1>6 DEF Inv, FlushOwnsItsRows, HeldByClaim, SeqsOf
  <2> QED BY <1>5, <1>10, <2>1 DEF Inv, FlushOwnsItsRows
<1>14. HeldByClaim' /\ CreditedOnce'
  BY <1>10 DEF Inv, HeldByClaim, CreditedOnce, Submitted
<1>15. Submitted(s) /\ xp[s] = 0 /\ \A a \in queue : s \notin a.sends
  BY <1>2 DEF s, Inv, OpenOnce, QueuedOnce
<1>16. \A d \in Clients : Open(d)' => d # c /\ Open(d) /\ req'[d].send = req[d].send
  BY <1>1, <1>2, AnswerHotReq
<1>17. OpenOnce'
  BY <1>10, <1>16 DEF Inv, OpenOnce, Submitted
<1>18. \A d \in Clients : Open(d)' => req'[d].send # s
  BY <1>2, <1>16 DEF s, Inv, OpenOnce
<1>19. QueuedOnce'
  <2>1. \A a \in queue' : \A t \in a.sends : Submitted(t)' /\ xp'[t] = 0
    BY <1>5, <1>6, <1>9, <1>10, <1>15 DEF Inv, QueuedOnce, Submitted
  <2>2. \A a, b \in queue' : \A t \in a.sends \cap b.sends : a = b
    BY <1>5, <1>6, <1>9, <1>15 DEF Inv, QueuedOnce
  <2>3. \A d \in Clients : \A a \in queue' : Open(d)' => req'[d].send \notin a.sends
    BY <1>5, <1>6, <1>9, <1>16, <1>18 DEF Inv, QueuedOnce
  <2> QED BY <2>1, <2>2, <2>3 DEF QueuedOnce
<1> QED BY <1>11, <1>12, <1>13, <1>14, <1>17, <1>19 DEF Inv

LEMMA EnqueueInsertInv ==
    ASSUME Inv, NEW c \in Clients, EnqueueInsert(c)
    PROVE  Inv'
<1>1. nextSeq \in Nat /\ AnswerHot(c, nextSeq)
  BY DEF EnqueueInsert, Inv, TypeOK
<1>2. req[c].pc = "locked" /\ Open(c)
  BY DEF EnqueueInsert, Enqueueing, Open
<1>s. PICK s \in Sends : s = req[c].send
  BY <1>1, <1>2, AnswerHotReq
<1> DEFINE new == [seq |-> nextSeq, key |-> KeyOf(s), sends |-> {s}]
<1>3. queue' = queue \cup {new}
  BY <1>s DEF EnqueueInsert
<1>4. new \in Row /\ new.seq = nextSeq /\ new.sends = {s}
  BY <1>1 DEF Row, Sends, KeyOf
<1> HIDE DEF new
<1>5. UNCHANGED <<xp, version, ledger, outbox, lastApplied, worker, reader, sent, aborts>>
  BY <1>1 DEF AnswerHot, core, bounds
<1>6. nextSeq' = nextSeq + 1
  BY DEF EnqueueInsert
<1>7. TypeOK'
  <2>1. queue' \subseteq Row
    BY <1>3, <1>4 DEF Inv, TypeOK
  <2> QED BY <1>1, <1>2, <1>5, <1>6, <2>1, AnswerHotReq DEF Inv, TypeOK
<1>8. RowsNumbered'
  <2>1. IsFiniteSet(queue')
    BY <1>3, FS_Union, FS_Singleton DEF Inv, RowsNumbered
  <2>2. \A a \in queue : a.seq \in Nat
    BY DEF Inv, TypeOK, Row
  <2> QED BY <1>1, <1>3, <1>4, <1>6, <2>1, <2>2 DEF Inv, RowsNumbered
<1>9. FlushOwnsItsRows' /\ HeldByClaim' /\ CreditedOnce'
  BY <1>3, <1>5 DEF Inv, FlushOwnsItsRows, HeldByClaim, CreditedOnce, Submitted
<1>10. Submitted(s) /\ xp[s] = 0 /\ \A a \in queue : s \notin a.sends
  BY <1>2, <1>s DEF Inv, OpenOnce, QueuedOnce
<1>11. \A d \in Clients : Open(d)' => d # c /\ Open(d) /\ req'[d].send = req[d].send
  BY <1>1, <1>2, AnswerHotReq
<1>12. OpenOnce'
  BY <1>5, <1>11 DEF Inv, OpenOnce, Submitted
<1>13. \A d \in Clients : Open(d)' => req'[d].send # s
  BY <1>2, <1>s, <1>11 DEF Inv, OpenOnce
<1>14. QueuedOnce'
  <2>1. \A a \in queue' : \A t \in a.sends : Submitted(t)' /\ xp'[t] = 0
    BY <1>3, <1>4, <1>5, <1>10 DEF Inv, QueuedOnce, Submitted
  <2>2. \A a, b \in queue' : \A t \in a.sends \cap b.sends : a = b
    BY <1>3, <1>4, <1>10 DEF Inv, QueuedOnce
  <2>3. \A d \in Clients : \A a \in queue' : Open(d)' => req'[d].send \notin a.sends
    BY <1>3, <1>4, <1>11, <1>13 DEF Inv, QueuedOnce
  <2> QED BY <2>1, <2>2, <2>3 DEF QueuedOnce
<1> QED BY <1>7, <1>8, <1>9, <1>12, <1>14 DEF Inv

\* The mutator moves an open send to xp; its request is then no longer open.
LEMMA MutateInv ==
    ASSUME Inv, NEW c \in Clients, Mutate(c) \/ MutateReplay(c)
    PROVE  Inv'
<1>1. req[c].pc = "locked" /\ Open(c) /\ req[c] \in Request
  BY DEF Mutate, MutateReplay, Mutating, Open, Inv, TypeOK, NoRequest
<1>s. PICK s \in Sends : s = req[c].send
  BY <1>1 DEF Request
<1> USE DEF Mutate, MutateReplay, Commit, core, queued, bounds
<1>2. version' \in Nat
  BY DEF Inv, TypeOK
<1>3. \A t \in Sends : xp'[t] = IF t = s /\ Mutate(c) THEN xp[t] + 1 ELSE xp[t]
  BY <1>s DEF Inv, TypeOK, Existing
<1>4. TypeOK'
  <2>1. req' \in [Clients -> Request \cup {NoRequest}]
    BY <1>1, <1>2 DEF Inv, TypeOK, Request
  <2>2. xp' \in [Sends -> Nat]
    BY <1>s DEF Inv, TypeOK
  <2>3. ledger' \subseteq Keys /\ outbox' \subseteq Keys
    BY <1>s DEF Inv, TypeOK, Sends, KeyOf
  <2> QED BY <1>2, <2>1, <2>2, <2>3 DEF Inv, TypeOK
<1>5. RowsNumbered' /\ FlushOwnsItsRows' /\ HeldByClaim'
  BY DEF Inv, RowsNumbered, FlushOwnsItsRows, HeldByClaim
<1>6. Submitted(s) /\ xp[s] = 0 /\ \A a \in queue : s \notin a.sends
  BY <1>1, <1>s DEF Inv, OpenOnce, QueuedOnce
<1>7. \A d \in Clients : Open(d)' => Open(d) /\ d # c /\ req'[d].send = req[d].send
  <2>1. req'[c].pc = "receipt"
    BY <1>1 DEF Inv, TypeOK, Request
  <2>2. \A d \in Clients : d # c => req'[d] = req[d]
    BY DEF Inv, TypeOK
  <2> QED BY <2>1, <2>2 DEF Open
<1>8. \A d \in Clients : Open(d)' => req[d].send # s /\ req[d].send \in Sends
  BY <1>1, <1>7, <1>s DEF Inv, OpenOnce, Open, TypeOK, Request, NoRequest
<1>9. OpenOnce'
  BY <1>3, <1>7, <1>8 DEF Inv, OpenOnce, Submitted
<1>10. QueuedOnce'
  <2>1. \A a \in queue : a.sends \subseteq Sends
    BY DEF Inv, TypeOK, Row
  <2> QED BY <1>3, <1>6, <1>7, <2>1 DEF Inv, QueuedOnce, Submitted
<1>11. CreditedOnce'
  BY <1>3, <1>6 DEF Inv, CreditedOnce, Submitted
<1> QED BY <1>4, <1>5, <1>9, <1>10, <1>11 DEF Inv

LEMMA ReceiptColdInv ==
    ASSUME Inv, NEW c \in Clients, ReceiptCold(c)
    PROVE  Inv'
<1> USE DEF Inv, ReceiptCold, core, queued, bounds
<1>1. req[c] \in Request /\ KeyOf(req[c].send) \in Keys
  BY DEF TypeOK, Request, NoRequest, Sends, KeyOf
<1>2. TypeOK'
  BY <1>1 DEF TypeOK, Request, Receipt
<1>3. RowsNumbered' /\ FlushOwnsItsRows' /\ HeldByClaim' /\ CreditedOnce'
  BY DEF RowsNumbered, FlushOwnsItsRows, HeldByClaim, CreditedOnce, Submitted
<1>4. \A d \in Clients : Open(d)' => Open(d) /\ req'[d].send = req[d].send
  BY DEF Open, TypeOK, NoRequest
<1>5. OpenOnce' /\ QueuedOnce'
  BY <1>4 DEF OpenOnce, QueuedOnce, Submitted
<1> QED BY <1>2, <1>3, <1>5

\* A claim locks rows of the queue that no other flush has.
LEMMA ClaimInv ==
    ASSUME Inv, NEW w \in Workers, Claim(w) \/ GapFound(w)
    PROVE  Inv'
<1> USE DEF core, queued, bounds
<1>1. UNCHANGED <<xp, version, ledger, outbox, queue, nextSeq, lastApplied,
                  receipts, coreLock, req, reader, acked, sent, aborts>>
  BY DEF Claim, GapFound
<1>2. worker[w] \in Flush \cup {NoFlush}
  BY DEF Inv, TypeOK
<1>3. PICK rows : /\ rows \subseteq Unlocked(w)
                  /\ \/ worker' = [worker EXCEPT ![w] = [pc |-> "claimed",
                               held |-> SeqsOf(rows), batch |-> rows, last |-> 0]]
                     \/ /\ worker[w] \in Flush
                        /\ worker' = [worker EXCEPT ![w].pc = "ready", ![w].batch = rows,
                                                    ![w].held = @ \cup SeqsOf(rows)]
  <2>1. CASE Claim(w)
    <3>1. PICK n \in BatchSizes :
            worker' = [worker EXCEPT ![w] = [pc |-> "claimed",
                         held |-> SeqsOf(Lowest(Unlocked(w), n)),
                         batch |-> Lowest(Unlocked(w), n), last |-> 0]]
      BY <2>1 DEF Claim
    <3> QED BY <3>1, LowestSubset
  <2>2. CASE GapFound(w)
    <3>1. PICK n \in BatchSizes :
            worker' = [worker EXCEPT ![w].pc = "ready",
                         ![w].batch = Lowest(Unlocked(w), n),
                         ![w].held = @ \cup SeqsOf(Lowest(Unlocked(w), n))]
      BY <2>2 DEF GapFound
    <3>2. worker[w].pc = "gap"
      BY <2>2 DEF GapFound
    <3>3. worker[w] \in Flush
      BY <1>2, <3>2 DEF NoFlush
    <3> QED BY <3>1, <3>3, LowestSubset
  <2> QED BY <2>1, <2>2
<1>4. rows \subseteq queue /\ SeqsOf(rows) \subseteq Nat /\ rows \in SUBSET Row
  BY <1>3, UnlockedSubset DEF Inv, TypeOK, Row, SeqsOf
<1>5. \A v \in Workers \ {w} : SeqsOf(rows) \cap worker[v].held = {}
  BY <1>3 DEF Unlocked, SeqsOf
<1>6. /\ worker'[w] \in Flush
      /\ worker'[w].batch = rows
      /\ worker'[w].held \in {SeqsOf(rows), worker[w].held \cup SeqsOf(rows)}
  BY <1>2, <1>3, <1>4 DEF Flush, Inv, TypeOK
<1>7. \A v \in Workers : v # w => worker'[v] = worker[v]
  BY <1>3 DEF Inv, TypeOK
<1>8. worker' \in [Workers -> Flush \cup {NoFlush}]
  BY <1>3, <1>6 DEF Inv, TypeOK
<1>9. TypeOK'
  BY <1>1, <1>8 DEF Inv, TypeOK
<1>10. FlushOwnsItsRows' /\ HeldByClaim'
  BY <1>1, <1>4, <1>5, <1>6, <1>7 DEF Inv, FlushOwnsItsRows, HeldByClaim
<1>11. RowsNumbered' /\ OpenOnce' /\ QueuedOnce' /\ CreditedOnce'
  BY <1>1 DEF Inv, RowsNumbered, OpenOnce, QueuedOnce, CreditedOnce, Open, Submitted
<1> QED BY <1>9, <1>10, <1>11 DEF Inv

\* The other steps of a flush that leave the tables alone shrink its batch,
\* keep it, or give it up.
LEMMA FlushStepInv ==
    ASSUME Inv, NEW w \in Workers,
           ReadProgress(w) \/ GapSkip(w) \/ LockForFlush(w) \/ FlushConflict(w) \/ FlushAborts(w)
    PROVE  Inv'
<1> USE DEF core, queued, bounds
<1>1. UNCHANGED <<xp, version, ledger, outbox, queue, nextSeq, lastApplied,
                  receipts, req, reader, acked, sent>>
  BY DEF ReadProgress, GapSkip, LockForFlush, FlushConflict, FlushAborts, Rollback
<1>2. coreLock' \in Clients \cup Workers \cup {None} /\ aborts' \in 0 .. MaxAborts
  BY ConstantsAssumption
     DEF Inv, TypeOK, ReadProgress, GapSkip, LockForFlush, FlushConflict, FlushAborts, Rollback
<1>3. \A v \in Workers : v # w => worker'[v] = worker[v]
  BY DEF Inv, TypeOK, ReadProgress, GapSkip, LockForFlush, FlushConflict, FlushAborts, Rollback
<1>4. /\ worker' = [worker EXCEPT ![w] = worker'[w]]
      /\ worker'[w] \in Flush \cup {NoFlush}
      /\ worker'[w].batch \subseteq worker[w].batch
      /\ worker'[w].held \in {worker[w].held, {}}
      /\ worker'[w].held = {} => worker'[w].batch = {} \/ worker[w].held = {}
  <2>1. worker[w] \in Flush \cup {NoFlush} /\ lastApplied \in Nat
    BY DEF Inv, TypeOK
  <2>2. CASE ReadProgress(w)
    <3>1. worker[w] \in Flush
      BY <2>1, <2>2 DEF ReadProgress, NoFlush
    <3>2. Fresh(w) \subseteq worker[w].batch
      BY DEF Fresh
    <3> QED BY <2>1, <2>2, <3>1, <3>2 DEF ReadProgress, Flush, NoFlush, Inv, TypeOK
  <2>3. CASE GapSkip(w) \/ LockForFlush(w)
    <3>1. worker[w] \in Flush
      BY <2>1, <2>3 DEF GapSkip, LockForFlush, NoFlush
    <3> QED BY <2>3, <3>1 DEF GapSkip, LockForFlush, Flush, Inv, TypeOK
  <2>4. CASE FlushConflict(w) \/ FlushAborts(w)
    BY <2>1, <2>4 DEF FlushConflict, FlushAborts, Rollback, NoFlush, Inv, TypeOK
  <2> QED BY <2>2, <2>3, <2>4
<1>5. TypeOK'
  BY <1>1, <1>2, <1>4 DEF Inv, TypeOK
<1>6. FlushOwnsItsRows' /\ HeldByClaim'
  BY <1>1, <1>3, <1>4 DEF Inv, FlushOwnsItsRows, HeldByClaim, SeqsOf
<1>7. RowsNumbered' /\ OpenOnce' /\ QueuedOnce' /\ CreditedOnce'
  BY <1>1 DEF Inv, RowsNumbered, OpenOnce, QueuedOnce, CreditedOnce, Open, Submitted
<1> QED BY <1>5, <1>6, <1>7 DEF Inv

\* The commit of a flush moves the sends of its rows from the queue to xp.
LEMMA FlushCommitInv ==
    ASSUME Inv, NEW w \in Workers, FlushCommit(w)
    PROVE  Inv'
<1> DEFINE rows == worker[w].batch
<1> USE DEF core, queued, bounds
<1>1. /\ UNCHANGED <<version, outbox, nextSeq, receipts, req, reader, acked, sent, aborts>>
      /\ coreLock' = None
      /\ worker' = [worker EXCEPT ![w] = NoFlush]
      /\ queue' = {r \in queue : r.seq \notin SeqsOf(rows)}
      /\ ledger' = ledger \cup KeysOf(rows)
      /\ xp' = [s \in Sends |-> xp[s] + Cardinality({r \in rows : s \in r.sends})]
      /\ lastApplied' \in SeqsOf(rows)
  BY DEF FlushCommit, Ledgered, Remaining
<1>2. rows \subseteq queue /\ IsFiniteSet(rows)
  BY FS_Subset DEF Inv, FlushOwnsItsRows, RowsNumbered
<1>3. rows \subseteq Row /\ KeysOf(rows) \subseteq Keys /\ SeqsOf(rows) \subseteq Nat
  BY <1>2 DEF Inv, TypeOK, Row, KeysOf, SeqsOf
<1> HIDE DEF rows
<1>4. ASSUME NEW s \in Sends, \A r \in rows : s \notin r.sends
      PROVE  xp'[s] = xp[s]
  <2>1. {r \in rows : s \in r.sends} = {}
    BY <1>4
  <2>2. xp[s] \in Nat
    BY DEF Inv, TypeOK
  <2> QED BY <1>1, <2>1, <2>2, FS_EmptySet
<1>5. ASSUME NEW s \in Sends, NEW r \in rows, s \in r.sends
      PROVE  xp'[s] = 1
  <2>1. {q \in rows : s \in q.sends} = {r}
    BY <1>2, <1>5 DEF Inv, QueuedOnce
  <2>2. xp[s] = 0
    BY <1>2, <1>5 DEF Inv, QueuedOnce
  <2>3. xp'[s] = xp[s] + Cardinality({q \in rows : s \in q.sends})
    BY <1>1
  <2>4. Cardinality({r}) = 1
    BY FS_Singleton
  <2> QED BY <2>1, <2>2, <2>3, <2>4
<1>6. \A a \in queue' : a \in queue /\ \A s \in a.sends : s \in Sends /\ \A r \in rows : s \notin r.sends
  BY <1>1, <1>2 DEF Inv, TypeOK, Row, QueuedOnce, SeqsOf
<1>7. TypeOK'
  <2>1. xp' \in [Sends -> Nat]
    <3>1. ASSUME NEW s \in Sends
          PROVE  xp[s] + Cardinality({r \in rows : s \in r.sends}) \in Nat
      <4>1. Cardinality({r \in rows : s \in r.sends}) \in Nat
        BY <1>2, CreditsNat
      <4>2. xp[s] \in Nat
        BY DEF Inv, TypeOK
      <4> QED BY <4>1, <4>2
    <3> QED BY <1>1, <3>1
  <2>2. worker' \in [Workers -> Flush \cup {NoFlush}]
    BY <1>1 DEF Inv, TypeOK
  <2> QED BY <1>1, <1>3, <2>1, <2>2 DEF Inv, TypeOK
<1>8. RowsNumbered'
  <2>1. IsFiniteSet(queue')
    BY <1>1, FS_Subset, queue' \subseteq queue DEF Inv, RowsNumbered
  <2> QED BY <1>1, <1>6, <2>1 DEF Inv, RowsNumbered
<1>9. FlushOwnsItsRows' /\ HeldByClaim'
  <2>1. worker'[w] = NoFlush /\ \A v \in Workers : v # w => worker'[v] = worker[v]
    BY <1>1 DEF Inv, TypeOK
  <2>2. ASSUME NEW v \in Workers, v # w, NEW r \in worker[v].batch
        PROVE  r \in queue'
    <3>1. r \in queue /\ r.seq \in worker[v].held
      BY DEF Inv, FlushOwnsItsRows, HeldByClaim, SeqsOf
    <3>2. r.seq \notin worker[w].held
      BY <2>2, <3>1 DEF Inv, FlushOwnsItsRows
    <3>3. SeqsOf(rows) \subseteq worker[w].held
      BY DEF rows, Inv, HeldByClaim
    <3> QED BY <1>1, <3>1, <3>2, <3>3
  <2>3. FlushOwnsItsRows'
    BY <2>1, <2>2 DEF Inv, FlushOwnsItsRows, NoFlush
  <2>4. HeldByClaim'
    BY <2>1 DEF Inv, HeldByClaim, NoFlush, SeqsOf
  <2> QED BY <2>3, <2>4
<1>10. OpenOnce'
  <2>1. \A c \in Clients : Open(c) => req[c].send \in Sends
    BY DEF Inv, TypeOK, Open, NoRequest, Request
  <2>2. \A c \in Clients : Open(c) => \A r \in rows : req[c].send \notin r.sends
    BY <1>2 DEF Inv, QueuedOnce
  <2>3. \A c \in Clients : Open(c) => xp'[req[c].send] = 0
    BY <1>4, <2>1, <2>2 DEF Inv, OpenOnce
  <2> QED BY <1>1, <2>3 DEF Inv, OpenOnce, Open, Submitted
<1>11. QueuedOnce'
  <2>1. \A a \in queue' : \A s \in a.sends : Submitted(s)' /\ xp'[s] = 0
    BY <1>1, <1>4, <1>6 DEF Inv, QueuedOnce, Submitted
  <2> QED BY <1>1, <1>6, <2>1 DEF Inv, QueuedOnce, Open
<1>12. CreditedOnce'
  <2>1. ASSUME NEW s \in Sends PROVE xp'[s] <= 1 /\ (xp'[s] > 0 => Submitted(s))
    <3>1. CASE \A r \in rows : s \notin r.sends
      BY <1>4, <3>1 DEF Inv, CreditedOnce
    <3>2. CASE \E r \in rows : s \in r.sends
      BY <1>2, <1>5, <3>2 DEF Inv, QueuedOnce
    <3> QED BY <3>1, <3>2
  <2> QED BY <1>1, <2>1 DEF CreditedOnce, Submitted
<1> QED BY <1>7, <1>8, <1>9, <1>10, <1>11, <1>12 DEF Inv

LEMMA ReadInv ==
    ASSUME Inv, NEW r \in Readers, ReadNext(r)
    PROVE  Inv'
<1> USE DEF core, queued, bounds
<1>1. UNCHANGED <<xp, version, ledger, outbox, queue, nextSeq, lastApplied,
                  receipts, coreLock, req, worker, acked, sent, aborts>>
  BY DEF ReadNext, ReadReceipt, ReadWaits, ReadState, ReadEnds
<1>2. reader' \in [Readers -> Read \cup {NoRead}]
  <2>1. CASE \E k \in Keys : ReadReceipt(r, k)
    BY <2>1 DEF Inv, TypeOK, ReadReceipt, Read
  <2>2. CASE ReadWaits(r)
    BY <2>2 DEF Inv, TypeOK, ReadWaits, Read, NoRead
  <2>3. CASE ReadState(r)
    <3>1. CreditedKeys \subseteq Keys
      BY DEF CreditedKeys, KeyOf, Sends
    <3> QED BY <2>3, <3>1 DEF Inv, TypeOK, ReadState, Read, NoRead
  <2>4. CASE ReadEnds(r)
    BY <2>4 DEF Inv, TypeOK, ReadEnds
  <2> QED BY <2>1, <2>2, <2>3, <2>4 DEF ReadNext
<1>3. TypeOK'
  BY <1>1, <1>2 DEF Inv, TypeOK
<1> QED
  BY <1>1, <1>3
     DEF Inv, RowsNumbered, FlushOwnsItsRows, HeldByClaim, OpenOnce, QueuedOnce,
         CreditedOnce, Open, Submitted

LEMMA StutterInv ==
    ASSUME Inv, UNCHANGED vars
    PROVE  Inv'
BY DEF vars, core, queued, bounds, Inv, TypeOK, RowsNumbered, FlushOwnsItsRows,
       HeldByClaim, OpenOnce, QueuedOnce, CreditedOnce, Open, Submitted

LEMMA StepInv == Inv /\ [Next]_vars => Inv'
<1> SUFFICES ASSUME Inv, [Next]_vars PROVE Inv'
  OBVIOUS
<1>1. ASSUME NEW c \in Clients, RequestNext(c) PROVE Inv'
  BY <1>1, SubmitInv, RequestStepInv, EnqueueDropInv, EnqueueCoalesceInv, EnqueueInsertInv,
     MutateInv, ReceiptColdInv DEF RequestNext
<1>2. ASSUME NEW w \in Workers, FlushNext(w) \/ FlushAborts(w) PROVE Inv'
  BY <1>2, ClaimInv, FlushStepInv, FlushCommitInv DEF FlushNext
<1>3. ASSUME NEW r \in Readers, ReadNext(r) PROVE Inv'
  BY <1>3, ReadInv
<1> QED BY <1>1, <1>2, <1>3, StutterInv DEF Next

LEMMA Invariance == Spec => []Inv
BY InitInv, StepInv, PTL DEF Spec

-----------------------------------------------------------------------------
(***************************************************************************)
(* The keys.  While the queue cannot be overloaded no command is coalesced *)
(* or dropped, so every row carries one submission of the key it is unique *)
(* under, and the ledger, which both mutate and flush_user consult, lists  *)
(* the keys that are in xp.                                                *)
(***************************************************************************)
NeverOverloaded == MaxQueue <= OverloadDepth + 1

RowsKeyed == \A a \in queue : \E s \in Sends : a.sends = {s} /\ KeyOf(s) = a.key

KeysUnique == \A a, b \in queue : a.key = b.key => a = b

KeyInv == Inv /\ RowsKeyed /\ KeysUnique /\ LedgerAgrees /\ KeyCreditedOnce

\* A queue below HOT_QUEUE_MAX is never above the overload threshold.
LEMMA NothingCoalesced ==
    ASSUME NeverOverloaded, Inv, NEW c
    PROVE  ~EnqueueDrop(c) /\ ~EnqueueCoalesce(c)
<1>1. Cardinality(queue) \in Nat
  BY FS_CardinalityType DEF Inv, RowsNumbered
<1>2. MaxQueue \in Nat /\ OverloadDepth \in Nat
  BY ConstantsAssumption
<1>3. ASSUME Cardinality(queue) < MaxQueue, MaybeOverloaded PROVE FALSE
  BY <1>1, <1>2, <1>3 DEF NeverOverloaded, MaybeOverloaded
<1> QED BY <1>3 DEF EnqueueDrop, EnqueueCoalesce, Enqueueing

\* What the commit of a flush credits: the sends of its rows, once each.
LEMMA FlushCredits ==
    ASSUME Inv, NEW w \in Workers, FlushCommit(w), NEW s \in Sends
    PROVE  /\ (\A r \in worker[w].batch : s \notin r.sends) => xp'[s] = xp[s]
           /\ (\E r \in worker[w].batch : s \in r.sends) => xp[s] = 0 /\ xp'[s] = 1
<1> DEFINE rows == worker[w].batch
<1>1. xp' = [t \in Sends |-> xp[t] + Cardinality({r \in rows : t \in r.sends})]
  BY DEF FlushCommit
<1>2. rows \subseteq queue
  BY DEF Inv, FlushOwnsItsRows
<1> HIDE DEF rows
<1>3. xp[s] \in Nat
  BY DEF Inv, TypeOK
<1>4. xp'[s] = xp[s] + Cardinality({r \in rows : s \in r.sends})
  BY <1>1
<1>5. ASSUME \A r \in rows : s \notin r.sends PROVE xp'[s] = xp[s]
  <2>1. {r \in rows : s \in r.sends} = {}
    BY <1>5
  <2>2. xp'[s] = xp[s] + Cardinality({})
    BY <1>4, <2>1, Zenon
  <2>3. Cardinality({}) = 0
    BY FS_EmptySet
  <2> QED BY <1>3, <2>2, <2>3
<1>6. ASSUME NEW r \in rows, s \in r.sends PROVE xp[s] = 0 /\ xp'[s] = 1
  <2>1. {q \in rows : s \in q.sends} = {r}
    BY <1>2, <1>6 DEF Inv, QueuedOnce
  <2>2. xp[s] = 0
    BY <1>2, <1>6 DEF Inv, QueuedOnce
  <2>3. Cardinality({r}) = 1
    BY FS_Singleton
  <2> QED BY <1>4, <2>1, <2>2, <2>3
<1> QED BY <1>5, <1>6 DEF rows

\* A key that the ledger does not list has no submission in xp.
LEMMA UnledgeredIsUncredited ==
    ASSUME KeyInv, NEW s \in Sends, KeyOf(s) \notin ledger,
           NEW t \in Sends, KeyOf(t) = KeyOf(s)
    PROVE  xp[t] = 0
<1>1. ~(xp[t] > 0)
  BY DEF KeyInv, LedgerAgrees, CreditedKeys
<1> QED BY <1>1 DEF KeyInv, Inv, TypeOK

-----------------------------------------------------------------------------
LEMMA InsertKeys ==
    ASSUME KeyInv, NEW c \in Clients, EnqueueInsert(c)
    PROVE  RowsKeyed' /\ KeysUnique' /\ LedgerAgrees' /\ KeyCreditedOnce'
<1>1. nextSeq \in Nat /\ AnswerHot(c, nextSeq) /\ req[c].pc = "locked"
  BY DEF EnqueueInsert, Enqueueing, KeyInv, Inv, TypeOK
<1>2. PICK s \in Sends : s = req[c].send
  BY <1>1, AnswerHotReq DEF KeyInv
<1> DEFINE new == [seq |-> nextSeq, key |-> KeyOf(s), sends |-> {s}]
<1>3. queue' = queue \cup {new} /\ KeyOf(s) \notin KeysOf(queue)
  BY <1>2 DEF EnqueueInsert
<1>4. new.key = KeyOf(s) /\ new.sends = {s}
  OBVIOUS
<1> HIDE DEF new
<1>5. UNCHANGED <<xp, ledger>>
  BY <1>1 DEF AnswerHot, core
<1>6. RowsKeyed'
  BY <1>3, <1>4 DEF KeyInv, RowsKeyed
<1>7. KeysUnique'
  BY <1>3, <1>4 DEF KeyInv, KeysUnique, KeysOf
<1>8. LedgerAgrees' /\ KeyCreditedOnce'
  BY <1>5 DEF KeyInv, LedgerAgrees, CreditedKeys, KeyCreditedOnce
<1> QED BY <1>6, <1>7, <1>8

LEMMA MutateKeys ==
    ASSUME KeyInv, NEW c \in Clients, Mutate(c)
    PROVE  RowsKeyed' /\ KeysUnique' /\ LedgerAgrees' /\ KeyCreditedOnce'
<1>1. PICK s \in Sends : s = req[c].send
  BY DEF Mutate, Mutating, KeyInv, Inv, TypeOK, Request, NoRequest
<1>2. /\ KeyOf(s) \notin ledger
      /\ xp' = [xp EXCEPT ![s] = @ + 1]
      /\ ledger' = ledger \cup {KeyOf(s)}
      /\ queue' = queue
  BY <1>1 DEF Mutate, Existing, Commit, queued
<1>3. \A t \in Sends : KeyOf(t) = KeyOf(s) => xp[t] = 0
  BY <1>2, UnledgeredIsUncredited
<1>4. xp'[s] = 1 /\ \A t \in Sends : t # s => xp'[t] = xp[t]
  BY <1>2, <1>3 DEF KeyInv, Inv, TypeOK
<1>5. RowsKeyed' /\ KeysUnique'
  BY <1>2 DEF KeyInv, RowsKeyed, KeysUnique
<1>6. CreditedKeys' = CreditedKeys \cup {KeyOf(s)}
  BY <1>4 DEF CreditedKeys
<1>7. LedgerAgrees'
  BY <1>2, <1>6 DEF KeyInv, LedgerAgrees
<1>8. KeyCreditedOnce'
  BY <1>3, <1>4 DEF KeyInv, KeyCreditedOnce
<1> QED BY <1>5, <1>7, <1>8

LEMMA FlushKeys ==
    ASSUME KeyInv, NEW w \in Workers, FlushCommit(w)
    PROVE  RowsKeyed' /\ KeysUnique' /\ LedgerAgrees' /\ KeyCreditedOnce'
<1> DEFINE rows == worker[w].batch
           Carried(s) == \E r \in rows : s \in r.sends
<1>1. /\ ledger' = ledger \cup KeysOf(rows)
      /\ queue' \subseteq queue
      /\ KeysOf(rows) \cap ledger = {}
  BY DEF FlushCommit, Ledgered, Remaining, Duplicates
<1>2. rows \subseteq queue
  BY DEF KeyInv, Inv, FlushOwnsItsRows
<1>3. \A s \in Sends : IF Carried(s) THEN xp'[s] = 1 ELSE xp'[s] = xp[s]
  BY FlushCredits DEF KeyInv
<1> HIDE DEF rows
<1>4. \A r \in rows : \E s \in Sends : r.sends = {s} /\ KeyOf(s) = r.key
  BY <1>2 DEF KeyInv, RowsKeyed
<1>5. \A s \in Sends : Carried(s) => \E r \in rows : r.sends = {s} /\ KeyOf(s) = r.key
  BY <1>4
<1>6. \A s \in Sends : Carried(s) => KeyOf(s) \in KeysOf(rows)
  BY <1>5 DEF KeysOf
<1>7. RowsKeyed' /\ KeysUnique'
  BY <1>1 DEF KeyInv, RowsKeyed, KeysUnique
<1>8. CreditedKeys' = CreditedKeys \cup KeysOf(rows)
  <2>1. ASSUME NEW k \in CreditedKeys' PROVE k \in CreditedKeys \cup KeysOf(rows)
    <3>1. PICK s \in Sends : xp'[s] > 0 /\ k = KeyOf(s)
      BY <2>1 DEF CreditedKeys
    <3> QED BY <1>3, <1>6, <3>1 DEF CreditedKeys
  <2>2. ASSUME NEW k \in KeysOf(rows) PROVE k \in CreditedKeys'
    <3>1. PICK s \in Sends : Carried(s) /\ KeyOf(s) = k
      BY <1>4, <2>2 DEF KeysOf
    <3>2. xp'[s] > 0
      BY <1>3, <3>1
    <3> QED BY <3>1, <3>2 DEF CreditedKeys
  <2>3. ASSUME NEW k \in CreditedKeys PROVE k \in CreditedKeys'
    <3>1. PICK s \in Sends : xp[s] > 0 /\ k = KeyOf(s)
      BY <2>3 DEF CreditedKeys
    <3>2. xp'[s] > 0
      BY <1>3, <3>1
    <3> QED BY <3>1, <3>2 DEF CreditedKeys
  <2> QED BY <2>1, <2>2, <2>3
<1>9. LedgerAgrees'
  BY <1>1, <1>8 DEF KeyInv, LedgerAgrees
<1>10. KeyCreditedOnce'
  <2> SUFFICES ASSUME NEW s \in Sends, NEW t \in Sends, xp'[s] > 0, xp'[t] > 0,
                      KeyOf(s) = KeyOf(t)
               PROVE  s = t
    BY DEF KeyCreditedOnce
  <2>1. \A u \in Sends : xp[u] > 0 => KeyOf(u) \in ledger
    BY DEF KeyInv, LedgerAgrees, CreditedKeys
  <2>2. CASE Carried(s) /\ Carried(t)
    BY <1>2, <1>5, <2>2 DEF KeyInv, KeysUnique
  <2>3. CASE Carried(s) /\ ~Carried(t)
    BY <1>1, <1>3, <1>6, <2>1, <2>3
  <2>4. CASE ~Carried(s) /\ Carried(t)
    BY <1>1, <1>3, <1>6, <2>1, <2>4
  <2>5. CASE ~Carried(s) /\ ~Carried(t)
    BY <1>3, <2>5 DEF KeyInv, KeyCreditedOnce
  <2> QED BY <2>2, <2>3, <2>4, <2>5
<1> QED BY <1>7, <1>9, <1>10

\* Every other step leaves the queue, xp and the ledger as they are.
OtherStep ==
    \/ UNCHANGED vars
    \/ \E c \in Clients :
          \/ \E k \in Keys, m \in Modes : Submit(c, k, m)
          \/ LockForRequest(c) \/ RequestFails(c) \/ MutateReplay(c) \/ ReceiptCold(c)
    \/ \E w \in Workers :
          \/ Claim(w) \/ ReadProgress(w) \/ GapFound(w) \/ GapSkip(w)
          \/ LockForFlush(w) \/ FlushConflict(w) \/ FlushAborts(w)
    \/ \E r \in Readers : ReadNext(r)

LEMMA OtherStepKeeps == OtherStep => UNCHANGED <<queue, xp, ledger>>
<1> USE DEF core, queued
<1>1. UNCHANGED vars => UNCHANGED <<queue, xp, ledger>>
  BY DEF vars
<1>2. ASSUME NEW c \in Clients,
             \/ \E k \in Keys, m \in Modes : Submit(c, k, m)
             \/ LockForRequest(c) \/ RequestFails(c) \/ MutateReplay(c) \/ ReceiptCold(c)
      PROVE  UNCHANGED <<queue, xp, ledger>>
  BY <1>2 DEF Submit, LockForRequest, RequestFails, MutateReplay, Commit, ReceiptCold
<1>3. ASSUME NEW w \in Workers,
             \/ Claim(w) \/ ReadProgress(w) \/ GapFound(w) \/ GapSkip(w)
             \/ LockForFlush(w) \/ FlushConflict(w) \/ FlushAborts(w)
      PROVE  UNCHANGED <<queue, xp, ledger>>
  BY <1>3 DEF Claim, ReadProgress, GapFound, GapSkip, LockForFlush, FlushConflict,
              FlushAborts, Rollback
<1>4. ASSUME NEW r \in Readers, ReadNext(r) PROVE UNCHANGED <<queue, xp, ledger>>
  BY <1>4 DEF ReadNext, ReadReceipt, ReadWaits, ReadState, ReadEnds
<1> QED BY <1>1, <1>2, <1>3, <1>4 DEF OtherStep

\* The steps that matter to the keys, when nothing is coalesced.
LEMMA StepKinds ==
    ASSUME NeverOverloaded, Inv, [Next]_vars
    PROVE  \/ \E c \in Clients : EnqueueInsert(c) \/ Mutate(c)
           \/ \E w \in Workers : FlushCommit(w)
           \/ OtherStep
BY NothingCoalesced DEF Next, RequestNext, FlushNext, OtherStep

LEMMA KeyStep ==
    ASSUME NeverOverloaded, KeyInv, [Next]_vars
    PROVE  KeyInv'
<1>1. Inv'
  BY StepInv DEF KeyInv
<1>2. ASSUME OtherStep
      PROVE  RowsKeyed' /\ KeysUnique' /\ LedgerAgrees' /\ KeyCreditedOnce'
  <2>1. UNCHANGED <<queue, xp, ledger>>
    BY <1>2, OtherStepKeeps
  <2> QED BY <2>1 DEF KeyInv, RowsKeyed, KeysUnique, LedgerAgrees, CreditedKeys, KeyCreditedOnce
<1>3. RowsKeyed' /\ KeysUnique' /\ LedgerAgrees' /\ KeyCreditedOnce'
  BY <1>2, StepKinds, InsertKeys, MutateKeys, FlushKeys DEF KeyInv
<1> QED BY <1>1, <1>3 DEF KeyInv

LEMMA KeyInit == Init => KeyInv
BY InitInv
   DEF KeyInv, Init, RowsKeyed, KeysUnique, LedgerAgrees, CreditedKeys, KeyCreditedOnce

LEMMA KeyInvariance ==
    ASSUME NeverOverloaded
    PROVE  Spec => []KeyInv
<1>1. KeyInv /\ [Next]_vars => KeyInv'
  BY KeyStep
<1> QED BY KeyInit, <1>1, PTL DEF Spec

-----------------------------------------------------------------------------
\* Every variable keeps its type.
THEOREM TypeCorrect == Spec => []TypeOK
<1>1. Inv => TypeOK
  BY DEF Inv
<1> QED BY <1>1, Invariance, PTL

\* Whatever is retried, aborted, coalesced or claimed by any number of flush
\* workers, no submission's xp_delta is added to xp twice.
THEOREM AtMostOneCredit == Spec => []SendCreditedOnce
<1>1. Inv => SendCreditedOnce
  BY DEF Inv, CreditedOnce, SendCreditedOnce
<1> QED BY <1>1, Invariance, PTL

\* SKIP LOCKED gives the rows of a batch to one flush: until that flush ends no
\* other transaction deletes, changes or claims them.
THEOREM RowOwnership == Spec => []FlushOwnsItsRows
<1>1. Inv => FlushOwnsItsRows
  BY DEF Inv
<1> QED BY <1>1, Invariance, PTL

\* While the queue cannot be overloaded, an idempotency key is credited once,
\* through any retries, in any mode and by any number of flush workers.
THEOREM OneCreditPerKey ==
    ASSUME NeverOverloaded
    PROVE  Spec => []KeyCreditedOnce
<1>1. KeyInv => KeyCreditedOnce
  BY DEF KeyInv
<1> QED BY <1>1, KeyInvariance, PTL

\* While the queue cannot be overloaded, the ledger lists exactly the keys in xp.
THEOREM LedgerIsExact ==
    ASSUME NeverOverloaded
    PROVE  Spec => []LedgerAgrees
<1>1. KeyInv => LedgerAgrees
  BY DEF KeyInv
<1> QED BY <1>1, KeyInvariance, PTL

-----------------------------------------------------------------------------
(***************************************************************************)
(* The refinement: an insertion accepts a submission, the mutator credits  *)
(* one at once, and the commit of a flush credits those of its rows.       *)
(***************************************************************************)
LEMMA InsertAccepts ==
    ASSUME KeyInv, NEW c \in Clients, EnqueueInsert(c)
    PROVE  \E s \in Sends : Promise!Accept(s)
<1>1. nextSeq \in Nat /\ AnswerHot(c, nextSeq) /\ req[c].pc = "locked" /\ Open(c)
  BY DEF EnqueueInsert, Enqueueing, Open, KeyInv, Inv, TypeOK
<1>2. PICK s \in Sends : s = req[c].send
  BY <1>1, AnswerHotReq DEF KeyInv
<1> DEFINE new == [seq |-> nextSeq, key |-> KeyOf(s), sends |-> {s}]
<1>3. queue' = queue \cup {new} /\ KeyOf(s) \notin KeysOf(queue)
  BY <1>2 DEF EnqueueInsert
<1>4. new.sends = {s}
  OBVIOUS
<1> HIDE DEF new
<1>5. SendsInQueue' = SendsInQueue \cup {s}
  BY <1>3, <1>4 DEF SendsInQueue
<1>6. \A t \in SendsInQueue : t[1] # s[1]
  BY <1>3 DEF SendsInQueue, KeyInv, RowsKeyed, KeysOf, KeyOf
<1>7. xp[s] = 0
  BY <1>1, <1>2 DEF KeyInv, Inv, OpenOnce
<1>8. UNCHANGED xp
  BY <1>1 DEF AnswerHot, core
<1> QED BY <1>5, <1>6, <1>7, <1>8 DEF Promise!Accept, Promise!SameKey

LEMMA MutateCredits ==
    ASSUME KeyInv, NEW c \in Clients, Mutate(c)
    PROVE  \E s \in Sends : Promise!CreditNow(s)
<1>1. req[c].pc = "locked" /\ Open(c)
  BY DEF Mutate, Mutating, Open
<1>2. PICK s \in Sends : s = req[c].send
  BY <1>1 DEF KeyInv, Inv, TypeOK, Request, NoRequest
<1>3. s \notin SendsInQueue
  BY <1>1, <1>2 DEF SendsInQueue, KeyInv, Inv, QueuedOnce
<1>4. \A t \in Sends : t[1] = s[1] => xp[t] = 0
  <2>1. KeyOf(s) \notin ledger
    BY <1>2 DEF Mutate, Existing
  <2> QED BY <2>1, UnledgeredIsUncredited DEF KeyOf
<1>5. xp' = [xp EXCEPT ![s] = @ + 1] /\ SendsInQueue' = SendsInQueue
  BY <1>2 DEF Mutate, Commit, queued, SendsInQueue
<1> QED
  BY <1>3, <1>4, <1>5
     DEF Promise!CreditNow, Promise!Uncredited, Promise!SameKey, Promise!Submissions, Sends

LEMMA FlushCreditsBatch ==
    ASSUME KeyInv, NEW w \in Workers, FlushCommit(w)
    PROVE  \E batch \in SUBSET SendsInQueue : Promise!Credit(batch)
<1> DEFINE rows == worker[w].batch
           batch == UNION {r.sends : r \in rows}
<1>1. rows \subseteq queue
  BY DEF KeyInv, Inv, FlushOwnsItsRows
<1>2. /\ rows # {}
      /\ queue' = {r \in queue : r.seq \notin SeqsOf(rows)}
      /\ KeysOf(rows) \cap ledger = {}
  BY DEF FlushCommit, SeqsOf, Remaining, Duplicates
<1>3. \A s \in Sends : IF s \in batch THEN xp[s] = 0 /\ xp'[s] = 1 ELSE xp'[s] = xp[s]
  BY FlushCredits DEF KeyInv
<1>4. xp' = [s \in Sends |-> xp'[s]]
  BY DEF FlushCommit
<1> HIDE DEF rows
<1>5. \A r \in rows : \E s \in Sends : r.sends = {s} /\ KeyOf(s) = r.key
  BY <1>1 DEF KeyInv, RowsKeyed
<1>6. batch \subseteq Sends /\ batch \subseteq SendsInQueue
  BY <1>1, <1>5 DEF SendsInQueue
<1>7. batch # {}
  BY <1>2, <1>5
<1>8. ASSUME NEW s \in batch, NEW t \in Sends, s[1] = t[1] PROVE xp[t] = 0
  <2>1. KeyOf(s) \notin ledger
    BY <1>2, <1>5, <1>8 DEF KeysOf
  <2> QED BY <1>6, <1>8, <2>1, UnledgeredIsUncredited DEF KeyOf
<1>9. \A r \in queue : r \in queue' <=> r \notin rows
  BY <1>1, <1>2 DEF SeqsOf, KeyInv, Inv, RowsNumbered
<1>10. queue' \subseteq queue
  BY <1>2
<1>11. SendsInQueue' = SendsInQueue \ batch
  <2>1. \A a, b \in queue : \A s \in a.sends \cap b.sends : a = b
    BY DEF KeyInv, Inv, QueuedOnce
  <2>2. ASSUME NEW s \in SendsInQueue' PROVE s \in SendsInQueue \ batch
    BY <1>1, <1>9, <1>10, <2>1, <2>2 DEF SendsInQueue
  <2>3. ASSUME NEW s \in SendsInQueue \ batch PROVE s \in SendsInQueue'
    BY <1>9, <2>3 DEF SendsInQueue
  <2> QED BY <2>2, <2>3
<1> HIDE DEF batch
<1>12. xp' = [s \in Sends |-> IF s \in batch THEN xp[s] + 1 ELSE xp[s]]
  <2>1. \A s \in Sends : xp'[s] = IF s \in batch THEN xp[s] + 1 ELSE xp[s]
    BY <1>3
  <2> QED BY <1>4, <2>1
<1>13. Promise!Credit(batch)
  BY <1>7, <1>8, <1>11, <1>12
     DEF Promise!Credit, Promise!Uncredited, Promise!SameKey, Promise!Submissions, Sends
<1> QED BY <1>6, <1>13

\* While the queue cannot be overloaded, the write path of a user, its hot
\* queue and its flush workers included, implements ExactlyOnce.
THEOREM WritePathKeepsPromise ==
    ASSUME NeverOverloaded
    PROVE  Spec => KeepsPromise
<1>1. Init => Promise!Init
  BY DEF Init, Promise!Init, SendsInQueue, Promise!Submissions, Sends
<1>2. KeyInv /\ [Next]_vars => [Promise!Next]_<<SendsInQueue, xp>>
  <2> SUFFICES ASSUME KeyInv, [Next]_vars PROVE [Promise!Next]_<<SendsInQueue, xp>>
    OBVIOUS
  <2>1. CASE \E c \in Clients : EnqueueInsert(c) \/ Mutate(c)
    BY <2>1, InsertAccepts, MutateCredits DEF Promise!Next, Promise!Submissions, Sends
  <2>2. CASE \E w \in Workers : FlushCommit(w)
    BY <2>2, FlushCreditsBatch DEF Promise!Next
  <2>3. CASE OtherStep
    BY <2>3, OtherStepKeeps DEF SendsInQueue
  <2> QED BY <2>1, <2>2, <2>3, StepKinds DEF KeyInv
<1> QED BY <1>1, <1>2, KeyInvariance, PTL DEF Spec, KeepsPromise, Promise!Spec

-----------------------------------------------------------------------------
(***************************************************************************)
(* Reading one's own writes, with one flush worker and however overloaded  *)
(* the queue.  The worker takes the rows in their order, so that a row     *)
(* numbered up to last_applied_seq is in xp; every receipt is about a key  *)
(* that is in xp, or in a row with a number up to the receipt's.           *)
(***************************************************************************)
OneWorker == \A v, w \in Workers : v = w

AheadOfProgress == \A a \in queue : a.seq > lastApplied

BatchIsLowest ==
    \A w \in Workers : \A a \in worker[w].batch, b \in queue : b.seq <= a.seq => b \in worker[w].batch

KeysCarried == \A a \in queue : \E s \in a.sends : KeyOf(s) = a.key

LedgerIsWritten == ledger \subseteq CreditedKeys

CommittedIsWritten == \A c \in Clients : req[c].pc = "receipt" => KeyOf(req[c].send) \in CreditedKeys

Written(k) == k \in ZeroKeys \cup CreditedKeys
Waiting(k, n) == \E a \in queue : a.seq <= n /\ \E s \in a.sends : KeyOf(s) = k

Kept(k, receipt) == receipt # NoReceipt => Written(k) \/ (receipt.mode = "hot" /\ Waiting(k, receipt.seq))

ReceiptsKept == \A k \in Keys : Kept(k, receipts[k])

ReadKept(x) ==
    /\ x.pc = "poll" => Kept(x.key, x.receipt)
    /\ x.pc = "ready" => Written(x.key)
    /\ x.pc = "done" => x.key \in ZeroKeys \cup x.seen

ReadsKept == \A r \in Readers : ReadKept(reader[r])

OrderInv == lastApplied < nextSeq /\ AheadOfProgress /\ BatchIsLowest
WrittenInv == KeysCarried /\ LedgerIsWritten /\ CommittedIsWritten
PromisesInv == ReceiptsKept /\ ReadsKept
OwnWritesInv == Inv /\ OrderInv /\ WrittenInv /\ PromisesInv

LEMMA OwnWritesInit == Init => OwnWritesInv
<1> SUFFICES ASSUME Init PROVE OwnWritesInv
  OBVIOUS
<1>1. OrderInv
  BY DEF Init, OrderInv, AheadOfProgress, BatchIsLowest
<1>2. WrittenInv
  BY DEF Init, WrittenInv, KeysCarried, LedgerIsWritten, CommittedIsWritten, NoRequest
<1>3. PromisesInv
  BY DEF Init, PromisesInv, ReceiptsKept, ReadsKept, Kept, ReadKept, NoRead
<1> QED BY <1>1, <1>2, <1>3, InitInv DEF OwnWritesInv

\* The only worker is in nobody's way.
LEMMA AllUnlocked ==
    ASSUME OneWorker, NEW w \in Workers
    PROVE  Unlocked(w) = queue
BY DEF OneWorker, Unlocked

\* ORDER BY seq LIMIT n returns no row without those before it.
LEMMA LowestIsLowest ==
    ASSUME Inv, NEW n \in Nat, NEW a \in Lowest(queue, n), NEW b \in queue, b.seq <= a.seq
    PROVE  b \in Lowest(queue, n)
<1> DEFINE upTo(x) == {q \in queue : q.seq <= x.seq}
<1>1. a \in queue /\ Cardinality(upTo(a)) <= n
  BY DEF Lowest
<1>2. \A q \in queue : q.seq \in Nat
  BY DEF Inv, TypeOK, Row
<1>3. upTo(b) \subseteq upTo(a) /\ upTo(a) \subseteq queue
  BY <1>1, <1>2
<1>4. IsFiniteSet(upTo(a)) /\ IsFiniteSet(upTo(b))
  BY <1>3, FS_Subset DEF Inv, RowsNumbered
<1>5. Cardinality(upTo(b)) <= Cardinality(upTo(a))
  BY <1>3, <1>4, FS_Subset
<1>6. Cardinality(upTo(b)) \in Nat /\ Cardinality(upTo(a)) \in Nat
  BY <1>4, FS_CardinalityType
<1> QED BY <1>1, <1>5, <1>6 DEF Lowest

\* What the steps of requests do to the rows: nothing, or one row more, or one send more in one
\* of the rows that no flush has locked.
RowsGrow ==
    /\ UNCHANGED <<lastApplied, worker>>
    /\ nextSeq' \in {nextSeq, nextSeq + 1}
    /\ \A b \in queue' : \/ b.seq = nextSeq
                         \/ \E a \in queue : a.seq = b.seq /\ (a = b \/ \A w \in Workers : a.seq \notin worker[w].held)
    /\ \A a \in queue : \E b \in queue' : b.seq = a.seq /\ b.key = a.key /\ a.sends \subseteq b.sends
    /\ \A b \in queue' : \E s \in b.sends : KeyOf(s) = b.key

LEMMA GrowingKeepsOrder ==
    ASSUME Inv, OrderInv, RowsGrow
    PROVE  OrderInv'
<1>1. \A a \in queue : a.seq \in Nat /\ a.seq < nextSeq
  BY DEF Inv, RowsNumbered, TypeOK, Row
<1>2. nextSeq \in Nat /\ lastApplied \in Nat
  BY DEF Inv, TypeOK
<1>3. AheadOfProgress' /\ lastApplied' < nextSeq'
  BY <1>1, <1>2 DEF RowsGrow, OrderInv, AheadOfProgress
<1>4. ASSUME NEW w \in Workers, NEW a \in worker[w].batch, NEW b \in queue', b.seq <= a.seq
      PROVE  b \in worker[w].batch
  <2>1. a \in queue /\ a.seq \in worker[w].held
    BY DEF Inv, FlushOwnsItsRows, HeldByClaim, SeqsOf
  <2>2. b.seq # nextSeq
    BY <1>1, <1>2, <1>4, <2>1
  <2>3. PICK c \in queue : c.seq = b.seq /\ (c = b \/ \A v \in Workers : c.seq \notin worker[v].held)
    BY <2>2 DEF RowsGrow
  <2>4. c \in worker[w].batch
    BY <1>4, <2>3 DEF OrderInv, BatchIsLowest
  <2>5. c.seq \in worker[w].held
    BY <2>4 DEF Inv, HeldByClaim, SeqsOf
  <2> QED BY <2>3, <2>4, <2>5
<1> QED BY <1>3, <1>4 DEF OrderInv, BatchIsLowest, RowsGrow

LEMMA EnqueueGrows ==
    ASSUME Inv, KeysCarried, NEW c \in Clients, EnqueueDrop(c) \/ EnqueueCoalesce(c) \/ EnqueueInsert(c)
    PROVE  RowsGrow
<1>1. req[c] \in Request /\ req[c].send \in Sends
  BY DEF EnqueueDrop, EnqueueCoalesce, EnqueueInsert, Enqueueing, Inv, TypeOK, Request, NoRequest
<1>2. UNCHANGED <<lastApplied, worker>> /\ nextSeq' \in {nextSeq, nextSeq + 1}
  BY DEF EnqueueDrop, EnqueueCoalesce, EnqueueInsert, AnswerHot
<1>3. CASE EnqueueDrop(c)
  BY <1>2, <1>3 DEF EnqueueDrop, RowsGrow, KeysCarried
<1>4. CASE EnqueueCoalesce(c)
  <2>1. PICK row \in CoalesceTarget(c) : CoalesceTarget(c) = {row}
    BY <1>4, TargetUnique DEF EnqueueCoalesce
  <2> DEFINE new == [row EXCEPT !.sends = @ \cup {req[c].send}]
  <2>2. queue' = (queue \ {row}) \cup {new}
    BY <1>4, <2>1 DEF EnqueueCoalesce, Coalesced
  <2>3. row \in queue /\ \A w \in Workers : row.seq \notin worker[w].held
    BY <2>1, ProcessesAssumption DEF CoalesceTarget, Unlocked
  <2>4. row \in Row
    BY <2>3 DEF Inv, TypeOK
  <2>5. new.seq = row.seq /\ new.key = row.key /\ row.sends \subseteq new.sends
    BY <2>4 DEF Row
  <2> HIDE DEF new
  <2>6. \A b \in queue' : \E a \in queue : a.seq = b.seq /\ (a = b \/ \A w \in Workers : a.seq \notin worker[w].held)
    BY <2>2, <2>3, <2>5
  <2>7. \A a \in queue : \E b \in queue' : b.seq = a.seq /\ b.key = a.key /\ a.sends \subseteq b.sends
    BY <2>2, <2>5
  <2>8. \A b \in queue' : \E s \in b.sends : KeyOf(s) = b.key
    BY <2>2, <2>3, <2>5 DEF KeysCarried
  <2> QED BY <1>2, <2>6, <2>7, <2>8 DEF RowsGrow
<1>5. CASE EnqueueInsert(c)
  <2> DEFINE new == [seq |-> nextSeq, key |-> KeyOf(req[c].send), sends |-> {req[c].send}]
  <2>1. queue' = queue \cup {new}
    BY <1>5 DEF EnqueueInsert
  <2>2. new.seq = nextSeq /\ \E s \in new.sends : KeyOf(s) = new.key
    OBVIOUS
  <2> HIDE DEF new
  <2> QED BY <1>2, <2>1, <2>2 DEF RowsGrow, KeysCarried
<1> QED BY <1>3, <1>4, <1>5

-----------------------------------------------------------------------------
\* What is written stays written, and what waits in a row waits on, unless it is written.
Promising ==
    /\ CreditedKeys \subseteq CreditedKeys'
    /\ \A k \in Keys, n \in Nat : Waiting(k, n) => Waiting(k, n)' \/ Written(k)'

LEMMA KeptStays ==
    ASSUME Promising, NEW k \in Keys, NEW receipt \in Receipt \cup {NoReceipt}, Kept(k, receipt)
    PROVE  Kept(k, receipt)'
BY DEF Promising, Kept, Written, Receipt, NoReceipt

LEMMA ReadsStay ==
    ASSUME Inv, ReadsKept, Promising, UNCHANGED reader
    PROVE  ReadsKept'
<1> SUFFICES ASSUME NEW r \in Readers PROVE ReadKept(reader[r])'
  BY DEF ReadsKept
<1>1. ReadKept(reader[r]) /\ reader[r] \in Read \cup {NoRead}
  BY DEF ReadsKept, Inv, TypeOK
<1>2. reader[r].pc = "poll" => Kept(reader[r].key, reader[r].receipt)'
  <2> SUFFICES ASSUME reader[r].pc = "poll" PROVE Kept(reader[r].key, reader[r].receipt)'
    OBVIOUS
  <2>1. PICK k \in Keys, receipt \in Receipt : k = reader[r].key /\ receipt = reader[r].receipt
    BY <1>1 DEF Read, NoRead
  <2>2. Kept(k, receipt)
    BY <1>1, <2>1 DEF ReadKept
  <2>3. Kept(k, receipt)'
    BY <2>2, KeptStays
  <2> QED BY <2>1, <2>3
<1>3. reader[r].pc = "ready" => Written(reader[r].key)'
  BY <1>1 DEF ReadKept, Written, Promising
<1> QED BY <1>1, <1>2, <1>3 DEF ReadKept

LEMMA ReceiptsStay ==
    ASSUME Inv, ReceiptsKept, Promising, UNCHANGED receipts
    PROVE  ReceiptsKept'
BY KeptStays DEF ReceiptsKept, Inv, TypeOK

LEMMA GrowingPromises ==
    ASSUME Inv, RowsGrow, UNCHANGED xp
    PROVE  Promising
<1>1. CreditedKeys' = CreditedKeys
  BY DEF CreditedKeys
<1>2. ASSUME NEW k \in Keys, NEW n \in Nat, Waiting(k, n) PROVE Waiting(k, n)'
  <2>1. PICK a \in queue : a.seq <= n /\ \E s \in a.sends : KeyOf(s) = k
    BY <1>2 DEF Waiting
  <2>2. PICK b \in queue' : b.seq = a.seq /\ a.sends \subseteq b.sends
    BY DEF RowsGrow
  <2> QED BY <2>1, <2>2 DEF Waiting
<1> QED BY <1>1, <1>2 DEF Promising

-----------------------------------------------------------------------------
\* Steps that leave the rows, xp and the promises alone.
LEMMA QuietStep ==
    ASSUME OwnWritesInv, UNCHANGED <<xp, ledger, queue, nextSeq, lastApplied, worker, receipts, reader>>,
           \A c \in Clients : req'[c].pc = "receipt" => req'[c] = req[c]
    PROVE  OrderInv' /\ WrittenInv' /\ PromisesInv'
<1>1. CreditedKeys' = CreditedKeys
  BY DEF CreditedKeys
<1>2. OrderInv'
  BY DEF OwnWritesInv, OrderInv, AheadOfProgress, BatchIsLowest
<1>3. WrittenInv'
  BY <1>1 DEF OwnWritesInv, WrittenInv, KeysCarried, LedgerIsWritten, CommittedIsWritten
<1>4. Promising
  BY <1>1 DEF Promising, Waiting
<1>5. PromisesInv'
  BY <1>4, ReadsStay, ReceiptsStay DEF OwnWritesInv, PromisesInv
<1> QED BY <1>2, <1>3, <1>5

LEMMA EnqueueStep ==
    ASSUME OwnWritesInv, NEW c \in Clients, EnqueueDrop(c) \/ EnqueueCoalesce(c) \/ EnqueueInsert(c)
    PROVE  OrderInv' /\ WrittenInv' /\ PromisesInv'
<1>1. RowsGrow
  BY EnqueueGrows DEF OwnWritesInv, WrittenInv
<1>2. UNCHANGED <<xp, ledger, reader>>
  BY DEF EnqueueDrop, EnqueueCoalesce, EnqueueInsert, AnswerHot, core
<1>3. Promising
  BY <1>1, <1>2, GrowingPromises DEF OwnWritesInv
<1>4. OrderInv'
  BY <1>1, GrowingKeepsOrder DEF OwnWritesInv
<1>5. req[c] \in Request /\ req[c].send \in Sends /\ KeyOf(req[c].send) \in Keys
  BY DEF EnqueueDrop, EnqueueCoalesce, EnqueueInsert, Enqueueing, OwnWritesInv, Inv, TypeOK, Request, NoRequest,
         Sends, KeyOf
<1>6. req' = [req EXCEPT ![c] = NoRequest]
  BY DEF EnqueueDrop, EnqueueCoalesce, EnqueueInsert, AnswerHot
<1>7. WrittenInv'
  <2>1. CreditedKeys' = CreditedKeys
    BY <1>2 DEF CreditedKeys
  <2>2. CommittedIsWritten'
    BY <1>6, <2>1 DEF OwnWritesInv, WrittenInv, CommittedIsWritten, NoRequest, Inv, TypeOK
  <2> QED BY <1>1, <1>2, <2>1, <2>2 DEF OwnWritesInv, WrittenInv, KeysCarried, LedgerIsWritten, RowsGrow
<1>k. PICK k \in Keys : k = KeyOf(req[c].send)
  BY <1>5
<1>8. \E n \in Nat : /\ receipts' = [receipts EXCEPT ![k] = [mode |-> "hot", seq |-> n]]
                     /\ Written(k)' \/ Waiting(k, n)'
  <2>1. CASE EnqueueDrop(c)
    <3>1. PICK n \in Nat : AnswerHot(c, n)
      BY <2>1 DEF EnqueueDrop, OwnWritesInv, Inv, TypeOK
    <3>2. k \in ZeroKeys
      BY <2>1, <1>k DEF EnqueueDrop
    <3>3. Written(k)'
      BY <3>2 DEF Written
    <3> QED BY <1>k, <3>1, <3>3 DEF AnswerHot
  <2>2. CASE EnqueueCoalesce(c)
    <3>1. PICK n \in Nat : IsLatestSeq(n) /\ AnswerHot(c, n)
      BY <2>2 DEF EnqueueCoalesce, OwnWritesInv, Inv, TypeOK
    <3>2. PICK row \in CoalesceTarget(c) : TRUE
      BY <2>2 DEF EnqueueCoalesce
    <3>3. row \in queue /\ row \in Row
      BY <3>2 DEF CoalesceTarget, Unlocked, OwnWritesInv, Inv, TypeOK
    <3>4. row.seq <= n
      BY <3>1, <3>3 DEF IsLatestSeq, SeqsOf
    <3> DEFINE new == Coalesced(row, req[c].send)
    <3>5. new \in queue'
      BY <2>2, <3>2 DEF EnqueueCoalesce
    <3>6. new.seq = row.seq /\ req[c].send \in new.sends
      BY <3>3 DEF Coalesced, Row
    <3>7. Waiting(k, n)'
      <4> SUFFICES \E a \in queue' : a.seq <= n /\ \E s \in a.sends : KeyOf(s) = k
        BY DEF Waiting
      <4> QED BY <1>k, <3>4, <3>5, <3>6
    <3> QED BY <1>k, <3>1, <3>7 DEF AnswerHot
  <2>3. CASE EnqueueInsert(c)
    <3> DEFINE new == [seq |-> nextSeq, key |-> KeyOf(req[c].send), sends |-> {req[c].send}]
    <3>1. PICK n \in Nat : n = nextSeq
      BY DEF OwnWritesInv, Inv, TypeOK
    <3>2. AnswerHot(c, n) /\ new \in queue'
      BY <2>3, <3>1 DEF EnqueueInsert
    <3>3. Waiting(k, n)'
      <4> SUFFICES \E a \in queue' : a.seq <= n /\ \E s \in a.sends : KeyOf(s) = k
        BY DEF Waiting
      <4> QED BY <1>k, <3>1, <3>2
    <3> QED BY <1>k, <3>2, <3>3 DEF AnswerHot
  <2> QED BY <2>1, <2>2, <2>3
<1>9. ReceiptsKept'
  <2>1. PICK n \in Nat : /\ receipts' = [receipts EXCEPT ![k] = [mode |-> "hot", seq |-> n]]
                         /\ Written(k)' \/ Waiting(k, n)'
    BY <1>8
  <2> SUFFICES ASSUME NEW j \in Keys PROVE Kept(j, receipts[j])'
    BY DEF ReceiptsKept
  <2>2. receipts \in [Keys -> Receipt \cup {NoReceipt}]
    BY DEF OwnWritesInv, Inv, TypeOK
  <2>3. CASE j = k
    <3>1. receipts'[j] = [mode |-> "hot", seq |-> n]
      BY <1>5, <2>1, <2>2, <2>3
    <3>2. (Written(j)' \/ Waiting(j, n)')
      BY <2>1, <2>3
    <3> QED BY <3>1, <3>2 DEF Kept
  <2>4. CASE j # k
    <3>1. receipts'[j] = receipts[j]
      BY <2>1, <2>2, <2>4
    <3>2. Kept(j, receipts[j])
      BY DEF OwnWritesInv, PromisesInv, ReceiptsKept
    <3>3. PICK receipt \in Receipt \cup {NoReceipt} : receipt = receipts[j]
      BY <2>2
    <3>4. Kept(j, receipt)'
      BY <1>3, <3>2, <3>3, KeptStays
    <3> QED BY <3>1, <3>3, <3>4 DEF Kept
  <2> QED BY <2>3, <2>4
<1>10. ReadsKept'
  BY <1>2, <1>3, ReadsStay DEF OwnWritesInv, PromisesInv
<1> QED BY <1>4, <1>7, <1>9, <1>10 DEF PromisesInv

\* The mutator answers only for a key that it has added, or that the ledger lists.
LEMMA MutateStep ==
    ASSUME OwnWritesInv, NEW c \in Clients, Mutate(c) \/ MutateReplay(c)
    PROVE  OrderInv' /\ WrittenInv' /\ PromisesInv'
<1>1. req[c] \in Request /\ req[c].send \in Sends /\ req[c].pc = "locked"
  BY DEF Mutate, MutateReplay, Mutating, OwnWritesInv, Inv, TypeOK, Request, NoRequest
<1>2. /\ UNCHANGED <<queue, nextSeq, lastApplied, worker, receipts, reader>>
      /\ \A d \in Clients : d # c => req'[d] = req[d]
      /\ req'[c].send = req[c].send
  BY <1>1 DEF Mutate, MutateReplay, Commit, queued, OwnWritesInv, Inv, TypeOK, Request
<1> DEFINE k == KeyOf(req[c].send)
<1>3. CreditedKeys \subseteq CreditedKeys' /\ k \in CreditedKeys' /\ ledger' \subseteq ledger \cup {k}
  <2>1. CASE Mutate(c)
    <3>1. xp' = [xp EXCEPT ![req[c].send] = @ + 1] /\ ledger' = ledger \cup {k} /\ xp \in [Sends -> Nat]
      BY <2>1 DEF Mutate, OwnWritesInv, Inv, TypeOK
    <3>2. \A s \in Sends : xp[s] \in Nat /\ (xp[s] > 0 => xp'[s] > 0)
      BY <3>1
    <3>3. xp'[req[c].send] > 0
      BY <1>1, <3>1
    <3> QED BY <1>1, <3>1, <3>2, <3>3 DEF CreditedKeys
  <2>2. CASE MutateReplay(c)
    <3>1. k \in ledger /\ UNCHANGED <<xp, ledger>>
      BY <2>2 DEF MutateReplay, Existing, core
    <3> QED BY <3>1 DEF CreditedKeys, OwnWritesInv, WrittenInv, LedgerIsWritten
  <2> QED BY <2>1, <2>2
<1>4. OrderInv'
  BY <1>2 DEF OwnWritesInv, OrderInv, AheadOfProgress, BatchIsLowest
<1>5. WrittenInv'
  <2>1. KeysCarried'
    BY <1>2 DEF OwnWritesInv, WrittenInv, KeysCarried
  <2>2. LedgerIsWritten'
    BY <1>3 DEF OwnWritesInv, WrittenInv, LedgerIsWritten
  <2>3. CommittedIsWritten'
    BY <1>2, <1>3 DEF OwnWritesInv, WrittenInv, CommittedIsWritten
  <2> QED BY <2>1, <2>2, <2>3 DEF WrittenInv
<1>6. Promising
  BY <1>2, <1>3 DEF Promising, Waiting
<1>7. PromisesInv'
  BY <1>2, <1>6, ReadsStay, ReceiptsStay DEF OwnWritesInv, PromisesInv
<1> QED BY <1>4, <1>5, <1>7

LEMMA ReceiptStep ==
    ASSUME OwnWritesInv, NEW c \in Clients, ReceiptCold(c)
    PROVE  OrderInv' /\ WrittenInv' /\ PromisesInv'
<1>1. req[c] \in Request /\ KeyOf(req[c].send) \in Keys /\ KeyOf(req[c].send) \in CreditedKeys
  BY DEF ReceiptCold, OwnWritesInv, WrittenInv, CommittedIsWritten, Inv, TypeOK, Request, NoRequest, Sends, KeyOf
<1>2. /\ UNCHANGED <<xp, ledger, queue, nextSeq, lastApplied, worker, reader>>
      /\ req' = [req EXCEPT ![c] = NoRequest]
      /\ receipts' = [receipts EXCEPT ![KeyOf(req[c].send)] = [mode |-> "cold", seq |-> req[c].version]]
  BY DEF ReceiptCold, core, queued
<1>3. CreditedKeys' = CreditedKeys
  BY <1>2 DEF CreditedKeys
<1>4. OrderInv'
  BY <1>2 DEF OwnWritesInv, OrderInv, AheadOfProgress, BatchIsLowest
<1>5. WrittenInv'
  BY <1>2, <1>3 DEF OwnWritesInv, WrittenInv, KeysCarried, LedgerIsWritten, CommittedIsWritten, NoRequest, Inv, TypeOK
<1>6. Promising
  BY <1>2, <1>3 DEF Promising, Waiting
<1>7. ReceiptsKept'
  <2> SUFFICES ASSUME NEW j \in Keys PROVE Kept(j, receipts[j])'
    BY DEF ReceiptsKept
  <2>1. receipts \in [Keys -> Receipt \cup {NoReceipt}] /\ Kept(j, receipts[j])
    BY DEF OwnWritesInv, Inv, TypeOK, PromisesInv, ReceiptsKept
  <2>2. CASE j = KeyOf(req[c].send)
    BY <1>1, <1>3, <2>2 DEF Kept, Written
  <2>3. CASE j # KeyOf(req[c].send)
    BY <1>2, <1>3, <2>1, <2>3 DEF Kept, Written, Waiting
  <2> QED BY <2>2, <2>3
<1>8. ReadsKept'
  BY <1>2, <1>6, ReadsStay DEF OwnWritesInv, PromisesInv
<1> QED BY <1>4, <1>5, <1>7, <1>8 DEF PromisesInv

\* The steps of the only worker before its commit.
LEMMA WorkerStep ==
    ASSUME OneWorker, OwnWritesInv, NEW w \in Workers,
           \/ Claim(w) \/ ReadProgress(w) \/ GapFound(w) \/ GapSkip(w)
           \/ LockForFlush(w) \/ FlushConflict(w) \/ FlushAborts(w)
    PROVE  OrderInv' /\ WrittenInv' /\ PromisesInv'
<1>1. UNCHANGED <<xp, ledger, queue, nextSeq, lastApplied, receipts, req, reader>>
  BY DEF Claim, ReadProgress, GapFound, GapSkip, LockForFlush, FlushConflict, FlushAborts, Rollback, core, queued
<1>2. CreditedKeys' = CreditedKeys
  BY <1>1 DEF CreditedKeys
<1>3. worker \in [Workers -> Flush \cup {NoFlush}] /\ worker[w] \in Flush \cup {NoFlush}
  BY DEF OwnWritesInv, Inv, TypeOK
<1>4. \A v \in Workers : v = w
  BY DEF OneWorker
<1>5. \/ worker'[w].batch \in {{}, worker[w].batch}
      \/ \E n \in BatchSizes : worker'[w].batch = Lowest(queue, n)
  <2>1. CASE Claim(w)
    BY <1>3, <2>1, AllUnlocked DEF Claim
  <2>2. CASE GapFound(w)
    <3>1. worker[w] \in Flush
      <4>1. worker[w].pc = "gap"
        BY <2>2 DEF GapFound
      <4> QED BY <1>3, <4>1 DEF NoFlush
    <3>2. PICK n \in BatchSizes : worker' = [worker EXCEPT ![w].pc = "ready", ![w].batch = Lowest(Unlocked(w), n),
                                       ![w].held = @ \cup SeqsOf(Lowest(Unlocked(w), n))]
      BY <2>2 DEF GapFound
    <3>3. worker'[w].batch = Lowest(Unlocked(w), n)
      BY <1>3, <3>1, <3>2 DEF Flush
    <3> QED BY <3>3, AllUnlocked
  <2>3. CASE ReadProgress(w)
    <3>1. Fresh(w) = worker[w].batch
      BY DEF Fresh, OwnWritesInv, OrderInv, AheadOfProgress, Inv, FlushOwnsItsRows
    <3> QED BY <1>3, <2>3, <3>1 DEF ReadProgress, NoFlush
  <2>4. CASE GapSkip(w) \/ LockForFlush(w)
    <3>1. worker[w] \in Flush
      BY <1>3, <2>4 DEF GapSkip, LockForFlush, NoFlush
    <3> QED BY <1>3, <2>4, <3>1 DEF GapSkip, LockForFlush, Flush
  <2>5. CASE FlushConflict(w) \/ FlushAborts(w)
    BY <1>3, <2>5 DEF FlushConflict, FlushAborts, Rollback, NoFlush
  <2> QED BY <2>1, <2>2, <2>3, <2>4, <2>5
<1>6. BatchIsLowest'
  <2> SUFFICES ASSUME NEW a \in worker'[w].batch, NEW b \in queue, b.seq <= a.seq PROVE b \in worker'[w].batch
    BY <1>1, <1>4 DEF BatchIsLowest
  <2>1. CASE worker'[w].batch = worker[w].batch
    BY <2>1 DEF OwnWritesInv, OrderInv, BatchIsLowest
  <2>2. ASSUME NEW n \in BatchSizes, worker'[w].batch = Lowest(queue, n) PROVE b \in worker'[w].batch
    <3>1. n \in Nat
      BY ConstantsAssumption
    <3> QED BY <2>2, <3>1, LowestIsLowest DEF OwnWritesInv
  <2> QED BY <1>5, <2>1, <2>2
<1>7. OrderInv'
  BY <1>1, <1>6 DEF OwnWritesInv, OrderInv, AheadOfProgress
<1>8. WrittenInv'
  BY <1>1, <1>2 DEF OwnWritesInv, WrittenInv, KeysCarried, LedgerIsWritten, CommittedIsWritten
<1>9. Promising
  BY <1>1, <1>2 DEF Promising, Waiting
<1>10. PromisesInv'
  BY <1>1, <1>9, ReadsStay, ReceiptsStay DEF OwnWritesInv, PromisesInv
<1> QED BY <1>7, <1>8, <1>10

\* The commit takes the lowest rows to xp and leaves those numbered above last_applied_seq.
LEMMA CommitStep ==
    ASSUME OneWorker, OwnWritesInv, NEW w \in Workers, FlushCommit(w)
    PROVE  OrderInv' /\ WrittenInv' /\ PromisesInv'
<1> DEFINE rows == worker[w].batch
<1>1. /\ UNCHANGED <<nextSeq, receipts, req, reader>>
      /\ worker' = [worker EXCEPT ![w] = NoFlush]
      /\ queue' = {r \in queue : r.seq \notin SeqsOf(rows)}
      /\ ledger' = ledger \cup KeysOf(rows)
      /\ \E a \in rows : lastApplied' = a.seq /\ \A r \in rows : r.seq <= a.seq
  BY DEF FlushCommit, Ledgered, Remaining, SeqsOf
<1>2. rows \subseteq queue /\ \A a, b \in queue : a \in rows /\ b.seq <= a.seq => b \in rows
  BY DEF OwnWritesInv, Inv, FlushOwnsItsRows, OrderInv, BatchIsLowest
<1>3. \A a \in queue : a.seq \in Nat /\ a.seq < nextSeq /\ a.sends \subseteq Sends
  BY DEF OwnWritesInv, Inv, RowsNumbered, TypeOK, Row
<1>4. \A v \in Workers : v = w
  BY DEF OneWorker
<1>5. \A s \in Sends : xp[s] \in Nat /\ (xp[s] > 0 => xp'[s] > 0)
                       /\ ((\E r \in rows : s \in r.sends) => xp'[s] > 0)
  BY FlushCredits DEF OwnWritesInv, Inv, TypeOK
<1> HIDE DEF rows
<1>6. CreditedKeys \subseteq CreditedKeys'
  BY <1>5 DEF CreditedKeys
<1>7. \A r \in rows : \A s \in r.sends : KeyOf(s) \in CreditedKeys'
  BY <1>2, <1>3, <1>5 DEF CreditedKeys
<1>8. OrderInv'
  <2>1. PICK a \in rows : lastApplied' = a.seq /\ \A r \in rows : r.seq <= a.seq
    BY <1>1
  <2>2. \A b \in queue' : b \in queue /\ b \notin rows
    BY <1>1 DEF SeqsOf
  <2>3. AheadOfProgress'
    BY <1>2, <1>3, <2>1, <2>2 DEF AheadOfProgress
  <2>4. worker'[w].batch = {}
    BY <1>1 DEF NoFlush, OwnWritesInv, Inv, TypeOK
  <2>5. BatchIsLowest'
    BY <1>4, <2>4 DEF BatchIsLowest
  <2> QED BY <1>1, <1>2, <1>3, <2>1, <2>3, <2>5 DEF OrderInv
<1>9. WrittenInv'
  <2>1. KeysCarried'
    BY <1>1 DEF OwnWritesInv, WrittenInv, KeysCarried
  <2>2. KeysOf(rows) \subseteq CreditedKeys'
    BY <1>2, <1>7 DEF OwnWritesInv, WrittenInv, KeysCarried, KeysOf
  <2>3. LedgerIsWritten'
    BY <1>1, <1>6, <2>2 DEF OwnWritesInv, WrittenInv, LedgerIsWritten
  <2>4. CommittedIsWritten'
    BY <1>1, <1>6 DEF OwnWritesInv, WrittenInv, CommittedIsWritten
  <2> QED BY <2>1, <2>3, <2>4 DEF WrittenInv
<1>10. Promising
  <2> SUFFICES ASSUME NEW k \in Keys, NEW n \in Nat, Waiting(k, n), k \notin CreditedKeys'
               PROVE  Waiting(k, n)'
    BY <1>6 DEF Promising, Written
  <2>1. PICK a \in queue : a.seq <= n /\ \E s \in a.sends : KeyOf(s) = k
    BY DEF Waiting
  <2>2. a \notin rows
    BY <1>7, <2>1
  <2>3. a \in queue'
    <3>1. \A r \in rows : r.seq = a.seq => r = a
      BY <1>2 DEF OwnWritesInv, Inv, RowsNumbered
    <3> QED BY <1>1, <2>2, <3>1 DEF SeqsOf
  <2> QED BY <2>1, <2>3 DEF Waiting
<1>11. PromisesInv'
  BY <1>1, <1>10, ReadsStay, ReceiptsStay DEF OwnWritesInv, PromisesInv
<1> QED BY <1>8, <1>9, <1>11

\* A read that has seen last_applied_seq reach its receipt finds no row to wait for.
LEMMA ReaderStep ==
    ASSUME OwnWritesInv, NEW r \in Readers, ReadNext(r)
    PROVE  OrderInv' /\ WrittenInv' /\ PromisesInv'
<1>1. UNCHANGED <<xp, ledger, queue, nextSeq, lastApplied, receipts, req, worker>>
  BY DEF ReadNext, ReadReceipt, ReadWaits, ReadState, ReadEnds, core, queued
<1>2. CreditedKeys' = CreditedKeys
  BY <1>1 DEF CreditedKeys
<1>3. OrderInv'
  BY <1>1 DEF OwnWritesInv, OrderInv, AheadOfProgress, BatchIsLowest
<1>4. WrittenInv'
  BY <1>1, <1>2 DEF OwnWritesInv, WrittenInv, KeysCarried, LedgerIsWritten, CommittedIsWritten
<1>5. ReceiptsKept'
  BY <1>1, <1>2 DEF OwnWritesInv, PromisesInv, ReceiptsKept, Kept, Written, Waiting
<1>6. reader[r] \in Read \cup {NoRead} /\ ReadKept(reader[r])
  BY DEF OwnWritesInv, PromisesInv, ReadsKept, Inv, TypeOK
<1>7. \A q \in Readers : q # r => reader'[q] = reader[q]
  BY DEF ReadNext, ReadReceipt, ReadWaits, ReadState, ReadEnds, OwnWritesInv, Inv, TypeOK
<1>8. ReadKept(reader[r])'
  <2>1. ASSUME NEW k \in Keys, ReadReceipt(r, k) PROVE ReadKept(reader[r])'
    <3>1. reader'[r] = [pc |-> "poll", key |-> k, receipt |-> receipts[k]]
      BY <2>1 DEF ReadReceipt, OwnWritesInv, Inv, TypeOK
    <3>2. Kept(k, receipts[k])
      BY DEF OwnWritesInv, PromisesInv, ReceiptsKept
    <3> QED BY <1>1, <1>2, <3>1, <3>2 DEF ReadKept, Kept, Written, Waiting
  <2>2. CASE ReadWaits(r)
    <3>1. reader[r].pc = "poll" /\ Covers(reader[r].receipt)
      BY <2>2 DEF ReadWaits
    <3>2. reader[r].receipt \in Receipt /\ reader[r] \in [pc : {"poll", "ready"}, key : Keys, receipt : Receipt]
      BY <1>6, <3>1 DEF Read, NoRead
    <3>3. reader[r].receipt # NoReceipt /\ reader[r].receipt.seq \in Nat
      BY <3>2 DEF Receipt, NoReceipt
    <3>4. ASSUME reader[r].receipt.mode = "hot", NEW a \in queue, a.seq <= reader[r].receipt.seq PROVE FALSE
      <4>1. a.seq \in Nat /\ a.seq > lastApplied /\ lastApplied \in Nat
        BY DEF OwnWritesInv, OrderInv, AheadOfProgress, Inv, TypeOK, Row
      <4>2. lastApplied >= reader[r].receipt.seq
        BY <3>1, <3>4 DEF Covers
      <4> QED BY <3>3, <3>4, <4>1, <4>2
    <3>5. Written(reader[r].key)
      BY <1>6, <3>1, <3>3, <3>4 DEF ReadKept, Kept, Waiting
    <3>6. reader'[r] = [reader[r] EXCEPT !.pc = "ready"]
      BY <2>2 DEF ReadWaits, OwnWritesInv, Inv, TypeOK
    <3>7. reader'[r].pc = "ready" /\ reader'[r].key = reader[r].key
      BY <3>2, <3>6
    <3> QED BY <1>2, <3>5, <3>7 DEF ReadKept, Written
  <2>3. CASE ReadState(r)
    <3>1. reader[r].pc = "ready"
          /\ reader'[r] = [pc |-> "done", key |-> reader[r].key, seen |-> CreditedKeys]
      BY <2>3 DEF ReadState, OwnWritesInv, Inv, TypeOK
    <3> QED BY <1>6, <3>1 DEF ReadKept, Written
  <2>4. CASE ReadEnds(r)
    <3>1. reader'[r] = NoRead
      BY <2>4 DEF ReadEnds, OwnWritesInv, Inv, TypeOK
    <3> QED BY <3>1 DEF ReadKept, NoRead
  <2> QED BY <2>1, <2>2, <2>3, <2>4 DEF ReadNext
<1>9. ReadsKept'
  <2> SUFFICES ASSUME NEW q \in Readers PROVE ReadKept(reader[q])'
    BY DEF ReadsKept
  <2>1. CASE q # r
    BY <1>1, <1>2, <1>7, <2>1 DEF OwnWritesInv, PromisesInv, ReadsKept, ReadKept, Kept, Written, Waiting
  <2> QED BY <1>8, <2>1
<1> QED BY <1>3, <1>4, <1>5, <1>9 DEF PromisesInv

LEMMA OwnWritesStep ==
    ASSUME OneWorker, OwnWritesInv, [Next]_vars
    PROVE  OwnWritesInv'
<1>1. Inv'
  BY StepInv DEF OwnWritesInv
<1>2. ASSUME NEW c \in Clients, RequestNext(c) PROVE OrderInv' /\ WrittenInv' /\ PromisesInv'
  <2>1. ASSUME \/ \E k \in Keys, m \in Modes : Submit(c, k, m)
               \/ LockForRequest(c) \/ RequestFails(c)
        PROVE  OrderInv' /\ WrittenInv' /\ PromisesInv'
    <3>1. UNCHANGED <<xp, ledger, queue, nextSeq, lastApplied, worker, receipts, reader>>
      BY <2>1 DEF Submit, LockForRequest, RequestFails, core, queued
    <3>2. \A d \in Clients : req'[d].pc = "receipt" => req'[d] = req[d]
      BY <2>1 DEF Submit, LockForRequest, RequestFails, NoRequest, OwnWritesInv, Inv, TypeOK, Request
    <3> QED BY <3>1, <3>2, QuietStep
  <2> QED BY <1>2, <2>1, EnqueueStep, MutateStep, ReceiptStep DEF RequestNext
<1>3. ASSUME NEW w \in Workers, FlushNext(w) \/ FlushAborts(w) PROVE OrderInv' /\ WrittenInv' /\ PromisesInv'
  BY <1>3, WorkerStep, CommitStep DEF FlushNext
<1>4. ASSUME NEW r \in Readers, ReadNext(r) PROVE OrderInv' /\ WrittenInv' /\ PromisesInv'
  BY <1>4, ReaderStep
<1>5. ASSUME UNCHANGED vars PROVE OrderInv' /\ WrittenInv' /\ PromisesInv'
  BY <1>5, QuietStep DEF vars, core, queued
<1> QED BY <1>1, <1>2, <1>3, <1>4, <1>5 DEF Next, OwnWritesInv

\* With one flush worker, a read that waited for a command sees it in the state that it returns:
\* whether the command was added at once, has a row of its own, or was coalesced, and whatever is
\* retried, aborted or dropped meanwhile.
THEOREM OwnWritesAreRead == OneWorker => (Spec => []ReadYourWrites)
<1> SUFFICES ASSUME OneWorker PROVE Spec => []ReadYourWrites
  OBVIOUS
<1>1. OwnWritesInv /\ [Next]_vars => OwnWritesInv'
  BY OwnWritesStep
<1>2. OwnWritesInv => ReadYourWrites
  BY DEF OwnWritesInv, PromisesInv, ReadsKept, ReadKept, ReadYourWrites
<1> QED BY OwnWritesInit, <1>1, <1>2, PTL DEF Spec
=============================================================================

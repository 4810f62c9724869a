---------------------------- MODULE CoreMutations ----------------------------
(***************************************************************************)
(* The XP write path of one user: Mutator.mutate (cold mode),              *)
(* HotUserService.enqueue (hot mode), HotUserWorker.flush_user and the     *)
(* read-your-writes handshake of GET /state/core.                          *)
(*                                                                         *)
(* Every operation is a Postgres READ COMMITTED transaction that takes the *)
(* user_core_state row lock ("the core lock") before it writes.  A         *)
(* transaction's writes become visible in the action that commits it, and  *)
(* a rollback only releases its locks.  Data of another user is never      *)
(* touched, so one user is modelled.                                       *)
(*                                                                         *)
(* A request is identified by its send, <<key, n>>: the n-th time that a   *)
(* client submitted idempotency key `key'.  xp is kept as the multiset of  *)
(* the sends whose xp_delta it includes.                                   *)
(***************************************************************************)
EXTENDS Integers, FiniteSets

CONSTANTS
    Keys,           \* idempotency keys (command ids)
    ZeroKeys,       \* the keys whose xp_delta is 0
    Modes,          \* the execution modes that requests may use
    Clients,        \* concurrent POST /state/mutate-xp requests
    Workers,        \* HotUserWorker processes
    Readers,        \* concurrent GET /state/core?after_command_id requests
    BatchSizes,     \* values that _adapt_controls may give _batch_size
    MaxQueue,       \* HOT_QUEUE_MAX
    OverloadDepth,  \* _OVERLOAD_DEPTH_THRESHOLD
    MaxSends,       \* bound: submissions of one key
    MaxAborts,      \* bound: worker transactions that time out or crash
    None            \* nobody holds the core lock

ASSUME ConstantsAssumption ==
    /\ ZeroKeys \subseteq Keys
    /\ Modes \subseteq {"hot", "cold"}
    /\ BatchSizes \subseteq Nat \ {0}
    /\ MaxQueue \in Nat
    /\ OverloadDepth \in Nat
    /\ MaxSends \in Nat
    /\ MaxAborts \in Nat

ASSUME ProcessesAssumption ==
    /\ Clients \cap Workers = {}
    /\ None \notin Clients \cup Workers

Sends == Keys \X (1 .. MaxSends)
KeyOf(s) == s[1]

VARIABLES
    xp,             \* user_core_state.xp: how often each send's delta is in it
    version,        \* user_core_state.version
    ledger,         \* keys in mutation_ledger
    outbox,         \* keys with an outbox_events row
    queue,          \* user_mutation_queue
    nextSeq,        \* user_queue_seq.next_seq
    lastApplied,    \* user_queue_progress.last_applied_seq
    receipts,       \* user_command_receipts
    coreLock,       \* the transaction that holds the core row lock
    req,            \* the client requests in flight
    worker,         \* the flush transactions
    reader,         \* the read requests in flight
    sent,           \* how often each key was submitted
    acked,          \* the sends answered with success
    aborts          \* worker transactions aborted so far

core  == <<xp, version, ledger, outbox>>
queued == <<queue, nextSeq, lastApplied>>
bounds == <<sent, aborts>>
vars == <<core, queued, receipts, coreLock, req, worker, reader, acked, bounds>>

-----------------------------------------------------------------------------
Row == [seq : Nat, key : Keys, sends : SUBSET Sends]

Receipt == [mode : {"hot", "cold"}, seq : Nat]
NoReceipt == [mode |-> "none", seq |-> 0]

Request ==
    [pc : {"wait", "locked", "receipt"}, send : Sends, mode : Modes, version : Nat]
NoRequest == [pc |-> "idle"]

Flush ==
    [pc : {"claimed", "gap", "ready", "locked"},
     held : SUBSET Nat, batch : SUBSET Row, last : Nat]
NoFlush == [pc |-> "idle", held |-> {}, batch |-> {}, last |-> 0]

Read == [pc : {"poll", "ready"}, key : Keys, receipt : Receipt]
        \cup [pc : {"done"}, key : Keys, seen : SUBSET Keys]
NoRead == [pc |-> "idle"]

SeqsOf(rows) == {r.seq : r \in rows}
KeysOf(rows) == {r.key : r \in rows}

\* Definitions whose name begins with Slip are variants that a mistake in the
\* code would give; no run uses them as they stand (README, "Slips").

\* The rows that FOR UPDATE SKIP LOCKED gives p: those no other flush has locked.
Unlocked(p) == {r \in queue : \A w \in Workers \ {p} : r.seq \notin worker[w].held}

\* ORDER BY seq LIMIT n
Lowest(rows, n) ==
    {r \in rows : Cardinality({q \in rows : q.seq <= r.seq}) <= n}

SlipIsLatestSeq(s) == s = nextSeq    \* the next number, not the latest

\* latest_seq: COALESCE(MAX(seq), 0)
IsLatestSeq(s) ==
    \/ queue = {} /\ s = 0
    \/ s \in SeqsOf(queue) /\ \A r \in queue : r.seq <= s

-----------------------------------------------------------------------------
Init ==
    /\ xp = [s \in Sends |-> 0]
    /\ version = 1
    /\ ledger = {}
    /\ outbox = {}
    /\ queue = {}
    /\ nextSeq = 1
    /\ lastApplied = 0
    /\ receipts = [k \in Keys |-> NoReceipt]
    /\ coreLock = None
    /\ req = [c \in Clients |-> NoRequest]
    /\ worker = [w \in Workers |-> NoFlush]
    /\ reader = [r \in Readers |-> NoRead]
    /\ sent = [k \in Keys |-> 0]
    /\ acked = {}
    /\ aborts = 0

(***************************************************************************)
(* POST /state/mutate-xp.  The mode that the handler writes in its first   *)
(* transaction is the one it then branches on; cold may become hot when    *)
(* the mutator's lock waits are long, so any mode is possible for a key.   *)
(* A key may be submitted again at any time: a retry, or a duplicate.      *)
(***************************************************************************)
Submit(c, k, m) ==
    /\ req[c] = NoRequest
    /\ sent[k] < MaxSends
    /\ sent' = [sent EXCEPT ![k] = @ + 1]
    /\ req' = [req EXCEPT ![c] = [pc |-> "wait", send |-> <<k, sent[k] + 1>>,
                                  mode |-> m, version |-> 0]]
    /\ UNCHANGED <<core, queued, receipts, coreLock, worker, reader, acked, aborts>>

\* core_state.get_for_update
LockForRequest(c) ==
    /\ req[c].pc = "wait"
    /\ coreLock = None
    /\ coreLock' = c
    /\ req' = [req EXCEPT ![c].pc = "locked"]
    /\ UNCHANGED <<core, queued, receipts, worker, reader, acked, bounds>>

\* Every error path rolls the open transaction back and answers an error: the
\* statement timeout, the lock-wait fail-fast, backpressure, the CPU budget, a
\* unique violation, a crash; also a crash between mutate and its receipt.
RequestFails(c) ==
    /\ req[c].pc # "idle"
    /\ req' = [req EXCEPT ![c] = NoRequest]
    /\ coreLock' = IF coreLock = c THEN None ELSE coreLock
    /\ UNCHANGED <<core, queued, receipts, worker, reader, acked, bounds>>

-----------------------------------------------------------------------------
(***************************************************************************)
(* HotUserService.enqueue, after it has the core lock.  How old the oldest *)
(* row is, the other half of is_overloaded, is left open: below 30 seconds *)
(* the command is inserted however long the queue is.                      *)
(***************************************************************************)
Enqueueing(c) ==
    /\ req[c].pc = "locked"
    /\ req[c].mode = "hot"
    /\ Cardinality(queue) < MaxQueue

MaybeOverloaded == Cardinality(queue) > OverloadDepth

\* The receipt is upserted in the enqueue transaction, which then commits.
AnswerHot(c, seq) ==
    /\ receipts' = [receipts EXCEPT ![KeyOf(req[c].send)] = [mode |-> "hot", seq |-> seq]]
    /\ acked' = acked \cup {req[c].send}
    /\ req' = [req EXCEPT ![c] = NoRequest]
    /\ coreLock' = None
    /\ UNCHANGED <<core, lastApplied, worker, reader, bounds>>

\* An overloaded queue drops an ADD_XP of 0: no row, a receipt at latest_seq.
EnqueueDrop(c) ==
    /\ Enqueueing(c)
    /\ MaybeOverloaded
    /\ KeyOf(req[c].send) \in ZeroKeys
    /\ \E s \in 0 .. nextSeq : IsLatestSeq(s) /\ AnswerHot(c, s)
    /\ UNCHANGED <<queue, nextSeq>>

\* coalesce_latest_xp_delta: the delta joins the highest row that no flush has
\* locked.  The key of the command is recorded nowhere but in its receipt.
CoalesceTarget(c) ==
    {row \in Unlocked(c) : \A other \in Unlocked(c) : other.seq <= row.seq}

Coalesced(row, s) == [row EXCEPT !.sends = @ \cup {s}]

EnqueueCoalesce(c) ==
    /\ Enqueueing(c)
    /\ MaybeOverloaded
    /\ KeyOf(req[c].send) \notin ZeroKeys
    /\ CoalesceTarget(c) # {}
    /\ queue' = (queue \ CoalesceTarget(c))
                \cup {Coalesced(row, req[c].send) : row \in CoalesceTarget(c)}
    /\ \E s \in 0 .. nextSeq : IsLatestSeq(s) /\ AnswerHot(c, s)
    /\ UNCHANGED nextSeq

\* next_seq and insert_with_seq; (user_id, idempotency_key) is unique.
EnqueueInsert(c) ==
    /\ Enqueueing(c)
    /\ KeyOf(req[c].send) \notin KeysOf(queue)
    /\ queue' = queue \cup {[seq |-> nextSeq, key |-> KeyOf(req[c].send),
                             sends |-> {req[c].send}]}
    /\ nextSeq' = nextSeq + 1
    /\ AnswerHot(c, nextSeq)

-----------------------------------------------------------------------------
(***************************************************************************)
(* Mutator.mutate, after it has the core lock, and the receipt that        *)
(* mutate_xp writes in a transaction of its own.                           *)
(***************************************************************************)
Mutating(c) ==
    /\ req[c].pc = "locked"
    /\ req[c].mode = "cold"

SlipExisting(k) == FALSE    \* the ledger is not consulted

Existing(k) == k \in ledger

Commit(c) ==
    /\ coreLock' = None
    /\ req' = [req EXCEPT ![c].pc = "receipt", ![c].version = version']
    /\ UNCHANGED <<queued, receipts, worker, reader, acked, bounds>>

Mutate(c) ==
    /\ Mutating(c)
    /\ ~Existing(KeyOf(req[c].send))
    /\ xp' = [xp EXCEPT ![req[c].send] = @ + 1]
    /\ version' = version + 1
    /\ ledger' = ledger \cup {KeyOf(req[c].send)}
    /\ outbox' = outbox \cup {KeyOf(req[c].send)}
    /\ Commit(c)

MutateReplay(c) ==
    /\ Mutating(c)
    /\ Existing(KeyOf(req[c].send))
    /\ UNCHANGED core
    /\ Commit(c)

ReceiptCold(c) ==
    /\ req[c].pc = "receipt"
    /\ receipts' = [receipts EXCEPT ![KeyOf(req[c].send)] =
                       [mode |-> "cold", seq |-> req[c].version]]
    /\ acked' = acked \cup {req[c].send}
    /\ req' = [req EXCEPT ![c] = NoRequest]
    /\ UNCHANGED <<core, queued, coreLock, worker, reader, bounds>>

-----------------------------------------------------------------------------
(***************************************************************************)
(* HotUserWorker.flush_user: one transaction, from the claim to the commit.*)
(* The rows it claims stay locked until then; last_applied_seq is read     *)
(* before the core lock is taken.                                          *)
(***************************************************************************)
Claim(w) ==
    /\ worker[w].pc = "idle"
    /\ Unlocked(w) # {}
    /\ \E n \in BatchSizes :
          LET rows == Lowest(Unlocked(w), n) IN
          worker' = [worker EXCEPT ![w] =
                       [pc |-> "claimed", held |-> SeqsOf(rows), batch |-> rows, last |-> 0]]
    /\ UNCHANGED <<core, queued, receipts, coreLock, req, reader, acked, bounds>>

\* Rows at or below last_applied_seq are left alone: they stay in the table.
SlipFresh(w) == {r \in worker[w].batch : r.seq > lastApplied + 1}

Fresh(w) == {r \in worker[w].batch : r.seq > lastApplied}

ReadProgress(w) ==
    /\ worker[w].pc = "claimed"
    /\ LET gap == \A r \in Fresh(w) : r.seq > lastApplied + 1
       IN  worker' = [worker EXCEPT ![w] =
             IF Fresh(w) = {} THEN NoFlush
             ELSE [pc |-> IF gap THEN "gap" ELSE "ready", held |-> worker[w].held,
                   batch |-> Fresh(w), last |-> lastApplied]]
    /\ UNCHANGED <<core, queued, receipts, coreLock, req, reader, acked, bounds>>

\* _wait_for_missing_seq saw the missing row; the batch is claimed again, and
\* not compared with last_applied_seq this time.
GapFound(w) ==
    /\ worker[w].pc = "gap"
    /\ worker[w].last + 1 \in SeqsOf(queue)
    /\ \E n \in BatchSizes :
          LET rows == Lowest(Unlocked(w), n) IN
          worker' = [worker EXCEPT ![w].pc = "ready", ![w].batch = rows,
                                   ![w].held = @ \cup SeqsOf(rows)]
    /\ UNCHANGED <<core, queued, receipts, coreLock, req, reader, acked, bounds>>

\* The wait ended without it: the gap is skipped.
GapSkip(w) ==
    /\ worker[w].pc = "gap"
    /\ worker[w].last + 1 \notin SeqsOf(queue)
    /\ worker' = [worker EXCEPT ![w].pc = "ready"]
    /\ UNCHANGED <<core, queued, receipts, coreLock, req, reader, acked, bounds>>

LockForFlush(w) ==
    /\ worker[w].pc = "ready"
    /\ coreLock = None
    /\ coreLock' = w
    /\ worker' = [worker EXCEPT ![w].pc = "locked"]
    /\ UNCHANGED <<core, queued, receipts, req, reader, acked, bounds>>

\* The loop over the rows (its waits for gaps inside the batch change nothing),
\* update, delete_ids, set_last_applied_seq and commit.  (user_id,
\* idempotency_key) is the ledger's primary key.  version stays, and no outbox
\* event is written.
SlipDuplicates(rows) == {}      \* the insert ignores a conflict
SlipLedgered(rows) == ledger    \* no entry for a flushed command

Duplicates(rows) == KeysOf(rows) \cap ledger
Ledgered(rows) == ledger \cup KeysOf(rows)
Remaining(rows) == {r \in queue : r.seq \notin SeqsOf(rows)}

FlushCommit(w) ==
    LET rows == worker[w].batch IN
    /\ worker[w].pc = "locked"
    /\ Duplicates(rows) = {}
    /\ xp' = [s \in Sends |-> xp[s] + Cardinality({r \in rows : s \in r.sends})]
    /\ ledger' = Ledgered(rows)
    /\ queue' = Remaining(rows)
    /\ \E s \in SeqsOf(rows) : (\A r \in rows : r.seq <= s) /\ lastApplied' = s
    /\ coreLock' = None
    /\ worker' = [worker EXCEPT ![w] = NoFlush]
    /\ UNCHANGED <<version, outbox, nextSeq, receipts, req, reader, acked, bounds>>

Rollback(w) ==
    /\ worker' = [worker EXCEPT ![w] = NoFlush]
    /\ coreLock' = IF coreLock = w THEN None ELSE coreLock
    /\ UNCHANGED <<core, queued, receipts, req, reader, acked, sent>>

\* ledger.insert violates the primary key: the transaction rolls back, run_once
\* discards the exception, and the rows are there for the next run.
FlushConflict(w) ==
    /\ worker[w].pc = "locked"
    /\ Duplicates(worker[w].batch) # {}
    /\ Rollback(w)
    /\ UNCHANGED aborts

\* A statement timeout (the wait for the core lock is a statement), a lost
\* connection or a crash of the worker.
FlushAborts(w) ==
    /\ worker[w].pc # "idle"
    /\ aborts < MaxAborts
    /\ aborts' = aborts + 1
    /\ Rollback(w)

-----------------------------------------------------------------------------
(***************************************************************************)
(* GET /state/core?after_command_id=k: the receipt, the wait for           *)
(* last_applied_seq, and the state are read in transactions of their own.  *)
(* An unknown command and a wait that times out answer 409.                *)
(***************************************************************************)
CreditedKeys == {KeyOf(s) : s \in {t \in Sends : xp[t] > 0}}

ReadReceipt(r, k) ==
    /\ reader[r].pc = "idle"
    /\ receipts[k] # NoReceipt
    /\ reader' = [reader EXCEPT ![r] = [pc |-> "poll", key |-> k, receipt |-> receipts[k]]]
    /\ UNCHANGED <<core, queued, receipts, coreLock, req, worker, acked, bounds>>

SlipCovers(receipt) == receipt.mode = "hot" => lastApplied + 1 >= receipt.seq

Covers(receipt) == receipt.mode = "hot" => lastApplied >= receipt.seq

ReadWaits(r) ==
    /\ reader[r].pc = "poll"
    /\ Covers(reader[r].receipt)
    /\ reader' = [reader EXCEPT ![r].pc = "ready"]
    /\ UNCHANGED <<core, queued, receipts, coreLock, req, worker, acked, bounds>>

ReadState(r) ==
    /\ reader[r].pc = "ready"
    /\ reader' = [reader EXCEPT ![r] =
                    [pc |-> "done", key |-> reader[r].key, seen |-> CreditedKeys]]
    /\ UNCHANGED <<core, queued, receipts, coreLock, req, worker, acked, bounds>>

ReadEnds(r) ==
    /\ reader[r].pc \in {"poll", "done"}
    /\ reader' = [reader EXCEPT ![r] = NoRead]
    /\ UNCHANGED <<core, queued, receipts, coreLock, req, worker, acked, bounds>>

-----------------------------------------------------------------------------
RequestNext(c) ==
    \/ \E k \in Keys, m \in Modes : Submit(c, k, m)
    \/ LockForRequest(c) \/ RequestFails(c)
    \/ EnqueueDrop(c) \/ EnqueueCoalesce(c) \/ EnqueueInsert(c)
    \/ Mutate(c) \/ MutateReplay(c) \/ ReceiptCold(c)

FlushNext(w) ==
    \/ Claim(w) \/ ReadProgress(w) \/ GapFound(w) \/ GapSkip(w)
    \/ LockForFlush(w) \/ FlushCommit(w) \/ FlushConflict(w)

ReadNext(r) ==
    \/ \E k \in Keys : ReadReceipt(r, k)
    \/ ReadWaits(r) \/ ReadState(r) \/ ReadEnds(r)

Next ==
    \/ \E c \in Clients : RequestNext(c)
    \/ \E w \in Workers : FlushNext(w) \/ FlushAborts(w)
    \/ \E r \in Readers : ReadNext(r)

Spec == Init /\ [][Next]_vars

(***************************************************************************)
(* run_forever polls without end, so a worker takes its next step; every   *)
(* request ends because each of its statements is bounded by               *)
(* STATEMENT_TIMEOUT_MS.  Nothing is assumed about clients or readers.     *)
(***************************************************************************)
Fairness ==
    /\ \A w \in Workers : WF_vars(FlushNext(w))
    /\ \A c \in Clients : WF_vars(RequestNext(c) /\ req[c] # NoRequest)

FairSpec == Spec /\ Fairness

-----------------------------------------------------------------------------
TypeOK ==
    /\ xp \in [Sends -> Nat]
    /\ version \in Nat
    /\ ledger \subseteq Keys
    /\ outbox \subseteq Keys
    /\ queue \subseteq Row
    /\ nextSeq \in Nat
    /\ lastApplied \in Nat
    /\ receipts \in [Keys -> Receipt \cup {NoReceipt}]
    /\ coreLock \in Clients \cup Workers \cup {None}
    /\ req \in [Clients -> Request \cup {NoRequest}]
    /\ worker \in [Workers -> Flush \cup {NoFlush}]
    /\ reader \in [Readers -> Read \cup {NoRead}]
    /\ sent \in [Keys -> 0 .. MaxSends]
    /\ acked \subseteq Sends
    /\ aborts \in 0 .. MaxAborts

-----------------------------------------------------------------------------
(***************************************************************************)
(* Safety.                                                                 *)
(***************************************************************************)

\* Whatever is retried, rolled back or claimed by several workers, one
\* submission adds its xp_delta to user_core_state.xp at most once.
SendCreditedOnce == \A s \in Sends : xp[s] <= 1

\* An idempotency key is credited once, however often and in whatever mode it
\* is submitted (the ledger's primary key, the queue's unique key).
KeyCreditedOnce ==
    \A s, t \in Sends : xp[s] > 0 /\ xp[t] > 0 /\ KeyOf(s) = KeyOf(t) => s = t

SendsInQueue == UNION {r.sends : r \in queue}

\* The ledger lists exactly the keys whose delta is in xp: mutate and
\* flush_user write both or neither.
LedgerAgrees == ledger = CreditedKeys

\* A read that waited for command k sees k's delta in the state it returns.
ReadYourWrites ==
    \A r \in Readers : reader[r].pc = "done" /\ reader[r].key \notin ZeroKeys
                          => reader[r].key \in reader[r].seen

\* The rows that a flush works on exist until its own commit and belong to no
\* other flush: SKIP LOCKED, and coalescing that leaves locked rows alone.
FlushOwnsItsRows ==
    /\ \A w \in Workers : worker[w].batch \subseteq queue
    /\ \A v, w \in Workers : v # w => worker[v].held \cap worker[w].held = {}

\* While the queue cannot be overloaded, the write path implements ExactlyOnce,
\* with any number of workers: the rows of the queue are what is pending.
Promise == INSTANCE ExactlyOnce WITH pending <- SendsInQueue, credits <- xp
KeepsPromise == Promise!Spec

(***************************************************************************)
(* Liveness, under FairSpec.                                               *)
(***************************************************************************)

\* A command that was answered with success is eventually in xp.
AckedIsCredited ==
    \A s \in Sends : s \in acked ~> KeyOf(s) \in ZeroKeys \cup CreditedKeys

\* A client that waits for a command it has a receipt for stops waiting.
ReceiptsBecomeCovered ==
    \A k \in Keys : receipts[k] # NoReceipt ~> Covers(receipts[k])

=============================================================================

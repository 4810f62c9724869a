---------------------------- MODULE LearningCursor ----------------------------
(***************************************************************************)
(* LearningWorker._advance_user_cursor for one user: the cursor over the   *)
(* user's session attempts, and the count of failures that puts the user   *)
(* in quarantine.                                                          *)
(*                                                                         *)
(* An attempt's id is drawn from a sequence when its row is inserted, but  *)
(* others see the row only when the inserting transaction commits.  A run  *)
(* of the worker is one transaction; its writes become visible in the      *)
(* action that commits it, and each of its reads sees what is committed    *)
(* by then.                                                                *)
(***************************************************************************)
EXTENDS Integers, FiniteSets

CONSTANTS
    Writers,        \* transactions that may insert attempts at the same time
    Workers,        \* concurrent runs for the user
    Limit,          \* rows that get_attempts_after_id reads
    Threshold,      \* _failure_threshold
    LastId,         \* bound: attempt ids
    MaxFaults       \* bound: runs that raise

ASSUME ConstantsAssumption ==
    /\ Limit \in Nat \ {0}
    /\ Threshold \in Nat \ {0}
    /\ LastId \in Nat
    /\ MaxFaults \in Nat

Ids == 1 .. LastId

VARIABLES
    nextId,         \* the id sequence of learning_session_attempts
    inserting,      \* the id that each writer has inserted; 0 for none
    attempts,       \* the committed attempts
    cursor,         \* learning_state_cursors.last_processed_attempt_id
    failureCount,   \* learning_worker_failures.failure_count
    until,          \* .quarantined_until: "none", or in the "future" or the "past"
    run,            \* the runs of _advance_user_cursor
    processed,      \* the attempts in a batch whose cursor update committed
    overtaken,      \* the ids still being inserted when such a batch was read beyond them
    streak,         \* recorded failures since a run last succeeded
    faults          \* faults so far

table == <<nextId, inserting, attempts>>
failures == <<failureCount, until>>
done == <<processed, overtaken>>
vars == <<table, cursor, failures, run, done, streak, faults>>

Run ==
    [pc : {"idle", "cursor", "read", "clearing", "failing"}, from : Nat,
     batch : SUBSET Ids, unseen : SUBSET Ids, count : Nat, until : {"none", "future", "past"}]
NoRun == [pc |-> "idle", from |-> 0, batch |-> {}, unseen |-> {}, count |-> 0, until |-> "none"]

Init ==
    /\ nextId = 1
    /\ inserting = [p \in Writers |-> 0]
    /\ attempts = {}
    /\ cursor = 0
    /\ failureCount = 0
    /\ until = "none"
    /\ run = [w \in Workers |-> NoRun]
    /\ processed = {}
    /\ overtaken = {}
    /\ streak = 0
    /\ faults = 0

-----------------------------------------------------------------------------
\* create_attempt_once
InsertAttempt(p) ==
    /\ inserting[p] = 0
    /\ nextId <= LastId
    /\ inserting' = [inserting EXCEPT ![p] = nextId]
    /\ nextId' = nextId + 1
    /\ UNCHANGED <<attempts, cursor, failures, run, done, streak, faults>>

\* The insert's transaction commits, or it is rolled back or deletes the
\* attempt again (delete_attempt): then the id is never used.
EndInsert(p) ==
    /\ inserting[p] # 0
    /\ inserting' = [inserting EXCEPT ![p] = 0]
    /\ attempts' \in {attempts, attempts \cup {inserting[p]}}
    /\ UNCHANGED <<nextId, cursor, failures, run, done, streak, faults>>

-----------------------------------------------------------------------------
IsQuarantined == until = "future"

\* quarantine_seconds have passed.
QuarantineExpires ==
    /\ until = "future"
    /\ until' = "past"
    /\ UNCHANGED <<table, cursor, failureCount, run, done, streak, faults>>

\* is_quarantined, which ends the run of a quarantined user, and get_or_create.
ReadCursor(w) ==
    /\ run[w] = NoRun
    /\ ~IsQuarantined
    /\ run' = [run EXCEPT ![w].pc = "cursor", ![w].from = cursor]
    /\ UNCHANGED <<table, cursor, failures, done, streak, faults>>

\* get_attempts_after_id: WHERE id > from ORDER BY id LIMIT Limit
AttemptsAfter(from) ==
    {a \in attempts : a > from /\ Cardinality({b \in attempts : from < b /\ b <= a}) <= Limit}

OpenBelow(batch) == {a \in Ids : /\ \E p \in Writers : inserting[p] = a
                                 /\ \E b \in batch : a < b}

ReadAttempts(w) ==
    /\ run[w].pc = "cursor"
    /\ LET batch == AttemptsAfter(run[w].from)
       IN run' = [run EXCEPT ![w].pc = "read", ![w].batch = batch, ![w].unseen = OpenBelow(batch)]
    /\ UNCHANGED <<table, cursor, failures, done, streak, faults>>

\* Updating the cursor locks its row until the run ends; then clear reads the
\* failure row.  Without attempts the cursor is not written.
LocksCursor(w) == run[w].pc \in {"clearing", "failing"} /\ run[w].batch # {}

WriteCursor(w) ==
    /\ run[w].pc = "read"
    /\ run[w].batch = {} \/ \A other \in Workers : ~LocksCursor(other)
    /\ run' = [run EXCEPT ![w].pc = "clearing", ![w].count = failureCount,
                          ![w].until = until]
    /\ UNCHANGED <<table, cursor, failures, done, streak, faults>>

\* Definitions whose name begins with Slip are variants that a mistake in the
\* code would give; no run uses them as they stand (README, "Slips").
SlipLastOf(batch) == {nextId - 1}    \* the newest id, not the last one read

LastOf(batch) == {a \in batch : \A b \in batch : b <= a}

AdvanceCursor(w) ==
    \/ run[w].batch = {} /\ UNCHANGED <<cursor, done>>
    \/ /\ cursor' \in LastOf(run[w].batch)
       /\ processed' = processed \cup run[w].batch
       /\ overtaken' = overtaken \cup run[w].unseen

\* clear writes the columns whose value differs from the one it read.
Clear(w) ==
    /\ failureCount' = IF run[w].count = 0 THEN failureCount ELSE 0
    /\ until' = IF run[w].until = "none" THEN until ELSE "none"

Succeed(w) ==
    /\ run[w].pc = "clearing"
    /\ AdvanceCursor(w)
    /\ Clear(w)
    /\ run' = [run EXCEPT ![w] = NoRun]
    /\ streak' = 0
    /\ UNCHANGED <<table, faults>>

\* The body raises, before or after the cursor was written: the handler reads
\* the failure row, and later commits what was written with it.
Fail(w) ==
    /\ run[w].pc \in {"cursor", "clearing"}
    /\ faults < MaxFaults
    /\ faults' = faults + 1
    /\ run' = [run EXCEPT ![w].pc = "failing", ![w].count = failureCount, ![w].until = until]
    /\ UNCHANGED <<table, cursor, failures, done, streak>>

RecordFailure(w) ==
    /\ run[w].pc = "failing"
    /\ AdvanceCursor(w)
    /\ failureCount' = run[w].count + 1
    /\ until' = IF failureCount' >= Threshold THEN "future" ELSE until
    /\ run' = [run EXCEPT ![w] = NoRun]
    /\ streak' = streak + 1
    /\ UNCHANGED <<table, faults>>

\* A statement fails, which aborts the transaction: record_failure then raises
\* too, and nothing of the run remains.
Abort(w) ==
    /\ run[w] # NoRun
    /\ faults < MaxFaults
    /\ faults' = faults + 1
    /\ run' = [run EXCEPT ![w] = NoRun]
    /\ UNCHANGED <<table, cursor, failures, done, streak>>

-----------------------------------------------------------------------------
Next ==
    \/ \E p \in Writers : InsertAttempt(p) \/ EndInsert(p)
    \/ \E w \in Workers :
          \/ ReadCursor(w) \/ ReadAttempts(w) \/ WriteCursor(w) \/ Succeed(w)
          \/ Fail(w) \/ RecordFailure(w) \/ Abort(w)
    \/ QuarantineExpires

Spec == Init /\ [][Next]_vars

-----------------------------------------------------------------------------
TypeOK ==
    /\ nextId \in 1 .. LastId + 1
    /\ inserting \in [Writers -> 0 .. LastId]
    /\ attempts \subseteq Ids
    /\ cursor \in 0 .. LastId
    /\ failureCount \in Nat
    /\ until \in {"none", "future", "past"}
    /\ run \in [Workers -> Run]
    /\ processed \subseteq Ids
    /\ overtaken \subseteq Ids
    /\ streak \in Nat
    /\ faults \in 0 .. MaxFaults

\* No attempt is left behind the cursor: one at or below it was in a batch, with any number of
\* runs at a time, failures and aborts, or its transaction had drawn the id and not committed when
\* a run read beyond it.  An attempt that commits late is lost only to that order.
NothingSkipped == \A a \in attempts : a <= cursor => a \in processed \cup overtaken

\* With one run at a time the cursor never goes back, so no attempt is
\* processed twice, not even when a failed run's cursor update is committed.
CursorOnlyAdvances == [][cursor' > cursor \/ UNCHANGED <<cursor, processed>>]_vars

\* With one run at a time a user is in quarantine only after Threshold failures
\* in a row: a success, however long after, starts the count again.
QuarantineEarned == until = "future" => streak >= Threshold

=============================================================================

----------------------------- MODULE EventIngest -----------------------------
(***************************************************************************)
(* One EventService: a bounded buffer that one drain task empties, tasks   *)
(* of their own for the events that find it full, and callers that wait    *)
(* in flush and close.  Persisting an event is a transaction that also     *)
(* counts it in the user's interaction_stats, and then the attribution to  *)
(* experiments.  In durable mode the caller of track_event does it.        *)
(***************************************************************************)
EXTENDS Integers, Sequences, FiniteSets

CONSTANTS
    MaxEvents,          \* bound: events
    BufferSize,         \* buffer_size
    Flushers,           \* callers of flush and close
    MaxFlushes          \* bound on their calls

ASSUME EventIngestAssumption ==
    /\ MaxEvents \in Nat /\ MaxFlushes \in Nat
    /\ BufferSize \in Nat \ {0}

VARIABLES
    mode,           \* ingest_mode, and use_buffer; never changes
    buffer,         \* the events in the queue
    place,          \* where each event is
    via,            \* who persists it
    seen,           \* the count its transaction has read, 0 after that transaction
    stats,          \* interaction_stats of the user
    storedEvents,   \* rows of events, oldest first
    draining,       \* the drain task exists
    flusher,        \* the callers of flush and close
    flushes         \* how many there were

eventIngestVars == <<mode, buffer, place, via, seen, stats, storedEvents, draining, flusher, flushes>>

Modes == {"buffered", "unbuffered", "durable"}
Events == 1 .. MaxEvents
\* stored: before the attribution.
Places == {"nowhere", "queued", "taken", "read", "stored", "done", "dropped", "cancelled"}
InWriting == {"taken", "read", "stored"}
Settled == {"done", "dropped"}

Flusher == [pc : {"idle", "joining", "joined", "gathering"}, closes : BOOLEAN, waits : SUBSET Events,
            before : SUBSET Events]
NoFlusher == [pc |-> "idle", closes |-> FALSE, waits |-> {}, before |-> {}]

EventIngestInit ==
    /\ mode \in Modes
    /\ buffer = <<>>
    /\ place = [e \in Events |-> "nowhere"]
    /\ via = [e \in Events |-> "nobody"]
    /\ seen = [e \in Events |-> 0]
    /\ stats = 0
    /\ storedEvents = <<>>
    /\ draining = FALSE
    /\ flusher = [f \in Flushers |-> NoFlusher]
    /\ flushes = 0

-----------------------------------------------------------------------------
ByDrain == {e \in Events : via[e] = "drain" /\ place[e] \in InWriting}
PendingTasks == {e \in Events : via[e] = "task" /\ place[e] \in InWriting}

\* Events are numbered as they come.
NextEvent(e) == place[e] = "nowhere" /\ \A d \in 1 .. e - 1 : place[d] # "nowhere"

Goes(e, who) ==
    /\ via' = [via EXCEPT ![e] = who]
    /\ place' = [place EXCEPT ![e] = IF who = "drain" THEN "queued" ELSE "taken"]
    /\ UNCHANGED <<mode, seen, stats, storedEvents, flusher, flushes>>

\* Slip: the queue has no size.
TrackUnbounded(e) ==
    /\ mode = "buffered" /\ NextEvent(e)
    /\ buffer' = Append(buffer, e)
    /\ draining' = TRUE
    /\ Goes(e, "drain")

\* track_event, in best_effort mode: into the buffer, or a task when that is full.
TrackBuffered(e) ==
    /\ mode = "buffered" /\ NextEvent(e)
    /\ Len(buffer) < BufferSize
    /\ buffer' = Append(buffer, e)
    /\ draining' = TRUE
    /\ Goes(e, "drain")

Spawn(e) ==
    /\ NextEvent(e)
    /\ mode = "buffered" => Len(buffer) = BufferSize
    /\ mode # "durable"
    /\ draining' = (mode = "buffered")
    /\ UNCHANGED buffer
    /\ Goes(e, "task")

\* In durable mode the caller persists the event itself, and learns of a failure.
TrackDurable(e) ==
    /\ mode = "durable" /\ NextEvent(e)
    /\ UNCHANGED <<buffer, draining>>
    /\ Goes(e, "caller")

-----------------------------------------------------------------------------
DrainTakes ==
    /\ draining /\ ByDrain = {} /\ buffer # <<>>
    /\ place' = [place EXCEPT ![Head(buffer)] = "taken"]
    /\ buffer' = Tail(buffer)
    /\ UNCHANGED <<mode, via, seen, stats, storedEvents, draining, flusher, flushes>>

\* Slip: an event counts as finished when it is taken from the queue.
UnfinishedInQueue(b, w) == Len(b)

\* The unfinished tasks of the queue, with those the drain task has taken.
Unfinished(b, w) == Len(b) + Cardinality(w)

\* task_done by the drain task, which is writing nothing after: the last one wakes the joiners.
TaskDone(e) ==
    flusher' = IF via[e] = "drain" /\ Unfinished(buffer, {}) = 0
               THEN [f \in Flushers |-> IF flusher[f].pc = "joining" THEN [flusher[f] EXCEPT !.pc = "joined"]
                                        ELSE flusher[f]]
               ELSE flusher

\* _project_state reads the count ...
ReadStats(e) ==
    /\ place[e] = "taken"
    /\ place' = [place EXCEPT ![e] = "read"]
    /\ seen' = [seen EXCEPT ![e] = stats]
    /\ UNCHANGED <<mode, buffer, via, stats, storedEvents, draining, flusher, flushes>>

\* ... and the commit writes the event with the count.
Store(e) ==
    /\ place[e] = "read"
    /\ place' = [place EXCEPT ![e] = "stored"]
    /\ stats' = seen[e] + 1
    /\ seen' = [seen EXCEPT ![e] = 0]
    /\ storedEvents' = Append(storedEvents, e)
    /\ UNCHANGED <<mode, buffer, via, draining, flusher, flushes>>

\* The attribution may fail too; the event stays.
AttributionEnds(e) ==
    /\ place[e] = "stored"
    /\ place' = [place EXCEPT ![e] = "done"]
    /\ TaskDone(e)
    /\ UNCHANGED <<mode, buffer, via, seen, stats, storedEvents, draining, flushes>>

\* _persist_best_effort logs an event that could not be written and drops it.
DropEvent(e) ==
    /\ place[e] \in {"taken", "read"}
    /\ place' = [place EXCEPT ![e] = "dropped"]
    /\ TaskDone(e)
    /\ UNCHANGED <<mode, buffer, via, seen, stats, storedEvents, draining, flushes>>

-----------------------------------------------------------------------------
\* flush, alone or in close: joins the queue ...
Flush(f) ==
    /\ flusher[f].pc = "idle"
    /\ flushes < MaxFlushes
    /\ flushes' = flushes + 1
    /\ \E closes \in BOOLEAN :
        flusher' = [flusher EXCEPT ![f] =
            [pc |-> IF Unfinished(buffer, ByDrain) = 0 THEN "joined" ELSE "joining",
             closes |-> closes, waits |-> {},
             before |-> {e \in Events : place[e] \in {"queued"} \cup InWriting /\ via[e] # "caller"}]]
    /\ draining' = (draining \/ mode = "buffered")
    /\ UNCHANGED <<mode, buffer, place, via, seen, stats, storedEvents>>

\* ... and gathers the tasks that are pending then.
Gather(f) ==
    /\ flusher[f].pc = "joined"
    /\ flusher' = [flusher EXCEPT ![f].pc = "gathering", ![f].waits = PendingTasks]
    /\ UNCHANGED <<mode, buffer, place, via, seen, stats, storedEvents, draining, flushes>>

Gathered(f) == flusher[f].pc = "gathering" /\ flusher[f].waits \cap PendingTasks = {}

FlushReturns(f) ==
    /\ Gathered(f) /\ ~flusher[f].closes
    /\ flusher' = [flusher EXCEPT ![f] = NoFlusher]
    /\ UNCHANGED <<mode, buffer, place, via, seen, stats, storedEvents, draining, flushes>>

\* close cancels the drain task, with the event it is writing, which is then finished; what
\* came into the buffer since stays there.
CloseReturns(f) ==
    /\ Gathered(f) /\ flusher[f].closes
    /\ draining' = FALSE
    /\ place' = [e \in Events |-> IF e \in ByDrain THEN "cancelled" ELSE place[e]]
    /\ flusher' = [g \in Flushers |->
            IF g = f THEN NoFlusher
            ELSE IF flusher[g].pc = "joining" /\ ByDrain # {} /\ Unfinished(buffer, {}) = 0
                 THEN [flusher[g] EXCEPT !.pc = "joined"]
            ELSE flusher[g]]
    /\ UNCHANGED <<mode, buffer, via, seen, stats, storedEvents, flushes>>

EventIngestNext ==
    \/ DrainTakes
    \/ \E e \in Events :
        \/ TrackBuffered(e) \/ Spawn(e) \/ TrackDurable(e)
        \/ ReadStats(e) \/ Store(e) \/ AttributionEnds(e) \/ DropEvent(e)
    \/ \E f \in Flushers : Flush(f) \/ Gather(f) \/ FlushReturns(f) \/ CloseReturns(f)

EventIngestSpec == EventIngestInit /\ [][EventIngestNext]_eventIngestVars

-----------------------------------------------------------------------------
EventIngestTypeOK ==
    /\ mode \in Modes
    /\ buffer \in Seq(Events) /\ Len(buffer) <= BufferSize
    /\ place \in [Events -> Places]
    /\ via \in [Events -> {"nobody", "drain", "task", "caller"}]
    /\ seen \in [Events -> Nat]
    /\ stats \in Nat
    /\ storedEvents \in Seq(Events)
    /\ draining \in BOOLEAN
    /\ flusher \in [Flushers -> Flusher]
    /\ flushes \in 0 .. MaxFlushes

Increasing(s) == \A i, j \in DOMAIN s : i < j => s[i] < s[j]

\* A caller of flush who comes back finds every event that the service had accepted before
\* written or, with a line in the log, dropped - or cancelled, if someone else closed the
\* service meanwhile; a caller of close too, whatever came while it waited.  And as long as
\* the buffer was never full and the events were not the callers' own, they are written in
\* the order they came and each is counted: a spawned task overtakes and loses counts.
FlushDrains ==
    [][/\ \A f \in Flushers : flusher[f].pc = "gathering" /\ flusher'[f].pc = "idle" =>
             \A e \in flusher[f].before : place[e] \in Settled \cup {"cancelled"}
       /\ \A e \in Events : place'[e] = "cancelled" /\ place[e] # "cancelled" =>
             \A f \in Flushers : flusher[f].pc = "gathering" /\ flusher'[f].pc = "idle" => e \notin flusher[f].before
       /\ (\A e \in Events : via[e] \in {"nobody", "drain"}) =>
             Increasing(storedEvents) /\ stats = Len(storedEvents)]_eventIngestVars
=============================================================================

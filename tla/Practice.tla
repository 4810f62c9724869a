------------------------------- MODULE Practice -------------------------------
(***************************************************************************)
(* The vocabulary of one user: words are added by text, by a batch and in  *)
(* a conversation, and reviewed.  Every row is read in one transaction,    *)
(* scheduled, and written back, without a lock.  What happened is recorded *)
(* as a learning event, whose processors run inside the request, one after *)
(* the other; those that write these tables are here: a second schedule of *)
(* a reviewed word, and the graph of concepts.  The learning engine then   *)
(* schedules a reviewed word a third time.                                 *)
(***************************************************************************)
EXTENDS Integers, Sequences, FiniteSets

CONSTANTS
    Learners,           \* concurrent requests
    Words,
    KnownWord,          \* the word that the user has at the start
    MaxPractice         \* bound: requests

ASSUME PracticeAssumption == KnownWord \in Words /\ MaxPractice \in Nat /\ IsFiniteSet(Learners)

VARIABLES
    vocabulary,         \* the rows, in the order of their ids
    graph,              \* the edges: a word, and the row whose event built them
    learningEvents,     \* word_learned and word_reviewed, how many of each
    practising,         \* the requests
    practised,          \* what was done; not in the code, see Practised
    practiceAsked       \* requests so far

practiceVars == <<vocabulary, graph, learningEvents, practising, practised, practiceAsked>>

\* The text, review_count and repetitions.
WordRow == [word : Words, reviews : Nat, repetitions : Nat]
NewWordRow(w) == [word |-> w, reviews |-> 0, repetitions |-> 0]

\* plan: the steps that are left; todo: words of a batch or a message that are left; item: the
\* row at hand; row: as it was read; listed: words that the new graph will have; replaced: edges
\* that it deletes; learned: rows that a conversation added.  Not in the code: stale, another
\* request has written the row that was read or inserted the word that was checked; overtaken,
\* another has added a word to those that were listed.
NoPractice == [kind |-> "none", plan |-> <<>>, todo |-> <<>>, item |-> 1, row |-> NewWordRow(KnownWord),
               failed |-> FALSE, listed |-> {}, replaced |-> {}, learned |-> <<>>, stale |-> FALSE, overtaken |-> FALSE]

Rows == 1 .. Len(vocabulary)

\* scheduled: times that a row was scheduled; crossed: rows written over another's write;
\* texted: words added by text; twice: words whose check was stale; answered: reviews that were
\* completed; cut: a request has died; overtaken: a graph was built without a word that had
\* come, or beside another's edges.
Practised == [scheduled : [Rows -> Nat], crossed : SUBSET Rows, texted : SUBSET Words, twice : SUBSET Words,
              answered : Nat, cut : BOOLEAN, overtaken : BOOLEAN]

PracticeInit ==
    /\ vocabulary = <<NewWordRow(KnownWord)>>
    /\ graph = {<<KnownWord, 1>>}
    /\ learningEvents = [learned |-> 1, reviewed |-> 0]
    /\ practising = [c \in Learners |-> NoPractice]
    /\ practised = [scheduled |-> <<0>>, crossed |-> {}, texted |-> {}, twice |-> {}, answered |-> 0,
                    cut |-> FALSE, overtaken |-> FALSE]
    /\ practiceAsked = 0

-----------------------------------------------------------------------------
(***************************************************************************)
(* The requests.                                                           *)
(***************************************************************************)
TextPlan == <<"insert", "record", "list", "delete", "connect">>

\* The service schedules the word, the processor of its event does, and the engine.
ReviewPlan == <<"read", "write", "record", "read", "write", "read", "write", "record">>

Attend(c, q) ==
    /\ practising[c].plan = <<>>
    /\ practiceAsked < MaxPractice
    /\ practiceAsked' = practiceAsked + 1
    /\ practising' = [practising EXCEPT ![c] = q]

ProcessText(c) ==
    \E w \in Words :
        /\ Attend(c, [NoPractice EXCEPT !.kind = "text", !.plan = TextPlan, !.todo = <<w>>])
        /\ practised' = [practised EXCEPT !.texted = @ \cup {w}]
        /\ UNCHANGED <<vocabulary, graph, learningEvents>>

\* Of an extracted text: each word once.
Texts == {<<w>> : w \in Words} \cup {t \in Words \X Words : t[1] # t[2]}

ProcessBatch(c) ==
    \E t \in Texts :
        /\ Attend(c, [NoPractice EXCEPT !.kind = "batch", !.plan = <<"exists">>, !.todo = t])
        /\ UNCHANGED <<vocabulary, graph, learningEvents, practised>>

Converse(c) ==
    \E t \in Texts :
        /\ Attend(c, [NoPractice EXCEPT !.kind = "talk", !.plan = <<"known">>, !.todo = t])
        /\ UNCHANGED <<vocabulary, graph, learningEvents, practised>>

ReviewItem(c) ==
    \E i \in Rows, failed \in BOOLEAN :
        /\ Attend(c, [NoPractice EXCEPT !.kind = "review", !.plan = ReviewPlan, !.item = i, !.failed = failed])
        /\ UNCHANGED <<vocabulary, graph, learningEvents, practised>>

Stepping(c, step) == practising[c].plan # <<>> /\ Head(practising[c].plan) = step

\* What a request does once the steps of its word are done: the next word of the batch or of the
\* message, and after a message the rows that it has learned.
NextWord(q, words) ==
    IF words # <<>> THEN [q EXCEPT !.todo = words, !.plan = IF q.kind = "batch" THEN <<"exists">> ELSE TextPlan]
    ELSE IF q.learned # <<>> THEN [q EXCEPT !.todo = <<>>, !.plan = <<"read", "keep">>]
    ELSE NoPractice

AfterStep(q) ==
    IF Len(q.plan) > 1 THEN [q EXCEPT !.plan = Tail(@)]
    ELSE NextWord(q, IF q.todo = <<>> THEN <<>> ELSE Tail(q.todo))

Advance(c, q) == practising' = [practising EXCEPT ![c] = AfterStep(q)]

-----------------------------------------------------------------------------
(***************************************************************************)
(* Adding a word.                                                          *)
(***************************************************************************)
\* Slip: nothing is known.
NeverKnown(w) == FALSE

IsKnown(w) == \E i \in Rows : vocabulary[i].word = w

\* The words of a text, which are one or two, that are not known.
NewWords(t) ==
    LET new == {k \in 1 .. Len(t) : ~IsKnown(t[k])}
    IN IF new = {} THEN <<>> ELSE IF new = 1 .. Len(t) THEN t ELSE <<t[CHOOSE k \in new : TRUE]>>

\* A batch looks for each word before it adds it.
CheckWord(c) ==
    /\ Stepping(c, "exists")
    /\ LET q == practising[c]
       IN IF IsKnown(Head(q.todo)) THEN Advance(c, q)
          ELSE practising' = [practising EXCEPT ![c] = [q EXCEPT !.plan = TextPlan, !.stale = FALSE]]
    /\ UNCHANGED <<vocabulary, graph, learningEvents, practised, practiceAsked>>

\* A conversation reads the words that are known once, for the whole message.
ReadKnownWords(c) ==
    /\ Stepping(c, "known")
    /\ LET q == practising[c]
       IN practising' = [practising EXCEPT ![c] = NextWord(q, NewWords(q.todo))]
    /\ UNCHANGED <<vocabulary, graph, learningEvents, practised, practiceAsked>>

\* Those who have not yet inserted this word, or have listed the words, do not know of it.
UnawareOfWord(w) ==
    [o \in Learners |->
        LET p == practising[o]
            checked == p.kind \in {"batch", "talk"} /\ ~Stepping(o, "exists") /\ ~Stepping(o, "known")
        IN [p EXCEPT !.stale = IF checked /\ \E k \in 1 .. Len(p.todo) : p.todo[k] = w THEN TRUE ELSE @,
                     !.overtaken = @ \/ Stepping(o, "delete")]]

\* Commits by itself.
InsertWord(c) ==
    /\ Stepping(c, "insert")
    /\ LET q == practising[c]
           w == Head(q.todo)
           i == Len(vocabulary) + 1
           next == [q EXCEPT !.item = i, !.learned = IF q.kind = "talk" THEN Append(@, i) ELSE @]
       IN /\ vocabulary' = Append(vocabulary, NewWordRow(w))
          /\ practised' = [practised EXCEPT !.scheduled = Append(@, 0), !.twice = IF q.stale THEN @ \cup {w} ELSE @]
          /\ practising' = [UnawareOfWord(w) EXCEPT ![c] = AfterStep(next)]
    /\ UNCHANGED <<graph, learningEvents, practiceAsked>>

\* The event is committed before its processors run.
RecordEvent(c) ==
    /\ Stepping(c, "record")
    /\ learningEvents' = IF practising[c].kind = "review" THEN [learningEvents EXCEPT !.reviewed = @ + 1]
                         ELSE [learningEvents EXCEPT !.learned = @ + 1]
    /\ practised' = [practised EXCEPT
            !.answered = IF practising[c].kind = "review" /\ Len(practising[c].plan) = 1 THEN @ + 1 ELSE @]
    /\ Advance(c, practising[c])
    /\ UNCHANGED <<vocabulary, graph, practiceAsked>>

-----------------------------------------------------------------------------
(***************************************************************************)
(* The graph of concepts: one transaction that lists the words, deletes    *)
(* the edges and inserts new ones.  A graph in the cache is not seen: it   *)
(* is deleted first, and the cache is the request's own unless             *)
(* ENABLE_REDIS_CACHE is set, which it is not by default.                  *)
(***************************************************************************)
ListWords(c) ==
    /\ Stepping(c, "list")
    /\ Advance(c, [practising[c] EXCEPT !.listed = {vocabulary[i].word : i \in Rows}, !.overtaken = FALSE])
    /\ UNCHANGED <<vocabulary, graph, learningEvents, practised, practiceAsked>>

\* DELETE sees the edges that are committed when it starts.
DeleteEdges(c) ==
    /\ Stepping(c, "delete")
    /\ Advance(c, [practising[c] EXCEPT !.replaced = graph])
    /\ UNCHANGED <<vocabulary, graph, learningEvents, practised, practiceAsked>>

\* The insert commits both.
ConnectWords(c) ==
    /\ Stepping(c, "connect")
    /\ LET q == practising[c]
       IN /\ graph' = (graph \ q.replaced) \cup {<<w, q.item>> : w \in q.listed}
          /\ practised' = [practised EXCEPT !.overtaken = @ \/ q.overtaken \/ ~(graph \subseteq q.replaced)]
          /\ Advance(c, [q EXCEPT !.listed = {}, !.replaced = {}, !.overtaken = FALSE])
    /\ UNCHANGED <<vocabulary, learningEvents, practiceAsked>>

-----------------------------------------------------------------------------
(***************************************************************************)
(* Reviews.                                                                *)
(***************************************************************************)
\* A word that was not recalled starts again.
Scheduled(row, failed) == [row EXCEPT !.reviews = @ + 1, !.repetitions = IF failed THEN 0 ELSE @ + 1]

\* Slip: the row that was read first is scheduled each time.
RowReadOnce(q) == IF q.plan = ReviewPlan \/ q.kind = "talk" THEN vocabulary[q.item] ELSE q.row

RowRead(q) == vocabulary[q.item]

ReadWord(c) ==
    /\ Stepping(c, "read")
    /\ LET q == practising[c]
           at == IF q.kind = "talk" THEN [q EXCEPT !.item = Head(q.learned), !.learned = Tail(@)] ELSE q
       IN Advance(c, [at EXCEPT !.row = RowRead(at), !.stale = FALSE])
    /\ UNCHANGED <<vocabulary, graph, learningEvents, practised, practiceAsked>>

\* Others that have read the row do not know of the write.
UnawareOfRow(i) ==
    [o \in Learners |->
        LET p == practising[o]
        IN [p EXCEPT !.stale = @ \/ (p.item = i /\ (Stepping(o, "write") \/ Stepping(o, "keep")))]]

WriteRow(c, row) ==
    LET q == practising[c]
    IN /\ vocabulary' = [vocabulary EXCEPT ![q.item] = row]
       /\ practised' = [practised EXCEPT !.scheduled[q.item] = IF q.kind = "review" THEN @ + 1 ELSE @,
                                         !.crossed = IF q.stale THEN @ \cup {q.item} ELSE @]
       /\ practising' = [UnawareOfRow(q.item) EXCEPT ![c] = AfterStep([q EXCEPT !.row = row])]
       /\ UNCHANGED <<graph, learningEvents, practiceAsked>>

\* Every column of the schedule is written.
WriteWord(c) == Stepping(c, "write") /\ WriteRow(c, Scheduled(practising[c].row, practising[c].failed))

\* A learned word keeps the schedule that was read.
KeepWord(c) == Stepping(c, "keep") /\ WriteRow(c, practising[c].row)

-----------------------------------------------------------------------------
\* Any step may raise, or its process die; what was committed stays.  A conversation goes on
\* with its next word, and forgets that it learned this one.
PractiseFails(c) ==
    /\ practising[c].plan # <<>>
    /\ LET q == practising[c]
           adding == q.kind = "talk" /\ q.todo # <<>> /\ ~Stepping(c, "known")
           n == Len(q.learned)
           learned == IF n > 0 /\ q.learned[n] = q.item /\ ~Stepping(c, "insert") THEN SubSeq(q.learned, 1, n - 1)
                      ELSE q.learned
       IN practising' \in
            {[practising EXCEPT ![c] = NoPractice]} \cup
            (IF adding THEN {[practising EXCEPT ![c] =
                NextWord([q EXCEPT !.listed = {}, !.replaced = {}, !.overtaken = FALSE, !.learned = learned],
                         Tail(q.todo))]}
             ELSE {})
    /\ practised' = [practised EXCEPT !.cut = TRUE]
    /\ UNCHANGED <<vocabulary, graph, learningEvents, practiceAsked>>

PracticeNext ==
    \E c \in Learners :
        \/ ProcessText(c) \/ ProcessBatch(c) \/ Converse(c) \/ ReviewItem(c)
        \/ CheckWord(c) \/ ReadKnownWords(c) \/ InsertWord(c) \/ RecordEvent(c)
        \/ ListWords(c) \/ DeleteEdges(c) \/ ConnectWords(c)
        \/ ReadWord(c) \/ WriteWord(c) \/ KeepWord(c)
        \/ PractiseFails(c)

PracticeSpec == PracticeInit /\ [][PracticeNext]_practiceVars

-----------------------------------------------------------------------------
\* The rows, the edges and the requests keep their types; a word is never repeated more often
\* than it was reviewed.
PracticeTypeOK ==
    /\ vocabulary \in Seq(WordRow)
    /\ \A i \in Rows : vocabulary[i].repetitions <= vocabulary[i].reviews
    /\ graph \subseteq Words \X Rows
    /\ learningEvents \in [learned : Nat, reviewed : Nat]
    /\ practised \in Practised
    /\ practiceAsked \in 0 .. MaxPractice
    /\ \A c \in Learners :
        LET q == practising[c]
        IN /\ q.item \in Rows /\ q.row \in WordRow /\ q.listed \subseteq Words /\ q.replaced \subseteq Words \X Rows
           /\ q.todo \in Seq(Words) /\ q.learned \in Seq(Rows)
           /\ (q.plan = <<>>) = (q.kind = "none")

Quiet == \A c \in Learners : practising[c].plan = <<>>

\* A row that no two requests wrote across one another counts every time it was scheduled, and
\* no row counts more, although review_item, the processor of its event and the engine each read
\* the row again before they schedule it.  A word has two rows only if it was added by text, which
\* does not look, or if two requests looked before either added it.  Once the requests are done,
\* and unless one died or built its graph beside another, every answer has given two events,
\* every row has its event, and the graph has one edge for every word.
PracticeAddsUp ==
    /\ \A i \in Rows : /\ vocabulary[i].reviews <= practised.scheduled[i]
                       /\ i \notin practised.crossed => vocabulary[i].reviews = practised.scheduled[i]
    /\ \A i, j \in Rows :
        i # j /\ vocabulary[i].word = vocabulary[j].word => vocabulary[i].word \in practised.texted \cup practised.twice
    /\ Quiet /\ ~practised.cut =>
        /\ learningEvents.reviewed = 2 * practised.answered
        /\ learningEvents.learned = Len(vocabulary)
        /\ practised.overtaken
           \/ \A w \in {vocabulary[i].word : i \in Rows} : Cardinality({e \in graph : e[1] = w}) = 1
=============================================================================

--------------------------- MODULE ExperimentsProofs ---------------------------
(***************************************************************************)
(* Proofs about Experiments, for any experiments, variants, exclusions and *)
(* prerequisites, and any number of requests; and about Registry, where    *)
(* the definitions of experiments are kept.                                *)
(***************************************************************************)
EXTENDS Experiments, Registry, TLAPS

-----------------------------------------------------------------------------
(***************************************************************************)
(* The inductive invariant.  The three rows of an experiment name one      *)
(* variant, which is the only one that was answered.                       *)
(***************************************************************************)
RowsAgree ==
    \A e \in Experiments :
        /\ exposure[e] = assignment[e]
        /\ attribution[e].variant \in {None, assignment[e]}
        /\ attribution[e].variant = None => attribution[e].events = 0 /\ ~attribution[e].converted
        /\ answered[e] \subseteq {attribution[e].variant} \ {None}

Stored(c) == assigning[c].pc \in {"ensured", "attributed"}
RequestsAgree ==
    \A c \in AssignClients :
        /\ assigning[c].pc = "defined" => assigning[c].definition # Closed
        /\ Stored(c) => assigning[c].variant = assignment[assigning[c].key]
        /\ assigning[c].pc = "attributed" =>
              attribution[assigning[c].key].variant = assignment[assigning[c].key]

\* One request inserts an exposure, and only that one writes the trace.
Created(c) == Stored(c) /\ assigning[c].created
CreatedOnce ==
    /\ \A c \in AssignClients : Created(c) => traced[assigning[c].key] = 0
    /\ \A c, o \in AssignClients :
          Created(c) /\ Created(o) /\ assigning[c].key = assigning[o].key => c = o
    /\ \A e \in Experiments : traced[e] <= 1 /\ (assignment[e] = None => traced[e] = 0)

\* What is missing of an experiment's rows is still to be written by a request, unless one died.
StillToCome ==
    \A e \in Experiments : assignment[e] # None /\ experimentDied[e] = 0 =>
        /\ attribution[e].variant = None =>
              \E c \in AssignClients : assigning[c].pc = "ensured" /\ assigning[c].key = e
        /\ traced[e] = 0 => \E c \in AssignClients : Created(c) /\ assigning[c].key = e

\* A request that found its experiment eligible still may insert it, or has been raced.
DecidedApart ==
    \A c \in AssignClients :
        LET e == assigning[c].key
        IN assigning[c].pc = "decided" /\ assignment[e] = None /\ <<"assign", e>> \notin experimentRaced
               => \A x \in Excludes[e] : assignment[x] = None

\* The rows that a record_event call has read are those that are stored, or it was raced.
ReadsCounted ==
    \A r \in Recorders : \A e \in recording[r].open :
        /\ attribution[e].variant # None
        /\ recording[r].rows[e].events <= counted[e]
        /\ <<"event", e>> \notin experimentRaced => recording[r].rows[e].events = attribution[e].events

AssignInv == RowsAgree /\ RequestsAgree /\ CreatedOnce /\ StillToCome
ApartInv == DecidedApart /\ ExclusiveUnlessRaced
CountInv == ReadsCounted /\ EventsCounted
ExperimentsInv == ExperimentsTypeOK /\ AssignInv /\ ApartInv /\ CountInv

-----------------------------------------------------------------------------
LEMMA NoRequestType ==
    /\ NoAssigning \in Assigning /\ NoAssigning.pc = "idle"
    /\ NoRecording \in Recording /\ NoRecording.open = {}
<1>1. AnyExperiment \in Experiments
  BY ExperimentsAssumption DEF AnyExperiment
<1>2. NoAttribution \in Attribution
  BY DEF NoAttribution, Attribution
<1> QED
  BY <1>1, <1>2, ExperimentsAssumption
     DEF NoAssigning, Assigning, AssignSteps, Definition, NoRecording, Recording

LEMMA Missing ==
    ASSUME NEW a \in Attribution, a.variant = None => a.events = 0 /\ ~a.converted
    PROVE  a = NoAttribution <=> a.variant = None
BY DEF Attribution, NoAttribution

\* A request of assign that ends, and one that goes on.
LEMMA Ending ==
    ASSUME ExperimentsTypeOK, NEW c \in AssignClients, assigning' = [assigning EXCEPT ![c] = NoAssigning]
    PROVE  /\ assigning' \in [AssignClients -> Assigning]
           /\ assigning'[c].pc = "idle"
           /\ \A o \in AssignClients : o # c => assigning'[o] = assigning[o]
BY NoRequestType DEF ExperimentsTypeOK

LEMMA DefinitionRead ==
    ASSUME ExperimentsTypeOK, NEW c \in AssignClients, NEW e \in Experiments, ReadDefinition(c, e)
    PROVE  /\ assigning' \in [AssignClients -> Assigning]
           /\ assigning'[c].pc = "defined" /\ assigning'[c].definition # Closed
           /\ \A o \in AssignClients : o # c => assigning'[o] = assigning[o]
<1> DEFINE r == [NoAssigning EXCEPT !.pc = "defined", !.key = e, !.definition = definition[e]]
<1>1. definition[e] \in Definition /\ definition[e] # Closed
  BY DEF ExperimentsTypeOK, ReadDefinition
<1>2. r \in Assigning /\ r.pc = "defined" /\ r.definition = definition[e]
  BY <1>1, NoRequestType DEF Assigning, AssignSteps
<1> HIDE DEF r
<1>3. assigning' = [assigning EXCEPT ![c] = r]
  BY DEF ReadDefinition, r
<1> QED BY <1>1, <1>2, <1>3 DEF ExperimentsTypeOK

LEMMA Decision ==
    ASSUME ExperimentsTypeOK, RequestsAgree, NEW c \in AssignClients, Decide(c)
    PROVE  /\ assigning' \in [AssignClients -> Assigning]
           /\ \A o \in AssignClients : o # c => assigning'[o] = assigning[o]
           /\ \/ assigning'[c].pc = "idle"
              \/ /\ assigning'[c].pc = "decided" /\ assigning'[c].key = assigning[c].key
                 /\ \/ assignment[assigning[c].key] # None
                    \/ \A x \in Excludes[assigning[c].key] : assignment[x] = None
<1> DEFINE e == assigning[c].key
           d == assigning[c].definition
<1>1. assigning[c] \in Assigning /\ e \in Experiments /\ d \in Definition /\ d # Closed
  BY DEF ExperimentsTypeOK, Assigning, RequestsAgree, Decide
<1>2. assignment[e] \in Variants \cup {None}
  BY <1>1 DEF ExperimentsTypeOK
<1> HIDE DEF e, d
<1>3. CASE assigning' = [assigning EXCEPT ![c] = NoAssigning]
  BY <1>3, Ending
<1>4. ASSUME NEW v \in Variants,
             assigning' = [assigning EXCEPT ![c].pc = "decided", ![c].definition = Closed, ![c].variant = v]
      PROVE  /\ assigning' \in [AssignClients -> Assigning]
             /\ \A o \in AssignClients : o # c => assigning'[o] = assigning[o]
             /\ assigning'[c].pc = "decided" /\ assigning'[c].key = e
  <2>1. assigning'[c] \in Assigning /\ assigning'[c].pc = "decided" /\ assigning'[c].key = e
    BY <1>1, <1>4 DEF e, Assigning, AssignSteps, Definition, ExperimentsTypeOK
  <2> QED BY <1>4, <2>1 DEF ExperimentsTypeOK
<1>5. \/ /\ assignment[e] # None
         /\ assigning' = [assigning EXCEPT ![c].pc = "decided", ![c].definition = Closed,
                                           ![c].variant = assignment[e]]
      \/ /\ assignment[e] = None /\ IsEligible(e, d)
         /\ assigning' = [assigning EXCEPT ![c].pc = "decided", ![c].definition = Closed, ![c].variant = d]
      \/ assigning' = [assigning EXCEPT ![c] = NoAssigning]
  BY DEF Decide, e, d
<1>6. CASE assignment[e] # None /\ assigning' # [assigning EXCEPT ![c] = NoAssigning]
  BY <1>2, <1>4, <1>5, <1>6 DEF e
<1>7. CASE assignment[e] = None /\ assigning' # [assigning EXCEPT ![c] = NoAssigning]
  <2>1. IsEligible(e, d) /\ d \in Variants
    BY <1>1, <1>5, <1>7 DEF IsEligible, Definition
  <2> QED BY <1>4, <1>5, <1>7, <2>1 DEF IsEligible, e
<1> QED BY <1>3, <1>6, <1>7

LEMMA Ensuring ==
    ASSUME ExperimentsTypeOK, RowsAgree, NEW c \in AssignClients, Ensure(c)
    PROVE  LET e == assigning[c].key
               v == Winner(assignment[e], assigning[c].variant)
           IN /\ e \in Experiments /\ v \in Variants /\ v # None
              /\ assignment[e] # None => v = assignment[e]
              /\ assignment' = [assignment EXCEPT ![e] = v]
              /\ exposure' = [exposure EXCEPT ![e] = v]
              /\ assigning' \in [AssignClients -> Assigning]
              /\ assigning'[c].pc = "ensured" /\ assigning'[c].key = e
              /\ assigning'[c].variant = v
              /\ assigning'[c].created <=> assignment[e] = None
              /\ \A o \in AssignClients : o # c => assigning'[o] = assigning[o]
<1> DEFINE e == assigning[c].key
           v == Winner(assignment[e], assigning[c].variant)
<1>1. assigning[c] \in Assigning /\ e \in Experiments /\ assigning[c].variant \in Variants
  BY DEF ExperimentsTypeOK, Assigning
<1>2. assignment[e] \in Variants \cup {None}
  BY <1>1 DEF ExperimentsTypeOK
<1>3. v \in Variants /\ v # None /\ (assignment[e] # None => v = assignment[e])
  BY <1>1, <1>2, NoneIsNoVariant DEF Winner
<1>4. Winner(assignment[e], v) = v /\ Winner(exposure[e], v) = v /\ exposure[e] = assignment[e]
  BY <1>1, <1>3 DEF Winner, RowsAgree
<1>5. /\ assignment' = [assignment EXCEPT ![e] = Winner(assignment[e], v)]
      /\ exposure' = [exposure EXCEPT ![e] = Winner(exposure[e], v)]
      /\ assigning' = [assigning EXCEPT ![c].pc = "ensured", ![c].variant = v,
                                        ![c].created = exposure[e] = None]
  BY DEF Ensure
<1> HIDE DEF e, v
<1>6. /\ assigning'[c] \in Assigning
      /\ assigning'[c].pc = "ensured" /\ assigning'[c].key = assigning[c].key
      /\ assigning'[c].variant = v
      /\ assigning'[c].created <=> exposure[e] = None
  BY <1>1, <1>3, <1>5 DEF Assigning, AssignSteps, ExperimentsTypeOK
<1>7. /\ assigning' \in [AssignClients -> Assigning]
      /\ \A o \in AssignClients : o # c => assigning'[o] = assigning[o]
  BY <1>5, <1>6 DEF ExperimentsTypeOK
<1> QED BY <1>1, <1>3, <1>4, <1>5, <1>6, <1>7 DEF e, v

LEMMA Attributing ==
    ASSUME ExperimentsTypeOK, RowsAgree, NEW c \in AssignClients, Attribute(c)
    PROVE  LET e == assigning[c].key
               v == assigning[c].variant
           IN /\ e \in Experiments /\ v \in Variants /\ v # None
              /\ attribution' \in [Experiments -> Attribution]
              /\ \A x \in Experiments :
                    /\ attribution'[x].events = attribution[x].events
                    /\ attribution'[x].converted <=> attribution[x].converted
                    /\ attribution'[x].variant =
                          IF x = e /\ attribution[x].variant = None THEN v ELSE attribution[x].variant
              /\ assigning' \in [AssignClients -> Assigning]
              /\ assigning'[c].pc = "attributed" /\ assigning'[c].key = e
              /\ assigning'[c].variant = v
              /\ assigning'[c].created <=> assigning[c].created
              /\ \A o \in AssignClients : o # c => assigning'[o] = assigning[o]
<1> DEFINE e == assigning[c].key
           v == assigning[c].variant
<1>1. assigning[c] \in Assigning /\ e \in Experiments /\ v \in Variants /\ v # None
  BY NoneIsNoVariant DEF ExperimentsTypeOK, Assigning
<1>2. attribution[e] \in Attribution /\ (attribution[e] = NoAttribution <=> attribution[e].variant = None)
  BY <1>1, Missing DEF ExperimentsTypeOK, RowsAgree
<1>3. attribution' = IF attribution[e] = NoAttribution
                     THEN [attribution EXCEPT ![e].variant = v] ELSE attribution
  BY DEF Attribute
<1>4. assigning' = [assigning EXCEPT ![c].pc = "attributed"]
  BY DEF Attribute
<1>5. /\ assigning'[c] \in Assigning
      /\ assigning'[c].pc = "attributed" /\ assigning'[c].key = e
      /\ assigning'[c].variant = v /\ (assigning'[c].created <=> assigning[c].created)
  BY <1>1, <1>4 DEF Assigning, AssignSteps, ExperimentsTypeOK
<1>6. /\ assigning' \in [AssignClients -> Assigning]
      /\ \A o \in AssignClients : o # c => assigning'[o] = assigning[o]
  BY <1>4, <1>5 DEF ExperimentsTypeOK
<1> HIDE DEF e, v
<1>7. /\ attribution' \in [Experiments -> Attribution]
      /\ \A x \in Experiments :
            /\ attribution'[x].events = attribution[x].events
            /\ attribution'[x].converted <=> attribution[x].converted
            /\ attribution'[x].variant =
                  IF x = e /\ attribution[x].variant = None THEN v ELSE attribution[x].variant
  BY <1>1, <1>2, <1>3 DEF ExperimentsTypeOK, Attribution
<1> QED BY <1>1, <1>5, <1>6, <1>7 DEF e, v

LEMMA Reading ==
    ASSUME ExperimentsTypeOK, RowsAgree, NEW r \in Recorders, ReadRows(r)
    PROVE  /\ recording' \in [Recorders -> Recording]
           /\ recording'[r].rows = attribution
           /\ recording'[r].open = {e \in Experiments \ windowOver : attribution[e].variant # None}
           /\ \A o \in Recorders : o # r => recording'[o] = recording[o]
<1> DEFINE open == {e \in Experiments \ windowOver : attribution[e] # NoAttribution}
           x == [pc |-> "read", rows |-> attribution, open |-> open]
<1>1. x \in Recording /\ x.rows = attribution /\ x.open = open
  BY DEF Recording, ExperimentsTypeOK
<1>2. recording' = [recording EXCEPT ![r] = x]
  BY DEF ReadRows
<1>3. open = {e \in Experiments \ windowOver : attribution[e].variant # None}
  <2>1. \A e \in Experiments : attribution[e] # NoAttribution <=> attribution[e].variant # None
    BY Missing DEF ExperimentsTypeOK, RowsAgree
  <2> QED BY <2>1
<1> HIDE DEF x, open
<1> QED BY <1>1, <1>2, <1>3 DEF ExperimentsTypeOK

\* What the two writes of record_event do to the rows: no variant changes.
LEMMA Writing ==
    ASSUME ExperimentsTypeOK, NEW r \in Recorders, WriteCounts(r) \/ WriteConversion(r)
    PROVE  /\ attribution' \in [Experiments -> Attribution]
           /\ \A e \in Experiments :
                /\ attribution'[e].variant = attribution[e].variant
                /\ e \notin recording[r].open => attribution'[e] = attribution[e]
                /\ WriteConversion(r) => attribution'[e].events = attribution[e].events
                /\ WriteCounts(r) /\ e \in recording[r].open =>
                      attribution'[e].events = recording[r].rows[e].events + 1
<1>1. /\ recording[r].open \subseteq Experiments
      /\ \A e \in Experiments : recording[r].rows[e] \in Attribution
      /\ \A e \in Experiments : attribution[e] \in Attribution
  BY DEF ExperimentsTypeOK, Recording
<1>2. CASE WriteCounts(r)
  <2>1. attribution' = [e \in Experiments |->
              IF e \in recording[r].open
              THEN [attribution[e] EXCEPT !.events = recording[r].rows[e].events + 1] ELSE attribution[e]]
    BY <1>2 DEF WriteCounts, Active
  <2>2. \A e \in Experiments : recording[r].rows[e].events + 1 \in Nat
    BY <1>1 DEF Attribution
  <2>3. ~WriteConversion(r) \/ \A e \in Experiments : attribution'[e].events = attribution[e].events
    <3>1. ASSUME WriteConversion(r), NEW e \in Experiments PROVE attribution'[e].events = attribution[e].events
      BY <1>1, <3>1 DEF WriteConversion, Attribution
    <3> QED BY <3>1
  <2> QED BY <1>1, <2>1, <2>2, <2>3 DEF Attribution
<1>3. CASE WriteConversion(r) /\ ~WriteCounts(r)
  <2>1. attribution' = [e \in Experiments |->
            IF e \in recording[r].open THEN [attribution[e] EXCEPT !.converted = TRUE] ELSE attribution[e]]
    BY <1>3 DEF WriteConversion
  <2> QED BY <1>1, <1>3, <2>1 DEF Attribution
<1> QED BY <1>2, <1>3

LEMMA RecorderEnds ==
    ASSUME ExperimentsTypeOK, NEW r \in Recorders, recording' = [recording EXCEPT ![r] = NoRecording]
    PROVE  /\ recording' \in [Recorders -> Recording]
           /\ recording'[r].open = {}
           /\ \A o \in Recorders : o # r => recording'[o] = recording[o]
BY NoRequestType DEF ExperimentsTypeOK

-----------------------------------------------------------------------------
LEMMA ExperimentsInitially == ExperimentsInit => ExperimentsInv
<1> SUFFICES ASSUME ExperimentsInit PROVE ExperimentsInv
  OBVIOUS
<1> USE DEF ExperimentsInit
<1>0. NoAttribution.variant = None /\ NoAttribution.events = 0 /\ ~NoAttribution.converted
  BY DEF NoAttribution
<1>1. ExperimentsTypeOK
  <2>1. NoAttribution \in Attribution
    BY DEF NoAttribution, Attribution
  <2> QED BY <2>1, NoRequestType, ExperimentsAssumption DEF ExperimentsTypeOK, Definition
<1>2. AssignInv
  BY <1>0, NoRequestType
     DEF AssignInv, RowsAgree, RequestsAgree, Stored, CreatedOnce, Created, StillToCome
<1>3. ApartInv
  BY NoRequestType DEF ApartInv, DecidedApart, ExclusiveUnlessRaced
<1>4. CountInv
  BY <1>0, NoRequestType DEF CountInv, ReadsCounted, EventsCounted
<1> QED BY <1>1, <1>2, <1>3, <1>4 DEF ExperimentsInv

LEMMA TypeInvariant == ExperimentsInv /\ [ExperimentsNext]_experimentVars => ExperimentsTypeOK'
<1> SUFFICES ASSUME ExperimentsInv, [ExperimentsNext]_experimentVars PROVE ExperimentsTypeOK'
  OBVIOUS
<1>t. ExperimentsTypeOK /\ RowsAgree /\ RequestsAgree
  BY DEF ExperimentsInv, AssignInv
<1> USE DEF definitions, assigned, counts
<1>1. CASE UNCHANGED experimentVars
  BY <1>t, <1>1 DEF experimentVars, ExperimentsTypeOK
<1>2. ASSUME experimentOps < MaxExperimentOps, experimentOps' = experimentOps + 1
      PROVE  experimentOps' \in 0 .. MaxExperimentOps
  BY <1>t, <1>2, ExperimentsAssumption DEF ExperimentsTypeOK
<1>3. ASSUME NEW e \in Experiments, Configure(e) PROVE ExperimentsTypeOK'
  BY <1>t, <1>2, <1>3 DEF Configure, ExperimentsTypeOK
<1>4. ASSUME NEW e \in Experiments, WindowEnds(e) PROVE ExperimentsTypeOK'
  BY <1>t, <1>4 DEF WindowEnds, ExperimentsTypeOK
<1>5. ASSUME NEW e \in Experiments, NEW c \in AssignClients, ReadDefinition(c, e) PROVE ExperimentsTypeOK'
  <2>1. assigning' \in [AssignClients -> Assigning]
    BY <1>t, <1>5, DefinitionRead
  <2> QED BY <1>t, <1>2, <1>5, <2>1 DEF ReadDefinition, ExperimentsTypeOK
<1>6. ASSUME NEW c \in AssignClients, Decide(c) PROVE ExperimentsTypeOK'
  <2>1. assigning' \in [AssignClients -> Assigning]
    BY <1>t, <1>6, Decision
  <2>2. UNCHANGED <<definitions, assigned, counts, recording, experimentOps, experimentRaced>>
    BY <1>6 DEF Decide
  <2> QED BY <1>t, <2>1, <2>2 DEF ExperimentsTypeOK
<1>7. ASSUME NEW c \in AssignClients, Ensure(c) PROVE ExperimentsTypeOK'
  <2>1. /\ assigning' \in [AssignClients -> Assigning]
        /\ assignment' \in [Experiments -> Variants \cup {None}]
        /\ exposure' \in [Experiments -> Variants \cup {None}]
    BY <1>t, <1>7, Ensuring DEF ExperimentsTypeOK
  <2>2. experimentRaced' \subseteq {"assign", "event"} \X Experiments
    <3>1. \A o \in AssignClients : assigning[o].key \in Experiments
      BY <1>t DEF ExperimentsTypeOK, Assigning
    <3>2. experimentRaced' = experimentRaced \cup
                {<<"assign", assigning[o].key>> : o \in {o \in AssignClients \ {c} : assigning[o].pc = "decided"}}
      BY <1>7 DEF Ensure
    <3> QED BY <1>t, <3>1, <3>2 DEF ExperimentsTypeOK
  <2>3. UNCHANGED <<definitions, traced, answered, experimentDied, counts, recording, experimentOps>>
    BY <1>7 DEF Ensure
  <2> QED BY <1>t, <2>1, <2>2, <2>3 DEF ExperimentsTypeOK
<1>8. ASSUME NEW c \in AssignClients, Attribute(c) PROVE ExperimentsTypeOK'
  <2>1. assigning' \in [AssignClients -> Assigning] /\ attribution' \in [Experiments -> Attribution]
    BY <1>t, <1>8, Attributing
  <2>2. UNCHANGED <<definitions, assigned, counted, recording, experimentOps, experimentRaced>>
    BY <1>8 DEF Attribute
  <2> QED BY <1>t, <2>1, <2>2 DEF ExperimentsTypeOK
<1>9. ASSUME NEW c \in AssignClients, AnswerVariant(c) PROVE ExperimentsTypeOK'
  <2>1. assigning' \in [AssignClients -> Assigning]
    BY <1>t, <1>9, Ending DEF AnswerVariant
  <2>2. assigning[c].key \in Experiments /\ assigning[c].variant \in Variants
    BY <1>t DEF ExperimentsTypeOK, Assigning
  <2>3. traced' \in [Experiments -> Nat] /\ answered' \in [Experiments -> SUBSET Variants]
    BY <1>t, <1>9, <2>2 DEF AnswerVariant, ExperimentsTypeOK
  <2> QED BY <1>t, <1>9, <2>1, <2>3 DEF AnswerVariant, ExperimentsTypeOK
<1>10. ASSUME NEW c \in AssignClients, AssignDies(c) PROVE ExperimentsTypeOK'
  <2>1. assigning' \in [AssignClients -> Assigning]
    BY <1>t, <1>10, Ending DEF AssignDies
  <2>2. assigning[c].key \in Experiments
    BY <1>t DEF ExperimentsTypeOK, Assigning
  <2>3. experimentDied' \in [Experiments -> Nat]
    BY <1>t, <1>10, <2>2 DEF AssignDies, ExperimentsTypeOK
  <2> QED BY <1>t, <1>10, <2>1, <2>3 DEF AssignDies, ExperimentsTypeOK
<1>11. ASSUME NEW r \in Recorders, ReadRows(r) PROVE ExperimentsTypeOK'
  <2>1. recording' \in [Recorders -> Recording]
    BY <1>t, <1>11, Reading
  <2> QED BY <1>t, <1>2, <1>11, <2>1 DEF ReadRows, ExperimentsTypeOK
<1>12. ASSUME NEW r \in Recorders, WriteCounts(r) PROVE ExperimentsTypeOK'
  <2>1. recording' \in [Recorders -> Recording] /\ attribution' \in [Experiments -> Attribution]
    BY <1>t, <1>12, Writing, RecorderEnds DEF WriteCounts
  <2>2. counted' \in [Experiments -> Nat]
    BY <1>t, <1>12 DEF WriteCounts, ExperimentsTypeOK
  <2>3. experimentRaced' \subseteq {"assign", "event"} \X Experiments
    BY <1>t, <1>12 DEF WriteCounts, Active, ExperimentsTypeOK, Recording
  <2>4. UNCHANGED <<definitions, assigned, assigning, experimentOps>>
    BY <1>12 DEF WriteCounts
  <2> QED BY <1>t, <2>1, <2>2, <2>3, <2>4 DEF ExperimentsTypeOK
<1>13. ASSUME NEW r \in Recorders, WriteConversion(r) PROVE ExperimentsTypeOK'
  <2>1. recording' \in [Recorders -> Recording] /\ attribution' \in [Experiments -> Attribution]
    BY <1>t, <1>13, Writing, RecorderEnds DEF WriteConversion
  <2>2. UNCHANGED <<definitions, assigned, counted, assigning, experimentOps, experimentRaced>>
    BY <1>13 DEF WriteConversion
  <2> QED BY <1>t, <2>1, <2>2 DEF ExperimentsTypeOK
<1>14. ASSUME NEW r \in Recorders, RecordingDies(r) PROVE ExperimentsTypeOK'
  <2>1. recording' \in [Recorders -> Recording]
    BY <1>t, <1>14, RecorderEnds DEF RecordingDies
  <2> QED BY <1>t, <1>14, <2>1 DEF RecordingDies, ExperimentsTypeOK
<1> QED
  BY <1>1, <1>3, <1>4, <1>5, <1>6, <1>7, <1>8, <1>9, <1>10, <1>11, <1>12, <1>13, <1>14 DEF ExperimentsNext

-----------------------------------------------------------------------------
(***************************************************************************)
(* The assignment, its exposure, attribution, trace and answers.           *)
(***************************************************************************)

\* The rows stay as they are, and one request at most changes, before it has an assignment.
LEMMA AssignQuiet ==
    ASSUME ExperimentsInv,
           UNCHANGED <<assignment, exposure, traced, answered, experimentDied>>,
           \A e \in Experiments :
              /\ attribution'[e].variant = attribution[e].variant
              /\ attribution[e].variant = None => attribution'[e] = attribution[e],
           \A c \in AssignClients : assigning'[c] = assigning[c] \/
              /\ assigning[c].pc \in {"idle", "defined", "decided"}
              /\ assigning'[c].pc \in {"idle", "defined", "decided"}
              /\ assigning'[c].pc = "defined" => assigning'[c].definition # Closed
    PROVE  AssignInv'
<1>t. ExperimentsTypeOK /\ AssignInv /\ \A c \in AssignClients : assigning[c].key \in Experiments
  BY DEF ExperimentsInv, ExperimentsTypeOK, Assigning
<1> USE <1>t DEF AssignInv
<1>1. RowsAgree'
  BY DEF RowsAgree
<1>2. RequestsAgree'
  BY DEF RequestsAgree, Stored
<1>3. CreatedOnce'
  BY DEF CreatedOnce, Created, Stored
<1>4. StillToCome'
  BY DEF StillToCome, Created, Stored
<1> QED BY <1>1, <1>2, <1>3, <1>4

LEMMA AssignOthers ==
    ASSUME ExperimentsInv, [ExperimentsNext]_experimentVars,
           ~\E c \in AssignClients : Ensure(c) \/ Attribute(c) \/ AnswerVariant(c) \/ AssignDies(c)
    PROVE  AssignInv'
<1>t. ExperimentsTypeOK /\ RowsAgree /\ RequestsAgree
  BY DEF ExperimentsInv, AssignInv
<1> USE DEF definitions, assigned, counts
<1>1. CASE UNCHANGED experimentVars
  BY <1>1, AssignQuiet DEF experimentVars
<1>2. ASSUME NEW e \in Experiments, Configure(e) \/ WindowEnds(e) PROVE AssignInv'
  BY <1>2, AssignQuiet DEF Configure, WindowEnds
<1>3. ASSUME NEW e \in Experiments, NEW c \in AssignClients, ReadDefinition(c, e) PROVE AssignInv'
  <2>1. assigning[c].pc = "idle" /\ UNCHANGED <<assigned, counts>>
    BY <1>3 DEF ReadDefinition
  <2>2. /\ assigning'[c].pc = "defined" /\ assigning'[c].definition # Closed
        /\ \A o \in AssignClients : o # c => assigning'[o] = assigning[o]
    BY <1>t, <1>3, DefinitionRead
  <2> QED BY <2>1, <2>2, AssignQuiet
<1>4. ASSUME NEW c \in AssignClients, Decide(c) PROVE AssignInv'
  <2>1. assigning[c].pc = "defined" /\ UNCHANGED <<assigned, counts>>
    BY <1>4 DEF Decide
  <2>2. /\ assigning'[c].pc \in {"idle", "decided"}
        /\ \A o \in AssignClients : o # c => assigning'[o] = assigning[o]
    BY <1>t, <1>4, Decision
  <2> QED BY <2>1, <2>2, AssignQuiet
<1>5. ASSUME NEW r \in Recorders, ReadRows(r) \/ RecordingDies(r) PROVE AssignInv'
  BY <1>5, AssignQuiet DEF ReadRows, RecordingDies
<1>6. ASSUME NEW r \in Recorders, WriteCounts(r) \/ WriteConversion(r) PROVE AssignInv'
  <2>1. UNCHANGED <<assigned, assigning>>
    BY <1>6 DEF WriteCounts, WriteConversion
  <2>2. \A e \in recording[r].open : attribution[e].variant # None
    BY DEF ExperimentsInv, CountInv, ReadsCounted
  <2>3. \A e \in Experiments :
            /\ attribution'[e].variant = attribution[e].variant
            /\ attribution[e].variant = None => attribution'[e] = attribution[e]
    BY <1>t, <1>6, <2>2, Writing
  <2> QED BY <2>1, <2>3, AssignQuiet
<1> QED BY <1>1, <1>2, <1>3, <1>4, <1>5, <1>6 DEF ExperimentsNext

\* The first insert decides for all; a later one finds the row and takes its variant.
LEMMA AssignEnsure ==
    ASSUME ExperimentsInv, NEW c \in AssignClients, Ensure(c)
    PROVE  AssignInv'
<1> DEFINE e == assigning[c].key
           v == Winner(assignment[e], assigning[c].variant)
<1>t. ExperimentsTypeOK /\ AssignInv /\ RowsAgree
  BY DEF ExperimentsInv, AssignInv
<1>1. /\ e \in Experiments /\ v # None
      /\ assignment[e] # None => v = assignment[e]
      /\ assignment' = [assignment EXCEPT ![e] = v]
      /\ exposure' = [exposure EXCEPT ![e] = v]
      /\ assigning'[c].pc = "ensured" /\ assigning'[c].key = e
      /\ assigning'[c].variant = v
      /\ assigning'[c].created <=> assignment[e] = None
      /\ \A o \in AssignClients : o # c => assigning'[o] = assigning[o]
  BY <1>t, Ensuring
<1>2. UNCHANGED <<attribution, traced, answered, experimentDied>>
  BY DEF Ensure, counts
<1>3. assigning[c].pc = "decided"
  BY DEF Ensure
<1> HIDE DEF e, v
<1>4. \A x \in Experiments : /\ assignment'[x] = IF x = e THEN v ELSE assignment[x]
                             /\ exposure'[x] = IF x = e THEN v ELSE exposure[x]
  BY <1>t, <1>1 DEF ExperimentsTypeOK
<1>5. \A o \in AssignClients : assigning[o].key \in Experiments /\ assigning[o].variant # None
  BY <1>t, NoneIsNoVariant DEF ExperimentsTypeOK, Assigning
<1>6. RowsAgree'
  BY <1>t, <1>1, <1>2, <1>4 DEF RowsAgree
<1>7. RequestsAgree'
  BY <1>t, <1>1, <1>2, <1>4, <1>5 DEF AssignInv, RequestsAgree, Stored
<1>8. CreatedOnce'
  <2>1. \A o \in AssignClients : Stored(o) /\ assigning[o].key = e => assignment[e] # None
    BY <1>5, <1>t DEF AssignInv, RequestsAgree, Stored
  <2>2. assignment[e] = None => traced[e] = 0
    BY <1>1, <1>t DEF AssignInv, CreatedOnce
  <2> QED BY <1>t, <1>1, <1>2, <1>4, <1>5, <2>1, <2>2 DEF AssignInv, CreatedOnce, Created, Stored
<1>9. StillToCome'
  <2> SUFFICES ASSUME NEW x \in Experiments, assignment'[x] # None, experimentDied[x] = 0
               PROVE  /\ attribution[x].variant = None =>
                            \E o \in AssignClients : assigning'[o].pc = "ensured" /\ assigning'[o].key = x
                      /\ traced[x] = 0 => \E o \in AssignClients : Created(o)' /\ assigning'[o].key = x
    BY <1>2 DEF StillToCome
  <2>1. CASE x = e /\ assignment[e] = None
    BY <1>1, <2>1 DEF Created, Stored
  <2>2. CASE assignment[x] # None
    <3>1. /\ attribution[x].variant = None =>
                \E o \in AssignClients : assigning[o].pc = "ensured" /\ assigning[o].key = x
          /\ traced[x] = 0 => \E o \in AssignClients : Created(o) /\ assigning[o].key = x
      BY <1>t, <2>2 DEF AssignInv, StillToCome
    <3> QED BY <1>1, <1>3, <3>1 DEF Created, Stored
  <2> QED BY <1>4, <2>1, <2>2
<1> QED BY <1>6, <1>7, <1>8, <1>9 DEF AssignInv

LEMMA AssignAttribute ==
    ASSUME ExperimentsInv, NEW c \in AssignClients, Attribute(c)
    PROVE  AssignInv'
<1> DEFINE e == assigning[c].key
           v == assigning[c].variant
<1>t. ExperimentsTypeOK /\ AssignInv /\ RowsAgree
  BY DEF ExperimentsInv, AssignInv
<1>1. /\ e \in Experiments /\ v # None
      /\ \A x \in Experiments :
            /\ attribution'[x].events = attribution[x].events
            /\ attribution'[x].converted <=> attribution[x].converted
            /\ attribution'[x].variant =
                  IF x = e /\ attribution[x].variant = None THEN v ELSE attribution[x].variant
      /\ assigning'[c].pc = "attributed" /\ assigning'[c].key = e
      /\ assigning'[c].variant = v
      /\ assigning'[c].created <=> assigning[c].created
      /\ \A o \in AssignClients : o # c => assigning'[o] = assigning[o]
  BY <1>t, Attributing
<1>2. UNCHANGED <<assignment, exposure, traced, answered, experimentDied>>
  BY DEF Attribute, assigned
<1>3. assigning[c].pc = "ensured" /\ v = assignment[e]
  BY <1>t DEF Attribute, AssignInv, RequestsAgree, Stored
<1>4. \A o \in AssignClients : assigning[o].key \in Experiments /\ assigning[o].variant # None
  BY <1>t, NoneIsNoVariant DEF ExperimentsTypeOK, Assigning
<1>5. assigning[c].key = e /\ assigning[c].variant = v
  OBVIOUS
<1> HIDE DEF e, v
<1>6. attribution'[e].variant = assignment[e] /\ assignment[e] # None
  BY <1>t, <1>1, <1>3 DEF RowsAgree
<1>7. RowsAgree'
  BY <1>t, <1>1, <1>2, <1>3 DEF RowsAgree
<1>8. RequestsAgree'
  <2>1. \A x \in Experiments : attribution[x].variant # None => attribution'[x].variant = attribution[x].variant
    BY <1>1
  <2>2. ASSUME NEW o \in AssignClients, o # c, assigning[o].pc = "attributed"
        PROVE  attribution'[assigning[o].key].variant = assignment[assigning[o].key]
    <3>1. attribution[assigning[o].key].variant = assignment[assigning[o].key]
      BY <1>t, <2>2 DEF AssignInv, RequestsAgree
    <3>2. assignment[assigning[o].key] = assigning[o].variant
      BY <1>t, <2>2 DEF AssignInv, RequestsAgree, Stored
    <3> QED BY <1>4, <2>1, <3>1, <3>2
  <2> QED BY <1>t, <1>1, <1>2, <1>3, <1>6, <2>2 DEF AssignInv, RequestsAgree, Stored
<1>9. CreatedOnce'
  BY <1>t, <1>1, <1>2, <1>3, <1>5 DEF AssignInv, CreatedOnce, Created, Stored
<1>10. StillToCome'
  <2> SUFFICES ASSUME NEW x \in Experiments, assignment[x] # None, experimentDied[x] = 0
               PROVE  /\ attribution'[x].variant = None =>
                            \E o \in AssignClients : assigning'[o].pc = "ensured" /\ assigning'[o].key = x
                      /\ traced[x] = 0 => \E o \in AssignClients : Created(o)' /\ assigning'[o].key = x
    BY <1>2 DEF StillToCome
  <2>1. /\ attribution[x].variant = None =>
              \E o \in AssignClients : assigning[o].pc = "ensured" /\ assigning[o].key = x
        /\ traced[x] = 0 => \E o \in AssignClients : Created(o) /\ assigning[o].key = x
    BY <1>t DEF AssignInv, StillToCome
  <2>2. traced[x] = 0 => \E o \in AssignClients : Created(o)' /\ assigning'[o].key = x
    BY <1>1, <1>3, <1>5, <2>1 DEF Created, Stored
  <2>3. ASSUME attribution'[x].variant = None
        PROVE  \E o \in AssignClients : assigning'[o].pc = "ensured" /\ assigning'[o].key = x
    <3>1. x # e /\ attribution[x].variant = None
      BY <1>1, <1>6, <2>3
    <3> QED BY <1>1, <1>5, <2>1, <3>1
  <2> QED BY <2>2, <2>3
<1> QED BY <1>7, <1>8, <1>9, <1>10 DEF AssignInv

LEMMA AssignAnswer ==
    ASSUME ExperimentsInv, NEW c \in AssignClients, AnswerVariant(c)
    PROVE  AssignInv'
<1> DEFINE e == assigning[c].key
           v == assigning[c].variant
<1>t. ExperimentsTypeOK /\ AssignInv
  BY DEF ExperimentsInv
<1>1. /\ assigning'[c].pc = "idle"
      /\ \A o \in AssignClients : o # c => assigning'[o] = assigning[o]
  BY <1>t, Ending DEF AnswerVariant
<1>2. UNCHANGED <<assignment, exposure, attribution, experimentDied>>
  BY DEF AnswerVariant, counts
<1>3. e \in Experiments /\ v \in Variants /\ v # None
  BY <1>t, NoneIsNoVariant DEF ExperimentsTypeOK, Assigning
<1>4. \A x \in Experiments : /\ answered'[x] = IF x = e THEN answered[x] \cup {v} ELSE answered[x]
                             /\ traced'[x] = IF x = e /\ assigning[c].created THEN traced[x] + 1 ELSE traced[x]
  BY <1>t DEF AnswerVariant, ExperimentsTypeOK
<1>5. assigning[c].pc = "attributed" /\ Stored(c) /\ attribution[e].variant = v /\ v = assignment[e]
  BY <1>t DEF AnswerVariant, Stored, AssignInv, RequestsAgree
<1>6. /\ assigning[c].created => Created(c)
      /\ \A x \in Experiments : traced'[x] = IF x = e /\ assigning[c].created THEN 1 ELSE traced[x]
  <2>1. assigning[c].created => Created(c) /\ traced[e] = 0
    BY <1>5, <1>t DEF AssignInv, CreatedOnce, Created
  <2>2. ASSUME NEW x \in Experiments, x = e, assigning[c].created PROVE traced'[x] = 1
    <3>1. traced'[x] = traced[x] + 1 /\ traced[x] = 0
      BY <1>4, <2>1, <2>2
    <3> QED BY <3>1
  <2>3. ASSUME NEW x \in Experiments, ~(x = e /\ assigning[c].created) PROVE traced'[x] = traced[x]
    BY <1>4, <2>3
  <2> QED BY <2>1, <2>2, <2>3
<1>7. assigning[c].key = e
  OBVIOUS
<1>8. \A o \in AssignClients : assigning[o].key \in Experiments
  BY <1>t DEF ExperimentsTypeOK, Assigning
<1> HIDE DEF e, v
<1>9. RowsAgree'
  <2>1. \A x \in Experiments : answered'[x] \subseteq answered[x] \cup (IF x = e THEN {v} ELSE {})
    BY <1>4
  <2>2. \A x \in Experiments : answered[x] \subseteq {attribution[x].variant} \ {None}
    BY <1>t DEF AssignInv, RowsAgree
  <2>3. \A x \in Experiments : answered'[x] \subseteq {attribution[x].variant} \ {None}
    BY <1>3, <1>5, <2>1, <2>2
  <2> QED BY <1>t, <1>2, <2>3 DEF AssignInv, RowsAgree
<1>10. RequestsAgree'
  BY <1>t, <1>1, <1>2 DEF AssignInv, RequestsAgree, Stored
<1>11. CreatedOnce'
  <2>1. ASSUME NEW o \in AssignClients, o # c, Created(o) PROVE traced'[assigning[o].key] = 0
    <3>1. traced[assigning[o].key] = 0
      BY <1>t, <2>1 DEF AssignInv, CreatedOnce
    <3>2. ~(assigning[o].key = e /\ assigning[c].created)
      BY <1>t, <1>6, <1>7, <2>1 DEF AssignInv, CreatedOnce
    <3> QED BY <1>6, <1>8, <3>1, <3>2
  <2>2. \A x \in Experiments : traced'[x] <= 1
    BY <1>t, <1>6 DEF AssignInv, CreatedOnce
  <2>3. \A x \in Experiments : assignment[x] = None => traced'[x] = 0
    BY <1>t, <1>3, <1>5, <1>6 DEF AssignInv, CreatedOnce
  <2> QED BY <1>t, <1>1, <1>2, <2>1, <2>2, <2>3 DEF AssignInv, CreatedOnce, Created, Stored
<1>12. StillToCome'
  <2> SUFFICES ASSUME NEW x \in Experiments, assignment[x] # None, experimentDied[x] = 0
               PROVE  /\ attribution[x].variant = None =>
                            \E o \in AssignClients : assigning'[o].pc = "ensured" /\ assigning'[o].key = x
                      /\ traced'[x] = 0 => \E o \in AssignClients : Created(o)' /\ assigning'[o].key = x
    BY <1>2 DEF StillToCome
  <2>1. /\ attribution[x].variant = None =>
              \E o \in AssignClients : assigning[o].pc = "ensured" /\ assigning[o].key = x
        /\ traced[x] = 0 => \E o \in AssignClients : Created(o) /\ assigning[o].key = x
    BY <1>t DEF AssignInv, StillToCome
  <2>2. attribution[x].variant = None =>
            \E o \in AssignClients : assigning'[o].pc = "ensured" /\ assigning'[o].key = x
    BY <1>1, <1>5, <2>1
  <2>3. ASSUME traced'[x] = 0 PROVE \E o \in AssignClients : Created(o)' /\ assigning'[o].key = x
    <3>1. traced[x] = 0 /\ ~(x = e /\ assigning[c].created)
      <4>1. CASE x = e /\ assigning[c].created
        <5>1. traced'[x] = 1
          BY <1>6, <4>1
        <5> QED BY <2>3, <5>1
      <4> QED BY <1>6, <2>3, <4>1
    <3>2. PICK o \in AssignClients : Created(o) /\ assigning[o].key = x
      BY <2>1, <3>1
    <3>3. o # c
      BY <1>7, <3>1, <3>2 DEF Created
    <3> QED BY <1>1, <3>2, <3>3 DEF Created, Stored
  <2> QED BY <2>2, <2>3
<1> QED BY <1>9, <1>10, <1>11, <1>12 DEF AssignInv

\* A death excuses what it leaves unwritten.
LEMMA AssignDeath ==
    ASSUME ExperimentsInv, NEW c \in AssignClients, AssignDies(c)
    PROVE  AssignInv'
<1> DEFINE e == assigning[c].key
<1>t. ExperimentsTypeOK /\ AssignInv
  BY DEF ExperimentsInv
<1>1. /\ assigning'[c].pc = "idle"
      /\ \A o \in AssignClients : o # c => assigning'[o] = assigning[o]
  BY <1>t, Ending DEF AssignDies
<1>2. UNCHANGED <<assignment, exposure, attribution, traced, answered>>
  BY DEF AssignDies, counts
<1>3. e \in Experiments /\ \A o \in AssignClients : assigning[o].key \in Experiments
  BY <1>t DEF ExperimentsTypeOK, Assigning
<1>4. experimentDied[e] \in Nat
      /\ \A x \in Experiments : experimentDied'[x] = IF x = e THEN experimentDied[e] + 1 ELSE experimentDied[x]
  BY <1>t, <1>3 DEF AssignDies, ExperimentsTypeOK
<1>5. assigning[c].key = e
  OBVIOUS
<1> HIDE DEF e
<1>6. RowsAgree' /\ RequestsAgree' /\ CreatedOnce'
  BY <1>t, <1>1, <1>2 DEF AssignInv, RowsAgree, RequestsAgree, CreatedOnce, Created, Stored
<1>7. StillToCome'
  <2> SUFFICES ASSUME NEW x \in Experiments, assignment[x] # None, experimentDied'[x] = 0
               PROVE  /\ attribution[x].variant = None =>
                            \E o \in AssignClients : assigning'[o].pc = "ensured" /\ assigning'[o].key = x
                      /\ traced[x] = 0 => \E o \in AssignClients : Created(o)' /\ assigning'[o].key = x
    BY <1>2 DEF StillToCome
  <2>1. x # e /\ experimentDied[x] = 0
    BY <1>4
  <2>2. /\ attribution[x].variant = None =>
              \E o \in AssignClients : assigning[o].pc = "ensured" /\ assigning[o].key = x
        /\ traced[x] = 0 => \E o \in AssignClients : Created(o) /\ assigning[o].key = x
    BY <1>t, <2>1 DEF AssignInv, StillToCome
  <2> QED BY <1>1, <1>5, <2>1, <2>2 DEF Created, Stored
<1> QED BY <1>6, <1>7 DEF AssignInv

LEMMA AssignInvariant == ExperimentsInv /\ [ExperimentsNext]_experimentVars => AssignInv'
BY AssignOthers, AssignEnsure, AssignAttribute, AssignAnswer, AssignDeath

-----------------------------------------------------------------------------
(***************************************************************************)
(* Mutually exclusive experiments.                                         *)
(***************************************************************************)
LEMMA ApartOthers ==
    ASSUME ExperimentsInv, [ExperimentsNext]_experimentVars, ~\E c \in AssignClients : Ensure(c)
    PROVE  ApartInv'
<1>t. ExperimentsTypeOK /\ RequestsAgree /\ RowsAgree
  BY DEF ExperimentsInv, AssignInv
<1> USE DEF definitions, assigned, counts
<1>1. UNCHANGED assignment
  BY DEF ExperimentsNext, experimentVars, Configure, WindowEnds, ReadDefinition, Decide, Attribute,
         AnswerVariant, AssignDies, ReadRows, WriteCounts, WriteConversion, RecordingDies
<1>2. \A e \in Experiments : <<"assign", e>> \in experimentRaced => <<"assign", e>> \in experimentRaced'
  BY DEF ExperimentsNext, experimentVars, Configure, WindowEnds, ReadDefinition, Decide, Attribute,
         AnswerVariant, AssignDies, ReadRows, WriteCounts, WriteConversion, RecordingDies
<1>3. \A c \in AssignClients : assigning'[c].pc = "decided" =>
          \/ assigning'[c] = assigning[c]
          \/ assignment[assigning'[c].key] # None
          \/ \A x \in Excludes[assigning'[c].key] : assignment[x] = None
  <2>1. CASE UNCHANGED assigning
    BY <2>1
  <2>2. ASSUME NEW e \in Experiments, NEW c \in AssignClients, ReadDefinition(c, e)
        PROVE  \A o \in AssignClients : assigning'[o].pc = "decided" => assigning'[o] = assigning[o]
    BY <1>t, <2>2, DefinitionRead
  <2>3. ASSUME NEW c \in AssignClients, Decide(c)
        PROVE  \A o \in AssignClients : assigning'[o].pc = "decided" =>
                  \/ assigning'[o] = assigning[o]
                  \/ assignment[assigning'[o].key] # None
                  \/ \A x \in Excludes[assigning'[o].key] : assignment[x] = None
    BY <1>t, <2>3, Decision
  <2>4. ASSUME NEW c \in AssignClients, Attribute(c)
        PROVE  \A o \in AssignClients : assigning'[o].pc = "decided" => assigning'[o] = assigning[o]
    BY <1>t, <2>4, Attributing
  <2>5. ASSUME NEW c \in AssignClients, AnswerVariant(c) \/ AssignDies(c)
        PROVE  \A o \in AssignClients : assigning'[o].pc = "decided" => assigning'[o] = assigning[o]
    BY <1>t, <2>5, Ending DEF AnswerVariant, AssignDies
  <2> QED
    BY <2>1, <2>2, <2>3, <2>4, <2>5
       DEF ExperimentsNext, experimentVars, Configure, WindowEnds, ReadRows, WriteCounts, WriteConversion,
           RecordingDies
<1>4. \A c \in AssignClients : assigning[c].key \in Experiments
  BY <1>t DEF ExperimentsTypeOK, Assigning
<1>5. DecidedApart'
  BY <1>1, <1>2, <1>3, <1>4 DEF ExperimentsInv, ApartInv, DecidedApart
<1>6. ExclusiveUnlessRaced'
  BY <1>1, <1>2 DEF ExperimentsInv, ApartInv, ExclusiveUnlessRaced
<1> QED BY <1>5, <1>6 DEF ApartInv

LEMMA ApartEnsure ==
    ASSUME ExperimentsInv, NEW c \in AssignClients, Ensure(c)
    PROVE  ApartInv'
<1> DEFINE e == assigning[c].key
<1>t. ExperimentsTypeOK /\ RowsAgree
  BY DEF ExperimentsInv, AssignInv
<1>1. PICK v : /\ e \in Experiments /\ v # None
               /\ assignment[e] # None => v = assignment[e]
               /\ assignment' = [assignment EXCEPT ![e] = v]
               /\ assigning'[c].pc = "ensured"
               /\ \A o \in AssignClients : o # c => assigning'[o] = assigning[o]
  BY <1>t, Ensuring
<1>2. assigning[c].pc = "decided" /\ assigning[c].key = e
  BY DEF Ensure
<1>3. experimentRaced' = experimentRaced \cup
          {<<"assign", assigning[o].key>> : o \in {o \in AssignClients \ {c} : assigning[o].pc = "decided"}}
  BY DEF Ensure
<1> HIDE DEF e
<1>4. \A x \in Experiments : assignment'[x] = IF x = e THEN v ELSE assignment[x]
  BY <1>t, <1>1 DEF ExperimentsTypeOK
<1>5. \A o \in AssignClients : o # c /\ assigning'[o].pc = "decided" =>
          <<"assign", assigning'[o].key>> \in experimentRaced'
  BY <1>1, <1>3
<1>6. DecidedApart'
  BY <1>1, <1>5 DEF DecidedApart
<1>7. experimentRaced \subseteq experimentRaced'
  BY <1>3
<1>8. CASE assignment[e] # None
  <2>1. \A x \in Experiments : assignment'[x] = assignment[x]
    BY <1>1, <1>4, <1>8
  <2>2. ExclusiveUnlessRaced'
    BY <1>7, <2>1 DEF ExperimentsInv, ApartInv, ExclusiveUnlessRaced
  <2> QED BY <1>6, <2>2 DEF ApartInv
<1>9. CASE assignment[e] = None
  <2>1. <<"assign", e>> \in experimentRaced \/ \A x \in Excludes[e] : assignment[x] = None
    BY <1>2, <1>9 DEF ExperimentsInv, ApartInv, DecidedApart
  <2>2. ExclusiveUnlessRaced'
    <3> SUFFICES ASSUME NEW a \in Experiments, NEW x \in Experiments,
                        assignment'[a] # None, assignment'[x] # None,
                        x \in Excludes[a], a \in Excludes[x], a # x
                 PROVE  {<<"assign", a>>, <<"assign", x>>} \cap experimentRaced' # {}
      BY DEF ExclusiveUnlessRaced
    <3>1. CASE a = e
      BY <1>4, <1>7, <2>1, <3>1
    <3>2. CASE x = e
      BY <1>4, <1>7, <2>1, <3>2
    <3>3. CASE a # e /\ x # e
      BY <1>4, <1>7, <3>3 DEF ExperimentsInv, ApartInv, ExclusiveUnlessRaced
    <3> QED BY <3>1, <3>2, <3>3
  <2> QED BY <1>6, <2>2 DEF ApartInv
<1> QED BY <1>8, <1>9

LEMMA ApartInvariant == ExperimentsInv /\ [ExperimentsNext]_experimentVars => ApartInv'
BY ApartOthers, ApartEnsure

-----------------------------------------------------------------------------
(***************************************************************************)
(* The outcome counts.                                                     *)
(***************************************************************************)
LEMMA CountQuiet ==
    ASSUME ExperimentsInv, UNCHANGED <<counted>>,
           \A e \in Experiments :
              /\ attribution'[e].events = attribution[e].events
              /\ attribution[e].variant # None => attribution'[e].variant # None,
           \A e \in Experiments : <<"event", e>> \in experimentRaced' <=> <<"event", e>> \in experimentRaced,
           \A r \in Recorders : recording'[r] = recording[r] \/ recording'[r].open = {}
    PROVE  CountInv'
<1>1. \A r \in Recorders : recording[r].open \subseteq Experiments
  BY DEF ExperimentsInv, ExperimentsTypeOK, Recording
<1>2. ReadsCounted'
  <2> SUFFICES ASSUME NEW r \in Recorders, recording'[r] = recording[r], NEW e \in recording[r].open
               PROVE  /\ attribution'[e].variant # None
                      /\ recording[r].rows[e].events <= counted[e]
                      /\ <<"event", e>> \notin experimentRaced' =>
                            recording[r].rows[e].events = attribution'[e].events
    BY ZenonT(60) DEF ReadsCounted
  <2>1. e \in Experiments
    BY <1>1
  <2>2. /\ attribution[e].variant # None
        /\ recording[r].rows[e].events <= counted[e]
        /\ <<"event", e>> \notin experimentRaced => recording[r].rows[e].events = attribution[e].events
    BY DEF ExperimentsInv, CountInv, ReadsCounted
  <2> QED BY <2>1, <2>2
<1>3. EventsCounted'
  BY DEF ExperimentsInv, CountInv, EventsCounted
<1> QED BY <1>2, <1>3 DEF CountInv

LEMMA CountRead ==
    ASSUME ExperimentsInv, NEW r \in Recorders, ReadRows(r)
    PROVE  CountInv'
<1>t. ExperimentsTypeOK /\ RowsAgree
  BY DEF ExperimentsInv, AssignInv
<1>1. /\ recording'[r].rows = attribution
      /\ recording'[r].open = {e \in Experiments \ windowOver : attribution[e].variant # None}
      /\ \A o \in Recorders : o # r => recording'[o] = recording[o]
  BY <1>t, Reading
<1>2. UNCHANGED <<attribution, counted, experimentRaced>>
  BY DEF ReadRows, counts
<1>3. ReadsCounted'
  <2> SUFFICES ASSUME NEW o \in Recorders, NEW e \in recording'[o].open
               PROVE  /\ attribution[e].variant # None
                      /\ recording'[o].rows[e].events <= counted[e]
                      /\ <<"event", e>> \notin experimentRaced =>
                            recording'[o].rows[e].events = attribution[e].events
    BY <1>2 DEF ReadsCounted
  <2>1. CASE o = r
    BY <1>1, <2>1 DEF ExperimentsInv, CountInv, EventsCounted
  <2>2. CASE o # r
    BY <1>1, <2>2 DEF ExperimentsInv, CountInv, ReadsCounted
  <2> QED BY <2>1, <2>2
<1>4. EventsCounted'
  BY <1>2 DEF ExperimentsInv, CountInv, EventsCounted
<1> QED BY <1>3, <1>4 DEF CountInv

\* A count that is written is one more than what was read, and one event more was counted.
LEMMA CountWrite ==
    ASSUME ExperimentsInv, NEW r \in Recorders, WriteCounts(r)
    PROVE  CountInv'
<1>t. ExperimentsTypeOK /\ \A o \in Recorders : recording[o].open \subseteq Experiments
  BY DEF ExperimentsInv, ExperimentsTypeOK, Recording
<1>1. \A e \in Experiments :
         /\ attribution'[e].variant = attribution[e].variant
         /\ attribution'[e].events = IF e \in recording[r].open THEN recording[r].rows[e].events + 1
                                     ELSE attribution[e].events
  BY <1>t, Writing
<1>2. \A e \in Experiments : counted'[e] = IF e \in recording[r].open THEN counted[e] + 1 ELSE counted[e]
  BY DEF WriteCounts
<1>3. /\ recording'[r].open = {}
      /\ \A o \in Recorders : o # r => recording'[o] = recording[o]
  BY <1>t, RecorderEnds DEF WriteCounts
<1>4. /\ experimentRaced \subseteq experimentRaced'
      /\ \A e \in recording[r].open :
            (\E o \in Recorders \ {r} : e \in recording[o].open) => <<"event", e>> \in experimentRaced'
  BY DEF WriteCounts, Active
<1>5. \A e \in Experiments : /\ counted[e] \in Nat /\ attribution[e].events \in Nat
                             /\ \A o \in Recorders : recording[o].rows[e].events \in Nat
  BY <1>t DEF ExperimentsTypeOK, Attribution, Recording
<1>6. ReadsCounted'
  <2> SUFFICES ASSUME NEW o \in Recorders, o # r, NEW e \in recording[o].open
               PROVE  /\ attribution'[e].variant # None
                      /\ recording[o].rows[e].events <= counted'[e]
                      /\ <<"event", e>> \notin experimentRaced' =>
                            recording[o].rows[e].events = attribution'[e].events
    BY <1>3, ZenonT(60) DEF ReadsCounted
  <2>1. e \in Experiments
    BY <1>t
  <2>2. /\ attribution[e].variant # None
        /\ recording[o].rows[e].events <= counted[e]
        /\ <<"event", e>> \notin experimentRaced => recording[o].rows[e].events = attribution[e].events
    BY DEF ExperimentsInv, CountInv, ReadsCounted
  <2>3. recording[o].rows[e].events <= counted'[e]
    BY <1>2, <1>5, <2>1, <2>2
  <2>4. <<"event", e>> \notin experimentRaced' => e \notin recording[r].open
    BY <1>4
  <2> QED BY <1>1, <1>4, <2>1, <2>2, <2>3, <2>4
<1>7. EventsCounted'
  <2> SUFFICES ASSUME NEW e \in Experiments
               PROVE  /\ attribution'[e].events <= counted'[e]
                      /\ <<"event", e>> \notin experimentRaced' => attribution'[e].events = counted'[e]
    BY DEF EventsCounted
  <2>1. /\ attribution[e].events <= counted[e]
        /\ <<"event", e>> \notin experimentRaced => attribution[e].events = counted[e]
    BY DEF ExperimentsInv, CountInv, EventsCounted
  <2>2. CASE e \in recording[r].open
    <3>1. /\ recording[r].rows[e].events <= counted[e]
          /\ <<"event", e>> \notin experimentRaced => recording[r].rows[e].events = attribution[e].events
      BY <2>2 DEF ExperimentsInv, CountInv, ReadsCounted
    <3> QED BY <1>1, <1>2, <1>4, <1>5, <2>1, <2>2, <3>1
  <2>3. CASE e \notin recording[r].open
    BY <1>1, <1>2, <1>4, <2>1, <2>3
  <2> QED BY <2>2, <2>3
<1> QED BY <1>6, <1>7 DEF CountInv

LEMMA CountInvariant == ExperimentsInv /\ [ExperimentsNext]_experimentVars => CountInv'
<1> SUFFICES ASSUME ExperimentsInv, [ExperimentsNext]_experimentVars PROVE CountInv'
  OBVIOUS
<1>t. ExperimentsTypeOK /\ RowsAgree
  BY DEF ExperimentsInv, AssignInv
<1> USE DEF definitions, assigned, counts
<1>1. CASE UNCHANGED <<attribution, counted, experimentRaced, recording>>
  BY <1>1, CountQuiet
<1>2. ASSUME NEW c \in AssignClients, Ensure(c) PROVE CountInv'
  <2>1. experimentRaced' = experimentRaced \cup
          {<<"assign", assigning[o].key>> : o \in {o \in AssignClients \ {c} : assigning[o].pc = "decided"}}
    BY <1>2 DEF Ensure
  <2>2. \A e \in Experiments : <<"event", e>> \in experimentRaced' <=> <<"event", e>> \in experimentRaced
    BY <2>1
  <2>3. UNCHANGED <<attribution, counted, recording>>
    BY <1>2 DEF Ensure
  <2> QED BY <2>2, <2>3, CountQuiet
<1>3. ASSUME NEW c \in AssignClients, Attribute(c) PROVE CountInv'
  <2>1. \A e \in Experiments : /\ attribution'[e].events = attribution[e].events
                               /\ attribution[e].variant # None => attribution'[e].variant # None
    BY <1>t, <1>3, Attributing
  <2>2. UNCHANGED <<counted, recording, experimentRaced>>
    BY <1>3 DEF Attribute
  <2> QED BY <2>1, <2>2, CountQuiet
<1>4. ASSUME NEW r \in Recorders, WriteConversion(r) PROVE CountInv'
  <2>1. \A e \in Experiments : /\ attribution'[e].events = attribution[e].events
                               /\ attribution'[e].variant = attribution[e].variant
    BY <1>t, <1>4, Writing
  <2>2. \A o \in Recorders : recording'[o] = recording[o] \/ recording'[o].open = {}
    BY <1>t, <1>4, RecorderEnds DEF WriteConversion
  <2>3. UNCHANGED <<counted, experimentRaced>>
    BY <1>4 DEF WriteConversion
  <2> QED BY <2>1, <2>2, <2>3, CountQuiet
<1>5. ASSUME NEW r \in Recorders, RecordingDies(r) PROVE CountInv'
  <2>1. \A o \in Recorders : recording'[o] = recording[o] \/ recording'[o].open = {}
    BY <1>t, <1>5, RecorderEnds DEF RecordingDies
  <2>2. UNCHANGED <<attribution, counted, experimentRaced>>
    BY <1>5 DEF RecordingDies
  <2> QED BY <2>1, <2>2, CountQuiet
<1>6. ASSUME \/ UNCHANGED experimentVars
             \/ \E e \in Experiments :
                   Configure(e) \/ WindowEnds(e) \/ \E c \in AssignClients : ReadDefinition(c, e)
             \/ \E c \in AssignClients : Decide(c) \/ AnswerVariant(c) \/ AssignDies(c)
      PROVE  UNCHANGED <<attribution, counted, experimentRaced, recording>>
  BY <1>6 DEF experimentVars, Configure, WindowEnds, ReadDefinition, Decide, AnswerVariant, AssignDies
<1> QED BY <1>1, <1>2, <1>3, <1>4, <1>5, <1>6, CountRead, CountWrite DEF ExperimentsNext

-----------------------------------------------------------------------------
LEMMA Invariance == ExperimentsSpec => []ExperimentsInv
<1>1. ExperimentsInv /\ [ExperimentsNext]_experimentVars => ExperimentsInv'
  BY TypeInvariant, AssignInvariant, ApartInvariant, CountInvariant DEF ExperimentsInv
<1> QED BY ExperimentsInitially, <1>1, PTL DEF ExperimentsSpec

\* Every variable of the experiments keeps its type.
THEOREM ExperimentsTypeCorrect == ExperimentsSpec => []ExperimentsTypeOK
<1>1. ExperimentsInv => ExperimentsTypeOK
  BY DEF ExperimentsInv
<1> QED BY <1>1, Invariance, PTL

\* Concurrent requests that drew from different versions of a registry are all
\* answered with the variant that was stored first, exposed and attributed, and it
\* is traced once; rows are missing only while a request is under way, or has died.
THEOREM FirstAssignmentWins == ExperimentsSpec => []FirstAssignmentStands
<1>1. ExperimentsInv => FirstAssignmentStands
  <2> SUFFICES ASSUME ExperimentsInv, NEW e \in Experiments
               PROVE  LET pending == {c \in AssignClients :
                                         assigning[c].key = e /\ assigning[c].pc \in {"ensured", "attributed"}}
                      IN /\ answered[e] \subseteq {attribution[e].variant} \ {None}
                         /\ traced[e] <= 1
                         /\ assignment[e] # None =>
                              /\ ConsistencyIssues(e) \subseteq {"attribution missing"}
                              /\ ConsistencyIssues(e) # {} /\ experimentDied[e] = 0 => pending # {}
                              /\ traced[e] = 0 /\ experimentDied[e] = 0 => \E c \in pending : assigning[c].created
    BY DEF FirstAssignmentStands
  <2> DEFINE pending == {c \in AssignClients :
                            assigning[c].key = e /\ assigning[c].pc \in {"ensured", "attributed"}}
  <2>1. /\ exposure[e] = assignment[e]
        /\ attribution[e].variant \in {None, assignment[e]}
        /\ answered[e] \subseteq {attribution[e].variant} \ {None}
        /\ traced[e] <= 1
    BY DEF ExperimentsInv, AssignInv, RowsAgree, CreatedOnce
  <2>2. attribution[e] = NoAttribution <=> attribution[e].variant = None
    BY Missing DEF ExperimentsInv, ExperimentsTypeOK, AssignInv, RowsAgree
  <2>3. ASSUME assignment[e] # None
        PROVE  /\ ConsistencyIssues(e) \subseteq {"attribution missing"}
               /\ ConsistencyIssues(e) # {} => attribution[e].variant = None
    <3>1. ConsistencyIssues(e) =
            {i \in {"exposure variant", "attribution missing", "attribution variant"} :
                CASE i = "exposure variant" -> exposure[e] # assignment[e]
                  [] i = "attribution missing" -> attribution[e] = NoAttribution
                  [] i = "attribution variant" -> attribution[e].variant \notin {None, exposure[e]}}
      BY <2>1, <2>3 DEF ConsistencyIssues
    <3> QED BY <2>1, <2>2, <3>1
  <2>4. ASSUME assignment[e] # None, experimentDied[e] = 0
        PROVE  /\ attribution[e].variant = None => pending # {}
               /\ traced[e] = 0 => \E c \in pending : assigning[c].created
    BY <2>4 DEF ExperimentsInv, AssignInv, StillToCome, Created, Stored
  <2> QED BY <2>1, <2>3, <2>4
<1> QED BY <1>1, Invariance, PTL

\* Two experiments that exclude one another are not both assigned, unless requests
\* for both were decided side by side.
THEOREM ExclusionHolds == ExperimentsSpec => []ExclusiveUnlessRaced
<1>1. ExperimentsInv => ExclusiveUnlessRaced
  BY DEF ExperimentsInv, ApartInv
<1> QED BY <1>1, Invariance, PTL

\* No outcome event is counted twice, and one that found a window open is lost only
\* to a record_event call that overlapped.
THEOREM EventsAreCounted == ExperimentsSpec => []EventsCounted
<1>1. ExperimentsInv => EventsCounted
  BY DEF ExperimentsInv, CountInv
<1> QED BY <1>1, Invariance, PTL

-----------------------------------------------------------------------------
(***************************************************************************)
(* A registry's row and its audit trail (Registry), for any operators and  *)
(* any number of their requests.                                           *)
(***************************************************************************)
\* What is known of a command under way.  Until another request saves, the row is as it was
\* when it was read; what was loaded lets the command pass; without an audit entry there is
\* no row, and no command has loaded one.
CommandsStand ==
    \A o \in Operators :
        LET r == operator[o]
        IN /\ r.pc \in {"built", "loaded"} /\ ~r.explicit /\ ~r.stale => (registry.killed => r.command.killed)
           /\ r.pc = "loaded" =>
                /\ r.command.status \in Moves(r.loaded.status) /\ Valid(r.command)
                /\ ~r.stale => r.loaded = registry
                /\ audits = <<>> => r.loaded = NoRow

\* The row follows the trail: there is none without an entry, and after a save that
\* overlapped none it is what the entry says.
RowFollowsTrail ==
    /\ audits = <<>> => registry = NoRow
    /\ audits # <<>> =>
        /\ registry.status # "none"
        /\ ~audits[Len(audits)].overlapped => registry = audits[Len(audits)].new

RegistryInv == RegistryTypeOK /\ CommandsStand /\ RowFollowsTrail /\ TrailIsTrue

-----------------------------------------------------------------------------
\* A merged row is a row; merged into the row that was loaded, it is the command.
LEMMA MergedIsRow ==
    ASSUME NEW r \in Operator, registry \in Row
    PROVE  /\ Merged(r) \in Row
           /\ Merged(r).status = IF r.command.status # r.loaded.status THEN r.command.status ELSE registry.status
           /\ Merged(r).killed = IF r.command.killed # r.loaded.killed THEN r.command.killed ELSE registry.killed
           /\ Merged(r).config = IF r.command.config # r.loaded.config THEN r.command.config ELSE registry.config
<1>1. DOMAIN NoRow = {"status", "killed", "config"}
  BY DEF NoRow
<1>2. r.command \in Row /\ r.loaded \in Row
  BY DEF Operator
<1>. QED  BY <1>1, <1>2, Z3 DEF Merged, Row, Statuses, Configs

LEMMA MergedUnchanged ==
    ASSUME NEW r \in Operator, registry \in Row, r.loaded = registry
    PROVE  Merged(r) = r.command
<1>1. r.command \in Row
  BY DEF Operator
<1>2. Merged(r) \in Row
  BY MergedIsRow
<1>. QED  BY <1>1, <1>2, MergedIsRow DEF Row

-----------------------------------------------------------------------------
\* Every action but Save leaves the row and the trail alone.
Quietly == \E o \in Operators :
    \/ UpsertExperiment(o) \/ UpsertPolicy(o) \/ UpsertTemplate(o)
    \/ Pause(o) \/ Archive(o) \/ Kill(o) \/ CheckResume(o) \/ Resume(o)
    \/ Load(o) \/ OperatorFails(o)

LEMMA SaveOrQuietly == RegistryNext => Quietly \/ \E o \in Operators : Save(o)
BY DEF RegistryNext, Quietly

LEMMA RegistryInitially == RegistryInit => RegistryInv
<1>. SUFFICES ASSUME RegistryInit PROVE RegistryInv
  OBVIOUS
<1>. USE DEF RegistryInit
<1>1. RegistryTypeOK
  BY RegistryAssumption DEF RegistryTypeOK, NoOperator, Operator, NoRow, Row, Statuses, Configs
<1>2. CommandsStand
  BY DEF CommandsStand, NoOperator
<1>3. RowFollowsTrail
  BY DEF RowFollowsTrail
<1>4. TrailIsTrue
  BY DEF TrailIsTrue
<1>. QED  BY <1>1, <1>2, <1>3, <1>4 DEF RegistryInv

\* One operator's request becomes r, which keeps what CommandsStand asks of it.
LEMMA OneCommand ==
    ASSUME RegistryInv, NEW o \in Operators, NEW r \in Operator, NEW n \in 0 .. MaxRegistryOps,
           operator' = [operator EXCEPT ![o] = r], registryOps' = n, UNCHANGED <<kind, registry, audits>>,
           r.pc \in {"built", "loaded"} /\ ~r.explicit /\ ~r.stale => (registry.killed => r.command.killed),
           r.pc = "loaded" =>
                /\ r.command.status \in Moves(r.loaded.status) /\ Valid(r.command)
                /\ ~r.stale => r.loaded = registry
                /\ audits = <<>> => r.loaded = NoRow
    PROVE  RegistryInv'
<1>1. RegistryTypeOK'
  BY DEF RegistryInv, RegistryTypeOK
<1>2. CommandsStand'
  <2>. SUFFICES ASSUME NEW p \in Operators
                PROVE  /\ operator'[p].pc \in {"built", "loaded"} /\ ~operator'[p].explicit /\ ~operator'[p].stale =>
                              (registry.killed => operator'[p].command.killed)
                       /\ operator'[p].pc = "loaded" =>
                              /\ operator'[p].command.status \in Moves(operator'[p].loaded.status)
                              /\ Valid(operator'[p].command)
                              /\ ~operator'[p].stale => operator'[p].loaded = registry
                              /\ audits = <<>> => operator'[p].loaded = NoRow
    BY Zenon DEF CommandsStand, Moves, ExperimentMoves, PolicyMoves, TemplateMoves, Valid,
        ExperimentValid, PolicyValid, TemplateValid
  <2>1. operator'[p] = IF p = o THEN r ELSE operator[p]
    BY DEF RegistryInv, RegistryTypeOK
  <2>. QED  BY <2>1 DEF RegistryInv, CommandsStand
<1>3. RowFollowsTrail'
  BY DEF RegistryInv, RowFollowsTrail
<1>4. TrailIsTrue'
  <2>. HIDE DEF Valid
  <2>. QED  BY Zenon DEF RegistryInv, TrailIsTrue, Valid, ExperimentValid, PolicyValid, TemplateValid
<1>. QED  BY <1>1, <1>2, <1>3, <1>4 DEF RegistryInv

LEMMA QuietlyKeepsInv == RegistryInv /\ Quietly => RegistryInv'
<1>. SUFFICES ASSUME RegistryInv, NEW o \in Operators,
                     \/ UpsertExperiment(o) \/ UpsertPolicy(o) \/ UpsertTemplate(o)
                     \/ Pause(o) \/ Archive(o) \/ Kill(o) \/ CheckResume(o) \/ Resume(o)
                     \/ Load(o) \/ OperatorFails(o)
              PROVE  RegistryInv'
  BY DEF Quietly
<1>. USE RegistryAssumption
<1>1. /\ registry \in Row /\ registryOps \in 0 .. MaxRegistryOps
      /\ operator[o] \in Operator /\ operator \in [Operators -> Operator]
  BY DEF RegistryInv, RegistryTypeOK
<1>2. NoOperator \in Operator
  BY DEF NoOperator, Operator, NoRow, Row, Statuses, Configs
<1>3. ASSUME NEW r \in Operator, operator' = [operator EXCEPT ![o] = r], r.pc \in {"checked", "built"},
             registryOps < MaxRegistryOps, registryOps' = registryOps + 1, UNCHANGED <<kind, registry, audits>>,
             r.pc = "built" /\ ~r.explicit => (registry.killed => r.command.killed)
      PROVE  RegistryInv'
  <2>1. registryOps + 1 \in 0 .. MaxRegistryOps
    BY <1>1, <1>3
  <2>. QED  BY <1>3, <2>1, OneCommand
<1>4. ASSUME NEW c \in Row, Command(o, c) PROVE RegistryInv'
  <2> DEFINE r == [NoOperator EXCEPT !.pc = "built", !.command = c, !.explicit = TRUE]
  <2>1. r \in Operator /\ r.pc = "built" /\ r.explicit
    BY DEF NoOperator, Operator, NoRow, Row, Statuses, Configs
  <2>. HIDE DEF r
  <2>. QED  BY <1>3, <1>4, <2>1 DEF Command, Enter, r
<1>5. ASSUME NEW c \in Row, registry.killed => c.killed, Build(o, c), UNCHANGED <<kind, registry, audits>> PROVE RegistryInv'
  <2> DEFINE r == [NoOperator EXCEPT !.pc = "built", !.command = c]
  <2>1. r \in Operator /\ r.pc = "built" /\ r.command = c
    BY DEF NoOperator, Operator, NoRow, Row, Statuses, Configs
  <2>. HIDE DEF r
  <2>. QED  BY <1>3, <1>5, <2>1 DEF Build, Enter, r
<1>6. CASE UpsertExperiment(o) \/ UpsertPolicy(o) \/ UpsertTemplate(o)
  BY <1>4, <1>6 DEF UpsertExperiment, UpsertPolicy, UpsertTemplate
<1>7. CASE Pause(o) \/ Archive(o)
  <2>1. ASSUME NEW s \in Statuses
        PROVE  WithStatus(registry, s) \in Row /\ WithStatus(registry, s).killed = registry.killed
    BY <1>1 DEF WithStatus, Row
  <2>. QED  BY <1>5, <1>7, <2>1 DEF Pause, Archive, Statuses
<1>8. CASE Kill(o)
  <2>1. [registry EXCEPT !.killed = TRUE] \in Row /\ [registry EXCEPT !.killed = TRUE].killed
    BY <1>1 DEF Row
  <2>. QED  BY <1>5, <1>8, <2>1 DEF Kill
<1>9. CASE CheckResume(o)
  <2> DEFINE r == [NoOperator EXCEPT !.pc = "checked"]
  <2>1. r \in Operator /\ r.pc = "checked"
    BY <1>2 DEF NoOperator, Operator
  <2>. HIDE DEF r
  <2>. QED  BY <1>3, <1>9, <2>1 DEF CheckResume, Enter, r
<1>10. CASE Resume(o)
  <2> DEFINE r == [operator[o] EXCEPT !.pc = "built", !.command = WithStatus(registry, "active")]
  <2>1. r \in Operator /\ r.pc = "built" /\ (registry.killed => r.command.killed)
    BY <1>1 DEF WithStatus, Row, Operator, Statuses
  <2>2. operator' = [operator EXCEPT ![o] = r]
    BY <1>10 DEF Resume
  <2>3. registryOps' = registryOps /\ UNCHANGED <<kind, registry, audits>>
    BY <1>10 DEF Resume
  <2>. HIDE DEF r
  <2>. QED  BY <1>1, <2>1, <2>2, <2>3, OneCommand
<1>11. ASSUME operator' = [operator EXCEPT ![o] = NoOperator], UNCHANGED <<kind, registry, audits, registryOps>>
       PROVE  RegistryInv'
  <2>1. NoOperator.pc = "idle"
    BY DEF NoOperator
  <2>. QED  BY <1>1, <1>2, <1>11, <2>1, OneCommand
<1>12. CASE Load(o)
  <2>1. CASE Valid(operator[o].command) /\ operator[o].command.status \in Moves(registry.status)
    <3> DEFINE r == [operator[o] EXCEPT !.pc = "loaded", !.loaded = registry]
    <3>1. /\ r \in Operator /\ r.pc = "loaded" /\ r.loaded = registry /\ r.command = operator[o].command
          /\ r.explicit = operator[o].explicit /\ r.stale = operator[o].stale
      BY <1>1 DEF Operator
    <3>2. operator' = [operator EXCEPT ![o] = r]
      BY <1>12, <2>1 DEF Load
    <3>3. audits = <<>> => r.loaded = NoRow
      BY <3>1 DEF RegistryInv, RowFollowsTrail
    <3>4. ~r.explicit /\ ~r.stale => (registry.killed => r.command.killed)
      BY <1>12, <3>1 DEF Load, RegistryInv, CommandsStand
    <3>. HIDE DEF r
    <3>. QED  BY <1>1, <1>12, <2>1, <3>1, <3>2, <3>3, <3>4, OneCommand DEF Load
  <2>. QED  BY <1>11, <1>12, <2>1 DEF Load, Leave
<1>13. CASE OperatorFails(o)
  BY <1>11, <1>13 DEF OperatorFails, Leave
<1>. QED  BY <1>6, <1>7, <1>8, <1>9, <1>10, <1>12, <1>13

-----------------------------------------------------------------------------
\* What an entry calls the change.
LEMMA ActionNamed ==
    ASSUME NEW r \in Operator, kind \in Kinds, r.command # NoRow
    PROVE  ActionOf(r) = IF r.loaded = NoRow THEN "created" ELSE "updated"
BY DEF ActionOf, ExperimentAction, PolicyAction, TemplateAction, Kinds

LEMMA SaveKeepsInv ==
    ASSUME RegistryInv, NEW o \in Operators, Save(o)
    PROVE  RegistryInv'
<1> DEFINE r == operator[o]
           n == Len(audits)
           entry == AuditOf(r)
<1>1. /\ r \in Operator /\ r.pc = "loaded" /\ registry \in Row /\ kind \in Kinds /\ registryOps \in 0 .. MaxRegistryOps
      /\ r.command \in Row /\ r.loaded \in Row /\ r.stale \in BOOLEAN
      /\ audits \in Seq(Audit) /\ operator \in [Operators -> Operator]
  BY DEF RegistryInv, RegistryTypeOK, Save, Operator
<1>2. NoOperator \in Operator /\ NoOperator.pc = "idle"
  BY DEF NoOperator, Operator, NoRow, Row, Statuses, Configs
<1>3. CASE UNCHANGED <<registry, audits>> /\ Leave(o)
  <2>1. registryOps' = registryOps /\ UNCHANGED <<kind, registry, audits>>
    BY <1>3 DEF Save
  <2>. QED  BY <1>1, <1>2, <1>3, <2>1, OneCommand DEF Leave
<1>4. CASE /\ ~(r.loaded = NoRow /\ registry # NoRow)
           /\ registry' = Merged(r)
           /\ audits' = Append(audits, entry)
           /\ operator' = [p \in Operators |->
                 IF p = o \/ operator[p].pc = "idle" THEN NoOperator ELSE [operator[p] EXCEPT !.stale = TRUE]]
           /\ UNCHANGED <<kind, registryOps>>
  <2>1. /\ r.command.status # "none" /\ Valid(r.command)
        /\ ~r.stale => r.loaded = registry
        /\ audits = <<>> => r.loaded = NoRow
    BY <1>1 DEF RegistryInv, CommandsStand, Valid
  <2>2. r.loaded = NoRow <=> audits = <<>>
    <3>1. registry = NoRow => audits = <<>>
      BY DEF RegistryInv, RowFollowsTrail, NoRow
    <3>. QED  BY <1>4, <2>1, <3>1
  <2>3. /\ entry.action = IF audits = <<>> THEN "created" ELSE "updated"
        /\ entry.previous = r.loaded /\ entry.new = r.command /\ entry.overlapped = r.stale
        /\ entry \in Audit
    <3>1. r.command # NoRow
      BY <2>1 DEF NoRow
    <3>2. ActionOf(r) = IF audits = <<>> THEN "created" ELSE "updated"
      BY <1>1, <2>2, <3>1, ActionNamed
    <3>3. ActionOf(r) \in Actions
      BY <3>2 DEF Actions
    <3>. HIDE DEF r
    <3>. QED  BY <1>1, <3>2, <3>3 DEF AuditOf, Audit
  <2>4. Merged(r) \in Row /\ Merged(r).status # "none"
    <3>1. Merged(r) \in Row
      BY <1>1, MergedIsRow
    <3>2. Merged(r).status = IF r.command.status # r.loaded.status THEN r.command.status ELSE registry.status
      BY <1>1, MergedIsRow
    <3>3. audits # <<>> => registry.status # "none"
      BY DEF RegistryInv, RowFollowsTrail
    <3>4. audits = <<>> => r.loaded.status = "none"
      BY <2>1 DEF NoRow
    <3>. QED  BY <2>1, <3>1, <3>2, <3>3, <3>4
  <2>5. r.loaded = registry => Merged(r) = r.command
    BY <1>1, MergedUnchanged
  <2>6. /\ audits' \in Seq(Audit) /\ n \in Nat /\ Len(audits') = n + 1 /\ audits' # <<>>
        /\ audits'[n + 1] = entry /\ \A i \in 1 .. n : audits'[i] = audits[i]
    <3>. HIDE DEF entry
    <3>. QED  BY <1>1, <1>4, <2>3
  <2>. HIDE DEF entry, n
  <2>7. RegistryTypeOK'
    <3>1. operator' \in [Operators -> Operator]
      <4>1. ASSUME NEW p \in Operators PROVE [operator[p] EXCEPT !.stale = TRUE] \in Operator
        BY <1>1 DEF Operator
      <4>. QED  BY <1>2, <1>4, <4>1
    <3>. QED  BY <1>1, <1>4, <2>4, <2>6, <3>1 DEF RegistryTypeOK
  <2>8. CommandsStand'
    <3>. SUFFICES ASSUME NEW p \in Operators
                  PROVE  /\ operator'[p].pc \in {"built", "loaded"} => operator'[p].stale
                         /\ operator'[p].pc = "loaded" =>
                              /\ operator'[p].command.status \in Moves(operator'[p].loaded.status)
                              /\ Valid(operator'[p].command)
      <4>1. UNCHANGED kind /\ audits' # <<>>
        BY <1>4, <2>6
      <4>. QED  BY <4>1, Zenon DEF CommandsStand, Moves, ExperimentMoves, PolicyMoves, TemplateMoves, Valid,
                     ExperimentValid, PolicyValid, TemplateValid
    <3>1. operator'[p] = IF p = o \/ operator[p].pc = "idle" THEN NoOperator ELSE [operator[p] EXCEPT !.stale = TRUE]
      BY <1>4
    <3>2. operator[p] \in Operator
      BY <1>1
    <3>3. operator'[p].pc = "idle" \/ (/\ operator'[p].pc = operator[p].pc /\ operator'[p].command = operator[p].command
                                       /\ operator'[p].loaded = operator[p].loaded /\ operator'[p].stale)
      BY <1>2, <3>1, <3>2 DEF Operator
    <3>. QED  BY <3>3 DEF RegistryInv, CommandsStand
  <2>9. RowFollowsTrail'
    BY <1>4, <2>1, <2>3, <2>4, <2>5, <2>6 DEF RowFollowsTrail
  <2>10. TrailIsTrue'
    <3> DEFINE Before(i) == IF i = 1 THEN NoRow ELSE audits[i - 1].new
               BeforeNext(i) == IF i = 1 THEN NoRow ELSE audits'[i - 1].new
               Chain == \A i \in 1 .. n : audits[i].previous = Before(i)
    <3>1. \A i \in 1 .. n + 1 : BeforeNext(i) = Before(i)
      BY <2>6
    <3>2. n = 0 <=> audits = <<>>
      BY <1>1 DEF n
    <3>3. ASSUME NEW i \in 1 .. n + 1
          PROVE  /\ ~audits'[i].overlapped /\ ~(i - 1 > 0 /\ audits'[i - 1].overlapped) =>
                        audits'[i].previous = BeforeNext(i)
                 /\ audits'[i].action = IF i = 1 THEN "created" ELSE "updated"
      <4>1. CASE i \in 1 .. n
        BY <2>6, <3>1, <4>1 DEF RegistryInv, TrailIsTrue, n
      <4>2. CASE i = n + 1
        <5>1. n > 0 /\ ~audits[n].overlapped => registry = audits[n].new
          BY <3>2 DEF RegistryInv, RowFollowsTrail, n
        <5>2. n = 0 => registry = NoRow
          BY <3>2 DEF RegistryInv, RowFollowsTrail
        <5>3. ~entry.overlapped => entry.previous = registry
          BY <2>1, <2>3
        <5>. QED  BY <2>3, <2>6, <3>1, <3>2, <4>2, <5>1, <5>2, <5>3
      <4>. QED  BY <2>6, <4>1, <4>2
    <3>4. ASSUME \A i \in 1 .. n + 1 : audits'[i].previous = BeforeNext(i)
          PROVE  registry' = audits'[n + 1].new /\ Valid(r.command)
      <4>1. Chain
        BY <2>6, <3>1, <3>4, SMTT(30)
      <4>2. IF n = 0 THEN registry = NoRow ELSE registry = audits[n].new
        BY <4>1 DEF RegistryInv, TrailIsTrue, n
      <4>3. entry.previous = Before(n + 1)
        BY <2>6, <3>1, <3>4, SMTT(30)
      <4>4. r.loaded = registry
        BY <2>3, <2>6, <4>2, <4>3
      <4>. QED  BY <1>4, <2>1, <2>3, <2>5, <2>6, <4>4
    <3>5. Valid(registry)' <=> Valid(registry')
      BY <1>4, Zenon DEF Valid, ExperimentValid, PolicyValid, TemplateValid
    <3>. QED  BY <2>3, <2>6, <3>3, <3>4, <3>5 DEF TrailIsTrue
  <2>. QED  BY <2>7, <2>8, <2>9, <2>10 DEF RegistryInv
<1>. QED  BY <1>3, <1>4 DEF Save

-----------------------------------------------------------------------------
LEMMA StutterKeepsInv == RegistryInv /\ UNCHANGED registryVars => RegistryInv'
<1>. SUFFICES ASSUME RegistryInv, UNCHANGED registryVars PROVE RegistryInv'
  OBVIOUS
<1>1. UNCHANGED <<kind, registry, audits, operator, registryOps>>
  BY DEF registryVars
<1>2. RegistryTypeOK' /\ RowFollowsTrail'
  BY <1>1 DEF RegistryInv, RegistryTypeOK, RowFollowsTrail
<1>3. CommandsStand'
  BY <1>1, ZenonT(40) DEF RegistryInv, CommandsStand, Moves, ExperimentMoves, PolicyMoves, TemplateMoves, Valid,
      ExperimentValid, PolicyValid, TemplateValid
<1>4. TrailIsTrue'
  BY <1>1, Zenon DEF RegistryInv, TrailIsTrue, Valid, ExperimentValid, PolicyValid, TemplateValid
<1>. QED  BY <1>2, <1>3, <1>4 DEF RegistryInv

LEMMA InvAlways == RegistrySpec => []RegistryInv
<1>1. RegistryInv /\ [RegistryNext]_registryVars => RegistryInv'
  BY SaveOrQuietly, QuietlyKeepsInv, SaveKeepsInv, StutterKeepsInv
<1>. QED  BY RegistryInitially, <1>1, PTL DEF RegistrySpec

\* The registry's variables keep their types.
THEOREM RegistryTypeCorrect == RegistrySpec => []RegistryTypeOK
<1>1. RegistryInv => RegistryTypeOK
  BY DEF RegistryInv
<1>. QED  BY InvAlways, <1>1, PTL

\* The audit trail is continued by every save that overlaps none, explains the row as
\* long as its entries continue one another, and tells the creation from the rest.
THEOREM TrailExplainsRow == RegistrySpec => []TrailIsTrue
<1>1. RegistryInv => TrailIsTrue
  BY DEF RegistryInv
<1>. QED  BY InvAlways, <1>1, PTL

\* Only a command that says so, or one that was under way, turns a kill switch off, and
\* nothing but one that was under way brings an archived row back.
THEOREM KillsAndArchivesStand == RegistrySpec => DecisionsStick
<1> DEFINE Sticks ==
      \A o \in Operators : Saves(o) /\ ~operator[o].stale =>
          /\ registry.killed /\ ~registry'.killed => operator[o].explicit
          /\ registry.status = "archived" => registry'.status = "archived"
<1>1. RegistryInv /\ [RegistryNext]_registryVars => [Sticks]_registryVars
  <2>. SUFFICES ASSUME RegistryInv, RegistryNext, NEW o \in Operators, Saves(o), ~operator[o].stale
                PROVE  /\ registry.killed /\ ~registry'.killed => operator[o].explicit
                       /\ registry.status = "archived" => registry'.status = "archived"
    BY DEF Sticks
  <2>1. PICK p \in Operators : Save(p)
    <3>1. Quietly => UNCHANGED audits
      BY DEF Quietly, UpsertExperiment, UpsertPolicy, UpsertTemplate, Command, Pause, Archive, Kill, CheckResume,
          Resume, Load, OperatorFails
    <3>. QED  BY <3>1, SaveOrQuietly DEF Saves
  <2>2. /\ registry' = Merged(operator[p])
        /\ operator' = [q \in Operators |-> IF q = p \/ operator[q].pc = "idle" THEN NoOperator
                                            ELSE [operator[q] EXCEPT !.stale = TRUE]]
    BY <2>1 DEF Save, Saves
  <2>3. operator[o] \in Operator /\ operator[o].pc = "loaded"
    BY DEF Saves, RegistryInv, RegistryTypeOK
  <2>4. o = p
    <3>1. o # p => operator'[o].pc = "loaded"
      BY <2>2, <2>3 DEF Operator
    <3>. QED  BY <3>1 DEF Saves
  <2>5. operator[o].loaded = registry /\ operator[o].command.status \in Moves(registry.status)
    BY <2>3 DEF RegistryInv, CommandsStand
  <2>6. registry' = operator[o].command
    BY <2>2, <2>3, <2>4, <2>5, MergedUnchanged DEF RegistryInv, RegistryTypeOK
  <2>7. registry.killed /\ ~registry'.killed => operator[o].explicit
    BY <2>3, <2>6 DEF RegistryInv, CommandsStand
  <2>8. registry.status = "archived" => registry'.status = "archived"
    BY <2>5, <2>6 DEF RegistryInv, RegistryTypeOK, Kinds, Moves, ExperimentMoves, PolicyMoves, TemplateMoves
  <2>. QED  BY <2>7, <2>8
<1>. QED  BY InvAlways, <1>1, PTL DEF RegistrySpec, DecisionsStick
=============================================================================

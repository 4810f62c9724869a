----------------------------- MODULE Experiments -----------------------------
(***************************************************************************)
(* One user and the experiments: assign, with its assignment, exposure,    *)
(* attribution and trace, under concurrent requests and a registry that    *)
(* changes meanwhile, and the outcome events that attribution counts.      *)
(* What hashing makes of the user is part of a definition.                 *)
(***************************************************************************)
EXTENDS Integers, FiniteSets

CONSTANTS
    Experiments,        \* experiment keys
    Variants,           \* variant names, Baseline among them
    Baseline,
    Excludes,           \* Excludes[e]: mutually_exclusive_with of e
    Requires,           \* Requires[e]: prerequisite_experiments of e
    AssignClients,      \* concurrent assign requests
    Recorders,          \* concurrent record_event calls
    MaxExperimentOps    \* bound: assigns, events and changes of a definition

ASSUME ExperimentsAssumption ==
    /\ Experiments # {}
    /\ Baseline \in Variants
    /\ Excludes \in [Experiments -> SUBSET Experiments]
    /\ Requires \in [Experiments -> SUBSET Experiments]
    /\ MaxExperimentOps \in Nat

None == "none"
ASSUME NoneIsNoVariant == None \notin Variants /\ "closed" \notin Variants

VARIABLES
    definition,     \* experiment_registries, as this user meets it
    assignment,     \* experiment_assignments.variant, None without a row
    exposure,       \* experiment_exposures.variant, None without a row
    attribution,    \* experiment_outcome_attributions
    traced,         \* assignment traces written for each experiment
    windowOver,     \* experiments whose attribution window has ended
    assigning,      \* the assign requests
    recording,      \* the record_event calls
    experimentOps,  \* how many of MaxExperimentOps there were
    answered,       \* the variants that requests which passed Ensure answered
    counted,        \* events that recorded each experiment's row
    experimentRaced,\* experiments with an overlap of assign requests or of record_event calls
    experimentDied  \* requests that died before they answered, per experiment

definitions == <<definition, windowOver>>
assigned == <<assignment, exposure, traced, answered, experimentDied>>
counts == <<attribution, counted>>
experimentVars == <<definitions, assigned, counts, assigning, recording, experimentOps, experimentRaced>>

\* Not assignable, or what eligibility, rollout, holdout and weights make of the user:
\* nothing, or a variant, Baseline in the holdout.
Closed == "closed"
Definition == Variants \cup {None, Closed}
Attribution == [variant : Variants \cup {None}, events : Nat, converted : BOOLEAN]
AssignSteps == {"idle", "defined", "decided", "ensured", "attributed"}
Assigning == [pc : AssignSteps, key : Experiments, definition : Definition,
              variant : Variants, created : BOOLEAN]
Recording == [pc : {"idle", "read"}, rows : [Experiments -> Attribution], open : SUBSET Experiments]

NoAttribution == [variant |-> None, events |-> 0, converted |-> FALSE]
AnyExperiment == CHOOSE e \in Experiments : TRUE
NoAssigning == [pc |-> "idle", key |-> AnyExperiment, definition |-> Closed, variant |-> Baseline,
                created |-> FALSE]
NoRecording == [pc |-> "idle", rows |-> [e \in Experiments |-> NoAttribution], open |-> {}]

ExperimentsInit ==
    /\ definition = [e \in Experiments |-> Baseline]
    /\ windowOver = {}
    /\ assignment = [e \in Experiments |-> None]
    /\ exposure = [e \in Experiments |-> None]
    /\ attribution = [e \in Experiments |-> NoAttribution]
    /\ traced = [e \in Experiments |-> 0]
    /\ assigning = [c \in AssignClients |-> NoAssigning]
    /\ recording = [r \in Recorders |-> NoRecording]
    /\ experimentOps = 0
    /\ answered = [e \in Experiments |-> {}]
    /\ counted = [e \in Experiments |-> 0]
    /\ experimentRaced = {}
    /\ experimentDied = [e \in Experiments |-> 0]

-----------------------------------------------------------------------------
\* An operator changes a registry; see module Registry for how.
Configure(e) ==
    /\ experimentOps < MaxExperimentOps
    /\ \E d \in Definition : definition' = [definition EXCEPT ![e] = d]
    /\ experimentOps' = experimentOps + 1
    /\ UNCHANGED <<windowOver, assigned, counts, assigning, recording, experimentRaced>>

WindowEnds(e) ==
    /\ attribution[e] # NoAttribution
    /\ windowOver' = windowOver \cup {e}
    /\ UNCHANGED <<definition, assigned, counts, assigning, recording, experimentOps, experimentRaced>>

-----------------------------------------------------------------------------
(***************************************************************************)
(* assign.  An experiment that is not assignable is refused.               *)
(***************************************************************************)
ReadDefinition(c, e) ==
    /\ assigning[c].pc = "idle"
    /\ experimentOps < MaxExperimentOps
    /\ experimentOps' = experimentOps + 1
    /\ definition[e] # Closed
    /\ assigning' = [assigning EXCEPT ![c] = [NoAssigning EXCEPT !.pc = "defined", !.key = e, !.definition = definition[e]]]
    /\ UNCHANGED <<definitions, assigned, counts, recording, experimentRaced>>

\* Slip: mutually exclusive experiments are not looked at.
IsEligibleAnyway(e, d) ==
    /\ d # None
    /\ \A p \in Requires[e] : assignment[p] # None

IsEligible(e, d) ==
    /\ d # None
    /\ \A p \in Requires[e] : assignment[p] # None
    /\ \A x \in Excludes[e] : assignment[x] = None

\* An existing assignment stands; a user who is not eligible or not in the rollout
\* is answered with the baseline and leaves no row.
Decide(c) ==
    /\ assigning[c].pc = "defined"
    /\ LET e == assigning[c].key
           d == assigning[c].definition
           Decided(v) == assigning' = [assigning EXCEPT ![c].pc = "decided", ![c].definition = Closed,
                                                                ![c].variant = v]
       IN \/ assignment[e] # None /\ Decided(assignment[e])
          \/ assignment[e] = None /\ IsEligible(e, d)
             /\ Decided(d)
          \/ assignment[e] = None /\ ~IsEligible(e, d)
             /\ assigning' = [assigning EXCEPT ![c] = NoAssigning]
    /\ UNCHANGED <<definitions, assigned, counts, recording, experimentOps, experimentRaced>>

\* Slip: the variant that lost the race is answered.
OwnVariant(stored, v) == v

\* create_once of the assignment: the row that is there wins.
Winner(stored, v) == IF stored = None THEN v ELSE stored

\* One transaction.  The exposure is inserted with the assignment's variant; its rollback
\* on a conflict undoes no insert, as an exposure never exists without its assignment.
Ensure(c) ==
    /\ assigning[c].pc = "decided"
    /\ LET e == assigning[c].key
           v == Winner(assignment[e], assigning[c].variant)
       IN /\ assignment' = [assignment EXCEPT ![e] = Winner(@, v)]
          /\ exposure' = [exposure EXCEPT ![e] = Winner(@, v)]
          /\ assigning' = [assigning EXCEPT ![c].pc = "ensured", ![c].variant = v,
                                            ![c].created = exposure[e] = None]
          /\ experimentRaced' = experimentRaced \cup
                {<<"assign", assigning[o].key>> : o \in {o \in AssignClients \ {c} : assigning[o].pc = "decided"}}
    /\ UNCHANGED <<definitions, traced, answered, experimentDied, counts, recording, experimentOps>>

\* ensure_exposure of the attribution, a transaction of its own.
Attribute(c) ==
    /\ assigning[c].pc = "ensured"
    /\ LET e == assigning[c].key IN
        attribution' = IF attribution[e] = NoAttribution
                       THEN [attribution EXCEPT ![e].variant = assigning[c].variant] ELSE attribution
    /\ assigning' = [assigning EXCEPT ![c].pc = "attributed"]
    /\ UNCHANGED <<definitions, assigned, counted, recording, experimentOps, experimentRaced>>

\* The event, the trace and the health signal follow a new exposure only.
AnswerVariant(c) ==
    /\ assigning[c].pc = "attributed"
    /\ LET r == assigning[c] IN
        /\ traced' = IF r.created THEN [traced EXCEPT ![r.key] = @ + 1] ELSE traced
        /\ answered' = [answered EXCEPT ![r.key] = @ \cup {r.variant}]
        /\ assigning' = [assigning EXCEPT ![c] = NoAssigning]
    /\ UNCHANGED <<definitions, assignment, exposure, experimentDied, counts, recording, experimentOps,
                   experimentRaced>>

AssignDies(c) ==
    /\ assigning[c].pc # "idle"
    /\ experimentDied' = [experimentDied EXCEPT ![assigning[c].key] = @ + 1]
    /\ assigning' = [assigning EXCEPT ![c] = NoAssigning]
    /\ UNCHANGED <<definitions, assignment, exposure, traced, answered, counts, recording, experimentOps,
                   experimentRaced>>

-----------------------------------------------------------------------------
(***************************************************************************)
(* record_event: the rows of the user whose window is open are read, and   *)
(* written back with a count more, or as converted.                        *)
(***************************************************************************)
ReadRows(r) ==
    /\ recording[r].pc = "idle"
    /\ experimentOps < MaxExperimentOps
    /\ experimentOps' = experimentOps + 1
    /\ recording' = [recording EXCEPT ![r] =
            [pc |-> "read", rows |-> attribution,
             open |-> {e \in Experiments \ windowOver : attribution[e] # NoAttribution}]]
    /\ UNCHANGED <<definitions, assigned, counts, assigning, experimentRaced>>

\* Slip: every row of the user is updated, ended windows as well.
ActiveAnyway(x) == {e \in Experiments : attribution[e] # NoAttribution}

Active(x) == x.open

WriteCounts(r) ==
    /\ recording[r].pc = "read"
    /\ LET written == Active(recording[r]) IN
        /\ attribution' = [e \in Experiments |->
              IF e \in written THEN [attribution[e] EXCEPT !.events = recording[r].rows[e].events + 1]
              ELSE attribution[e]]
        /\ counted' = [e \in Experiments |-> IF e \in recording[r].open THEN counted[e] + 1 ELSE counted[e]]
        /\ experimentRaced' = experimentRaced \cup
              {"event"} \X {e \in written : \E o \in Recorders \ {r} : e \in recording[o].open}
    /\ recording' = [recording EXCEPT ![r] = NoRecording]
    /\ UNCHANGED <<definitions, assigned, assigning, experimentOps>>

\* upgrade_completed and subscription_upgraded; a converted row is left alone.
WriteConversion(r) ==
    /\ recording[r].pc = "read"
    /\ attribution' = [e \in Experiments |->
            IF e \in recording[r].open THEN [attribution[e] EXCEPT !.converted = TRUE] ELSE attribution[e]]
    /\ recording' = [recording EXCEPT ![r] = NoRecording]
    /\ UNCHANGED <<definitions, assigned, counted, assigning, experimentOps, experimentRaced>>

RecordingDies(r) ==
    /\ recording[r].pc = "read"
    /\ recording' = [recording EXCEPT ![r] = NoRecording]
    /\ UNCHANGED <<definitions, assigned, counts, assigning, experimentOps, experimentRaced>>

ExperimentsNext ==
    \/ \E e \in Experiments : Configure(e) \/ WindowEnds(e) \/ \E c \in AssignClients : ReadDefinition(c, e)
    \/ \E c \in AssignClients : Decide(c) \/ Ensure(c) \/ Attribute(c) \/ AnswerVariant(c) \/ AssignDies(c)
    \/ \E r \in Recorders : ReadRows(r) \/ WriteCounts(r) \/ WriteConversion(r) \/ RecordingDies(r)

ExperimentsSpec == ExperimentsInit /\ [][ExperimentsNext]_experimentVars

-----------------------------------------------------------------------------
ExperimentsTypeOK ==
    /\ definition \in [Experiments -> Definition]
    /\ windowOver \subseteq Experiments
    /\ assignment \in [Experiments -> Variants \cup {None}]
    /\ exposure \in [Experiments -> Variants \cup {None}]
    /\ attribution \in [Experiments -> Attribution]
    /\ traced \in [Experiments -> Nat]
    /\ assigning \in [AssignClients -> Assigning]
    /\ recording \in [Recorders -> Recording]
    /\ experimentOps \in 0 .. MaxExperimentOps
    /\ answered \in [Experiments -> SUBSET Variants]
    /\ counted \in [Experiments -> Nat]
    /\ experimentRaced \subseteq {"assign", "event"} \X Experiments
    /\ experimentDied \in [Experiments -> Nat]

\* What get_operator_report says of the user's rows.
ConsistencyIssues(e) ==
    IF assignment[e] = None THEN {}
    ELSE IF exposure[e] = None THEN {"exposure missing"}
    ELSE {i \in {"exposure variant", "attribution missing", "attribution variant"} :
            CASE i = "exposure variant" -> exposure[e] # assignment[e]
              [] i = "attribution missing" -> attribution[e] = NoAttribution
              [] i = "attribution variant" -> attribution[e].variant \notin {None, exposure[e]}}

\* "First canonical assignment": concurrent requests that draw from two versions of a
\* registry are all answered with the one variant that is stored, exposed and attributed,
\* and traced once.  The operator report has an issue, and the trace is missing, only
\* while a request is under way or after one has died.
FirstAssignmentStands ==
    \A e \in Experiments :
        LET pending == {c \in AssignClients : assigning[c].key = e /\ assigning[c].pc \in {"ensured", "attributed"}}
        IN /\ answered[e] \subseteq {attribution[e].variant} \ {None}
           /\ traced[e] <= 1
           /\ assignment[e] # None =>
                /\ ConsistencyIssues(e) \subseteq {"attribution missing"}
                /\ ConsistencyIssues(e) # {} /\ experimentDied[e] = 0 => pending # {}
                /\ traced[e] = 0 /\ experimentDied[e] = 0 => \E c \in pending : assigning[c].created

\* Two experiments that exclude one another are not both assigned, unless requests
\* for both were decided side by side.
ExclusiveUnlessRaced ==
    LET decided == {e \in Experiments : assignment[e] # None}
    IN \A e, x \in decided :
        x \in Excludes[e] /\ e \in Excludes[x] /\ e # x =>
            {<<"assign", e>>, <<"assign", x>>} \cap experimentRaced # {}

\* An event that found a row's window open is in its counts, unless two calls overlapped;
\* none is ever counted twice, and no event counts for a window that had ended.
EventsCounted ==
    \A e \in Experiments :
        /\ attribution[e].events <= counted[e]
        /\ <<"event", e>> \notin experimentRaced => attribution[e].events = counted[e]
=============================================================================

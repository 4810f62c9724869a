------------------------------- MODULE Content -------------------------------
(***************************************************************************)
(* What is made for a learner and the gate it must pass: rounds that       *)
(* SessionEngine.start_session builds from a recommendation and a second   *)
(* read of the learner's data, and lessons that LessonGenerationService    *)
(* renders from the active exercise templates and lets a language model    *)
(* rewrite.  Requests share nothing but the tables they read.              *)
(***************************************************************************)
EXTENDS Integers, Sequences, SequencesExt, FiniteSets

CONSTANTS
    Askers,             \* concurrent requests of the learner
    TemplateKeys,
    TemplateRows,       \* what operators save
    LearnerStates,      \* what the learner's data may come to
    MaxAsked,           \* bound: requests
    MaxContentChanges   \* bound: changes of the learner's data and of templates

VARIABLES
    gated,              \* whether the services were built with the gate; never changes
    learner,            \* what recommendations and rounds read of the learner
    templates,          \* the exercise templates by key
    contentChecks,      \* content_quality_checks, oldest first
    refusals,           \* session_generation_rejected events, by reference
    roundRows,          \* learning_sessions, by reference
    asking,             \* the requests
    asked, contentChanges

contentVars == <<gated, learner, templates, contentChecks, refusals, roundRows, asking, asked, contentChanges>>

\* The gate's generic names are "general"; any other name, grammar too, is "named".
Targets == {"none", "general", "named"}
Generic(t) == t \in {"none", "general"}

Actions == {"review_word", "learn_new_word", "practice_grammar", "conversation_drill"}
Recommendation == [action : Actions, target : Targets]
Rec(a, t) == [action |-> a, target |-> t]

\* Words that are due, the first weak area, the weakest cluster, the sparsest cluster,
\* a repeated mistake, and words at all.
Learner == [due : BOOLEAN, weak : Targets, cluster : Targets, pattern : BOOLEAN, words : BOOLEAN]

Objectives == {"recall", "discrimination", "correction", "reinforcement", "production"}
Template == [status : {"none", "active", "archived"}, objective : Objectives,
             type : {"fill_blank", "multiple_choice"}, source : {"target", "vocab"}, easy : BOOLEAN]
NoTemplate == [status |-> "none", objective |-> "recall", type |-> "fill_blank", source |-> "target",
               easy |-> FALSE]

ASSUME ContentAssumption ==
    /\ MaxAsked \in Nat /\ MaxContentChanges \in Nat
    /\ TemplateRows \subseteq Template /\ LearnerStates \subseteq Learner

\* An exercise names its template; answers and choices are told apart by where they come from.
Answers == {"", "target", "vocab", "filler", "own"}
Exercise == [template : TemplateKeys \cup {"default"}, objective : Objectives,
             type : {"fill_blank", "multiple_choice"},
             answer : Answers, choices : SUBSET (Answers \cup {"other", "more"})]

\* The payload of a phase of a round, and the four that the gate looks into.
Payload == [mode : {"review", "drill", "sentence", "rewrite", "none"}, target : Targets, keywords : BOOLEAN,
            corrected : BOOLEAN]
NoPayload == [mode |-> "none", target |-> "none", keywords |-> FALSE, corrected |-> FALSE]
Phases == {"warmup", "core_challenge", "correction_engine", "reinforcement"}

Artifacts == {"structured_session", "generated_lesson"}
ContentCheck == [ref : Nat, artifact : Artifacts, passed : BOOLEAN]

Asker == [pc : {"idle", "recommended", "built", "rendered", "merged", "checked"}, ref : Nat, artifact : Artifacts,
          rec : Recommendation, easy : BOOLEAN, round : [Phases -> Payload],
          blueprint : Seq(Exercise), lesson : Seq(Exercise), passed : BOOLEAN]
NoAsker == [pc |-> "idle", ref |-> 0, artifact |-> "structured_session", rec |-> Rec("learn_new_word", "none"),
            easy |-> FALSE, round |-> [p \in Phases |-> NoPayload],
            blueprint |-> <<>>, lesson |-> <<>>, passed |-> FALSE]

NewLearner == [due |-> FALSE, weak |-> "none", cluster |-> "none", pattern |-> FALSE, words |-> FALSE]

\* A learner and templates of whatever past.
ContentInit ==
    /\ gated \in BOOLEAN
    /\ learner \in LearnerStates \cup {NewLearner}
    /\ templates \in [TemplateKeys -> TemplateRows \cup {NoTemplate}]
    /\ contentChecks = <<>>
    /\ refusals = {}
    /\ roundRows = {}
    /\ asking = [q \in Askers |-> NoAsker]
    /\ asked = 0
    /\ contentChanges = 0

-----------------------------------------------------------------------------
(* Recommendations *)

FirstNamed(a, b) == IF a # "none" THEN a ELSE IF b # "none" THEN b ELSE "general"

\* _recommend_from_global_decision: a review needs no due word, and a drill no mistake.
FromGlobalDecision(l) ==
    {Rec("review_word", IF l.due THEN "named" ELSE "none"),
     Rec("conversation_drill", IF l.pattern THEN "named" ELSE "none"),
     Rec("learn_new_word", FirstNamed(l.weak, l.cluster))}

\* LearningRecommendationPolicy.choose, for an engine without the global decision: the
\* scores, the plan's features and the experiment that pick among these are left open.
FromPolicy(l) ==
    (IF l.due THEN {Rec("review_word", "named")} ELSE {})
    \cup (IF l.pattern THEN {Rec("conversation_drill", "named")} ELSE {})
    \cup {Rec("conversation_drill", "none"), Rec("practice_grammar", "named")}
    \cup {Rec("learn_new_word", t) : t \in {FirstNamed(l.weak, l.cluster), FirstNamed(l.cluster, "none")}}

Turn(q, r) == asking' = [asking EXCEPT ![q] = r]

\* start_session or generate_lesson begins; the recommendation and its trace are committed.
Recommend(q) ==
    /\ asking[q].pc = "idle" /\ asked < MaxAsked
    /\ asked' = asked + 1
    /\ \E a \in Artifacts, e \in BOOLEAN, r \in FromGlobalDecision(learner) \cup FromPolicy(learner) :
           Turn(q, [NoAsker EXCEPT !.pc = "recommended", !.ref = asked + 1, !.artifact = a, !.rec = r, !.easy = e])
    /\ UNCHANGED <<gated, learner, templates, contentChecks, refusals, roundRows, contentChanges>>

-----------------------------------------------------------------------------
(* Rounds *)

\* _target_weak_area: the focus of the recommendation; a review has none and falls back to
\* the learner's scores, clusters and mistakes.
WeakAreas(r) ==
    CASE r.action = "learn_new_word" -> {"general"}
      [] r.action \in {"practice_grammar", "conversation_drill"} -> {"named"}
      [] r.action = "review_word" -> {"general", "named"}

OrArea(t, area) == IF t = "none" THEN area ELSE t

\* The prompts: mode and target.
WarmupPrompt(r, area, l) ==
    IF l.due THEN [mode |-> "review", target |-> "named"] ELSE [mode |-> "drill", target |-> OrArea(r.target, area)]

CorePrompt(r, area) ==
    CASE r.action = "practice_grammar" -> [mode |-> "rewrite", target |-> "named"]
      [] r.action \in {"review_word", "conversation_drill"} -> [mode |-> "sentence", target |-> OrArea(r.target, area)]
      [] r.action = "learn_new_word" -> [mode |-> "drill", target |-> OrArea(r.target, area)]

\* The payloads say the mode and the keywords of both prompts, the target of the second only;
\* the correction and the reinforcement have texts for the learner and nothing else.
Round(warmup, core) ==
    [p \in Phases |->
        CASE p = "warmup" -> [NoPayload EXCEPT !.mode = warmup.mode, !.keywords = TRUE]
          [] p = "core_challenge" -> [NoPayload EXCEPT !.mode = core.mode, !.target = core.target, !.keywords = TRUE]
          [] OTHER -> NoPayload]

BuildRound(q) ==
    /\ asking[q].pc = "recommended" /\ asking[q].artifact = "structured_session"
    /\ \E area \in WeakAreas(asking[q].rec) :
           Turn(q, [asking[q] EXCEPT !.pc = "built",
                        !.round = Round(WarmupPrompt(asking[q].rec, area, learner), CorePrompt(asking[q].rec, area))])
    /\ UNCHANGED <<gated, learner, templates, contentChecks, refusals, roundRows, asked, contentChanges>>

\* _lint_structured_session: the phases with a critical violation.  The order, the length
\* and the size of the answer are constants that build_session writes in range.
RoundViolations(round) ==
    {p \in {"warmup", "core_challenge"} :
        \/ ~round[p].keywords
        \/ round[p].mode \in {"review", "drill", "sentence", "rewrite"} /\ Generic(round[p].target)}
    \cup {p \in {"reinforcement"} : ~round[p].corrected}
    \cup {p \in {"correction_engine"} : ~round[p].keywords}

\* The gate commits one row, whatever it found.
Check(q, passed) ==
    /\ contentChecks' = Append(contentChecks, [ref |-> asking[q].ref, artifact |-> asking[q].artifact, passed |-> passed])
    /\ Turn(q, [asking[q] EXCEPT !.pc = "checked", !.passed = passed])

CheckRound(q) ==
    /\ gated /\ asking[q].pc = "built"
    /\ Check(q, RoundViolations(asking[q].round) = {})
    /\ UNCHANGED <<gated, learner, templates, refusals, roundRows, asked, contentChanges>>

\* Without the gate _assert_session_quality looks at the order and the keywords of the challenge.
PassUngated(q) ==
    /\ ~gated
    /\ \/ asking[q].pc = "built" /\ asking[q].round["core_challenge"].keywords
       \/ asking[q].pc = "merged"
    /\ Turn(q, [asking[q] EXCEPT !.pc = "checked", !.passed = TRUE])
    /\ UNCHANGED <<gated, learner, templates, contentChecks, refusals, roundRows, asked, contentChanges>>

RejectRound(q) ==
    /\ asking[q].pc = "checked" /\ asking[q].artifact = "structured_session" /\ ~asking[q].passed
    /\ refusals' = refusals \cup {asking[q].ref}
    /\ Turn(q, NoAsker)
    /\ UNCHANGED <<gated, learner, templates, contentChecks, roundRows, asked, contentChanges>>

StoreRound(q) ==
    /\ asking[q].pc = "checked" /\ asking[q].artifact = "structured_session" /\ asking[q].passed
    /\ roundRows' = roundRows \cup {asking[q].ref}
    /\ Turn(q, NoAsker)
    /\ UNCHANGED <<gated, learner, templates, contentChecks, refusals, asked, contentChanges>>

-----------------------------------------------------------------------------
(* Lessons *)

ObjectivesFor(action) ==
    CASE action = "review_word" -> <<"recall", "reinforcement">>
      [] action = "learn_new_word" -> <<"discrimination", "recall">>
      [] action = "practice_grammar" -> <<"correction", "reinforcement">>
      [] action = "conversation_drill" -> <<"production", "discrimination">>

\* list_active with a difficulty and without, as get_lesson_blueprint falls back.
ActiveRows(o) == {k \in TemplateKeys : templates[k].status = "active" /\ templates[k].objective = o}

Candidates(action, easy) ==
    LET all == UNION {ActiveRows(o) : o \in ToSet(ObjectivesFor(action))}
        fit == {k \in all : templates[k].easy = easy}
    IN  IF fit = {} THEN all ELSE fit

\* _answer_value; the vocabulary and "target" are the fallbacks.
AnswerOf(source, target, words) ==
    CASE source = "target" /\ target # "none" -> "target"
      [] source = "vocab" /\ words -> "vocab"
      [] OTHER -> IF target # "none" THEN "target" ELSE IF words THEN "vocab" ELSE "filler"

\* Slip: the choices are the distractors alone.
ChoicesWithout(answer) == {"other", "more", "filler"}

\* _choices: the answer, then distractors or numbered options up to the count, three at least.
ChoicesFor(answer) == {answer, "other", "more"}

\* An exercise of a template, or of _fallback_blueprint; source as in the row.
Rendered(k, objective, type, source, target, words) ==
    LET answer == AnswerOf(source, target, words)
    IN  [template |-> k, objective |-> objective, type |-> type, answer |-> answer,
         choices |-> IF type = "multiple_choice" THEN ChoicesFor(answer) ELSE {}]

FallbackExercise(objective, target, words) ==
    Rendered("default", objective, IF objective = "discrimination" THEN "multiple_choice" ELSE "fill_blank",
             IF target # "none" THEN "target" ELSE "vocab", target, words)

RenderedRow(k, target, words) ==
    Rendered(k, templates[k].objective, templates[k].type, templates[k].source, target, words)

\* One row of an objective that has any; the code takes the first by difficulty and key, which
\* is left open.
OneRow(candidates, o, target, words) ==
    LET rows == {k \in candidates : templates[k].objective = o}
    IN  IF rows = {} THEN {<<>>} ELSE {<<RenderedRow(k, target, words)>> : k \in rows}

\* The objectives in their order.
Blueprints(action, easy, target, words) ==
    LET candidates == Candidates(action, easy)
        objectives == ObjectivesFor(action)
    IN  IF candidates = {}
        THEN {<<FallbackExercise(objectives[1], target, words), FallbackExercise(objectives[2], target, words)>>}
        ELSE {first \o second : first \in OneRow(candidates, objectives[1], target, words),
                                second \in OneRow(candidates, objectives[2], target, words)}

ReadBlueprint(q) ==
    /\ asking[q].pc = "recommended" /\ asking[q].artifact = "generated_lesson"
    /\ \E b \in Blueprints(asking[q].rec.action, asking[q].easy, asking[q].rec.target, learner.words) :
           Turn(q, [asking[q] EXCEPT !.pc = "rendered", !.blueprint = b])
    /\ UNCHANGED <<gated, learner, templates, contentChecks, refusals, roundRows, asked, contentChanges>>

\* What the model writes for a template; "absent" fields are not in its reply.
Reply == [answer : {"absent", "own", ""}, choices : {"absent", "own"}, type : {"absent", "fill_blank"}]

\* Slip: the type is what the model says.
MergedAsWritten(e, r) ==
    [e EXCEPT !.answer = IF r.answer = "absent" THEN @ ELSE r.answer,
              !.choices = IF r.choices = "absent" THEN @ ELSE {"own", "other", "more"},
              !.type = IF r.type = "absent" THEN @ ELSE r.type]

\* merge_generated_exercises: answer and choices are the model's, the rest the template's.
MergedExercise(e, r) ==
    [e EXCEPT !.answer = IF r.answer = "absent" THEN @ ELSE r.answer,
              !.choices = IF r.choices = "absent" THEN @ ELSE {"own", "other", "more"}]

\* What the lesson of a blueprint may come to.
Lessons(blueprint) ==
    LET written(i) == {MergedExercise(blueprint[i], r) : r \in Reply}
    IN  {l \in [DOMAIN blueprint -> UNION {written(i) : i \in DOMAIN blueprint}] :
            \A i \in DOMAIN blueprint : l[i] \in written(i)}

AskModel(q) ==
    /\ asking[q].pc = "rendered"
    /\ \E l \in Lessons(asking[q].blueprint) : Turn(q, [asking[q] EXCEPT !.pc = "merged", !.lesson = l])
    /\ UNCHANGED <<gated, learner, templates, contentChecks, refusals, roundRows, asked, contentChanges>>

\* _lint_generated_lesson, for one exercise and for the lesson.
SoundExercise(e) ==
    /\ e.type \in {"fill_blank", "multiple_choice"}
    /\ e.answer # ""
    /\ e.type = "multiple_choice" => Cardinality(e.choices \ {""}) >= 3 /\ e.answer \in e.choices

SoundLesson(exercises, target) ==
    /\ exercises # <<>>
    /\ \A e \in ToSet(exercises) : SoundExercise(e)
    /\ ~Generic(target)

CheckLesson(q) ==
    /\ gated /\ asking[q].pc = "merged"
    /\ Check(q, SoundLesson(asking[q].lesson, asking[q].rec.target))
    /\ UNCHANGED <<gated, learner, templates, refusals, roundRows, asked, contentChanges>>

\* The lesson, or ConflictError; neither leaves more than the check.
AnswerLesson(q) ==
    /\ asking[q].pc = "checked" /\ asking[q].artifact = "generated_lesson"
    /\ Turn(q, NoAsker)
    /\ UNCHANGED <<gated, learner, templates, contentChecks, refusals, roundRows, asked, contentChanges>>

-----------------------------------------------------------------------------
(* The rest of the system *)

\* A request that dies leaves what it committed.
AskerDies(q) ==
    /\ asking[q].pc # "idle"
    /\ Turn(q, NoAsker)
    /\ UNCHANGED <<gated, learner, templates, contentChecks, refusals, roundRows, asked, contentChanges>>

ContentChange ==
    /\ contentChanges < MaxContentChanges
    /\ contentChanges' = contentChanges + 1
    /\ UNCHANGED <<gated, contentChecks, refusals, roundRows, asking, asked>>

\* Reviews, sessions and new words; a cluster takes a word.
LearnerChanges ==
    /\ \E l \in LearnerStates : learner' = l
    /\ UNCHANGED templates
    /\ ContentChange

\* An operator saves a template; which commands are valid is in Registry.  The fixtures that
\* a promotion must pass have named targets and answers: the gate's rules never fail them.
SaveTemplate ==
    /\ \E k \in TemplateKeys :
           /\ \E row \in TemplateRows \cup {[templates[k] EXCEPT !.status = "archived"]} :
                  templates' = [templates EXCEPT ![k] = row]
           /\ templates[k].status # "none" => templates'[k].status \in {"archived", templates[k].status}
    /\ UNCHANGED learner
    /\ ContentChange

ContentNext ==
    \/ \E q \in Askers :
           \/ Recommend(q) \/ BuildRound(q) \/ CheckRound(q) \/ PassUngated(q) \/ RejectRound(q) \/ StoreRound(q)
           \/ ReadBlueprint(q) \/ AskModel(q) \/ CheckLesson(q) \/ AnswerLesson(q)
           \/ AskerDies(q)
    \/ LearnerChanges \/ SaveTemplate

ContentSpec == ContentInit /\ [][ContentNext]_contentVars

-----------------------------------------------------------------------------
(* Properties *)

\* Templates, checks, events, rounds and requests keep their types.
ContentTypeOK ==
    /\ gated \in BOOLEAN
    /\ learner \in Learner
    /\ templates \in [TemplateKeys -> Template]
    /\ contentChecks \in Seq(ContentCheck)
    /\ refusals \subseteq 1..MaxAsked /\ roundRows \subseteq 1..MaxAsked
    /\ asking \in [Askers -> Asker]
    /\ asked \in 0..MaxAsked
    /\ contentChanges \in 0..MaxContentChanges

LessonChecked(q) == asking[q].pc = "checked" /\ asking[q].artifact = "generated_lesson" /\ gated

\* Whatever the model writes and whatever operators and the learner change meanwhile, a
\* lesson that is answered has the exercises of its blueprint, each of the template's type
\* and objective with an answer that can be given, and leads to a named target.
LessonsKeepTheirTemplates ==
    \A q \in Askers : LessonChecked(q) /\ asking[q].passed =>
        /\ ~Generic(asking[q].rec.target)
        /\ Len(asking[q].lesson) = Len(asking[q].blueprint)
        /\ \A i \in DOMAIN asking[q].lesson :
               LET e == asking[q].lesson[i] b == asking[q].blueprint[i] IN
               /\ e.template = b.template /\ e.objective = b.objective /\ e.type = b.type
               /\ e.answer # ""
               /\ e.type = "multiple_choice" => e.answer \in e.choices

\* A lesson is refused for its target or for what the model wrote, never for a template.
RefusedForCause ==
    \A q \in Askers : LessonChecked(q) /\ ~asking[q].passed =>
        \/ Generic(asking[q].rec.target)
        \/ asking[q].lesson # asking[q].blueprint

\* A round that SessionEngine builds passes the gate that it is built for.
RoundsPassTheGate == \A i \in DOMAIN contentChecks : contentChecks[i].artifact = "structured_session" => contentChecks[i].passed

=============================================================================

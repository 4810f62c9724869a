------------------------------- MODULE Registry -------------------------------
(***************************************************************************)
(* One row of a registry that operators change: an experiment, a           *)
(* notification policy or an exercise template, and its audit trail.  A    *)
(* command is validated, the row is loaded, and the columns that differ    *)
(* from the loaded row are written with an audit entry.  pause, resume,    *)
(* kill and archive of an experiment build the command from the row, in a  *)
(* transaction before that.  Nothing is locked between the steps.          *)
(***************************************************************************)
EXTENDS Integers, Sequences

CONSTANTS
    Operators,          \* concurrent requests of operators
    MaxRegistryOps      \* bound: requests

ASSUME RegistryAssumption == MaxRegistryOps \in Nat

VARIABLES
    kind,               \* which registry the row belongs to; never changes
    registry,           \* the row
    audits,             \* its audit entries, oldest first
    operator,           \* the requests
    registryOps         \* requests so far

registryVars == <<kind, registry, audits, operator, registryOps>>

Kinds == {"experiment", "policy", "template"}
Statuses == {"none", "draft", "active", "paused", "archived"}    \* "none": no row
\* What is wrong with the other columns: nothing; an experiment is rolled out to 0 percent, or
\* its lists of keys or its eligibility repeat themselves; a policy's hours are out of range, or
\* its stages are not the six; a template's prompt asks for what no exercise has, of a kind of
\* exercise that has promotion fixtures or of one that has none.
Configs == {"fit", "off", "lists", "hours", "stages", "unrendered", "untested"}
Row == [status : Statuses, killed : BOOLEAN, config : Configs]
NoRow == [status |-> "none", killed |-> FALSE, config |-> "fit"]
Actions == {"created", "kill_switch_enabled", "kill_switch_disabled", "status_changed", "updated"}
Audit == [action : Actions, previous : Row, new : Row, overlapped : BOOLEAN]     \* overlapped: not in the code

\* "checked" only for a resume; `explicit` when an operator wrote the whole command;
\* `stale` when another request has saved since this one began.
Operator == [pc : {"idle", "checked", "built", "loaded"}, command : Row, loaded : Row,
             explicit : BOOLEAN, stale : BOOLEAN]
NoOperator == [pc |-> "idle", command |-> NoRow, loaded |-> NoRow, explicit |-> FALSE, stale |-> FALSE]

RegistryInit ==
    /\ kind \in Kinds
    /\ registry = NoRow
    /\ audits = <<>>
    /\ operator = [o \in Operators |-> NoOperator]
    /\ registryOps = 0

-----------------------------------------------------------------------------
\* _validate_transition of the three services.
ExperimentMoves(from) ==
    CASE from \in {"none", "draft"} -> {"draft", "active", "paused", "archived"}
      [] from \in {"active", "paused"} -> {"active", "paused", "archived"}
      [] from = "archived" -> {"archived"}

PolicyMoves(from) ==
    CASE from \in {"none", "draft"} -> {"draft", "active", "paused", "archived"}
      [] from \in {"active", "paused"} -> {"active", "paused", "archived"}
      [] from = "archived" -> {"archived"}

TemplateMoves(from) ==
    CASE from \in {"none", "draft"} -> {"draft", "active", "archived"}
      [] from = "active" -> {"active", "archived"}
      [] from = "archived" -> {"archived"}

Moves(from) ==
    CASE kind = "experiment" -> ExperimentMoves(from)
      [] kind = "policy" -> PolicyMoves(from)
      [] kind = "template" -> TemplateMoves(from)

\* What _validate_command lets pass.
ExperimentListsValid(c) == c.config # "lists"
ExperimentValid(c) ==
    /\ c.config \in {"fit", "off", "lists"} /\ ExperimentListsValid(c)
    /\ c.status = "active" /\ ~c.killed => c.config # "off"

PolicyStagesValid(c) == c.config # "stages"
PolicyValid(c) == c.config \in {"fit", "hours", "stages"} /\ PolicyStagesValid(c) /\ c.config # "hours"

\* Half of the ten kinds of exercise have fixtures, and the prompt is formatted for them
\* whatever the status; what the gate looks for in them they cannot lack.
FixturesRender(c) == c.config # "unrendered"

\* A template has no kill switch and is never paused.
TemplateValid(c) ==
    /\ c.config \in {"fit", "unrendered", "untested"} /\ FixturesRender(c)
    /\ ~c.killed /\ c.status # "paused"

Valid(c) ==
    /\ c.status # "none"
    /\ CASE kind = "experiment" -> ExperimentValid(c)
         [] kind = "policy" -> PolicyValid(c)
         [] kind = "template" -> TemplateValid(c)

-----------------------------------------------------------------------------
Enter(o, r) ==
    /\ operator[o].pc = "idle"
    /\ registryOps < MaxRegistryOps
    /\ registryOps' = registryOps + 1
    /\ operator' = [operator EXCEPT ![o] = r]

Leave(o) == operator' = [operator EXCEPT ![o] = NoOperator]

\* A command of the operator's own.
Command(o, c) ==
    /\ Valid(c)
    /\ Enter(o, [NoOperator EXCEPT !.pc = "built", !.command = c, !.explicit = TRUE])
    /\ UNCHANGED <<kind, registry, audits>>

UpsertExperiment(o) == kind = "experiment" /\ \E c \in Row : Command(o, c)
UpsertPolicy(o) == kind = "policy" /\ \E c \in Row : Command(o, c)
UpsertTemplate(o) == kind = "template" /\ \E c \in Row : Command(o, c)

\* Slip: the command is built with the kill switch off.
SwitchedOff(r, s) == [r EXCEPT !.status = s, !.killed = FALSE]

\* The command of pause, resume and archive: everything else as the row says.
WithStatus(r, s) == [r EXCEPT !.status = s]

Build(o, c) == Enter(o, [NoOperator EXCEPT !.pc = "built", !.command = c])

Pause(o) ==
    /\ kind = "experiment" /\ registry # NoRow
    /\ Build(o, WithStatus(registry, "paused"))
    /\ UNCHANGED <<kind, registry, audits>>

Archive(o) ==
    /\ kind = "experiment" /\ registry # NoRow
    /\ Build(o, WithStatus(registry, "archived"))
    /\ UNCHANGED <<kind, registry, audits>>

Kill(o) ==
    /\ kind = "experiment" /\ registry # NoRow
    /\ Build(o, [registry EXCEPT !.killed = TRUE])
    /\ UNCHANGED <<kind, registry, audits>>

\* A killed experiment does not resume; the row is read again for the command.
CheckResume(o) ==
    /\ kind = "experiment" /\ registry # NoRow /\ ~registry.killed
    /\ Enter(o, [NoOperator EXCEPT !.pc = "checked"])
    /\ UNCHANGED <<kind, registry, audits>>

Resume(o) ==
    /\ operator[o].pc = "checked"
    /\ operator' = [operator EXCEPT ![o].pc = "built", ![o].command = WithStatus(registry, "active")]
    /\ UNCHANGED <<kind, registry, audits, registryOps>>

\* The command is refused, or the row is read and its status may move to the command's.
Load(o) ==
    /\ operator[o].pc = "built"
    /\ IF Valid(operator[o].command) /\ operator[o].command.status \in Moves(registry.status)
       THEN operator' = [operator EXCEPT ![o].pc = "loaded", ![o].loaded = registry]
       ELSE Leave(o)
    /\ UNCHANGED <<kind, registry, audits, registryOps>>

\* The flush writes the columns in which the command differs from the loaded row.
Merged(r) ==
    [col \in DOMAIN NoRow |-> IF r.command[col] # r.loaded[col] THEN r.command[col] ELSE registry[col]]

\* _audit_action of the services.
ExperimentAction(existing, c) ==
    CASE existing = NoRow -> "created"
      [] existing # NoRow /\ ~existing.killed /\ c.killed -> "kill_switch_enabled"
      [] existing # NoRow /\ existing.killed /\ ~c.killed -> "kill_switch_disabled"
      [] existing # NoRow /\ existing.killed = c.killed -> IF existing.status # c.status THEN "status_changed" ELSE "updated"

PolicyAction(existing, c) == ExperimentAction(existing, c)

TemplateAction(existing, c) ==
    CASE existing = NoRow -> "created"
      [] existing # NoRow -> IF existing.status # c.status THEN "status_changed" ELSE "updated"

\* It is asked after upsert has written the command into the very row object that get had
\* returned, because a session has one object for a row.
ActionOf(r) ==
    LET existing == IF r.loaded = NoRow THEN NoRow ELSE r.command
    IN CASE kind = "experiment" -> ExperimentAction(existing, r.command)
         [] kind = "policy" -> PolicyAction(existing, r.command)
         [] kind = "template" -> TemplateAction(existing, r.command)

\* Slip: the entry's previous configuration is taken after the change.
AuditAfter(r) == [action |-> ActionOf(r), previous |-> r.command, new |-> r.command, overlapped |-> r.stale]

AuditOf(r) == [action |-> ActionOf(r), previous |-> r.loaded, new |-> r.command, overlapped |-> r.stale]

\* The status column of the templates has a check that knows no drafts.
Storable(r) == kind = "template" => r.status \in {"active", "archived"}

\* Two inserts of the same key: the later one fails.
Save(o) ==
    /\ operator[o].pc = "loaded"
    /\ IF (operator[o].loaded = NoRow /\ registry # NoRow) \/ ~Storable(Merged(operator[o]))
       THEN Leave(o) /\ UNCHANGED <<registry, audits>>
       ELSE /\ registry' = Merged(operator[o])
            /\ audits' = Append(audits, AuditOf(operator[o]))
            /\ operator' = [p \in Operators |->
                  IF p = o \/ operator[p].pc = "idle" THEN NoOperator
                  ELSE [operator[p] EXCEPT !.stale = TRUE]]
    /\ UNCHANGED <<kind, registryOps>>

OperatorFails(o) ==
    /\ operator[o].pc # "idle"
    /\ Leave(o)
    /\ UNCHANGED <<kind, registry, audits, registryOps>>

RegistryNext ==
    \E o \in Operators :
        \/ UpsertExperiment(o) \/ UpsertPolicy(o) \/ UpsertTemplate(o)
        \/ Pause(o) \/ Archive(o) \/ Kill(o) \/ CheckResume(o) \/ Resume(o)
        \/ Load(o) \/ Save(o) \/ OperatorFails(o)

RegistrySpec == RegistryInit /\ [][RegistryNext]_registryVars

-----------------------------------------------------------------------------
RegistryTypeOK ==
    /\ kind \in Kinds
    /\ registry \in Row
    /\ audits \in Seq(Audit)
    /\ operator \in [Operators -> Operator]
    /\ registryOps \in 0 .. MaxRegistryOps

Saves(o) == audits' # audits /\ operator[o].pc = "loaded" /\ operator'[o].pc = "idle"

\* A kill switch that is on is turned off only by a command that says so, and an archived
\* row stays archived, unless by a request under way when it was killed or archived: a
\* pause that read the row before the kill undoes it.
DecisionsStick ==
    [][\A o \in Operators : Saves(o) /\ ~operator[o].stale =>
          /\ registry.killed /\ ~registry'.killed => operator[o].explicit
          /\ registry.status = "archived" => registry'.status = "archived"]_registryVars

\* The audit trail tells when it can be trusted: a save that overlapped no other, and came
\* after one that did not either, continues it, and as long as the entries continue one
\* another, their last configuration is the row, and the row is one that a command could have
\* asked for.  A merge of two commands that were each valid breaks all of these.  What an
\* entry calls the change tells the creation from the rest and nothing else.
TrailIsTrue ==
    LET n == Len(audits)
        Before(i) == IF i = 1 THEN NoRow ELSE audits[i - 1].new
        Overlapped(i) == i > 0 /\ audits[i].overlapped
    IN /\ \A i \in 1 .. n : /\ ~Overlapped(i) /\ ~Overlapped(i - 1) => audits[i].previous = Before(i)
                            /\ audits[i].action = IF i = 1 THEN "created" ELSE "updated"
       /\ (\A i \in 1 .. n : audits[i].previous = Before(i)) =>
             IF n = 0 THEN registry = NoRow ELSE registry = audits[n].new /\ Valid(registry)
=============================================================================

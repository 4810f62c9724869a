\* One round for one learner, whatever is known of the learner.
SPECIFICATION ContentSpec
CONSTANTS
    Askers = {a1}
    TemplateKeys = {t1}
    TemplateRows = {}
    LearnerStates <- Learner
    MaxAsked = 1
    MaxContentChanges = 1
INVARIANT RoundsPassTheGate
CHECK_DEADLOCK FALSE

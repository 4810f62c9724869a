\* One evaluation that dies between two of its commits.
SPECIFICATION Spec
CONSTANTS
    Sessions = {s1}
    Submissions = {m1}
    Clients = {c1}
    NoResult = NoResult
    MaxSubmits = 2
    MaxFaults = 1
INVARIANT EvaluationAtomic
CHECK_DEADLOCK FALSE

\* Two sessions of a user, two concurrent requests, submissions that are sent again, one fault.
SPECIFICATION Spec
CONSTANTS
    Sessions = {s1, s2}
    Submissions = {m1, m2}
    Clients = {c1, c2}
    NoResult = NoResult
    MaxSubmits = 3
    MaxFaults = 1
INVARIANTS HalfAppliedNeedsFault LostNeedsOverlap
PROPERTY KeepsPromise
CHECK_DEADLOCK FALSE

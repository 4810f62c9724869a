\* With a second worker a read that waited for a command may not contain it.
SPECIFICATION Spec
CONSTANTS
    Keys = {k1, k2}
    ZeroKeys = {}
    Modes = {"hot"}
    Clients = {c1}
    Workers = {w1, w2}
    Readers = {r1}
    BatchSizes = {1}
    MaxQueue = 3
    OverloadDepth = 3
    MaxSends = 1
    MaxAborts = 0
    None = None
INVARIANT ReadYourWrites
CHECK_DEADLOCK FALSE

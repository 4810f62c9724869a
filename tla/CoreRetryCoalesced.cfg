\* A coalesced command leaves no trace of its key, and its retry is credited again.
SPECIFICATION Spec
CONSTANTS
    Keys = {k1, k2, k3}
    ZeroKeys = {}
    Modes = {"hot"}
    Clients = {c1}
    Workers = {w1}
    Readers = {}
    BatchSizes = {1}
    MaxQueue = 3
    OverloadDepth = 1
    MaxSends = 2
    MaxAborts = 0
    None = None
INVARIANT KeyCreditedOnce
CHECK_DEADLOCK FALSE
